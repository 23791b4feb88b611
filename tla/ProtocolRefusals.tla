-------------------------- MODULE ProtocolRefusals --------------------------
(***************************************************************************)
(* Proofs about what the players of a game refuse: what the last event     *)
(* says, what players remember of it and of the hand, which cards they     *)
(* know to have come out and have keys for, and that a player who has seen *)
(* the last event takes what the host asks for, but in the cases named by  *)
(* RefusalsExplained.                                                      *)
(***************************************************************************)
EXTENDS ProtocolCards
-----------------------------------------------------------------------------
\* What the last event says

(* Where the last event shows the hand as it is.                           *)
Current ==
  {"FirstEffect", "Turn", "Play", "Again", "PlayAgain", "Nothing", "Effect", "Challenge",
   "EndTurn", "HandReveal", "HandSign"}

\* A draw in a turn of which no card has been drawn yet.
Undrawn == pc \in {"Draw", "Shuffle"} /\ job.done = 0 /\ job.then \in {"Again", "Turn", "EndTurn"}

CurrentInv == job.done \in Nat /\ (pc \in Current \/ Undrawn => event.hand = HandNow)

(* The event is what has been sent.                                        *)
LEMMA Sent ==
  ASSUME NEW type, NEW h, Send(type, h)
  PROVE  /\ event' = [type |-> type, scores |-> scores, dealer |-> dealer, hand |-> h]
         /\ event'.type = type /\ event'.scores = scores /\ event'.dealer = dealer /\ event'.hand = h
BY DEF Send

LEMMA HandNowStays == UNCHANGED <<deck, held, discard, color>> => HandNow' = HandNow
BY DEF HandNow, CardsRemaining

\* The step leaves what events are about alone.
SameHand == UNCHANGED <<deck, held, discard, color, event>>

LEMMA StillCurrent ==
  ASSUME CurrentInv, SameHand, job'.done \in Nat,
         pc' \in Current \/ Undrawn' => pc \in Current \/ Undrawn
  PROVE  CurrentInv'
BY HandNowStays DEF CurrentInv, SameHand

LEMMA NotCurrent ==
  ASSUME job'.done \in Nat, pc' \notin Current, ~Undrawn'
  PROVE  CurrentInv'
BY DEF CurrentInv

LEMMA HostCurrents ==
  ASSUME ProtocolInv, TableInv, CardsInv, CurrentInv, Host
  PROVE  CurrentInv'
<1> USE DEF Current
<1>1. job.done \in Nat /\ Shape
  BY DEF CurrentInv, ProtocolInv
<1>2. CASE Announce
  <2>1. event'.hand = HandNow /\ UNCHANGED <<deck, held, discard, color, job>>
    BY <1>2, Sent DEF Announce, table
  <2> QED
    BY <1>1, <2>1, HandNowStays DEF CurrentInv
<1>3. CASE StartGame \/ GameStarted \/ StartHand \/ AfterHand \/ GameEnded \/ PlayerRefuses
  <2>1. job' = job /\ pc' \in Early \cup Terminal \cup {"GameEnd"}
    BY <1>3 DEF StartGame, GameStarted, StartHand, AfterHand, GameEnded, PlayerRefuses, Early, Terminal
  <2> QED
    BY <1>1, <2>1, NotCurrent DEF Early, Terminal, Undrawn
<1>4. CASE HandStarted
  <2>1. /\ job' = job \/ job' = NoJob
        /\ pc' = "Panicked" \/ job' = NoJob
    BY <1>4 DEF HandStarted
  <2>2. pc' \in {"Panicked", "Shuffle"}
    BY <1>4 DEF HandStarted, Shuffle
  <2> QED
    BY <1>1, <2>1, <2>2, NotCurrent DEF NoJob, Undrawn
<1>5. CASE Reshuffle \/ PassOn
  <2>1. SameHand /\ job' = job
    BY <1>5 DEF Reshuffle, PassOn, table, told, SameHand
  <2>2. pc \in {"Draw", "Shuffle"} /\ pc' \in {"Shuffle", "Failed"}
    BY <1>5 DEF Reshuffle, PassOn, Shuffle, Back
  <2> QED
    BY <1>1, <2>1, <2>2, StillCurrent DEF Undrawn
<1>6. CASE ShuffleDone \/ DealTo \/ KeysGiven \/ TurnUp \/ FirstColor
  <2>1. job' = job /\ pc' \in {"Shuffled", "Keys", "Give", "Panicked", "FirstKeys", "FirstShown"}
    BY <1>6 DEF ShuffleDone, DealTo, KeysGiven, TurnUp, FirstColor
  <2> QED
    BY <1>1, <2>1, NotCurrent DEF Undrawn
<1>7. CASE Deal
  <2>1. \/ job' = job /\ pc' = "FirstCard"
        \/ job'.done = 0 /\ pc' = "Draw" /\ job'.then = "Deal"
    BY <1>7 DEF Deal, StartDraw
  <2> QED
    BY <1>1, <2>1, NotCurrent DEF Undrawn
<1>8. CASE CardGiven
  <2>1. job'.done = job.done + 1 /\ pc' \in {"Draw", "Drawn"}
    BY <1>1, <1>8 DEF CardGiven, Shape, NoJob
  <2> QED
    BY <1>1, <2>1, NotCurrent DEF Undrawn
<1>9. CASE TurnedUp
  <2>1. job'.done = 0 /\ pc' \in {"Failed", "FirstColor", "FirstShown"}
    BY <1>9 DEF TurnedUp
  <2> QED
    BY <2>1, NotCurrent DEF Undrawn
<1>10. CASE CardPlayed \/ HandSigned
  <2>1. job' = job /\ pc' \in {"Failed", "Discarded", "HandOver"}
    BY <1>10 DEF CardPlayed, HandSigned
  <2> QED
    BY <1>1, <2>1, NotCurrent DEF Undrawn
<1>11. CASE \/ AskPlay \/ NothingPlayed \/ NextDrawsTwo \/ AskChallenge \/ ChallengeDecided
            \/ NoEffect \/ EndTurn \/ HandRevealed
  <2>1. SameHand
    BY <1>11 DEF AskPlay, NothingPlayed, NextDrawsTwo, AskChallenge, ChallengeDecided, NoEffect,
                 EndTurn, HandRevealed, table, told, wires, SameHand
  <2>2. pc \in Current
    BY <1>11 DEF AskPlay, NothingPlayed, NextDrawsTwo, AskChallenge, ChallengeDecided, NoEffect,
                 EndTurn, HandRevealed, PlayComesBack, Back
  <2>3. job' = job \/ job'.done = 0
    <3>1. CASE HandRevealed
      BY <3>1, Zenon DEF HandRevealed
    <3> QED
      BY <1>11, <3>1 DEF AskPlay, NothingPlayed, NextDrawsTwo, AskChallenge, ChallengeDecided,
                         NoEffect, EndTurn, StartDraw
  <2> QED
    BY <1>1, <2>1, <2>2, <2>3, StillCurrent
<1> QED
  BY <1>2, <1>3, <1>4, <1>5, <1>6, <1>7, <1>8, <1>9, <1>10, <1>11 DEF Host

\* What players and late events do not change.
HostStays == UNCHANGED <<pc, table, game, passing, turn, job, event>>

LEMMA OthersLeaveHost ==
  ASSUME (\E p \in Players : Player(p)) \/ Arrive \/ UNCHANGED vars
  PROVE  HostStays
BY DEF Player, Arrive, vars, wires, told, HostStays

LEMMA CurrentStays == CurrentInv /\ HostStays => CurrentInv'
BY HandNowStays DEF CurrentInv, HostStays, Undrawn, Current, table
-----------------------------------------------------------------------------
\* The events up to the first turn

DealtEvent == event.type = "HandStartCardDealt"

AllDrawFours == \A i \in DOMAIN discard : Value(discard[i]) = WildDrawFour

\* All but the last of them.
DrawFoursBelow == \A i \in DOMAIN discard : i # Len(discard) => Value(discard[i]) = WildDrawFour

LEMMA DrawFoursStay ==
  ASSUME UNCHANGED discard
  PROVE  (AllDrawFours => AllDrawFours') /\ (DrawFoursBelow => DrawFoursBelow')
BY DEF AllDrawFours, DrawFoursBelow

(* When the first card is turned up the last event was about the deal, or  *)
(* about a wild draw four that lies there.                                 *)
FirstInv ==
  /\ pc \in Drawing /\ job.then = "Deal" => job.event = "HandStartCardDealt"
  /\ pc = "Deal" /\ DOMAIN held # {} => DealtEvent /\ event.hand.discard = discard
  /\ pc \in {"FirstCard", "FirstKeys"} =>
       /\ discard = <<>> => DealtEvent
       /\ event.hand.discard = discard /\ AllDrawFours
  /\ pc = "FirstColor" /\ Len(discard) = 1 => DealtEvent
  /\ pc \in {"FirstColor", "FirstShown"} => DrawFoursBelow

LEMMA NothingFirst ==
  ASSUME pc' \notin FirstOnes \cup Drawing \cup {"Deal"}
  PROVE  FirstInv'
BY DEF FirstInv, FirstOnes, Drawing

LEMMA FirstStays ==
  ASSUME FirstInv, UNCHANGED <<pc, job, held, event, discard>>
  PROVE  FirstInv'
BY DrawFoursStay DEF FirstInv, DealtEvent, Drawing

LEMMA AnnounceFirsts ==
  ASSUME Shape, Sound, FirstInv, Announce
  PROVE  FirstInv'
<1>1. /\ pc \in {"Shuffled", "Drawn", "FirstShown", "FirstEffect", "Nothing", "Discarded",
                 "HandOver", "Effect"}
      /\ pc' = Announcement[2] /\ UNCHANGED <<held, discard, job>>
      /\ event'.type = Announcement[1] /\ event'.hand.discard = discard
  BY Sent DEF Announce, table, HandNow
<1>2. CASE pc = "Shuffled"
  <2>1. pc' = IF job = NoJob THEN "Deal" ELSE "Draw"
    BY <1>1, <1>2 DEF Announcement
  <2>2. IF job = NoJob THEN held = <<>> ELSE job.then # "Deal"
    BY <1>2 DEF Sound, Place, Doomed, Fresh
  <2>3. DOMAIN <<>> = {}
    BY EmptyIsSeq
  <2> QED
    BY <1>1, <2>1, <2>2, <2>3 DEF FirstInv, Drawing
<1>3. CASE pc = "Drawn"
  <2>1. pc' = job.then /\ event'.type = job.event
    BY <1>1, <1>3 DEF Announcement
  <2> QED
    BY <1>1, <1>3, <2>1 DEF FirstInv, DealtEvent, Drawing, Shape
<1>4. CASE pc = "FirstShown"
  <2>1. pc' = AfterFirst
    BY <1>1, <1>4 DEF Announcement
  <2>2. CASE TopValue = WildDrawFour
    <3>1. pc' = "FirstCard"
      BY <2>1, <2>2 DEF AfterFirst, WildDrawFour, DrawTwo, Skip, Reverse
    <3>2. IsSeq(discard) /\ discard # <<>>
      BY <1>4 DEF Shape, Sound, Place, FirstOnes, Doomed
    <3>3. Len(discard) \in DOMAIN discard /\ Seqs!Last(discard) = discard[Len(discard)]
      BY <3>2, SeqFacts, FrontAndLast
    <3>4. AllDrawFours
      BY <1>4, <2>2, <3>3 DEF FirstInv, DrawFoursBelow, AllDrawFours, TopValue
    <3>5. AllDrawFours'
      BY <1>1, <3>4, DrawFoursStay
    <3> QED
      BY <1>1, <3>1, <3>2, <3>5 DEF FirstInv, Drawing
  <2>3. CASE TopValue # WildDrawFour
    <3>1. \/ pc' = "Draw" /\ TopValue = DrawTwo
          \/ pc' \in {"FirstEffect", "Turn"}
      BY <2>1, <2>3 DEF AfterFirst
    <3>2. job.then = "Turn"
      BY <1>4 DEF Sound, Place, Doomed
    <3> QED
      BY <1>1, <3>1, <3>2 DEF FirstInv, Drawing
  <2> QED
    BY <2>2, <2>3
<1>5. CASE pc \in {"FirstEffect", "Nothing", "Discarded", "HandOver", "Effect"}
  <2>1. pc' \in {"Turn", "EndTurn", "Effect", "AfterHand"}
    BY <1>1, <1>5 DEF Announcement
  <2> QED
    BY <2>1, NothingFirst DEF FirstOnes, Drawing
<1> QED
  BY <1>1, <1>2, <1>3, <1>4, <1>5

(* The first card that is turned up goes on top of wild draw fours.        *)
LEMMA TurnedUpFirsts ==
  ASSUME Shape, FirstInv, TurnedUp
  PROVE  FirstInv'
<1> DEFINE c == Decrypted(Seqs!Last(deck), KeysIn).card
<1>1. /\ pc = "FirstKeys" /\ discard' = Append(discard, c) /\ UNCHANGED event
      /\ pc' \in {"FirstColor", "FirstShown", "Failed"}
  BY DEF TurnedUp, Back, told
<1> HIDE DEF c
<1>2. IsSeq(discard) /\ IsSeq(discard') /\ Seqs!Front(discard') = discard /\ discard' # <<>>
  BY <1>1, AppendApart DEF Shape
<1>3. /\ Len(discard') \in Nat \ {0} /\ Len(discard) = Len(discard') - 1
      /\ \A j \in 1..Len(discard')-1 : discard[j] = discard'[j]
  BY <1>2, FrontAndLast
<1>4. DOMAIN discard = 1..Len(discard) /\ DOMAIN discard' = 1..Len(discard') /\ Len(discard) \in Nat
      /\ (Len(discard) = 0 => discard = <<>>)
  BY <1>2, SeqFacts
<1>5. (discard = <<>> => DealtEvent) /\ AllDrawFours
  BY <1>1 DEF FirstInv
<1>6. DrawFoursBelow'
  <2> SUFFICES ASSUME NEW i \in DOMAIN discard', i # Len(discard')
               PROVE  Value(discard'[i]) = WildDrawFour
    BY DEF DrawFoursBelow
  <2>1. i \in DOMAIN discard /\ discard[i] = discard'[i]
    BY <1>3, <1>4
  <2> QED
    BY <1>5, <2>1 DEF AllDrawFours
<1>7. Len(discard') = 1 => DealtEvent'
  BY <1>1, <1>3, <1>4, <1>5 DEF DealtEvent
<1> QED
  BY <1>1, <1>6, <1>7 DEF FirstInv, Drawing

LEMMA HostFirsts ==
  ASSUME Dealable, ProtocolInv, TableInv, CardsInv, FirstInv, Host
  PROVE  FirstInv'
<1>1. Shape
  BY DEF ProtocolInv
<1>2. CASE Announce
  <2>1. Sound
    BY <1>2, AtRest DEF Announce, Going
  <2> QED
    BY <1>1, <1>2, <2>1, AnnounceFirsts
<1>3. CASE PlayerRefuses \/ StartGame \/ GameStarted \/ StartHand \/ HandStarted \/ AfterHand \/ GameEnded
  <2>1. pc' \in {"GameStart", "NewHand", "HandStart", "Shuffle", "Panicked", "GameEnd", "Complete", "Failed"}
    BY <1>3 DEF PlayerRefuses, StartGame, GameStarted, StartHand, HandStarted, Shuffle, AfterHand, GameEnded
  <2> QED
    BY <2>1, NothingFirst DEF FirstOnes, Drawing
<1>4. CASE PassOn \/ Reshuffle \/ ShuffleDone \/ AskPlay \/ CardPlayed \/ AskChallenge \/ NoEffect
           \/ EndTurn \/ HandRevealed \/ HandSigned
  <2>1. pc' \in {"Failed", "Shuffle", "Shuffled", "Play", "PlayAgain", "Discarded", "Challenge", "EndTurn",
                 "Turn", "HandReveal", "HandSign", "Panicked", "HandOver"}
    <3>1. CASE CardPlayed \/ HandRevealed
      BY <3>1, Zenon DEF CardPlayed, HandRevealed
    <3>2. CASE EndTurn
      BY <3>2, Zenon DEF EndTurn
    <3> QED
      BY <1>4, <3>1, <3>2 DEF PassOn, Back, Reshuffle, ShuffleDone, Shuffle, AskPlay, AskChallenge, NoEffect,
                         HandSigned
  <2> QED
    BY <2>1, NothingFirst DEF FirstOnes, Drawing
<1>5. CASE Deal
  <2>1. Sound /\ pc = "Deal" /\ UNCHANGED <<held, discard, event>>
    BY <1>5, AtRest DEF Deal, Going, table, wires, told
  <2>2. discard = <<>> /\ DOMAIN discard = {}
    BY <2>1, EmptyIsSeq DEF Sound, Place
  <2>3. CASE pc' = "Draw" /\ job'.then = "Deal" /\ job'.event = "HandStartCardDealt"
    BY <2>1, <2>3 DEF FirstInv, Drawing
  <2>4. CASE pc' = "FirstCard" /\ ~(Cardinality(DOMAIN held) < N * HandSize)
    <3>1. DOMAIN held # {}
      <4>1. N * HandSize >= 1 /\ N * HandSize \in Int
        BY DEF Dealable
      <4>2. Cardinality({}) = 0
        BY FS_EmptySet
      <4> QED
        BY <2>4, <4>1, <4>2
    <3>2. DealtEvent /\ event.hand.discard = discard
      BY <2>1, <3>1 DEF FirstInv
    <3>3. AllDrawFours
      BY <2>2 DEF AllDrawFours
    <3> QED
      BY <2>1, <2>4, <3>2, <3>3, DrawFoursStay DEF FirstInv, Drawing, DealtEvent
  <2> QED
    BY <1>5, <2>3, <2>4 DEF Deal, StartDraw
<1>6. CASE DealTo \/ KeysGiven \/ CardGiven
  <2>1. pc \in Drawing /\ pc' \in Drawing \cup {"Panicked"} /\ job'.event = job.event /\ job'.then = job.then
    BY <1>1, <1>6 DEF DealTo, KeysGiven, CardGiven, Back, Drawing, Shape, NoJob
  <2> QED
    BY <2>1 DEF FirstInv, Drawing
<1>7. CASE TurnUp
  <2>1. pc = "FirstCard" /\ pc' = "FirstKeys" /\ UNCHANGED <<discard, event>>
    BY <1>7 DEF TurnUp, table, told
  <2> QED
    BY <2>1, DrawFoursStay DEF FirstInv, Drawing, DealtEvent
<1>8. CASE TurnedUp
  BY <1>1, <1>8, TurnedUpFirsts
<1>9. CASE FirstColor
  <2>1. pc = "FirstColor" /\ pc' = "FirstShown" /\ UNCHANGED discard
    BY <1>9 DEF FirstColor, Back
  <2> QED
    BY <2>1, DrawFoursStay DEF FirstInv, Drawing
<1>10. CASE NothingPlayed \/ NextDrawsTwo \/ ChallengeDecided
  <2>1. \/ pc' \in {"Nothing", "Reveal"}
        \/ pc' = "Draw" /\ job'.then \in {"Again", "EndTurn"}
    BY <1>10 DEF NothingPlayed, NextDrawsTwo, ChallengeDecided, StartDraw
  <2> QED
    BY <2>1 DEF FirstInv, Drawing
<1> QED
  BY <1>2, <1>3, <1>4, <1>5, <1>6, <1>7, <1>8, <1>9, <1>10, Zenon DEF Host

LEMMA CurrentInvariant == ASSUME Dealable PROVE Spec => [](CurrentInv /\ FirstInv)
<1>1. Init => CurrentInv /\ FirstInv
  BY DEF Init, CurrentInv, FirstInv, Current, Undrawn, Drawing, NoJob
<1>2. ProtocolInv /\ TableInv /\ CardsInv /\ CurrentInv /\ FirstInv /\ [Next]_vars => (CurrentInv /\ FirstInv)'
  <2>1. HostStays /\ CurrentInv /\ FirstInv => (CurrentInv /\ FirstInv)'
    BY CurrentStays, FirstStays DEF HostStays, table
  <2> QED
    BY <2>1, HostCurrents, HostFirsts, OthersLeaveHost DEF Next, Finished
<1> QED
  BY <1>1, <1>2, ProtocolInvariant, TableInvariant, CardsInvariant, PTL DEF Spec
-----------------------------------------------------------------------------
\* What players remember of the start and the end of a hand

\* Players remember all they did but the last event.
RecallStays ==
  \A p \in Players :
    /\ mem'[p].lastHandStart = mem[p].lastHandStart /\ mem'[p].sharedPrime = mem[p].sharedPrime
    /\ mem'[p].lastHandEnd = mem[p].lastHandEnd /\ mem'[p].start = mem[p].start
    /\ mem'[p].given = mem[p].given /\ mem'[p].cardPairs = mem[p].cardPairs
    /\ mem'[p].deck = mem[p].deck /\ mem'[p].myCards = mem[p].myCards

(* The host reaches a memory by events only.                               *)
LEMMA HostSends ==
  ASSUME Host
  PROVE  UNCHANGED <<mem, event>> \/ \E type, h : Send(type, h)
<1>1. CASE Announce \/ GameStarted \/ GameEnded
  BY <1>1 DEF Announce, GameStarted, GameEnded
<1>2. CASE \/ PlayerRefuses \/ StartGame \/ StartHand \/ HandStarted \/ PassOn \/ ShuffleDone \/ Deal
           \/ Reshuffle \/ DealTo \/ KeysGiven \/ CardGiven \/ TurnUp
  BY <1>2 DEF PlayerRefuses, StartGame, StartHand, HandStarted, PassOn, ShuffleDone, Deal, Reshuffle,
              DealTo, KeysGiven, CardGiven, TurnUp, wires, told
<1>3. CASE TurnedUp \/ CardPlayed \/ HandRevealed
  <2>1. UNCHANGED told
    BY <1>3, Zenon DEF TurnedUp, CardPlayed, HandRevealed
  <2> QED
    BY <2>1 DEF told
<1>4. CASE \/ FirstColor \/ AskPlay \/ NothingPlayed \/ NextDrawsTwo \/ AskChallenge
           \/ ChallengeDecided \/ NoEffect \/ EndTurn \/ HandSigned \/ AfterHand
  BY <1>4 DEF FirstColor, AskPlay, NothingPlayed, NextDrawsTwo, AskChallenge,
              ChallengeDecided, NoEffect, EndTurn, HandSigned, AfterHand, wires, told
<1> QED
  BY <1>1, <1>2, <1>3, <1>4, Zenon DEF Host

LEMMA SendRecalls ==
  ASSUME Shape, NEW type, NEW h, Send(type, h)
  PROVE  RecallStays
BY DEF Send, OnGameEvent, Shape, RecallStays, Forgotten

LEMMA HostForgets ==
  ASSUME Shape, Host
  PROVE  RecallStays
<1>1. CASE UNCHANGED mem
  BY <1>1 DEF RecallStays
<1> QED
  BY <1>1, HostSends, SendRecalls

(* A late event is no more than an event either.                           *)
LEMMA ArriveRecalls ==
  ASSUME Shape, Arrive
  PROVE  RecallStays
BY DEF Arrive, OnGameEvent, Shape, RecallStays, Forgotten
-----------------------------------------------------------------------------
\* Where players are asked for what

AskedAt ==
  {<<t, t>> : t \in {"GameStart", "HandStart", "GameEnd", "Shuffle", "Give", "Play", "Challenge", "Reveal"}}
    \cup {<<"HandEnd", "HandReveal">>, <<"HandEnd", "HandSign">>, <<"Key", "Keys">>,
          <<"Key", "FirstKeys">>, <<"ChooseColor", "FirstColor">>, <<"Play", "PlayAgain">>}

WhereInv ==
  pc \notin Terminal =>
    \A p \in Players : line[p].type \in Requests => <<line[p].type, pc>> \in AskedAt

(* The host goes on when nothing is under way but answers.                 *)
LEMMA NothingAsked ==
  ASSUME ProtocolInv, TableInv, Host, ~PlayerRefuses, NEW p \in Players
  PROVE  pc \notin Terminal /\ line[p].type \notin Requests \cup {"refused"}
<1>1. CASE Within
  <2>1. /\ pc \notin Terminal
        /\ pc \in Going \/ \E at \in Waiting : Back(at)
    BY <1>1, WithinHand DEF ProtocolInv
  <2> QED
    BY <2>1 DEF TableInv, Resting, Idle, Back, Answered, Requests
<1>2. CASE StartGame \/ StartHand \/ AfterHand
  <2>1. pc \in Going /\ pc \notin Terminal
    BY <1>2 DEF StartGame, StartHand, AfterHand, Going, Terminal
  <2> QED
    BY <2>1 DEF TableInv, Resting, Idle, Requests
<1>3. CASE GameStarted \/ HandStarted \/ GameEnded
  BY <1>3 DEF GameStarted, HandStarted, GameEnded, Back, Answered, Terminal
<1> QED
  BY <1>1, <1>2, <1>3, HostSteps

LEMMA HostAsks ==
  ASSUME Host, NEW p \in Players
  PROVE  line'[p] = line[p] \/ line'[p] = Idle \/ <<line'[p].type, pc'>> \in AskedAt
<1> USE Calls, HangsUp DEF AskedAt, Call
<1>1. CASE PlayerRefuses \/ Announce \/ Deal \/ NextDrawsTwo \/ NoEffect
  BY <1>1 DEF PlayerRefuses, Announce, Deal, NextDrawsTwo, NoEffect, wires
<1>2. CASE StartGame \/ GameStarted \/ StartHand \/ AfterHand \/ GameEnded
  BY <1>2 DEF StartGame, GameStarted, StartHand, AfterHand, GameEnded
<1>3. CASE HandStarted
  BY <1>3 DEF HandStarted, Shuffle, ShuffleRequest
<1>4. CASE PassOn
  <2>1. PICK cards : \/ UNCHANGED line
                     \/ Call(seat', ShuffleRequest(start, stage', cards)) /\ UNCHANGED pc
    BY <1>4 DEF PassOn
  <2> QED
    BY <1>4, <2>1 DEF PassOn, Back, ShuffleRequest
<1>5. CASE Reshuffle
  BY <1>5 DEF Reshuffle, Shuffle, ShuffleRequest
<1>6. CASE ShuffleDone \/ DealTo \/ CardGiven \/ TurnUp
  BY <1>6 DEF ShuffleDone, DealTo, CardGiven, TurnUp
<1>7. CASE KeysGiven
  BY <1>7 DEF KeysGiven
<1>8. CASE TurnedUp
  <2>1. HangUp \/ (pc' = "FirstColor" /\ Call(turn, [type |-> "ChooseColor"]))
    BY <1>8, Zenon DEF TurnedUp
  <2> QED
    BY <2>1
<1>9. CASE FirstColor \/ NothingPlayed \/ CardPlayed
  <2>1. HangUp \/ UNCHANGED line
    <3>1. CASE CardPlayed
      BY <3>1, Zenon DEF CardPlayed
    <3> QED
      BY <1>9, <3>1 DEF FirstColor, NothingPlayed
  <2> QED
    BY <2>1
<1>10. CASE AskPlay
  BY <1>10 DEF AskPlay
<1>11. CASE AskChallenge \/ ChallengeDecided \/ HandSigned
  <2>1. CASE AskChallenge
    <3>1. pc' = "Challenge" /\ \E q \in Players : \E req : CallAll({q}, req) /\ req.type = "Challenge"
      BY <2>1 DEF AskChallenge
    <3> QED
      BY <3>1
  <2>2. CASE ChallengeDecided
    <3>1. HangUp \/ (Call(turn, [type |-> "Reveal"]) /\ pc' = "Reveal")
      BY <2>2 DEF ChallengeDecided
    <3> QED
      BY <3>1
  <2>3. CASE HandSigned
    BY <2>3 DEF HandSigned
  <2> QED
    BY <1>11, <2>1, <2>2, <2>3
<1>12. CASE EndTurn \/ HandRevealed
  <2>1. \/ UNCHANGED line
        \/ /\ pc' \in {"HandReveal", "HandSign"}
           /\ \E st, q, score, infos : CallAll(Players, HandEndRequest(st, q, score, infos))
    <3>1. CASE EndTurn
      BY <3>1, Zenon DEF EndTurn
    <3>2. CASE HandRevealed
      BY <3>2, Zenon DEF HandRevealed
    <3> QED
      BY <1>12, <3>1, <3>2
  <2>2. CASE UNCHANGED line
    BY <2>2
  <2>3. CASE /\ pc' \in {"HandReveal", "HandSign"}
             /\ \E st, q, score, infos : CallAll(Players, HandEndRequest(st, q, score, infos))
    <3>1. PICK st, q, score, infos : CallAll(Players, HandEndRequest(st, q, score, infos))
      BY <2>3
    <3> QED
      BY <2>3, <3>1 DEF HandEndRequest
  <2> QED
    BY <2>1, <2>2, <2>3
<1> QED
  BY <1>1, <1>2, <1>3, <1>4, <1>5, <1>6, <1>7, <1>8, <1>9, <1>10, <1>11, <1>12, Zenon DEF Host

LEMMA WhereInvariant == ASSUME Dealable PROVE Spec => []WhereInv
<1>1. Init => WhereInv
  BY DEF Init, HandlerInit, WhereInv, Requests
<1>2. ProtocolInv /\ TableInv /\ WhereInv /\ [Next]_vars => WhereInv'
  <2> SUFFICES ASSUME ProtocolInv, TableInv, WhereInv, [Next]_vars
               PROVE  WhereInv'
    OBVIOUS
  <2>1. CASE PlayerRefuses
    BY <2>1 DEF PlayerRefuses, WhereInv, Terminal
  <2>2. CASE Host /\ ~PlayerRefuses
    BY <2>2, NothingAsked, HostAsks DEF WhereInv, Idle, Requests
  <2>3. CASE \E p \in Players : Player(p)
    <3>1. PICK p \in Players : Player(p)
      BY <2>3
    <3>2. UNCHANGED pc /\ Alone(p) /\ line'[p].type \notin Requests
      BY <3>1, Remembers DEF Player, ProtocolInv
    <3> QED
      BY <3>2 DEF WhereInv, Alone, Terminal
  <2>4. CASE Arrive \/ UNCHANGED vars
    <3>1. UNCHANGED <<pc, line>>
      BY <2>4 DEF Arrive, vars, wires
    <3> QED
      BY <3>1 DEF WhereInv, Terminal
  <2> QED
    BY <2>1, <2>2, <2>3, <2>4 DEF Next, Finished
<1> QED
  BY <1>1, <1>2, ProtocolInvariant, TableInvariant, PTL DEF Spec
-----------------------------------------------------------------------------
\* The start and the end of a hand

\* Before the first hand.
Untouched ==
  /\ dealer = 0
  /\ \A p \in Players :
       mem[p].lastHandStart = NoHandStart /\ mem[p].lastHandEnd = NoSigs /\ mem[p].start = <<>>

\* The first hand, and what a player remembers that has been asked to start it.
FirstStart == [hand |-> 1, dealer |-> 0]
InFirst(p) == mem[p].lastHandStart = FirstStart /\ mem[p].sharedPrime = 1

EventIs(type) == event # NoEvent /\ event.type = type /\ event.scores = scores /\ event.dealer = 0

(* Seat 0 deals the first hand.  When it starts the last event is that of  *)
(* the game's start, and when another is to start that of the hand's end.  *)
BeginInv ==
  /\ pc \in {"Start", "GameStart"} => Untouched
  /\ pc = "NewHand" /\ hand = 0 => Untouched /\ EventIs("GameStart") /\ event.hand = NoHand
  /\ pc = "NewHand" /\ hand # 0 =>
       /\ EventIs("HandEnd") /\ endSigs # NoSigs
       /\ \A p \in Players : mem[p].lastHandEnd = endSigs /\ InFirst(p)
  /\ pc = "HandStart" /\ hand = 1 =>
       /\ dealer = 0 /\ event # NoEvent /\ event.hand = NoHand
       /\ \A p \in Players :
            /\ mem[p].start = <<>>
            /\ IF line[p].type = "HandStart" THEN line[p].hand = 1 /\ line[p].dealer = 0
                                             ELSE InFirst(p)
  /\ pc \notin Early \cup Terminal /\ hand = 1 => dealer = 0 /\ \A p \in Players : InFirst(p)
  /\ pc \in {"Shuffle", "Shuffled"} /\ job = NoJob /\ hand = 1 =>
       event # NoEvent /\ event.hand = NoHand
  /\ pc = "AfterHand" => EventIs("HandEnd")
  /\ pc \in {"HandOver", "AfterHand"} =>
       endSigs # NoSigs /\ \A p \in Players : mem[p].lastHandEnd = endSigs
  /\ pc = "HandSign" =>
       \A p \in Players :
         IF line[p].type = "HandEnd" THEN line[p].stage = 1 /\ line[p].hand = hand
                                     ELSE mem[p].lastHandEnd = HandEndMsg(hand, 1)

(* Where the steps within a hand lead.                                     *)
LEMMA WithinLeads ==
  ASSUME Shape, Within
  PROVE  /\ UNCHANGED dealer /\ (HandSigned \/ UNCHANGED <<scores, endSigs>>)
         /\ pc' = "HandSign" => HandRevealed
         /\ pc' = "HandOver" => HandSigned
         /\ pc' = "AfterHand" => Announce /\ pc = "HandOver"
         /\ pc' \in {"Shuffle", "Shuffled"} =>
              /\ UNCHANGED <<job, event>> /\ (pc = "Shuffle" \/ pc = "Draw")
<1>1. CASE Announce
  <2>1. UNCHANGED <<dealer, scores, endSigs>>
    BY <1>1 DEF Announce, game
  <2>2. AfterFirst \in {"FirstCard", "Draw", "FirstEffect", "Turn"}
    BY DEF AfterFirst
  <2>3. /\ pc' \notin {"HandSign", "HandOver", "Shuffle", "Shuffled"}
        /\ pc' = "AfterHand" => pc = "HandOver"
    BY <1>1, <2>2 DEF Announce, Announcement, Shape
  <2> QED
    BY <1>1, <2>1, <2>3
<1>2. CASE PassOn \/ ShuffleDone \/ Reshuffle
  BY <1>2 DEF PassOn, ShuffleDone, Reshuffle, Shuffle, Back, game, told
<1>3. CASE Deal \/ DealTo \/ KeysGiven \/ CardGiven \/ TurnUp
  BY <1>3 DEF Deal, DealTo, KeysGiven, CardGiven, TurnUp, StartDraw, game
<1>4. CASE TurnedUp \/ CardPlayed
  <2>1. UNCHANGED game /\ pc' \in {"Failed", "FirstColor", "FirstShown", "Discarded"}
    BY <1>4, Zenon DEF TurnedUp, CardPlayed
  <2> QED
    BY <2>1 DEF game
<1>5. CASE FirstColor \/ AskPlay \/ NothingPlayed
  BY <1>5 DEF FirstColor, AskPlay, NothingPlayed, StartDraw, game
<1>6. CASE NextDrawsTwo \/ AskChallenge \/ ChallengeDecided \/ NoEffect
  BY <1>6 DEF NextDrawsTwo, AskChallenge, ChallengeDecided, NoEffect, StartDraw, game
<1>7. CASE EndTurn
  <2>1. UNCHANGED <<dealer, scores, endSigs>> /\ pc' \in {"Turn", "Failed", "HandReveal"}
    BY <1>7, Zenon DEF EndTurn
  <2> QED
    BY <2>1
<1>8. CASE HandRevealed
  <2>1. UNCHANGED <<dealer, scores, endSigs>> /\ pc' \in {"Panicked", "HandSign", "Failed"}
    BY <1>8, Zenon DEF HandRevealed
  <2> QED
    BY <1>8, <2>1
<1>9. CASE HandSigned
  BY <1>9 DEF HandSigned
<1> QED
  BY <1>1, <1>2, <1>3, <1>4, <1>5, <1>6, <1>7, <1>8, <1>9, Zenon DEF Within

LEMMA StillInFirst ==
  ASSUME RecallStays, \A p \in Players : InFirst(p)
  PROVE  \A p \in Players : InFirst(p)'
BY DEF RecallStays, InFirst, FirstStart

LEMMA WithinBegins ==
  ASSUME ProtocolInv, TableInv, CardsInv, SecondInv, BeginInv, Within
  PROVE  BeginInv'
<1>1. Shape /\ Host
  BY HostSteps DEF ProtocolInv
<1>2. /\ pc \notin Early \cup Terminal /\ UNCHANGED hand
      /\ pc \in Going \/ \E at \in Waiting : Back(at)
      /\ pc' \notin Early
  BY <1>1, WithinHand
<1>3. hand = 1 /\ Sound /\ ~Doomed /\ Unrefused /\ CardInv
  BY <1>2, FirstHand
<1>4. RecallStays /\ dealer = 0 /\ (\A p \in Players : InFirst(p)) /\ UNCHANGED dealer
  BY <1>1, <1>2, <1>3, HostForgets, WithinLeads DEF BeginInv
<1>5. \A p \in Players : InFirst(p)'
  BY <1>4, StillInFirst
<1>6. ASSUME pc' \in {"Shuffle", "Shuffled"}, job' = NoJob
      PROVE  (event # NoEvent /\ event.hand = NoHand)'
  <2>1. UNCHANGED <<job, event>> /\ (pc = "Shuffle" \/ pc = "Draw")
    BY <1>1, <1>6, WithinLeads
  <2>2. pc # "Draw"
    BY <1>3, <1>6, <2>1 DEF Sound, Place, Drawing, NoJob
  <2>3. event # NoEvent /\ event.hand = NoHand
    BY <1>3, <1>6, <2>1, <2>2 DEF BeginInv, NoJob
  <2> QED
    BY <2>1, <2>3 DEF NoEvent, NoHand
<1>7. ASSUME pc' = "AfterHand"
      PROVE  /\ EventIs("HandEnd")' /\ endSigs' # NoSigs
             /\ \A p \in Players : mem'[p].lastHandEnd = endSigs'
  <2>1. Announce /\ pc = "HandOver" /\ UNCHANGED <<scores, endSigs>>
    BY <1>1, <1>7, WithinLeads DEF HandSigned
  <2>2. Send("HandEnd", HandNow)
    <3>1. Announcement[1] = "HandEnd"
      BY <2>1 DEF Announcement
    <3> QED
      BY <2>1, <3>1 DEF Announce
  <2>3. event' = [type |-> "HandEnd", scores |-> scores, dealer |-> dealer, hand |-> HandNow]
    BY <2>2, Sent
  <2>4. "hand" \in DOMAIN event' /\ "hand" \notin DOMAIN NoEvent
    BY <2>3 DEF NoEvent
  <2>5. event' # NoEvent /\ event'.type = "HandEnd" /\ event'.scores = scores' /\ event'.dealer = 0
    BY <1>4, <2>1, <2>3, <2>4
  <2>6. EventIs("HandEnd")'
    BY <2>5 DEF EventIs, NoEvent
  <2>7. endSigs # NoSigs /\ \A p \in Players : mem[p].lastHandEnd = endSigs
    BY <2>1 DEF BeginInv
  <2> QED
    BY <1>4, <2>1, <2>6, <2>7 DEF RecallStays
<1>8. ASSUME pc' = "HandOver"
      PROVE  endSigs' # NoSigs /\ \A p \in Players : mem'[p].lastHandEnd = endSigs'
  <2>1. pc = "HandSign" /\ Answered /\ endSigs' = HandEndMsg(hand, 1)
    BY <1>1, <1>8, WithinLeads DEF HandSigned, Back
  <2>2. \A p \in Players : mem[p].lastHandEnd = HandEndMsg(hand, 1)
    BY <2>1 DEF BeginInv, Answered, Requests
  <2>3. HandEndMsg(hand, 1) # NoSigs
    BY DEF HandEndMsg, NoSigs
  <2> QED
    BY <1>4, <2>1, <2>2, <2>3 DEF RecallStays
<1>9. ASSUME pc' = "HandSign"
      PROVE  \A p \in Players : line'[p].type = "HandEnd" /\ line'[p].stage = 1 /\ line'[p].hand = hand
  <2>1. HandRevealed
    BY <1>1, <1>9, WithinLeads
  <2>2. PICK score, infos : CallAll(Players, HandEndRequest(1, complete.winner, score, infos))
    BY <1>9, <2>1, Zenon DEF HandRevealed
  <2> QED
    BY <2>2, Calls DEF HandEndRequest
<1>10. NoSigs' = NoSigs
  BY DEF NoSigs
<1> QED
  BY <1>2, <1>3, <1>4, <1>5, <1>6, <1>7, <1>8, <1>9, <1>10 DEF BeginInv, Early

LEMMA HostBegins ==
  ASSUME Mended = Flaws, ProtocolInv, TableInv, CardsInv, SecondInv, BeginInv, Host
  PROVE  BeginInv'
<1> USE DEF Early, Terminal
<1>1. Shape
  BY DEF ProtocolInv
<1>2. CASE Within
  BY <1>2, WithinBegins
<1>3. CASE PlayerRefuses \/ GameEnded
  BY <1>3 DEF PlayerRefuses, GameEnded, BeginInv
<1>4. CASE StartGame
  BY <1>4 DEF StartGame, game, told, BeginInv, Untouched
<1>5. CASE GameStarted
  <2>1. pc = "GameStart" /\ pc' = "NewHand" /\ Send("GameStart", NoHand) /\ UNCHANGED <<hand, dealer, scores>>
    BY <1>5 DEF GameStarted, Back, game
  <2>2. hand = 0 /\ Untouched
    <3>1. CardInv
      BY <1>5, <2>1, GoesOn DEF GameStarted, Waiting
    <3> QED
      BY <2>1, <3>1 DEF CardInv, BeginInv
  <2>3. RecallStays
    BY <1>1, <2>1, SendRecalls
  <2>4. /\ event' = [type |-> "GameStart", scores |-> scores, dealer |-> dealer, hand |-> NoHand]
        /\ dealer = 0
    BY <2>1, <2>2, Sent DEF Untouched
  <2>5. event' # NoEvent
    <3>1. "hand" \in DOMAIN event' /\ "hand" \notin DOMAIN NoEvent
      BY <2>4 DEF NoEvent
    <3> QED
      BY <3>1
  <2>6. EventIs("GameStart")' /\ event'.hand = NoHand
    BY <2>1, <2>4, <2>5 DEF EventIs, NoEvent
  <2>7. Untouched'
    BY <2>1, <2>2, <2>3 DEF Untouched, RecallStays, NoHandStart, NoSigs
  <2> QED
    BY <2>1, <2>2, <2>6, <2>7 DEF BeginInv, NoHand
<1>6. CASE StartHand
  <2>1. pc = "NewHand" /\ pc' = "HandStart" /\ hand' = hand + 1 /\ UNCHANGED <<dealer, mem, event>>
    BY <1>6 DEF StartHand, told
  <2>2. hand \in Nat
    BY <2>1, GoesOn DEF CardInv, Going
  <2>3. ASSUME hand' = 1
        PROVE  /\ Untouched /\ EventIs("GameStart") /\ event.hand = NoHand
               /\ \A p \in Players : line'[p].type = "HandStart" /\ line'[p].hand = 1 /\ line'[p].dealer = 0
    <3>1. hand = 0 /\ Untouched /\ EventIs("GameStart") /\ event.hand = NoHand
      BY <2>1, <2>2, <2>3 DEF BeginInv
    <3>2. NextDealer = 0
      BY <3>1 DEF NextDealer, EventIs, Flaws
    <3> QED
      BY <1>6, <3>1, <3>2, Calls DEF StartHand
  <2> QED
    BY <2>1, <2>3 DEF BeginInv, Untouched, EventIs, NoHand, NoEvent
<1>7. CASE HandStarted
  <2>1. /\ pc = "HandStart" /\ UNCHANGED <<hand, dealer, mem, event>>
        /\ pc' \in {"Panicked", "Shuffle"} /\ \A p \in Players : line[p].type # "HandStart"
    BY <1>7 DEF HandStarted, Back, Answered, Requests, game, told, Shuffle
  <2> QED
    BY <2>1 DEF BeginInv, InFirst, FirstStart, NoEvent, NoHand
<1>8. CASE AfterHand
  <2>1. /\ pc = "AfterHand" /\ pc' \in {"NewHand", "GameEnd"} /\ UNCHANGED <<hand, mem, event, scores, endSigs>>
        /\ pc' = "GameEnd" => UNCHANGED dealer
    BY <1>8 DEF AfterHand, told
  <2>2. hand = 1
    BY <2>1, FirstHand DEF Going
  <2> QED
    BY <2>1, <2>2 DEF BeginInv, InFirst, FirstStart, EventIs, NoEvent, NoSigs
<1> QED
  BY <1>2, <1>3, <1>4, <1>5, <1>6, <1>7, <1>8, HostSteps

(* The handlers for the starts and the end of a hand.                      *)
LEMMA Handlers ==
  ASSUME NEW p \in Players, Handle(p)
  PROVE  /\ line[p].type = "GameStart" => GameStart(p)
         /\ line[p].type = "HandStart" => HandStart(p)
         /\ line[p].type = "HandEnd" => HandEnd(p)
         /\ line[p].type = "GameEnd" => GameEnd(p)
         /\ line[p].type = "ChooseColor" => ChooseColor(p)
         /\ line[p].type = "Key" => GetKey(p)
         /\ line[p].type = "Give" => GiveCard(p)
         /\ line[p].type = "Challenge" => ShouldChallenge(p)
         /\ line[p].type = "Shuffle" =>
              ShuffleStage0(p) \/ ShuffleStage1(p) \/ ShuffleStage2(p) \/ ShuffleRefused(p)
BY Zenon DEF Handle, GameStart, GameEnd, HandStart, HandEnd, ShuffleStage0, ShuffleStage1, ShuffleStage2,
       ShuffleRefused, ChooseColor, GetKey, GiveCard, Play, ShouldChallenge, RevealForChallenge, Asked

LEMMA PlayerBegins ==
  ASSUME ProtocolInv, WhereInv, BeginInv, NEW p \in Players, Player(p)
  PROVE  BeginInv'
<1> USE DEF Early, Terminal
<1>1. /\ UNCHANGED <<pc, hand, dealer, scores, endSigs, job, event>> /\ Handle(p) /\ Shape
  BY DEF Player, game, ProtocolInv
<1>2. /\ Alone(p) /\ line[p].type \in Requests /\ line'[p].type \notin Requests
      /\ line[p].type # "GameStart" =>
           /\ line[p].type # "HandStart" =>
                mem'[p].lastHandStart = mem[p].lastHandStart /\ mem'[p].sharedPrime = mem[p].sharedPrime
           /\ line[p].type # "HandEnd" => mem'[p].lastHandEnd = mem[p].lastHandEnd
           /\ line[p].type # "Shuffle" => mem'[p].start = mem[p].start
  BY <1>1, Remembers
<1>3. CASE pc \in Terminal
  BY <1>1, <1>3 DEF BeginInv
<1>4. CASE pc \notin Terminal
  <2>1. <<line[p].type, pc>> \in AskedAt
    BY <1>2, <1>4 DEF WhereInv
  <2>2. CASE line[p].type = "GameStart"
    <3>1. GameStart(p) /\ pc = "GameStart"
      BY <1>1, <2>1, <2>2, Handlers DEF AskedAt
    <3>2. /\ mem'[p].lastHandStart = NoHandStart /\ mem'[p].lastHandEnd = NoSigs /\ mem'[p].start = <<>>
      BY <1>1, <3>1 DEF GameStart, Remember, Forgotten, Shape
    <3> QED
      BY <1>1, <1>2, <3>1, <3>2 DEF BeginInv, Untouched, Alone, NoHandStart, NoSigs
  <2>3. CASE line[p].type = "HandStart"
    <3>1. HandStart(p) /\ pc = "HandStart"
      BY <1>1, <2>1, <2>3, Handlers DEF AskedAt
    <3>2. /\ mem'[p].lastHandStart = [hand |-> line[p].hand, dealer |-> line[p].dealer]
          /\ mem'[p].sharedPrime = line[p].hand /\ mem'[p].start = mem[p].start
      BY <1>1, <3>1 DEF HandStart, Remember, Forgotten, Shape
    <3>3. hand = 1 => line[p].hand = 1 /\ line[p].dealer = 0
      BY <2>3, <3>1 DEF BeginInv
    <3>4. hand = 1 => InFirst(p)' /\ mem'[p].start = mem[p].start /\ line'[p].type # "HandStart"
      BY <1>2, <3>2, <3>3 DEF InFirst, FirstStart, Requests
    <3>5. \A q \in Players \ {p} : line'[q] = line[q] /\ mem'[q] = mem[q] /\ (InFirst(q) => InFirst(q)')
      BY <1>2 DEF Alone, InFirst, FirstStart
    <3> QED
      BY <1>1, <3>1, <3>4, <3>5 DEF BeginInv, NoEvent, NoHand
  <2>4. CASE line[p].type = "HandEnd"
    <3>1. HandEnd(p) /\ pc \in {"HandReveal", "HandSign"}
      BY <1>1, <2>1, <2>4, Handlers DEF AskedAt
    <3>2. mem'[p].lastHandEnd = HandEndMsg(line[p].hand, line[p].stage)
      BY <1>1, <3>1 DEF HandEnd, Remember, Forgotten, Shape
    <3>3. \A q \in Players : InFirst(q) => InFirst(q)'
      BY <1>2, <2>4 DEF Alone, InFirst, FirstStart
    <3>4. pc = "HandSign" => line'[p].type # "HandEnd" /\ mem'[p].lastHandEnd = HandEndMsg(hand, 1)
      BY <1>2, <2>4, <3>2 DEF BeginInv, Requests
    <3> QED
      BY <1>1, <1>2, <3>1, <3>3, <3>4 DEF BeginInv, Alone, HandEndMsg
  <2>5. CASE line[p].type \notin {"GameStart", "HandStart", "HandEnd"}
    <3>1. pc \notin {"Start", "GameStart", "NewHand", "HandStart", "HandOver", "AfterHand", "HandSign"}
      BY <1>2, <2>1, <2>5 DEF AskedAt
    <3>2. \A q \in Players : InFirst(q) => InFirst(q)'
      BY <1>2, <2>5 DEF Alone, InFirst, FirstStart
    <3> QED
      BY <1>1, <3>1, <3>2 DEF BeginInv, NoEvent, NoHand
  <2> QED
    BY <2>2, <2>3, <2>4, <2>5
<1> QED
  BY <1>3, <1>4

LEMMA BeginStays ==
  ASSUME BeginInv, RecallStays, UNCHANGED <<pc, hand, dealer, scores, endSigs, job, event, line>>
  PROVE  BeginInv'
<1>1. \A p \in Players : InFirst(p) => InFirst(p)'
  BY DEF RecallStays, InFirst, FirstStart
<1>2. Untouched => Untouched'
  BY DEF RecallStays, Untouched, NoHandStart, NoSigs
<1> QED
  BY <1>1, <1>2 DEF BeginInv, RecallStays, EventIs, NoEvent, NoHand, NoSigs, HandEndMsg, Early, Terminal

LEMMA BeginInvariant ==
  ASSUME Dealable, Mended = Flaws
  PROVE  Spec => [](WhereInv /\ BeginInv)
<1>1. Init => BeginInv
  BY DEF Init, HandlerInit, Forgotten, BeginInv, Untouched, Early
<1>2. ProtocolInv /\ TableInv /\ CardsInv /\ SecondInv /\ WhereInv /\ BeginInv /\ [Next]_vars => BeginInv'
  <2>1. ASSUME ProtocolInv, BeginInv, Arrive \/ UNCHANGED vars PROVE BeginInv'
    <3>1. RecallStays
      BY <2>1, ArriveRecalls DEF ProtocolInv, RecallStays, vars, wires, told
    <3>2. UNCHANGED <<pc, hand, dealer, scores, endSigs, job, event, line>>
      BY <2>1 DEF Arrive, vars, wires, told, game
    <3> QED
      BY <2>1, <3>1, <3>2, BeginStays
  <2> QED
    BY <2>1, HostBegins, PlayerBegins DEF Next, Finished
<1> QED
  BY <1>1, <1>2, ProtocolInvariant, TableInvariant, CardsInvariant, SecondInvariant, WhereInvariant, PTL DEF Spec
-----------------------------------------------------------------------------
\* Which cards have come out

(* A card that is dealt has come out and is held.                          *)
LEMMA DealtComesOut ==
  ASSUME ProtocolInv, TableInv, CardsInv, KeysGiven, pc' # "Panicked"
  PROVE  /\ pc = "Keys" /\ pc' = "Give" /\ deck # <<>> /\ Out' = Out \cup {Seqs!Last(deck)}
         /\ DOMAIN held' = DOMAIN held \cup {Seqs!Last(deck)} /\ Seqs!Last(deck) \notin DOMAIN held
         /\ UNCHANGED <<mem, discard, hand, work, start, shuffles, turn, job, dealer>>
<1>1. /\ pc = "Keys" /\ pc' = "Give" /\ Back("Keys") /\ held' = Put(held, Seqs!Last(deck), turn)
      /\ seen' = Put(seen, Seqs!Last(deck), KeysIn)
      /\ UNCHANGED <<mem, discard, hand, work, start, shuffles, turn, job, dealer>>
  BY DEF KeysGiven, PopTopCard, Back, game, passing, told
<1>2. CardInv /\ Shape /\ HostKeys /\ WireInv
  BY <1>1, GoesOn DEF Waiting, Terminal, ProtocolInv, Live
<1>3. deck # <<>> /\ Split /\ Opening
  BY <1>1, <1>2 DEF WireInv, CardInv, Dealt
<1>4. Seqs!Last(deck) \notin DOMAIN held
  BY <1>2, <1>3, TopCard
<1> QED
  BY <1>1, <1>3, <1>4 DEF Put, Out

(* The first card has come out and lies on the discards.                   *)
LEMMA TurnedComesOut ==
  ASSUME ProtocolInv, TableInv, CardsInv, TurnedUp
  PROVE  /\ pc = "FirstKeys" /\ pc' \in {"FirstColor", "FirstShown"}
         /\ deck # <<>> /\ Out' = Out \cup {Seqs!Last(deck)}
         /\ Range(discard') = Range(discard) \cup {Seqs!Last(deck).card}
         /\ UNCHANGED <<mem, held, hand, work, start, shuffles, turn, dealer>>
<1>1. /\ pc = "FirstKeys" /\ Back("FirstKeys") /\ seen' = Put(seen, Seqs!Last(deck), KeysIn)
      /\ UNCHANGED <<mem, held, hand, work, start, shuffles, turn, dealer>>
      /\ pc' \in {"Failed", "FirstColor", "FirstShown"}
  BY DEF TurnedUp, PopTopCard, Back, game, passing, told
<1>2. Shape /\ WireInv
  BY <1>1 DEF Terminal, ProtocolInv, Live
<1>3. discard' = Append(discard, Seqs!Last(deck).card) /\ pc' # "Failed"
  BY TurnedUpDeals
<1>4. deck # <<>>
  BY <1>1, <1>2, KeysHaveCome
<1> QED
  BY <1>1, <1>2, <1>3, <1>4, AppendApart DEF Shape, Put, Out

(* A card that is played goes from its player to the discards.             *)
LEMMA PlayedComesOut ==
  ASSUME ProtocolInv, TableInv, CardsInv, CardPlayed, pc' # "Failed"
  PROVE  /\ pc \in {"Play", "PlayAgain"} /\ pc' = "Discarded" /\ Out' = Out
         /\ \E v \in DOMAIN held :
              DOMAIN held' = DOMAIN held \ {v} /\ Range(discard') = Range(discard) \cup {v.card}
         /\ UNCHANGED <<mem, deck, hand, work, start, shuffles, turn, job, dealer>>
<1>1. /\ pc \in {"Play", "PlayAgain"} /\ Back(pc)
      /\ UNCHANGED <<mem, deck, hand, work, start, shuffles, turn, job, dealer>>
  BY DEF CardPlayed, PlayComesBack, Back, passing, game, told
<1>2. CardInv /\ Shape /\ HostKeys /\ WireInv /\ turn \in Players
  BY <1>1, GoesOn DEF Waiting, Terminal, ProtocolInv, Live, Shape
<1>3. Fits(turn, line[turn].number, line[turn].keys[turn])
  BY <1>1, <1>2 DEF WireInv, PlayCase, Refusal, Back, Answered, Requests
<1>4. PICK v : v = line[turn].number
  OBVIOUS
<1>5. /\ PlayIsGenuine(line[turn])
      /\ held' = Restrict(held, DOMAIN held \ {v})
      /\ seen' = Put(seen, v, line[turn].keys)
      /\ discard' = Append(discard, Decrypted(v, line[turn].keys).card)
      /\ pc' = "Discarded"
  BY <1>4 DEF CardPlayed
<1>6. v \in DOMAIN held /\ Decrypted(v, line[turn].keys) = Plain(v.card)
  BY <1>2, <1>3, <1>4, <1>5, GenuineCard DEF CardInv
<1>7. v \in Out
  BY <1>2, <1>6 DEF HostKeys
<1>8. Range(discard') = Range(discard) \cup {v.card}
  BY <1>2, <1>5, <1>6, AppendApart DEF Shape, Plain
<1>9. DOMAIN held' = DOMAIN held \ {v} /\ Out' = Out
  BY <1>5, <1>6, <1>7 DEF Restrict, Put, Out
<1> QED
  BY <1>1, <1>5, <1>6, <1>8, <1>9

LEMMA HostMemStays == Shape /\ Host => MemStays
BY HostSends, EventsStay, MemUnchanged
-----------------------------------------------------------------------------
\* The first shuffle and the later ones

(* What is shuffled is asked for as such.                                  *)
AskedFor == pc = "Shuffle" /\ line[seat].type = "Shuffle" =>
              line[seat].start = start /\ line[seat].handStartSigs = HandStartMsg(hand)

(* The shuffle that starts the first hand is the first there is.  A number *)
(* that has come out since is of a card that a player holds or that lies   *)
(* on the discards, up to the next shuffle.                                *)
ShuffleInv ==
  /\ pc \in {"Start", "GameStart"} => shuffles = 0
  /\ hand = 0 \/ (hand = 1 /\ pc = "HandStart") => Out = {}
  /\ pc \notin Early \cup Terminal => shuffles >= 1
  /\ pc = "Shuffle" /\ shuffles = 1 => Out = {} /\ start = FullDeck
  /\ pc \notin Early \cup Terminal /\ shuffles = 1 =>
       \A v \in Out : v.card \in HeldFaces \cup Range(discard)
  /\ pc \notin Early \cup Terminal \cup {"Shuffle"} => Range(FacesOf(work)) = Range(start)
  /\ AskedFor

LEMMA ShuffledStays ==
  ASSUME ShuffleInv, UNCHANGED <<seen, held, discard, work, start, shuffles, hand>>,
         pc' \notin Early \cup {"Shuffle"}, pc \notin Early \cup Terminal \cup {"Shuffle"}
  PROVE  ShuffleInv'
<1>1. Range(FacesOf(work))' = Range(FacesOf(work)) /\ HeldFaces' = HeldFaces
  BY DEF FacesOf, HeldFaces
<1> QED
  BY <1>1 DEF ShuffleInv, Early, Terminal, Out, AskedFor

LEMMA WithinShuffles ==
  ASSUME ProtocolInv, TableInv, CardsInv, OrderInv, SecondInv, ShuffleInv, Within
  PROVE  ShuffleInv'
<1> USE DEF Terminal
<1>1. /\ pc \notin Early \cup Terminal /\ UNCHANGED hand /\ pc' \notin Early
      /\ hand = 1 /\ Sound /\ CardInv /\ Shape
  <2>1. Shape
    BY DEF ProtocolInv
  <2> QED
    BY <2>1, WithinHand, FirstHand
<1>2. shuffles \in Nat /\ shuffles >= 1
  BY <1>1 DEF Shape, ShuffleInv
<1>3. CASE \/ Announce \/ Deal \/ DealTo \/ CardGiven \/ TurnUp \/ FirstColor
           \/ AskPlay \/ NothingPlayed \/ NextDrawsTwo \/ AskChallenge \/ ChallengeDecided \/ NoEffect
           \/ EndTurn \/ HandRevealed \/ HandSigned
  <2>1. UNCHANGED <<seen, held, discard, passing>> /\ pc # "Shuffle" /\ pc' # "Shuffle"
    <3>1. CASE EndTurn
      <4>1. UNCHANGED <<table, passing>> /\ pc = "EndTurn" /\ pc' \in {"Turn", "Failed", "HandReveal"}
        BY <3>1, Zenon DEF EndTurn
      <4> QED
        BY <4>1 DEF table
    <3>2. CASE HandRevealed
      <4>1. /\ UNCHANGED <<table, passing>> /\ pc = "HandReveal"
            /\ pc' \in {"Panicked", "HandSign", "Failed"}
        BY <3>2, Zenon DEF HandRevealed, Back
      <4> QED
        BY <4>1 DEF table
    <3>3. CASE Announce
      <4>1. Announcement[2] # "Shuffle"
        <5>1. AfterFirst # "Shuffle"
          BY DEF AfterFirst
        <5> QED
          BY <1>1, <3>3, <5>1 DEF Announce, Announcement, Shape
      <4> QED
        BY <3>3, <4>1 DEF Announce, table
    <3>4. CASE FirstColor
      BY <3>4 DEF FirstColor, Back
    <3> QED
      BY <1>3, <3>1, <3>2, <3>3, <3>4
         DEF Deal, DealTo, CardGiven, TurnUp, AskPlay, NothingPlayed, NextDrawsTwo,
             AskChallenge, ChallengeDecided, NoEffect, HandSigned, StartDraw, Back, PlayComesBack, table
  <2> QED
    BY <1>1, <2>1, ShuffledStays DEF passing
<1>4. CASE PassOn
  <2>1. /\ pc = "Shuffle" /\ pc' \in {"Shuffle", "Failed"} /\ UNCHANGED <<table, start, shuffles>>
        /\ \/ pc' = "Failed"
           \/ \E cards : Call(seat', ShuffleRequest(start, stage', cards))
    BY <1>4 DEF PassOn, Back
  <2>2. seat' \in Players
    BY <1>1, <1>4, SeatAfter DEF PassOn, Shape
  <2>3. AskedFor'
    <3>1. CASE pc' = "Failed"
      BY <3>1 DEF AskedFor
    <3>2. ASSUME NEW cards, Call(seat', ShuffleRequest(start, stage', cards))
          PROVE  AskedFor'
      <4>1. line'[seat'] = ShuffleRequest(start, stage', cards)
        BY <2>2, <3>2, Calls DEF Call
      <4> QED
        BY <1>1, <2>1, <4>1 DEF AskedFor, ShuffleRequest, HandStartMsg
    <3> QED
      BY <2>1, <3>1, <3>2
  <2> QED
    BY <1>1, <2>1, <2>3 DEF ShuffleInv, table, Out, HeldFaces, Early
<1>5. CASE ShuffleDone
  <2>1. pc = "Shuffle" /\ pc' = "Shuffled" /\ UNCHANGED <<held, seen, passing>>
    BY <1>5 DEF ShuffleDone, Back
  <2>2. Range(FacesOf(work)) = Range(start)
    BY <1>1, <2>1 DEF CardInv, Shuffled, ToBeShuffled
  <2>3. Range(FacesOf(work))' = Range(start)'
    BY <2>1, <2>2 DEF passing, FacesOf
  <2> QED
    BY <1>1, <2>1, <2>3 DEF ShuffleInv, passing, Out, AskedFor, Early
<1>6. CASE Reshuffle
  <2>1. Shuffle(Seqs!Front(discard)) /\ UNCHANGED <<seen, held, discard>>
    BY <1>6 DEF Reshuffle, table
  <2>2. /\ pc' = "Shuffle" /\ shuffles' = shuffles + 1 /\ seat' = 0
        /\ line'[0].type = "Shuffle" /\ line'[0].start = start' /\ line'[0].handStartSigs = HandStartMsg(hand)
    <3>1. 0 \in Players
      BY NAssumption DEF Players
    <3> QED
      BY <2>1, <3>1, Calls DEF Shuffle, ShuffleRequest, Call
  <2>3. AskedFor'
    BY <1>1, <2>2 DEF AskedFor, HandStartMsg
  <2> QED
    BY <1>1, <1>2, <2>2, <2>3 DEF ShuffleInv, Early
<1>7. CASE KeysGiven
  <2>1. CASE pc' = "Panicked"
    BY <1>1, <2>1 DEF ShuffleInv, Early, AskedFor
  <2>2. CASE pc' # "Panicked"
    <3>1. /\ pc = "Keys" /\ pc' = "Give" /\ Out' = Out \cup {Seqs!Last(deck)}
          /\ DOMAIN held' = DOMAIN held \cup {Seqs!Last(deck)}
          /\ UNCHANGED <<discard, work, start, shuffles>>
      BY <1>7, <2>2, DealtComesOut
    <3>2. HeldFaces' = HeldFaces \cup {Seqs!Last(deck).card}
      BY <3>1 DEF HeldFaces
    <3>3. Range(FacesOf(work))' = Range(start)'
      BY <1>1, <3>1 DEF ShuffleInv, FacesOf
    <3> QED
      BY <1>1, <3>1, <3>2, <3>3 DEF ShuffleInv, Early, AskedFor
  <2> QED
    BY <2>1, <2>2
<1>8. CASE TurnedUp
  <2>1. /\ pc = "FirstKeys" /\ pc' \in {"FirstColor", "FirstShown"}
        /\ Out' = Out \cup {Seqs!Last(deck)} /\ Range(discard') = Range(discard) \cup {Seqs!Last(deck).card}
        /\ UNCHANGED <<held, work, start, shuffles>>
    BY <1>8, TurnedComesOut
  <2>2. HeldFaces' = HeldFaces
    BY <2>1 DEF HeldFaces
  <2>3. Range(FacesOf(work))' = Range(start)'
    BY <1>1, <2>1 DEF ShuffleInv, FacesOf
  <2> QED
    BY <1>1, <2>1, <2>2, <2>3 DEF ShuffleInv, Early, AskedFor
<1>9. CASE CardPlayed
  <2>1. CASE pc' = "Failed"
    BY <1>1, <2>1 DEF ShuffleInv, Early, AskedFor
  <2>2. CASE pc' # "Failed"
    <3>1. /\ pc \in {"Play", "PlayAgain"} /\ pc' = "Discarded" /\ Out' = Out
          /\ UNCHANGED <<work, start, shuffles>>
      BY <1>9, <2>2, PlayedComesOut
    <3>2. PICK v \in DOMAIN held :
            DOMAIN held' = DOMAIN held \ {v} /\ Range(discard') = Range(discard) \cup {v.card}
      BY <1>9, <2>2, PlayedComesOut
    <3>3. HeldFaces \subseteq HeldFaces' \cup {v.card}
      BY <3>2 DEF HeldFaces
    <3>4. Range(FacesOf(work))' = Range(start)'
      BY <1>1, <3>1 DEF ShuffleInv, FacesOf
    <3> QED
      BY <1>1, <3>1, <3>2, <3>3, <3>4 DEF ShuffleInv, Early, AskedFor
  <2> QED
    BY <2>1, <2>2
<1> QED
  BY <1>3, <1>4, <1>5, <1>6, <1>7, <1>8, <1>9, Zenon DEF Within

LEMMA HostShuffles ==
  ASSUME ProtocolInv, TableInv, CardsInv, OrderInv, SecondInv, ShuffleInv, Host
  PROVE  ShuffleInv'
<1> USE DEF Terminal, Early
<1>1. shuffles \in Nat
  BY DEF ProtocolInv, Shape
<1>2. CASE Within
  BY <1>2, WithinShuffles
<1>3. CASE PlayerRefuses
  BY <1>3 DEF PlayerRefuses, ShuffleInv, AskedFor, table, game, Out
<1>4. CASE StartGame \/ GameStarted
  <2>1. pc' \in {"GameStart", "NewHand"} /\ pc \in {"Start", "GameStart"} /\ UNCHANGED <<hand, seen, shuffles>>
    BY <1>4 DEF StartGame, GameStarted, Back, table, game, passing
  <2> QED
    BY <2>1 DEF ShuffleInv, AskedFor, Out
<1>5. CASE StartHand
  <2>1. pc = "NewHand" /\ pc' = "HandStart" /\ hand' = hand + 1 /\ UNCHANGED <<seen, shuffles>>
    BY <1>5 DEF StartHand, table, passing
  <2>2. hand \in Nat
    BY <2>1, GoesOn DEF CardInv, Going
  <2> QED
    BY <2>1, <2>2 DEF ShuffleInv, AskedFor, Out
<1>6. CASE HandStarted
  <2>1. pc = "HandStart" /\ Back("HandStart") /\ UNCHANGED hand
    BY <1>6 DEF HandStarted, Back, game
  <2>2. hand # 0
    BY <2>1, GoesOn DEF CardInv, Waiting
  <2>3. CASE pc' = "Panicked"
    <3>1. UNCHANGED seen
      BY <1>6, <2>3 DEF HandStarted, table, Shuffle
    <3> QED
      BY <2>1, <2>2, <2>3, <3>1 DEF ShuffleInv, AskedFor, Out
  <2>4. CASE pc' # "Panicked"
    <3>1. Shuffle(<<>>) /\ seen' = <<>>
      BY <1>6, <2>4 DEF HandStarted
    <3>2. /\ pc' = "Shuffle" /\ start' = FullDeck /\ shuffles' = shuffles + 1 /\ seat' = 0
          /\ line'[0].type = "Shuffle" /\ line'[0].start = start' /\ line'[0].handStartSigs = HandStartMsg(hand)
      <4>1. 0 \in Players
        BY NAssumption DEF Players
      <4> QED
        BY <3>1, <4>1, Calls DEF Shuffle, ShuffleRequest, Call, FromCards
    <3>3. AskedFor'
      BY <2>1, <3>2 DEF AskedFor, HandStartMsg
    <3>4. Out' = {}
      BY <3>1, EmptyIsSeq DEF Out
    <3>5. shuffles' >= 1
      BY <1>1, <3>2
    <3>6. start' = FullDeck'
      BY <3>2 DEF FullDeck
    <3> QED
      BY <2>1, <2>2, <3>2, <3>3, <3>4, <3>5, <3>6 DEF ShuffleInv
  <2> QED
    BY <2>3, <2>4
<1>7. CASE AfterHand \/ GameEnded
  <2>1. /\ pc \in {"AfterHand", "GameEnd"} /\ pc' \in {"NewHand", "GameEnd", "Complete"}
        /\ (pc = "GameEnd" => Back(pc) /\ pc' = "Complete")
        /\ UNCHANGED <<hand, seen, held, discard, work, start, shuffles>>
    BY <1>7 DEF AfterHand, GameEnded, Back, table, game, passing
  <2>2. hand = 1
    BY <2>1, FirstHand DEF Going, Waiting
  <2>3. HeldFaces' = HeldFaces /\ Range(FacesOf(work))' = Range(FacesOf(work))
    BY <2>1 DEF HeldFaces, FacesOf
  <2> QED
    BY <2>1, <2>2, <2>3 DEF ShuffleInv, AskedFor, Out
<1> QED
  BY <1>2, <1>3, <1>4, <1>5, <1>6, <1>7, HostSteps

LEMMA ShufflesOn ==
  ASSUME ShuffleInv, HostStays,
         line'[seat] = line[seat] \/ line'[seat].type \notin Requests
  PROVE  ShuffleInv'
<1>1. UNCHANGED <<pc, deck, held, seen, discard, hand, work, start, seat, shuffles>>
  BY DEF HostStays, table, game, passing
<1>2. HeldFaces' = HeldFaces /\ Range(FacesOf(work))' = Range(FacesOf(work))
  BY <1>1 DEF HeldFaces, FacesOf
<1>3. AskedFor'
  BY <1>1 DEF ShuffleInv, AskedFor, Requests, HandStartMsg
<1> QED
  BY <1>1, <1>2, <1>3 DEF ShuffleInv, Early, Terminal, Out, FullDeck

LEMMA ShuffleInvariant == ASSUME Dealable PROVE Spec => []ShuffleInv
<1>1. Init => ShuffleInv
  BY EmptyIsSeq DEF Init, ShuffleInv, AskedFor, Early, Out
<1>2. /\ ProtocolInv /\ TableInv /\ CardsInv /\ OrderInv /\ SecondInv /\ ShuffleInv /\ [Next]_vars
      => ShuffleInv'
  <2> SUFFICES ASSUME ProtocolInv, TableInv, CardsInv, OrderInv, SecondInv, ShuffleInv, [Next]_vars
               PROVE  ShuffleInv'
    OBVIOUS
  <2>1. Shape /\ seat \in Players
    BY DEF ProtocolInv, Shape
  <2>2. CASE Host
    BY <2>2, HostShuffles
  <2>3. CASE \E p \in Players : Player(p)
    <3>1. PICK p \in Players : Player(p)
      BY <2>3
    <3>2. Alone(p) /\ line'[p].type \notin Requests
      BY <2>1, <3>1, Remembers DEF Player
    <3> QED
      BY <2>1, <3>1, <3>2, ShufflesOn, OthersLeaveHost DEF Alone
  <2>4. CASE Arrive \/ UNCHANGED vars
    <3>1. UNCHANGED line
      BY <2>4 DEF Arrive, vars, wires
    <3> QED
      BY <2>4, <3>1, ShufflesOn, OthersLeaveHost
  <2> QED
    BY <2>2, <2>3, <2>4 DEF Next, Finished
<1> QED
  BY <1>1, <1>2, ProtocolInvariant, TableInvariant, CardsInvariant, OrderInvariant, SecondInvariant, PTL DEF Spec
-----------------------------------------------------------------------------
\* The cards of the start

(* A player that has taken part in a shuffle remembers a full deck.        *)
RememberInv ==
  pc \notin Terminal =>
    \A p \in Players : mem[p].start = IF mem[p].shuffles = 0 THEN <<>> ELSE FullDeck

LEMMA FirstAskedRemembers ==
  ASSUME Dealable, ProtocolInv, ShuffleInv, RememberInv, NEW p \in Players, Player(p), ShuffleStage0(p),
         pc \notin Terminal
  PROVE  mem'[p].start = FullDeck /\ mem'[p].shuffles # 0
<1>1. /\ pc = "Shuffle" /\ p = seat /\ line[p].type = "Shuffle" /\ stage = 0 /\ shuffles \in Nat
      /\ mem[p].shuffles = shuffles - 1 /\ Shape
  BY AskedToShuffle DEF ShuffleStage0, Asked, ProtocolInv
<1>2. shuffles >= 1 /\ line[p].start = start
  BY <1>1 DEF ShuffleInv, AskedFor, Early, Terminal
<1>3. /\ mem'[p].start = IF mem[p].start = <<>> THEN line[p].start ELSE mem[p].start
      /\ mem'[p].shuffles = mem[p].shuffles + 1
  <2> DEFINE from0 == IF mem[p].start = <<>> THEN line[p].start ELSE mem[p].start
             key0 == <<p, mem[p].shuffles + 1, 0>>
  <2>1. mem' = [mem EXCEPT ![p] = [mem[p] EXCEPT !.start = from0, !.stage0 = key0, !.shuffles = @ + 1]]
    BY Zenon DEF ShuffleStage0, Remember
  <2> HIDE DEF from0, key0
  <2>2. mem'[p].start = from0 /\ mem'[p].shuffles = mem[p].shuffles + 1
    BY <1>1, <2>1 DEF Shape, Forgotten
  <2> QED
    BY <2>2 DEF from0
<1>4. CASE mem[p].shuffles = 0
  <2>1. shuffles = 1 /\ mem[p].start = <<>>
    BY <1>1, <1>4 DEF RememberInv
  <2> QED
    BY <1>1, <1>2, <1>3, <1>4, <2>1 DEF ShuffleInv
<1>5. CASE mem[p].shuffles # 0
  <2>1. mem[p].start = FullDeck
    BY <1>1, <1>5 DEF RememberInv, Terminal
  <2>2. FullDeck # <<>>
    <3>1. M # 0
      BY FullDeckCounts DEF Dealable
    <3> QED
      BY <3>1, FullDeckCounts, FullDeckIsSeq, SeqFacts
  <2> QED
    BY <1>1, <1>2, <1>3, <1>5, <2>1, <2>2
<1> QED
  BY <1>4, <1>5

LEMMA PlayerRemembers ==
  ASSUME Dealable, ProtocolInv, WhereInv, ShuffleInv, RememberInv, NEW p \in Players, Player(p)
  PROVE  RememberInv'
<1>1. UNCHANGED pc /\ Handle(p) /\ Shape
  BY DEF Player, ProtocolInv
<1>2. /\ Alone(p) /\ line[p].type \in Requests
      /\ line[p].type \notin {"GameStart", "Shuffle"} => mem'[p].start = mem[p].start
  BY <1>1, Remembers
<1>3. pc \notin Terminal => \A q \in Players \ {p} : mem'[q].start = IF mem'[q].shuffles = 0 THEN <<>> ELSE FullDeck
  BY <1>2 DEF RememberInv, Alone
<1>4. ASSUME pc \notin Terminal
      PROVE  mem'[p].start = IF mem'[p].shuffles = 0 THEN <<>> ELSE FullDeck
  <2>1. mem[p].start = IF mem[p].shuffles = 0 THEN <<>> ELSE FullDeck
    BY <1>4 DEF RememberInv
  <2>2. CASE line[p].type = "GameStart"
    <3>1. GameStart(p) /\ <<"GameStart", pc>> \in AskedAt
      BY <1>1, <1>2, <1>4, <2>2, Handlers DEF WhereInv
    <3>2. mem[p].shuffles = 0
      <4>1. pc = "GameStart"
        BY <3>1 DEF AskedAt
      <4> QED
        BY <1>4, <4>1 DEF ShuffleInv, ProtocolInv, Live, MixInv, Ended
    <3>3. mem'[p].start = <<>> /\ mem'[p].shuffles = mem[p].shuffles
      BY <1>1, <3>1 DEF GameStart, Remember, Forgotten, Shape
    <3> QED
      BY <3>2, <3>3
  <2>3. CASE line[p].type = "Shuffle"
    <3>1. CASE ShuffleStage0(p)
      BY <1>4, <3>1, FirstAskedRemembers
    <3>2. CASE ShuffleRefused(p)
      BY <2>1, <3>2 DEF ShuffleRefused
    <3>3. CASE ShuffleStage1(p)
      <4> DEFINE keys0 == [i \in DOMAIN line[p].cards |-> Stage1Key(p, mem[p], i)]
      <4>1. mem' = [mem EXCEPT ![p] = [mem[p] EXCEPT !.stage1 = keys0, !.stage0 = NoKey]]
        BY <3>3, Zenon DEF ShuffleStage1, Remember
      <4> HIDE DEF keys0
      <4> QED
        BY <1>1, <2>1, <4>1 DEF Shape, Forgotten
    <3>4. CASE ShuffleStage2(p)
      <4> DEFINE pairs0 == PutAll(mem[p].cardPairs, Filed(mem[p], line[p].cards))
      <4>1. mem' = [mem EXCEPT ![p] = [mem[p] EXCEPT !.cardPairs = pairs0, !.deck = line[p].cards,
                                         !.stage1 = <<>>]]
        BY <3>4, Zenon DEF ShuffleStage2, Remember
      <4> HIDE DEF pairs0
      <4> QED
        BY <1>1, <2>1, <4>1 DEF Shape, Forgotten
    <3> QED
      BY <1>1, <2>3, <3>1, <3>2, <3>3, <3>4, Handlers
  <2>4. CASE line[p].type \notin {"GameStart", "Shuffle"}
    <3>1. mem'[p].shuffles = mem[p].shuffles
      <4>1. ProtocolInv' /\ MixInv /\ pc \notin Terminal /\ UNCHANGED <<shuffles, stage, seat>>
        BY <1>4, PlayerKeeps DEF Player, passing, ProtocolInv, Live
      <4>2. MixInv'
        BY <1>1, <1>4, <4>1 DEF ProtocolInv, Live
      <4>3. pc # "Shuffle"
        BY <1>2, <1>4, <2>4 DEF WhereInv, AskedAt
      <4>4. Ended(p, 0) /\ Ended(p, 0)'
        BY <1>1, <4>3 DEF Ended
      <4> QED
        BY <4>1, <4>2, <4>4 DEF MixInv
    <3> QED
      BY <1>2, <2>1, <2>4, <3>1
  <2> QED
    BY <2>2, <2>3, <2>4
<1> QED
  BY <1>1, <1>2, <1>3, <1>4 DEF RememberInv, Terminal, FullDeck

LEMMA RememberInvariant == ASSUME Dealable PROVE Spec => []RememberInv
<1>1. Init => RememberInv
  BY DEF Init, HandlerInit, Forgotten, RememberInv
<1>2. ProtocolInv /\ WhereInv /\ ShuffleInv /\ RememberInv /\ [Next]_vars => RememberInv'
  <2> SUFFICES ASSUME ProtocolInv, WhereInv, ShuffleInv, RememberInv, [Next]_vars
               PROVE  RememberInv'
    OBVIOUS
  <2>1. Shape
    BY DEF ProtocolInv
  <2>2. CASE Host \/ Arrive \/ UNCHANGED vars
    <3>1. RecallStays /\ \A p \in Players : mem'[p].shuffles = mem[p].shuffles
      <4>1. CASE Host
        BY <2>1, <4>1, HostForgets, HostMemStays DEF MemStays
      <4>2. CASE Arrive
        <5>1. \A p \in Players : mem'[p].shuffles = mem[p].shuffles
          BY <2>1, <4>2 DEF Arrive, OnGameEvent, Shape, Forgotten
        <5> QED
          BY <2>1, <4>2, <5>1, ArriveRecalls
      <4>3. CASE UNCHANGED vars
        BY <4>3 DEF vars, wires, told, RecallStays
      <4> QED
        BY <2>2, <4>1, <4>2, <4>3
    <3>2. pc \in Terminal => pc' \in Terminal
      <4>1. CASE Host
        <5>1. pc \notin Terminal
          BY <4>1, HostSteps, WithinHand, <2>1 DEF PlayerRefuses, StartGame, GameStarted, StartHand,
             HandStarted, AfterHand, GameEnded, Back, Terminal
        <5> QED
          BY <5>1
      <4>2. CASE Arrive \/ UNCHANGED vars
        BY <4>2 DEF Arrive, vars
      <4> QED
        BY <2>2, <4>1, <4>2
    <3>3. FullDeck' = FullDeck /\ Terminal' = Terminal
      BY DEF FullDeck, Terminal
    <3> QED
      BY <3>1, <3>2, <3>3 DEF RememberInv, RecallStays
  <2>3. CASE \E p \in Players : Player(p)
    BY <2>3, PlayerRemembers
  <2> QED
    BY <2>2, <2>3 DEF Next, Finished
<1> QED
  BY <1>1, <1>2, ProtocolInvariant, WhereInvariant, ShuffleInvariant, PTL DEF Spec
-----------------------------------------------------------------------------
\* Whose turn it is before the first turn

\* It is the turn of the seat that has been dealt the k-th card.
SeatFor(k) == \E c \in Nat : k = c * N + turn

(* The seats are dealt cards in turn, from the one after the dealer on, up *)
(* to the dealer, so the one after the dealer is first.                    *)
TurnInv ==
  /\ pc \in {"Shuffle", "Shuffled"} /\ job = NoJob /\ hand = 1 => turn = 0
  /\ pc = "Deal" => HeldCount <= N * HandSize /\ SeatFor(HeldCount)
  /\ pc \in {"Draw", "Keys"} /\ job.then = "Deal" => HeldCount < N * HandSize /\ SeatFor(HeldCount + 1)
  /\ pc \in {"Give", "Drawn"} /\ job.then = "Deal" => HeldCount <= N * HandSize /\ SeatFor(HeldCount)
  /\ pc \in FirstOnes => turn = 1

LEMMA SeatsInTurn ==
  ASSUME NEW k \in Nat, turn \in Players, SeatFor(k), turn' = NextSeat(turn)
  PROVE  SeatFor(k + 1)'
<1>1. PICK c \in Nat : k = c * N + turn
  BY DEF SeatFor
<1>2. N \in Nat /\ turn \in 0..N-1 /\ turn' = IF turn = N - 1 THEN 0 ELSE turn + 1
  BY NAssumption, SeatAfter DEF Players
<1>3. CASE turn = N - 1
  <2>1. (c + 1) * N = c * N + N
    BY <1>2
  <2>2. c * N \in Nat
    BY <1>2
  <2>3. k + 1 = (c + 1) * N + turn'
    BY <1>1, <1>2, <1>3, <2>1, <2>2
  <2>4. \E d \in Nat : k + 1 = d * N + turn'
    BY <2>3
  <2> QED
    BY <2>4 DEF SeatFor
<1>4. CASE turn # N - 1
  <2>1. c * N \in Nat
    BY <1>2
  <2>2. k + 1 = c * N + turn'
    BY <1>1, <1>2, <1>4, <2>1
  <2> QED
    BY <2>2 DEF SeatFor
<1> QED
  BY <1>3, <1>4

(* After whole rounds it is the dealer's turn.                             *)
LEMMA WholeRounds ==
  ASSUME NEW h \in Nat, turn \in Players, SeatFor(N * h)
  PROVE  turn = 0
<1>1. PICK c \in Nat : N * h = c * N + turn
  BY DEF SeatFor
<1>2. N \in Nat /\ N >= 2 /\ turn \in 0..N-1
  BY NAssumption DEF Players
<1>3. PICK d \in Int : d = h - c
  OBVIOUS
<1>4. N * d = turn
  <2>1. N * d = N * h - N * c
    BY <1>2, <1>3
  <2>2. N * c = c * N /\ N * c \in Nat /\ N * h \in Nat
    BY <1>2
  <2> QED
    BY <1>1, <1>2, <2>1, <2>2
<1>5. CASE d >= 1
  <2>1. PICK e \in Nat : d = e + 1
    BY <1>5
  <2>2. N * d = N * e + N /\ N * e \in Nat
    BY <1>2, <2>1
  <2> QED
    BY <1>2, <1>4, <2>2
<1>6. CASE d < 0
  <2>1. PICK e \in Nat : d = -1 - e
    BY <1>6
  <2>2. N * d = -N - N * e /\ N * e \in Nat
    BY <1>2, <2>1
  <2> QED
    BY <1>2, <1>4, <2>2
<1>7. CASE d = 0
  BY <1>2, <1>4, <1>7
<1> QED
  BY <1>5, <1>6, <1>7

LEMMA NoTurns ==
  ASSUME pc' \notin FirstOnes \cup Drawing \cup {"Deal", "Shuffle", "Shuffled"}
  PROVE  TurnInv'
BY DEF TurnInv, FirstOnes, Drawing

LEMMA TurnStays ==
  ASSUME TurnInv, UNCHANGED <<pc, job, held, turn, hand>>
  PROVE  TurnInv'
BY DEF TurnInv, FirstOnes, SeatFor, HeldCount, NoJob

LEMMA AnnounceTurns ==
  ASSUME Shape, Sound, hand = 1, TurnInv, Announce
  PROVE  TurnInv'
<1>1. /\ pc \in {"Shuffled", "Drawn", "FirstShown", "FirstEffect", "Nothing", "Discarded",
                 "HandOver", "Effect"}
      /\ pc' = Announcement[2] /\ UNCHANGED <<held, turn, job, hand>>
  BY DEF Announce, table, game
<1>2. HeldCount' = HeldCount /\ \A k : SeatFor(k) => SeatFor(k)'
  BY <1>1 DEF HeldCount, SeatFor
<1>3. CASE pc = "Shuffled"
  <2>1. pc' = IF job = NoJob THEN "Deal" ELSE "Draw"
    BY <1>1, <1>3 DEF Announcement
  <2>2. IF job = NoJob THEN held = <<>> ELSE job.then # "Deal"
    BY <1>3 DEF Sound, Place, Doomed, Fresh
  <2>3. CASE job = NoJob
    <3>1. HeldCount = 0 /\ turn = 0
      BY <1>3, <2>2, <2>3, EmptyIsSeq, FS_EmptySet DEF HeldCount, TurnInv
    <3>2. SeatFor(HeldCount)
      BY <3>1, NAssumption DEF SeatFor
    <3>3. 0 <= N * HandSize
      BY NAssumption, BoundsAssumption
    <3> QED
      BY <1>1, <1>2, <2>1, <2>3, <3>1, <3>2, <3>3 DEF TurnInv, FirstOnes
  <2>4. CASE job # NoJob
    BY <1>1, <2>1, <2>2, <2>4 DEF TurnInv, FirstOnes
  <2> QED
    BY <2>3, <2>4
<1>4. CASE pc = "Drawn"
  <2>1. pc' = job.then
    BY <1>1, <1>4 DEF Announcement
  <2> QED
    BY <1>1, <1>2, <1>4, <2>1 DEF TurnInv, FirstOnes, Shape
<1>5. CASE pc = "FirstShown"
  <2>1. pc' = AfterFirst /\ AfterFirst \in {"FirstCard", "Draw", "FirstEffect", "Turn"}
    BY <1>1, <1>5 DEF Announcement, AfterFirst
  <2>2. job.then = "Turn"
    BY <1>5 DEF Sound, Place, Doomed
  <2> QED
    BY <1>1, <1>5, <2>1, <2>2 DEF TurnInv, FirstOnes
<1>6. CASE pc \in {"FirstEffect", "Nothing", "Discarded", "HandOver", "Effect"}
  <2>1. pc' \in {"Turn", "EndTurn", "Effect", "AfterHand"}
    BY <1>1, <1>6 DEF Announcement
  <2> QED
    BY <2>1, NoTurns DEF FirstOnes, Drawing
<1> QED
  BY <1>1, <1>3, <1>4, <1>5, <1>6

LEMMA DealTurns ==
  ASSUME Shape, Sound, TurnInv, Deal
  PROVE  TurnInv'
<1>1. pc = "Deal" /\ turn' = NextSeat(turn) /\ UNCHANGED held /\ turn \in Players
  BY DEF Deal, table, Shape
<1>2. HeldCount \in Nat /\ HeldCount' = HeldCount /\ HeldCount <= N * HandSize /\ SeatFor(HeldCount)
  BY <1>1, FS_CardinalityType DEF HeldCount, Sound, TurnInv
<1>3. CASE HeldCount < N * HandSize /\ pc' = "Draw" /\ job'.then = "Deal"
  BY <1>1, <1>2, <1>3, SeatsInTurn DEF TurnInv, FirstOnes
<1>4. CASE ~(HeldCount < N * HandSize) /\ pc' = "FirstCard"
  <2>1. HandSize \in Nat /\ N * HandSize \in Nat
    BY BoundsAssumption, NAssumption
  <2>2. HeldCount = N * HandSize
    BY <1>2, <1>4, <2>1
  <2>3. turn = 0
    BY <1>1, <1>2, <2>1, <2>2, WholeRounds
  <2>4. turn' = 1
    BY <1>1, <2>3, NAssumption, SeatAfter DEF Players
  <2> QED
    BY <1>4, <2>4 DEF TurnInv, FirstOnes
<1> QED
  BY <1>3, <1>4 DEF Deal, StartDraw, HeldCount

LEMMA KeysGivenTurns ==
  ASSUME ProtocolInv, TableInv, CardsInv, TurnInv, KeysGiven
  PROVE  TurnInv'
<1>1. CASE pc' = "Panicked"
  BY <1>1, NoTurns DEF FirstOnes, Drawing
<1>2. CASE pc' # "Panicked"
  <2>1. /\ pc = "Keys" /\ pc' = "Give" /\ DOMAIN held' = DOMAIN held \cup {Seqs!Last(deck)}
        /\ Seqs!Last(deck) \notin DOMAIN held /\ UNCHANGED <<turn, job>>
    BY <1>2, DealtComesOut
  <2>2. IsFiniteSet(DOMAIN held)
    <3>1. Sound
      BY Answers DEF KeysGiven, Waiting
    <3> QED
      BY <3>1 DEF Sound
  <2>3. HeldCount \in Nat /\ HeldCount' = HeldCount + 1
    BY <2>1, <2>2, FS_CardinalityType, FS_AddElement DEF HeldCount
  <2>4. \A k : SeatFor(k) => SeatFor(k)'
    BY <2>1 DEF SeatFor
  <2>5. N * HandSize \in Nat
    BY BoundsAssumption, NAssumption
  <2> QED
    BY <2>1, <2>3, <2>4, <2>5 DEF TurnInv, FirstOnes
<1> QED
  BY <1>1, <1>2

LEMMA HostTurns ==
  ASSUME Mended = Flaws, ProtocolInv, TableInv, CardsInv, SecondInv, BeginInv, TurnInv, Host
  PROVE  TurnInv'
<1>1. Shape
  BY DEF ProtocolInv
<1>2. ASSUME Within
      PROVE  hand = 1 /\ Sound /\ UNCHANGED hand
  BY <1>1, <1>2, WithinHand, FirstHand
<1>3. CASE PlayerRefuses \/ StartGame \/ GameStarted \/ StartHand \/ AfterHand \/ GameEnded
  <2>1. pc' \in {"Failed", "GameStart", "NewHand", "HandStart", "GameEnd", "Complete"}
    BY <1>3 DEF PlayerRefuses, StartGame, GameStarted, StartHand, AfterHand, GameEnded
  <2> QED
    BY <2>1, NoTurns DEF FirstOnes, Drawing
<1>4. CASE HandStarted
  <2>1. pc = "HandStart" /\ UNCHANGED hand
    BY <1>4 DEF HandStarted, Back, game
  <2>2. \/ pc' = "Panicked"
        \/ pc' = "Shuffle" /\ turn' = dealer
    BY <1>4 DEF HandStarted, Shuffle
  <2>3. hand = 1 => dealer = 0
    BY <2>1 DEF BeginInv
  <2> QED
    BY <2>1, <2>2, <2>3 DEF TurnInv, FirstOnes
<1>5. CASE Announce
  BY <1>1, <1>2, <1>5, AnnounceTurns DEF Within
<1>6. CASE Deal
  BY <1>1, <1>2, <1>6, DealTurns DEF Within
<1>7. CASE KeysGiven
  BY <1>7, KeysGivenTurns
<1>8. CASE PassOn \/ ShuffleDone
  <2>1. pc = "Shuffle" /\ pc' \in {"Failed", "Shuffle", "Shuffled"} /\ UNCHANGED <<turn, job, hand>>
    BY <1>8 DEF PassOn, ShuffleDone, Back, game
  <2> QED
    BY <2>1 DEF TurnInv, FirstOnes, NoJob
<1>9. CASE Reshuffle
  <2>1. pc = "Draw" /\ pc' = "Shuffle" /\ UNCHANGED job /\ Sound
    BY <1>2, <1>9 DEF Reshuffle, Shuffle, Within
  <2>2. job # NoJob
    BY <2>1 DEF Sound, Place, Drawing, NoJob
  <2> QED
    BY <2>1, <2>2 DEF TurnInv, FirstOnes, NoJob
<1>10. CASE DealTo
  <2>1. pc = "Draw" /\ pc' = "Keys" /\ UNCHANGED <<held, turn, job>>
    BY <1>10 DEF DealTo, table
  <2>2. HeldCount' = HeldCount /\ \A k : SeatFor(k) => SeatFor(k)'
    BY <2>1 DEF HeldCount, SeatFor
  <2> QED
    BY <2>1, <2>2 DEF TurnInv, FirstOnes
<1>11. CASE CardGiven
  <2>1. /\ pc = "Give" /\ UNCHANGED <<held, turn>> /\ job'.then = job.then /\ Sound
        /\ pc' = IF job.done + 1 = job.all THEN "Drawn" ELSE "Draw"
    BY <1>1, <1>2, <1>11 DEF CardGiven, Back, table, Within, Shape, NoJob
  <2>2. job.then = "Deal" => pc' = "Drawn"
    BY <2>1 DEF Sound, Place, Drawing
  <2>3. HeldCount' = HeldCount /\ \A k : SeatFor(k) => SeatFor(k)'
    BY <2>1 DEF HeldCount, SeatFor
  <2> QED
    BY <2>1, <2>2, <2>3 DEF TurnInv, FirstOnes
<1>12. CASE TurnUp \/ TurnedUp \/ FirstColor
  <2>1. pc \in FirstOnes /\ UNCHANGED turn /\ pc' \in {"FirstKeys", "FirstColor", "FirstShown", "Failed"}
    <3>1. CASE TurnedUp
      BY <3>1, Zenon DEF TurnedUp, Back, FirstOnes
    <3> QED
      BY <1>12, <3>1 DEF TurnUp, FirstColor, Back, FirstOnes
  <2> QED
    BY <2>1 DEF TurnInv, FirstOnes
<1>13. CASE NothingPlayed \/ NextDrawsTwo \/ ChallengeDecided
  <2>1. \/ pc' \in {"Nothing", "Reveal"}
        \/ pc' = "Draw" /\ job'.then \in {"Again", "EndTurn"}
    BY <1>13 DEF NothingPlayed, NextDrawsTwo, ChallengeDecided, StartDraw
  <2> QED
    BY <2>1 DEF TurnInv, FirstOnes
<1>14. CASE AskPlay \/ CardPlayed \/ AskChallenge \/ NoEffect \/ EndTurn \/ HandRevealed \/ HandSigned
  <2>1. pc' \in {"Play", "PlayAgain", "Discarded", "Failed", "Challenge", "EndTurn", "Turn",
                 "HandReveal", "HandSign", "Panicked", "HandOver"}
    <3>1. CASE CardPlayed \/ HandRevealed
      BY <3>1, Zenon DEF CardPlayed, HandRevealed
    <3>2. CASE EndTurn
      BY <3>2, Zenon DEF EndTurn
    <3> QED
      BY <1>14, <3>1, <3>2 DEF AskPlay, AskChallenge, NoEffect, HandSigned
  <2> QED
    BY <2>1, NoTurns DEF FirstOnes, Drawing
<1> QED
  BY <1>3, <1>4, <1>5, <1>6, <1>7, <1>8, <1>9, <1>10, <1>11, <1>12, <1>13, <1>14, Zenon DEF Host

LEMMA TurnInvariant == ASSUME Dealable, Mended = Flaws PROVE Spec => []TurnInv
<1>1. Init => TurnInv
  BY DEF Init, TurnInv, FirstOnes
<1>2. ProtocolInv /\ TableInv /\ CardsInv /\ SecondInv /\ BeginInv /\ TurnInv /\ [Next]_vars => TurnInv'
  <2>1. HostStays /\ TurnInv => TurnInv'
    BY TurnStays DEF HostStays, table, game
  <2> QED
    BY <2>1, HostTurns, OthersLeaveHost DEF Next, Finished
<1> QED
  BY <1>1, <1>2, ProtocolInvariant, TableInvariant, CardsInvariant, SecondInvariant, BeginInvariant, PTL DEF Spec
-----------------------------------------------------------------------------
\* Which cards players know to have been given

SameGiven == \A p, q \in Players : mem[p].given = mem[q].given

(* For the key that p gives the card is new to it, as it is to the player  *)
(* who is to be given the card.                                            *)
GivesKey(p) ==
  IF line[p].type = "key"
    THEN /\ Seqs!Last(deck) \notin mem[turn].given
         /\ mem[p].given = mem[turn].given \cup {Seqs!Last(deck)}
    ELSE mem[p].given = mem[turn].given

IsGiven ==
  IF line[turn].type = "Give"
    THEN LET top == Seqs!Last(mem[turn].deck)
         IN  /\ top \notin mem[turn].given
             /\ \A p \in Players \ {turn} : mem[p].given = mem[turn].given \cup {top}
    ELSE SameGiven

(* All know of the same cards that have come out, but while one is dealt.  *)
GivenInv ==
  /\ pc = "FirstKeys" => \A p \in Players : line[p].type = "Key" => line[p].to = None
  /\ hand <= 1 /\ pc \notin Terminal /\ Unrefused =>
       /\ pc \notin {"Keys", "Give"} => SameGiven
       /\ mem[turn].given \subseteq Out
       /\ pc = "Keys" => \A p \in Players : GivesKey(p)
       /\ pc = "Give" => IsGiven

LEMMA SameStays ==
  ASSUME RecallStays, SameGiven
  PROVE  SameGiven'
BY DEF RecallStays, SameGiven

LEMMA GivenStays ==
  ASSUME Shape, RecallStays, SameGiven, mem[turn].given \subseteq Out', turn' \in Players
  PROVE  SameGiven' /\ mem'[turn'].given \subseteq Out'
<1>1. SameGiven'
  BY SameStays
<1>2. mem'[turn'].given = mem[turn].given
  BY DEF RecallStays, SameGiven, Shape
<1> QED
  BY <1>1, <1>2

LEMMA KeysGivenGives ==
  ASSUME ProtocolInv, TableInv, CardsInv, GivenInv, hand <= 1, KeysGiven
  PROVE  GivenInv'
<1>1. CASE pc' = "Panicked"
  BY <1>1 DEF GivenInv, Terminal
<1>2. CASE pc' # "Panicked"
  <2>1. /\ pc = "Keys" /\ pc' = "Give" /\ Out' = Out \cup {Seqs!Last(deck)} /\ UNCHANGED <<mem, turn>>
    BY <1>2, DealtComesOut
  <2>2. Back("Keys") /\ Call(turn, [type |-> "Give", keys |-> KeysIn])
    BY <1>2 DEF KeysGiven
  <2>3. WireInv /\ Unrefused /\ turn \in Players
    BY <2>1, <2>2, Answers DEF Terminal, ProtocolInv, Live, Shape, Waiting
  <2>4. \A p \in Players \ {turn} : line[p].type = "key"
    BY <2>1, <2>2, <2>3 DEF WireInv, KeyCase, Refusal, Back, Answered, Requests
  <2>5. mem[turn].deck = deck
    BY <2>1, <2>3 DEF WireInv
  <2>6. /\ mem[turn].given \subseteq Out /\ \A p \in Players : GivesKey(p)
    BY <2>1, <2>3 DEF GivenInv, Terminal
  <2>7. PICK q \in Players : q # turn
    BY NAssumption DEF Players
  <2>8. line'[turn].type = "Give"
    BY <2>2, <2>3, Calls DEF Call
  <2>9. IsGiven'
    BY <2>1, <2>4, <2>5, <2>6, <2>7, <2>8 DEF IsGiven, GivesKey
  <2> QED
    BY <2>1, <2>6, <2>9 DEF GivenInv
<1> QED
  BY <1>1, <1>2

(* Where the host asks for keys or has them, and which cards come out.     *)
LEMMA WhereKeys ==
  ASSUME Shape, Host
  PROVE  /\ pc' = "Keys" => DealTo
         /\ pc' = "Give" => KeysGiven
         /\ pc' = "FirstKeys" => TurnUp
         /\ pc = "Keys" => KeysGiven \/ PlayerRefuses
         /\ pc = "Give" => CardGiven \/ PlayerRefuses
         /\ HandStarted \/ Out \subseteq Out'
<1>1. CASE Announce
  <2>1. /\ pc' = Announcement[2] /\ UNCHANGED seen
        /\ pc \in {"Shuffled", "Drawn", "FirstShown", "FirstEffect", "Nothing", "Discarded",
                   "HandOver", "Effect"}
    BY <1>1 DEF Announce, table
  <2>2. pc' \notin {"Keys", "Give", "FirstKeys"}
    <3>1. AfterFirst \notin {"Keys", "Give", "FirstKeys"}
      BY DEF AfterFirst
    <3> QED
      BY <2>1, <3>1 DEF Announcement, Shape
  <2> QED
    BY <2>1, <2>2 DEF Out
<1>2. CASE PlayerRefuses \/ StartGame \/ GameStarted \/ StartHand \/ AfterHand \/ GameEnded \/ HandSigned
  BY <1>2 DEF PlayerRefuses, StartGame, GameStarted, StartHand, AfterHand, GameEnded, HandSigned, Back,
              table, Out
<1>3. CASE HandStarted
  BY <1>3 DEF HandStarted, Back, Shuffle
<1>4. CASE PassOn \/ ShuffleDone \/ Reshuffle \/ Deal
  BY <1>4 DEF PassOn, ShuffleDone, Reshuffle, Deal, Back, Shuffle, StartDraw, table, Out
<1>5. CASE DealTo \/ CardGiven \/ TurnUp \/ FirstColor \/ AskPlay
  BY <1>5 DEF DealTo, CardGiven, TurnUp, FirstColor, AskPlay, Back, table, Out
<1>6. CASE KeysGiven
  BY <1>6 DEF KeysGiven, PopTopCard, Put, Back, Out
<1>7. CASE TurnedUp
  <2>1. /\ pc = "FirstKeys" /\ pc' \in {"Failed", "FirstColor", "FirstShown"}
        /\ seen' = Put(seen, Seqs!Last(deck), KeysIn)
    BY <1>7, Zenon DEF TurnedUp, PopTopCard, Back
  <2> QED
    BY <2>1 DEF Put, Out
<1>8. CASE CardPlayed
  <2>1. /\ pc \in {"Play", "PlayAgain"} /\ pc' \in {"Failed", "Discarded"}
        /\ seen' = seen \/ \E v, keys : seen' = Put(seen, v, keys)
    BY <1>8, Zenon DEF CardPlayed, PlayComesBack, Back
  <2> QED
    BY <2>1 DEF Put, Out
<1>9. CASE NothingPlayed \/ NextDrawsTwo \/ AskChallenge \/ ChallengeDecided \/ NoEffect
  BY <1>9 DEF NothingPlayed, NextDrawsTwo, AskChallenge, ChallengeDecided, NoEffect, PlayComesBack, Back,
              StartDraw, table, Out
<1>10. CASE EndTurn \/ HandRevealed
  <2>1. /\ UNCHANGED table /\ pc \in {"EndTurn", "HandReveal"}
        /\ pc' \in {"Turn", "Failed", "HandReveal", "Panicked", "HandSign"}
    <3>1. CASE EndTurn
      BY <3>1, Zenon DEF EndTurn
    <3>2. CASE HandRevealed
      BY <3>2, Zenon DEF HandRevealed, Back
    <3> QED
      BY <1>10, <3>1, <3>2
  <2> QED
    BY <2>1 DEF table, Out
<1> QED
  BY <1>1, <1>2, <1>3, <1>4, <1>5, <1>6, <1>7, <1>8, <1>9, <1>10, Zenon DEF Host

LEMMA HostGives ==
  ASSUME ProtocolInv, ProtocolInv', TableInv, CardsInv, SecondInv, ShuffleInv, GivenInv, Host
  PROVE  GivenInv'
<1>1. Shape /\ RecallStays /\ turn' \in Players
  <2>1. Shape /\ turn' \in Players
    BY DEF ProtocolInv, Shape
  <2> QED
    BY <2>1, HostForgets
<1>2. CASE PlayerRefuses
  BY <1>2 DEF PlayerRefuses, GivenInv, Terminal
<1>3. CASE KeysGiven
  <2>1. hand <= 1
    <3>1. hand = 1
      BY <1>1, <1>3, WithinHand, FirstHand DEF Within
    <3> QED
      BY <3>1
  <2> QED
    BY <1>3, <2>1, KeysGivenGives
<1>4. CASE ~PlayerRefuses /\ ~KeysGiven
  <2>1. pc \notin Terminal /\ Unrefused
    <3>1. 0 \in Players
      BY NAssumption DEF Players
    <3> QED
      BY <1>4, <3>1, NothingAsked DEF Unrefused
  <2>2. hand' <= 1 => hand <= 1
    <3>1. CASE StartHand
      <4>1. hand \in Nat /\ hand' = hand + 1
        BY <3>1, GoesOn DEF StartHand, CardInv, Going, Terminal
      <4> QED
        BY <4>1
    <3>2. CASE ~StartHand
      <4>1. UNCHANGED hand
        BY <1>1, <1>4, <3>2, HostSteps, WithinHand
           DEF StartGame, GameStarted, HandStarted, AfterHand, GameEnded, game
      <4> QED
        BY <4>1
    <3> QED
      BY <3>1, <3>2
  <2>3. pc' = "FirstKeys" => \A p \in Players : line'[p].to = None
    BY <1>1, WhereKeys, Calls DEF TurnUp
  <2>4. ASSUME hand' <= 1
        PROVE  SameGiven' /\ mem'[turn'].given \subseteq Out'
    <3>1. SameGiven /\ mem[turn].given \subseteq Out
      <4>1. mem[turn].given \subseteq Out /\ (pc \notin {"Keys", "Give"} => SameGiven)
            /\ (pc = "Give" => IsGiven)
        BY <2>1, <2>2, <2>4 DEF GivenInv
      <4>2. pc # "Keys"
        BY <1>1, <1>4, WhereKeys
      <4>3. pc = "Give" => line[turn].type # "Give"
        BY <1>1, <1>4, WhereKeys DEF CardGiven, Back, Answered, Requests, Shape
      <4> QED
        BY <4>1, <4>2, <4>3 DEF IsGiven
    <3>2. CASE HandStarted
      <4>1. pc = "HandStart" /\ hand' = hand /\ Back("HandStart")
        BY <3>2 DEF HandStarted, Back, game
      <4>2. hand \in Nat /\ hand # 0
        BY <4>1, GoesOn DEF CardInv, Waiting, Terminal
      <4>3. Out = {}
        BY <2>4, <4>1, <4>2 DEF ShuffleInv
      <4> QED
        BY <1>1, <3>1, <4>3, GivenStays
    <3>3. CASE Out \subseteq Out'
      BY <1>1, <3>1, <3>3, GivenStays
    <3> QED
      BY <1>1, <3>2, <3>3, WhereKeys
  <2>5. pc' # "Give"
    BY <1>1, <1>4, WhereKeys
  <2>6. ASSUME hand' <= 1, pc' = "Keys"
        PROVE  \A p \in Players : GivesKey(p)'
    <3>1. DealTo
      BY <1>1, <2>6, WhereKeys
    <3>2. \A p \in Players : line'[p].type \in {"Key", "idle"}
      BY <3>1, Calls DEF DealTo, Idle
    <3> QED
      BY <1>1, <2>4, <2>6, <3>2 DEF SameGiven, GivesKey
  <2> QED
    BY <2>3, <2>4, <2>5, <2>6 DEF GivenInv
<1> QED
  BY <1>2, <1>3, <1>4

(* A key that is given is that of the player's top card, which is noted    *)
(* unless it is turned up.                                                 *)
LEMMA KeyIsGiven ==
  ASSUME Shape, NEW p \in Players, GetKey(p), line'[p].type # "refused"
  PROVE  /\ line[p].to # None => line[p].to # p /\ Seqs!Last(mem[p].deck) \notin mem[p].given
         /\ mem'[p].given = IF line[p].to # None THEN mem[p].given \cup {Seqs!Last(mem[p].deck)}
                                                ELSE mem[p].given
         /\ line'[p].type = "key" /\ line'[p].key = mem[p].cardPairs[Seqs!Last(mem[p].deck)]
<1> DEFINE last == Seqs!Last(mem[p].deck)
           to == line[p].to
           ok == IF to = None
                   THEN /\ mem[p].lastEvent # NoEvent /\ mem[p].lastEvent.hand # NoHand
                        /\ \A i \in DOMAIN mem[p].lastEvent.hand.discard :
                             Value(mem[p].lastEvent.hand.discard[i]) = WildDrawFour
                   ELSE to # p /\ last \notin mem[p].given
           given0 == IF to # None /\ ok THEN mem[p].given \cup {last} ELSE mem[p].given
           key0 == mem[p].cardPairs[last]
<1>1. \/ Refuse(p)
      \/ /\ mem' = [mem EXCEPT ![p] = [mem[p] EXCEPT !.deck = Seqs!Front(@), !.given = given0]]
         /\ Answer(p, ok, [type |-> "key", key |-> key0])
  BY Zenon DEF GetKey, Remember
<1> HIDE DEF given0, key0
<1>2. ~Refuse(p)
  BY DEF Refuse, Shape
<1>3. /\ mem' = [mem EXCEPT ![p] = [mem[p] EXCEPT !.deck = Seqs!Front(@), !.given = given0]]
      /\ Answer(p, ok, [type |-> "key", key |-> key0])
  BY <1>1, <1>2
<1>4. ok
  BY <1>2, <1>3 DEF Answer
<1>5. line' = [line EXCEPT ![p] = [type |-> "key", key |-> key0]]
  BY <1>3, <1>4 DEF Answer, Reply
<1>6. mem'[p].given = given0
  BY <1>3 DEF Shape, Forgotten
<1>7. given0 = IF to # None THEN mem[p].given \cup {last} ELSE mem[p].given
  BY <1>4, Zenon DEF given0
<1> QED
  BY <1>4, <1>5, <1>6, <1>7 DEF Shape, key0

(* A card that is taken is one that opens with the player's key.           *)
LEMMA CardIsTaken ==
  ASSUME Shape, NEW p \in Players, GiveCard(p), line'[p].type # "refused"
  PROVE  LET top == Seqs!Last(mem[p].deck)
             keys == [line[p].keys EXCEPT ![p] = mem[p].cardPairs[top]]
         IN  /\ mem'[p].given = mem[p].given \cup {top} /\ line'[p].type = "taken"
             /\ mem'[p].myCards =
                  Append(mem[p].myCards, [card |-> Decrypted(top, keys).card, number |-> top, keys |-> keys])
<1> DEFINE last == Seqs!Last(mem[p].deck)
           others == line[p].keys
           keys == [others EXCEPT ![p] = mem[p].cardPairs[last]]
           open == FoldSet(LAMBDA q, v : DecryptInt(keys[q], v), last, Players)
           ok == /\ last \in DOMAIN mem[p].cardPairs
                 /\ last \notin mem[p].given
                 /\ \A q \in Players : (others[q] = NoKey) = (q = p)
                 /\ Opened(open)
           mine == [card |-> open.card, number |-> last, keys |-> keys]
           cards0 == IF ok THEN Append(mem[p].myCards, mine) ELSE mem[p].myCards
<1>1. \/ Refuse(p)
      \/ /\ mem' = [mem EXCEPT ![p] = [mem[p] EXCEPT !.deck = Popped(@), !.given = @ \cup {last},
                    !.myCards = cards0]]
         /\ Answer(p, ok, [type |-> "taken"])
  BY Zenon DEF GiveCard, Remember
<1> HIDE DEF cards0, ok
<1>2. ~Refuse(p)
  BY DEF Refuse, Shape
<1>3. mem'[p].given = mem[p].given \cup {last}
  BY <1>1, <1>2 DEF Shape, Forgotten
<1>4. line'[p].type = "taken"
  BY <1>1, <1>2 DEF Answer, Reply, Shape
<1>5. ok
  BY <1>1, <1>2 DEF Answer
<1>6. mem'[p].myCards = cards0
  BY <1>1, <1>2 DEF Shape, Forgotten
<1>7. cards0 = Append(mem[p].myCards, mine)
  BY <1>5, Zenon DEF cards0
<1>8. open = Decrypted(last, keys)
  BY DEF Decrypted
<1> HIDE DEF open, last, keys
<1>9. mem'[p].myCards =
        Append(mem[p].myCards, [card |-> Decrypted(last, keys).card, number |-> last, keys |-> keys])
  BY <1>6, <1>7, <1>8
<1> QED
  BY <1>3, <1>4, <1>9, Zenon DEF last, keys

LEMMA PlayerGives ==
  ASSUME ProtocolInv, TableInv, CardsInv, WhereInv, ShuffleInv, GivenInv, NEW p \in Players, Player(p)
  PROVE  GivenInv'
<1>1. /\ UNCHANGED <<pc, hand, deck, seen, turn>> /\ Handle(p) /\ Shape /\ turn \in Players
  BY DEF Player, table, game, ProtocolInv, Shape
<1>2. /\ Alone(p) /\ line[p].type \in Requests /\ line'[p].type \notin Requests \cup {"idle"}
      /\ line[p].type \notin {"GameStart", "Key", "Give"} => mem'[p].given = mem[p].given
  BY <1>1, Remembers
<1>3. \A q \in Players : pc = "FirstKeys" /\ line'[q].type = "Key" => line'[q].to = None
  BY <1>2 DEF GivenInv, Alone, Requests
<1>4. ASSUME hand <= 1, pc \notin Terminal, Unrefused'
      PROVE  /\ pc \notin {"Keys", "Give"} => SameGiven'
             /\ mem'[turn].given \subseteq Out
             /\ pc = "Keys" => \A q \in Players : GivesKey(q)'
             /\ pc = "Give" => IsGiven'
  <2>1. Unrefused /\ line'[p].type # "refused"
    BY <1>2, <1>4 DEF Unrefused, Alone, Requests
  <2>2. /\ pc \notin {"Keys", "Give"} => SameGiven
        /\ mem[turn].given \subseteq Out
        /\ pc = "Keys" => \A q \in Players : GivesKey(q)
        /\ pc = "Give" => IsGiven
    BY <1>4, <2>1 DEF GivenInv
  <2>3. <<line[p].type, pc>> \in AskedAt
    BY <1>2, <1>4 DEF WhereInv
  <2>4. WireInv /\ Sound /\ HostKeys /\ (Doomed \/ CardInv)
    BY <1>4, <2>1 DEF ProtocolInv, Live, TableInv, CardsInv
  <2>5. CASE line[p].type = "GameStart"
    <3>1. GameStart(p) /\ pc = "GameStart"
      BY <1>1, <2>3, <2>5, Handlers DEF AskedAt
    <3>2. Out = {}
      BY <2>4, <3>1 DEF Doomed, CardInv, ShuffleInv
    <3>3. mem'[p].given = {}
      BY <1>1, <3>1 DEF GameStart, Remember, Forgotten, Shape
    <3>4. \A q \in Players : mem'[q].given = {}
      BY <1>1, <1>2, <2>2, <3>1, <3>2, <3>3 DEF SameGiven, Alone
    <3> QED
      BY <1>1, <3>1, <3>4 DEF SameGiven
  <2>6. CASE line[p].type = "Key"
    <3>1. GetKey(p) /\ pc \in {"Keys", "FirstKeys"}
      BY <1>1, <2>3, <2>6, Handlers DEF AskedAt
    <3>2. /\ line[p].to # None => Seqs!Last(mem[p].deck) \notin mem[p].given
          /\ mem'[p].given = IF line[p].to # None THEN mem[p].given \cup {Seqs!Last(mem[p].deck)}
                                                 ELSE mem[p].given
          /\ line'[p].type = "key"
      BY <1>1, <2>1, <3>1, KeyIsGiven
    <3>3. CASE pc = "FirstKeys"
      <4>1. mem'[p].given = mem[p].given
        BY <2>6, <3>2, <3>3 DEF GivenInv
      <4> QED
        BY <1>1, <1>2, <2>2, <3>3, <4>1 DEF SameGiven, Alone
    <3>4. CASE pc = "Keys"
      <4>1. p # turn /\ mem[p].deck = deck
        BY <2>4, <2>6, <3>4 DEF WireInv, KeyCase, Refusal, Idle
      <4>2. line[p].to = turn
        BY <2>4, <2>6, <3>4, <4>1 DEF Sound, Doomed, Hands, KeyIsNew
      <4>3. line[p].to # None
        BY <1>1, <4>2, NAssumption DEF Players, None
      <4>4. mem'[turn] = mem[turn] /\ \A q \in Players \ {p} : mem'[q] = mem[q] /\ line'[q] = line[q]
        BY <1>1, <1>2, <4>1 DEF Alone
      <4>5. GivesKey(p)'
        BY <1>1, <2>2, <2>6, <3>2, <3>4, <4>1, <4>3, <4>4 DEF GivesKey
      <4>6. \A q \in Players \ {p} : GivesKey(q)'
        BY <1>1, <2>2, <3>4, <4>4 DEF GivesKey
      <4> QED
        BY <2>2, <3>4, <4>4, <4>5, <4>6
    <3> QED
      BY <3>1, <3>3, <3>4
  <2>7. CASE line[p].type = "Give"
    <3>1. GiveCard(p) /\ pc = "Give" /\ p = turn
      BY <1>1, <2>3, <2>4, <2>7, Handlers, AskedWhere DEF AskedAt
    <3>2. mem'[p].given = mem[p].given \cup {Seqs!Last(mem[p].deck)} /\ line'[p].type = "taken"
      BY <1>1, <2>1, <3>1, CardIsTaken
    <3> DEFINE given == mem[p].given \cup {Seqs!Last(mem[p].deck)}
    <3>3. SameGiven'
      <4>1. \A q \in Players \ {p} : mem[q].given = given
        BY <2>2, <2>7, <3>1 DEF IsGiven
      <4>2. \A q \in Players : mem'[q].given = given
        <5> HIDE DEF given
        <5>1. mem'[p].given = given
          BY <3>2 DEF given
        <5> QED
          BY <1>2, <4>1, <5>1 DEF Alone
      <4> QED
        BY <4>2 DEF SameGiven
    <3>4. Seqs!Last(mem[p].deck) \in Out
      BY <2>4, <2>7, <3>1 DEF Sound, Doomed, Hands, HostKeys
    <3> QED
      BY <1>1, <2>2, <3>1, <3>2, <3>3, <3>4 DEF IsGiven
  <2>8. CASE line[p].type \notin {"GameStart", "Key", "Give"}
    <3>1. pc \notin {"Keys", "Give"}
      BY <2>3, <2>8 DEF AskedAt
    <3>2. \A q \in Players : mem'[q].given = mem[q].given
      BY <1>2, <2>8 DEF Alone
    <3> QED
      BY <1>1, <2>2, <3>1, <3>2 DEF SameGiven
  <2> QED
    BY <2>5, <2>6, <2>7, <2>8
<1> QED
  BY <1>1, <1>3, <1>4 DEF GivenInv, Out, Terminal

LEMMA GivenStill ==
  ASSUME Shape, GivenInv, RecallStays, UNCHANGED <<pc, hand, deck, seen, turn, line>>
  PROVE  GivenInv'
<1>1. \A p \in Players : mem'[p].given = mem[p].given /\ mem'[p].deck = mem[p].deck
  BY DEF RecallStays
<1>2. turn \in Players
  BY DEF Shape
<1>3. (SameGiven => SameGiven') /\ (IsGiven => IsGiven')
  BY <1>1, <1>2 DEF SameGiven, IsGiven
<1>4. \A p \in Players : GivesKey(p) => GivesKey(p)'
  BY <1>1, <1>2 DEF GivesKey
<1> QED
  BY <1>1, <1>2, <1>3, <1>4 DEF GivenInv, Unrefused, Terminal, Out

LEMMA GivenInvariant == ASSUME Dealable PROVE Spec => []GivenInv
<1>1. Init => GivenInv
  <2> SUFFICES ASSUME Init PROVE GivenInv
    OBVIOUS
  <2>1. 0 \in Players
    BY NAssumption DEF Players
  <2>2. pc = "Start" /\ turn = 0 /\ \A p \in Players : mem[p].given = {}
    BY DEF Init, HandlerInit, Forgotten
  <2> QED
    BY <2>1, <2>2 DEF GivenInv, SameGiven
<1>2. ProtocolInv /\ TableInv /\ CardsInv /\ SecondInv /\ WhereInv /\ ShuffleInv /\ GivenInv
      /\ ProtocolInv' /\ [Next]_vars => GivenInv'
  <2>1. ASSUME ProtocolInv, GivenInv, Arrive \/ UNCHANGED vars PROVE GivenInv'
    <3>1. RecallStays
      BY <2>1, ArriveRecalls DEF ProtocolInv, RecallStays, vars, wires, told
    <3>2. UNCHANGED <<pc, hand, deck, seen, turn, line>>
      BY <2>1 DEF Arrive, vars, wires, told, game, table
    <3> QED
      BY <2>1, <3>1, <3>2, GivenStill DEF ProtocolInv
  <2> QED
    BY <2>1, HostGives, PlayerGives DEF Next, Finished
<1> QED
  BY <1>1, <1>2, ProtocolInvariant, TableInvariant, CardsInvariant, SecondInvariant, WhereInvariant,
     ShuffleInvariant, PTL DEF Spec
-----------------------------------------------------------------------------
\* Which numbers the players have filed keys for

\* The player has filed its keys of the shuffle that is under way.
Filled(p) == pc = "Shuffle" /\ Ended(p, 2)

(* Keys are filed for the numbers of B, all that are in the deck or have   *)
(* left it among them, and by some players for those of this shuffle.      *)
PairsFor(B) ==
  /\ pc \in {"Start", "GameStart"} => B = {}
  /\ Range(deck) \cup Out \subseteq B /\ \A v \in B : Proper(v)
  /\ \A p \in Players : DOMAIN mem[p].cardPairs = IF Filled(p) THEN B \cup Range(work) ELSE B

PairsInv == pc \notin Terminal /\ Unrefused => \E B : PairsFor(B)

LEMMA RestIsIn ==
  ASSUME NEW s, IsSeq(s), s # <<>>
  PROVE  Seqs!Last(s) \in Range(s) /\ Range(Seqs!Front(s)) \subseteq Range(s)
<1>1. Seqs!Front(s) \in Seq(Range(s)) /\ Seqs!Last(s) \in Range(s)
  BY FrontIsIn DEF IsSeq
<1>2. \A i \in DOMAIN Seqs!Front(s) : Seqs!Front(s)[i] \in Range(s)
  BY <1>1, ElementOfSeq, LenProperties
<1> QED
  BY <1>1, <1>2 DEF Range

LEMMA PairsGoOn ==
  ASSUME NEW B, PairsFor(B), RecallStays, pc # "Shuffle", pc' # "Shuffle",
         pc' \in {"Start", "GameStart"} => pc \in {"Start", "GameStart"},
         Range(deck') \cup Out' \subseteq Range(deck) \cup Out
  PROVE  PairsInv'
<1>1. \A p \in Players : ~Filled(p) /\ ~Filled(p)'
  BY DEF Filled
<1>2. \A v \in B : Proper(v)'
  BY DEF PairsFor, Proper, IsNumber, Hidden
<1>3. \A p \in Players : DOMAIN mem'[p].cardPairs = B
  BY <1>1 DEF PairsFor, RecallStays
<1>4. PairsFor(B)'
  BY <1>1, <1>2, <1>3 DEF PairsFor
<1> QED
  BY <1>4 DEF PairsInv

(* A shuffle begins where nobody has filed its keys yet.                   *)
LEMMA ShufflePairs ==
  ASSUME Shape, NEW B, PairsFor(B), RecallStays, pc # "Shuffle", NEW cards, Shuffle(cards),
         Range(deck') \cup Out' \subseteq B
  PROVE  PairsInv'
<1>1. pc' = "Shuffle" /\ stage' = 0
  BY DEF Shuffle
<1>2. \A p \in Players : ~Filled(p) /\ ~Filled(p)'
  BY <1>1 DEF Filled, Ended
<1>3. \A v \in B : Proper(v)'
  BY DEF PairsFor, Proper, IsNumber, Hidden
<1>4. PairsFor(B)'
  BY <1>1, <1>2, <1>3 DEF PairsFor, RecallStays
<1> QED
  BY <1>4 DEF PairsInv

LEMMA PassOnPairs ==
  ASSUME ProtocolInv, TableInv, CardsInv, NEW B, PairsFor(B), RecallStays, PassOn, pc' # "Failed"
  PROVE  PairsInv'
<1>1. /\ pc = "Shuffle" /\ Back("Shuffle") /\ work' = IF stage < 2 THEN line[seat].cards ELSE work
      /\ stage < 2 \/ seat < N - 1
      /\ stage' = (IF seat = N - 1 THEN stage + 1 ELSE stage) /\ seat' = NextSeat(seat)
      /\ Call(seat', ShuffleRequest(start, stage', work')) /\ pc' = "Shuffle"
      /\ UNCHANGED <<deck, seen>>
  BY DEF PassOn, Back, table
<1>2. Shape /\ WireInv /\ MixInv
  BY <1>1 DEF ProtocolInv, Live, Terminal
<1>3. \A p \in Players : Ended(p, 2) <=> stage > 2 \/ (stage = 2 /\ p <= seat)
  BY <1>1, <1>2, SeatAnswered
<1>4. seat \in Players /\ seat' \in Players /\ (seat = N - 1 => seat' = 0) /\ (seat # N - 1 => seat' = seat + 1)
  BY <1>1, <1>2, SeatAfter DEF Shape
<1>5. line'[seat'].type = "Shuffle"
  BY <1>1, <1>4, Calls DEF Call, ShuffleRequest
<1>6. \A p \in Players : Ended(p, 2)' <=> stage' > 2 \/ (stage' = 2 /\ p < seat')
  BY <1>1, <1>5 DEF Ended
<1>7. CASE stage = 2
  <2>1. \A p \in Players : Filled(p)' <=> Filled(p)
    BY <1>1, <1>3, <1>4, <1>6, <1>7, NAssumption DEF Filled, Players
  <2>2. \A v \in B : Proper(v)'
    BY DEF PairsFor, Proper, IsNumber, Hidden
  <2>3. work' = work
    BY <1>1, <1>7
  <2>4. PairsFor(B)'
    BY <1>1, <2>1, <2>2, <2>3 DEF PairsFor, RecallStays, Out
  <2> QED
    BY <2>4 DEF PairsInv
<1>8. CASE stage < 2
  <2>1. \A p \in Players : ~Filled(p) /\ ~Filled(p)'
    BY <1>1, <1>2, <1>3, <1>4, <1>6, <1>8, NAssumption DEF Filled, Players, Shape
  <2>2. \A v \in B : Proper(v)'
    BY DEF PairsFor, Proper, IsNumber, Hidden
  <2>3. PairsFor(B)'
    BY <1>1, <2>1, <2>2 DEF PairsFor, RecallStays, Out
  <2> QED
    BY <2>3 DEF PairsInv
<1> QED
  BY <1>2, <1>7, <1>8 DEF Shape

(* When it ends all have, and the new deck is what they are for.           *)
LEMMA ShuffleDonePairs ==
  ASSUME ProtocolInv, TableInv, CardsInv, NEW B, PairsFor(B), RecallStays, ShuffleDone
  PROVE  PairsInv'
<1>1. /\ pc = "Shuffle" /\ Back("Shuffle") /\ stage = 2 /\ seat = N - 1
      /\ deck' = work /\ pc' = "Shuffled" /\ UNCHANGED <<seen, work>>
  BY DEF ShuffleDone, Back, passing
<1>2. Shape /\ WireInv /\ MixInv
  BY <1>1 DEF ProtocolInv, Live, Terminal
<1>3. \A p \in Players : Filled(p)
  BY <1>1, <1>2, SeatAnswered, NAssumption DEF Filled, Players
<1>4. CardInv
  BY <1>1, GoesOn DEF Waiting, Terminal
<1>5. \A v \in Range(work) : Proper(v)
  BY <1>4 DEF CardInv, Opening, Range
<1>6. \A v \in B \cup Range(work) : Proper(v)'
  BY <1>5 DEF PairsFor, Proper, IsNumber, Hidden
<1>7. PairsFor(B \cup Range(work))'
  <2>1. \A p \in Players : ~Filled(p)' /\ DOMAIN mem'[p].cardPairs = B \cup Range(work)
    BY <1>1, <1>3 DEF Filled, PairsFor, RecallStays
  <2>2. Range(deck') \cup Out' \subseteq B \cup Range(work)
    BY <1>1 DEF PairsFor, Out
  <2> QED
    BY <1>1, <1>6, <2>1, <2>2 DEF PairsFor
<1> QED
  BY <1>7 DEF PairsInv

LEMMA WithinPairs ==
  ASSUME ProtocolInv, TableInv, CardsInv, SecondInv, PairsInv, Host, Within
  PROVE  PairsInv'
<1> USE DEF Terminal
<1>1. /\ pc \notin Early \cup Terminal /\ pc' \notin Early
      /\ Unrefused /\ Sound /\ CardInv /\ Shape /\ HostKeys /\ RecallStays
  <2>1. Shape /\ HostKeys
    BY DEF ProtocolInv
  <2> QED
    BY <2>1, WithinHand, FirstHand, HostForgets
<1>2. PICK B : PairsFor(B)
  BY <1>1 DEF PairsInv
<1>3. CASE \/ Announce \/ Deal \/ DealTo \/ CardGiven \/ TurnUp \/ FirstColor
           \/ AskPlay \/ NothingPlayed \/ NextDrawsTwo \/ AskChallenge \/ ChallengeDecided \/ NoEffect
           \/ EndTurn \/ HandRevealed \/ HandSigned
  <2>1. UNCHANGED <<seen, deck>> /\ pc # "Shuffle" /\ pc' # "Shuffle"
    <3>1. CASE EndTurn
      <4>1. UNCHANGED table /\ pc = "EndTurn" /\ pc' \in {"Turn", "Failed", "HandReveal"}
        BY <3>1, Zenon DEF EndTurn
      <4> QED
        BY <4>1 DEF table
    <3>2. CASE HandRevealed
      <4>1. /\ UNCHANGED table /\ pc = "HandReveal"
            /\ pc' \in {"Panicked", "HandSign", "Failed"}
        BY <3>2, Zenon DEF HandRevealed, Back
      <4> QED
        BY <4>1 DEF table
    <3>3. CASE Announce
      <4>1. Announcement[2] # "Shuffle"
        <5>1. AfterFirst # "Shuffle"
          BY DEF AfterFirst
        <5> QED
          BY <1>1, <3>3, <5>1 DEF Announce, Announcement, Shape
      <4> QED
        BY <3>3, <4>1 DEF Announce, table
    <3>4. CASE FirstColor
      BY <3>4 DEF FirstColor, Back
    <3> QED
      BY <1>3, <3>1, <3>2, <3>3, <3>4
         DEF Deal, DealTo, CardGiven, TurnUp, AskPlay, NothingPlayed, NextDrawsTwo,
             AskChallenge, ChallengeDecided, NoEffect, HandSigned, StartDraw, Back, PlayComesBack, table
  <2>2. Range(deck') \cup Out' \subseteq Range(deck) \cup Out
    BY <2>1 DEF Out
  <2> QED
    BY <1>1, <1>2, <2>1, <2>2, PairsGoOn DEF Early
<1>4. CASE PassOn
  BY <1>1, <1>2, <1>4, PassOnPairs DEF PairsInv
<1>5. CASE ShuffleDone
  BY <1>1, <1>2, <1>5, ShuffleDonePairs
<1>6. CASE Reshuffle
  <2>1. pc # "Shuffle" /\ Shuffle(Seqs!Front(discard)) /\ UNCHANGED <<deck, seen>>
    BY <1>6 DEF Reshuffle, table
  <2> QED
    BY <1>1, <1>2, <2>1, ShufflePairs DEF PairsFor, Out
<1>7. CASE KeysGiven
  <2>1. CASE pc' = "Panicked"
    BY <2>1 DEF PairsInv
  <2>2. CASE pc' # "Panicked"
    <3>1. pc = "Keys" /\ pc' = "Give" /\ deck # <<>> /\ Out' = Out \cup {Seqs!Last(deck)}
      BY <1>7, <2>2, DealtComesOut
    <3>2. deck' = Seqs!Front(deck)
      BY <1>7 DEF KeysGiven, PopTopCard
    <3>3. Seqs!Last(deck) \in Range(deck) /\ Range(deck') \subseteq Range(deck)
      BY <1>1, <3>1, <3>2, RestIsIn DEF Shape
    <3> QED
      BY <1>1, <1>2, <3>1, <3>3, PairsGoOn
  <2> QED
    BY <2>1, <2>2
<1>8. CASE TurnedUp
  <2>1. /\ pc = "FirstKeys" /\ pc' \in {"FirstColor", "FirstShown"}
        /\ deck # <<>> /\ Out' = Out \cup {Seqs!Last(deck)}
    BY <1>8, TurnedComesOut
  <2>2. deck' = Seqs!Front(deck)
    BY <1>8, Zenon DEF TurnedUp, PopTopCard
  <2>3. Seqs!Last(deck) \in Range(deck) /\ Range(deck') \subseteq Range(deck)
    BY <1>1, <2>1, <2>2, RestIsIn DEF Shape
  <2> QED
    BY <1>1, <1>2, <2>1, <2>3, PairsGoOn
<1>9. CASE CardPlayed
  <2>1. CASE pc' = "Failed"
    BY <2>1 DEF PairsInv
  <2>2. CASE pc' # "Failed"
    <3>1. pc \in {"Play", "PlayAgain"} /\ pc' = "Discarded" /\ Out' = Out /\ UNCHANGED deck
      BY <1>9, <2>2, PlayedComesOut
    <3> QED
      BY <1>1, <1>2, <3>1, PairsGoOn
  <2> QED
    BY <2>1, <2>2
<1> QED
  BY <1>3, <1>4, <1>5, <1>6, <1>7, <1>8, <1>9, Zenon DEF Within

LEMMA HostPairs ==
  ASSUME ProtocolInv, TableInv, CardsInv, SecondInv, PairsInv, Host
  PROVE  PairsInv'
<1> USE DEF Terminal, Early
<1>1. Shape /\ RecallStays
  BY HostForgets DEF ProtocolInv
<1>2. CASE Within
  BY <1>2, WithinPairs
<1>3. CASE PlayerRefuses
  BY <1>3 DEF PlayerRefuses, PairsInv
<1>4. CASE StartGame \/ GameStarted \/ StartHand \/ AfterHand \/ GameEnded
  <2>1. /\ pc \in Going \/ \E at \in Waiting : Back(at)
        /\ pc \notin {"Shuffle"} \cup Terminal /\ pc' # "Shuffle" /\ UNCHANGED <<deck, seen>>
        /\ pc' \in {"Start", "GameStart"} => pc \in {"Start", "GameStart"}
    BY <1>4 DEF StartGame, GameStarted, StartHand, AfterHand, GameEnded, Back, table, Going, Waiting
  <2>2. PICK B : PairsFor(B)
    BY <2>1, GoesOn DEF PairsInv
  <2> QED
    BY <1>1, <2>1, <2>2, PairsGoOn DEF Out
<1>5. CASE HandStarted
  <2>1. pc = "HandStart" /\ Back("HandStart")
    BY <1>5 DEF HandStarted, Back
  <2>2. PICK B : PairsFor(B)
    BY <2>1, GoesOn DEF PairsInv, Waiting
  <2>3. CASE pc' = "Panicked"
    BY <2>3 DEF PairsInv
  <2>4. CASE pc' # "Panicked"
    <3>1. Shuffle(<<>>) /\ seen' = <<>> /\ deck' = <<>>
      BY <1>5, <2>4 DEF HandStarted
    <3>2. Range(deck') \cup Out' = {}
      BY <3>1, EmptyIsSeq DEF Out, Range
    <3> QED
      BY <1>1, <2>1, <2>2, <3>1, <3>2, ShufflePairs
  <2> QED
    BY <2>3, <2>4
<1> QED
  BY <1>2, <1>3, <1>4, <1>5, HostSteps

(* A player files its keys for what it is given as the deck.               *)
LEMMA Files ==
  ASSUME Shape, NEW p \in Players, ShuffleStage2(p)
  PROVE  /\ line[p].stage = 2 /\ line'[p].type = "taken"
         /\ DOMAIN mem'[p].cardPairs = DOMAIN mem[p].cardPairs \cup Range(line[p].cards)
<1> DEFINE filed0 == Filed(mem[p], line[p].cards)
<1>1. PICK pairs, cards : pairs = PutAll(mem[p].cardPairs, filed0) /\ cards = line[p].cards
  OBVIOUS
<1>2. /\ line[p].stage = 2
      /\ mem' = [mem EXCEPT ![p] = [mem[p] EXCEPT !.cardPairs = pairs, !.deck = cards,
                                       !.stage1 = <<>>]]
      /\ line' = [line EXCEPT ![p] = [type |-> "taken"]]
  BY <1>1, Zenon DEF ShuffleStage2, Remember, Reply
<1>3. DOMAIN pairs = DOMAIN mem[p].cardPairs \cup Range(line[p].cards)
  BY <1>1 DEF Filed, PutAll
<1> HIDE DEF filed0
<1>4. mem'[p].cardPairs = pairs
  BY <1>2 DEF Shape, Forgotten
<1> QED
  BY <1>2, <1>3, <1>4 DEF Shape

\* In the other stages it keeps those it has.
LEMMA FilesNone ==
  ASSUME Shape, NEW p \in Players, ShuffleStage0(p) \/ ShuffleStage1(p) \/ ShuffleRefused(p)
  PROVE  /\ mem'[p].cardPairs = mem[p].cardPairs
         /\ line'[p].type = "refused" \/ (line'[p].type = "cards" /\ line[p].stage < 2)
<1>1. CASE ShuffleStage0(p)
  <2>1. PICK k, s, n : mem' = [mem EXCEPT ![p] = [mem[p] EXCEPT !.start = s, !.stage0 = k, !.shuffles = n]]
    BY <1>1, Zenon DEF ShuffleStage0, Remember
  <2>2. line[p].stage = 0 /\ \E cards : line' = [line EXCEPT ![p] = [type |-> "cards", cards |-> cards]]
    BY <1>1, Zenon DEF ShuffleStage0, Reply
  <2> QED
    BY <2>1, <2>2 DEF Shape, Forgotten
<1>2. CASE ShuffleStage1(p)
  <2>1. PICK k, s : mem' = [mem EXCEPT ![p] = [mem[p] EXCEPT !.stage1 = k, !.stage0 = s]]
    BY <1>2, Zenon DEF ShuffleStage1, Remember
  <2>2. line[p].stage = 1 /\ \E cards : line' = [line EXCEPT ![p] = [type |-> "cards", cards |-> cards]]
    BY <1>2, Zenon DEF ShuffleStage1, Reply
  <2> QED
    BY <2>1, <2>2 DEF Shape, Forgotten
<1>3. CASE ShuffleRefused(p)
  BY <1>3 DEF ShuffleRefused, Refuse, Shape
<1> QED
  BY <1>1, <1>2, <1>3

LEMMA PlayerPairs ==
  ASSUME ProtocolInv, WhereInv, PairsInv, NEW p \in Players, Player(p)
  PROVE  PairsInv'
<1>1. UNCHANGED <<pc, deck, seen, work, stage, seat>> /\ Handle(p) /\ Shape
  BY DEF Player, table, passing, ProtocolInv
<1>2. /\ Alone(p) /\ line[p].type \in Requests /\ line'[p].type \notin Requests \cup {"idle"}
      /\ line[p].type \notin {"GameStart", "Shuffle"} => mem'[p].cardPairs = mem[p].cardPairs
  BY <1>1, Remembers
<1> SUFFICES ASSUME pc \notin Terminal, Unrefused'
             PROVE  PairsInv'
  BY <1>1 DEF PairsInv, Terminal
<1>3. Unrefused /\ line'[p].type # "refused"
  BY <1>2 DEF Unrefused, Alone, Requests
<1>4. PICK B : PairsFor(B)
  BY <1>3 DEF PairsInv
<1>5. <<line[p].type, pc>> \in AskedAt /\ WireInv
  BY <1>2 DEF WhereInv, ProtocolInv, Live
<1>6. \A v \in B : Proper(v)'
  BY <1>4 DEF PairsFor, Proper, IsNumber, Hidden
<1>7. ASSUME \A q \in Players : /\ DOMAIN mem'[q].cardPairs = IF Filled(q)' THEN B \cup Range(work) ELSE B
      PROVE  PairsInv'
  <2>1. PairsFor(B)'
    BY <1>1, <1>4, <1>6, <1>7 DEF PairsFor, Out
  <2> QED
    BY <2>1 DEF PairsInv
<1>8. CASE line[p].type = "Shuffle"
  <2>1. pc = "Shuffle" /\ p = seat /\ line[p].stage = stage /\ line[p].cards = work
    BY <1>2, <1>5, <1>8 DEF WireInv, AskedAt, ShuffleCase, Refusal, Idle, Requests
  <2>2. \A q \in Players \ {p} : Filled(q)' <=> Filled(q)
    BY <1>1, <1>2, <2>1 DEF Filled, Ended
  <2>3. ~Filled(p)
    BY <1>1, <1>8, <2>1, NAssumption DEF Filled, Ended, Shape, Players
  <2>4. \A q \in Players \ {p} : mem'[q] = mem[q]
    BY <1>2 DEF Alone
  <2>5. CASE ShuffleStage2(p)
    <3>1. /\ line[p].stage = 2 /\ line'[p].type = "taken"
          /\ DOMAIN mem'[p].cardPairs = DOMAIN mem[p].cardPairs \cup Range(line[p].cards)
      BY <1>1, <2>5, Files
    <3>2. Filled(p)'
      BY <1>1, <2>1, <3>1 DEF Filled, Ended
    <3>3. DOMAIN mem'[p].cardPairs = B \cup Range(work)
      BY <1>4, <2>1, <2>3, <3>1 DEF PairsFor
    <3> QED
      BY <1>4, <1>7, <2>2, <2>4, <3>2, <3>3 DEF PairsFor
  <2>6. CASE ShuffleStage0(p) \/ ShuffleStage1(p) \/ ShuffleRefused(p)
    <3>1. mem'[p].cardPairs = mem[p].cardPairs /\ line[p].stage < 2
      BY <1>1, <1>3, <2>6, FilesNone
    <3>2. ~Filled(p)'
      BY <1>1, <2>1, <3>1 DEF Filled, Ended, Shape
    <3> QED
      BY <1>4, <1>7, <2>2, <2>3, <2>4, <3>1, <3>2 DEF PairsFor
  <2> QED
    BY <1>1, <1>8, <2>5, <2>6, Handlers
<1>9. CASE line[p].type = "GameStart"
  <2>1. pc = "GameStart" /\ GameStart(p)
    BY <1>1, <1>5, <1>9, Handlers DEF AskedAt
  <2>2. mem'[p].cardPairs = <<>>
    BY <1>1, <2>1 DEF GameStart, Remember, Forgotten, Shape
  <2>3. B = {} /\ \A q \in Players : ~Filled(q) /\ ~Filled(q)'
    BY <1>1, <1>4, <2>1 DEF PairsFor, Filled
  <2>4. \A q \in Players : DOMAIN mem'[q].cardPairs = {}
    BY <1>2, <1>4, <2>2, <2>3, EmptyIsSeq DEF PairsFor, Alone
  <2> QED
    BY <1>7, <2>3, <2>4
<1>10. CASE line[p].type \notin {"GameStart", "Shuffle"}
  <2>1. pc # "Shuffle"
    BY <1>5, <1>10 DEF AskedAt
  <2>2. \A q \in Players : ~Filled(q) /\ ~Filled(q)'
    BY <1>1, <2>1 DEF Filled
  <2>3. \A q \in Players : mem'[q].cardPairs = mem[q].cardPairs
    BY <1>2, <1>10 DEF Alone
  <2> QED
    BY <1>4, <1>7, <2>2, <2>3 DEF PairsFor
<1> QED
  BY <1>8, <1>9, <1>10

LEMMA PairsStay ==
  ASSUME PairsInv, RecallStays, UNCHANGED <<pc, deck, seen, work, stage, seat, line>>
  PROVE  PairsInv'
<1> SUFFICES ASSUME NEW B, PairsFor(B)
             PROVE  PairsFor(B)'
  BY DEF PairsInv, Unrefused, Terminal
<1>1. \A p \in Players : Filled(p)' <=> Filled(p)
  BY DEF Filled, Ended
<1>2. \A v \in B : Proper(v)'
  BY DEF PairsFor, Proper, IsNumber, Hidden
<1> QED
  BY <1>1, <1>2 DEF PairsFor, RecallStays, Out

LEMMA PairsInvariant == ASSUME Dealable PROVE Spec => []PairsInv
<1>1. Init => PairsInv
  <2> SUFFICES ASSUME Init PROVE PairsInv
    OBVIOUS
  <2>1. pc = "Start" /\ Range(deck) = {} /\ Out = {}
    BY EmptyIsSeq DEF Init, Out, Range
  <2>2. \A p \in Players : ~Filled(p) /\ DOMAIN mem[p].cardPairs = {}
    BY <2>1, EmptyIsSeq DEF Init, HandlerInit, Forgotten, Filled
  <2>3. PairsFor({})
    BY <2>1, <2>2 DEF PairsFor
  <2> QED
    BY <2>3 DEF PairsInv
<1>2. ProtocolInv /\ TableInv /\ CardsInv /\ SecondInv /\ WhereInv /\ PairsInv /\ [Next]_vars
      => PairsInv'
  <2>1. ASSUME ProtocolInv, PairsInv, Arrive \/ UNCHANGED vars PROVE PairsInv'
    <3>1. RecallStays
      BY <2>1, ArriveRecalls DEF ProtocolInv, RecallStays, vars, wires, told
    <3>2. UNCHANGED <<pc, deck, seen, work, stage, seat, line>>
      BY <2>1 DEF Arrive, vars, wires, told, passing, table
    <3> QED
      BY <2>1, <3>1, <3>2, PairsStay
  <2> QED
    BY <2>1, HostPairs, PlayerPairs DEF Next, Finished
<1> QED
  BY <1>1, <1>2, ProtocolInvariant, TableInvariant, CardsInvariant, SecondInvariant, WhereInvariant,
     PTL DEF Spec
-----------------------------------------------------------------------------
\* What players reveal

(* At the end of a hand the winner alone is out of cards, and the keys     *)
(* that the players reveal are those they have filed.                      *)
RevealInv ==
  pc = "HandReveal" =>
    /\ OutOfCards = {complete.winner} /\ complete.winner \in Players
    /\ \A p \in Players :
         \/ line[p].type = "HandEnd" /\ line[p].stage = 0
         \/ Refusal(line[p])
         \/ line[p].type = "revealed" /\ line[p].keys = mem[p].cardPairs

LEMMA OnlyEndTurnReveals ==
  ASSUME Shape, Host, pc' = "HandReveal"
  PROVE  EndTurn
<1>1. ~(PlayerRefuses \/ StartGame \/ GameStarted \/ StartHand \/ HandStarted \/ AfterHand \/ GameEnded)
  BY DEF PlayerRefuses, StartGame, GameStarted, StartHand, HandStarted, AfterHand, GameEnded, Shuffle
<1>2. CASE Announce
  <2>1. AfterFirst \in {"FirstCard", "Draw", "FirstEffect", "Turn"}
    BY DEF AfterFirst
  <2> QED
    BY <1>2, <2>1 DEF Announce, Announcement, Shape
<1>3. CASE PassOn \/ ShuffleDone \/ Reshuffle
  BY <1>3 DEF PassOn, ShuffleDone, Reshuffle, Shuffle, Back
<1>4. CASE Deal \/ DealTo \/ KeysGiven \/ CardGiven \/ TurnUp
  BY <1>4 DEF Deal, DealTo, KeysGiven, CardGiven, TurnUp, StartDraw
<1>5. CASE TurnedUp \/ CardPlayed
  <2>1. pc' \in {"Failed", "FirstColor", "FirstShown", "Discarded"}
    BY <1>5, Zenon DEF TurnedUp, CardPlayed
  <2> QED
    BY <2>1
<1>6. CASE FirstColor \/ AskPlay \/ NothingPlayed
  BY <1>6 DEF FirstColor, AskPlay, NothingPlayed, StartDraw
<1>7. CASE NextDrawsTwo \/ AskChallenge \/ ChallengeDecided \/ NoEffect
  BY <1>7 DEF NextDrawsTwo, AskChallenge, ChallengeDecided, NoEffect, StartDraw
<1>8. CASE HandRevealed
  <2>1. pc' \in {"Panicked", "HandSign", "Failed"}
    BY <1>8, Zenon DEF HandRevealed
  <2> QED
    BY <2>1
<1>9. CASE HandSigned
  BY <1>9 DEF HandSigned
<1> QED
  BY <1>1, <1>2, <1>3, <1>4, <1>5, <1>6, <1>7, <1>8, <1>9, HostSteps, Zenon DEF Within

(* Whom the host takes for the winner, and what it asks for.               *)
LEMMA EndTurnAsks ==
  ASSUME EndTurn, pc' = "HandReveal"
  PROVE  /\ pc = "EndTurn" /\ UNCHANGED table
         /\ \E p \in Players : /\ OutOfCards = {p} /\ complete' = [winner |-> p, score |-> 0]
                               /\ CallAll(Players, HandEndRequest(0, p, 0, <<>>))
<1>1. /\ OutOfCards # {} /\ ~(Cardinality(OutOfCards) > 1) /\ pc = "EndTurn" /\ UNCHANGED table
      /\ \E p \in OutOfCards : /\ complete' = [winner |-> p, score |-> 0]
                               /\ CallAll(Players, HandEndRequest(0, p, 0, <<>>))
  BY DEF EndTurn
<1>2. IsFiniteSet(OutOfCards)
  BY PlayersAreFinite, FS_Subset DEF OutOfCards
<1>3. \E q \in OutOfCards : OutOfCards = {q}
  BY <1>1, <1>2, OnlyOne
<1> QED
  BY <1>1, <1>3 DEF OutOfCards

LEMMA HostReveals ==
  ASSUME ProtocolInv, RevealInv, Host
  PROVE  RevealInv'
<1> SUFFICES ASSUME pc' = "HandReveal"
             PROVE  RevealInv'
  BY DEF RevealInv
<1>1. EndTurn
  BY OnlyEndTurnReveals DEF ProtocolInv
<1>2. UNCHANGED table
  BY <1>1, EndTurnAsks
<1>3. PICK p \in Players : /\ OutOfCards = {p} /\ complete' = [winner |-> p, score |-> 0]
                           /\ CallAll(Players, HandEndRequest(0, p, 0, <<>>))
  BY <1>1, EndTurnAsks
<1>4. OutOfCards' = OutOfCards
  BY <1>2 DEF table, OutOfCards, CardsRemaining
<1>5. \A q \in Players : line'[q].type = "HandEnd" /\ line'[q].stage = 0
  BY <1>3, Calls DEF HandEndRequest
<1> QED
  BY <1>3, <1>4, <1>5 DEF RevealInv

(* A player reveals the keys it has filed.                                 *)
LEMMA Reveals ==
  ASSUME Shape, NEW p \in Players, HandEnd(p), line[p].stage = 0
  PROVE  Refusal(line'[p]) \/ (line'[p].type = "revealed" /\ line'[p].keys = mem[p].cardPairs)
<1> DEFINE m == mem[p]
           right == WinnerIsRight(m, line[p]) /\ m.deck = line[p].deck
           shown == [j \in DOMAIN m.myCards |->
                       [card |-> m.myCards[j].card, number |-> m.myCards[j].number]]
<1>1. Answer(p, right, [type |-> "revealed", cards |-> shown, keys |-> m.cardPairs])
  BY Zenon DEF HandEnd
<1> HIDE DEF right, shown
<1> QED
  BY <1>1 DEF Answer, Reply, Refuse, Refusal, Shape

LEMMA PlayerReveals ==
  ASSUME ProtocolInv, WhereInv, RevealInv, NEW p \in Players, Player(p)
  PROVE  RevealInv'
<1>1. UNCHANGED <<pc, held, complete>> /\ Handle(p) /\ Shape
  BY DEF Player, table, game, ProtocolInv
<1>2. /\ Alone(p) /\ line[p].type \in Requests
      /\ line[p].type \notin {"GameStart", "Shuffle"} => mem'[p].cardPairs = mem[p].cardPairs
  BY <1>1, Remembers
<1> SUFFICES ASSUME pc = "HandReveal"
             PROVE  RevealInv'
  BY <1>1 DEF RevealInv
<1>3. line[p].type = "HandEnd" /\ line[p].stage = 0
  BY <1>2 DEF RevealInv, Refusal, Requests
<1>4. Refusal(line'[p]) \/ (line'[p].type = "revealed" /\ line'[p].keys = mem'[p].cardPairs)
  BY <1>1, <1>2, <1>3, Reveals, Handlers
<1>5. OutOfCards' = OutOfCards
  BY <1>1 DEF OutOfCards, CardsRemaining
<1> QED
  BY <1>1, <1>2, <1>4, <1>5 DEF RevealInv, Alone

LEMMA RevealInvariant == ASSUME Dealable PROVE Spec => []RevealInv
<1>1. Init => RevealInv
  BY DEF Init, RevealInv
<1>2. ProtocolInv /\ WhereInv /\ RevealInv /\ [Next]_vars => RevealInv'
  <2>1. ASSUME ProtocolInv, RevealInv, Arrive \/ UNCHANGED vars PROVE RevealInv'
    <3>1. RecallStays
      BY <2>1, ArriveRecalls DEF ProtocolInv, RecallStays, vars, wires, told
    <3>2. UNCHANGED <<pc, held, complete, line>>
      BY <2>1 DEF Arrive, vars, wires, told, game, table
    <3>3. OutOfCards' = OutOfCards
      BY <3>2 DEF OutOfCards, CardsRemaining
    <3> QED
      BY <2>1, <3>1, <3>2, <3>3 DEF RevealInv, RecallStays
  <2> QED
    BY <2>1, HostReveals, PlayerReveals DEF Next, Finished
<1> QED
  BY <1>1, <1>2, ProtocolInvariant, WhereInvariant, PTL DEF Spec
-----------------------------------------------------------------------------
\* What a player takes

TakesGameEnd(m, req) ==
  /\ m.lastEvent # NoEvent /\ m.lastHandEnd # NoSigs
  /\ m.lastEvent.scores = req.scores /\ req.handEndSigs = m.lastHandEnd

TakesHandStart(m, req) ==
  /\ m.lastEvent # NoEvent
  /\ \/ m.lastEvent.type = "GameStart"
     \/ m.lastEvent.type = "HandEnd" /\ m.lastHandEnd # NoSigs /\ m.lastHandStart # NoHandStart
  /\ m.lastEvent.scores = req.scores /\ req.dealer = ExpectedDealer(m)
  /\ req.gameStartSigs = GameStartMsg
  /\ m.lastHandEnd # NoSigs => req.handEndSigs = m.lastHandEnd

TakesHandEnd(p, m, req) ==
  /\ WinnerIsRight(m, req) /\ m.deck = req.deck
  /\ req.stage # 0 => RevealIsRight(p, m, req)

TakesColor(p, m) ==
  /\ m.lastHandStart # NoHandStart
  /\ m.lastEvent # NoEvent /\ m.lastEvent.type = "HandStartCardDealt"
  /\ p = (m.lastHandStart.dealer + 1) % N

TakesKey(p, m, req) ==
  /\ m.deck # <<>> /\ Seqs!Last(m.deck) \in DOMAIN m.cardPairs
  /\ IF req.to = None
       THEN /\ m.lastEvent # NoEvent /\ m.lastEvent.hand # NoHand
            /\ \A i \in DOMAIN m.lastEvent.hand.discard :
                 Value(m.lastEvent.hand.discard[i]) = WildDrawFour
       ELSE req.to # p /\ Seqs!Last(m.deck) \notin m.given

TakesGive(p, m, req) ==
  LET top == Seqs!Last(m.deck)
  IN  /\ m.deck # <<>> /\ top \in DOMAIN m.cardPairs /\ top \notin m.given
      /\ \A q \in Players : (req.keys[q] = NoKey) = (q = p)
      /\ Opened(Decrypted(top, [req.keys EXCEPT ![p] = m.cardPairs[top]]))

TakesChallenge(m, req) ==
  m.lastEvent # NoEvent /\ m.lastEvent.hand # NoHand /\ m.lastEvent.hand.color = req.color

(* The player p, with the memory m, does not refuse this.                  *)
Takes(p, m, req) ==
  /\ req.type \notin {"Play", "Reveal"}
  /\ req.type = "GameEnd" => TakesGameEnd(m, req)
  /\ req.type = "HandStart" => TakesHandStart(m, req)
  /\ req.type = "HandEnd" => TakesHandEnd(p, m, req)
  /\ req.type = "Shuffle" => ShuffleIsExpected(m, req)
  /\ req.type = "ChooseColor" => TakesColor(p, m)
  /\ req.type = "Key" => TakesKey(p, m, req)
  /\ req.type = "Give" => TakesGive(p, m, req)
  /\ req.type = "Challenge" => TakesChallenge(m, req)

LEMMA TakesStarts ==
  ASSUME Shape, NEW p \in Players, Takes(p, mem[p], line[p]),
         GameStart(p) \/ GameEnd(p) \/ HandStart(p) \/ HandEnd(p)
  PROVE  ~Refusal(line'[p])
<1>1. CASE GameStart(p)
  BY <1>1 DEF GameStart, Reply, Signed, Refusal, Shape
<1>2. CASE GameEnd(p)
  BY <1>2 DEF GameEnd, Asked, Takes, TakesGameEnd, Answer, Reply, Signed, Refusal, Shape
<1>3. CASE HandStart(p)
  BY <1>3 DEF HandStart, Asked, Takes, TakesHandStart, Answer, Reply, Signed, Refusal, Shape
<1>4. CASE HandEnd(p)
  <2> DEFINE right0 == WinnerIsRight(mem[p], line[p]) /\ mem[p].deck = line[p].deck
             rest0 == RevealIsRight(p, mem[p], line[p])
  <2>1. TakesHandEnd(p, mem[p], line[p])
    BY <1>4 DEF HandEnd, Asked, Takes
  <2>2. right0 /\ (line[p].stage # 0 => rest0)
    BY <2>1 DEF TakesHandEnd
  <2>3. \E r : /\ r.type # "refused"
               /\ \/ line[p].stage = 0 /\ Answer(p, right0, r)
                  \/ line[p].stage # 0 /\ Answer(p, right0 /\ rest0, r)
    <3>1. PICK shown : IF line[p].stage = 0
              THEN Answer(p, right0, [type |-> "revealed", cards |-> shown, keys |-> mem[p].cardPairs])
              ELSE Answer(p, right0 /\ rest0, Signed(HandEndMsg(line[p].hand, 1)))
      BY <1>4, Zenon DEF HandEnd
    <3> HIDE DEF right0, rest0
    <3>2. Signed(HandEndMsg(line[p].hand, 1)).type = "signed"
      BY DEF Signed
    <3>3. CASE line[p].stage = 0
      <4> DEFINE r == [type |-> "revealed", cards |-> shown, keys |-> mem[p].cardPairs]
      <4>1. Answer(p, right0, r) /\ r.type # "refused"
        BY <3>1, <3>3
      <4> HIDE DEF r
      <4> QED
        BY <3>3, <4>1
    <3>4. CASE line[p].stage # 0
      BY <3>1, <3>2, <3>4
    <3> QED
      BY <3>3, <3>4
  <2> HIDE DEF right0, rest0
  <2> QED
    BY <2>2, <2>3 DEF Answer, Reply, Refusal, Shape
<1> QED
  BY <1>1, <1>2, <1>3, <1>4

LEMMA TakesShuffle ==
  ASSUME Shape, NEW p \in Players, Takes(p, mem[p], line[p]),
         ShuffleStage0(p) \/ ShuffleStage1(p) \/ ShuffleStage2(p) \/ ShuffleRefused(p)
  PROVE  ~Refusal(line'[p])
<1>1. CASE ShuffleStage0(p) \/ ShuffleStage1(p)
  <2>1. \E cards : line' = [line EXCEPT ![p] = [type |-> "cards", cards |-> cards]]
    BY <1>1, Zenon DEF ShuffleStage0, ShuffleStage1, Reply
  <2> QED
    BY <2>1 DEF Shape, Refusal
<1>2. CASE ShuffleStage2(p)
  BY <1>2, Files DEF Refusal
<1>3. CASE ShuffleRefused(p)
  BY <1>3, Zenon DEF ShuffleRefused, Asked, Takes
<1> QED
  BY <1>1, <1>2, <1>3

LEMMA TakesCards ==
  ASSUME Shape, NEW p \in Players, Takes(p, mem[p], line[p]),
         ChooseColor(p) \/ GetKey(p) \/ GiveCard(p) \/ ShouldChallenge(p)
  PROVE  ~Refusal(line'[p])
<1>1. CASE ChooseColor(p)
  BY <1>1 DEF ChooseColor, Asked, Takes, TakesColor, Reply, Refusal, Shape
<1>2. CASE GetKey(p)
  <2> DEFINE to == line[p].to
             last == Seqs!Last(mem[p].deck)
             ok == IF to = None
                     THEN /\ mem[p].lastEvent # NoEvent /\ mem[p].lastEvent.hand # NoHand
                          /\ \A i \in DOMAIN mem[p].lastEvent.hand.discard :
                               Value(mem[p].lastEvent.hand.discard[i]) = WildDrawFour
                     ELSE to # p /\ last \notin mem[p].given
             key0 == mem[p].cardPairs[last]
  <2>1. TakesKey(p, mem[p], line[p])
    BY <1>2, Zenon DEF GetKey, Asked, Takes
  <2>2. ok /\ mem[p].deck # <<>> /\ last \in DOMAIN mem[p].cardPairs
    BY <2>1, Zenon DEF TakesKey
  <2>3. \/ mem[p].deck = <<>> \/ last \notin DOMAIN mem[p].cardPairs
        \/ Answer(p, ok, [type |-> "key", key |-> key0])
    BY <1>2, Zenon DEF GetKey
  <2> HIDE DEF ok, key0, last
  <2> QED
    BY <2>2, <2>3 DEF Answer, Reply, Refusal, Shape
<1>3. CASE GiveCard(p)
  <2> DEFINE last == Seqs!Last(mem[p].deck)
             others == line[p].keys
             keys == [others EXCEPT ![p] = mem[p].cardPairs[last]]
             open == FoldSet(LAMBDA q, v : DecryptInt(keys[q], v), last, Players)
             ok == /\ last \in DOMAIN mem[p].cardPairs
                   /\ last \notin mem[p].given
                   /\ \A q \in Players : (others[q] = NoKey) = (q = p)
                   /\ Opened(open)
  <2>1. TakesGive(p, mem[p], line[p])
    BY <1>3, Zenon DEF GiveCard, Asked, Takes
  <2>2. open = Decrypted(last, keys)
    BY DEF Decrypted
  <2>3. /\ mem[p].deck # <<>> /\ last \in DOMAIN mem[p].cardPairs /\ last \notin mem[p].given
        /\ \A q \in Players : (others[q] = NoKey) = (q = p)
        /\ Opened(Decrypted(last, keys))
    BY <2>1, Zenon DEF TakesGive
  <2>4. mem[p].deck = <<>> \/ Answer(p, ok, [type |-> "taken"])
    BY <1>3, Zenon DEF GiveCard
  <2>5. ok
    <3> HIDE DEF open, keys, last, others
    <3> QED
      BY <2>2, <2>3
  <2> HIDE DEF ok, last
  <2> QED
    BY <2>3, <2>4, <2>5 DEF Answer, Reply, Refusal, Shape
<1>4. CASE ShouldChallenge(p)
  BY <1>4 DEF ShouldChallenge, Asked, Takes, TakesChallenge, Reply, Refusal, Shape
<1> QED
  BY <1>1, <1>2, <1>3, <1>4

(* What a player takes it does not refuse.                                 *)
LEMMA TakenIsNotRefused ==
  ASSUME Shape, NEW p \in Players, Takes(p, mem[p], line[p]), Handle(p)
  PROVE  ~Refusal(line'[p])
<1>1. ~(Play(p) \/ RevealForChallenge(p))
  BY Zenon DEF Takes, Play, RevealForChallenge, Asked
<1> QED
  BY <1>1, TakesStarts, TakesShuffle, TakesCards, Zenon DEF Handle

(* What is revealed opens a number to, and the cards that are revealed.    *)
OpenWith(infos, v) == FoldSet(LAMBDA q, w : DecryptInt(infos[q].keys[v], w), v, Players)
ShownBy(infos) ==
  Seqs!FlattenSeq([i \in 1..N |-> [j \in DOMAIN infos[i-1].cards |-> infos[i-1].cards[j].card]])

(* What a player makes of it, by what it remembers of the cards.           *)
RevealFits(p, mine, cards, pile, from, req) ==
  LET infos == req.infos
      pairs == DOMAIN mine
      shown == ShownBy(infos)
      active == pile \o shown \o [i \in DOMAIN cards |-> OpenWith(infos, cards[i]).card]
  IN  /\ Seqs!FoldSeq(LAMBDA c, s : s + Score(c), 0, shown) = req.score
      /\ \A q \in Players : DOMAIN infos[q].keys = pairs
      /\ infos[p].keys = mine
      /\ \A v \in pairs : Opened(OpenWith(infos, v))
      /\ Range(cards) \subseteq pairs
      /\ \A q \in Players : \A j \in DOMAIN infos[q].cards :
           LET c == infos[q].cards[j]
           IN  c.number \in pairs /\ OpenWith(infos, c.number).card = c.card
      /\ Sorted(active) = from

LEMMA RevealIsThat ==
  ASSUME NEW p, NEW m, NEW req
  PROVE  RevealIsRight(p, m, req)
         <=> RevealFits(p, m.cardPairs, m.deck, m.lastEvent.hand.discard, m.start, req)
BY Zenon DEF RevealIsRight, RevealFits, OpenWith, ShownBy

(* Only this much of a memory matters for what is taken.                   *)
LEMMA TakesSame ==
  ASSUME NEW p, NEW m, NEW n, NEW req, n.lastEvent = m.lastEvent,
         n.lastHandStart = m.lastHandStart, n.sharedPrime = m.sharedPrime,
         n.lastHandEnd = m.lastHandEnd, n.start = m.start, n.given = m.given,
         n.cardPairs = m.cardPairs, n.deck = m.deck, Takes(p, m, req)
  PROVE  Takes(p, n, req)
<1>1. RevealIsRight(p, m, req) <=> RevealIsRight(p, n, req)
  BY RevealIsThat
<1>2. TakesHandEnd(p, m, req) => TakesHandEnd(p, n, req)
  BY <1>1 DEF TakesHandEnd, WinnerIsRight
<1>3. /\ TakesGameEnd(m, req) => TakesGameEnd(n, req)
      /\ TakesHandStart(m, req) => TakesHandStart(n, req)
  BY DEF TakesGameEnd, TakesHandStart, ExpectedDealer
<1>4. ShuffleIsExpected(m, req) => ShuffleIsExpected(n, req)
  BY DEF ShuffleIsExpected, ToShuffle
<1>5. /\ TakesColor(p, m) => TakesColor(p, n)
      /\ TakesKey(p, m, req) => TakesKey(p, n, req)
      /\ TakesChallenge(m, req) => TakesChallenge(n, req)
  BY DEF TakesColor, TakesKey, TakesChallenge
<1>6. TakesGive(p, m, req) => TakesGive(p, n, req)
  BY DEF TakesGive
<1> QED
  BY <1>2, <1>3, <1>4, <1>5, <1>6 DEF Takes

\* A player's memory as it is once the last event has come in.
Informed(p) == OnGameEvent(mem[p], event)

(* What players may refuse to take although the last event has come in.    *)
Excused ==
  {why \in Requests :
     \/ why = "Shuffle" /\ (hand > 1 \/ job.done > 0 \/ Len(discard) = 1)
     \/ why = "ChooseColor" /\ Len(discard) > 1
     \/ why = "Play" \/ why = "Reveal"
     \/ why = "Key" /\ (FixedAgain \/ deck = <<>>)}

(* What is asked would be taken by a player that has seen the last event,  *)
(* but where it is excused; and so what has been refused is explained.     *)
AskedInv ==
  \A p \in Players :
    /\ line[p].type \in Requests \ Excused => Takes(p, Informed(p), line[p])
    /\ Refused(p) => Behind(p) \/ line[p].why \in Excused

LEMMA ExcusesStay ==
  ASSUME UNCHANGED <<hand, job, discard, deck, shuffles, start>>
  PROVE  Excused' = Excused
<1>1. FixedAgain' <=> FixedAgain
  BY DEF FixedAgain
<1> QED
  BY <1>1 DEF Excused

LEMMA AskedStays ==
  ASSUME AskedInv, UNCHANGED <<hand, job, discard, deck, shuffles, start, event, mem, line>>
  PROVE  AskedInv'
<1>1. Excused' = Excused
  BY ExcusesStay
<1> SUFFICES ASSUME NEW p \in Players
             PROVE  (/\ line[p].type \in Requests \ Excused => Takes(p, Informed(p), line[p])
                     /\ Refused(p) => Behind(p) \/ line[p].why \in Excused)'
  BY DEF AskedInv
<1>2. Informed(p)' = Informed(p) /\ line'[p] = line[p]
  BY DEF Informed
<1>3. Takes(p, Informed(p), line[p])' <=> Takes(p, Informed(p), line[p])
  BY <1>2
<1> QED
  BY <1>1, <1>2, <1>3 DEF AskedInv, Refused, Behind

(* A late event changes nothing but what came last.                        *)
LEMMA ArriveAsked ==
  ASSUME Shape, AskedInv, Arrive
  PROVE  AskedInv'
<1>1. /\ UNCHANGED <<hand, job, discard, deck, shuffles, start, event, line>> /\ RecallStays
      /\ \E l \in late : /\ line[l[1]].type \in Requests
                         /\ mem' = [mem EXCEPT ![l[1]] = OnGameEvent(@, l[2])]
  BY ArriveRecalls DEF Arrive, table, game, passing
<1>2. Excused' = Excused
  BY <1>1, ExcusesStay
<1> SUFFICES ASSUME NEW p \in Players
             PROVE  (/\ line[p].type \in Requests \ Excused => Takes(p, Informed(p), line[p])
                     /\ Refused(p) => Behind(p) \/ line[p].why \in Excused)'
  BY DEF AskedInv
<1>3. Takes(p, Informed(p), line[p])' <=> Takes(p, Informed(p), line[p])
  <2>1. Informed(p)' = Informed(p) /\ line'[p] = line[p]
    BY <1>1 DEF Informed, OnGameEvent, Shape
  <2> QED
    BY <2>1
<1>4. Refused(p) => mem'[p] = mem[p]
  BY <1>1 DEF Refused, Requests, Shape
<1> QED
  BY <1>1, <1>2, <1>3, <1>4 DEF AskedInv, Refused, Behind

(* A player that has seen the last event refuses only what is excused.     *)
LEMMA PlayerAsked ==
  ASSUME Shape, AskedInv, NEW p \in Players, Player(p)
  PROVE  AskedInv'
<1>1. UNCHANGED <<hand, job, discard, deck, shuffles, start, event>> /\ Handle(p)
  BY DEF Player, table, game, passing
<1>2. /\ Alone(p) /\ line[p].type \in Requests /\ line'[p].type \notin Requests \cup {"idle"}
      /\ line'[p].type = "refused" => line'[p].why = line[p].type
      /\ line[p].type # "GameStart" => mem'[p].lastEvent = mem[p].lastEvent
  BY <1>1, Remembers
<1>3. Excused' = Excused
  BY <1>1, ExcusesStay
<1> SUFFICES ASSUME NEW q \in Players
             PROVE  (/\ line[q].type \in Requests \ Excused => Takes(q, Informed(q), line[q])
                     /\ Refused(q) => Behind(q) \/ line[q].why \in Excused)'
  BY DEF AskedInv
<1>4. CASE q # p
  <2>1. mem'[q] = mem[q] /\ line'[q] = line[q]
    BY <1>2, <1>4 DEF Alone
  <2>2. Takes(q, Informed(q), line[q])' <=> Takes(q, Informed(q), line[q])
    <3>1. Informed(q)' = Informed(q)
      BY <1>1, <2>1 DEF Informed
    <3> QED
      BY <2>1, <3>1
  <2> QED
    BY <1>1, <1>3, <2>1, <2>2 DEF AskedInv, Refused, Behind
<1>5. CASE q = p
  <2> SUFFICES ASSUME line'[p].type = "refused", mem'[p].lastEvent = event, line[p].type \notin Excused
               PROVE  FALSE
    BY <1>1, <1>2, <1>3, <1>5 DEF Refused, Behind
  <2>1. line[p].type # "GameStart"
    <3>1. GameStart(p) => line'[p].type # "refused"
      BY DEF GameStart, Reply, Signed, Shape
    <3> QED
      BY <1>1, <3>1, Handlers
  <2>2. Takes(p, Informed(p), line[p])
    BY <1>2 DEF AskedInv
  <2>3. \A f \in DOMAIN Forgotten : Informed(p)[f] = mem[p][f]
    BY <1>2, <2>1 DEF Informed, OnGameEvent, Shape
  <2>4. Takes(p, mem[p], line[p])
    BY <2>2, <2>3, TakesSame DEF Forgotten
  <2> QED
    BY <1>1, <2>4, TakenIsNotRefused DEF Refusal
<1> QED
  BY <1>4, <1>5
-----------------------------------------------------------------------------
\* What the host asks for is taken

LEMMA InformedOf ==
  ASSUME Shape, NEW p \in Players
  PROVE  /\ Informed(p).lastEvent = event
         /\ Informed(p).lastHandStart = mem[p].lastHandStart
         /\ Informed(p).sharedPrime = mem[p].sharedPrime
         /\ Informed(p).lastHandEnd = mem[p].lastHandEnd /\ Informed(p).start = mem[p].start
         /\ Informed(p).given = mem[p].given /\ Informed(p).cardPairs = mem[p].cardPairs
         /\ Informed(p).deck = mem[p].deck
BY DEF Informed, OnGameEvent, Shape, Forgotten

LEMMA AskedByHost ==
  ASSUME ProtocolInv, TableInv, Host, ~PlayerRefuses,
         \A p \in Players : line'[p].type \in Requests \ Excused' => Takes(p, Informed(p), line[p])'
  PROVE  AskedInv'
<1> SUFFICES ASSUME NEW p \in Players
             PROVE  line'[p].type # "refused"
  BY DEF AskedInv, Refused
<1>1. line[p].type # "refused"
  BY NothingAsked
<1>2. <<line'[p].type, pc'>> \in AskedAt => line'[p].type # "refused"
  BY DEF AskedAt
<1> QED
  BY <1>1, <1>2, HostAsks DEF Idle

(* Steps after which nothing is asked.                                     *)
LEMMA SilentAsked ==
  ASSUME ProtocolInv, TableInv, Host, ~PlayerRefuses, UNCHANGED line \/ HangUp
  PROVE  AskedInv'
<1>1. \A p \in Players : line'[p].type \notin Requests
  <2> SUFFICES ASSUME NEW p \in Players
               PROVE  line'[p].type \notin Requests
    OBVIOUS
  <2>1. line[p].type \notin Requests
    BY NothingAsked
  <2>2. HangUp => line'[p] = Idle
    BY HangsUp
  <2> QED
    BY <2>1, <2>2 DEF Idle, Requests
<1> QED
  BY <1>1, AskedByHost

(* Steps that ask for one thing, which is taken.                           *)
LEMMA CallAsked ==
  ASSUME ProtocolInv, TableInv, Host, ~PlayerRefuses, UNCHANGED <<mem, event>>,
         NEW S, NEW req, CallAll(S, req),
         req.type \in Excused' \/ \A p \in Players \cap S : Takes(p, Informed(p), req)
  PROVE  AskedInv'
<1> SUFFICES ASSUME NEW p \in Players, line'[p].type \in Requests \ Excused'
             PROVE  Takes(p, Informed(p), line[p])'
  BY AskedByHost
<1>1. p \in S /\ line'[p] = req
  BY Calls DEF Idle, Requests
<1>2. Takes(p, Informed(p), req)
  BY <1>1
<1>3. Informed(p)' = Informed(p)
  BY DEF Informed
<1> QED
  BY <1>1, <1>2, <1>3

LEMMA SilentSteps ==
  ASSUME \/ Announce \/ GameStarted \/ ShuffleDone \/ Deal \/ CardGiven \/ FirstColor
         \/ NothingPlayed \/ CardPlayed \/ NextDrawsTwo \/ NoEffect \/ HandSigned \/ GameEnded
  PROVE  UNCHANGED line \/ HangUp
<1>1. CardPlayed => UNCHANGED line \/ HangUp
  BY Zenon DEF CardPlayed
<1>2. Announce \/ Deal \/ NextDrawsTwo \/ NoEffect => UNCHANGED line
  BY DEF Announce, Deal, NextDrawsTwo, NoEffect, wires
<1>3. GameStarted \/ ShuffleDone \/ CardGiven \/ FirstColor \/ NothingPlayed \/ HandSigned \/ GameEnded
        => HangUp
  BY Zenon DEF GameStarted, ShuffleDone, CardGiven, FirstColor, NothingPlayed, HandSigned, GameEnded
<1> QED
  BY <1>1, <1>2, <1>3, Zenon

LEMMA OneType ==
  ASSUME NEW p, NEW m, NEW req,
         req.type \notin {"Play", "Reveal"},
         req.type = "GameEnd" => TakesGameEnd(m, req),
         req.type = "HandStart" => TakesHandStart(m, req),
         req.type = "HandEnd" => TakesHandEnd(p, m, req),
         req.type = "Shuffle" => ShuffleIsExpected(m, req),
         req.type = "ChooseColor" => TakesColor(p, m),
         req.type = "Key" => TakesKey(p, m, req),
         req.type = "Give" => TakesGive(p, m, req),
         req.type = "Challenge" => TakesChallenge(m, req)
  PROVE  Takes(p, m, req)
BY DEF Takes
-----------------------------------------------------------------------------
\* The starts and the ends of a game and a hand

LEMMA StartGameAsked ==
  ASSUME ProtocolInv, TableInv, Host, StartGame
  PROVE  AskedInv'
<1> DEFINE req == [type |-> "GameStart"]
<1>1. CallAll(Players, req) /\ UNCHANGED <<mem, event>> /\ ~PlayerRefuses
  BY DEF StartGame, told, PlayerRefuses
<1>2. \A p \in Players \cap Players : Takes(p, Informed(p), req)
  BY OneType
<1> QED
  BY <1>1, <1>2, CallAsked

LEMMA AfterHandAsked ==
  ASSUME ProtocolInv, TableInv, BeginInv, Host, AfterHand
  PROVE  AskedInv'
<1> DEFINE req == [type |-> "GameEnd", scores |-> scores, handEndSigs |-> endSigs]
<1>1. /\ CallAll(Players, req) \/ UNCHANGED line
      /\ UNCHANGED <<mem, event>> /\ ~PlayerRefuses /\ pc = "AfterHand"
  BY DEF AfterHand, told, PlayerRefuses
<1>2. ASSUME NEW p \in Players
      PROVE  Takes(p, Informed(p), req)
  <2>1. EventIs("HandEnd") /\ endSigs # NoSigs /\ mem[p].lastHandEnd = endSigs
    BY <1>1 DEF BeginInv
  <2>2. Informed(p).lastEvent = event /\ Informed(p).lastHandEnd = mem[p].lastHandEnd
    BY InformedOf DEF ProtocolInv
  <2>3. TakesGameEnd(Informed(p), req)
    BY <2>1, <2>2 DEF TakesGameEnd, EventIs
  <2> QED
    BY <2>3, OneType
<1>3. CallAll(Players, req) => AskedInv'
  <2> HIDE DEF req
  <2> QED
    BY <1>1, <1>2, CallAsked
<1> QED
  BY <1>1, <1>3, SilentAsked

LEMMA StartHandAsked ==
  ASSUME Mended = Flaws, ProtocolInv, TableInv, CardsInv, BeginInv, Host, StartHand
  PROVE  AskedInv'
<1> DEFINE req == [type |-> "HandStart", hand |-> hand + 1, scores |-> scores, dealer |-> NextDealer,
                   gameStartSigs |-> GameStartMsg,
                   handEndSigs |-> IF "handEndSigs" \in Mended THEN endSigs ELSE NoSigs]
<1>1. /\ CallAll(Players, req)
      /\ UNCHANGED <<mem, event>> /\ ~PlayerRefuses /\ pc = "NewHand"
  BY DEF StartHand, told, PlayerRefuses
<1>2. ASSUME NEW p \in Players
      PROVE  Takes(p, Informed(p), req)
  <2>1. /\ Informed(p).lastEvent = event /\ Informed(p).lastHandEnd = mem[p].lastHandEnd
        /\ Informed(p).lastHandStart = mem[p].lastHandStart
    BY InformedOf DEF ProtocolInv
  <2>2. "dealer" \in Mended /\ "handEndSigs" \in Mended
    BY DEF Flaws
  <2>3. CASE hand = 0
    <3>1. Untouched /\ EventIs("GameStart")
      BY <1>1, <2>3 DEF BeginInv
    <3>2. req.dealer = 0
      BY <2>2, <2>3, <3>1 DEF NextDealer, EventIs
    <3>3. TakesHandStart(Informed(p), req)
      BY <2>1, <3>1, <3>2 DEF TakesHandStart, Untouched, EventIs, ExpectedDealer
    <3> QED
      BY <3>3, OneType
  <2>4. CASE hand # 0
    <3>1. EventIs("HandEnd") /\ endSigs # NoSigs /\ mem[p].lastHandEnd = endSigs /\ InFirst(p)
      BY <1>1, <2>4 DEF BeginInv
    <3>2. req.dealer = (0 + 1) % N /\ req.handEndSigs = endSigs
      BY <2>2, <2>4, <3>1 DEF NextDealer, EventIs
    <3>3. mem[p].lastHandStart # NoHandStart /\ mem[p].lastHandStart.dealer = 0
      BY <3>1 DEF InFirst, FirstStart, NoHandStart
    <3>4. req.dealer = ExpectedDealer(Informed(p))
      BY <2>1, <3>2, <3>3 DEF ExpectedDealer
    <3>5. TakesHandStart(Informed(p), req)
      BY <2>1, <3>1, <3>2, <3>3, <3>4 DEF TakesHandStart, EventIs
    <3> QED
      BY <3>5, OneType
  <2> QED
    BY <2>3, <2>4
<1> HIDE DEF req
<1> QED
  BY <1>1, <1>2, CallAsked

(* Everyone sees by the last event who is out of cards.                    *)
LEMMA EndTurnAsked ==
  ASSUME ProtocolInv, TableInv, CurrentInv, Host, EndTurn
  PROVE  AskedInv'
<1>1. UNCHANGED <<mem, event>> /\ ~PlayerRefuses /\ pc = "EndTurn"
  <2>1. UNCHANGED <<mem, event>> /\ pc = "EndTurn"
    BY Zenon DEF EndTurn, told
  <2>2. Resting
    BY <2>1, AtRest DEF Going
  <2> QED
    BY <2>1, <2>2 DEF PlayerRefuses, Resting, Idle
<1>2. pc' = "HandReveal" \/ UNCHANGED line
  BY Zenon DEF EndTurn
<1>3. CASE pc' = "HandReveal"
  <2>1. PICK q \in Players : OutOfCards = {q} /\ CallAll(Players, HandEndRequest(0, q, 0, <<>>))
    BY <1>3, EndTurnAsks
  <2> DEFINE req == HandEndRequest(0, q, 0, <<>>)
  <2>2. req.type = "HandEnd" /\ req.stage = 0 /\ req.winner = q /\ req.deck = deck
    BY DEF HandEndRequest
  <2>3. ASSUME NEW p \in Players
        PROVE  Takes(p, Informed(p), req)
    <3>1. Informed(p).lastEvent = event /\ Informed(p).deck = mem[p].deck
      BY InformedOf DEF ProtocolInv
    <3>2. event # NoEvent /\ event.hand # NoHand
      BY <1>1, AtRest DEF Sound, Place, Afterwards, Told3, Told1, Outdated, Going
    <3>3. event.hand = HandNow
      BY <1>1 DEF CurrentInv, Current
    <3>4. {r \in Players : event.hand.remaining[r] = 0} = {q}
      BY <2>1, <3>3 DEF HandNow, OutOfCards
    <3>5. mem[p].deck = deck
      BY <1>1 DEF ProtocolInv, Live, WireInv, WithCards, Terminal
    <3>6. TakesHandEnd(p, Informed(p), req)
      BY <2>2, <3>1, <3>2, <3>4, <3>5 DEF TakesHandEnd, WinnerIsRight
    <3> HIDE DEF req
    <3> QED
      BY <2>2, <3>6, OneType
  <2> HIDE DEF req
  <2> QED
    BY <1>1, <2>1, <2>3, CallAsked DEF req
<1> QED
  BY <1>1, <1>2, <1>3, SilentAsked
-----------------------------------------------------------------------------
\* The turns

(* To ask for a card, or for the cards after a challenge, is excused.      *)
LEMMA AskPlayAsked ==
  ASSUME ProtocolInv, TableInv, Host, AskPlay
  PROVE  AskedInv'
<1> DEFINE req == [type |-> "Play"]
<1>1. PICK p : CallAll({p}, req)
  BY DEF AskPlay, Call
<1>2. UNCHANGED <<mem, event>> /\ ~PlayerRefuses
  BY DEF AskPlay, told, PlayerRefuses
<1>3. req.type \in Excused'
  BY DEF Excused, Requests
<1> HIDE DEF req
<1> QED
  BY <1>1, <1>2, <1>3, CallAsked

LEMMA ChallengeDecidedAsked ==
  ASSUME ProtocolInv, TableInv, Host, ChallengeDecided
  PROVE  AskedInv'
<1> DEFINE req == [type |-> "Reveal"]
<1>1. CallAll({turn}, req) \/ HangUp
  BY DEF ChallengeDecided, Call
<1>2. UNCHANGED <<mem, event>> /\ ~PlayerRefuses
  BY DEF ChallengeDecided, told, PlayerRefuses, StartDraw
<1>3. req.type \in Excused'
  BY DEF Excused, Requests
<1> HIDE DEF req
<1> QED
  BY <1>1, <1>2, <1>3, CallAsked, SilentAsked

(* The color asked about is that of the last event.                        *)
LEMMA AskChallengeAsked ==
  ASSUME ProtocolInv, TableInv, Host, AskChallenge
  PROVE  AskedInv'
<1> DEFINE req == [type |-> "Challenge", color |-> event.hand.color]
<1>1. PICK q \in Players : CallAll({q}, req)
  BY DEF AskChallenge, Call
<1>2. UNCHANGED <<mem, event>> /\ ~PlayerRefuses /\ pc = "Effect"
  BY DEF AskChallenge, told, PlayerRefuses
<1>3. event # NoEvent /\ event.hand # NoHand
  BY <1>2, AtRest DEF Sound, Place, Afterwards, Told3, Told1, Outdated, Going
<1>4. ASSUME NEW p \in Players
      PROVE  Takes(p, Informed(p), req)
  <2>1. Informed(p).lastEvent = event
    BY InformedOf DEF ProtocolInv
  <2>2. TakesChallenge(Informed(p), req)
    BY <1>3, <2>1 DEF TakesChallenge
  <2> QED
    BY <2>2, OneType
<1> HIDE DEF req
<1> QED
  BY <1>1, <1>2, <1>4, CallAsked

(* The one after the dealer is asked for a color, by the event of the deal *)
(* unless there is a wild draw four below the wild.                        *)
LEMMA TurnedUpAsked ==
  ASSUME ProtocolInv, TableInv, CardsInv, SecondInv, BeginInv, FirstInv, TurnInv, Host, TurnedUp
  PROVE  AskedInv'
<1>1. /\ UNCHANGED <<mem, event, turn>> /\ pc = "FirstKeys" /\ pc' \in {"FirstColor", "FirstShown"}
      /\ discard' = Append(discard, Seqs!Last(deck).card)
  BY TurnedComesOut, TurnedUpDeals, Zenon DEF TurnedUp, told
<1>2. ~PlayerRefuses
  BY <1>1 DEF PlayerRefuses
<1> DEFINE req == [type |-> "ChooseColor"]
<1>3. CallAll({turn}, req) \/ HangUp
  BY Zenon DEF TurnedUp, Call
<1>4. CASE discard # <<>>
  <2>1. Len(discard') > 1
    <3>1. IsSeq(discard)
      BY DEF ProtocolInv, Shape
    <3>2. Len(discard') = Len(discard) + 1 /\ Len(discard) \in Nat \ {0}
      BY <1>1, <1>4, <3>1, FrontAndLast DEF IsSeq
    <3> QED
      BY <3>2
  <2>2. req.type \in Excused'
    BY <2>1 DEF Excused, Requests
  <2> HIDE DEF req
  <2> QED
    BY <1>1, <1>2, <1>3, <2>2, CallAsked, SilentAsked
<1>5. CASE discard = <<>>
  <2>1. DealtEvent /\ turn = 1
    BY <1>1, <1>5 DEF FirstInv, TurnInv, FirstOnes
  <2>2. hand = 1 /\ Sound
    <3>1. Back("FirstKeys")
      BY Zenon DEF TurnedUp
    <3> QED
      BY <1>1, <3>1, FirstHand DEF Early, Terminal, Waiting
  <2>3. event # NoEvent
    BY <1>1, <2>2 DEF Sound, Place, FirstOnes, Told2, Told1, Outdated
  <2>4. ASSUME NEW p \in Players \cap {turn}
        PROVE  Takes(p, Informed(p), req)
    <3>1. Informed(p).lastEvent = event /\ Informed(p).lastHandStart = mem[p].lastHandStart
      BY InformedOf DEF ProtocolInv
    <3>2. mem[p].lastHandStart = FirstStart
      BY <1>1, <2>2 DEF BeginInv, Early, Terminal, InFirst
    <3>3. p = (0 + 1) % N
      BY <2>1, NAssumption
    <3>4. TakesColor(p, Informed(p))
      BY <2>1, <2>3, <3>1, <3>2, <3>3 DEF TakesColor, DealtEvent, FirstStart, NoHandStart
    <3> QED
      BY <3>4, OneType
  <2> HIDE DEF req
  <2> QED
    BY <1>1, <1>2, <1>3, <2>4, CallAsked, SilentAsked
<1> QED
  BY <1>4, <1>5
-----------------------------------------------------------------------------
\* The shuffle

LEMMA SameLength ==
  ASSUME NEW s, IsSeq(s), Apart(s), NEW t, IsSeq(t), Apart(t), Range(s) = Range(t)
  PROVE  Len(s) = Len(t)
<1>1. ASSUME NEW u, IsSeq(u), Apart(u)
      PROVE  Len(u) = Cardinality(Range(u))
  <2>1. Len(u) \in Nat /\ DOMAIN u = 1..Len(u) /\ u = [i \in DOMAIN u |-> u[i]]
    BY <1>1, SeqFacts
  <2>2. u \in [DOMAIN u -> Range(u)]
    BY <2>1 DEF Range
  <2>3. IsFiniteSet(DOMAIN u) /\ Cardinality(DOMAIN u) = Len(u)
    <3>1. /\ IsFiniteSet(1..Len(u))
          /\ Cardinality(1..Len(u)) = IF 1 > Len(u) THEN 0 ELSE Len(u) - 1 + 1
      BY <2>1, FS_Interval
    <3> QED
      BY <2>1, <3>1
  <2>4. \A c \in Range(u) : \E i \in DOMAIN u : u[i] = c
    BY DEF Range
  <2> QED
    BY <1>1, <2>2, <2>3, <2>4, OneToOne DEF Apart
<1> QED
  BY <1>1

LEMMA ShuffleTaken ==
  ASSUME Shape, NEW p \in Players, hand = 1, InFirst(p),
         NEW from, NEW st, NEW cards, Len(from) = Len(cards),
         event # NoEvent /\ event.hand # NoHand =>
           event.hand.deck = 0 /\ event.hand.discard # <<>>,
         from = IF event = NoEvent \/ event.hand = NoHand
                  THEN FullDeck ELSE Seqs!Front(event.hand.discard)
  PROVE  Takes(p, Informed(p), ShuffleRequest(from, st, cards))
<1> DEFINE req == ShuffleRequest(from, st, cards)
<1>1. /\ req.type = "Shuffle" /\ req.start = from /\ req.cards = cards
      /\ req.handStartSigs = HandStartMsg(1)
  BY DEF ShuffleRequest
<1>2. /\ Informed(p).lastEvent = event /\ Informed(p).lastHandStart = FirstStart
      /\ Informed(p).sharedPrime = 1
  BY InformedOf DEF InFirst
<1>3. FirstStart # NoHandStart /\ FirstStart.hand = 1
  BY DEF FirstStart, NoHandStart
<1> HIDE DEF req
<1>4. ShuffleIsExpected(Informed(p), req)
  BY <1>1, <1>2, <1>3 DEF ShuffleIsExpected, ToShuffle
<1>5. Takes(p, Informed(p), req)
  BY <1>1, <1>4, OneType
<1> QED
  BY <1>5 DEF req

LEMMA PlainLength ==
  ASSUME NEW from, IsSeq(from)
  PROVE  Len([i \in DOMAIN from |-> Plain(from[i])]) = Len(from)
<1> DEFINE plain == [i \in DOMAIN from |-> Plain(from[i])]
<1>1. Len(from) \in Nat /\ DOMAIN from = 1..Len(from)
  BY SeqFacts
<1>2. DOMAIN plain = 1..Len(from) /\ plain = [i \in DOMAIN plain |-> plain[i]]
  BY <1>1
<1> QED
  BY <1>1, <1>2, OnInterval

LEMMA HandStartedAsked ==
  ASSUME Mended = Flaws, ProtocolInv, TableInv, CardsInv, BeginInv, Host, HandStarted
  PROVE  AskedInv'
<1> DEFINE plain == [i \in DOMAIN FullDeck |-> Plain(FullDeck[i])]
           req == ShuffleRequest(FullDeck, 0, plain)
<1>1. /\ CallAll({0}, req)
      /\ UNCHANGED <<mem, event, hand>> /\ Back("HandStart")
  <2>1. "newDeck" \in Mended
    BY DEF Flaws
  <2>2. Shuffle(<<>>) /\ UNCHANGED <<mem, event, hand>> /\ Back("HandStart")
    BY <2>1, Zenon DEF HandStarted, game, told
  <2>3. FromCards(<<>>) = FullDeck
    BY DEF FromCards
  <2> QED
    BY <2>2, <2>3, Zenon DEF Shuffle, Call
<1>2. ~PlayerRefuses
  BY <1>1 DEF PlayerRefuses, Back, Answered
<1>3. req.type = "Shuffle"
  BY DEF ShuffleRequest
<1>4. pc = "HandStart" /\ hand \in Nat \ {0}
  <2>1. CardInv /\ pc = "HandStart"
    BY <1>1, GoesOn DEF Back, Waiting, Terminal
  <2> QED
    BY <2>1 DEF CardInv
<1>5. CASE hand > 1
  <2>1. "Shuffle" \in Excused'
    BY <1>1, <1>5 DEF Excused, Requests
  <2> HIDE DEF req
  <2> QED
    BY <1>1, <1>2, <1>3, <2>1, CallAsked
<1>6. CASE hand = 1
  <2>1. ASSUME NEW p \in Players
        PROVE  Takes(p, Informed(p), req)
    <3>1. event # NoEvent /\ event.hand = NoHand /\ InFirst(p)
      BY <1>1, <1>4, <1>6 DEF BeginInv, Back, Answered, Requests
    <3>2. Len(FullDeck) = Len(plain)
      BY FullDeckIsSeq, PlainLength
    <3> HIDE DEF plain
    <3> QED
      BY <1>6, <3>1, <3>2, ShuffleTaken DEF ProtocolInv
  <2> HIDE DEF req
  <2> QED
    BY <1>1, <1>2, <2>1, CallAsked
<1> QED
  BY <1>4, <1>5, <1>6

(* In a draw, the cards under the top card, which the last event showed.   *)
LEMMA RecycledTaken ==
  ASSUME Shape, NEW p \in Players, hand = 1, InFirst(p), Told1,
         event.hand = HandNow, deck = <<>>, discard # <<>>, Len(discard) # 1,
         NEW st, NEW cards, Len(FromCards(Below)) = Len(cards)
  PROVE  Takes(p, Informed(p), ShuffleRequest(FromCards(Below), st, cards))
<1>1. event # NoEvent /\ event.hand # NoHand
  BY DEF Told1, Outdated
<1>2. event.hand.deck = 0 /\ event.hand.discard = discard
  BY EmptyIsSeq DEF HandNow
<1>3. FromCards(Below) = Seqs!Front(discard)
  <2>1. IsSeq(discard)
    BY DEF Shape
  <2>2. /\ IsSeq(Seqs!Front(discard)) /\ Len(Seqs!Front(discard)) = Len(discard) - 1
        /\ Len(discard) \in Nat \ {0}
    BY <2>1, FrontAndLast
  <2>3. Seqs!Front(discard) # <<>>
    BY <2>2, EmptyIsSeq
  <2> QED
    BY <2>3 DEF FromCards, Below
<1> QED
  BY <1>1, <1>2, <1>3, ShuffleTaken

LEMMA ReshuffleAsked ==
  ASSUME ProtocolInv, TableInv, CardsInv, SecondInv, BeginInv, CurrentInv, Host, Reshuffle
  PROVE  AskedInv'
<1> DEFINE from == FromCards(Below)
           plain == [i \in DOMAIN from |-> Plain(from[i])]
           req == ShuffleRequest(from, 0, plain)
<1>1. pc = "Draw" /\ deck = <<>> /\ UNCHANGED <<mem, event, hand, job, discard>>
  BY Zenon DEF Reshuffle, game, told, table
<1>2. hand = 1 /\ Sound
  BY <1>1, FirstHand DEF Early, Terminal, Going
<1>3. discard # <<>> /\ Told1 /\ job.then \in {"Again", "Turn", "EndTurn"}
  BY <1>1, <1>2 DEF Sound, Place, Drawing, Told3
<1>4. CallAll({0}, req)
  <2>1. Below = Seqs!Front(discard)
    BY <1>3 DEF Below
  <2>2. Shuffle(Below)
    BY <2>1, Zenon DEF Reshuffle
  <2> QED
    BY <2>2, Zenon DEF Shuffle, Call
<1>5. ~PlayerRefuses
  <2>1. Resting
    BY <1>1, AtRest DEF Going
  <2> QED
    BY <2>1 DEF PlayerRefuses, Resting, Idle
<1>6. req.type = "Shuffle"
  BY DEF ShuffleRequest
<1>7. CASE job.done > 0 \/ Len(discard) = 1
  <2>1. "Shuffle" \in Excused'
    BY <1>1, <1>7 DEF Excused, Requests
  <2> HIDE DEF req
  <2> QED
    BY <1>1, <1>4, <1>5, <1>6, <2>1, CallAsked
<1>8. CASE ~(job.done > 0) /\ Len(discard) # 1
  <2>1. event.hand = HandNow
    BY <1>1, <1>3, <1>8 DEF CurrentInv, Undrawn
  <2>2. ASSUME NEW p \in Players
        PROVE  Takes(p, Informed(p), req)
    <3>1. InFirst(p)
      BY <1>1, <1>2 DEF BeginInv, Early, Terminal
    <3>2. Len(from) = Len(plain)
      <4>1. IsSeq(Below)
        BY <1>3, FrontAndLast DEF Below, ProtocolInv, Shape
      <4>2. IsSeq(from)
        BY <4>1, ToShuffleIsSeq
      <4> HIDE DEF from
      <4> QED
        BY <4>2, PlainLength
    <3> HIDE DEF plain
    <3> QED
      BY <1>1, <1>2, <1>3, <1>8, <2>1, <3>1, <3>2, RecycledTaken DEF ProtocolInv
  <2> HIDE DEF req
  <2> QED
    BY <1>1, <1>4, <1>5, <2>2, CallAsked
<1> QED
  BY <1>7, <1>8

(* The working set comes back as large as it was.                          *)
LEMMA WorkIsAsLong ==
  ASSUME ProtocolInv, OrderInv, CardInv, Sound, ~Doomed, Back("Shuffle")
  PROVE  Len(IF stage < 2 THEN line[seat].cards ELSE work) = Len(start)
<1> DEFINE cards == IF stage < 2 THEN line[seat].cards ELSE work
<1>1. pc = "Shuffle" /\ seat \in Players /\ stage \in 0..2
  BY DEF Back, ProtocolInv, Shape
<1>2. WireInv /\ MixInv /\ Shape
  BY <1>1 DEF ProtocolInv, Live, Terminal
<1>3. Shuffled
  BY <1>1 DEF CardInv
<1>4. CASE stage = 2
  BY <1>1, <1>4 DEF Sound, Counts
<1>5. CASE stage < 2
  <2>1. line[seat].type = "cards"
    BY <1>2, <1>5, SeatAnswered
  <2>2. IsSeq(line[seat].cards) /\ ToBeShuffled(line[seat].cards)
    BY <1>1, <1>2, <1>3, <2>1 DEF MixInv, Shuffled
  <2>3. IsSeq(FacesOf(line[seat].cards)) /\ DOMAIN FacesOf(line[seat].cards) = DOMAIN line[seat].cards
    BY <2>2, FacesAreSeq
  <2>4. IsSeq(start) /\ Apart(start)
    <3>1. start = FromCards(Below)
      BY <1>1 DEF OrderInv
    <3>2. CASE Below = <<>>
      BY <3>1, <3>2, FullDeckIsSeq, FullDeckInOrder DEF FromCards
    <3>3. CASE Below # <<>>
      <4>1. IsSeq(discard) /\ Apart(discard) /\ discard # <<>>
        BY <1>2, <1>3, <3>3 DEF Shape, Shuffled, Below
      <4> QED
        BY <3>1, <3>3, <4>1, LastApart DEF FromCards, Below
    <3> QED
      BY <3>2, <3>3
  <2>5. Len(FacesOf(line[seat].cards)) = Len(start)
    BY <2>2, <2>3, <2>4, SameLength DEF ToBeShuffled
  <2>6. Len(FacesOf(line[seat].cards)) = Len(line[seat].cards)
    <3>1. /\ Len(line[seat].cards) \in Nat /\ DOMAIN line[seat].cards = 1..Len(line[seat].cards)
          /\ Len(FacesOf(line[seat].cards)) \in Nat
          /\ DOMAIN FacesOf(line[seat].cards) = 1..Len(FacesOf(line[seat].cards))
      BY <2>2, <2>3, SeqFacts
    <3> QED
      BY <2>3, <3>1
  <2> QED
    BY <1>5, <2>5, <2>6
<1> QED
  BY <1>1, <1>4, <1>5

LEMMA PassOnAsked ==
  ASSUME ProtocolInv, TableInv, CardsInv, SecondInv, OrderInv, BeginInv, CurrentInv, Host, PassOn
  PROVE  AskedInv'
<1> DEFINE cards == IF stage < 2 THEN line[seat].cards ELSE work
           req == ShuffleRequest(start, stage', cards)
<1>1. Back("Shuffle") /\ UNCHANGED <<mem, event, hand, job, discard>>
  BY Zenon DEF PassOn, game, told, table
<1>2. CallAll({seat'}, req) \/ UNCHANGED line
  BY Zenon DEF PassOn, Call
<1>3. ~PlayerRefuses
  BY <1>1 DEF PlayerRefuses, Back, Answered
<1>4. pc = "Shuffle" /\ hand = 1 /\ Sound /\ ~Doomed /\ CardInv
  BY <1>1, FirstHand DEF Early, Terminal, Waiting, Back
<1>5. Len(start) = Len(cards) /\ start = FromCards(Below) /\ deck = <<>>
  <2>1. Len(start) = Len(cards)
    BY <1>1, <1>4, WorkIsAsLong
  <2> QED
    BY <1>4, <2>1 DEF OrderInv, ProtocolInv, Live, MixInv, Terminal
<1>6. req.type = "Shuffle"
  BY DEF ShuffleRequest
<1>7. \A p \in Players : InFirst(p)
  BY <1>4 DEF BeginInv, Early, Terminal
<1> HIDE DEF cards
<1>8. CASE job = NoJob
  <2>1. event # NoEvent /\ event.hand = NoHand
    BY <1>4, <1>8 DEF BeginInv
  <2>2. start = FullDeck
    BY <1>4, <1>5, <1>8 DEF Sound, Place, Fresh, Below, FromCards
  <2>3. ASSUME NEW p \in Players
        PROVE  Takes(p, Informed(p), req)
    BY <1>4, <1>5, <1>7, <2>1, <2>2, ShuffleTaken DEF ProtocolInv
  <2> HIDE DEF req
  <2> QED
    BY <1>1, <1>2, <1>3, <2>3, CallAsked, SilentAsked
<1>9. CASE job # NoJob /\ (job.done > 0 \/ Len(discard) = 1)
  <2>1. "Shuffle" \in Excused'
    BY <1>1, <1>9 DEF Excused, Requests
  <2> HIDE DEF req
  <2> QED
    BY <1>1, <1>2, <1>3, <1>6, <2>1, CallAsked, SilentAsked
<1>10. CASE job # NoJob /\ ~(job.done > 0) /\ Len(discard) # 1
  <2>1. discard # <<>> /\ Told1 /\ job.then \in {"Again", "Turn", "EndTurn"}
    BY <1>4, <1>10 DEF Sound, Place, Told3
  <2>2. event.hand = HandNow
    BY <1>4, <1>10, <2>1 DEF CurrentInv, Undrawn
  <2>3. ASSUME NEW p \in Players
        PROVE  Takes(p, Informed(p), req)
    BY <1>4, <1>5, <1>7, <1>10, <2>1, <2>2, RecycledTaken DEF ProtocolInv
  <2> HIDE DEF req
  <2> QED
    BY <1>1, <1>2, <1>3, <2>3, CallAsked, SilentAsked
<1> QED
  BY <1>8, <1>9, <1>10
-----------------------------------------------------------------------------
\* Keys and cards

(* Everyone has a key for the top card of the deck.                        *)
LEMMA TopHasKeys ==
  ASSUME ProtocolInv, CardInv, NEW p \in Players, mem[p].deck = deck, deck # <<>>
  PROVE  Seqs!Last(deck) \in DOMAIN mem[p].cardPairs
<1>1. IsSeq(deck) /\ Range(deck) \subseteq DOMAIN mem[p].cardPairs
  BY DEF CardInv, Opening
<1> QED
  BY <1>1, RestIsIn

LEMMA TurnUpAsked ==
  ASSUME ProtocolInv, TableInv, CardsInv, SecondInv, FirstInv, Host, TurnUp
  PROVE  AskedInv'
<1> DEFINE req == [type |-> "Key", to |-> None]
<1>1. pc = "FirstCard" /\ CallAll(Players, req) /\ UNCHANGED <<deck, mem, event>>
  BY DEF TurnUp, told, table
<1>2. ~PlayerRefuses /\ CardInv /\ Sound
  <2>1. CardInv /\ Sound
    BY <1>1, FirstHand DEF Early, Terminal, Going
  <2> QED
    BY <2>1 DEF PlayerRefuses, TurnUp
<1>3. ASSUME NEW p \in Players, deck # <<>>
      PROVE  Takes(p, Informed(p), req)
  <2>1. /\ Informed(p).lastEvent = event /\ Informed(p).cardPairs = mem[p].cardPairs
        /\ Informed(p).deck = mem[p].deck
    BY InformedOf DEF ProtocolInv
  <2>2. mem[p].deck = deck
    BY <1>1 DEF ProtocolInv, Live, WireInv, WithCards, Terminal
  <2>3. Seqs!Last(deck) \in DOMAIN mem[p].cardPairs
    BY <1>2, <1>3, <2>2, TopHasKeys
  <2>4. event # NoEvent /\ event.hand # NoHand
    BY <1>1, <1>2 DEF Sound, Place, FirstOnes, Told2, Told1, Outdated
  <2>5. event.hand.discard = discard /\ AllDrawFours
    BY <1>1 DEF FirstInv
  <2>6. TakesKey(p, Informed(p), req)
    BY <1>3, <2>1, <2>2, <2>3, <2>4, <2>5 DEF TakesKey, AllDrawFours
  <2> QED
    BY <2>6, OneType
<1>4. req.type \in Excused' \/ deck # <<>>
  BY <1>1 DEF Excused, Requests
<1> HIDE DEF req
<1> QED
  BY <1>1, <1>2, <1>3, <1>4, CallAsked

(* A number that has come out before is on top only if it is of a card     *)
(* that no key changes.                                                    *)
LEMMA TopIsNew ==
  ASSUME ProtocolInv, CardInv, Split, ShuffleInv, hand = 1, pc \notin Early \cup Terminal \cup {"Shuffle"},
         deck # <<>>, Seqs!Last(deck) \in Out
  PROVE  FixedAgain
<1> DEFINE top == Seqs!Last(deck)
<1>1. Shape /\ HostKeys /\ Opening
  BY DEF ProtocolInv, CardInv
<1>2. ~Hidden(top) /\ Len(deck) \in DOMAIN work /\ top = work[Len(deck)]
  BY <1>1, TopOfDeck
<1>3. top.card \notin HeldFaces \cup Range(discard)
  BY <1>1, TopCard
<1> HIDE DEF top
<1>4. shuffles > 1
  <2>1. shuffles \in Nat /\ shuffles >= 1
    BY <1>1 DEF Shape, ShuffleInv
  <2>2. shuffles # 1
    BY <1>3 DEF ShuffleInv, top
  <2> QED
    BY <2>1, <2>2
<1>5. top.card \in Range(start)
  <2>1. Range(FacesOf(work)) = Range(start)
    BY DEF ShuffleInv
  <2>2. top.card \in Range(FacesOf(work))
    BY <1>2 DEF FacesOf, Range
  <2> QED
    BY <2>1, <2>2
<1> QED
  BY <1>2, <1>4, <1>5 DEF FixedAgain, Hidden

LEMMA DealToAsked ==
  ASSUME ProtocolInv, TableInv, CardsInv, SecondInv, ShuffleInv, GivenInv, Host, DealTo
  PROVE  AskedInv'
<1> DEFINE req == [type |-> "Key", to |-> turn]
<1>1. /\ pc = "Draw" /\ deck # <<>> /\ CallAll(Players \ {turn}, req)
      /\ UNCHANGED <<mem, event, hand, job, discard, deck, shuffles, start>>
  BY DEF DealTo, told, game, table, passing
<1>2. hand = 1 /\ CardInv /\ Sound /\ Unrefused
  BY <1>1, FirstHand DEF Early, Terminal, Going
<1>3. ~PlayerRefuses
  BY <1>2 DEF PlayerRefuses, Unrefused
<1>4. Excused' = Excused
  BY <1>1, ExcusesStay
<1>5. CASE FixedAgain
  <2>1. req.type \in Excused'
    BY <1>4, <1>5 DEF Excused, Requests
  <2> HIDE DEF req
  <2> QED
    BY <1>1, <1>3, <2>1, CallAsked
<1>6. CASE ~FixedAgain
  <2>1. ASSUME NEW p \in Players \cap (Players \ {turn})
        PROVE  Takes(p, Informed(p), req)
    <3>1. /\ Informed(p).cardPairs = mem[p].cardPairs
          /\ Informed(p).deck = mem[p].deck /\ Informed(p).given = mem[p].given
      BY InformedOf DEF ProtocolInv
    <3>2. mem[p].deck = deck
      BY <1>1 DEF ProtocolInv, Live, WireInv, WithCards, Terminal
    <3>3. Seqs!Last(deck) \in DOMAIN mem[p].cardPairs
      BY <1>1, <1>2, <3>2, TopHasKeys
    <3>4. turn \in Players /\ turn # None /\ turn # p
      BY DEF ProtocolInv, Shape, Players, None
    <3>5. Seqs!Last(deck) \notin Out
      <4>1. Split
        BY <1>1, <1>2 DEF CardInv, Dealt
      <4> QED
        BY <1>1, <1>2, <1>6, <4>1, TopIsNew DEF Early, Terminal
    <3>6. mem[p].given \subseteq Out
      BY <1>1, <1>2, <3>4 DEF GivenInv, SameGiven, Terminal
    <3>7. TakesKey(p, Informed(p), req)
      BY <1>1, <3>1, <3>2, <3>3, <3>4, <3>5, <3>6 DEF TakesKey
    <3> QED
      BY <3>7, OneType
  <2> HIDE DEF req
  <2> QED
    BY <1>1, <1>3, <2>1, CallAsked
<1> QED
  BY <1>5, <1>6

(* The keys that have come in open the card for the one it is dealt to.    *)
LEMMA KeysGivenAsked ==
  ASSUME ProtocolInv, TableInv, CardsInv, SecondInv, GivenInv, Host, KeysGiven
  PROVE  AskedInv'
<1> DEFINE top == Seqs!Last(deck)
           req == [type |-> "Give", keys |-> KeysIn]
<1>1. Back("Keys") /\ UNCHANGED <<mem, event>>
  BY Zenon DEF KeysGiven, told
<1>2. CallAll({turn}, req) \/ UNCHANGED line
  BY Zenon DEF KeysGiven, Call
<1>3. ~PlayerRefuses
  BY <1>1 DEF PlayerRefuses, Back, Answered
<1>4. pc = "Keys" /\ hand = 1 /\ CardInv /\ Unrefused
  BY <1>1, FirstHand DEF Early, Terminal, Waiting, Back
<1>5. turn \in Players /\ Opening /\ Shape /\ HostKeys /\ WireInv /\ PlayerKeys
  BY <1>4 DEF ProtocolInv, Live, Shape, CardInv, Terminal
<1>6. /\ deck # <<>> /\ line[turn] = Idle /\ mem[turn].deck = deck
      /\ \A q \in Players \ {turn} : line[q].type = "key" /\ Fits(q, top, line[q].key)
  BY <1>1, <1>4, <1>5 DEF WireInv, KeyCase, Refusal, Back, Answered, Requests
<1>7. \A q \in Players : KeysIn[q] = IF q = turn THEN NoKey ELSE line[q].key
  BY <1>6 DEF KeysIn, Idle
<1>8. top \in DOMAIN mem[turn].cardPairs
  BY <1>4, <1>5, <1>6, TopHasKeys
<1>9. top \notin mem[turn].given
  <2>1. PICK q \in Players : q # turn
    BY <1>5, NAssumption DEF Players
  <2> QED
    BY <1>4, <1>6, <2>1 DEF GivenInv, GivesKey, Terminal
<1>10. \A q \in Players : (KeysIn[q] = NoKey) = (q = turn)
  <2>1. \A q \in Players \ {turn} : line[q].key # NoKey
    BY <1>6 DEF Fits, NoKey
  <2> QED
    BY <1>7, <2>1
<1> DEFINE keys == [KeysIn EXCEPT ![turn] = mem[turn].cardPairs[top]]
<1>11. Opened(Decrypted(top, keys))
  <2>1. Proper(top)
    <3>1. IsSeq(deck) /\ \A i \in DOMAIN deck : Proper(deck[i])
      BY <1>5, DeckIsProper
    <3> QED
      BY <1>6, <3>1, RestIsIn DEF Range
  <2>2. AllFit(top, keys)
    <3>1. Fits(turn, top, mem[turn].cardPairs[top])
      BY <1>5, <1>8 DEF PlayerKeys
    <3>2. keys[turn] = mem[turn].cardPairs[top] /\ \A q \in Players \ {turn} : keys[q] = line[q].key
      BY <1>5, <1>7 DEF KeysIn
    <3> HIDE DEF keys, top
    <3> QED
      BY <1>6, <3>1, <3>2 DEF AllFit
  <2>3. Decrypted(top, keys) = Plain(top.card)
    BY <2>1, <2>2, AllOpen
  <2> HIDE DEF keys, top
  <2> QED
    BY <2>3 DEF Opened, Plain
<1>12. ASSUME NEW p \in Players \cap {turn}
       PROVE  Takes(p, Informed(p), req)
  <2>1. /\ Informed(p).cardPairs = mem[p].cardPairs
        /\ Informed(p).deck = mem[p].deck /\ Informed(p).given = mem[p].given
    BY InformedOf DEF ProtocolInv
  <2>2. p = turn
    OBVIOUS
  <2>3. TakesGive(turn, Informed(turn), req)
    <3> HIDE DEF top
    <3>1. req.keys = KeysIn /\ Seqs!Last(Informed(turn).deck) = top
      BY <1>6, <2>1, <2>2 DEF top
    <3>2. [req.keys EXCEPT ![turn] = Informed(turn).cardPairs[top]] = keys
      BY <2>1, <2>2, <3>1
    <3> HIDE DEF req, keys
    <3> QED
      BY <1>6, <1>8, <1>9, <1>10, <1>11, <2>1, <2>2, <3>1, <3>2 DEF TakesGive
  <2> QED
    BY <2>2, <2>3, OneType
<1> HIDE DEF req
<1> QED
  BY <1>1, <1>2, <1>3, <1>12, CallAsked, SilentAsked
-----------------------------------------------------------------------------
\* What is revealed at the end of a hand

(* The players open a number as the host does.                             *)
LEMMA OpenWithIsThat ==
  ASSUME NEW v, NEW infos, NEW keys, keys = [q \in Players |-> infos[q].keys[v]]
  PROVE  OpenWith(infos, v) = Decrypted(v, keys)
<1> DEFINE S1(f) == f = [s \in SUBSET Players |->
                           IF s = {} THEN v
                           ELSE LET q == CHOOSE q \in s : TRUE
                                IN  DecryptInt(infos[q].keys[v], f[s \ {q}])]
           S2(f) == f = [s \in SUBSET Players |->
                           IF s = {} THEN v
                           ELSE LET q == CHOOSE q \in s : TRUE
                                IN  DecryptInt(keys[q], f[s \ {q}])]
<1>1. \A f : S1(f) <=> S2(f)
  <2> SUFFICES ASSUME NEW f
               PROVE  \A s \in SUBSET Players :
                        (IF s = {} THEN v
                         ELSE LET q == CHOOSE q \in s : TRUE
                              IN  DecryptInt(infos[q].keys[v], f[s \ {q}]))
                        = IF s = {} THEN v
                          ELSE LET q == CHOOSE q \in s : TRUE
                               IN  DecryptInt(keys[q], f[s \ {q}])
    OBVIOUS
  <2> SUFFICES ASSUME NEW s \in SUBSET Players, s # {}
               PROVE  LET q == CHOOSE q \in s : TRUE
                      IN  DecryptInt(infos[q].keys[v], f[s \ {q}]) = DecryptInt(keys[q], f[s \ {q}])
    OBVIOUS
  <2> DEFINE q == CHOOSE q \in s : TRUE
  <2>1. q \in Players
    OBVIOUS
  <2>2. keys[q] = infos[q].keys[v]
    <3> HIDE DEF q
    <3> QED
      BY <2>1
  <2> QED
    BY <2>2, Zenon
<1>2. (CHOOSE f : S1(f)) = (CHOOSE f : S2(f))
  <2> HIDE DEF S1, S2
  <2> QED
    BY <1>1
<1>3. OpenWith(infos, v) = (CHOOSE f : S1(f))[Players]
  BY Zenon DEF OpenWith, FoldSet, MapThenFoldSet
<1>4. Decrypted(v, keys) = (CHOOSE f : S2(f))[Players]
  BY Zenon DEF Decrypted, FoldSet, MapThenFoldSet
<1> QED
  BY <1>2, <1>3, <1>4, Zenon

(* What the players reveal when they and the host remember the same.       *)
LEMMA RevealedFits ==
  ASSUME ProtocolInv, TableInv, CardInv, RememberInv, ShuffleInv, Unrefused, pc = "HandReveal",
         \A q \in Players : line[q].keys = mem[q].cardPairs,
         \A q \in Players : AnswerFits(q), CardsFit,
         NEW B, PairsFor(B), NEW req, NEW p \in Players,
         req.infos = [q \in Players |-> [cards |-> line[q].cards, keys |-> line[q].keys]],
         req.score = ScoreOf(Shown)
  PROVE  RevealFits(p, mem[p].cardPairs, deck, discard, mem[p].start, req)
<1>1. PICK infos : infos = req.infos
  OBVIOUS
<1>2. \A q \in Players : infos[q].cards = line[q].cards /\ infos[q].keys = mem[q].cardPairs
  BY <1>1
<1>3. \A q \in Players : DOMAIN mem[q].cardPairs = B
  BY DEF PairsFor, Filled
<1>4. Range(deck) \cup Out \subseteq B /\ \A v \in B : Proper(v)
  BY DEF PairsFor
<1>5. \A v : OpenWith(infos, v) = OpenedBy(v)
  <2> SUFFICES ASSUME NEW v
               PROVE  OpenWith(infos, v) = OpenedBy(v)
    OBVIOUS
  <2>1. [q \in Players |-> infos[q].keys[v]] = [q \in Players |-> line[q].keys[v]]
    BY <1>2
  <2>2. OpenWith(infos, v) = Decrypted(v, [q \in Players |-> infos[q].keys[v]])
    BY OpenWithIsThat
  <2> QED
    BY <2>1, <2>2, Zenon DEF OpenedBy
<1>6. ShownBy(infos) = Shown
  <2>1. \A i \in 1..N : i - 1 \in Players
    BY NAssumption DEF Players
  <2>2. [i \in 1..N |-> [j \in DOMAIN infos[i-1].cards |-> infos[i-1].cards[j].card]]
        = [i \in 1..N |-> [j \in DOMAIN line[i-1].cards |-> line[i-1].cards[j].card]]
    BY <1>2, <2>1
  <2> QED
    BY <2>2, Zenon DEF ShownBy, Shown
<1>7. \A v \in B : Opened(OpenedBy(v))
  <2> SUFFICES ASSUME NEW v \in B
               PROVE  Opened(OpenedBy(v))
    OBVIOUS
  <2> DEFINE keys == [q \in Players |-> line[q].keys[v]]
  <2>1. \A q \in Players : keys[q] = mem[q].cardPairs[v]
    OBVIOUS
  <2>2. PlayerKeys
    BY DEF ProtocolInv, Live, Terminal
  <2>3. AllFit(v, keys)
    <3> HIDE DEF keys
    <3> QED
      BY <1>3, <2>1, <2>2 DEF AllFit, PlayerKeys
  <2>4. Decrypted(v, keys) = Plain(v.card)
    <3> HIDE DEF keys
    <3> QED
      BY <1>4, <2>3, AllOpen
  <2> QED
    BY <2>4 DEF OpenedBy, Opened, Plain
<1>8. \A q \in Players : \A j \in DOMAIN infos[q].cards :
        infos[q].cards[j].number \in B
        /\ OpenedBy(infos[q].cards[j].number).card = infos[q].cards[j].card
  <2> SUFFICES ASSUME NEW q \in Players, NEW j \in DOMAIN line[q].cards
               PROVE  /\ line[q].cards[j].number \in B
                      /\ OpenedBy(line[q].cards[j].number).card = line[q].cards[j].card
    BY <1>2
  <2>1. line[q].cards[j].number \in DOMAIN held
    BY DEF AnswerFits
  <2>2. line[q].cards[j].number \in Out
    BY <2>1 DEF ProtocolInv, HostKeys
  <2> QED
    BY <1>4, <2>2 DEF CardsFit
<1>9. Sorted(discard \o Shown \o [i \in DOMAIN deck |-> OpenedBy(deck[i]).card]) = mem[p].start
  <2>1. mem[p].shuffles # 0
    <3>1. mem[p].shuffles = shuffles
      BY DEF ProtocolInv, Live, MixInv, Ended, Terminal
    <3>2. shuffles >= 1 /\ shuffles \in Nat
      BY DEF ShuffleInv, Early, Terminal, ProtocolInv, Shape
    <3> QED
      BY <3>1, <3>2
  <2>2. mem[p].start = FullDeck
    BY <2>1 DEF RememberInv, Terminal
  <2> QED
    BY <2>2 DEF CardsFit
<1>10. [i \in DOMAIN deck |-> OpenWith(infos, deck[i]).card] = [i \in DOMAIN deck |-> OpenedBy(deck[i]).card]
  BY <1>5
<1>11. \A v \in B : Opened(OpenWith(infos, v))
  BY <1>5, <1>7
<1>12. \A q \in Players : \A j \in DOMAIN infos[q].cards :
         infos[q].cards[j].number \in B
         /\ OpenWith(infos, infos[q].cards[j].number).card = infos[q].cards[j].card
  BY <1>5, <1>8
<1>13. ScoreOf(ShownBy(infos)) = req.score
  BY <1>6
<1>14. Sorted(discard \o ShownBy(infos) \o [i \in DOMAIN deck |-> OpenWith(infos, deck[i]).card]) = mem[p].start
  BY <1>6, <1>9, <1>10
<1>15. \A q \in Players : DOMAIN infos[q].keys = DOMAIN mem[p].cardPairs
  BY <1>2, <1>3
<1> QED
  BY <1>1, <1>2, <1>3, <1>4, <1>11, <1>12, <1>13, <1>14, <1>15, Zenon
  DEF RevealFits, ScoreOf

LEMMA HandRevealedAsked ==
  ASSUME ProtocolInv, TableInv, CardsInv, SecondInv, CurrentInv, ShuffleInv, RememberInv, PairsInv,
         RevealInv, Host, HandRevealed
  PROVE  AskedInv'
<1> DEFINE score == ScoreOf(Shown)
           infos == [q \in Players |-> [cards |-> line[q].cards, keys |-> line[q].keys]]
           req == HandEndRequest(1, complete.winner, score, infos)
<1>1. Back("HandReveal") /\ UNCHANGED <<mem, event>>
  BY Zenon DEF HandRevealed, told
<1>2. \/ UNCHANGED line
      \/ (\A q \in Players : AnswerFits(q)) /\ CardsFit /\ CallAll(Players, req)
  BY Zenon DEF HandRevealed, ScoreOf
<1>3. ~PlayerRefuses
  BY <1>1 DEF PlayerRefuses, Back, Answered
<1>4. pc = "HandReveal" /\ CardInv /\ Unrefused /\ Sound
  BY <1>1, FirstHand DEF Early, Terminal, Waiting, Back
<1>5. \A q \in Players : line[q].keys = mem[q].cardPairs
  BY <1>1, <1>4 DEF RevealInv, Back, Answered, Requests, Refusal
<1>6. /\ req.type = "HandEnd" /\ req.winner = complete.winner /\ req.deck = deck
      /\ req.infos = infos /\ req.score = score
  BY DEF HandEndRequest
<1>7. PICK B : PairsFor(B)
  BY <1>4 DEF PairsInv, Terminal
<1>8. event # NoEvent /\ event.hand # NoHand
  BY <1>4 DEF Sound, Place, Afterwards, Told3, Told1, Outdated
<1>9. event.hand = HandNow /\ event.hand.discard = discard
  BY <1>4 DEF CurrentInv, Current, HandNow
<1>10. {r \in Players : event.hand.remaining[r] = 0} = {complete.winner}
  BY <1>4, <1>9 DEF RevealInv, HandNow, OutOfCards
<1>11. ASSUME \A q \in Players : AnswerFits(q), CardsFit, NEW p \in Players
       PROVE  Takes(p, Informed(p), req)
  <2>1. /\ Informed(p).lastEvent = event /\ Informed(p).cardPairs = mem[p].cardPairs
        /\ Informed(p).deck = mem[p].deck /\ Informed(p).start = mem[p].start
    BY InformedOf DEF ProtocolInv
  <2>2. mem[p].deck = deck
    BY <1>4 DEF ProtocolInv, Live, WireInv, WithCards, Terminal
  <2> HIDE DEF req
  <2>3. RevealFits(p, mem[p].cardPairs, deck, discard, mem[p].start, req)
    BY <1>4, <1>5, <1>6, <1>7, <1>11, RevealedFits, Zenon
  <2>4. RevealIsRight(p, Informed(p), req)
    BY <1>9, <2>1, <2>2, <2>3, RevealIsThat
  <2>5. TakesHandEnd(p, Informed(p), req)
    BY <1>6, <1>8, <1>10, <2>1, <2>2, <2>4 DEF TakesHandEnd, WinnerIsRight
  <2> QED
    BY <1>6, <2>5, OneType
<1> HIDE DEF req
<1> QED
  BY <1>1, <1>2, <1>3, <1>11, CallAsked, SilentAsked
-----------------------------------------------------------------------------
\* The theorem

\* What is known of a game when the host asks for something.
AskingInv ==
  /\ ProtocolInv /\ TableInv /\ CardsInv /\ OrderInv /\ SecondInv /\ CurrentInv /\ FirstInv
  /\ BeginInv /\ ShuffleInv /\ RememberInv /\ TurnInv /\ GivenInv /\ PairsInv /\ RevealInv

LEMMA HostAsked ==
  ASSUME Mended = Flaws, AskingInv, AskedInv, Host
  PROVE  AskedInv'
<1> USE DEF AskingInv
<1>1. CASE PlayerRefuses
  <2>1. UNCHANGED <<hand, job, discard, deck, shuffles, start, event, mem, line>>
    BY <1>1 DEF PlayerRefuses, table, game, passing, wires, told
  <2> QED
    BY <2>1, AskedStays
<1>2. CASE ~PlayerRefuses /\ \/ Announce \/ GameStarted \/ ShuffleDone \/ Deal \/ CardGiven \/ FirstColor
                             \/ NothingPlayed \/ CardPlayed \/ NextDrawsTwo \/ NoEffect
                             \/ HandSigned \/ GameEnded
  BY <1>2, SilentSteps, SilentAsked
<1>3. CASE StartGame \/ StartHand \/ HandStarted \/ AfterHand
  BY <1>3, StartGameAsked, StartHandAsked, HandStartedAsked, AfterHandAsked
<1>4. CASE PassOn \/ Reshuffle
  BY <1>4, PassOnAsked, ReshuffleAsked
<1>5. CASE DealTo \/ KeysGiven \/ TurnUp \/ TurnedUp
  BY <1>5, DealToAsked, KeysGivenAsked, TurnUpAsked, TurnedUpAsked
<1>6. CASE AskPlay \/ AskChallenge \/ ChallengeDecided
  BY <1>6, AskPlayAsked, AskChallengeAsked, ChallengeDecidedAsked
<1>7. CASE EndTurn \/ HandRevealed
  BY <1>7, EndTurnAsked, HandRevealedAsked
<1> QED
  BY <1>1, <1>2, <1>3, <1>4, <1>5, <1>6, <1>7, Zenon DEF Host

LEMMA AskedInvariant == ASSUME Dealable, Mended = Flaws PROVE Spec => []AskedInv
<1>1. Init => AskedInv
  BY DEF Init, HandlerInit, AskedInv, Refused, Requests
<1>2. AskingInv /\ AskedInv /\ [Next]_vars => AskedInv'
  <2>1. ASSUME AskedInv, UNCHANGED vars PROVE AskedInv'
    BY <2>1, AskedStays DEF vars, game, passing, table, wires, told
  <2>2. ASSUME AskingInv, AskedInv, Arrive PROVE AskedInv'
    BY <2>2, ArriveAsked DEF AskingInv, ProtocolInv
  <2>3. ASSUME AskingInv, AskedInv, NEW p \in Players, Player(p) PROVE AskedInv'
    BY <2>3, PlayerAsked DEF AskingInv, ProtocolInv
  <2> QED
    BY <2>1, <2>2, <2>3, HostAsked DEF Next, Finished
<1>3. ASSUME ProtocolInv, TableInv, CardsInv, OrderInv, SecondInv, CurrentInv /\ FirstInv,
             WhereInv /\ BeginInv, ShuffleInv, RememberInv, TurnInv, GivenInv, PairsInv, RevealInv
      PROVE  AskingInv
  BY <1>3 DEF AskingInv
<1> QED
  BY <1>1, <1>2, <1>3, ProtocolInvariant, TableInvariant, CardsInvariant, OrderInvariant,
     SecondInvariant, CurrentInvariant, BeginInvariant, ShuffleInvariant, RememberInvariant,
     TurnInvariant, GivenInvariant, PairsInvariant, RevealInvariant, PTL DEF Spec

(* Once it has seen the last event, with events as late as Send lets them  *)
(* be, a player (handler_player.go) takes all that the host (deck.go,      *)
(* client_player.go, game.go) asks, but for a card or cards it cannot      *)
(* show, the shuffle of a second hand or in the middle of a draw or        *)
(* without discards to recycle, a wild on a wild draw four, a card that no *)
(* key changes and the key of a top card when no card is left to turn up.  *)
THEOREM RefusalsAreExplained ==
  ASSUME N * HandSize \in 1..Cardinality(StartCards)-1, Mended = Flaws
  PROVE  Spec => []RefusalsExplained
<1>1. AskedInv => RefusalsExplained
  BY DEF AskedInv, RefusalsExplained, Excused
<1>2. Dealable
  BY DEF Dealable, M
<1>3. Spec => []AskedInv
  BY <1>2, AskedInvariant
<1> QED
  BY <1>1, <1>3, PTL
=============================================================================
