----------------------------- MODULE HandProofs -----------------------------
(***************************************************************************)
(* Proofs about a hand, for every number of players, deck, hand size and   *)
(* bound on the calls: where its cards are, the one-left window, who is    *)
(* blamed, why the process may die and who wins, that a hand implements    *)
(* CardTable, that scores add up and what the numbers of the cards stand   *)
(* for.  Sums are folds over sets; what is said of every set is proved by  *)
(* way of a smallest one it fails for.                                     *)
(***************************************************************************)
EXTENDS HandProperties, CardsProperties, FiniteSetTheorems, SequenceTheorems, WellFoundedInduction,
        TLAPS

USE DEF Players, None, Awaited, NoCard, colors, AsksColor, DeckIsUsedUp, NoCardToDeal

(* moveNextPlayer and peekNextPlayerIndex stay at the table.               *)
LEMMA NextIndexIsASeat ==
  ASSUME playerIndex \in Players
  PROVE  NextIndex \in Players
BY NAssumption DEF NextIndex

LEMMA CardinalityOfCards ==
  ASSUME NEW S \in SUBSET StartCards
  PROVE  IsFiniteSet(S) /\ Cardinality(S) \in Nat
<1>1. IsFiniteSet(Deck108)
  <2>1. 0 \in Int /\ 107 \in Int
    OBVIOUS
  <2>2. IsFiniteSet(0..107)
    BY <2>1, FS_Interval
  <2> QED
    BY <2>2 DEF Deck108
<1>2. IsFiniteSet(S)
  BY <1>1, FS_Subset, CardsAssumption
<1> QED
  BY <1>2, FS_CardinalityType

-----------------------------------------------------------------------------
\* What the helpers of Hand do to the control variables.

LEMMA GotoType ==
  ASSUME ControlOK, NEW next \in PCs, Goto(next)
  PROVE  ControlOK' /\ pc' = next
BY DEF Goto, ControlOK

LEMMA FailType ==
  ASSUME ControlOK, NEW b \in Seats, NEW c \in Seats, Fail(b, c)
  PROVE  ControlOK' /\ pc' = "Failed"
<1>1. "Failed" \in PCs
  BY DEF PCs, Terminal
<1> QED
  BY <1>1 DEF Fail, ControlOK

LEMMA SendType ==
  ASSUME ControlOK, NEW type \in EventTypes, NEW cards \in SUBSET StartCards,
         NEW next \in PCs, Send(type, cards, next)
  PROVE  ControlOK' /\ pc' \in {next, "Failed"}
<1>1. CASE Fail(None, None)
  BY <1>1, FailType DEF Seats
<1>2. CASE /\ pc' = next
           /\ lastEvent' = [type |-> type, deckRemaining |-> Cardinality(cards)]
           /\ UNCHANGED err
  <2>1. Cardinality(cards) \in Int
    BY CardinalityOfCards
  <2> QED
    BY <1>2, <2>1 DEF ControlOK
<1> QED
  BY <1>1, <1>2 DEF Send

LEMMA EmitType ==
  ASSUME ControlOK, TableOK, NEW type \in EventTypes, NEW next \in PCs,
         Emit(type, next)
  PROVE  ControlOK' /\ pc' \in {next, "Failed"}
<1>1. deck \in SUBSET StartCards
  BY DEF TableOK
<1> QED
  BY <1>1, SendType DEF Emit

LEMMA DrawType ==
  ASSUME ControlOK, NEW n \in Nat, NEW who \in Seats, NEW event \in EventTypes,
         NEW then \in Continuations, Draw(n, who, event, then)
  PROVE  ControlOK' /\ JobOK' /\ pc' = "Draw" /\ job'.then = then
<1>1. "Draw" \in PCs /\ then \in PCs
  BY DEF PCs, Continuations, SettingUp, Drawing
<1>2. Goto("Draw") /\ job' = [left |-> n, who |-> who, event |-> event, then |-> then]
  BY DEF Draw
<1>3. ControlOK' /\ pc' = "Draw"
  BY <1>1, <1>2, GotoType
<1> QED
  BY <1>1, <1>2, <1>3 DEF JobOK
-----------------------------------------------------------------------------
LEMMA TypeInit == Init => TypeOK
<1> SUFFICES ASSUME Init PROVE TypeOK
  OBVIOUS
<1>1. SeatOK
  BY HandSizeAssumption, NAssumption DEF Init, SeatOK
<1>2. TableOK
  BY DEF Init, TableOK
<1>3. PlayOK
  BY DEF Init, NoReply, NoChoice, PlayOK
<1>4. OneLeftOK
  BY DEF Init, OneLeftOK, Seats
<1>5. JobOK
  BY DEF Init, NoJob, JobOK, Seats, EventTypes
<1>6. ControlOK /\ pc \notin Drawing
  BY DEF Init, NoEvent, NoErr, ControlOK, Seats, EventTypes, PCs, SettingUp, Drawing
<1> QED
  BY <1>1, <1>2, <1>3, <1>4, <1>5, <1>6 DEF TypeOK

\* What a step does not change keeps its type.
LEMMA UnchangedType ==
  ASSUME TypeOK
  PROVE  /\ UNCHANGED table => TableOK'
         /\ UNCHANGED seat => SeatOK'
         /\ UNCHANGED <<colors, reply>> => PlayOK'
         /\ UNCHANGED oneLeft => OneLeftOK'
         /\ UNCHANGED job => JobOK'
BY DEF TypeOK, table, TableOK, seat, SeatOK, PlayOK, oneLeft, OneLeftOK, JobOK

\* Each one-left helper leaves a channel and a window of the right types.
LEMMA OneLeftType ==
  ASSUME OneLeftOK, NEW index \in Seats
  PROVE  /\ ResetOneLeftCallbacks(index) => OneLeftOK'
         /\ ResetIfPending => OneLeftOK'
<1>1. <<>> \in Seq(OneLeftCalls)
  OBVIOUS
<1>2. ASSUME NEW i \in Seats, ResetOneLeftCallbacks(i) PROVE OneLeftOK'
  BY <1>1, <1>2 DEF ResetOneLeftCallbacks, OneLeftOK
<1>3. UNCHANGED oneLeft => OneLeftOK'
  BY DEF OneLeftOK, oneLeft
<1>4. None \in Seats
  BY DEF Seats
<1> QED
  BY <1>2, <1>3, <1>4 DEF ResetIfPending

\* The steps up to the first turn keep every type.
LEMMA SetUpType ==
  ASSUME TypeOK,
         Shuffle \/ Deal \/ TurnUpFirstCard \/ TurnUpPanics \/ ChooseFirstColor \/ FirstEffect
           \/ BeginTurns
  PROVE  TypeOK'
<1> USE DEF PCs, Continuations, SettingUp, Drawing, InTurns, Terminal
<1>0. ControlOK /\ TableOK /\ SeatOK /\ PlayOK /\ OneLeftOK /\ JobOK
  BY DEF TypeOK
<1>1. CASE Shuffle
  <2>1. ControlOK' /\ pc' \in {"Deal", "Failed"}
    BY <1>0, <1>1, SendType DEF Shuffle, EventTypes
  <2>2. TableOK'
    BY <1>0, <1>1 DEF Shuffle, TableOK
  <2> QED
    BY <1>1, <2>1, <2>2, UnchangedType DEF Shuffle, TypeOK
<1>2. CASE Deal
  <2>1. NextIndex \in Players
    BY <1>0, NextIndexIsASeat DEF SeatOK
  <2>2. SeatOK'
    BY <1>0, <1>2, <2>1 DEF Deal, SeatOK
  <2>3. CASE toDeal > 0
    <3>1. Draw(1, NextIndex, "HandStartCardDealt", "Deal")
      BY <1>2, <2>3 DEF Deal
    <3>2. ControlOK' /\ JobOK' /\ pc' = "Draw" /\ job'.then = "Deal"
      BY <1>0, <2>1, <3>1, DrawType DEF Seats, EventTypes
    <3> QED
      BY <1>2, <2>2, <3>2, UnchangedType DEF Deal, TypeOK
  <2>4. CASE ~(toDeal > 0)
    <3>1. ControlOK' /\ pc' = "FirstCard"
      BY <1>0, <1>2, <2>4, GotoType DEF Deal
    <3> QED
      BY <1>2, <2>2, <2>4, <3>1, UnchangedType DEF Deal, TypeOK
  <2> QED
    BY <2>3, <2>4
<1>3. CASE TurnUpFirstCard
  <2>1. TableOK'
    BY <1>0, <1>3 DEF TurnUpFirstCard, TableOK
  <2>2. ControlOK' /\ pc' \in PCs \ Drawing
    <3>1. CASE \E p \in Seats : Fail(p, p)
      BY <1>0, <3>1, FailType DEF Seats
    <3>2. ASSUME NEW c \in deck,
                 IF Value(c) = Wild
                   THEN Goto("FirstColor")
                   ELSE Send("HandStartTopCardAddedToDiscard", deck \ {c}, AfterFirst(c))
          PROVE  ControlOK' /\ pc' \in PCs \ Drawing
      <4>1. AfterFirst(c) \in {"FirstCard", "FirstEffect", "Begin"}
        BY DEF AfterFirst
      <4>2. CASE Goto("FirstColor")
        BY <1>0, <4>2, GotoType
      <4>3. CASE Send("HandStartTopCardAddedToDiscard", deck \ {c}, AfterFirst(c))
        <5>1. deck \ {c} \in SUBSET StartCards
          BY <1>0 DEF TableOK
        <5> QED
          BY <1>0, <4>1, <4>3, <5>1, SendType DEF EventTypes
      <4> QED
        BY <3>2, <4>2, <4>3
    <3> QED
      BY <1>3, <3>1, <3>2 DEF TurnUpFirstCard, Seats
  <2> QED
    BY <1>3, <2>1, <2>2, UnchangedType DEF TurnUpFirstCard, TypeOK
<1>4. CASE ChooseFirstColor
  <2>1. ControlOK' /\ pc' \in {"Begin", "Failed"}
    <3>1. CASE Fail(playerIndex, playerIndex)
      BY <1>0, <3>1, FailType DEF SeatOK, Seats
    <3>2. CASE Emit("HandStartTopCardAddedToDiscard", "Begin")
      BY <1>0, <3>2, EmitType DEF EventTypes
    <3> QED
      BY <1>4, <3>1, <3>2 DEF ChooseFirstColor
  <2>2. PlayOK'
    BY <1>0, <1>4, ChosenColorsAssumption DEF ChooseFirstColor, PlayOK, TableOK
  <2> QED
    BY <1>4, <2>1, <2>2, UnchangedType DEF ChooseFirstColor, TypeOK
<1>5. CASE FirstEffect
  <2>1. ASSUME Emit("HandPlayerSkipped", "FirstMove"), UNCHANGED <<forward, job>>
        PROVE  TypeOK'
    <3>1. ControlOK' /\ pc' \in {"FirstMove", "Failed"}
      BY <1>0, <2>1, EmitType DEF EventTypes
    <3> QED
      BY <1>5, <2>1, <3>1, UnchangedType DEF FirstEffect, TypeOK, seat
  <2>2. ASSUME forward' = ~forward, Emit("HandPlayReversed", "Begin"), UNCHANGED job
        PROVE  TypeOK'
    <3>1. ControlOK' /\ pc' \in {"Begin", "Failed"}
      BY <1>0, <2>2, EmitType DEF EventTypes
    <3>2. SeatOK'
      BY <1>0, <1>5, <2>2 DEF FirstEffect, SeatOK
    <3> QED
      BY <1>5, <2>2, <3>1, <3>2, UnchangedType DEF FirstEffect, TypeOK
  <2>3. ASSUME Draw(2, playerIndex, "HandPlayerDrewTwo", "FirstMove"), UNCHANGED forward
        PROVE  TypeOK'
    <3>1. ControlOK' /\ JobOK' /\ pc' = "Draw" /\ job'.then = "FirstMove"
      BY <1>0, <2>3, DrawType DEF SeatOK, Seats, EventTypes
    <3> QED
      BY <1>5, <2>3, <3>1, UnchangedType DEF FirstEffect, TypeOK, seat
  <2> QED
    BY <1>5, <2>1, <2>2, <2>3 DEF FirstEffect
<1>6. CASE BeginTurns
  <2>1. ControlOK' /\ pc' = "Turn"
    BY <1>0, <1>6, GotoType DEF BeginTurns
  <2>2. SeatOK'
    BY <1>0, <1>6, NextIndexIsASeat DEF BeginTurns, SeatOK
  <2>3. OneLeftOK'
    BY <1>0, <1>6, OneLeftType DEF BeginTurns, Seats
  <2> QED
    BY <1>6, <2>1, <2>2, <2>3, UnchangedType DEF BeginTurns, TypeOK
<1>7. CASE TurnUpPanics
  <2>1. ControlOK' /\ pc' = "Panicked"
    BY <1>0, <1>7, GotoType DEF TurnUpPanics
  <2> QED
    BY <1>7, <2>1, UnchangedType DEF TurnUpPanics, TypeOK
<1> QED
  BY <1>1, <1>2, <1>3, <1>4, <1>5, <1>6, <1>7

\* playerDraw keeps every type.
LEMMA DrawStepsType ==
  ASSUME TypeOK,
         Reshuffle \/ ShuffleFails \/ DealTo \/ DealToFails \/ DealToPanics \/ Drawn
  PROVE  TypeOK'
<1> USE DEF PCs, Continuations, SettingUp, Drawing, InTurns, Terminal
<1>0. ControlOK /\ TableOK /\ SeatOK /\ PlayOK /\ OneLeftOK /\ JobOK
  BY DEF TypeOK
<1>1. CASE Reshuffle
  <2>1. TableOK'
    BY <1>0, <1>1 DEF Reshuffle, Recycled, TableOK
  <2>2. Recycled \in SUBSET StartCards
    BY <1>0 DEF Recycled, TableOK
  <2>3. ControlOK' /\ pc' \in {"DealTo", "Failed"}
    BY <1>0, <1>1, <2>2, SendType DEF Reshuffle, EventTypes
  <2> QED
    BY <1>1, <2>1, <2>3, UnchangedType DEF Reshuffle, TypeOK
<1>2. CASE ShuffleFails
  <2>1. ControlOK' /\ pc' = "Failed"
    BY <1>0, <1>2, FailType DEF ShuffleFails, Seats
  <2> QED
    BY <1>2, <2>1, UnchangedType DEF ShuffleFails, TypeOK
<1>3. CASE DealTo
  <2>1. TableOK'
    BY <1>0, <1>3 DEF DealTo, TableOK
  <2>2. JobOK' /\ job'.then = job.then
    BY <1>0, <1>3 DEF DealTo, JobOK
  <2>3. ControlOK'
    BY <1>0, <1>3, GotoType DEF DealTo
  <2>4. pc \in Drawing
    BY <1>3 DEF DealTo, AboutToDeal
  <2> QED
    BY <1>3, <2>1, <2>2, <2>3, <2>4, UnchangedType DEF DealTo, TypeOK
<1>4. CASE DealToFails
  <2>1. ControlOK' /\ pc' = "Failed"
    BY <1>0, <1>4, FailType DEF DealToFails, SeatOK, Seats
  <2> QED
    BY <1>4, <2>1, UnchangedType DEF DealToFails, TypeOK
<1>5. CASE DealToPanics
  <2>1. ControlOK' /\ pc' = "Panicked"
    BY <1>0, <1>5, GotoType DEF DealToPanics
  <2> QED
    BY <1>5, <2>1, UnchangedType DEF DealToPanics, TypeOK
<1>6. CASE Drawn
  <2>1. job.event \in EventTypes /\ job.then \in Continuations
    BY <1>0, <1>6 DEF Drawn, TypeOK, JobOK
  <2>2. ControlOK' /\ pc' \in {job.then, "Failed"}
    BY <1>0, <1>6, <2>1, EmitType DEF Drawn
  <2>3. JobOK'
    BY <1>6 DEF Drawn, NoJob, JobOK, Seats, EventTypes
  <2> QED
    BY <1>6, <2>1, <2>2, <2>3, UnchangedType DEF Drawn, TypeOK
<1> QED
  BY <1>1, <1>2, <1>3, <1>4, <1>5, <1>6

\* From the first card turned up there is a card to be matched.
TopKnown ==
  \/ pc \in {"FirstColor", "FirstEffect", "FirstMove", "Begin"} \cup InTurns
  \/ pc \in Drawing /\ job.then # "Deal"
  => top # NoCard

\* The plays and the calls of a turn keep every type.
LEMMA TurnType ==
  ASSUME TypeOK, TopKnown,
         PlayerReplies \/ PlayFails \/ Call
           \/ TakeCall \/ CallDone \/ TakePlay \/ TakeSecondPlay
           \/ PlayRefused \/ PlayNothing \/ Discard
  PROVE  TypeOK'
<1> USE DEF PCs, Continuations, SettingUp, Drawing, InTurns, Terminal
<1>0. ControlOK /\ TableOK /\ SeatOK /\ PlayOK /\ OneLeftOK /\ JobOK
  BY DEF TypeOK
<1>1. CASE PlayerReplies
  <2>1. UNCHANGED control => ControlOK' /\ pc' = pc
    BY <1>0 DEF control, ControlOK
  <2>2. PlayOK'
    BY <1>0, <1>1, ChosenColorsAssumption DEF PlayerReplies, PlayOK, TableOK, SeatOK
  <2>3. TableOK'
    BY <1>0, <1>1 DEF PlayerReplies, TableOK
  <2> QED
    BY <1>1, <2>1, <2>2, <2>3, UnchangedType DEF PlayerReplies, TypeOK
<1>2. CASE PlayFails
  <2>1. ControlOK' /\ pc' = "Failed"
    BY <1>0, <1>2, FailType DEF PlayFails, SeatOK, Seats
  <2> QED
    BY <1>2, <2>1, UnchangedType DEF PlayFails, TypeOK
<1>3. CASE Call
  <2>1. PICK caller \in Players, target \in Players \cup {None} : CallOneLeft(caller, target)
    BY <1>3 DEF Call
  <2>2. UNCHANGED control => ControlOK' /\ pc' = pc
    BY <1>0 DEF control, ControlOK
  <2>3. [caller |-> caller, target |-> target, window |-> pending] \in OneLeftCalls
    BY <1>0 DEF OneLeftCalls, OneLeftOK, Seats
  <2>4. OneLeftOK'
    BY <1>0, <2>1, <2>3 DEF CallOneLeft, OneLeftOK
  <2> QED
    BY <2>1, <2>2, <2>4, UnchangedType DEF CallOneLeft, TypeOK
<1>4. CASE TakeCall
  <2> DEFINE call == Head(calls)
  <2>1. call \in OneLeftCalls /\ Tail(calls) \in Seq(OneLeftCalls)
    BY <1>0, <1>4, HeadTailProperties DEF TakeCall, OneLeftOK
  <2>2. OneLeftOK'
    BY <1>0, <1>4, <2>1 DEF TakeCall, OneLeftOK
  <2>3. call.target \in Seats
    BY <2>1 DEF OneLeftCalls, Seats
  <2> HIDE DEF call
  <2>4. ASSUME job' = PenaltyFor(call.target), Emit("HandPlayerCalledOneLeft", "Draw")
        PROVE  TypeOK'
    <3>1. JobOK' /\ job'.then = "CallDone"
      BY <2>3, <2>4 DEF PenaltyFor, JobOK, EventTypes
    <3>2. ControlOK' /\ pc' \in {"Draw", "Failed"}
      BY <1>0, <2>4, EmitType DEF EventTypes
    <3> QED
      BY <1>4, <2>2, <3>1, <3>2, UnchangedType DEF TakeCall, TypeOK
  <2>5. ASSUME Emit("HandPlayerCalledOneLeft", "CallDone"), UNCHANGED job
        PROVE  TypeOK'
    <3>1. ControlOK' /\ pc' \in {"CallDone", "Failed"}
      BY <1>0, <2>5, EmitType DEF EventTypes
    <3> QED
      BY <1>4, <2>2, <2>5, <3>1, UnchangedType DEF TakeCall, TypeOK
  <2>6. ASSUME Goto("CallDone"), UNCHANGED job
        PROVE  TypeOK'
    <3>1. ControlOK' /\ pc' = "CallDone"
      BY <1>0, <2>6, GotoType
    <3> QED
      BY <1>4, <2>2, <2>6, <3>1, UnchangedType DEF TakeCall, TypeOK
  <2> QED
    BY <1>4, <2>4, <2>5, <2>6 DEF TakeCall, call
<1>5. CASE CallDone
  <2>1. ControlOK' /\ pc' = "AwaitPlay"
    BY <1>0, <1>5, GotoType DEF CallDone
  <2>2. OneLeftOK'
    BY <1>0, <1>5, OneLeftType DEF CallDone, Seats
  <2> QED
    BY <1>5, <2>1, <2>2, UnchangedType DEF CallDone, TypeOK
<1>6. CASE TakePlay
  <2>1. OneLeftOK'
    BY <1>0, <1>6, OneLeftType, UnchangedType DEF TakePlay, Seats
  <2>2. CASE reply.card = NoCard
    <3>1. Draw(1, playerIndex, "HandPlayerDrewOne", "PlayAgain") /\ reply' = NoReply
      BY <1>6, <2>2 DEF TakePlay
    <3>2. ControlOK' /\ JobOK' /\ pc' = "Draw" /\ job'.then = "PlayAgain"
      BY <1>0, <3>1, DrawType DEF SeatOK, Seats, EventTypes
    <3>3. PlayOK'
      BY <1>0, <1>6, <3>1 DEF TakePlay, PlayOK, NoReply
    <3> QED
      BY <1>6, <2>1, <3>2, <3>3, UnchangedType DEF TakePlay, TypeOK
  <2>3. CASE reply.card # NoCard
    <3>1. Goto("Apply") /\ UNCHANGED <<reply, job>>
      BY <1>6, <2>3 DEF TakePlay
    <3>2. ControlOK' /\ pc' = "Apply"
      BY <1>0, <3>1, GotoType
    <3> QED
      BY <1>6, <2>1, <3>1, <3>2, UnchangedType DEF TakePlay, TypeOK
  <2> QED
    BY <2>2, <2>3
<1>7. CASE TakeSecondPlay
  <2>1. ControlOK' /\ pc' = "Apply"
    BY <1>0, <1>7, GotoType DEF TakeSecondPlay
  <2> QED
    BY <1>7, <2>1, UnchangedType DEF TakeSecondPlay, TypeOK
<1>8. CASE PlayRefused
  <2>1. ControlOK' /\ pc' = "Failed"
    BY <1>0, <1>8, FailType DEF PlayRefused, SeatOK, Seats
  <2> QED
    BY <1>8, <2>1, UnchangedType DEF PlayRefused, TypeOK
<1>9. CASE PlayNothing
  <2>1. ControlOK' /\ pc' \in {"EndTurn", "Failed"}
    BY <1>0, <1>9, EmitType DEF PlayNothing, EventTypes
  <2>2. PlayOK'
    BY <1>0, <1>9 DEF PlayNothing, PlayOK, NoReply
  <2> QED
    BY <1>9, <2>1, <2>2, UnchangedType DEF PlayNothing, TypeOK
<1>10. CASE Discard
  <2>1. reply.card \in StartCards
    <3>1. reply.card # Awaited
      BY <1>10, CardsAssumption DEF Discard, PlayIsValid, Deck108
    <3> QED
      BY <1>0, <1>10, <3>1 DEF Discard, PlayOK
  <2>2. top \in StartCards
    BY <1>0, <1>10 DEF Discard, TableOK, TopKnown
  <2>3. TableOK'
    BY <1>0, <1>10, <2>1, <2>2 DEF Discard, TableOK
  <2>4. PlayOK'
    BY <1>0, <1>10 DEF Discard, PlayOK, NoReply
  <2>5. ControlOK' /\ pc' \in {"Effect", "Failed"}
    BY <1>0, <1>10, EmitType DEF Discard, EventTypes
  <2>6. OneLeftOK'
    BY <1>0, <1>10, OneLeftType, UnchangedType DEF Discard, SeatOK, Seats
  <2> QED
    BY <1>10, <2>3, <2>4, <2>5, <2>6, UnchangedType DEF Discard, TypeOK
<1> QED
  BY <1>1, <1>2, <1>3, <1>4, <1>5, <1>6, <1>7, <1>8, <1>9, <1>10

\* What a discarded card does, and the end of a turn, keep every type.
LEMMA EffectType ==
  ASSUME TypeOK,
         PlainCard \/ SkipNext \/ ReverseDirection \/ NextDrawsTwo
           \/ AskChallenge \/ ChallengeSucceeds \/ ChallengeIsLost \/ RevealFails
           \/ EndTurn
  PROVE  TypeOK'
<1> USE DEF PCs, Continuations, SettingUp, Drawing, InTurns, Terminal
<1>0. ControlOK /\ TableOK /\ SeatOK /\ PlayOK /\ OneLeftOK /\ JobOK
  BY DEF TypeOK
<1>i. NextIndex \in Players /\ NextIndex \in Seats /\ playerIndex \in Seats
  BY <1>0, NextIndexIsASeat DEF SeatOK, Seats
<1>1. CASE PlainCard
  <2>1. ControlOK' /\ pc' = "EndTurn"
    BY <1>0, <1>1, GotoType DEF PlainCard
  <2> QED
    BY <1>1, <2>1, UnchangedType DEF PlainCard, TypeOK
<1>2. CASE SkipNext
  <2>1. ControlOK' /\ pc' \in {"EndTurn", "Failed"}
    BY <1>0, <1>2, EmitType DEF SkipNext, EventTypes
  <2>2. SeatOK'
    BY <1>0, <1>2, <1>i DEF SkipNext, SeatOK
  <2> QED
    BY <1>2, <2>1, <2>2, UnchangedType DEF SkipNext, TypeOK
<1>3. CASE ReverseDirection
  <2>1. ControlOK' /\ pc' \in {"EndTurn", "Failed"}
    BY <1>0, <1>3, EmitType DEF ReverseDirection, EventTypes
  <2>2. SeatOK'
    BY <1>0, <1>3 DEF ReverseDirection, SeatOK
  <2> QED
    BY <1>3, <2>1, <2>2, UnchangedType DEF ReverseDirection, TypeOK
<1>4. CASE NextDrawsTwo
  <2>1. ControlOK' /\ JobOK' /\ pc' = "Draw" /\ job'.then = "EndTurn"
    BY <1>0, <1>4, <1>i, DrawType DEF NextDrawsTwo, EventTypes
  <2>2. SeatOK'
    BY <1>0, <1>4, <1>i DEF NextDrawsTwo, SeatOK
  <2> QED
    BY <1>4, <2>1, <2>2, UnchangedType DEF NextDrawsTwo, TypeOK
<1>5. CASE AskChallenge
  <2>1. SeatOK'
    BY <1>0, <1>5, <1>i DEF AskChallenge, SeatOK
  <2>2. ASSUME Goto("Reveal"), UNCHANGED job PROVE TypeOK'
    <3>1. ControlOK' /\ pc' = "Reveal"
      BY <1>0, <2>2, GotoType
    <3> QED
      BY <1>5, <2>1, <2>2, <3>1, UnchangedType DEF AskChallenge, TypeOK
  <2>3. ASSUME Draw(4, NextIndex, "HandPlayerNoChallengeDrewFour", "EndTurn")
        PROVE  TypeOK'
    <3>1. ControlOK' /\ JobOK' /\ pc' = "Draw" /\ job'.then = "EndTurn"
      BY <1>0, <1>i, <2>3, DrawType DEF EventTypes
    <3> QED
      BY <1>5, <2>1, <3>1, UnchangedType DEF AskChallenge, TypeOK
  <2>4. ASSUME Fail(NextIndex, NextIndex), UNCHANGED job PROVE TypeOK'
    <3>1. ControlOK' /\ pc' = "Failed"
      BY <1>0, <1>i, <2>4, FailType
    <3> QED
      BY <1>5, <2>1, <2>4, <3>1, UnchangedType DEF AskChallenge, TypeOK
  <2> QED
    BY <1>5, <2>2, <2>3, <2>4 DEF AskChallenge
<1>6. CASE ChallengeSucceeds
  <2>1. ControlOK' /\ JobOK' /\ pc' = "Draw" /\ job'.then = "EndTurn"
    BY <1>0, <1>6, <1>i, DrawType DEF ChallengeSucceeds, EventTypes
  <2>2. OneLeftOK'
    BY <1>0, <1>6, OneLeftType DEF ChallengeSucceeds, Seats
  <2> QED
    BY <1>6, <2>1, <2>2, UnchangedType DEF ChallengeSucceeds, TypeOK
<1>7. CASE ChallengeIsLost
  <2>1. ControlOK' /\ JobOK' /\ pc' = "Draw" /\ job'.then = "EndTurn"
    BY <1>0, <1>7, <1>i, DrawType DEF ChallengeIsLost, EventTypes
  <2>2. SeatOK'
    BY <1>0, <1>7, <1>i DEF ChallengeIsLost, SeatOK
  <2> QED
    BY <1>7, <2>1, <2>2, UnchangedType DEF ChallengeIsLost, TypeOK
<1>8. CASE RevealFails
  <2>1. ControlOK' /\ pc' = "Failed"
    BY <1>0, <1>8, <1>i, FailType DEF RevealFails
  <2> QED
    BY <1>8, <2>1, UnchangedType DEF RevealFails, TypeOK
<1>9. CASE EndTurn
  <2>1. SeatOK'
    BY <1>0, <1>9, <1>i DEF EndTurn, SeatOK
  <2>2. ControlOK' /\ pc' \in {"Turn", "Done", "Failed"}
    BY <1>0, <1>9, GotoType, FailType DEF EndTurn, Seats
  <2> QED
    BY <1>9, <2>1, <2>2, UnchangedType DEF EndTurn, TypeOK
<1> QED
  BY <1>1, <1>2, <1>3, <1>4, <1>5, <1>6, <1>7, <1>8, <1>9

LEMMA TypeStep ==
  ASSUME TypeOK, TopKnown, [Next]_vars
  PROVE  TypeOK'
<1>1. CASE UNCHANGED vars
  BY <1>1 DEF vars, control, table, seat, oneLeft, TypeOK, ControlOK, SeatOK, TableOK,
     PlayOK, OneLeftOK, JobOK
<1>2. CASE Finished
  BY <1>1, <1>2 DEF Finished
<1>3. CASE Main
  BY <1>3, SetUpType, DrawStepsType, TurnType, EffectType DEF Main
<1>4. CASE PlayerReplies \/ PlayFails \/ Call
  BY <1>4, TurnType
<1> QED
  BY <1>1, <1>2, <1>3, <1>4 DEF Next

\* The steps that touch neither a card nor the answer of a player.
Quiet ==
  \/ Deal \/ TurnUpPanics \/ ChooseFirstColor \/ FirstEffect \/ BeginTurns
  \/ ShuffleFails \/ DealToFails \/ DealToPanics \/ Drawn
  \/ PlayFails \/ Call \/ TakeCall \/ CallDone \/ TakeSecondPlay \/ PlayRefused
  \/ PlainCard \/ SkipNext \/ ReverseDirection \/ NextDrawsTwo
  \/ AskChallenge \/ ChallengeSucceeds \/ ChallengeIsLost \/ RevealFails
  \/ EndTurn \/ Finished \/ UNCHANGED vars

LEMMA QuietUnchanged == Quiet => UNCHANGED <<table, reply>>
BY DEF Quiet, Deal, TurnUpPanics, ChooseFirstColor, FirstEffect, BeginTurns, ShuffleFails, DealToFails,
  DealToPanics, Drawn, PlayFails, Call, CallOneLeft, TakeCall, CallDone, TakeSecondPlay,
  PlayRefused, PlainCard, SkipNext, ReverseDirection, NextDrawsTwo, AskChallenge,
  ChallengeSucceeds, ChallengeIsLost, RevealFails, EndTurn, Finished, vars

LEMMA StepCases ==
  ASSUME [Next]_vars
  PROVE  \/ Quiet
         \/ Shuffle \/ TurnUpFirstCard \/ Reshuffle \/ DealTo
         \/ PlayerReplies \/ TakePlay \/ PlayNothing \/ Discard
BY DEF Next, Main, Quiet

LEMMA TopKnownStep ==
  ASSUME TypeOK, TopKnown, [Next]_vars
  PROVE  TopKnown'
<1>0. NoCard \notin deck
  BY CardsAssumption DEF TypeOK, TableOK, Deck108
<1> USE DEF SettingUp, Drawing, InTurns, Terminal
<1>1. CASE top # NoCard
  <2>1. top' # NoCard
    <3>1. CASE TurnUpFirstCard
      <4>1. top' = top \/ top' \in deck
        BY <3>1 DEF TurnUpFirstCard
      <4> QED
        BY <1>0, <1>1, <4>1
    <3>2. CASE Discard
      BY <3>2 DEF Discard
    <3>3. CASE ~TurnUpFirstCard /\ ~Discard
      <4>1. UNCHANGED top
        BY <3>3, StepCases, QuietUnchanged DEF table, Shuffle, Reshuffle, DealTo,
           PlayerReplies, TakePlay, PlayNothing
      <4> QED
        BY <1>1, <4>1
    <3> QED
      BY <3>1, <3>2, <3>3
  <2> QED
    BY <2>1 DEF TopKnown
<1>2. CASE top = NoCard
  <2>1. \/ pc \in {"Shuffle", "Deal", "FirstCard"} \cup Terminal
        \/ pc \in Drawing /\ job.then = "Deal"
    BY <1>2 DEF TopKnown, TypeOK, ControlOK, PCs
  <2> USE DEF Next, Main, Shuffle, Deal, TurnUpFirstCard, TurnUpPanics, ChooseFirstColor, FirstEffect,
          BeginTurns, Reshuffle, ShuffleFails, AboutToDeal, DealTo, DealToFails,
          DealToPanics, Drawn, TakeCall, CallDone, TakePlay, TakeSecondPlay, PlayRefused,
          PlayNothing, Discard, PlainCard, SkipNext, ReverseDirection, NextDrawsTwo,
          AskChallenge, ChallengeSucceeds, ChallengeIsLost, RevealFails, EndTurn,
          PlayOutstanding, PlayerReplies, PlayFails, Call, CallOneLeft, Finished
  <2>2. CASE pc = "Shuffle"
    <3>1. Shuffle \/ ShuffleFails \/ UNCHANGED vars
      BY <2>2
    <3> QED
      BY <2>2, <3>1 DEF TopKnown, Send, Fail, vars, control
  <2>3. CASE pc = "Deal"
    <3>1. Deal \/ UNCHANGED vars
      BY <2>3
    <3> QED
      BY <2>3, <3>1 DEF TopKnown, Draw, Goto, vars, control
  <2>4. CASE pc = "FirstCard"
    <3>1. TurnUpFirstCard \/ TurnUpPanics \/ UNCHANGED vars
      BY <2>4
    <3>2. CASE UNCHANGED vars
      BY <2>4, <3>2 DEF TopKnown, vars, control
    <3>3. ASSUME NEW c \in deck, top' = c PROVE TopKnown'
      BY <1>0, <3>3 DEF TopKnown
    <3>4. ASSUME NEW p \in Seats, Fail(p, p) PROVE TopKnown'
      BY <3>4 DEF TopKnown, Fail
    <3>5. CASE TurnUpFirstCard
      <4>1. \/ \E c \in deck : top' = c
            \/ \E p \in Seats : Fail(p, p)
        BY <3>5 DEF Seats
      <4> QED
        BY <3>3, <3>4, <4>1
    <3>6. CASE TurnUpPanics
      BY <3>6 DEF TopKnown, Goto
    <3> QED
      BY <3>1, <3>2, <3>5, <3>6
  <2>5. CASE pc \in Terminal
    <3>1. Finished \/ UNCHANGED vars
      BY <2>5
    <3> QED
      BY <2>5, <3>1 DEF TopKnown, vars, control
  <2>6. CASE pc \in Drawing /\ job.then = "Deal"
    <3>1. \/ Reshuffle \/ ShuffleFails \/ DealTo \/ DealToFails \/ DealToPanics
          \/ Drawn \/ UNCHANGED vars
      BY <2>6
    <3>2. CASE DealTo
      <4>1. job'.then = "Deal"
        BY <2>6, <3>2 DEF TypeOK, JobOK
      <4> QED
        BY <3>2, <4>1 DEF TopKnown, Goto
    <3>3. CASE Reshuffle
      BY <2>6, <3>3 DEF TopKnown, Send, Fail
    <3>4. CASE ShuffleFails \/ DealToFails \/ DealToPanics
      BY <3>4 DEF TopKnown, Fail, Goto
    <3>5. CASE Drawn
      BY <2>6, <3>5 DEF TopKnown, Emit, Send, Fail
    <3>6. CASE UNCHANGED vars
      BY <2>6, <3>6 DEF TopKnown, vars, control
    <3> QED
      BY <3>1, <3>2, <3>3, <3>4, <3>5, <3>6
  <2> QED
    BY <2>1, <2>2, <2>3, <2>4, <2>5, <2>6
<1> QED
  BY <1>1, <1>2

(* Every variable of a hand always has its type (TypeOK), and no turn is   *)
(* reached without a card to be matched.                                   *)
THEOREM TypeCorrect == Spec => [](TypeOK /\ TopKnown)
<1>1. Init => TypeOK /\ TopKnown
  BY TypeInit DEF Init, TopKnown, InTurns, Drawing
<1>2. TypeOK /\ TopKnown /\ [Next]_vars => (TypeOK /\ TopKnown)'
  BY TypeStep, TopKnownStep
<1> QED
  BY <1>1, <1>2, PTL DEF Spec
-----------------------------------------------------------------------------
\* Conservation of the cards

\* Before the first shuffle there are no cards outside the deck.
NothingDealtYet ==
  pc = "Shuffle" =>
    /\ hands = [p \in Players |-> {}]
    /\ discard = {}
    /\ top = NoCard
    /\ reply = NoReply

CardInv == TypeOK /\ TopKnown /\ NothingDealtYet /\ Conservation

LEMMA NothingDealtYetStep ==
  ASSUME TypeOK, NothingDealtYet, [Next]_vars
  PROVE  NothingDealtYet'
<1> USE DEF NothingDealtYet, SettingUp, Drawing, InTurns, Terminal, Continuations
<1>1. CASE UNCHANGED vars
  BY <1>1 DEF vars, control, table
<1>2. CASE Finished
  BY <1>2 DEF Finished, vars, control, table
<1>3. CASE PlayerReplies \/ Call
  BY <1>3 DEF PlayerReplies, PlayOutstanding, Call, CallOneLeft, control
<1>4. CASE Main \/ PlayFails
  <2>1. CASE pc \in Drawing
    <3>1. job.then \in Continuations
      BY <2>1 DEF TypeOK
    <3> QED
      BY <1>4, <2>1, <3>1
      DEF Main, Shuffle, Deal, TurnUpFirstCard, TurnUpPanics, ChooseFirstColor, FirstEffect,
          BeginTurns, Reshuffle, ShuffleFails, AboutToDeal, DealTo, DealToFails,
          DealToPanics, Drawn, TakeCall, CallDone, TakePlay, TakeSecondPlay, PlayRefused,
          PlayNothing, Discard, PlainCard, SkipNext, ReverseDirection, NextDrawsTwo,
          AskChallenge, ChallengeSucceeds, ChallengeIsLost, RevealFails, EndTurn,
          PlayFails, Goto, Fail, Send, Emit
  <2>2. CASE pc \notin Drawing
    BY <1>4, <2>2
    DEF Main, Shuffle, Deal, TurnUpFirstCard, TurnUpPanics, ChooseFirstColor, FirstEffect, AfterFirst,
        BeginTurns, Reshuffle, ShuffleFails, AboutToDeal, DealTo, DealToFails,
        DealToPanics, Drawn, TakeCall, CallDone, TakePlay, TakeSecondPlay, PlayRefused,
        PlayNothing, Discard, PlainCard, SkipNext, ReverseDirection, NextDrawsTwo,
        AskChallenge, ChallengeSucceeds, ChallengeIsLost, RevealFails, EndTurn,
        PlayFails, Goto, Fail, Send, Emit, Draw
  <2> QED
    BY <2>1, <2>2
<1> QED
  BY <1>1, <1>2, <1>3, <1>4 DEF Next

\* A failed hand takes no step, and only the shuffle starts a hand.
LEMMA FailedStays ==
  ASSUME [Next]_vars, pc \in {"Failed", "Shuffle"}
  PROVE  UNCHANGED vars \/ Shuffle \/ ShuffleFails
BY DEF Next, Main, Shuffle, Deal, TurnUpFirstCard, TurnUpPanics, ChooseFirstColor, FirstEffect,
  BeginTurns, Reshuffle, ShuffleFails, AboutToDeal, DealTo, DealToFails,
  DealToPanics, Drawn, TakeCall, CallDone, TakePlay, TakeSecondPlay, PlayRefused,
  PlayNothing, Discard, PlainCard, SkipNext, ReverseDirection, NextDrawsTwo,
  AskChallenge, ChallengeSucceeds, ChallengeIsLost, RevealFails, EndTurn,
  PlayFails, PlayerReplies, PlayOutstanding, Call, CallOneLeft, Finished,
  Drawing, InTurns, Terminal

\* Every card is in the deck, a hand, the discards or on its way there.
AllCards ==
  \A c \in StartCards :
    \/ c \in deck \cup discard \cup TopCard \cup InFlight
    \/ \E p \in Players : c \in hands[p]

\* The steps that move a card or take an answer keep the cards apart and all there.
LEMMA MovesConserve ==
  ASSUME CardInv, AllCards \/ Shuffle,
         Shuffle \/ TurnUpFirstCard \/ Reshuffle \/ DealTo \/ PlayerReplies
           \/ TakePlay \/ PlayNothing \/ Discard
  PROVE  NoCardTwice' /\ AllCards'
<1> USE DEF NoCardTwice, AllCards, TopCard, InFlight
<1>0. TableOK /\ PlayOK /\ NoCardTwice
  BY DEF CardInv, TypeOK, Conservation
<1>c. NoCard \notin StartCards /\ Awaited \notin StartCards
      /\ NoCard \notin Deck108 /\ Awaited \notin Deck108 /\ StartCards \subseteq Deck108
  BY CardsAssumption DEF Deck108
<1>r. NoReply.card = Awaited
  BY DEF NoReply
<1> HIDE DEF None, Awaited, NoCard, Players
<1>1. CASE Shuffle
  BY <1>1, <1>0, <1>c, <1>r DEF Shuffle, CardInv, NothingDealtYet
<1>2. CASE TurnUpFirstCard
  <2>1. UNCHANGED <<hands, reply>> /\ AllCards
    BY <1>2 DEF TurnUpFirstCard, Shuffle
  <2>2. CASE UNCHANGED <<deck, discard, top>>
    BY <1>0, <2>1, <2>2
  <2>3. ASSUME NEW c \in deck, deck' = deck \ {c}, top' = c,
               discard' = discard \cup ({top} \ {NoCard})
        PROVE  NoCardTwice' /\ AllCards'
    <3>1. c # NoCard
      BY <1>0, <1>c, <2>3 DEF TableOK
    <3>2. NoCardTwice'
      BY <1>0, <2>1, <2>3, <3>1
    <3>3. AllCards'
      BY <2>1, <2>3, <3>1
    <3> QED
      BY <3>2, <3>3
  <2> QED
    BY <1>2, <2>2, <2>3 DEF TurnUpFirstCard
<1>3. CASE Reshuffle
  BY <1>3, <1>0, <1>c DEF Reshuffle, Recycled, TableOK, Shuffle
<1>4. CASE DealTo
  <2>1. PICK c \in deck :
          /\ deck' = deck \ {c}
          /\ hands' = [hands EXCEPT ![job.who] = @ \cup {c}]
    BY <1>4 DEF DealTo
  <2>2. \A p \in Players :
          hands'[p] = IF p = job.who THEN hands[p] \cup {c} ELSE hands[p]
    BY <1>0, <2>1 DEF TableOK
  <2>3. job.who \in Players /\ UNCHANGED <<discard, top, reply>> /\ AllCards
    BY <1>4 DEF DealTo, AboutToDeal, Shuffle
  <2>4. NoCardTwice'
    BY <1>0, <1>c, <2>1, <2>2, <2>3
  <2>5. AllCards'
    BY <2>1, <2>2, <2>3
  <2> QED
    BY <2>4, <2>5
<1>5. CASE PlayerReplies
  <2>1. PICK card \in hands[playerIndex] \cup {NoCard}, wildColor \in ChosenColors :
          /\ reply' = [card |-> card, wildColor |-> wildColor]
          /\ hands' = [hands EXCEPT ![playerIndex] = @ \ {card}]
    BY <1>5 DEF PlayerReplies
  <2>2. \A p \in Players :
          hands'[p] = IF p = playerIndex THEN hands[p] \ {card} ELSE hands[p]
    BY <1>0, <2>1 DEF TableOK
  <2>3. UNCHANGED <<deck, discard, top>> /\ AllCards /\ reply.card = Awaited
    BY <1>5, <1>r DEF PlayerReplies, PlayOutstanding, Shuffle, Drawing
  <2>4. playerIndex \in Players /\ hands[playerIndex] \subseteq StartCards
    BY <1>0 DEF TableOK, CardInv, TypeOK, SeatOK
  <2>5. InFlight = {} /\ InFlight' = {card} \cap Deck108
    BY <1>c, <2>1, <2>3
  <2>6. NoCardTwice'
    BY <1>0, <1>c, <2>1, <2>2, <2>3, <2>4, <2>5
  <2>7. AllCards'
    BY <1>c, <2>1, <2>2, <2>3, <2>4, <2>5
  <2> QED
    BY <2>6, <2>7
<1>6. CASE TakePlay
  BY <1>6, <1>0, <1>c, <1>r DEF TakePlay, table, Shuffle
<1>7. CASE PlayNothing
  BY <1>7, <1>0, <1>c, <1>r DEF PlayNothing, table, Shuffle
<1>8. CASE Discard
  BY <1>8, <1>0, <1>c, <1>r DEF Discard, Shuffle, TableOK, PlayOK
<1> QED
  BY <1>1, <1>2, <1>3, <1>4, <1>5, <1>6, <1>7, <1>8

LEMMA ConservationStep ==
  ASSUME CardInv, [Next]_vars
  PROVE  Conservation'
<1>0. NoCardTwice /\ (pc \in {"Shuffle", "Failed"} \/ AllCards)
  BY DEF CardInv, Conservation, NoCardLost, AllCards
<1>1. CASE UNCHANGED <<table, reply>> /\ (AllCards \/ UNCHANGED pc \/ pc' = "Failed")
  BY <1>0, <1>1 DEF Conservation, NoCardTwice, NoCardLost, AllCards, table, TopCard, InFlight
<1>2. CASE NoCardTwice' /\ AllCards'
  BY <1>2 DEF Conservation, NoCardLost, AllCards
<1>3. CASE AllCards \/ Shuffle
  BY <1>1, <1>2, <1>3, MovesConserve, StepCases, QuietUnchanged
<1>4. CASE ~AllCards /\ ~Shuffle
  <2>1. UNCHANGED vars \/ ShuffleFails
    BY <1>0, <1>4, FailedStays
  <2>2. UNCHANGED <<table, reply>> /\ (UNCHANGED pc \/ pc' = "Failed")
    BY <2>1 DEF vars, control, ShuffleFails, Fail
  <2> QED
    BY <1>1, <2>2
<1> QED
  BY <1>3, <1>4

LEMMA CardInit == Init => CardInv
<1> SUFFICES ASSUME Init PROVE CardInv
  OBVIOUS
<1>1. TypeOK /\ TopKnown
  BY TypeInit DEF Init, TopKnown, InTurns, Drawing
<1>2. NothingDealtYet
  BY DEF Init, NothingDealtYet
<1>3. Conservation
  BY DEF Init, Conservation, NoCardTwice, NoCardLost, TopCard, InFlight, NoReply, Deck108
<1> QED
  BY <1>1, <1>2, <1>3 DEF CardInv

LEMMA CardStep ==
  ASSUME CardInv, [Next]_vars
  PROVE  CardInv'
BY TypeStep, TopKnownStep, NothingDealtYetStep, ConservationStep DEF CardInv

(* No card is lost or in two places (Conservation), however draws,         *)
(* reshuffles, one-left penalties and the answers of players interleave.   *)
THEOREM CardsConserved == Spec => []Conservation
<1>1. CardInv => Conservation
  BY DEF CardInv
<1> QED
  BY <1>1, CardInit, CardStep, PTL DEF Spec
-----------------------------------------------------------------------------
\* The turns of a hand

\* hand.play stands at one of these points, or in a draw that leads back there.
Within(points) == pc \in points \/ (pc \in Drawing /\ job.then \in points)

\* The points between the call of Player.Play and what its answer does.
Answering == {"Turn", "CallDone", "AwaitPlay", "PlayAgain", "Apply"}

\* What a draw was called for, and for whom.
JobInv ==
  /\ pc \notin Drawing \cup Terminal => job = NoJob
  /\ pc \in Drawing => job.then \in {"Deal", "FirstMove", "CallDone", "PlayAgain", "EndTurn"}
  /\ pc \in Drawing /\ job.then # "CallDone" => job.who = playerIndex
  /\ pc \in {"Draw", "DealTo"} /\ job.then = "Deal" => job.left = 1

\* An answer waits only while a turn has a use for it.
ReplyInv ==
  /\ reply # NoReply =>
       \/ pc \in Answering \cup {"Failed", "Panicked"}
       \/ pc \in Drawing /\ job.then = "CallDone"
  /\ reply # NoReply => reply.wildColor \in ChosenColors
  /\ pc = "Apply" => reply # NoReply

\* The face-up cards up to the first turn, and the top one while a challenge is on.
TopInv ==
  /\ Within({"Shuffle", "Deal"}) => top = NoCard /\ discard = {}
  /\ pc = "FirstCard" =>
       /\ top = NoCard \/ Value(top) = WildDrawFour
       /\ \A c \in discard : Value(c) = WildDrawFour
  /\ pc = "FirstColor" => Value(top) = Wild
  /\ Within({"FirstEffect", "FirstMove", "Begin"}) => Value(top) # WildDrawFour
  /\ pc = "Reveal" => Value(top) = WildDrawFour

\* Only a hand that has failed has an error.
ErrInv == pc # "Failed" => err = NoErr

\* A deck that is empty after a shuffle has no discards left.
DeckInv == pc = "DealTo" => discard = {}

\* A color is one before it counts.
ColorInv == pc # "Failed" => lastWildColor \in Colors

\* What was said last was said with the card on its way, or with the top one.
ChosenInv ==
  /\ reply.card \notin {NoCard, Awaited} =>
       chosen = [card |-> reply.card, color |-> reply.wildColor]
  /\ reply.card \in {NoCard, Awaited} /\ IsWild(top)
       /\ Within({"FirstEffect", "FirstMove", "Begin"} \cup InTurns) =>
       chosen = [card |-> top, color |-> lastWildColor]

WindowInv ==
  /\ Within({"AwaitPlay", "PlayAgain", "Apply"}) => pending = None
  /\ pc \in {"Effect", "Reveal"} => pending \in {None, playerIndex}
  /\ Within({"EndTurn"}) /\ pc \in Drawing => pending # job.who
  /\ Within({"Turn", "Effect", "Reveal", "EndTurn"}) /\ pending # None =>
       Cardinality(Owned(pending)) = 1

\* The seat that was dealt to j deals ago.
Before(j) == IF j <= playerIndex THEN playerIndex - j ELSE playerIndex - j + N

DealInv ==
  /\ Within({"Shuffle", "Deal"}) => forward
  /\ pc = "Shuffle" => toDeal = N * HandSize
  /\ Within({"Deal"}) =>
       \A j \in 0..N-1 :
         /\ j < N * HandSize - toDeal
         /\ pc \in {"Draw", "DealTo"} => j # 0
         => Owned(Before(j)) # {}

EmptyInv ==
  /\ Within((SettingUp \ {"Shuffle", "Deal"}) \cup Answering) =>
       \A p \in Players : Owned(p) # {}
  /\ pc \in {"Effect", "Reveal"} => \A p \in Players \ {playerIndex} : Owned(p) # {}
  /\ Within({"EndTurn"}) \/ pc = "Done" =>
       \A p, q \in Players : Owned(p) = {} /\ Owned(q) = {} => p = q
-----------------------------------------------------------------------------
\* Seats and cards

(* With two players at least the turn always moves to somebody else.       *)
LEMMA NextIndexIsAnother ==
  ASSUME playerIndex \in Players
  PROVE  NextIndex \in Players /\ NextIndex # playerIndex
BY NAssumption DEF NextIndex

LEMMA OwnedWithoutReply ==
  ASSUME reply = NoReply
  PROVE  \A p \in Players : Owned(p) = hands[p]
BY DEF Owned, InFlight, NoReply, Deck108

(* Where the first card turned up leads, by its value.                     *)
LEMMA TurnUpGoes ==
  ASSUME TurnUpFirstCard
  PROVE  /\ pc = "FirstCard"
         /\ pc' \in {"FirstCard", "FirstColor", "FirstEffect", "Begin", "Failed"}
         /\ pc' = "FirstCard" =>
              Value(top') = WildDrawFour /\ discard' = discard \cup TopCard
         /\ pc' = "FirstColor" => Value(top') = Wild
         /\ pc' \in {"FirstEffect", "Begin"} => ~IsWild(top')
         /\ pc' # "Failed" => err' = err
         /\ UNCHANGED <<hands, toDeal, playerIndex, forward, colors, reply,
                       pending, calls, job>>
<1>0. /\ pc = "FirstCard"
      /\ UNCHANGED <<hands, toDeal, playerIndex, forward, colors, reply,
                    pending, calls, job>>
  BY DEF TurnUpFirstCard, seat, oneLeft
<1>1. ASSUME NEW p \in Seats, Fail(p, p)
      PROVE  pc' = "Failed"
  BY <1>1 DEF Fail
<1>2. ASSUME NEW c \in deck, top' = c, Value(c) = Wild, Goto("FirstColor")
      PROVE  pc' = "FirstColor" /\ Value(top') = Wild /\ err' = err
  BY <1>2 DEF Goto
<1>3. ASSUME NEW c \in deck, top' = c, discard' = discard \cup ({top} \ {NoCard}), Value(c) # Wild,
             Send("HandStartTopCardAddedToDiscard", deck \ {c}, AfterFirst(c))
      PROVE  \/ pc' = "Failed"
             \/ /\ err' = err /\ pc' = "FirstCard" /\ Value(top') = WildDrawFour
                /\ discard' = discard \cup TopCard
             \/ err' = err /\ pc' \in {"FirstEffect", "Begin"} /\ ~IsWild(top')
  BY <1>3 DEF Send, Fail, AfterFirst, TopCard, IsWild, Wild, WildDrawFour, Skip, Reverse, DrawTwo
<1> QED
  BY <1>0, <1>1, <1>2, <1>3 DEF TurnUpFirstCard, Seats
-----------------------------------------------------------------------------
\* The control state

(* DealTo takes one card off what is left to draw.                         *)
LEMMA DealToGoesOn ==
  ASSUME TypeOK, DealTo
  PROVE  /\ pc \in {"Draw", "DealTo"} /\ pc' \in {"Draw", "Drawn"}
         /\ pc' = "Draw" => job.left # 1
         /\ job'.then = job.then /\ job'.who = job.who /\ job.who \in Players
BY DEF TypeOK, JobOK, DealTo, AboutToDeal, Goto

LEMMA JobStep ==
  ASSUME TypeOK, JobInv, [Next]_vars
  PROVE  JobInv'
<1> USE DEF JobInv, SettingUp, Drawing, InTurns, Terminal, Goto, Fail, Send, Emit, Draw,
            seat
<1>0. job \in [left : Int, who : Seats, event : EventTypes, then : PCs \cup {"none"}]
  BY DEF TypeOK, JobOK
<1>1. CASE TurnUpFirstCard
  BY <1>1, TurnUpGoes
<1>2. CASE Shuffle \/ Deal \/ TurnUpPanics \/ ChooseFirstColor \/ FirstEffect \/ BeginTurns
  BY <1>2 DEF Shuffle, Deal, TurnUpPanics, ChooseFirstColor, FirstEffect, BeginTurns
<1>3. CASE Reshuffle \/ ShuffleFails \/ DealTo \/ DealToFails \/ DealToPanics \/ Drawn
  BY <1>0, <1>3 DEF Reshuffle, ShuffleFails, DealTo, DealToFails, DealToPanics, Drawn,
                    AboutToDeal, NoJob
<1>4. CASE PlayerReplies \/ PlayFails \/ Call
  BY <1>4 DEF PlayerReplies, PlayFails, Call, CallOneLeft, control
<1>5. CASE TakeCall \/ CallDone \/ TakePlay \/ TakeSecondPlay
           \/ PlayRefused \/ PlayNothing \/ Discard
  BY <1>5 DEF TakeCall, CallDone, TakePlay, TakeSecondPlay, PlayRefused, PlayNothing,
              Discard, PenaltyFor
<1>6. CASE PlainCard \/ SkipNext \/ ReverseDirection \/ NextDrawsTwo
  BY <1>6 DEF PlainCard, SkipNext, ReverseDirection, NextDrawsTwo
<1>7. CASE AskChallenge \/ ChallengeSucceeds \/ ChallengeIsLost \/ RevealFails \/ EndTurn
  BY <1>7 DEF AskChallenge, ChallengeSucceeds, ChallengeIsLost, RevealFails, EndTurn
<1>8. CASE Finished \/ UNCHANGED vars
  BY <1>8 DEF Finished, vars, control
<1> QED
  BY <1>1, <1>2, <1>3, <1>4, <1>5, <1>6, <1>7, <1>8 DEF Next, Main

LEMMA ReplyStep ==
  ASSUME TypeOK, JobInv, ReplyInv, [Next]_vars
  PROVE  ReplyInv'
<1> USE DEF JobInv, ReplyInv, Answering, SettingUp, Drawing, InTurns, Terminal, Goto, Fail, Send, Emit, Draw,
            seat, table, oneLeft
<1>1. CASE TurnUpFirstCard
  BY <1>1, TurnUpGoes
<1>2. CASE Shuffle \/ Deal \/ TurnUpPanics \/ ChooseFirstColor \/ FirstEffect \/ BeginTurns
  BY <1>2 DEF Shuffle, Deal, TurnUpPanics, ChooseFirstColor, FirstEffect, BeginTurns
<1>3. CASE Reshuffle \/ ShuffleFails \/ DealTo \/ DealToFails \/ DealToPanics \/ Drawn
  BY <1>3, DealToGoesOn DEF Reshuffle, ShuffleFails, DealTo, DealToFails, DealToPanics, Drawn,
                    AboutToDeal
<1>4. CASE PlayerReplies
  <2>1. reply'.wildColor \in ChosenColors
    BY <1>4 DEF PlayerReplies
  <2> QED
    BY <1>4, <2>1 DEF PlayerReplies, PlayOutstanding, control
<1>9. CASE PlayFails \/ Call
  BY <1>9 DEF PlayFails, Call, CallOneLeft, control
<1>5. CASE TakeCall \/ CallDone \/ TakePlay \/ TakeSecondPlay
           \/ PlayRefused \/ PlayNothing \/ Discard
  BY <1>5 DEF TakeCall, CallDone, TakePlay, TakeSecondPlay, PlayRefused, PlayNothing,
              Discard, PenaltyFor, PlayIsValid
<1>6. CASE PlainCard \/ SkipNext \/ ReverseDirection \/ NextDrawsTwo
  BY <1>6 DEF PlainCard, SkipNext, ReverseDirection, NextDrawsTwo
<1>7. CASE AskChallenge \/ ChallengeSucceeds \/ ChallengeIsLost \/ RevealFails \/ EndTurn
  BY <1>7 DEF AskChallenge, ChallengeSucceeds, ChallengeIsLost, RevealFails, EndTurn
<1>8. CASE Finished \/ UNCHANGED vars
  BY <1>8 DEF Finished, vars, control
<1> QED
  BY <1>1, <1>2, <1>3, <1>4, <1>5, <1>6, <1>7, <1>8, <1>9 DEF Next, Main

LEMMA TopStep ==
  ASSUME TypeOK, JobInv, TopInv, [Next]_vars
  PROVE  TopInv'
<1> USE DEF JobInv, TopInv, Within, SettingUp, Drawing, InTurns, Terminal, Goto, Fail, Send, Emit, Draw,
            seat, table, oneLeft
<1>1. CASE TurnUpFirstCard
  <2>1. \A c \in TopCard : Value(c) = WildDrawFour
    BY <1>1, TurnUpGoes DEF TopCard
  <2> QED
    BY <1>1, <2>1, TurnUpGoes DEF IsWild
<1>2. CASE Shuffle \/ Deal \/ TurnUpPanics \/ ChooseFirstColor \/ FirstEffect \/ BeginTurns
  BY <1>2 DEF Shuffle, Deal, TurnUpPanics, ChooseFirstColor, FirstEffect, BeginTurns,
              Wild, WildDrawFour
<1>3. CASE Reshuffle \/ ShuffleFails \/ DealTo \/ DealToFails \/ DealToPanics \/ Drawn
  BY <1>3, DealToGoesOn DEF Recycled, Reshuffle, ShuffleFails, DealTo, DealToFails, DealToPanics, Drawn,
                    AboutToDeal
<1>4. CASE PlayerReplies \/ PlayFails \/ Call
  BY <1>4 DEF PlayerReplies, PlayFails, Call, CallOneLeft, PlayOutstanding, control
<1>5. CASE TakeCall \/ CallDone \/ TakePlay \/ TakeSecondPlay
           \/ PlayRefused \/ PlayNothing \/ Discard
  BY <1>5 DEF TakeCall, CallDone, TakePlay, TakeSecondPlay, PlayRefused, PlayNothing,
              Discard, PenaltyFor, PlayIsValid
<1>6. CASE PlainCard \/ SkipNext \/ ReverseDirection \/ NextDrawsTwo
  BY <1>6 DEF PlainCard, SkipNext, ReverseDirection, NextDrawsTwo
<1>7. CASE AskChallenge \/ ChallengeSucceeds \/ ChallengeIsLost \/ RevealFails \/ EndTurn
  BY <1>7 DEF AskChallenge, ChallengeSucceeds, ChallengeIsLost, RevealFails, EndTurn
<1>8. CASE Finished \/ UNCHANGED vars
  BY <1>8 DEF Finished, vars, control
<1> QED
  BY <1>1, <1>2, <1>3, <1>4, <1>5, <1>6, <1>7, <1>8 DEF Next, Main

LEMMA ErrStep ==
  ASSUME TypeOK, ErrInv, [Next]_vars
  PROVE  ErrInv'
<1> USE DEF ErrInv, SettingUp, Drawing, InTurns, Terminal, Goto, Fail, Send, Emit, Draw,
            seat, table, oneLeft
<1>1. CASE TurnUpFirstCard
  BY <1>1, TurnUpGoes
<1>2. CASE Shuffle \/ Deal \/ TurnUpPanics \/ ChooseFirstColor \/ FirstEffect \/ BeginTurns
  BY <1>2 DEF Shuffle, Deal, TurnUpPanics, ChooseFirstColor, FirstEffect, BeginTurns
<1>3. CASE Reshuffle \/ ShuffleFails \/ DealTo \/ DealToFails \/ DealToPanics \/ Drawn
  BY <1>3 DEF Reshuffle, ShuffleFails, DealTo, DealToFails, DealToPanics, Drawn,
                    AboutToDeal
<1>4. CASE PlayerReplies \/ PlayFails \/ Call
  BY <1>4 DEF PlayerReplies, PlayFails, Call, CallOneLeft, PlayOutstanding, control
<1>5. CASE TakeCall \/ CallDone \/ TakePlay \/ TakeSecondPlay
           \/ PlayRefused \/ PlayNothing \/ Discard
  BY <1>5 DEF TakeCall, CallDone, TakePlay, TakeSecondPlay, PlayRefused, PlayNothing,
              Discard, PenaltyFor, PlayIsValid
<1>6. CASE PlainCard \/ SkipNext \/ ReverseDirection \/ NextDrawsTwo
  BY <1>6 DEF PlainCard, SkipNext, ReverseDirection, NextDrawsTwo
<1>7. CASE AskChallenge \/ ChallengeSucceeds \/ ChallengeIsLost \/ RevealFails \/ EndTurn
  BY <1>7 DEF AskChallenge, ChallengeSucceeds, ChallengeIsLost, RevealFails, EndTurn
<1>8. CASE Finished \/ UNCHANGED vars
  BY <1>8 DEF Finished, vars, control
<1> QED
  BY <1>1, <1>2, <1>3, <1>4, <1>5, <1>6, <1>7, <1>8 DEF Next, Main

LEMMA DeckStep ==
  ASSUME TypeOK, JobInv, DeckInv, [Next]_vars
  PROVE  DeckInv'
<1> USE DEF JobInv, DeckInv, Recycled, SettingUp, Drawing, InTurns, Terminal, Goto, Fail, Send, Emit, Draw,
            seat, table, oneLeft
<1>1. CASE TurnUpFirstCard
  BY <1>1, TurnUpGoes
<1>2. CASE Shuffle \/ Deal \/ TurnUpPanics \/ ChooseFirstColor \/ FirstEffect \/ BeginTurns
  BY <1>2 DEF Shuffle, Deal, TurnUpPanics, ChooseFirstColor, FirstEffect, BeginTurns
<1>3. CASE Reshuffle \/ ShuffleFails \/ DealTo \/ DealToFails \/ DealToPanics \/ Drawn
  BY <1>3, DealToGoesOn DEF Reshuffle, ShuffleFails, DealTo, DealToFails, DealToPanics, Drawn,
                    AboutToDeal
<1>4. CASE PlayerReplies \/ PlayFails \/ Call
  BY <1>4 DEF PlayerReplies, PlayFails, Call, CallOneLeft, PlayOutstanding, control
<1>5. CASE TakeCall \/ CallDone \/ TakePlay \/ TakeSecondPlay
           \/ PlayRefused \/ PlayNothing \/ Discard
  BY <1>5 DEF TakeCall, CallDone, TakePlay, TakeSecondPlay, PlayRefused, PlayNothing,
              Discard, PenaltyFor, PlayIsValid
<1>6. CASE PlainCard \/ SkipNext \/ ReverseDirection \/ NextDrawsTwo
  BY <1>6 DEF PlainCard, SkipNext, ReverseDirection, NextDrawsTwo
<1>7. CASE AskChallenge \/ ChallengeSucceeds \/ ChallengeIsLost \/ RevealFails \/ EndTurn
  BY <1>7 DEF AskChallenge, ChallengeSucceeds, ChallengeIsLost, RevealFails, EndTurn
<1>8. CASE Finished \/ UNCHANGED vars
  BY <1>8 DEF Finished, vars, control
<1> QED
  BY <1>1, <1>2, <1>3, <1>4, <1>5, <1>6, <1>7, <1>8 DEF Next, Main

LEMMA ColorStep ==
  ASSUME TypeOK, ReplyInv, ColorInv, [Next]_vars
  PROVE  ColorInv'
<1> USE DEF ReplyInv, ColorInv, SettingUp, Drawing, InTurns, Terminal, Goto, Fail, Send, Emit, Draw,
            seat, table, oneLeft
<1>1. CASE TurnUpFirstCard
  BY <1>1, TurnUpGoes
<1>2. CASE Shuffle \/ Deal \/ TurnUpPanics \/ ChooseFirstColor \/ FirstEffect \/ BeginTurns
  BY <1>2 DEF Shuffle, Deal, TurnUpPanics, ChooseFirstColor, FirstEffect, BeginTurns
<1>3. CASE Reshuffle \/ ShuffleFails \/ DealTo \/ DealToFails \/ DealToPanics \/ Drawn
  BY <1>3 DEF Reshuffle, ShuffleFails, DealTo, DealToFails, DealToPanics, Drawn,
                    AboutToDeal
<1>4. CASE PlayerReplies \/ PlayFails \/ Call
  BY <1>4 DEF PlayerReplies, PlayFails, Call, CallOneLeft, PlayOutstanding, control
<1>5. CASE TakeCall \/ CallDone \/ TakePlay \/ TakeSecondPlay
           \/ PlayRefused \/ PlayNothing \/ Discard
  BY <1>5 DEF TakeCall, CallDone, TakePlay, TakeSecondPlay, PlayRefused, PlayNothing,
              Discard, PenaltyFor, PlayIsValid
<1>6. CASE PlainCard \/ SkipNext \/ ReverseDirection \/ NextDrawsTwo
  BY <1>6 DEF PlainCard, SkipNext, ReverseDirection, NextDrawsTwo
<1>7. CASE AskChallenge \/ ChallengeSucceeds \/ ChallengeIsLost \/ RevealFails \/ EndTurn
  BY <1>7 DEF AskChallenge, ChallengeSucceeds, ChallengeIsLost, RevealFails, EndTurn
<1>8. CASE Finished \/ UNCHANGED vars
  BY <1>8 DEF Finished, vars, control
<1> QED
  BY <1>1, <1>2, <1>3, <1>4, <1>5, <1>6, <1>7, <1>8 DEF Next, Main

LEMMA ChosenStep ==
  ASSUME TypeOK, JobInv, ReplyInv, TopInv, ChosenInv, [Next]_vars
  PROVE  ChosenInv'
<1> USE DEF ChosenInv, Within, SettingUp, Drawing, InTurns, Terminal, Goto, Fail, Send, Emit,
            Draw, seat, table, oneLeft
<1>1. CASE TurnUpFirstCard
  BY <1>1, TurnUpGoes
<1>2. CASE ChooseFirstColor
  <2>1. reply = NoReply
    BY <1>2 DEF ReplyInv, Answering, ChooseFirstColor
  <2> QED
    BY <1>2, <2>1 DEF ChooseFirstColor, NoReply
<1>3. CASE PlayerReplies
  <2>1. PICK card \in hands[playerIndex] \cup {NoCard}, wildColor \in ChosenColors :
          /\ reply' = [card |-> card, wildColor |-> wildColor]
          /\ chosen' = IF card = NoCard THEN chosen ELSE [card |-> card, color |-> wildColor]
    BY <1>3 DEF PlayerReplies
  <2>2. card = NoCard \/ card \in Deck108
    BY <2>1, CardsAssumption DEF TypeOK, TableOK, SeatOK
  <2>3. reply = NoReply /\ UNCHANGED <<pc, job, top, lastWildColor>>
    BY <1>3 DEF PlayerReplies, PlayOutstanding, control
  <2> QED
    BY <2>1, <2>2, <2>3 DEF NoReply, Deck108
<1>4. CASE Discard
  <2>1. reply.card \notin {NoCard, Awaited}
    BY <1>4 DEF Discard, PlayIsValid, Deck108
  <2> QED
    BY <1>4, <2>1 DEF Discard, NoReply
<1>5. CASE Shuffle \/ Deal \/ TurnUpPanics \/ FirstEffect \/ BeginTurns
  BY <1>5 DEF Shuffle, Deal, TurnUpPanics, FirstEffect, BeginTurns
<1>6. CASE Reshuffle \/ ShuffleFails \/ DealTo \/ DealToFails \/ DealToPanics \/ Drawn
  <2>1. CASE DealTo
    BY <2>1, DealToGoesOn DEF DealTo
  <2>2. CASE Reshuffle \/ Drawn
    BY <2>2 DEF Reshuffle, Drawn, NoJob, JobInv
  <2>3. CASE ShuffleFails \/ DealToFails \/ DealToPanics
    BY <2>3 DEF ShuffleFails, DealToFails, DealToPanics
  <2> QED
    BY <1>6, <2>1, <2>2, <2>3
<1>7. CASE PlayFails \/ Call
  BY <1>7 DEF PlayFails, Call, CallOneLeft, control
<1>8. CASE TakeCall \/ CallDone \/ TakePlay \/ TakeSecondPlay \/ PlayRefused \/ PlayNothing
  BY <1>8 DEF TakeCall, CallDone, TakePlay, TakeSecondPlay, PlayRefused, PlayNothing,
              PenaltyFor, NoReply
<1>9. CASE PlainCard \/ SkipNext \/ ReverseDirection \/ NextDrawsTwo
  BY <1>9 DEF PlainCard, SkipNext, ReverseDirection, NextDrawsTwo
<1>10. CASE AskChallenge \/ ChallengeSucceeds \/ ChallengeIsLost \/ RevealFails \/ EndTurn
  BY <1>10 DEF AskChallenge, ChallengeSucceeds, ChallengeIsLost, RevealFails, EndTurn
<1>11. CASE Finished \/ UNCHANGED vars
  BY <1>11 DEF Finished, vars, control
<1> QED
  BY <1>1, <1>2, <1>3, <1>4, <1>5, <1>6, <1>7, <1>8, <1>9, <1>10, <1>11 DEF Next, Main
-----------------------------------------------------------------------------
\* Who owns which card

(* The card DealTo takes off the deck comes to the player it is for.       *)
LEMMA DealtCard ==
  ASSUME TypeOK, DealTo
  PROVE  \E c \in deck :
           /\ deck' = deck \ {c}
           /\ \A p \in Players :
                Owned(p)' = IF p = job.who THEN Owned(p) \cup {c} ELSE Owned(p)
<1>1. PICK c \in deck :
        deck' = deck \ {c} /\ hands' = [hands EXCEPT ![job.who] = @ \cup {c}]
  BY DEF DealTo
<1>2. job.who \in Players /\ UNCHANGED <<playerIndex, reply>>
  BY DEF DealTo, seat
<1>3. \A p \in Players :
        hands'[p] = IF p = job.who THEN hands[p] \cup {c} ELSE hands[p]
  BY <1>1, <1>2 DEF TypeOK, TableOK
<1> QED
  BY <1>1, <1>2, <1>3 DEF Owned, InFlight

(* The card that is laid leaves the hand of the player on turn.            *)
LEMMA LaidCard ==
  ASSUME TypeOK, Conservation, Discard
  PROVE  /\ reply.card \in StartCards
         /\ reply.card \in Owned(playerIndex)
         /\ \A p \in Players :
              Owned(p)' = IF p = playerIndex THEN Owned(p) \ {reply.card} ELSE Owned(p)
<1>1. /\ PlayIsValid(reply) /\ reply.card # NoCard /\ reply' = NoReply
      /\ UNCHANGED <<hands, playerIndex>>
  BY DEF Discard, seat
<1>2. reply.card \in StartCards /\ reply.card \in Deck108 /\ playerIndex \in Players
  BY <1>1 DEF PlayIsValid, TypeOK, PlayOK, SeatOK, Deck108
<1>3. \A p \in Players : Owned(p)' = hands[p]
  BY <1>1 DEF Owned, InFlight, NoReply, Deck108
<1>4. InFlight = {reply.card}
  BY <1>2 DEF InFlight
<1>5. \A p \in Players : reply.card \notin hands[p]
  BY <1>4 DEF Conservation, NoCardTwice
<1> QED
  BY <1>2, <1>3, <1>4, <1>5 DEF Owned

(* Nothing else changes who owns a card: not the answer to Play, and not   *)
(* the move to the next player, as no answer waits then.                   *)
LEMMA OwnedKept ==
  ASSUME TypeOK, ReplyInv, JobInv, [Next]_vars, ~DealTo, ~Discard
  PROVE  \A p \in Players : Owned(p)' = Owned(p)
<1>1. CASE UNCHANGED <<hands, reply, playerIndex>>
  BY <1>1 DEF Owned, InFlight
<1>2. CASE UNCHANGED <<hands, reply>> /\ reply = NoReply
  BY <1>2 DEF Owned, InFlight, NoReply, Deck108
<1>3. CASE PlayerReplies
  <2>1. PICK card \in hands[playerIndex] \cup {NoCard}, wildColor \in ChosenColors :
          /\ reply' = [card |-> card, wildColor |-> wildColor]
          /\ hands' = [hands EXCEPT ![playerIndex] = @ \ {card}]
    BY <1>3 DEF PlayerReplies
  <2>2. playerIndex \in Players /\ hands[playerIndex] \subseteq Deck108
    BY CardsAssumption DEF TypeOK, SeatOK, TableOK
  <2>3. \A p \in Players :
          hands'[p] = IF p = playerIndex THEN hands[p] \ {card} ELSE hands[p]
    BY <2>1, <2>2 DEF TypeOK, TableOK
  <2>4. reply = NoReply /\ UNCHANGED playerIndex
    BY <1>3 DEF PlayerReplies, PlayOutstanding, seat
  <2>5. InFlight = {} /\ InFlight' = {card} \cap Deck108
    BY <2>1, <2>4 DEF InFlight, NoReply, Deck108
  <2>6. {card} \cap Deck108 = IF card = NoCard THEN {} ELSE {card}
    <3>1. card \in Deck108 \/ card = NoCard
      BY <2>1, <2>2
    <3>2. NoCard \notin Deck108
      BY DEF Deck108
    <3> QED
      BY <3>1, <3>2
  <2>7. card = NoCard \/ card \in hands[playerIndex]
    BY <2>1
  <2>8. NoCard \notin hands[playerIndex]
    BY <2>2 DEF Deck108
  <2> QED
    BY <2>3, <2>4, <2>5, <2>6, <2>7, <2>8 DEF Owned
<1>4. CASE TakePlay \/ PlayNothing
  <2>1. reply'.card = reply.card \/ (reply.card = NoCard /\ reply' = NoReply)
    BY <1>4 DEF TakePlay, PlayNothing
  <2>2. UNCHANGED <<hands, playerIndex>>
    BY <1>4 DEF TakePlay, PlayNothing, table, seat
  <2>3. InFlight' = InFlight
    BY <2>1 DEF InFlight, NoReply, Deck108
  <2> QED
    BY <2>2, <2>3 DEF Owned
<1>5. CASE Deal \/ BeginTurns \/ SkipNext \/ NextDrawsTwo \/ AskChallenge
           \/ ChallengeIsLost \/ EndTurn
  <2>1. UNCHANGED <<hands, reply>>
    BY <1>5 DEF Deal, BeginTurns, SkipNext, NextDrawsTwo, AskChallenge, ChallengeIsLost,
                EndTurn, table
  <2>2. reply = NoReply
    BY <1>5 DEF ReplyInv, Answering, Drawing, Deal, BeginTurns, SkipNext, NextDrawsTwo,
                AskChallenge, ChallengeIsLost, EndTurn
  <2> QED
    BY <1>2, <2>1, <2>2
<1>6. CASE TurnUpFirstCard
  BY <1>1, <1>6, TurnUpGoes
<1>7. CASE Shuffle \/ TurnUpPanics \/ ChooseFirstColor \/ FirstEffect
           \/ Reshuffle \/ ShuffleFails \/ DealToFails \/ DealToPanics \/ Drawn
           \/ PlayFails \/ Call \/ TakeCall \/ CallDone \/ TakeSecondPlay \/ PlayRefused
           \/ PlainCard \/ ReverseDirection \/ ChallengeSucceeds \/ RevealFails
           \/ Finished \/ UNCHANGED vars
  BY <1>1, <1>7
     DEF Shuffle, TurnUpPanics, ChooseFirstColor, FirstEffect, Reshuffle, ShuffleFails, DealToFails,
         DealToPanics, Drawn, PlayFails, Call, CallOneLeft, TakeCall, CallDone,
         TakeSecondPlay, PlayRefused, PlainCard, ReverseDirection, ChallengeSucceeds,
         RevealFails, Finished, vars, table, seat
<1> QED
  BY <1>3, <1>4, <1>5, <1>6, <1>7 DEF Next, Main
-----------------------------------------------------------------------------
\* The one-left window

LEMMA WindowStep ==
  ASSUME TypeOK, Conservation, ReplyInv, JobInv, WindowInv, [Next]_vars
  PROVE  WindowInv'
<1> USE DEF WindowInv, Within, JobInv, Drawing, Terminal, InTurns
<1>0. playerIndex \in Players /\ NextIndex \in Players /\ NextIndex # playerIndex
      /\ pending \in Seats
  BY NextIndexIsAnother DEF TypeOK, SeatOK, OneLeftOK
<1>1. CASE DealTo
  <2>1. UNCHANGED <<playerIndex, pending>>
    BY <1>1 DEF DealTo, seat, oneLeft
  <2>2. \A p \in Players : p # job.who => Owned(p)' = Owned(p)
    BY <1>1, DealtCard
  <2> QED
    BY <1>0, <1>1, <2>1, <2>2, DealToGoesOn DEF Seats
<1>2. CASE Discard
  <2>1. /\ pc = "Apply" /\ pc' \in {"Effect", "Failed"} /\ pending = None
        /\ UNCHANGED <<hands, playerIndex>> /\ reply' = NoReply
    BY <1>2 DEF Discard, Emit, Send, Fail, seat
  <2>2. \/ pending' = playerIndex /\ Cardinality(hands[playerIndex]) = 1
        \/ pending' = None
    BY <1>2, <2>1 DEF Discard, CardsRemaining, ResetOneLeftCallbacks, oneLeft
  <2>3. Owned(playerIndex)' = hands[playerIndex]
    BY <2>1 DEF Owned, InFlight, NoReply, Deck108
  <2> QED
    BY <1>0, <2>1, <2>2, <2>3
<1>3. ASSUME ~DealTo, ~Discard, \A p \in Players : Owned(p)' = Owned(p)
      PROVE  WindowInv'
  <2> USE DEF Goto, Fail, Send, Emit, Draw, seat, oneLeft, ResetIfPending,
              ResetOneLeftCallbacks, Seats
  <2>1. CASE TurnUpFirstCard
    BY <2>1, TurnUpGoes
  <2>2. CASE Shuffle \/ Deal \/ TurnUpPanics \/ ChooseFirstColor \/ FirstEffect \/ BeginTurns
    BY <2>2 DEF Shuffle, Deal, TurnUpPanics, ChooseFirstColor, FirstEffect, BeginTurns
  <2>3. CASE Reshuffle \/ ShuffleFails \/ DealToFails \/ DealToPanics \/ Drawn
    BY <1>0, <1>3, <2>3
       DEF Reshuffle, ShuffleFails, DealToFails, DealToPanics, Drawn, AboutToDeal
  <2>4. CASE PlayerReplies \/ PlayFails \/ Call
    BY <1>0, <1>3, <2>4 DEF PlayerReplies, PlayFails, Call, CallOneLeft, control
  <2>5. CASE TakeCall \/ CallDone \/ TakePlay \/ TakeSecondPlay
             \/ PlayRefused \/ PlayNothing
    BY <1>0, <1>3, <2>5 DEF TakeCall, CallDone, TakePlay, TakeSecondPlay, PlayRefused,
                            PlayNothing, PenaltyFor
  <2>6. CASE PlainCard \/ SkipNext \/ ReverseDirection \/ NextDrawsTwo
    BY <1>0, <1>3, <2>6 DEF PlainCard, SkipNext, ReverseDirection, NextDrawsTwo
  <2>7. CASE AskChallenge \/ ChallengeSucceeds \/ ChallengeIsLost \/ RevealFails \/ EndTurn
    BY <1>0, <1>3, <2>7 DEF AskChallenge, ChallengeSucceeds, ChallengeIsLost, RevealFails,
                            EndTurn
  <2>8. CASE Finished \/ UNCHANGED vars
    BY <1>0, <1>3, <2>8 DEF Finished, vars, control
  <2> QED
    BY <1>3, <2>1, <2>2, <2>3, <2>4, <2>5, <2>6, <2>7, <2>8 DEF Next, Main
<1> QED
  BY <1>1, <1>2, <1>3, OwnedKept

LEMMA CallStep ==
  ASSUME TypeOK, NoStaleCall, [Next]_vars
  PROVE  NoStaleCall'
<1>0. calls \in Seq(OneLeftCalls)
  BY DEF TypeOK, OneLeftOK
<1>1. CASE UNCHANGED oneLeft
  BY <1>1 DEF NoStaleCall, oneLeft
<1>2. CASE calls' = <<>>
  BY <1>2 DEF NoStaleCall
<1>3. CASE TakeCall
  <2>1. calls # <<>> /\ calls' = Tail(calls) /\ pending' = pending
    BY <1>3 DEF TakeCall
  <2>2. /\ Len(calls') = Len(calls) - 1
        /\ \A i \in 1..Len(calls') : calls'[i] = calls[i + 1]
    BY <1>0, <2>1, HeadTailProperties
  <2>3. Len(calls) \in Nat
    BY <1>0
  <2>4. \A i \in 1..Len(calls') : i + 1 \in 1..Len(calls)
    BY <2>2, <2>3
  <2> QED
    BY <2>1, <2>2, <2>4 DEF NoStaleCall
<1>4. CASE Call
  <2>1. PICK caller \in Players, target \in Players \cup {None} : CallOneLeft(caller, target)
    BY <1>4 DEF Call
  <2> DEFINE call == [caller |-> caller, target |-> target, window |-> pending]
  <2>2. calls' = Append(calls, call) /\ pending' = pending
    BY <2>1 DEF CallOneLeft
  <2>3. call \in OneLeftCalls /\ call.window = pending
    BY DEF OneLeftCalls, Seats, TypeOK, OneLeftOK
  <2> HIDE DEF call
  <2>4. /\ Len(calls') = Len(calls) + 1
        /\ \A i \in 1..Len(calls) : calls'[i] = calls[i]
        /\ calls'[Len(calls) + 1] = call
    BY <1>0, <2>2, <2>3, AppendProperties
  <2>5. \A i \in 1..Len(calls') : i \in 1..Len(calls) \/ i = Len(calls) + 1
    BY <1>0, <2>4
  <2> QED
    BY <2>2, <2>3, <2>4, <2>5 DEF NoStaleCall
<1>5. CASE BeginTurns \/ CallDone \/ TakePlay \/ Discard \/ ChallengeSucceeds
  <2>1. UNCHANGED oneLeft \/ calls' = <<>>
    BY <1>5 DEF BeginTurns, CallDone, TakePlay, Discard, ChallengeSucceeds, ResetIfPending,
                ResetOneLeftCallbacks
  <2> QED
    BY <1>1, <1>2, <2>1
<1>6. CASE Shuffle \/ Deal \/ TurnUpFirstCard \/ TurnUpPanics \/ ChooseFirstColor \/ FirstEffect
           \/ Reshuffle \/ ShuffleFails \/ DealTo \/ DealToFails \/ DealToPanics \/ Drawn
           \/ PlayerReplies \/ PlayFails \/ TakeSecondPlay \/ PlayRefused \/ PlayNothing
           \/ PlainCard \/ SkipNext \/ ReverseDirection \/ NextDrawsTwo \/ AskChallenge
           \/ ChallengeIsLost \/ RevealFails \/ EndTurn \/ Finished \/ UNCHANGED vars
  BY <1>1, <1>6
     DEF Shuffle, Deal, TurnUpFirstCard, TurnUpPanics, ChooseFirstColor, FirstEffect, Reshuffle,
         ShuffleFails, DealTo, DealToFails, DealToPanics, Drawn, PlayerReplies, PlayFails,
         TakeSecondPlay, PlayRefused, PlayNothing, PlainCard, SkipNext, ReverseDirection,
         NextDrawsTwo, AskChallenge, ChallengeIsLost, RevealFails, EndTurn, Finished, vars
<1> QED
  BY <1>3, <1>4, <1>5, <1>6 DEF Next, Main
-----------------------------------------------------------------------------
\* Nobody is left without cards

(* The deal visits the seats in order.                                     *)
LEMMA SeatsBefore ==
  ASSUME playerIndex \in Players
  PROVE  /\ Before(0) = playerIndex
         /\ \A j \in 0..N-1 : Before(j) \in Players
         /\ \A p \in Players : \E j \in 0..N-1 : p = Before(j)
         /\ forward /\ playerIndex' = NextIndex =>
              \A j \in 1..N-1 : Before(j)' = Before(j - 1)
<1>1. \A p \in Players : \E j \in 0..N-1 : p = Before(j)
  <2> TAKE p \in Players
  <2>1. CASE p <= playerIndex
    <3>1. playerIndex - p \in 0..N-1 /\ p = Before(playerIndex - p)
      BY <2>1, NAssumption DEF Before
    <3> QED
      BY <3>1
  <2>2. CASE p > playerIndex
    <3>1. playerIndex - p + N \in 0..N-1 /\ p = Before(playerIndex - p + N)
      BY <2>2, NAssumption DEF Before
    <3> QED
      BY <3>1
  <2> QED
    BY <2>1, <2>2, NAssumption
<1>2. forward /\ playerIndex' = NextIndex => \A j \in 1..N-1 : Before(j)' = Before(j - 1)
  BY NAssumption DEF Before, NextIndex
<1> QED
  BY <1>1, <1>2, NAssumption DEF Before

LEMMA CardsToDeal == N * HandSize \in Nat /\ N * HandSize >= N
BY NAssumption, HandSizeAssumption

LEMMA DealStep ==
  ASSUME TypeOK, Conservation, ReplyInv, JobInv, DealInv, [Next]_vars
  PROVE  DealInv'
<1> DEFINE K == N * HandSize
<1>k. K \in Nat /\ K >= N
  BY CardsToDeal
<1>0. playerIndex \in Players /\ toDeal \in Nat
  BY DEF TypeOK, SeatOK
<1>i. /\ Within({"Shuffle", "Deal"}) => forward
      /\ pc = "Shuffle" => toDeal = K
      /\ Within({"Deal"}) =>
           \A j \in 0..N-1 :
             j < K - toDeal /\ (pc \in {"Draw", "DealTo"} => j # 0) => Owned(Before(j)) # {}
  BY DEF DealInv
<1>g. DealInv' <=>
        /\ Within({"Shuffle", "Deal"})' => forward'
        /\ pc' = "Shuffle" => toDeal' = K
        /\ Within({"Deal"})' =>
             \A j \in 0..N-1 :
               j < K - toDeal' /\ (pc' \in {"Draw", "DealTo"} => j # 0) =>
                 Owned(Before(j))' # {}
  BY DEF DealInv
<1> HIDE DEF K
<1>1. CASE Deal
  <2>1. pc = "Deal" /\ playerIndex' = NextIndex /\ UNCHANGED forward
    BY <1>1 DEF Deal
  <2>2. CASE toDeal > 0
    <3>1. toDeal' = toDeal - 1 /\ pc' = "Draw" /\ job'.then = "Deal"
      BY <1>1, <2>2 DEF Deal, Draw, Goto
    <3>2. \A p \in Players : Owned(p)' = Owned(p)
      BY <1>1, <2>1, OwnedKept DEF DealTo, AboutToDeal, Discard
    <3>3. forward
      BY <1>i, <2>1 DEF Within
    <3>4. ASSUME NEW j \in 0..N-1, j < K - toDeal', j # 0
          PROVE  Owned(Before(j))' # {}
      <4>1. j \in 1..N-1 /\ j - 1 \in 0..N-1 /\ j - 1 < K - toDeal
        BY <1>0, <1>k, <3>1, <3>4, NAssumption
      <4>2. Before(j)' = Before(j - 1) /\ Before(j - 1) \in Players
        BY <1>0, <2>1, <3>3, <4>1, SeatsBefore
      <4>3. Owned(Before(j - 1)) # {}
        BY <1>i, <2>1, <4>1 DEF Within
      <4> QED
        BY <3>2, <4>2, <4>3
    <3> QED
      BY <1>g, <2>1, <3>1, <3>3, <3>4
  <2>3. CASE ~(toDeal > 0)
    <3>1. pc' = "FirstCard"
      BY <1>1, <2>3 DEF Deal, Goto
    <3> QED
      BY <1>g, <3>1 DEF Within, Drawing
  <2> QED
    BY <2>2, <2>3
<1>2. CASE DealTo
  <2>1. UNCHANGED <<playerIndex, toDeal, forward>>
    BY <1>2 DEF DealTo, seat
  <2>2. /\ pc \in {"Draw", "DealTo"} /\ pc' \in {"Draw", "Drawn"}
        /\ pc' = "Draw" => job.left # 1
        /\ job'.then = job.then
    BY <1>2, DealToGoesOn
  <2>3. Within({"Shuffle", "Deal"})' => Within({"Shuffle", "Deal"})
    BY <2>2 DEF Within, Drawing
  <2>4. ASSUME Within({"Deal"})', NEW j \in 0..N-1, j < K - toDeal'
        PROVE  Owned(Before(j))' # {}
    <3>1. job.then = "Deal" /\ job.who = playerIndex /\ Within({"Deal"})
      BY <2>2, <2>4 DEF Within, JobInv, Drawing
    <3>2. Before(j)' = Before(j) /\ Before(j) \in Players
      BY <1>0, <2>1, SeatsBefore DEF Before
    <3>3. CASE j = 0
      BY <1>0, <1>2, <3>1, <3>2, <3>3, SeatsBefore, DealtCard
    <3>4. CASE j # 0
      <4>1. Owned(Before(j)) # {}
        BY <1>i, <2>1, <2>4, <3>1, <3>4
      <4> QED
        BY <1>2, <3>2, <4>1, DealtCard
    <3> QED
      BY <3>3, <3>4
  <2> QED
    BY <1>g, <1>i, <2>1, <2>2, <2>3, <2>4
<1>3. CASE Discard
  BY <1>g, <1>3 DEF Discard, Emit, Send, Fail, Within, Drawing
<1>4. CASE ~Deal /\ ~DealTo /\ ~Discard
  <2>1. \/ ~Within({"Shuffle", "Deal"})'
        \/ /\ pc = "Shuffle" \/ Within({"Deal"})
           /\ pc' = "Shuffle" => pc = "Shuffle"
           /\ pc \in {"Draw", "DealTo"} => pc' \in {"Draw", "DealTo"}
           /\ UNCHANGED <<playerIndex, toDeal, forward>>
    <3> USE DEF Within, JobInv, Drawing, InTurns, Terminal, Goto, Fail, Send, Emit, Draw, seat
    <3>1. CASE TurnUpFirstCard
      BY <3>1, TurnUpGoes
    <3>2. CASE Shuffle \/ TurnUpPanics \/ ChooseFirstColor \/ FirstEffect \/ BeginTurns
      BY <3>2 DEF Shuffle, TurnUpPanics, ChooseFirstColor, FirstEffect, BeginTurns
    <3>3. CASE Reshuffle \/ ShuffleFails \/ DealToFails \/ DealToPanics \/ Drawn
      BY <3>3 DEF Reshuffle, ShuffleFails, DealToFails, DealToPanics, Drawn
    <3>4. CASE PlayerReplies \/ PlayFails \/ Call
      BY <3>4 DEF PlayerReplies, PlayFails, Call, CallOneLeft, control
    <3>5. CASE TakeCall \/ CallDone \/ TakePlay \/ TakeSecondPlay
               \/ PlayRefused \/ PlayNothing
      BY <3>5 DEF TakeCall, CallDone, TakePlay, TakeSecondPlay, PlayRefused, PlayNothing,
                  PenaltyFor
    <3>6. CASE PlainCard \/ SkipNext \/ ReverseDirection \/ NextDrawsTwo \/ AskChallenge
               \/ ChallengeSucceeds \/ ChallengeIsLost \/ RevealFails \/ EndTurn
      BY <3>6 DEF PlainCard, SkipNext, ReverseDirection, NextDrawsTwo, AskChallenge,
                  ChallengeSucceeds, ChallengeIsLost, RevealFails, EndTurn
    <3>7. CASE Finished \/ UNCHANGED vars
      BY <3>7 DEF Finished, vars, control
    <3> QED
      BY <1>4, <3>1, <3>2, <3>3, <3>4, <3>5, <3>6, <3>7 DEF Next, Main
  <2>2. \A p \in Players : Owned(p)' = Owned(p)
    BY <1>4, OwnedKept
  <2>3. Within({"Shuffle", "Deal"}) <=> pc = "Shuffle" \/ Within({"Deal"})
    BY DEF Within, JobInv, Drawing
  <2>4. Within({"Deal"})' => Within({"Shuffle", "Deal"})'
    BY DEF Within
  <2>5. pc' = "Shuffle" => Within({"Shuffle", "Deal"})'
    BY DEF Within
  <2>6. ASSUME Within({"Deal"})', NEW j \in 0..N-1, j < K - toDeal',
               pc' \in {"Draw", "DealTo"} => j # 0
        PROVE  Owned(Before(j))' # {}
    <3>1. UNCHANGED <<playerIndex, toDeal>> /\ (pc \in {"Draw", "DealTo"} => j # 0)
      BY <2>1, <2>4, <2>6
    <3>2. pc # "Shuffle"
      BY <1>0, <1>i, <1>k, <2>6, <3>1
    <3>3. Owned(Before(j)) # {}
      BY <1>i, <2>1, <2>4, <2>6, <3>1, <3>2
    <3>4. Before(j)' = Before(j) /\ Before(j) \in Players
      BY <1>0, <3>1, SeatsBefore DEF Before
    <3> QED
      BY <2>2, <3>3, <3>4
  <2> QED
    BY <1>g, <1>i, <2>1, <2>3, <2>5, <2>6
<1> QED
  BY <1>1, <1>2, <1>3, <1>4

LEMMA EmptyStep ==
  ASSUME TypeOK, Conservation, ReplyInv, JobInv, DealInv, EmptyInv, [Next]_vars
  PROVE  EmptyInv'
<1> USE DEF EmptyInv, Within, JobInv, SettingUp, Drawing, Terminal, InTurns, Answering
<1>0. playerIndex \in Players
  BY DEF TypeOK, SeatOK
<1>1. CASE DealTo
  <2>1. \A p \in Players : Owned(p) \subseteq Owned(p)'
    BY <1>1, DealtCard
  <2>2. UNCHANGED playerIndex
    BY <1>1 DEF DealTo, seat
  <2> QED
    BY <1>1, <2>1, <2>2, DealToGoesOn
<1>2. CASE Discard
  <2>1. /\ pc = "Apply" /\ pc' \in {"Effect", "Failed"} /\ UNCHANGED playerIndex
    BY <1>2 DEF Discard, Emit, Send, Fail, seat
  <2>2. \A p \in Players \ {playerIndex} : Owned(p)' = Owned(p)
    BY <1>2, LaidCard
  <2> QED
    BY <2>1, <2>2
<1>3. ASSUME ~DealTo, ~Discard, \A p \in Players : Owned(p)' = Owned(p)
      PROVE  EmptyInv'
  <2> USE DEF Goto, Fail, Send, Emit, Draw, seat
  <2>1. CASE TurnUpFirstCard
    BY <1>3, <2>1, TurnUpGoes
  <2>2. CASE Deal
    <3>1. pc = "Deal" /\ pc' \in {"Draw", "FirstCard"} /\ (pc' = "Draw" => job'.then = "Deal")
      BY <2>2 DEF Deal
    <3>2. ASSUME pc' = "FirstCard"
          PROVE  \A p \in Players : Owned(p) # {}
      <4>1. ~(toDeal > 0)
        BY <2>2, <3>2 DEF Deal
      <4>2. toDeal = 0
        BY <4>1 DEF TypeOK, SeatOK
      <4>3. \A j \in 0..N-1 : j < N * HandSize - toDeal
        BY <4>2, CardsToDeal, NAssumption
      <4>4. \A j \in 0..N-1 : Owned(Before(j)) # {}
        BY <3>1, <4>3 DEF DealInv
      <4> QED
        BY <1>0, <4>4, SeatsBefore
    <3> QED
      BY <1>3, <3>1, <3>2
  <2>3. CASE Shuffle \/ TurnUpPanics \/ ChooseFirstColor \/ FirstEffect \/ BeginTurns
    BY <1>3, <2>3 DEF Shuffle, TurnUpPanics, ChooseFirstColor, FirstEffect, BeginTurns
  <2>4. CASE Reshuffle \/ ShuffleFails \/ DealToFails \/ DealToPanics \/ Drawn
    BY <1>3, <2>4
       DEF Reshuffle, ShuffleFails, DealToFails, DealToPanics, Drawn, AboutToDeal
  <2>5. CASE PlayerReplies \/ PlayFails \/ Call
    BY <1>3, <2>5 DEF PlayerReplies, PlayFails, Call, CallOneLeft, control
  <2>6. CASE TakeCall \/ CallDone \/ TakePlay \/ TakeSecondPlay
             \/ PlayRefused \/ PlayNothing
    BY <1>3, <2>6 DEF TakeCall, CallDone, TakePlay, TakeSecondPlay, PlayRefused,
                      PlayNothing, PenaltyFor
  <2>7. CASE PlainCard \/ SkipNext \/ ReverseDirection \/ NextDrawsTwo
    BY <1>3, <2>7 DEF PlainCard, SkipNext, ReverseDirection, NextDrawsTwo
  <2>8. CASE AskChallenge \/ ChallengeSucceeds \/ ChallengeIsLost \/ RevealFails \/ EndTurn
    <3>1. CASE EndTurn
      <4>1. pc = "EndTurn" /\ pc' \in {"Turn", "Done", "Failed"}
        BY <3>1 DEF EndTurn
      <4>2. pc' = "Turn" => \A p \in Players : hands[p] # {}
        BY <3>1 DEF EndTurn, EmptyHands
      <4>3. reply = NoReply
        BY <4>1 DEF ReplyInv
      <4> QED
        BY <1>3, <4>1, <4>2, <4>3, OwnedWithoutReply
    <3>2. CASE AskChallenge \/ ChallengeSucceeds \/ ChallengeIsLost \/ RevealFails
      BY <1>3, <3>2 DEF AskChallenge, ChallengeSucceeds, ChallengeIsLost, RevealFails
    <3> QED
      BY <2>8, <3>1, <3>2
  <2>9. CASE Finished \/ UNCHANGED vars
    BY <1>3, <2>9 DEF Finished, vars, control, seat
  <2> QED
    BY <1>3, <2>1, <2>2, <2>3, <2>4, <2>5, <2>6, <2>7, <2>8, <2>9 DEF Next, Main
<1> QED
  BY <1>1, <1>2, <1>3, OwnedKept
-----------------------------------------------------------------------------
\* The inductive invariant

HandInv ==
  /\ CardInv
  /\ JobInv /\ ReplyInv /\ TopInv /\ ErrInv /\ DeckInv /\ ColorInv /\ ChosenInv
  /\ WindowInv /\ NoStaleCall /\ DealInv /\ EmptyInv

LEMMA HandInit == Init => HandInv
<1> SUFFICES ASSUME Init PROVE HandInv
  OBVIOUS
<1>1. CardInv
  BY CardInit
<1>2. JobInv /\ ReplyInv /\ TopInv /\ ErrInv /\ DeckInv /\ ColorInv /\ ChosenInv
  BY DEF Init, JobInv, ReplyInv, TopInv, ErrInv, DeckInv, ColorInv, ChosenInv,
         Within, Drawing, InTurns, Terminal, Colors, NoReply
<1>3. WindowInv /\ NoStaleCall
  BY DEF Init, WindowInv, NoStaleCall, Within, Drawing
<1>4. DealInv /\ EmptyInv
  BY DEF Init, DealInv, EmptyInv, Within, SettingUp, Answering, Drawing
<1> QED
  BY <1>1, <1>2, <1>3, <1>4 DEF HandInv

LEMMA HandStep ==
  ASSUME HandInv, [Next]_vars
  PROVE  HandInv'
<1>1. CardInv'
  BY CardStep DEF HandInv
<1>2. TypeOK /\ Conservation
  BY DEF HandInv, CardInv
<1>3. JobInv' /\ ReplyInv' /\ TopInv' /\ ErrInv' /\ DeckInv' /\ ColorInv'
        /\ ChosenInv'
  BY <1>2, JobStep, ReplyStep, TopStep, ErrStep, DeckStep, ColorStep,
     ChosenStep DEF HandInv
<1>4. WindowInv' /\ NoStaleCall' /\ DealInv' /\ EmptyInv'
  BY <1>2, WindowStep, CallStep, DealStep, EmptyStep DEF HandInv
<1> QED
  BY <1>1, <1>3, <1>4 DEF HandInv

LEMMA HandInvariant == Spec => []HandInv
BY HandInit, HandStep, PTL DEF Spec
-----------------------------------------------------------------------------
\* What a hand promises

(* A one-left window at the start of a turn is that of a player with one   *)
(* card, and it is closed before anybody's play is looked at.              *)
THEOREM WindowHolds == Spec => []WindowMeansOneLeft
<1>1. HandInv => WindowMeansOneLeft
  BY DEF HandInv, WindowInv, Within, WindowMeansOneLeft
<1> QED
  BY <1>1, HandInvariant, PTL

(* No call can be taken for a window other than the one it was made in.    *)
THEOREM NoStaleCallHolds == Spec => []NoStaleCall
<1>1. HandInv => NoStaleCall
  BY DEF HandInv
<1> QED
  BY <1>1, HandInvariant, PTL

(* No turn begins with a player out of cards, and none ends with two.      *)
THEOREM SoleWinnerHolds == Spec => []SoleWinner
<1>1. ASSUME HandInv, pc \in {"EndTurn", "Done"}
      PROVE  Cardinality(EmptyHands) <= 1
  <2>1. reply = NoReply
    BY <1>1 DEF HandInv, ReplyInv, Answering, Drawing
  <2>2. \A p \in Players : Owned(p) = hands[p]
    BY <2>1, OwnedWithoutReply
  <2>3. \A p, q \in EmptyHands : p = q
    BY <1>1, <2>2 DEF HandInv, EmptyInv, Within, EmptyHands
  <2>4. CASE EmptyHands = {}
    BY <2>4, FS_EmptySet
  <2>5. CASE EmptyHands # {}
    <3>1. PICK p \in EmptyHands : TRUE
      BY <2>5
    <3>2. EmptyHands = {p}
      BY <2>3, <3>1
    <3>3. Cardinality(EmptyHands) = 1
      BY <3>2, FS_Singleton
    <3> QED
      BY <3>3
  <2> QED
    BY <2>4, <2>5
<1>2. ASSUME HandInv, pc = "Turn"
      PROVE  \A p \in Players : Owned(p) # {}
  BY <1>2 DEF HandInv, EmptyInv, Within, Answering
<1>3. HandInv => SoleWinner
  BY <1>1, <1>2 DEF SoleWinner
<1> QED
  BY <1>3, HandInvariant, PTL

(* Whoever plays on a wild follows the color that was said with that card, *)
(* which is one of the four.                                               *)
THEOREM WildHasColorHolds == Spec => []WildHasColor
<1>1. ASSUME HandInv, PlayOutstanding, IsWild(top)
      PROVE  chosen = [card |-> top, color |-> lastWildColor] /\ lastWildColor \in Colors
  <2>1. reply.card = Awaited
    BY <1>1 DEF PlayOutstanding, NoReply
  <2>2. pc # "Failed" /\ Within(InTurns)
    BY <1>1 DEF PlayOutstanding, Within, InTurns, Drawing
  <2> QED
    BY <1>1, <2>1, <2>2 DEF HandInv, ColorInv, ChosenInv, Within
<1>2. HandInv => WildHasColor
  BY <1>1 DEF WildHasColor
<1> QED
  BY <1>2, HandInvariant, PTL

(* When the deck is empty, the players own what is not face up.            *)
LEMMA NothingToDraw ==
  ASSUME HandInv, deck = {}, pc \notin {"Shuffle", "Failed"}
  PROVE  AllBut(discard \cup {top})
<1>1. TypeOK /\ NoCardTwice /\ NoCardLost
  BY DEF HandInv, CardInv, Conservation
<1>2. InFlight \subseteq StartCards
  BY <1>1 DEF InFlight, TypeOK, PlayOK, Deck108
<1>3. ASSUME NEW p \in Players, NEW c \in Owned(p)
      PROVE  c \in StartCards \ (discard \cup {top})
  <2>1. c \in hands[p] \/ c \in InFlight
    BY <1>3 DEF Owned
  <2>2. c \in StartCards
    BY <1>1, <1>2, <2>1 DEF TypeOK, TableOK
  <2>3. c \notin discard \cup TopCard
    BY <1>1, <2>1 DEF NoCardTwice
  <2>4. c # NoCard
    BY <2>2, CardsAssumption DEF Deck108
  <2> QED
    BY <2>2, <2>3, <2>4 DEF TopCard
<1>4. ASSUME NEW c \in StartCards \ (discard \cup {top})
      PROVE  \E p \in Players : c \in Owned(p)
  <2>1. c \in InFlight \/ \E p \in Players : c \in hands[p]
    BY <1>1, <1>4 DEF NoCardLost, TopCard
  <2>2. playerIndex \in Players
    BY <1>1 DEF TypeOK, SeatOK
  <2> QED
    BY <2>1, <2>2 DEF Owned
<1> QED
  BY <1>3, <1>4 DEF AllBut

LEMMA PanicStep ==
  ASSUME HandInv, PanicExplained, [Next]_vars
  PROVE  PanicExplained'
<1> SUFFICES ASSUME pc' = "Panicked" PROVE PanicExplained'
  BY DEF PanicExplained
<1>0. TypeOK /\ TopKnown /\ JobInv /\ TopInv /\ DeckInv
  BY DEF HandInv, CardInv
<1>1. DealToPanics \/ TurnUpPanics \/ UNCHANGED vars
  <2> USE DEF Goto, Fail, Send, Emit, Draw
  <2>1. CASE TurnUpFirstCard
    BY <2>1, TurnUpGoes
  <2>2. CASE Shuffle \/ Deal \/ TurnUpPanics \/ ChooseFirstColor \/ FirstEffect \/ BeginTurns
    BY <2>2 DEF Shuffle, Deal, ChooseFirstColor, FirstEffect, BeginTurns
  <2>3. CASE Reshuffle \/ ShuffleFails \/ DealTo \/ DealToFails \/ DealToPanics \/ Drawn
    BY <1>0, <2>3, DealToGoesOn DEF JobInv, Drawing, Reshuffle, ShuffleFails, DealToFails, Drawn
  <2>4. CASE PlayerReplies \/ PlayFails \/ Call
    BY <2>4 DEF PlayerReplies, PlayOutstanding, PlayFails, Call, CallOneLeft, control,
                Drawing, InTurns
  <2>5. CASE TakeCall \/ CallDone \/ TakePlay \/ TakeSecondPlay
             \/ PlayRefused \/ PlayNothing \/ Discard
    BY <2>5 DEF TakeCall, CallDone, TakePlay, TakeSecondPlay, PlayRefused, PlayNothing,
                Discard
  <2>6. CASE PlainCard \/ SkipNext \/ ReverseDirection \/ NextDrawsTwo \/ AskChallenge
             \/ ChallengeSucceeds \/ ChallengeIsLost \/ RevealFails \/ EndTurn
    BY <2>6 DEF PlainCard, SkipNext, ReverseDirection, NextDrawsTwo, AskChallenge,
                ChallengeSucceeds, ChallengeIsLost, RevealFails, EndTurn
  <2> QED
    BY <2>1, <2>2, <2>3, <2>4, <2>5, <2>6 DEF Next, Main, Finished
<1>k. ASSUME UNCHANGED <<hands, discard, top, reply, playerIndex>>
      PROVE  /\ AllBut({top})' <=> AllBut({top})
             /\ AllBut(discard \cup {top})' <=> AllBut(discard \cup {top})
             /\ TopCard' = TopCard
  <2>1. \A p \in Players : Owned(p)' = Owned(p)
    BY <1>k DEF Owned, InFlight
  <2>2. UNION {Owned(p)' : p \in Players} = UNION {Owned(p) : p \in Players}
    BY <2>1
  <2> QED
    BY <1>k, <2>2 DEF AllBut, TopCard
<1>2. CASE UNCHANGED vars
  BY <1>2, <1>k DEF PanicExplained, vars, control, table, seat
<1>3. CASE DealToPanics
  <2>1. /\ pc \in {"Draw", "DealTo"} /\ UNCHANGED job
        /\ UNCHANGED <<hands, discard, top, reply, playerIndex>>
    BY <1>3 DEF DealToPanics, AboutToDeal, table, seat
  <2>2. job # NoJob
    BY <1>0, <2>1 DEF TypeOK, Drawing, Continuations, InTurns, NoJob
  <2>3. CASE job.who = None
    BY <2>1, <2>2, <2>3 DEF PanicExplained
  <2>4. CASE NoCardToDeal
    <3>1. deck = {} /\ (pc = "DealTo" \/ (pc = "Draw" /\ top = NoCard))
      BY <2>4
    <3>2. discard = {}
      <4>1. CASE pc = "DealTo"
        BY <1>0, <4>1 DEF DeckInv
      <4>2. CASE pc = "Draw" /\ top = NoCard
        BY <1>0, <4>2 DEF TopKnown, TopInv, Within, Drawing
      <4> QED
        BY <3>1, <4>1, <4>2
    <3>3. AllBut(discard \cup {top})
      BY <2>1, <3>1, NothingToDraw
    <3>4. AllBut({top})
      BY <3>2, <3>3 DEF AllBut
    <3> QED
      BY <1>k, <2>1, <2>2, <3>4 DEF PanicExplained
  <2> QED
    BY <1>3, <2>3, <2>4 DEF DealToPanics
<1>4. CASE TurnUpPanics
  <2>1. /\ pc = "FirstCard" /\ deck = {} /\ UNCHANGED job
        /\ UNCHANGED <<hands, discard, top, reply, playerIndex>>
    BY <1>4 DEF TurnUpPanics, table, seat
  <2>2. job = NoJob
    BY <1>0, <2>1 DEF JobInv, Drawing, Terminal
  <2>3. AllBut(discard \cup {top})
    BY <2>1, NothingToDraw
  <2>4. \A c \in discard \cup TopCard : Value(c) = WildDrawFour
    BY <1>0, <2>1 DEF TopInv, TopCard
  <2> QED
    BY <1>k, <2>1, <2>2, <2>3, <2>4 DEF PanicExplained
<1> QED
  BY <1>1, <1>2, <1>3, <1>4

(* The process dies in a draw only if the players hold every card but the  *)
(* top one, or because somebody called one left on nobody; and before it,  *)
(* only if nothing but wild draw fours is left to be turned up.            *)
THEOREM PanicExplainedHolds == Spec => []PanicExplained
<1>1. Init => PanicExplained
  BY DEF Init, PanicExplained
<1>2. HandInv /\ PanicExplained /\ [Next]_vars => PanicExplained'
  BY PanicStep
<1> QED
  BY <1>1, <1>2, HandInvariant, PTL DEF Spec

LEMMA BlameStep ==
  ASSUME HandInv, BlameIsCulpritElsewhere, [Next]_vars
  PROVE  BlameIsCulpritElsewhere'
<1>0. err = NoErr \/ pc = "Failed"
  BY DEF HandInv, ErrInv
<1>1. CASE UNCHANGED err /\ err = NoErr
  BY <1>1 DEF BlameIsCulpritElsewhere, NoErr
<1>2. CASE UNCHANGED vars
  BY <1>2 DEF BlameIsCulpritElsewhere, vars, control, table
<1>3. ASSUME NEW p, Fail(p, p)
      PROVE  BlameIsCulpritElsewhere'
  BY <1>3 DEF Fail, BlameIsCulpritElsewhere
<1>4. CASE DealToFails
  <2>1. /\ pc \in Drawing /\ UNCHANGED job
        /\ \/ \E p \in Players : Fail(p, p)
           \/ Fail(playerIndex, job.who)
    BY <1>4 DEF DealToFails, AboutToDeal, Drawing
  <2>2. job.then = "CallDone" \/ job.who = playerIndex
    BY <2>1 DEF HandInv, JobInv
  <2> QED
    BY <1>3, <2>1, <2>2 DEF Fail, BlameIsCulpritElsewhere
<1>5. CASE RevealFails
  <2>1. pc = "Reveal" /\ UNCHANGED <<top, job>>
    BY <1>5 DEF RevealFails, table
  <2>2. Value(top) = WildDrawFour /\ job = NoJob
    BY <2>1 DEF HandInv, TopInv, JobInv, Drawing, Terminal
  <2>3. Value(top)' = WildDrawFour /\ job' = NoJob
    BY <2>1, <2>2
  <2> QED
    BY <2>3 DEF BlameIsCulpritElsewhere
<1>6. CASE ~DealToFails /\ ~RevealFails /\ ~UNCHANGED vars
  <2> USE DEF Goto, Send, Emit, Draw
  <2>1. UNCHANGED err \/ \E p \in Seats : Fail(p, p)
    <3>0. /\ playerIndex \in Seats /\ NextIndex \in Seats /\ None \in Seats
          /\ Players \subseteq Seats
      BY NextIndexIsASeat DEF HandInv, CardInv, TypeOK, SeatOK, Seats
    <3>1. CASE TurnUpFirstCard
      BY <3>0, <3>1 DEF TurnUpFirstCard
    <3>2. CASE Shuffle \/ Deal \/ TurnUpPanics \/ ChooseFirstColor \/ FirstEffect \/ BeginTurns
      BY <3>0, <3>2 DEF Shuffle, Deal, TurnUpPanics, ChooseFirstColor, FirstEffect, BeginTurns
    <3>3. CASE Reshuffle \/ ShuffleFails \/ DealTo \/ DealToPanics \/ Drawn
      BY <3>0, <3>3 DEF Reshuffle, ShuffleFails, DealTo, DealToPanics, Drawn
    <3>4. CASE PlayerReplies \/ PlayFails \/ Call
      BY <3>0, <3>4 DEF PlayerReplies, PlayFails, Call, CallOneLeft, control
    <3>5. CASE TakeCall \/ CallDone \/ TakePlay \/ TakeSecondPlay
               \/ PlayRefused \/ PlayNothing \/ Discard
      BY <3>0, <3>5 DEF TakeCall, CallDone, TakePlay, TakeSecondPlay, PlayRefused,
                        PlayNothing, Discard
    <3>6. CASE PlainCard \/ SkipNext \/ ReverseDirection \/ NextDrawsTwo \/ AskChallenge
               \/ ChallengeSucceeds \/ ChallengeIsLost \/ EndTurn
      BY <3>0, <3>6 DEF PlainCard, SkipNext, ReverseDirection, NextDrawsTwo, AskChallenge,
                        ChallengeSucceeds, ChallengeIsLost, EndTurn
    <3> QED
      BY <1>6, <3>1, <3>2, <3>3, <3>4, <3>5, <3>6 DEF Next, Main, Finished
  <2>2. pc # "Failed"
    BY <1>6, FailedStays DEF Shuffle, ShuffleFails
  <2> QED
    BY <1>0, <1>1, <1>3, <2>1, <2>2
<1> QED
  BY <1>2, <1>4, <1>5, <1>6

(* The error of a hand blames whoever made it, but for a one-left penalty  *)
(* and for a challenged player that fails to show its cards.               *)
THEOREM BlameHolds == Spec => []BlameIsCulpritElsewhere
<1>1. Init => BlameIsCulpritElsewhere
  BY DEF Init, BlameIsCulpritElsewhere, NoErr
<1>2. HandInv /\ BlameIsCulpritElsewhere /\ [Next]_vars => BlameIsCulpritElsewhere'
  BY BlameStep
<1> QED
  BY <1>1, <1>2, HandInvariant, PTL DEF Spec

(***************************************************************************)
(* A hand implements CardTable: every behaviour of Hand, seen through the  *)
(* mapping of HandProperties, is one of CardTable, for every number of     *)
(* players and every deck.                                                 *)
(***************************************************************************)

\* CardTable has its own copy of the definitions of Cards.
LEMMA SameCards ==
  /\ Table!NoCard = NoCard /\ Table!Colors = Colors
  /\ Table!Wild = Wild /\ Table!WildDrawFour = WildDrawFour
  /\ \A c : Table!Value(c) = Value(c)
  /\ \A c, other, color : Table!CanPlayOn(c, other, color) = CanPlayOn(c, other, color)
<1> USE DEF Table!NoCard, Table!Colors, Colors, Table!Wild, Wild, Table!WildDrawFour,
            WildDrawFour, Table!ColorUnknown, ColorUnknown, Table!Skip, Skip,
            Table!Reverse, Reverse, Table!DrawTwo, DrawTwo
<1>1. \A c : Table!Value(c) = Value(c)
  BY DEF Table!Value, Value
<1>2. \A c : Table!Color(c) = Color(c) /\ Table!IsWild(c) = IsWild(c)
  BY <1>1 DEF Table!Color, Color, Table!IsWild, IsWild
<1>3. \A c, other, color : Table!CanPlayOn(c, other, color) = CanPlayOn(c, other, color)
  BY <1>1, <1>2 DEF Table!CanPlayOn, CanPlayOn
<1> QED
  BY <1>1, <1>3

\* The phase of CardTable a hand is in.
LEMMA PhaseNow ==
  /\ pc = "Done" => Phase = "won"
  /\ pc \in {"Failed", "Panicked"} => Phase = "failed"
  /\ Within(InTurns) => Phase = "play"
  /\ Within(SettingUp) => Phase = "setup"
BY DEF Phase, Within, InTurns, Drawing, SettingUp

LEMMA PhaseNext ==
  /\ pc' = "Done" => Phase' = "won"
  /\ pc' \in {"Failed", "Panicked"} => Phase' = "failed"
  /\ Within(InTurns)' => Phase' = "play"
  /\ Within(SettingUp)' => Phase' = "setup"
BY DEF Phase, Within, InTurns, Drawing, SettingUp

\* A hand goes from one phase to the next only where its turns begin and end;
\* any other step leaves it in its phase or fails.
LEMMA PhaseSteps ==
  ASSUME HandInv, [Next]_vars
  PROVE  \/ UNCHANGED vars
         \/ BeginTurns \/ EndTurn
         \/ Phase \in {"setup", "play"} /\ Phase' \in {Phase, "failed"}
<1> USE DEF Within, SettingUp, Drawing, InTurns, Goto, Fail, Send, Emit, Draw
<1> DEFINE Goes == \/ Within(SettingUp) /\ Within(SettingUp)'
                   \/ Within(InTurns) /\ Within(InTurns)'
                   \/ /\ Within(SettingUp) \/ Within(InTurns)
                      /\ pc' \in {"Failed", "Panicked"}
<1>0. pc \in Drawing =>
        job.then \in {"Deal", "FirstMove", "CallDone", "PlayAgain", "EndTurn"}
  BY DEF HandInv, JobInv
<1>1. UNCHANGED vars \/ BeginTurns \/ EndTurn \/ Goes
  <2>1. CASE TurnUpFirstCard
    BY <2>1, TurnUpGoes
  <2>2. CASE Shuffle \/ Deal \/ TurnUpPanics \/ ChooseFirstColor \/ FirstEffect
    BY <2>2 DEF Shuffle, Deal, TurnUpPanics, ChooseFirstColor, FirstEffect
  <2>3. CASE Reshuffle \/ ShuffleFails \/ DealToFails \/ DealToPanics \/ Drawn
    BY <1>0, <2>3
       DEF Reshuffle, ShuffleFails, DealToFails, DealToPanics, Drawn, AboutToDeal
  <2>4. CASE DealTo
    BY <1>0, <2>4, DealToGoesOn DEF HandInv, CardInv
  <2>5. CASE PlayerReplies \/ PlayFails \/ Call
    BY <1>0, <2>5 DEF PlayerReplies, PlayOutstanding, PlayFails, Call, CallOneLeft, control
  <2>6. CASE TakeCall \/ CallDone \/ TakePlay \/ TakeSecondPlay
             \/ PlayRefused \/ PlayNothing \/ Discard
    BY <2>6 DEF TakeCall, CallDone, TakePlay, TakeSecondPlay, PlayRefused, PlayNothing,
                Discard, PenaltyFor
  <2>7. CASE PlainCard \/ SkipNext \/ ReverseDirection \/ NextDrawsTwo
    BY <2>7 DEF PlainCard, SkipNext, ReverseDirection, NextDrawsTwo
  <2>8. CASE AskChallenge \/ ChallengeSucceeds \/ ChallengeIsLost \/ RevealFails
    BY <2>8 DEF AskChallenge, ChallengeSucceeds, ChallengeIsLost, RevealFails
  <2> QED
    BY <2>1, <2>2, <2>3, <2>4, <2>5, <2>6, <2>7, <2>8 DEF Next, Main, Finished
<1> HIDE DEF Within, SettingUp, Drawing, InTurns
<1>2. Goes => Phase \in {"setup", "play"} /\ Phase' \in {Phase, "failed"}
  BY PhaseNow, PhaseNext
<1> QED
  BY <1>1, <1>2

\* A step after which everybody owns what it owned leaves the cards held, and
\* what can be drawn changes with the discards only.
LEMMA HeldKept ==
  ASSUME \A p \in Players : Owned(p)' = Owned(p)
  PROVE  Held' = Held /\ (UNCHANGED <<discard, top>> => Stock' = Stock)
<1>1. Held' = Held
  BY DEF Held
<1>2. UNION {Owned(p)' : p \in Players} = UNION {Owned(p) : p \in Players}
  OBVIOUS
<1> QED
  BY <1>1, <1>2 DEF Stock, TopCard

\* The deck can be drawn from; once it is shuffled nothing else can.
LEMMA DeckIsStock ==
  ASSUME HandInv
  PROVE  /\ deck \subseteq Stock
         /\ pc \notin {"Shuffle", "Failed"} => Stock \subseteq deck
<1>0. TypeOK /\ NoCardTwice /\ NoCardLost
  BY DEF HandInv, CardInv, Conservation
<1>p. playerIndex \in Players
  BY <1>0 DEF TypeOK, SeatOK
<1>1. ASSUME NEW c \in deck
      PROVE  c \in Stock
  <2>1. c \in StartCards /\ c \notin discard \cup TopCard
    BY <1>0, <1>1 DEF TypeOK, TableOK, NoCardTwice
  <2>2. ASSUME NEW p \in Players
        PROVE  c \notin Owned(p)
    BY <1>0, <1>1, <2>2 DEF NoCardTwice, Owned
  <2> QED
    BY <2>1, <2>2 DEF Stock
<1>2. ASSUME pc \notin {"Shuffle", "Failed"}, NEW c \in Stock
      PROVE  c \in deck
  <2>1. /\ c \in StartCards /\ c \notin discard \cup TopCard
        /\ \A p \in Players : c \notin Owned(p)
    BY <1>2 DEF Stock
  <2>2. c \notin InFlight /\ \A p \in Players : c \notin hands[p]
    BY <1>p, <2>1 DEF Owned
  <2> QED
    BY <1>0, <1>2, <2>1, <2>2 DEF NoCardLost
<1> QED
  BY <1>1, <1>2

LEMMA TakeMaps ==
  ASSUME HandInv, DealTo
  PROVE  \E p \in Players, c \in StartCards : Table!Take(p, c)
<1>0. TypeOK
  BY DEF HandInv, CardInv
<1>1. PICK c \in deck :
        /\ deck' = deck \ {c}
        /\ \A p \in Players :
             Owned(p)' = IF p = job.who THEN Owned(p) \cup {c} ELSE Owned(p)
  BY <1>0, DealtCard
<1>2. /\ pc \in {"Draw", "DealTo"} /\ pc' \in {"Draw", "Drawn"}
      /\ job'.then = job.then /\ job.who \in Players
  BY <1>0, DealToGoesOn
<1>3. UNCHANGED <<discard, top, lastWildColor>>
  BY DEF DealTo
<1>4. c \in Stock /\ c \in StartCards
  BY <1>0, DeckIsStock DEF TypeOK, TableOK
<1>5. UNION {Owned(p)' : p \in Players} = (UNION {Owned(p) : p \in Players}) \cup {c}
  BY <1>1, <1>2
<1>6. Stock' = Stock \ {c}
  BY <1>3, <1>5 DEF Stock, TopCard
<1>7. Held' = [Held EXCEPT ![job.who] = @ \cup {c}]
  BY <1>1, <1>2 DEF Held
<1>8. Phase \in {"setup", "play"} /\ Phase' = Phase
  <2>1. job.then \in {"Deal", "FirstMove", "CallDone", "PlayAgain", "EndTurn"}
    BY <1>2 DEF HandInv, JobInv, Drawing
  <2> QED
    BY <1>2, <2>1, PhaseNow, PhaseNext DEF Within, SettingUp, Drawing, InTurns
<1>9. Table!Take(job.who, c)
  BY <1>3, <1>4, <1>6, <1>7, <1>8 DEF Table!Take
<1> QED
  BY <1>2, <1>4, <1>9

LEMMA LayMaps ==
  ASSUME HandInv, Discard
  PROVE  \E p \in Players, c \in StartCards, choice \in ChosenColors :
           Table!Lay(p, c, choice)
<1>0. TypeOK /\ TopKnown /\ Conservation /\ ReplyInv /\ playerIndex \in Players
  BY DEF HandInv, CardInv, TypeOK, SeatOK
<1> DEFINE c == reply.card
<1>1. /\ c \in StartCards /\ c \in Owned(playerIndex)
      /\ \A p \in Players :
           Owned(p)' = IF p = playerIndex THEN Owned(p) \ {c} ELSE Owned(p)
  BY <1>0, LaidCard
<1>2. /\ pc = "Apply" /\ PlayIsValid(reply) /\ CanPlayOn(c, top, lastWildColor)
      /\ discard' = discard \cup {top} /\ top' = c /\ lastWildColor' = reply.wildColor
      /\ pc' \in {"Effect", "Failed"}
  BY DEF Discard, Playable, Emit, Send, Fail
<1>3. reply.wildColor \in Colors /\ reply.wildColor \in ChosenColors
  BY <1>0, <1>2 DEF PlayIsValid, ReplyInv
<1>4. Held' = [Held EXCEPT ![playerIndex] = @ \ {c}]
  BY <1>0, <1>1 DEF Held
<1>5. top # NoCard /\ c # NoCard
  BY <1>0, <1>1, <1>2, CardsAssumption DEF TopKnown, InTurns, Deck108
<1>6. \A p, q \in Players : p # q => Owned(p) \cap Owned(q) = {}
  BY <1>0 DEF Conservation, NoCardTwice, Owned
<1>7. UNION {Owned(p)' : p \in Players} = (UNION {Owned(p) : p \in Players}) \ {c}
  BY <1>0, <1>1, <1>6
<1>8. Stock' = Stock
  BY <1>0, <1>1, <1>2, <1>5, <1>7 DEF Stock, TopCard
<1>9. Phase = "play" /\ Phase' \in {Phase, "failed"}
  BY <1>2, PhaseNow, PhaseNext DEF Within, InTurns
<1>10. c \in Held[playerIndex]
  BY <1>0, <1>1 DEF Held
<1>11. Table!Lay(playerIndex, c, reply.wildColor)
  BY <1>2, <1>3, <1>4, <1>8, <1>9, <1>10, SameCards DEF Table!Lay, Table!OrFails
<1> QED
  BY <1>0, <1>1, <1>3, <1>11

LEMMA TurnUpMaps ==
  ASSUME HandInv, TurnUpFirstCard, Held' = Held, \A p \in Players : Owned(p)' = Owned(p),
         Phase \in {"setup", "play"} /\ Phase' \in {Phase, "failed"}
  PROVE  (\E c \in StartCards : Table!TurnUp(c)) \/ Table!Break
<1>0. TypeOK /\ TopInv
  BY DEF HandInv, CardInv
<1>1. pc = "FirstCard" /\ lastWildColor' = lastWildColor
  BY DEF TurnUpFirstCard
<1>2. Phase = "setup" /\ (top = NoCard \/ Value(top) = WildDrawFour)
  BY <1>0, <1>1, PhaseNow DEF Within, SettingUp, TopInv
<1>3. ASSUME NEW c \in deck, deck' = deck \ {c},
             discard' = discard \cup ({top} \ {NoCard}), top' = c
      PROVE  \E card \in StartCards : Table!TurnUp(card)
  <2>1. c \in Stock /\ c \in StartCards /\ c # NoCard
    BY <1>0, <1>3, DeckIsStock, CardsAssumption DEF TypeOK, TableOK, Deck108
  <2>2. UNION {Owned(p)' : p \in Players} = UNION {Owned(p) : p \in Players}
    OBVIOUS
  <2>3. Stock' = Stock \ {c}
    BY <1>3, <2>1, <2>2 DEF Stock, TopCard
  <2>4. Table!TurnUp(c)
    BY <1>1, <1>2, <1>3, <2>1, <2>3, SameCards DEF Table!TurnUp, Table!OrFails
  <2> QED
    BY <2>1, <2>4
<1>4. ASSUME NEW p \in Players \cup {None}, Fail(p, p), UNCHANGED <<deck, discard, top>>
      PROVE  Table!Break
  <2>1. Phase' = "failed"
    BY <1>4, PhaseNext DEF Fail
  <2>2. Stock' = Stock
    BY <1>4, HeldKept
  <2> QED
    BY <1>1, <1>2, <1>4, <2>1, <2>2 DEF Table!Break
<1> QED
  BY <1>3, <1>4 DEF TurnUpFirstCard

LEMMA RecycleMaps ==
  ASSUME HandInv, Reshuffle, Held' = Held, \A p \in Players : Owned(p)' = Owned(p),
         Phase \in {"setup", "play"} /\ Phase' \in {Phase, "failed"}
  PROVE  Table!Recycle
<1>1. /\ pc = "Draw" /\ deck = {} /\ discard' = {}
      /\ UNCHANGED <<top, lastWildColor>>
  BY DEF Reshuffle
<1>2. Stock = {}
  BY <1>1, DeckIsStock
<1>3. TypeOK /\ NoCardTwice
  BY DEF HandInv, CardInv, Conservation
<1>4. UNION {Owned(p)' : p \in Players} = UNION {Owned(p) : p \in Players}
  OBVIOUS
<1>5. Stock' = StartCards \ (TopCard \cup UNION {Owned(p) : p \in Players})
  BY <1>1, <1>4 DEF Stock, TopCard
<1>6. /\ discard \subseteq StartCards /\ discard \cap TopCard = {}
      /\ \A p \in Players : discard \cap Owned(p) = {}
  BY <1>3 DEF TypeOK, TableOK, NoCardTwice, Owned
<1>7. discard \cap UNION {Owned(p) : p \in Players} = {}
  BY <1>6
<1>8. Stock' = discard
  BY <1>2, <1>5, <1>6, <1>7 DEF Stock
<1> QED
  BY <1>1, <1>2, <1>8 DEF Table!Recycle, Table!OrFails

LEMMA EndMaps ==
  ASSUME HandInv, EndTurn, Held' = Held, Stock' = Stock
  PROVE  [Table!TableNext]_(Table!tableVars)
<1>0. pc = "EndTurn" /\ UNCHANGED <<discard, top, lastWildColor>>
  BY DEF EndTurn, table
<1>1. Phase = "play"
  BY <1>0, PhaseNow DEF Within, InTurns
<1>2. CASE pc' = "Turn"
  BY <1>0, <1>1, <1>2, PhaseNext DEF Within, InTurns, Table!tableVars
<1>3. CASE pc' = "Failed"
  BY <1>0, <1>1, <1>3, PhaseNext DEF Table!Break, Table!TableNext
<1>4. CASE EmptyHands # {} /\ pc' = "Done"
  <2>1. reply = NoReply
    BY <1>0 DEF HandInv, ReplyInv, Answering, Drawing
  <2>2. \A p \in Players : Held[p] = hands[p] /\ Owned(p) = hands[p]
    BY <2>1, OwnedWithoutReply DEF Held
  <2>3. PICK p \in Players : hands[p] = {}
    BY <1>4 DEF EmptyHands
  <2>4. \A q \in Players : hands[q] = {} => q = p
    BY <1>0, <2>2, <2>3 DEF HandInv, EmptyInv, Within
  <2>5. \A q \in Players : Held[q] = {} <=> q = p
    BY <2>2, <2>3, <2>4
  <2>6. Phase' = "won"
    BY <1>4, PhaseNext
  <2> QED
    BY <1>0, <1>1, <2>3, <2>5, <2>6 DEF Table!Win, Table!TableNext
<1> QED
  BY <1>2, <1>3, <1>4 DEF EndTurn, Goto, Fail

(* Every step of a hand is a step of CardTable, or leaves its cards.       *)
LEMMA StepMaps ==
  ASSUME HandInv, HandInv', [Next]_vars
  PROVE  [Table!TableNext]_(Table!tableVars)
<1>0. TypeOK /\ ReplyInv /\ JobInv
  BY DEF HandInv, CardInv
<1>1. CASE DealTo
  BY <1>1, TakeMaps DEF Table!TableNext
<1>2. CASE Discard
  BY <1>2, LayMaps DEF Table!TableNext
<1>3. CASE ~DealTo /\ ~Discard
  <2>1. \A p \in Players : Owned(p)' = Owned(p)
    BY <1>0, <1>3, OwnedKept
  <2>2. Held' = Held /\ (UNCHANGED <<discard, top>> => Stock' = Stock)
    BY <2>1, HeldKept
  <2>3. CASE UNCHANGED vars
    <3>1. Phase' = Phase
      BY <2>3 DEF Phase, vars, control
    <3> QED
      BY <2>2, <2>3, <3>1 DEF vars, table, Table!tableVars
  <2>4. CASE BeginTurns
    <3>1. /\ pc \in {"FirstMove", "Begin"} /\ pc' = "Turn"
          /\ UNCHANGED <<discard, top, lastWildColor>>
      BY <2>4 DEF BeginTurns, Goto, table
    <3>2. Phase = "setup" /\ Phase' = "play"
      BY <3>1, PhaseNow, PhaseNext DEF Within, SettingUp, InTurns
    <3>3. top # NoCard /\ Value(top) # WildDrawFour
      BY <3>1 DEF HandInv, CardInv, TopKnown, TopInv, Within
    <3> QED
      BY <2>2, <3>1, <3>2, <3>3, SameCards DEF Table!Begin, Table!TableNext
  <2>5. CASE EndTurn
    BY <2>2, <2>5, EndMaps DEF EndTurn, table
  <2>6. CASE Phase \in {"setup", "play"} /\ Phase' \in {Phase, "failed"}
    <3>1. CASE TurnUpFirstCard
      BY <2>1, <2>2, <2>6, <3>1, TurnUpMaps DEF Table!TableNext
    <3>2. CASE Reshuffle
      BY <2>1, <2>2, <2>6, <3>2, RecycleMaps DEF Table!TableNext
    <3>3. CASE ChooseFirstColor
      <4>1. PICK color \in ChosenColors :
              /\ lastWildColor' = color
              /\ color \in Colors \/ pc' = "Failed"
        BY <3>3 DEF ChooseFirstColor, Fail
      <4>2. pc = "FirstColor" /\ UNCHANGED <<discard, top>>
        BY <3>3 DEF ChooseFirstColor, table
      <4>3. top # NoCard /\ Value(top) = Wild
        BY <4>2 DEF HandInv, CardInv, TopKnown, TopInv
      <4>4. Phase = "setup" /\ (color \in Colors \/ Phase' = "failed")
        BY <4>1, <4>2, PhaseNow, PhaseNext DEF Within, SettingUp
      <4>5. Table!ChooseColor(color)
        BY <2>2, <2>6, <4>1, <4>2, <4>3, <4>4, SameCards DEF Table!ChooseColor
      <4> QED
        BY <4>5 DEF Table!TableNext
    <3>4. CASE UNCHANGED <<discard, top, lastWildColor>>
      BY <2>2, <2>6, <3>4 DEF Table!Break, Table!TableNext, Table!tableVars
    <3>5. CASE ~TurnUpFirstCard /\ ~Reshuffle /\ ~ChooseFirstColor
      <4>1. UNCHANGED <<discard, top, lastWildColor>>
        BY <1>3, <3>5
           DEF Next, Main, Shuffle, Deal, TurnUpPanics, FirstEffect, BeginTurns, ShuffleFails,
               DealToFails, DealToPanics, Drawn, TakeCall, CallDone, TakePlay,
               TakeSecondPlay, PlayRefused, PlayNothing, PlainCard, SkipNext,
               ReverseDirection, NextDrawsTwo, AskChallenge, ChallengeSucceeds,
               ChallengeIsLost, RevealFails, EndTurn, PlayerReplies, PlayFails, Call,
               CallOneLeft, Finished, vars, table
      <4> QED
        BY <3>4, <4>1
    <3> QED
      BY <3>1, <3>2, <3>3, <3>5
  <2> QED
    BY <2>3, <2>4, <2>5, <2>6, PhaseSteps
<1> QED
  BY <1>1, <1>2, <1>3

LEMMA InitMaps == Init => Table!TableInit
<1> SUFFICES ASSUME Init PROVE Table!TableInit
  OBVIOUS
<1>1. \A p \in Players : Owned(p) = {}
  BY DEF Init, Owned, InFlight, NoReply, Deck108
<1>2. Phase = "setup"
  BY PhaseNow DEF Init, Within, SettingUp
<1>3. Stock = StartCards
  BY <1>1 DEF Init, Stock, TopCard
<1>4. Held = [p \in Players |-> {}]
  BY <1>1 DEF Held
<1> QED
  BY <1>2, <1>3, <1>4 DEF Init, Table!TableInit, Table!NoCard

(* A hand does with the cards what CardTable allows and nothing else: they *)
(* come from the stock, are laid by their owner on a face they match, and  *)
(* return only with the whole pile; the one player without cards wins.     *)
THEOREM RefinesCardTable == Spec => ImplementsCardTable
<1>1. HandInv /\ HandInv' /\ [Next]_vars => [Table!TableNext]_(Table!tableVars)
  BY StepMaps
<1> QED
  BY <1>1, InitMaps, HandInvariant, PTL DEF Spec, ImplementsCardTable, Table!TableSpec
-----------------------------------------------------------------------------
\* Smallest counterexamples

(* The deck has 108 cards.                                                 *)
LEMMA DeckIsFinite == IsFiniteSet(Deck108) /\ Cardinality(Deck108) = 108
<1>1. IsFiniteSet(0..107) /\ Cardinality(0..107) = IF 0 > 107 THEN 0 ELSE 107 - 0 + 1
  BY FS_Interval, 0 \in Int, 107 \in Int
<1> QED
  BY <1>1 DEF Deck108

(* A set of numbers that is not empty has a smallest one.                  *)
LEMMA SmallestNumber ==
  ASSUME NEW Bad \in SUBSET Nat, Bad # {}
  PROVE  \E n \in Bad : \A m \in Bad : n <= m
<1> DEFINE Less == {mn \in Nat \X Nat : mn[1] < mn[2]}
<1>1. IsWellFoundedOn(Less, Nat)
  BY NatLessThanWellFounded DEF OpToRel
<1>2. \E n \in Bad : \A m \in Bad : ~(<<m, n>> \in Less)
  <2> HIDE DEF Less
  <2> QED
    BY <1>1, WFMin
<1>3. PICK n \in Bad : \A m \in Bad : ~(<<m, n>> \in Less)
  BY <1>2
<1>4. ASSUME NEW m \in Bad
      PROVE  n <= m
  <2>1. m \in Nat /\ n \in Nat /\ ~(<<m, n>> \in Less)
    BY <1>3
  <2>2. ~(m < n)
    BY <2>1
  <2> QED
    BY <2>1, <2>2
<1> QED
  BY <1>4

(* Of some sets of cards one has none of the others in it.                 *)
LEMMA SmallestSet ==
  ASSUME NEW Bad, Bad \subseteq SUBSET Deck108, Bad # {}
  PROVE  \E s \in Bad : \A t \in Bad : t \subseteq s => t = s
<1>1. FiniteSubsetsOf(Deck108) = SUBSET Deck108
  BY DeckIsFinite, FS_FiniteSubsetsOfFinite
<1>2. \E s \in Bad : \A t \in Bad : ~(<<t, s>> \in StrictSubsetOrdering(Deck108))
  BY <1>1, FS_StrictSubsetOrderingWellFounded, WFMin
<1>3. \A s, t \in SUBSET Deck108 :
         <<t, s>> \in StrictSubsetOrdering(Deck108) <=> t \subseteq s /\ t # s
  BY DEF StrictSubsetOrdering
<1> QED
  BY <1>2, <1>3
-----------------------------------------------------------------------------
\* Sums of scores

\* What a fold makes of a set, given the function g it has made of smaller sets.
Total(g, s) ==
  IF s = {} THEN 0 ELSE LET x == CHOOSE x \in s : TRUE IN Score(x) + g[s \ {x}]

(* The library's sum is that fold, over the subsets of the set.            *)
LEMMA SumIsTotal ==
  ASSUME NEW S
  PROVE  MapThenSumSet(Score, S) = (CHOOSE g : g = [s \in SUBSET S |-> Total(g, s)])[S]
BY DEF MapThenSumSet, MapThenFoldSet, Total

(* Every card scores something.                                            *)
LEMMA ScoresAreNumbers == \A card \in Deck108 : Score(card) \in Nat
BY DEF Deck108, Score, IsWild, Value, Skip, Reverse, DrawTwo, Wild, WildDrawFour

\* g is what the fold makes of each subset of U.
Totals(g, U) == \A s \in SUBSET U : g[s] = Total(g, s)

(* The recursion of the fold has a solution: sets of n+1 cards are added   *)
(* to a solution for the sets of up to n.                                  *)
LEMMA TotalsExist == \E g \in [SUBSET Deck108 -> Nat] : Totals(g, Deck108)
<1> DEFINE Upto(g, n) == \A s \in SUBSET Deck108 : Cardinality(s) <= n => g[s] = Total(g, s)
           Bad == {n \in Nat : ~ \E g \in [SUBSET Deck108 -> Nat] : Upto(g, n)}
<1>0. \A s \in SUBSET Deck108 : IsFiniteSet(s) /\ Cardinality(s) \in Nat
  BY DeckIsFinite, FS_Subset, FS_CardinalityType
<1>1. ASSUME NEW s \in SUBSET Deck108, s # {}
      PROVE  LET x == CHOOSE x \in s : TRUE
             IN  x \in s /\ s \ {x} \in SUBSET Deck108 /\ Cardinality(s \ {x}) = Cardinality(s) - 1
  BY <1>0, <1>1, FS_RemoveElement
<1>2. 0 \notin Bad
  <2>1. \A s \in SUBSET Deck108 : Cardinality(s) <= 0 => s = {}
    BY <1>0, FS_EmptySet
  <2>2. Upto([s \in SUBSET Deck108 |-> 0], 0)
    BY <2>1 DEF Total
  <2> QED
    BY <2>2
<1>3. ASSUME NEW n \in Nat, n \notin Bad
      PROVE  n + 1 \notin Bad
  <2>1. PICK g \in [SUBSET Deck108 -> Nat] : Upto(g, n)
    BY <1>3
  <2>2. ASSUME NEW s \in SUBSET Deck108, s # {}
        PROVE  Total(g, s) \in Nat
    <3> DEFINE x == CHOOSE x \in s : TRUE
    <3>1. x \in s /\ s \ {x} \in SUBSET Deck108
      BY <2>2
    <3>2. g[s \ {x}] \in Nat /\ Score(x) \in Nat
      BY <3>1, ScoresAreNumbers
    <3>3. Total(g, s) = Score(x) + g[s \ {x}]
      BY <2>2 DEF Total
    <3> QED
      BY <3>2, <3>3
  <2>3. \A s \in SUBSET Deck108 : Total(g, s) \in Nat
    BY <2>2 DEF Total
  <2> DEFINE h == [s \in SUBSET Deck108 |-> IF Cardinality(s) <= n THEN g[s] ELSE
                     IF Cardinality(s) = n + 1 THEN Total(g, s) ELSE 0]
  <2>4. ASSUME NEW s \in SUBSET Deck108, Cardinality(s) <= n + 1
        PROVE  Total(h, s) = Total(g, s)
    <3>1. CASE s = {}
      BY <3>1 DEF Total
    <3>2. CASE s # {}
      <4> DEFINE x == CHOOSE x \in s : TRUE
      <4>1. x \in s /\ s \ {x} \in SUBSET Deck108 /\ Cardinality(s \ {x}) <= n
        BY <3>2, <1>1, <2>4, <1>0
      <4>2. h[s \ {x}] = g[s \ {x}]
        BY <4>1
      <4>3. Total(g, s) = Score(x) + g[s \ {x}] /\ Total(h, s) = Score(x) + h[s \ {x}]
        BY <3>2 DEF Total
      <4> HIDE DEF x, h
      <4> QED
        BY <4>2, <4>3
    <3> QED
      BY <3>1, <3>2
  <2>5. h \in [SUBSET Deck108 -> Nat]
    BY <2>3
  <2>6. Upto(h, n + 1)
    <3> SUFFICES ASSUME NEW s \in SUBSET Deck108, Cardinality(s) <= n + 1
                 PROVE  h[s] = Total(h, s)
      OBVIOUS
    <3>1. h[s] = Total(g, s)
      BY <2>1, <1>0
    <3> QED
      BY <3>1, <2>4
  <2> QED
    <3> HIDE DEF h
    <3> QED
      BY <2>5, <2>6
<1>4. Bad = {}
  <2> HIDE DEF Bad
  <2> SUFFICES ASSUME Bad # {} PROVE FALSE
    OBVIOUS
  <2>0. Bad \in SUBSET Nat
    BY DEF Bad
  <2>1. PICK n \in Bad : \A m \in Bad : n <= m
    BY <2>0, SmallestNumber
  <2>2. n \in Nat /\ n # 0 /\ n - 1 \in Nat /\ n - 1 \notin Bad
    BY <2>0, <2>1, <1>2
  <2>3. (n - 1) + 1 \notin Bad
    BY <2>2, <1>3
  <2> QED
    BY <2>1, <2>2, <2>3
<1>5. PICK g \in [SUBSET Deck108 -> Nat] : Upto(g, 108)
  BY <1>4
<1>6. \A s \in SUBSET Deck108 : Cardinality(s) <= 108
  BY DeckIsFinite, FS_Subset
<1> QED
  BY <1>5, <1>6 DEF Totals

(* Whatever solves the recursion of the fold over the subsets of S is the  *)
(* function g on them.                                                     *)
LEMMA SumIsThat ==
  ASSUME NEW g \in [SUBSET Deck108 -> Nat], Totals(g, Deck108), NEW S \in SUBSET Deck108
  PROVE  MapThenSumSet(Score, S) = g[S]
<1> DEFINE part == [s \in SUBSET S |-> g[s]]
           Sol(h) == h = [s \in SUBSET S |-> Total(h, s)]
<1>1. ASSUME NEW s \in SUBSET Deck108, s # {}
      PROVE  LET x == CHOOSE x \in s : TRUE
             IN  x \in s /\ s \ {x} \subseteq s /\ s \ {x} # s
  BY <1>1
<1>2. Sol(part)
  <2>1. ASSUME NEW s \in SUBSET S
        PROVE  Total(part, s) = g[s]
    <3>1. CASE s = {}
      BY <3>1 DEF Totals, Total
    <3>2. CASE s # {}
      <4> DEFINE x == CHOOSE x \in s : TRUE
      <4>1. s \ {x} \in SUBSET S /\ s \in SUBSET Deck108
        BY <3>2
      <4>2. part[s \ {x}] = g[s \ {x}]
        BY <4>1
      <4>3. g[s] = Score(x) + g[s \ {x}] /\ Total(part, s) = Score(x) + part[s \ {x}]
        BY <3>2, <4>1 DEF Totals, Total
      <4> HIDE DEF x, part
      <4> QED
        BY <4>2, <4>3
    <3> QED
      BY <3>1, <3>2
  <2> QED
    BY <2>1
<1> DEFINE h == CHOOSE f : Sol(f)
<1>3. Sol(h)
  <2> HIDE DEF Sol
  <2> QED
    BY <1>2
<1>4. MapThenSumSet(Score, S) = h[S]
  BY SumIsTotal
<1>5. \A s \in SUBSET S : h[s] = Total(h, s)
  <2> HIDE DEF h
  <2> QED
    BY <1>3
<1>6. \A s \in SUBSET S : h[s] = g[s]
  <2> HIDE DEF h
  <2> DEFINE Bad == {s \in SUBSET S : h[s] # g[s]}
  <2> SUFFICES ASSUME Bad # {} PROVE FALSE
    OBVIOUS
  <2>0. Bad \subseteq SUBSET Deck108
    OBVIOUS
  <2>1. PICK s \in Bad : \A t \in Bad : t \subseteq s => t = s
    <3> HIDE DEF Bad
    <3> QED
      BY <2>0, SmallestSet
  <2>2. CASE s = {}
    BY <2>2, <1>5 DEF Totals, Total
  <2>3. CASE s # {}
    <3> DEFINE x == CHOOSE x \in s : TRUE
    <3>1. s \in SUBSET S /\ s \in SUBSET Deck108 /\ h[s] # g[s]
      OBVIOUS
    <3>2. s \ {x} \subseteq s /\ s \ {x} # s /\ s \ {x} \in SUBSET S
      BY <2>3, <3>1
    <3>3. h[s \ {x}] = g[s \ {x}]
      BY <2>1, <3>2
    <3>4. g[s] = Score(x) + g[s \ {x}] /\ h[s] = Score(x) + h[s \ {x}]
      BY <2>3, <3>1, <1>5 DEF Totals, Total
    <3> HIDE DEF x
    <3> QED
      BY <3>1, <3>3, <3>4
  <2> QED
    BY <2>2, <2>3
<1> QED
  <2> HIDE DEF h
  <2> QED
    BY <1>4, <1>6

(* The score of a set of cards is that of any one of them and of the rest. *)
LEMMA AnyCardFirst ==
  ASSUME NEW g \in [SUBSET Deck108 -> Nat], Totals(g, Deck108)
  PROVE  \A s \in SUBSET Deck108 : \A x \in s : g[s] = Score(x) + g[s \ {x}]
<1> DEFINE Bad == {s \in SUBSET Deck108 : \E x \in s : g[s] # Score(x) + g[s \ {x}]}
<1> SUFFICES ASSUME Bad # {} PROVE FALSE
  OBVIOUS
<1>0. Bad \subseteq SUBSET Deck108
  OBVIOUS
<1>1. PICK s \in Bad : \A t \in Bad : t \subseteq s => t = s
  <2> HIDE DEF Bad
  <2> QED
    BY <1>0, SmallestSet
<1>2. PICK x \in s : g[s] # Score(x) + g[s \ {x}]
  OBVIOUS
<1> DEFINE c == CHOOSE y \in s : TRUE
<1>3. c \in s /\ s \in SUBSET Deck108 /\ g[s] = Score(c) + g[s \ {c}]
  BY <1>0, <1>2 DEF Totals, Total
<1> HIDE DEF c
<1>4. c # x
  BY <1>2, <1>3
<1>5. s \ {c} \notin Bad /\ s \ {x} \notin Bad
  <2> HIDE DEF Bad
  <2> QED
    BY <1>1, <1>2, <1>3
<1>6. g[s \ {c}] = Score(x) + g[(s \ {c}) \ {x}] /\ g[s \ {x}] = Score(c) + g[(s \ {x}) \ {c}]
  BY <1>3, <1>4, <1>5
<1>7. (s \ {c}) \ {x} = (s \ {x}) \ {c} /\ (s \ {x}) \ {c} \in SUBSET Deck108
  BY <1>3
<1>8. Score(x) \in Nat /\ Score(c) \in Nat /\ g[(s \ {x}) \ {c}] \in Nat
  BY <1>3, <1>7, ScoresAreNumbers
<1>9. g[s \ {c}] = Score(x) + g[(s \ {x}) \ {c}]
  BY <1>6, <1>7
<1>10. ASSUME NEW a \in Nat, NEW b \in Nat, NEW r \in Nat
       PROVE  a + (b + r) = b + (a + r)
  OBVIOUS
<1>11. Score(c) + (Score(x) + g[(s \ {x}) \ {c}]) = Score(x) + (Score(c) + g[(s \ {x}) \ {c}])
  BY <1>8, <1>10
<1> HIDE DEF Bad
<1> QED
  BY <1>2, <1>3, <1>6, <1>9, <1>11

(* Two sets of cards without a common card score together what they score  *)
(* one by one.                                                             *)
LEMMA ScoresAdd ==
  ASSUME NEW A \in SUBSET Deck108, NEW B \in SUBSET Deck108, A \cap B = {}
  PROVE  /\ MapThenSumSet(Score, A) \in Nat /\ MapThenSumSet(Score, B) \in Nat
         /\ MapThenSumSet(Score, A \cup B) = MapThenSumSet(Score, A) + MapThenSumSet(Score, B)
<1>1. PICK g \in [SUBSET Deck108 -> Nat] : Totals(g, Deck108)
  BY TotalsExist
<1>2. /\ MapThenSumSet(Score, A) = g[A] /\ MapThenSumSet(Score, B) = g[B]
      /\ MapThenSumSet(Score, A \cup B) = g[A \cup B]
  <2>1. A \cup B \in SUBSET Deck108
    OBVIOUS
  <2> QED
    BY <1>1, <2>1, SumIsThat
<1> DEFINE Bad == {s \in SUBSET Deck108 : s \cap B = {} /\ g[s \cup B] # g[s] + g[B]}
<1>3. Bad = {}
  <2> SUFFICES ASSUME Bad # {} PROVE FALSE
    OBVIOUS
  <2>0. Bad \subseteq SUBSET Deck108
    OBVIOUS
  <2>1. PICK s \in Bad : \A t \in Bad : t \subseteq s => t = s
    <3> HIDE DEF Bad
    <3> QED
      BY <2>0, SmallestSet
  <2>2. s \in SUBSET Deck108 /\ s \cap B = {} /\ g[s \cup B] # g[s] + g[B]
    OBVIOUS
  <2>3. CASE s = {}
    <3>1. g[s] = 0 /\ s \cup B = B /\ g[B] \in Nat
      BY <1>1, <2>2, <2>3 DEF Totals, Total
    <3>2. ASSUME NEW b \in Nat
          PROVE  0 + b = b
      OBVIOUS
    <3>3. g[s] + g[B] = g[B]
      BY <3>1, <3>2
    <3> QED
      BY <2>2, <3>1, <3>3
  <2>4. CASE s # {}
    <3>1. PICK x \in s : TRUE
      BY <2>4
    <3>2. s \ {x} \notin Bad
      <4> HIDE DEF Bad
      <4> QED
        BY <2>1, <3>1
    <3>3. s \ {x} \in SUBSET Deck108 /\ (s \ {x}) \cap B = {} /\ s \cup B \in SUBSET Deck108
      BY <2>2
    <3>4. g[(s \ {x}) \cup B] = g[s \ {x}] + g[B]
      BY <3>2, <3>3
    <3>5. \A t \in SUBSET Deck108 : x \in t => g[t] = Score(x) + g[t \ {x}]
      BY <1>1, AnyCardFirst
    <3>6. g[s] = Score(x) + g[s \ {x}] /\ g[s \cup B] = Score(x) + g[(s \cup B) \ {x}]
      BY <2>2, <3>1, <3>3, <3>5
    <3>8. (s \cup B) \ {x} = (s \ {x}) \cup B
      BY <2>2, <3>1
    <3>9. g[s \cup B] = Score(x) + (g[s \ {x}] + g[B])
      BY <3>4, <3>6, <3>8
    <3>7. Score(x) \in Nat /\ g[s \ {x}] \in Nat /\ g[B] \in Nat
      BY <2>2, <3>1, <3>3, ScoresAreNumbers
    <3>10. ASSUME NEW a \in Nat, NEW b \in Nat, NEW r \in Nat
           PROVE  a + (b + r) = (a + b) + r
      OBVIOUS
    <3> HIDE DEF Bad
    <3>11. g[s \cup B] = (Score(x) + g[s \ {x}]) + g[B]
      BY <3>7, <3>9, <3>10
    <3> QED
      BY <2>2, <3>6, <3>11
  <2> QED
    BY <2>3, <2>4
<1>4. g[A \cup B] = g[A] + g[B]
  BY <1>3
<1> QED
  BY <1>2, <1>4
-----------------------------------------------------------------------------
\* The score of a hand

DoneHasTop == pc = "Done" => top \in Deck108

(* A hand is only over after a turn, and a turn has a card to match.       *)
LEMMA DoneStep ==
  ASSUME HandInv, DoneHasTop, [Next]_vars
  PROVE  DoneHasTop'
<1> USE DEF JobInv, SettingUp, Drawing, InTurns, Terminal, Goto, Fail, Send, Emit, Draw,
            seat, table, oneLeft
<1>0. TypeOK /\ JobInv /\ TopKnown
  BY DEF HandInv, CardInv
<1>1. pc' = "Done" => pc \in {"Done", "EndTurn"} /\ UNCHANGED top
  <2>1. CASE TurnUpFirstCard
    BY <2>1, TurnUpGoes
  <2>2. CASE Shuffle \/ Deal \/ TurnUpPanics \/ ChooseFirstColor \/ FirstEffect \/ BeginTurns
    BY <2>2 DEF Shuffle, Deal, TurnUpPanics, ChooseFirstColor, FirstEffect, BeginTurns
  <2>3. CASE Reshuffle \/ ShuffleFails \/ DealTo \/ DealToFails \/ DealToPanics \/ Drawn
    BY <1>0, <2>3, DealToGoesOn DEF Reshuffle, ShuffleFails, DealTo, DealToFails, DealToPanics,
                                    Drawn, AboutToDeal
  <2>4. CASE PlayerReplies \/ PlayFails \/ Call
    BY <2>4 DEF PlayerReplies, PlayFails, Call, CallOneLeft, PlayOutstanding, control
  <2>5. CASE TakeCall \/ CallDone \/ TakePlay \/ TakeSecondPlay
             \/ PlayRefused \/ PlayNothing \/ Discard
    BY <2>5 DEF TakeCall, CallDone, TakePlay, TakeSecondPlay, PlayRefused, PlayNothing,
                Discard, PenaltyFor
  <2>6. CASE PlainCard \/ SkipNext \/ ReverseDirection \/ NextDrawsTwo
    BY <2>6 DEF PlainCard, SkipNext, ReverseDirection, NextDrawsTwo
  <2>7. CASE AskChallenge \/ ChallengeSucceeds \/ ChallengeIsLost \/ RevealFails \/ EndTurn
    BY <2>7 DEF AskChallenge, ChallengeSucceeds, ChallengeIsLost, RevealFails, EndTurn
  <2>8. CASE Finished \/ UNCHANGED vars
    BY <2>8 DEF Finished, vars, control
  <2> QED
    BY <2>1, <2>2, <2>3, <2>4, <2>5, <2>6, <2>7, <2>8 DEF Next, Main
<1>2. pc = "EndTurn" => top \in Deck108
  BY <1>0, CardsAssumption DEF TypeOK, TableOK, TopKnown
<1> QED
  BY <1>1, <1>2 DEF DoneHasTop

(* The winner scores every card of the deck the hand began with, but those *)
(* that are in the deck, among the discards or on top at its end.          *)
THEOREM ScoreIsTheRestHolds == Spec => []ScoreIsTheRest
<1>1. Init => DoneHasTop
  BY DEF Init, DoneHasTop
<1>2. HandInv /\ DoneHasTop /\ [Next]_vars => DoneHasTop'
  BY DoneStep
<1>3. HandInv /\ DoneHasTop => ScoreIsTheRest
  <2> SUFFICES ASSUME HandInv, DoneHasTop, pc = "Done"
               PROVE  HandScore = MapThenSumSet(Score, StartCards)
                        - MapThenSumSet(Score, deck \cup discard \cup {top})
    BY DEF ScoreIsTheRest
  <2> DEFINE held == UNION {hands[p] : p \in Players}
             rest == deck \cup discard \cup {top}
  <2>1. TypeOK /\ NoCardTwice /\ NoCardLost /\ top \in Deck108
    BY DEF HandInv, CardInv, Conservation, DoneHasTop
  <2>2. InFlight = {}
    BY DEF HandInv, ReplyInv, Answering, Drawing, InFlight, NoReply, Deck108
  <2>3. TopCard = {top}
    BY <2>1 DEF TopCard, Deck108, NoCard
  <2>4. held \cap rest = {}
    BY <2>1, <2>3 DEF NoCardTwice
  <2>5. held \cup rest = StartCards
    <3>1. /\ deck \cup discard \subseteq StartCards /\ top \in StartCards
          /\ \A p \in Players : hands[p] \subseteq StartCards
      BY <2>1, <2>3 DEF TypeOK, TableOK, TopCard
    <3>2. \A c \in StartCards : c \in deck \cup discard \cup {top} \/ \E p \in Players : c \in hands[p]
      BY <2>1, <2>2, <2>3 DEF NoCardLost
    <3> QED
      BY <3>1, <3>2
  <2>6. held \in SUBSET Deck108 /\ rest \in SUBSET Deck108
    BY <2>5, CardsAssumption
  <2> HIDE DEF held, rest
  <2>7. /\ MapThenSumSet(Score, held) \in Nat /\ MapThenSumSet(Score, rest) \in Nat
        /\ MapThenSumSet(Score, StartCards)
             = MapThenSumSet(Score, held) + MapThenSumSet(Score, rest)
    BY <2>4, <2>5, <2>6, ScoresAdd
  <2>8. MapThenSumSet(Score, held) = MapThenSumSet(Score, StartCards) - MapThenSumSet(Score, rest)
    <3>1. ASSUME NEW a \in Nat, NEW b \in Nat, NEW s, s = a + b
          PROVE  a = s - b
      BY <3>1
    <3> QED
      BY <2>7, <3>1
  <2>9. HandScore = MapThenSumSet(Score, held)
    BY DEF HandScore, held
  <2> QED
    BY <2>8, <2>9 DEF rest
<1> QED
  BY <1>1, <1>2, <1>3, HandInvariant, PTL DEF Spec
-----------------------------------------------------------------------------
\* The cards

\* How many cards there are of a face

(* Two things are two.                                                     *)
LEMMA Pairs ==
  ASSUME NEW a, NEW b, a # b
  PROVE  Cardinality({a, b}) = 2
<1>1. IsFiniteSet({a}) /\ Cardinality({a}) = 1
  BY FS_Singleton
<1>2. Cardinality({a} \cup {b}) = 2
  BY <1>1, FS_AddElement
<1>3. {a, b} = {a} \cup {b}
  OBVIOUS
<1> QED
  BY <1>2, <1>3

(* How long a run of numbers is.                                           *)
LEMMA Runs ==
  ASSUME NEW a \in Nat, NEW n \in Nat
  PROVE  Cardinality(a..(a + n)) = n + 1
<1>1. Cardinality(a..(a + n)) = IF a > a + n THEN 0 ELSE (a + n) - a + 1
  BY FS_Interval, a \in Int, a + n \in Int
<1> QED
  BY <1>1

Same(card) == {d \in Deck108 : Color(d) = Color(card) /\ Value(d) = Value(card)}

(* Where the other cards of a face are.                                    *)
LEMMA SameCards108 ==
  ASSUME NEW card \in Deck108
  PROVE  LET at == card % 25
         IN  /\ Value(card) = Wild => Same(card) = 100..103
             /\ Value(card) = WildDrawFour => Same(card) = 104..107
             /\ Value(card) = 0 => Same(card) = {card}
             /\ ~IsWild(card) /\ at \in 1..9 => Same(card) = {card, card + 9}
             /\ ~IsWild(card) /\ at \in 10..18 => Same(card) = {card, card - 9}
             /\ ~IsWild(card) /\ at \in {19, 21, 23} => Same(card) = {card, card + 1}
             /\ ~IsWild(card) /\ at \in {20, 22, 24} => Same(card) = {card, card - 1}
<1> USE DEF Same, Deck108, IsWild, Color, Value, ColorUnknown, Skip, Reverse, DrawTwo,
            Wild, WildDrawFour
<1>1. Value(card) = Wild => Same(card) = 100..103
  OBVIOUS
<1>2. Value(card) = WildDrawFour => Same(card) = 104..107
  OBVIOUS
<1>3. Value(card) = 0 => Same(card) = {card}
  OBVIOUS
<1>4. ~IsWild(card) /\ card % 25 \in 1..9 => Same(card) = {card, card + 9}
  OBVIOUS
<1>5. ~IsWild(card) /\ card % 25 \in 10..18 => Same(card) = {card, card - 9}
  OBVIOUS
<1>6. ~IsWild(card) /\ card % 25 \in {19, 21, 23} => Same(card) = {card, card + 1}
  OBVIOUS
<1>7. ~IsWild(card) /\ card % 25 \in {20, 22, 24} => Same(card) = {card, card - 1}
  OBVIOUS
<1> QED
  BY <1>1, <1>2, <1>3, <1>4, <1>5, <1>6, <1>7

(* The six actions of a color are the last six of its cards.               *)
LEMMA ActionCards ==
  ASSUME NEW card \in Deck108, ~IsWild(card)
  PROVE  {d \in Deck108 : Color(d) = Color(card) /\ Score(d) = 20}
            = (25 * Color(card) + 19)..((25 * Color(card) + 19) + 5)
BY DEF Deck108, IsWild, Color, Value, ColorUnknown, Skip, Reverse, DrawTwo,
            Wild, WildDrawFour, Score

(* Of each face there are as many cards as the comment of card.go says,    *)
(* the score is the score of the face, and six cards of each color are     *)
(* actions.                                                                *)
THEOREM NumbersAreFacesHolds == Spec => []NumbersAreFaces
<1>1. ASSUME NEW card \in Deck108
      PROVE  Cardinality(Same(card)) =
               CASE IsWild(card)    -> 4
                 [] Value(card) = 0 -> 1
                 [] OTHER           -> 2
  <2>1. CASE IsWild(card)
    <3>1. Cardinality(100..103) = 4 /\ Cardinality(104..107) = 4
      <4>1. Cardinality(100..(100 + 3)) = 3 + 1 /\ Cardinality(104..(104 + 3)) = 3 + 1
        BY Runs, 100 \in Nat, 104 \in Nat, 3 \in Nat
      <4>2. 100 + 3 = 103 /\ 104 + 3 = 107 /\ 3 + 1 = 4
        OBVIOUS
      <4> QED
        BY <4>1, <4>2
    <3>2. Same(card) \in {100..103, 104..107}
      BY <2>1, SameCards108 DEF IsWild
    <3>3. Cardinality(Same(card)) = 4
      BY <3>1, <3>2
    <3>4. Value(card) # 0
      BY <2>1 DEF IsWild, Wild, WildDrawFour
    <3> HIDE DEF IsWild
    <3> QED
      BY <2>1, <3>3, <3>4, Zenon
  <2>2. CASE Value(card) = 0
    <3>1. ~IsWild(card)
      BY <2>2 DEF IsWild, Wild, WildDrawFour
    <3> QED
      BY <2>2, <3>1, SameCards108, FS_Singleton
  <2>3. CASE ~IsWild(card) /\ Value(card) # 0
    <3>1. card % 25 \in 1..24
      BY <2>3 DEF Deck108, IsWild, Value, Skip, Reverse, DrawTwo, Wild, WildDrawFour
    <3>2. PICK other \in {card + 9, card - 9, card + 1, card - 1} :
             Same(card) = {card, other} /\ other # card
      <4> DEFINE at == card % 25
      <4>0. /\ at \in 1..9 \/ at \in 10..18 \/ at \in {19, 21, 23} \/ at \in {20, 22, 24}
            /\ card + 9 # card /\ card - 9 # card /\ card + 1 # card /\ card - 1 # card
        BY <3>1 DEF Deck108
      <4> QED
        BY <2>3, <4>0, SameCards108
    <3>3. Cardinality({card, other}) = 2
      BY <3>2, Pairs
    <3>4. Cardinality(Same(card)) = 2
      BY <3>2, <3>3, Zenon
    <3> QED
      BY <2>3, <3>4
  <2> QED
    BY <2>1, <2>2, <2>3
<1>2. ASSUME NEW card \in Deck108, NEW face \in Deck108, Value(card) = Value(face)
      PROVE  Score(card) = Score(face)
  BY <1>2 DEF Score, IsWild
<1>3. ASSUME NEW card \in Deck108, ~IsWild(card)
      PROVE  Cardinality({d \in Deck108 : Color(d) = Color(card) /\ Score(d) = 20}) = 6
  <2>1. 25 * Color(card) + 19 \in Nat
    BY <1>3 DEF Deck108, Color, IsWild, Value, Wild, WildDrawFour
  <2>2. Cardinality((25 * Color(card) + 19)..((25 * Color(card) + 19) + 5)) = 5 + 1
    BY <2>1, Runs, 5 \in Nat, Zenon
  <2>3. 5 + 1 = 6
    OBVIOUS
  <2> QED
    BY <1>3, <2>2, <2>3, ActionCards, Zenon
<1>4. NumbersAreFaces
  BY <1>1, <1>2, <1>3 DEF NumbersAreFaces, Same
<1> QED
  BY <1>4, PTL
=============================================================================
