---------------------------- MODULE RoundsProofs ----------------------------
(***************************************************************************)
(* Proofs about the rounds of a game, for any number of players, hands and *)
(* deals, and whichever flaws are mended unless a theorem says so.         *)
(***************************************************************************)
EXTENDS RoundsProperties, FiniteSetTheorems, SequenceTheorems, WellFoundedInduction, TLAPS

(* A set of seats that is not empty has a first one.                       *)
LEMMA FirstSeat ==
  ASSUME NEW S \in SUBSET Players, S # {}
  PROVE  \E p \in S : \A q \in S : p <= q
<1> DEFINE Upto == {0..p : p \in S}
<1>1. S \subseteq Nat
  BY NAssumption DEF Players
<1>2. Upto \subseteq FiniteSubsetsOf(Nat) /\ Upto # {}
  <2>1. ASSUME NEW p \in S PROVE 0..p \in SUBSET Nat /\ IsFiniteSet(0..p)
    <3>1. p \in Int /\ 0 \in Int
      BY <1>1
    <3> QED
      BY <3>1, FS_Interval
  <2>2. PICK p \in S : TRUE
    OBVIOUS
  <2>3. 0..p \in Upto
    BY <2>2
  <2> QED
    BY <2>1, <2>3 DEF FiniteSubsetsOf
<1>3. PICK x \in Upto : \A y \in Upto : ~(<<y, x>> \in StrictSubsetOrdering(Nat))
  <2> HIDE DEF Upto
  <2> QED
    BY <1>2, FS_StrictSubsetOrderingWellFounded, WFMin
<1>4. PICK p \in S : x = 0..p
  BY <1>3
<1>5. ASSUME NEW q \in S PROVE p <= q
  <2> SUFFICES ASSUME q < p PROVE FALSE
    BY <1>1
  <2>1. 0..q \subseteq 0..p /\ 0..q # 0..p
    <3>1. p \in 0..p /\ p \notin 0..q
      BY <1>1
    <3>2. \A i \in 0..q : i \in 0..p
      BY <1>1
    <3> QED
      BY <3>1, <3>2
  <2>2. <<0..q, 0..p>> \in StrictSubsetOrdering(Nat)
    BY <1>1, <2>1 DEF StrictSubsetOrdering
  <2> QED
    BY <1>3, <1>4, <2>2
<1> QED
  BY <1>5

(* The odd answer CompleteHand comes to first is one of the odd ones.      *)
LEMMA FirstOddIsOdd ==
  ASSUME Odd # {}
  PROVE  FirstOdd \in Odd
<1>1. Odd \in SUBSET Players
  BY DEF Odd
<1>2. \E p \in Odd : \A q \in Odd : p <= q
  BY <1>1, FirstSeat
<1> QED
  BY <1>2 DEF FirstOdd

(* The innermost player of an error is the one PlayGame finds.             *)
LEMMA InnermostIsFound ==
  ASSUME NEW outer, NEW who, who # None
  PROVE  FindErrPlayerIndex(<<outer, who>>) = who
<1> DEFINE chain == <<outer, who>>
           named == {i \in DOMAIN chain : chain[i] # None}
<1>1. DOMAIN chain = 1..2 /\ chain[2] = who
  OBVIOUS
<1>2. 2 \in named /\ \A j \in named : j \in Int /\ j <= 2
  BY <1>1
<1>3. ASSUME NEW i \in named, \A j \in named : j <= i
      PROVE  i = 2
  BY <1>2, <1>3
<1>4. (CHOOSE i \in named : \A j \in named : j <= i) = 2
  <2> HIDE DEF named
  <2> QED
    BY <1>2, <1>3
<1> QED
  BY <1>1, <1>2, <1>4 DEF FindErrPlayerIndex

(* An error that is wrapped in no other is that of its player, or nobody's. *)
LEMMA OnlyIsFound ==
  ASSUME NEW who
  PROVE  FindErrPlayerIndex(<<who>>) = who
<1> DEFINE chain == <<who>>
           named == {i \in DOMAIN chain : chain[i] # None}
<1>1. DOMAIN chain = {1} /\ chain[1] = who
  OBVIOUS
<1>2. CASE who = None
  <2>1. named = {}
    BY <1>1, <1>2
  <2> QED
    BY <1>2, <2>1 DEF FindErrPlayerIndex
<1>3. CASE who # None
  <2>1. named = {1}
    BY <1>1, <1>3
  <2>2. (CHOOSE i \in named : \A j \in named : j <= i) = 1
    <3> HIDE DEF named
    <3> QED
      BY <2>1
  <2> QED
    BY <1>1, <2>1, <2>2 DEF FindErrPlayerIndex
<1> QED
  BY <1>2, <1>3
-----------------------------------------------------------------------------
\* The steps of the game, as far as the goroutines of a round see them

\* A round begins.
Opens ==
  /\ \E kind \in Kinds, to \in Seats :
       /\ OpenRound(kind, to)
       /\ kind # "Key" => to = None
  /\ UNCHANGED outcome

\* A player that was asked has given no good answer, and yet the round passed.
MissingAnswer ==
  /\ pc = "Passed"
  /\ \/ round.kind = "Key" /\ (\E p \in Players \ {round.to} : answer[p] # "good")
     \/ round.kind \in CheckedLater /\ (\E p \in Players : answer[p] = "none")

\* The goroutine of the game goes on without one, or the process dies.
Moves ==
  /\ pc \in {"Passed", "HandOver"}
  /\ \/ pc' \in {"NewHand", "Hand", "HandOver", "Complete"}
     \/ /\ pc' = "Panicked"
        /\ Mended # Flaws \/ MissingAnswer
  /\ UNCHANGED <<goroutines, outcome>>

\* The game fails without an error of a round, or with the first odd answer.
Fails ==
  /\ pc \in {"Passed", "Hand"}
  /\ pc' = "Failed"
  /\ \/ \E p \in Seats :
          err' = [chain |-> <<p>>, who |-> p, cause |-> "hand", no |-> round.no]
     \/ \E p \in Players :
          err' = [chain |-> <<None, p>>, who |-> p, cause |-> "refused", no |-> round.no]
  /\ UNCHANGED <<goroutines, dropped>>

LEMMA MainCases ==
  ASSUME TypeOK, Main
  PROVE  Opens \/ TakeError \/ TakeDone \/ Moves \/ Fails \/ Report
<1>1. CASE Play
  BY <1>1 DEF Play, Opens, Kinds, Seats, None
<1>2. CASE GameStarted
  BY <1>2 DEF GameStarted, Moves
<1>3. CASE NewHand
  BY <1>3 DEF NewHand, Opens, Kinds, Seats
<1>4. CASE HandStarted
  BY <1>4 DEF HandStarted, Moves, Flaws
<1>5. CASE PopTopCard
  BY <1>5 DEF PopTopCard, Receivers, Opens, Kinds, Seats
<1>6. CASE CardPopped
  <2>1. CASE \A p \in KeysRead : answer[p] = "good"
    BY <1>6, <2>1 DEF CardPopped, Moves
  <2>2. CASE ~ \A p \in KeysRead : answer[p] = "good"
    <3>1. pc' = "Panicked" /\ UNCHANGED <<goroutines, outcome>>
      BY <1>6, <2>2 DEF CardPopped
    <3>2. Mended # Flaws \/ KeysRead = Players \ {round.to}
      BY DEF KeysRead, Flaws
    <3> QED
      BY <1>6, <2>2, <3>1, <3>2 DEF CardPopped, Moves, MissingAnswer
  <2> QED
    BY <2>1, <2>2
<1>7. CASE HandFails
  <2>1. PICK p \in Players \cup {None} : Fail(<<p>>, p, "hand")
    BY <1>7 DEF HandFails
  <2> QED
    BY <1>7, <2>1 DEF HandFails, Fail, Fails, Seats
<1>8. CASE CompleteHand
  BY <1>8 DEF CompleteHand, Opens, Kinds, Seats
<1>9. CASE OddAnswer
  <2>1. FirstOdd \in Odd
    BY <1>9, FirstOddIsOdd DEF OddAnswer
  <2>2. FirstOdd \in Players /\ answer[FirstOdd] \in {"none", "bad"}
    BY <2>1 DEF Odd, TypeOK, Answers
  <2>3. CASE answer[FirstOdd] = "bad"
    <3>1. PICK unseen \in KeyUnseen :
            IF ~unseen THEN Fail(<<None, FirstOdd>>, FirstOdd, "refused")
                       ELSE pc' = "Panicked" /\ UNCHANGED err
      BY <1>9, <2>3 DEF OddAnswer
    <3>2. CASE ~unseen
      BY <1>9, <2>2, <3>1, <3>2 DEF OddAnswer, Fail, Fails
    <3>3. CASE unseen
      <4>1. Mended # Flaws
        BY <3>3 DEF KeyUnseen, Flaws
      <4> QED
        BY <1>9, <3>1, <3>3, <4>1 DEF OddAnswer, Moves, outcome
    <3> QED
      BY <3>2, <3>3
  <2>4. CASE answer[FirstOdd] = "none"
    BY <1>9, <2>2, <2>4 DEF OddAnswer, Moves, MissingAnswer, outcome
  <2> QED
    BY <2>2, <2>3, <2>4
<1>10. CASE HandRevealed
  <2>1. PICK unseen \in KeyUnseen :
          IF unseen THEN pc' = "Panicked" /\ UNCHANGED goroutines
                    ELSE OpenRound("HandSign", None)
    BY <1>10 DEF HandRevealed
  <2>2. CASE ~unseen
    BY <1>10, <2>1, <2>2 DEF HandRevealed, Opens, Kinds, Seats
  <2>3. CASE unseen
    <3>1. Mended # Flaws
      BY <2>3 DEF KeyUnseen, Flaws
    <3> QED
      BY <1>10, <2>1, <2>3, <3>1 DEF HandRevealed, Moves
  <2> QED
    BY <2>2, <2>3
<1>11. CASE HandSigned
  BY <1>11 DEF HandSigned, Moves
<1>12. CASE HandOver
  <2>1. CASE OpenRound("GameEnd", None)
    BY <1>12, <2>1 DEF HandOver, Opens, Kinds, Seats
  <2>2. CASE pc' = "NewHand" /\ UNCHANGED goroutines
    BY <1>12, <2>2 DEF HandOver, Moves
  <2> QED
    BY <1>12, <2>1, <2>2 DEF HandOver
<1>13. CASE GameEnded
  BY <1>13 DEF GameEnded, Moves, Flaws
<1>14. CASE CardsDoNotMatch
  BY <1>14 DEF CardsDoNotMatch, Fail, Fails, Seats
<1> QED
  BY <1>1, <1>2, <1>3, <1>4, <1>5, <1>6, <1>7, <1>8, <1>9, <1>10, <1>11, <1>12, <1>13, <1>14
     DEF Main
-----------------------------------------------------------------------------
\* Types

(* A hand begins only while the bound on them leaves room.                 *)
HandsCounted ==
  /\ pc = "NewHand" => hand < MaxHands
  /\ pc = "Play" \/ round.kind = "GameStart" => hand = 0

(* An error names a player, or two, the inner one of which is the culprit. *)
ErrNames ==
  pc = "Failed" =>
    \/ err.chain = <<err.who>>
    \/ err.who # None /\ \E outer \in Seats : err.chain = <<outer, err.who>>

TypeInv == TypeOK /\ HandsCounted /\ ErrNames

LEMMA InitTypes == Init => TypeInv
<1> SUFFICES ASSUME Init PROVE TypeInv
  OBVIOUS
<1>1. TypeOK
  BY NAssumption, BoundsAssumption
     DEF Init, TypeOK, Steps, Seats, Kinds, Answers, Errors, NoAnswers, NoErr, Players
<1>2. HandsCounted /\ ErrNames
  BY DEF Init, HandsCounted, ErrNames
<1> QED
  BY <1>1, <1>2 DEF TypeInv

(* What a round begins with is of the right type.                          *)
LEMMA OpensTypes ==
  ASSUME TypeOK, Opens
  PROVE  /\ pc' = "Select"
         /\ round' \in [no : Nat, kind : Kinds, to : Seats]
         /\ task' \in [Players -> {"idle", "asking", "refused", "cutoff", "ended"}]
         /\ answer' \in Answers
         /\ errCh' = <<>>
         /\ waiter' = "waiting" /\ live' = TRUE
         /\ err' = err /\ dropped' = dropped
<1>1. PICK kind \in Kinds, to \in Seats : OpenRound(kind, to)
  BY DEF Opens
<1> QED
  BY <1>1 DEF TypeOK, Opens, OpenRound, Answers, NoAnswers, outcome

(* The signatures and the counts, which only the game's goroutine writes.  *)
LEMMA MainCounts ==
  ASSUME TypeInv, Main
  PROVE  /\ gameStartSigs' \in Answers /\ handEndSigs' \in Answers
         /\ hand' \in 0..MaxHands /\ deals' \in 0..MaxDeals
         /\ HandsCounted'
<1> USE BoundsAssumption DEF TypeInv, TypeOK, HandsCounted, sigs, counts, goroutines, OpenRound
<1>1. CASE Play
  BY <1>1 DEF Play
<1>2. CASE GameStarted
  BY <1>2 DEF GameStarted
<1>3. CASE NewHand
  BY <1>3 DEF NewHand
<1>4. CASE HandStarted
  BY <1>4 DEF HandStarted
<1>5. CASE PopTopCard
  BY <1>5 DEF PopTopCard
<1>6. CASE CardPopped
  BY <1>6 DEF CardPopped
<1>7. CASE HandFails
  BY <1>7 DEF HandFails, Fail
<1>8. CASE CompleteHand
  BY <1>8 DEF CompleteHand
<1>9. CASE OddAnswer
  BY <1>9 DEF OddAnswer, Fail
<1>10. CASE HandRevealed
  BY <1>10 DEF HandRevealed
<1>11. CASE HandSigned
  BY <1>11 DEF HandSigned
<1>12. CASE HandOver
  BY <1>12 DEF HandOver
<1>13. CASE GameEnded
  BY <1>13 DEF GameEnded
<1>14. CASE TakeError
  BY <1>14 DEF TakeError
<1>15. CASE TakeDone
  BY <1>15 DEF TakeDone
<1>16. CASE Report
  BY <1>16 DEF Report
<1>17. CASE CardsDoNotMatch
  BY <1>17 DEF CardsDoNotMatch, Fail
<1> QED
  BY <1>1, <1>2, <1>3, <1>4, <1>5, <1>6, <1>7, <1>8, <1>9, <1>10, <1>11, <1>12, <1>13,
     <1>14, <1>15, <1>16, <1>17 DEF Main

LEMMA MainTypes ==
  ASSUME TypeInv, Main
  PROVE  TypeInv'
<1>1. /\ gameStartSigs' \in Answers /\ handEndSigs' \in Answers
      /\ hand' \in 0..MaxHands /\ deals' \in 0..MaxDeals
      /\ HandsCounted'
  BY MainCounts
<1>2. TypeOK
  BY DEF TypeInv
<1>3. CASE Opens
  <2>1. ErrNames'
    BY <1>2, <1>3, OpensTypes DEF ErrNames
  <2>2. errCh' = <<>> /\ errCh' \in Seq(Errors) /\ Len(errCh') <= N
    BY <1>2, <1>3, OpensTypes, NAssumption
  <2>3. TypeOK'
    BY <1>1, <1>2, <1>3, <2>2, OpensTypes DEF TypeOK, Steps
  <2> QED
    BY <1>1, <2>1, <2>3 DEF TypeInv
<1>4. CASE TakeError
  <2>1. PICK outer \in Seats :
          /\ pc' = "Failed"
          /\ err' = [chain |-> <<outer, Head(errCh).who>>, who |-> Head(errCh).who,
                     cause |-> Head(errCh).cause, no |-> Head(errCh).no]
    BY <1>4 DEF TakeError, Seats
  <2>2. Head(errCh) \in Errors /\ Tail(errCh) \in Seq(Errors) /\ Len(Tail(errCh)) <= N
    BY <1>2, <1>4, HeadTailProperties, NAssumption DEF TypeOK, TakeError
  <2>3. Head(errCh).who \in Players /\ Players \subseteq Seats /\ None \notin Players
    BY <2>2, NAssumption DEF Errors, Players, Seats, None
  <2>4. err' \in [chain : Seq(Seats), who : Seats,
                  cause : {"none", "refused", "cutoff", "hand"}, no : Nat]
    BY <2>1, <2>2, <2>3 DEF Errors
  <2>5. ErrNames'
    BY <2>1, <2>3 DEF ErrNames
  <2>6. TypeOK'
    BY <1>1, <1>2, <1>4, <2>1, <2>2, <2>4 DEF TypeOK, TakeError, Steps
  <2> QED
    BY <1>1, <2>5, <2>6 DEF TypeInv
<1>5. CASE TakeDone
  BY <1>1, <1>2, <1>5 DEF TypeInv, TypeOK, ErrNames, TakeDone, Steps, outcome
<1>6. CASE Moves
  BY <1>1, <1>2, <1>6 DEF TypeInv, TypeOK, ErrNames, Moves, Steps, Terminal, goroutines, outcome
<1>7. CASE Fails
  <2>1. PICK p \in Seats :
          \/ err' = [chain |-> <<p>>, who |-> p, cause |-> "hand", no |-> round.no]
          \/ p \in Players /\ err' = [chain |-> <<None, p>>, who |-> p,
                                       cause |-> "refused", no |-> round.no]
    BY <1>7 DEF Fails, Seats
  <2>2. None \in Seats /\ None \notin Players
    BY NAssumption DEF Seats, Players, None
  <2>3. err' \in [chain : Seq(Seats), who : Seats,
                  cause : {"none", "refused", "cutoff", "hand"}, no : Nat]
    <3>1. round.no \in Nat
      BY <1>2 DEF TypeOK
    <3>2. <<p>> \in Seq(Seats) /\ <<None, p>> \in Seq(Seats)
      BY <2>2
    <3>3. [chain |-> <<p>>, who |-> p, cause |-> "hand", no |-> round.no]
            \in [chain : Seq(Seats), who : Seats,
                 cause : {"none", "refused", "cutoff", "hand"}, no : Nat]
      BY <3>1, <3>2
    <3>4. [chain |-> <<None, p>>, who |-> p, cause |-> "refused", no |-> round.no]
            \in [chain : Seq(Seats), who : Seats,
                 cause : {"none", "refused", "cutoff", "hand"}, no : Nat]
      BY <3>1, <3>2
    <3> QED
      BY <2>1, <3>3, <3>4
  <2>4. ErrNames'
    BY <2>1, <2>2 DEF ErrNames
  <2>5. TypeOK'
    BY <1>1, <1>2, <1>7, <2>3 DEF TypeOK, Fails, Steps, goroutines
  <2> QED
    BY <1>1, <2>4, <2>5 DEF TypeInv
<1>8. CASE Report
  <2>1. FindErrPlayerIndex(err.chain) = err.who
    BY <1>8, InnermostIsFound, OnlyIsFound DEF TypeInv, ErrNames, Report
  <2> QED
    BY <1>1, <1>2, <1>8, <2>1 DEF TypeInv, TypeOK, ErrNames, Report, Terminal, goroutines
<1> QED
  BY <1>2, <1>3, <1>4, <1>5, <1>6, <1>7, <1>8, MainCases

(* What the goroutines of a round leave alone.                             *)
LEMMA RequestFrame ==
  ASSUME NEW p \in Players, Request(p) \/ Waiter
  PROVE  UNCHANGED <<pc, round, live, sigs, counts, outcome>>
BY DEF Request, Waiter, PlayerAnswers, RequestFails, SendError, WaitGroupDone

(* An error that is sent is added at the end of errCh.                     *)
LEMMA SendErrorAppends ==
  ASSUME TypeOK, NEW p \in Players, SendError(p)
  PROVE  /\ errCh' \in Seq(Errors)
         /\ Len(errCh') = Len(errCh) + 1 /\ Len(errCh') <= N
         /\ \A i \in 1..Len(errCh) : errCh'[i] = errCh[i]
         /\ errCh'[Len(errCh')] = [who |-> p, cause |-> task[p], no |-> round.no]
<1> DEFINE e == [who |-> p, cause |-> task[p], no |-> round.no]
<1>1. e \in Errors
  BY DEF SendError, TypeOK, Errors
<1>2. errCh' = Append(errCh, e) /\ errCh \in Seq(Errors) /\ Len(errCh) < N /\ Len(errCh) \in Nat
  BY DEF SendError, Room, TypeOK
<1> HIDE DEF e
<1>3. errCh' \in Seq(Errors) /\ Len(errCh') = Len(errCh) + 1
      /\ (\A i \in 1..Len(errCh) : errCh'[i] = errCh[i]) /\ errCh'[Len(errCh) + 1] = e
  BY <1>1, <1>2, AppendProperties
<1> QED
  BY <1>2, <1>3, NAssumption DEF e

LEMMA RequestTypes ==
  ASSUME TypeInv, NEW p \in Players, Request(p) \/ Waiter
  PROVE  TypeInv'
<1>1. UNCHANGED <<pc, round, live, sigs, counts, outcome>>
  BY RequestFrame
<1>2. HandsCounted' /\ ErrNames'
  BY <1>1 DEF TypeInv, HandsCounted, ErrNames, counts, outcome
<1>3. CASE PlayerAnswers(p)
  BY <1>1, <1>2, <1>3 DEF TypeInv, TypeOK, PlayerAnswers, Answers, sigs, counts, outcome
<1>4. CASE RequestFails(p)
  BY <1>1, <1>2, <1>4 DEF TypeInv, TypeOK, RequestFails, sigs, counts, outcome
<1>5. CASE SendError(p)
  BY <1>1, <1>2, <1>5, SendErrorAppends DEF TypeInv, TypeOK, SendError, sigs, counts, outcome
<1>6. CASE WaitGroupDone
  BY <1>1, <1>2, <1>6 DEF TypeInv, TypeOK, WaitGroupDone, sigs, counts, outcome
<1> QED
  BY <1>3, <1>4, <1>5, <1>6 DEF Request, Waiter

LEMMA StutterTypes ==
  ASSUME TypeInv, UNCHANGED vars
  PROVE  TypeInv'
BY DEF TypeInv, TypeOK, HandsCounted, ErrNames, vars, goroutines, sigs, counts, outcome

LEMMA NextTypes ==
  ASSUME TypeInv, [Next]_vars
  PROVE  TypeInv'
<1>1. CASE Waiter
  <2>1. 0 \in Players
    BY NAssumption DEF Players
  <2> QED
    BY <1>1, <2>1, RequestTypes
<1> QED
  BY <1>1, MainTypes, RequestTypes, StutterTypes DEF Next, Finished

(* Type correctness of the rounds of a game, for every number of players.  *)
(* With it errCh has room for every error of a round.                      *)
THEOREM TypeCorrect == Spec => []TypeOK
<1>1. TypeInv => TypeOK
  BY DEF TypeInv
<1> QED
  BY <1>1, InitTypes, NextTypes, PTL DEF Spec
-----------------------------------------------------------------------------
\* The inductive invariant

\* The goroutine of the game waits for a round, or is between two of them.
InRound == pc = "Select" \/ BetweenRounds

\* Every player is asked in a round, but the one the card is for.
SeatsAsked == pc # "Play" => \A p \in Players : task[p] = "idle" => p = round.to

\* The wait is over only when all have ended, and a round has passed only then.
WaitIsForAll ==
  /\ waiter \in {"ready", "taken"} => AllEnded
  /\ BetweenRounds => waiter = "taken"

\* Who has ended has stored an answer or sent an error.
Accounted ==
  InRound =>
    \A p \in Players :
      task[p] = "ended" =>
        answer[p] # "none" \/ \E i \in 1..Len(errCh) : errCh[i].who = p

\* Until the game takes an error nobody is cut off, and all errors are of this
\* round.
RoundIsLive ==
  pc = "Select" =>
    /\ live
    /\ \A p \in Players : task[p] # "cutoff"
    /\ \A i \in 1..Len(errCh) : errCh[i].cause = "refused" /\ errCh[i].no = round.no

\* Only a round of keys leaves somebody out, and only in rounds that are
\* checked later an answer may be bad.
KindFits ==
  /\ round.kind # "Key" => round.to = None
  /\ round.kind \notin CheckedLater => \A p \in Players : answer[p] # "bad"

\* The error Play returns is one the round has a culprit of.
ErrIsOfRound ==
  pc \in {"Failed", "Reported"} /\ FromRound =>
    err.cause = "refused" /\ err.no = round.no

RoundInv ==
  /\ SeatsAsked /\ WaitIsForAll /\ Accounted
  /\ RoundIsLive /\ KindFits
  /\ ErrIsOfRound /\ BlameIsDeserved

LEMMA InitRound == Init => RoundInv
<1> SUFFICES ASSUME Init PROVE RoundInv
  OBVIOUS
<1>1. SeatsAsked /\ WaitIsForAll /\ Accounted /\ RoundIsLive
  BY DEF Init, SeatsAsked, WaitIsForAll, Accounted, RoundIsLive, InRound, BetweenRounds
<1>2. KindFits /\ ErrIsOfRound /\ BlameIsDeserved
  BY DEF Init, KindFits, NoAnswers, ErrIsOfRound, BlameIsDeserved
<1> QED
  BY <1>1, <1>2 DEF RoundInv

(* A round begins with everyone asked and nothing answered.                *)
LEMMA OpensRound ==
  ASSUME Opens
  PROVE  RoundInv'
<1>1. PICK kind \in Kinds, to \in Seats :
        OpenRound(kind, to) /\ (kind # "Key" => to = None)
  BY DEF Opens
<1>2. /\ pc' = "Select"
      /\ round' = [no |-> round.no + 1, kind |-> kind, to |-> to]
      /\ task' = [p \in Players |-> IF p = to THEN "idle" ELSE "asking"]
      /\ answer' = [p \in Players |-> "none"]
      /\ errCh' = <<>> /\ waiter' = "waiting" /\ live' = TRUE
  BY <1>1 DEF OpenRound, NoAnswers
<1>3. SeatsAsked' /\ WaitIsForAll' /\ Accounted'
  BY <1>2 DEF SeatsAsked, WaitIsForAll, Accounted, BetweenRounds
<1>4. RoundIsLive'
  BY <1>2 DEF RoundIsLive
<1>5. KindFits' /\ ErrIsOfRound' /\ BlameIsDeserved'
  BY <1>1, <1>2 DEF KindFits, ErrIsOfRound, BlameIsDeserved
<1> QED
  BY <1>3, <1>4, <1>5 DEF RoundInv

(* The error that is taken is of a player that failed in this round.       *)
LEMMA TakeErrorRound ==
  ASSUME TypeInv, RoundInv, TakeError
  PROVE  RoundInv'
<1>1. pc = "Select" /\ pc' = "Failed" /\ UNCHANGED <<round, task, answer, waiter>>
  BY DEF TakeError
<1>2. err'.cause = Head(errCh).cause /\ err'.no = Head(errCh).no
  BY DEF TakeError
<1>3. errCh \in Seq(Errors) /\ errCh # <<>>
  BY DEF TypeInv, TypeOK, TakeError
<1>4. 1 \in 1..Len(errCh) /\ Head(errCh) = errCh[1]
  BY <1>3
<1>5. ErrIsOfRound'
  BY <1>1, <1>2, <1>4 DEF RoundInv, RoundIsLive, ErrIsOfRound
<1>6. SeatsAsked' /\ KindFits'
  BY <1>1 DEF RoundInv, SeatsAsked, KindFits
<1>7. WaitIsForAll' /\ Accounted' /\ RoundIsLive' /\ BlameIsDeserved'
  BY <1>1 DEF RoundInv, WaitIsForAll, AllEnded, Accounted, InRound, BetweenRounds,
              RoundIsLive, BlameIsDeserved
<1> QED
  BY <1>5, <1>6, <1>7 DEF RoundInv

LEMMA TakeDoneRound ==
  ASSUME RoundInv, TakeDone
  PROVE  RoundInv'
<1>1. /\ pc = "Select" /\ pc' = "Passed"
      /\ waiter = "ready" /\ waiter' = "taken"
      /\ UNCHANGED <<round, task, answer, errCh, err, dropped>>
  BY DEF TakeDone, outcome
<1>2. SeatsAsked' /\ WaitIsForAll'
  BY <1>1 DEF RoundInv, SeatsAsked, WaitIsForAll, AllEnded, BetweenRounds
<1>3. Accounted' /\ RoundIsLive' /\ KindFits'
  BY <1>1 DEF RoundInv, Accounted, InRound, BetweenRounds, RoundIsLive, KindFits
<1>4. ErrIsOfRound' /\ BlameIsDeserved'
  BY <1>1 DEF ErrIsOfRound, BlameIsDeserved
<1> QED
  BY <1>2, <1>3, <1>4 DEF RoundInv

(* Between two rounds, and at a failure that is not a round's, the         *)
(* goroutines of the last round stay as they were left.                    *)
LEMMA MovesRound ==
  ASSUME RoundInv, Moves \/ Fails
  PROVE  RoundInv'
<1>1. /\ UNCHANGED <<round, task, answer, errCh, waiter, live>>
      /\ BetweenRounds
      /\ pc' # "Select" /\ pc' # "Reported"
  BY DEF Moves, Fails, goroutines, BetweenRounds
<1>2. SeatsAsked' /\ WaitIsForAll' /\ Accounted'
  BY <1>1 DEF RoundInv, SeatsAsked, WaitIsForAll, AllEnded, Accounted, InRound, BetweenRounds
<1>3. RoundIsLive' /\ KindFits' /\ BlameIsDeserved'
  BY <1>1 DEF RoundInv, RoundIsLive, KindFits, BlameIsDeserved
<1>4. ErrIsOfRound'
  BY <1>1 DEF Moves, Fails, ErrIsOfRound, FromRound
<1> QED
  BY <1>2, <1>3, <1>4 DEF RoundInv

LEMMA ReportRound ==
  ASSUME TypeInv, RoundInv, Report
  PROVE  RoundInv'
<1>1. /\ UNCHANGED <<round, task, answer, errCh, waiter, live, err>>
      /\ pc = "Failed" /\ pc' = "Reported"
      /\ dropped' = FindErrPlayerIndex(err.chain)
  BY DEF Report, goroutines
<1>2. dropped' = err.who
  BY <1>1, InnermostIsFound, OnlyIsFound DEF TypeInv, ErrNames
<1>3. SeatsAsked' /\ WaitIsForAll' /\ Accounted'
  BY <1>1 DEF RoundInv, SeatsAsked, WaitIsForAll, AllEnded, Accounted, InRound, BetweenRounds
<1>4. RoundIsLive' /\ KindFits' /\ ErrIsOfRound' /\ BlameIsDeserved'
  BY <1>1, <1>2 DEF RoundInv, RoundIsLive, KindFits, ErrIsOfRound, BlameIsDeserved, FromRound
<1> QED
  BY <1>3, <1>4 DEF RoundInv

(* A player that was asked has given an answer, made an error, or sent it. *)
LEMMA RequestRound ==
  ASSUME TypeInv, RoundInv, NEW p \in Players, Request(p)
  PROVE  RoundInv'
<1>1. UNCHANGED <<pc, round, live, err, dropped>>
  BY RequestFrame DEF outcome
<1>2. /\ task[p] \in {"asking", "refused", "cutoff"} /\ task'[p] \in {"ended", "refused", "cutoff"}
      /\ \A q \in Players \ {p} : task'[q] = task[q] /\ answer'[q] = answer[q]
      /\ waiter' = waiter
  BY DEF TypeInv, TypeOK, Answers, Request, PlayerAnswers, RequestFails, SendError
<1>3. SeatsAsked'
  BY <1>1, <1>2 DEF RoundInv, SeatsAsked
<1>4. WaitIsForAll'
  <2>1. ~AllEnded
    BY <1>2 DEF AllEnded
  <2> QED
    BY <1>1, <1>2, <2>1 DEF RoundInv, WaitIsForAll, BetweenRounds
<1>5. ErrIsOfRound' /\ BlameIsDeserved'
  BY <1>1 DEF RoundInv, ErrIsOfRound, BlameIsDeserved, FromRound
<1>6. CASE PlayerAnswers(p)
  <2>1. /\ errCh' = errCh /\ task'[p] = "ended"
        /\ answer'[p] # "none" /\ (round.kind \notin CheckedLater => answer'[p] # "bad")
    BY <1>6 DEF TypeInv, TypeOK, Answers, PlayerAnswers
  <2>2. Accounted' /\ RoundIsLive' /\ KindFits'
    BY <1>1, <1>2, <2>1
       DEF RoundInv, Accounted, InRound, BetweenRounds, RoundIsLive, KindFits
  <2> QED
    BY <1>3, <1>4, <1>5, <2>2 DEF RoundInv
<1>7. CASE RequestFails(p)
  <2>1. /\ errCh' = errCh /\ answer' = answer /\ task'[p] # "ended"
        /\ live => task'[p] # "cutoff"
    BY <1>7 DEF TypeInv, TypeOK, RequestFails
  <2>2. Accounted' /\ RoundIsLive' /\ KindFits'
    BY <1>1, <1>2, <2>1
       DEF RoundInv, Accounted, InRound, BetweenRounds, RoundIsLive, KindFits
  <2> QED
    BY <1>3, <1>4, <1>5, <2>2 DEF RoundInv
<1>8. CASE SendError(p)
  <2>1. answer' = answer /\ task'[p] = "ended"
    BY <1>8 DEF TypeInv, TypeOK, SendError
  <2>2. /\ Len(errCh) \in Nat /\ Len(errCh') = Len(errCh) + 1
        /\ \A i \in 1..Len(errCh) : errCh'[i] = errCh[i]
        /\ errCh'[Len(errCh')] = [who |-> p, cause |-> task[p], no |-> round.no]
    BY <1>8, SendErrorAppends DEF TypeInv, TypeOK
  <2>3. Accounted'
    <3> SUFFICES ASSUME InRound, NEW q \in Players, task'[q] = "ended"
                 PROVE  answer'[q] # "none" \/ \E i \in 1..Len(errCh') : errCh'[i].who = q
      BY <1>1 DEF Accounted, InRound, BetweenRounds
    <3>1. CASE q = p
      <4>1. Len(errCh') \in 1..Len(errCh') /\ errCh'[Len(errCh')].who = q
        BY <2>2, <3>1
      <4> QED
        BY <4>1
    <3>2. CASE q # p /\ answer[q] = "none"
      <4>1. PICK i \in 1..Len(errCh) : errCh[i].who = q
        BY <1>2, <3>2 DEF RoundInv, Accounted
      <4>2. i \in 1..Len(errCh') /\ errCh'[i].who = q
        BY <2>2, <4>1
      <4> QED
        BY <4>2
    <3> QED
      BY <2>1, <3>1, <3>2
  <2>4. RoundIsLive'
    <3> SUFFICES ASSUME pc = "Select"
                 PROVE  /\ \A q \in Players : task'[q] # "cutoff"
                        /\ \A i \in 1..Len(errCh') :
                             errCh'[i].cause = "refused" /\ errCh'[i].no = round.no
      BY <1>1 DEF RoundInv, RoundIsLive
    <3>1. task[p] = "refused"
      BY <1>8 DEF RoundInv, RoundIsLive, SendError
    <3>2. ASSUME NEW i \in 1..Len(errCh')
          PROVE  errCh'[i].cause = "refused" /\ errCh'[i].no = round.no
      <4>1. i = Len(errCh') \/ i \in 1..Len(errCh)
        BY <2>2
      <4> QED
        BY <2>2, <3>1, <4>1 DEF RoundInv, RoundIsLive
    <3> QED
      BY <1>2, <2>1, <3>2 DEF RoundInv, RoundIsLive
  <2>5. KindFits'
    BY <1>1, <2>1 DEF RoundInv, KindFits
  <2> QED
    BY <1>3, <1>4, <1>5, <2>3, <2>4, <2>5 DEF RoundInv
<1> QED
  BY <1>6, <1>7, <1>8 DEF Request

LEMMA WaiterRound ==
  ASSUME RoundInv, Waiter
  PROVE  RoundInv'
<1>1. /\ AllEnded /\ waiter' = "ready" /\ waiter = "waiting"
      /\ UNCHANGED <<pc, round, task, answer, errCh, live, err, dropped>>
  BY DEF Waiter, WaitGroupDone, outcome
<1>2. SeatsAsked' /\ WaitIsForAll'
  BY <1>1 DEF RoundInv, SeatsAsked, WaitIsForAll, AllEnded, BetweenRounds
<1>3. Accounted' /\ RoundIsLive' /\ KindFits' /\ ErrIsOfRound' /\ BlameIsDeserved'
  BY <1>1 DEF RoundInv, Accounted, InRound, BetweenRounds, RoundIsLive, KindFits,
              ErrIsOfRound, BlameIsDeserved, FromRound
<1> QED
  BY <1>2, <1>3 DEF RoundInv

LEMMA NextRound ==
  ASSUME TypeInv, RoundInv, [Next]_vars
  PROVE  RoundInv'
<1>1. CASE Main
  <2>1. TypeOK
    BY DEF TypeInv
  <2> QED
    BY <1>1, <2>1, MainCases, OpensRound, TakeErrorRound, TakeDoneRound, MovesRound, ReportRound
<1>2. CASE UNCHANGED vars
  <2>1. UNCHANGED <<pc, round, task, answer, errCh, waiter, live, err, dropped>>
    BY <1>2 DEF vars, goroutines, outcome
  <2>2. SeatsAsked' /\ WaitIsForAll' /\ Accounted'
    BY <2>1 DEF RoundInv, SeatsAsked, WaitIsForAll, AllEnded, Accounted, InRound, BetweenRounds
  <2>3. RoundIsLive' /\ KindFits' /\ ErrIsOfRound' /\ BlameIsDeserved'
    BY <2>1 DEF RoundInv, RoundIsLive, KindFits, ErrIsOfRound, BlameIsDeserved, FromRound
  <2> QED
    BY <2>2, <2>3 DEF RoundInv
<1> QED
  BY <1>1, <1>2, RequestRound, WaiterRound DEF Next, Finished
-----------------------------------------------------------------------------
\* What the rounds promise

(* In every state the types, the counts and the invariant hold.            *)
LEMMA Invariant == Spec => [](TypeInv /\ RoundInv)
<1>1. Init => TypeInv /\ RoundInv
  BY InitTypes, InitRound
<1>2. TypeInv /\ RoundInv /\ [Next]_vars => (TypeInv /\ RoundInv)'
  BY NextTypes, NextRound
<1> QED
  BY <1>1, <1>2, PTL DEF Spec

(* No player is asked while a request of the round before is under way.    *)
THEOREM OneRequestEachHolds == Spec => []OneRequestEach
<1>1. RoundInv => OneRequestEach
  BY DEF RoundInv, WaitIsForAll, OneRequestEach
<1> QED
  BY <1>1, Invariant, PTL

(* The connection that is ended for a round is that of a player that       *)
(* failed in that round by itself.                                         *)
THEOREM BlameIsDeservedHolds == Spec => []BlameIsDeserved
<1>1. RoundInv => BlameIsDeserved
  BY DEF RoundInv
<1> QED
  BY <1>1, Invariant, PTL

(* What is missing after a round that has passed was lost to an error      *)
(* nobody took.                                                            *)
THEOREM MissingIsExcusedHolds == Spec => []MissingIsExcused
<1>1. ASSUME TypeInv, RoundInv PROVE MissingIsExcused
  <2> SUFFICES ASSUME BetweenRounds, NEW p \in Players, p # round.to, answer[p] = "none"
               PROVE  \E i \in DOMAIN errCh : errCh[i].who = p
    BY DEF MissingIsExcused
  <2>1. task[p] = "ended"
    BY <1>1 DEF RoundInv, WaitIsForAll, AllEnded, SeatsAsked, BetweenRounds
  <2>2. PICK i \in 1..Len(errCh) : errCh[i].who = p
    BY <1>1, <2>1 DEF RoundInv, Accounted, InRound
  <2>3. DOMAIN errCh = 1..Len(errCh)
    BY <1>1 DEF TypeInv, TypeOK
  <2> QED
    BY <2>2, <2>3
<1> QED
  BY <1>1, Invariant, PTL

(* With the four known flaws mended, the steps of a game around its hands  *)
(* and in its rounds only let the process die after a round has passed     *)
(* over an error.                                                          *)
THEOREM PanicExplainedHolds ==
  ASSUME Mended = Flaws
  PROVE  Spec => []PanicExplained
<1>1. Init => PanicExplained
  BY DEF Init, PanicExplained
<1>2. ASSUME TypeInv, RoundInv, PanicExplained, [Next]_vars
      PROVE  PanicExplained'
  <2> SUFFICES ASSUME pc' = "Panicked" PROVE errCh' # <<>>
    BY DEF PanicExplained
  <2>1. CASE Main
    <3>1. TypeOK
      BY <1>2 DEF TypeInv
    <3>2. Moves
      BY <2>1, <3>1, MainCases, OpensTypes DEF TakeError, TakeDone, Fails, Report
    <3>3. MissingAnswer /\ errCh' = errCh
      BY <3>2 DEF Moves, goroutines
    <3>4. PICK p \in Players : p # round.to /\ answer[p] = "none"
      <4>1. CASE round.kind = "Key"
        <5>1. "Key" \notin CheckedLater
          BY DEF CheckedLater
        <5>2. PICK p \in Players \ {round.to} : answer[p] # "good"
          BY <3>3, <4>1, <5>1 DEF MissingAnswer
        <5>3. answer[p] \in {"none", "good"}
          BY <1>2, <3>1, <4>1, <5>1 DEF RoundInv, KindFits, TypeOK, Answers
        <5> QED
          BY <5>2, <5>3
      <4>2. CASE round.kind \in CheckedLater
        <5>1. round.kind # "Key" /\ None \notin Players
          BY <4>2, NAssumption DEF CheckedLater, Players, None
        <5>2. round.to = None
          BY <1>2, <5>1 DEF RoundInv, KindFits
        <5> QED
          BY <3>3, <5>1, <5>2 DEF MissingAnswer
      <4> QED
        BY <3>3, <4>1, <4>2 DEF MissingAnswer
    <3>5. BetweenRounds
      BY <3>3 DEF MissingAnswer, BetweenRounds
    <3>6. task[p] = "ended"
      BY <1>2, <3>4, <3>5 DEF RoundInv, WaitIsForAll, AllEnded, SeatsAsked, BetweenRounds
    <3>7. PICK i \in 1..Len(errCh) : errCh[i].who = p
      BY <1>2, <3>4, <3>5, <3>6 DEF RoundInv, Accounted, InRound
    <3> QED
      BY <3>1, <3>3, <3>7 DEF TypeOK
  <2>2. CASE ~Main
    <3>1. pc # "Panicked" \/ UNCHANGED vars
      BY <1>2, <2>2 DEF Next, Request, Waiter, Running, Finished
    <3>2. CASE UNCHANGED vars
      BY <1>2, <3>2 DEF PanicExplained, vars, goroutines
    <3>3. CASE pc # "Panicked" /\ ~ UNCHANGED vars
      <4>1. 0 \in Players
        BY NAssumption DEF Players
      <4>2. pc' = pc
        BY <1>2, <2>2, <3>3, <4>1, RequestFrame DEF Next, Finished
      <4> QED
        BY <3>3, <4>2
    <3> QED
      BY <3>1, <3>2, <3>3
  <2> QED
    BY <2>1, <2>2
<1> QED
  BY <1>1, <1>2, Invariant, PTL DEF Spec
=============================================================================
