-------------------------- MODULE RoundsProperties --------------------------
(* What the rounds of a game (module Rounds) promise.                      *)
EXTENDS Rounds, FiniteSets

Seats == Players \cup {None}
Kinds == {"none", "GameStart", "HandStart", "Key", "HandReveal", "HandSign", "GameEnd"}
Steps == {"Play", "Select", "Passed", "NewHand", "Hand", "HandOver", "Failed"}
Answers == [Players -> {"none", "good", "bad"}]
Errors == [who : Players, cause : {"refused", "cutoff"}, no : Nat]

(* Every variable of a game keeps to its type, and errCh never holds more  *)
(* than its capacity.                                                      *)
TypeOK ==
  /\ pc \in Steps \cup Terminal
  /\ round \in [no : Nat, kind : Kinds, to : Seats]
  /\ task \in [Players -> {"idle", "asking", "refused", "cutoff", "ended"}]
  /\ answer \in Answers /\ gameStartSigs \in Answers /\ handEndSigs \in Answers
  /\ errCh \in Seq(Errors) /\ Len(errCh) <= N
  /\ waiter \in {"idle", "waiting", "ready", "taken"}
  /\ live \in BOOLEAN
  /\ hand \in 0..MaxHands /\ deals \in 0..MaxDeals
  /\ err \in [chain : Seq(Seats), who : Seats,
              cause : {"none", "refused", "cutoff", "hand"}, no : Nat]
  /\ dropped \in Seats

\* The error came out of a round of requests.
FromRound == err.cause \in {"refused", "cutoff"}

(* When a round fails (doGameStart, doGameEnd, doHandStart, doAllHandEnds, *)
(* popTopCardForDeal), the connection that is ended is that of a player    *)
(* that failed by itself in that very round: never one that was only cut   *)
(* off when the others were cancelled, one left over from an earlier       *)
(* round, or the one whose turn it happened to be.                         *)
BlameIsDeserved ==
  pc = "Reported" /\ FromRound =>
    /\ dropped = err.who
    /\ err.cause = "refused"
    /\ err.no = round.no

\* The goroutine of the game is between two rounds.
BetweenRounds == pc \in {"Passed", "NewHand", "Hand", "HandOver"}

(* The requests of a round are over before the next one begins, so that a  *)
(* player is never asked two things at once, which doRPC of host/client    *)
(* refuses.                                                                *)
OneRequestEach == BetweenRounds => AllEnded

(* A round that passes without a player's signature, key or answer has     *)
(* passed over that player's error.                                        *)
MissingIsExcused ==
  BetweenRounds =>
    \A p \in Players :
      \/ p = round.to \/ answer[p] # "none"
      \/ \E i \in DOMAIN errCh : errCh[i].who = p

(* Apart from the flaws that are mended, and from what module Hand finds   *)
(* between the rounds, the process only dies after the error of a player   *)
(* has been passed over.                                                   *)
PanicExplained == pc = "Panicked" => errCh # <<>>

(* Whichever way a round goes, it comes to an end and leaves no goroutine  *)
(* behind, neither one that waits for its player nor one that has an error *)
(* nobody takes.                                                           *)
RoundSettles ==
  pc = "Select" ~>
    ((pc # "Select" /\ AllEnded /\ waiter # "waiting") \/ pc = "Panicked")
-----------------------------------------------------------------------------
\* What a comment of the repository says and the code does not keep.

(* "first err causes failure" (host/game/deck.go): a round in which a      *)
(* player has failed does not pass.                                        *)
FirstErrorFails == BetweenRounds => errCh = <<>>
=============================================================================
