------------------------------- MODULE Rounds -------------------------------
(***************************************************************************)
(* A game as the host runs it: Game.Play of host/game/game.go around the   *)
(* loop of game/game.go, with the rounds in which the host asks all        *)
(* players at once (the starts and ends of games and hands, and the keys   *)
(* of the top card in host/game/deck.go).                                  *)
(*                                                                         *)
(* A round starts one goroutine per player and one that waits for them.    *)
(* The first either store an answer or write to errCh, the other writes to *)
(* doneCh, and the goroutine of the game takes whichever select finds;     *)
(* when it returns, the context of the requests is cancelled.  What a hand *)
(* does between its rounds is in Hand, what players answer is left open.   *)
(*                                                                         *)
(* At this commit some lines stop every game.  Each is a name of Flaws; a  *)
(* run may take it as mended to see what the code does beyond it.          *)
(***************************************************************************)
EXTENDS Integers, Sequences

CONSTANTS
  N,         \* number of players, seats are 0..N-1
  MaxHands,  \* bound on the hands of a game (it ends at 500 points)
  MaxDeals,  \* bound on the cards asked for in a hand
  Mended     \* the flaws taken as mended

\* newDeck ends in panic("TODO"); DealTo reads the receiver's key, which
\* nobody was asked for; CompleteHand reads the key seen of a card that was
\* never popped; Play returns a nil *GameError as an error.
Flaws == {"newDeck", "ownKey", "deckKeys", "typedNil"}

ASSUME NAssumption == N \in Nat /\ N >= 1
ASSUME BoundsAssumption == MaxHands \in Nat \ {0} /\ MaxDeals \in Nat
ASSUME MendedAssumption == Mended \subseteq Flaws

Players == 0..N-1
None == -1

VARIABLES
  pc,        \* where the goroutine of the game stands
  round,     \* the round: its number, what it asks for, whom the card is for
  task,      \* the goroutine of each player in the round
  answer,    \* what each has stored: "none", "good", or "bad" if checked later
  errCh,     \* the errors the goroutines have sent
  waiter,    \* the goroutine that waits for them, and its doneCh
  live,      \* whether the context of the requests is not cancelled
  gameStartSigs, handEndSigs,   \* lastGameStartSigs, lastHandEndSigs
  hand, deals,                  \* how often the bounds have been used
  err,       \* the error Play returns: its chain of player indices, its origin
  dropped    \* the player whose connection the host ends for it

sigs == <<gameStartSigs, handEndSigs>>
counts == <<hand, deals>>
outcome == <<err, dropped>>
goroutines == <<round, task, answer, errCh, waiter, live>>
vars == <<pc, goroutines, sigs, counts, outcome>>

NoErr == [chain |-> <<>>, who |-> None, cause |-> "none", no |-> 0]
NoAnswers == [p \in Players |-> "none"]
Terminal == {"Reported", "Panicked", "Complete"}

Init ==
  /\ pc = "Play"
  /\ round = [no |-> 0, kind |-> "none", to |-> None]
  /\ task = [p \in Players |-> "idle"]
  /\ answer = NoAnswers
  /\ errCh = <<>>
  /\ waiter = "idle"
  /\ live = FALSE
  /\ gameStartSigs = NoAnswers
  /\ handEndSigs = NoAnswers
  /\ hand = 0
  /\ deals = 0
  /\ err = NoErr
  /\ dropped = None
-----------------------------------------------------------------------------
\* The goroutines of a round

(* A goroutine for every player but the one the card is for, new channels  *)
(* and a new context.                                                      *)
OpenRound(kind, to) ==
  /\ round' = [no |-> round.no + 1, kind |-> kind, to |-> to]
  /\ task' = [p \in Players |-> IF p = to THEN "idle" ELSE "asking"]
  /\ answer' = NoAnswers
  /\ errCh' = <<>>
  /\ waiter' = "waiting"
  /\ live' = TRUE
  /\ pc' = "Select"

\* Rounds whose answers are looked at only after all have come.
CheckedLater == {"HandReveal", "HandSign"}

PlayerAnswers(p) ==
  /\ task[p] = "asking"
  /\ \E a \in {"good"} \cup IF round.kind \in CheckedLater THEN {"bad"} ELSE {} :
       answer' = [answer EXCEPT ![p] = a]
  /\ task' = [task EXCEPT ![p] = "ended"]
  /\ UNCHANGED <<pc, round, errCh, waiter, live, sigs, counts, outcome>>

(* Mutant: an invalid signature is dropped and no error made of it.        *)
RequestFails_Silently(p) ==
  /\ task[p] = "asking"
  /\ task' = [task EXCEPT ![p] = IF live THEN "ended" ELSE "cutoff"]
  /\ UNCHANGED <<pc, round, answer, errCh, waiter, live, sigs, counts, outcome>>

(* The player refuses, its signature is invalid or its time is up; or the  *)
(* request was cut off because the round has ended.                        *)
RequestFails(p) ==
  /\ task[p] = "asking"
  /\ \E cause \in {"refused"} \cup IF live THEN {} ELSE {"cutoff"} :
       task' = [task EXCEPT ![p] = cause]
  /\ UNCHANGED <<pc, round, answer, errCh, waiter, live, sigs, counts, outcome>>

(* Mutant: room for one error only.                                        *)
Room_ForOne == errCh = <<>>

\* errCh has room for as many errors as there are players.
Room == Len(errCh) < N

SendError(p) ==
  /\ task[p] \in {"refused", "cutoff"}
  /\ Room
  /\ errCh' = Append(errCh, [who |-> p, cause |-> task[p], no |-> round.no])
  /\ task' = [task EXCEPT ![p] = "ended"]
  /\ UNCHANGED <<pc, round, answer, waiter, live, sigs, counts, outcome>>

AllEnded == \A p \in Players : task[p] \in {"idle", "ended"}

(* Mutant: the group is counted up in the goroutines, so the wait may be   *)
(* over before they have begun.                                            *)
WaitGroupDone_Uncounted ==
  /\ waiter = "waiting"
  /\ \A p \in Players : task[p] \in {"idle", "asking", "ended"}
  /\ waiter' = "ready"
  /\ UNCHANGED <<pc, round, task, answer, errCh, live, sigs, counts, outcome>>

WaitGroupDone ==
  /\ waiter = "waiting"
  /\ AllEnded
  /\ waiter' = "ready"
  /\ UNCHANGED <<pc, round, task, answer, errCh, live, sigs, counts, outcome>>
-----------------------------------------------------------------------------
\* The goroutine of the game

\* An error wrapped by the caller: the outer index, then that of the cause.
Fail(chain, who, cause) ==
  /\ pc' = "Failed"
  /\ err' = [chain |-> chain, who |-> who, cause |-> cause, no |-> round.no]

(* The error of a player, in that of sendEvent, newDeck or CompleteHand,   *)
(* which name nobody, or in that of a deal, which names the player whose   *)
(* turn it is.                                                             *)
TakeError ==
  /\ pc = "Select"
  /\ errCh # <<>>
  /\ errCh' = Tail(errCh)
  /\ live' = FALSE
  /\ LET e == Head(errCh) IN
       \E outer \in IF round.kind = "Key" THEN Players ELSE {None} :
         /\ pc' = "Failed"
         /\ err' = [chain |-> <<outer, e.who>>, who |-> e.who,
                    cause |-> e.cause, no |-> e.no]
  /\ UNCHANGED <<round, task, answer, waiter, sigs, counts, dropped>>

TakeDone ==
  /\ pc = "Select"
  /\ waiter = "ready"
  /\ waiter' = "taken"
  /\ live' = FALSE
  /\ pc' = "Passed"
  /\ UNCHANGED <<round, task, answer, errCh, sigs, counts, outcome>>

(* Game.Play: the flag running is read but never set.                      *)
Play ==
  /\ pc = "Play"
  /\ OpenRound("GameStart", None)
  /\ UNCHANGED <<sigs, counts, outcome>>

GameStarted ==
  /\ pc = "Passed" /\ round.kind = "GameStart"
  /\ gameStartSigs' = answer
  /\ pc' = "NewHand"
  /\ UNCHANGED <<goroutines, handEndSigs, counts, outcome>>

NewHand ==
  /\ pc = "NewHand"
  /\ hand' = hand + 1
  /\ deals' = 0
  /\ OpenRound("HandStart", None)
  /\ UNCHANGED <<sigs, outcome>>

HandStarted ==
  /\ pc = "Passed" /\ round.kind = "HandStart"
  /\ pc' = IF "newDeck" \in Mended THEN "Hand" ELSE "Panicked"
  /\ UNCHANGED <<goroutines, sigs, counts, outcome>>

(* Mutant: one seat too many is dealt to.                                  *)
Receivers_OneTooMany == Players \cup {None, N}

\* A card goes to a player, or is turned up.
Receivers == Players \cup {None}

PopTopCard ==
  /\ pc = "Hand"
  /\ deals < MaxDeals
  /\ deals' = deals + 1
  /\ \E to \in Receivers : OpenRound("Key", to)
  /\ UNCHANGED <<sigs, hand, outcome>>

(* Mutant: the receiver's key is read as well.                             *)
KeysRead_Own == Players

\* The keys DealTo puts in its message, or decryptCard uses.
KeysRead == IF "ownKey" \in Mended THEN Players \ {round.to} ELSE Players

(* A key that is missing is a nil pointer.                                 *)
CardPopped ==
  /\ pc = "Passed" /\ round.kind = "Key"
  /\ pc' = IF \A p \in KeysRead : answer[p] = "good" THEN "Hand" ELSE "Panicked"
  /\ UNCHANGED <<goroutines, sigs, counts, outcome>>

(* A player fails in its turn, or an event of the hand cannot be sent.     *)
HandFails ==
  /\ pc = "Hand"
  /\ \E p \in Players \cup {None} : Fail(<<p>>, p, "hand")
  /\ UNCHANGED <<goroutines, sigs, counts, dropped>>

CompleteHand ==
  /\ pc = "Hand"
  /\ OpenRound("HandReveal", None)
  /\ UNCHANGED <<sigs, counts, outcome>>

\* The first answer in the order of the seats that is not as it should be.
Odd == {p \in Players : answer[p] # "good"}
FirstOdd == CHOOSE p \in Odd : \A q \in Odd : p <= q

\* Whether a reveal has the key of a card that was never popped, as those of
\* honest players have while cards are left in the deck: no key has been
\* seen to compare it with, and the slice or the key it is read from is nil.
KeyUnseen ==
  IF round.kind # "HandReveal" \/ "deckKeys" \in Mended THEN {FALSE} ELSE BOOLEAN

(* A wrong answer is its player's error, unless the process dies on the    *)
(* keys before it is found; a missing one is a nil pointer.                *)
OddAnswer ==
  /\ pc = "Passed" /\ round.kind \in CheckedLater
  /\ Odd # {}
  /\ \E unseen \in KeyUnseen :
       IF answer[FirstOdd] = "bad" /\ ~unseen
         THEN Fail(<<None, FirstOdd>>, FirstOdd, "refused")
         ELSE pc' = "Panicked" /\ UNCHANGED err
  /\ UNCHANGED <<goroutines, sigs, counts, dropped>>

HandRevealed ==
  /\ pc = "Passed" /\ round.kind = "HandReveal"
  /\ Odd = {}
  /\ \E unseen \in KeyUnseen :
       IF unseen THEN pc' = "Panicked" /\ UNCHANGED goroutines
                 ELSE OpenRound("HandSign", None)
  /\ UNCHANGED <<sigs, counts, outcome>>

(* The cards of the deck cannot be decrypted, or with those of the hands   *)
(* and the discards they are not the cards of the start.                   *)
CardsDoNotMatch ==
  /\ pc = "Passed" /\ round.kind = "HandReveal"
  /\ Odd = {}
  /\ Fail(<<None>>, None, "hand")
  /\ UNCHANGED <<goroutines, sigs, counts, dropped>>

HandSigned ==
  /\ pc = "Passed" /\ round.kind = "HandSign"
  /\ Odd = {}
  /\ handEndSigs' = answer
  /\ pc' = "HandOver"
  /\ UNCHANGED <<goroutines, gameStartSigs, counts, outcome>>

(* The event of the end of the hand, whose result is not looked at, then   *)
(* the next hand or the end of the game.                                   *)
HandOver ==
  /\ pc = "HandOver"
  /\ \/ hand < MaxHands /\ pc' = "NewHand" /\ UNCHANGED goroutines
     \/ OpenRound("GameEnd", None)
  /\ UNCHANGED <<sigs, counts, outcome>>

(* Play hands the nil *GameError on as an error that is not nil, and       *)
(* PlayGame asks it for its message.                                       *)
GameEnded ==
  /\ pc = "Passed" /\ round.kind = "GameEnd"
  /\ pc' = IF "typedNil" \in Mended THEN "Complete" ELSE "Panicked"
  /\ UNCHANGED <<goroutines, sigs, counts, outcome>>

(* Mutant: the outer error decides.                                        *)
FindErrPlayerIndex_Outer(chain) == chain[1]

(* The index of the innermost error that has one.                          *)
FindErrPlayerIndex(chain) ==
  LET named == {i \in DOMAIN chain : chain[i] # None}
  IN  IF named = {} THEN None
                    ELSE chain[CHOOSE i \in named : \A j \in named : j <= i]

(* PlayGame tells everyone, and ends the connection of the player named.   *)
Report ==
  /\ pc = "Failed"
  /\ dropped' = FindErrPlayerIndex(err.chain)
  /\ pc' = "Reported"
  /\ UNCHANGED <<goroutines, sigs, counts, err>>
-----------------------------------------------------------------------------
Main ==
  \/ Play \/ TakeError \/ TakeDone
  \/ GameStarted \/ NewHand \/ HandStarted
  \/ PopTopCard \/ CardPopped \/ HandFails
  \/ CompleteHand \/ OddAnswer \/ HandRevealed \/ CardsDoNotMatch \/ HandSigned
  \/ HandOver \/ GameEnded \/ Report

\* A panic ends every goroutine.
Running == pc # "Panicked"

Request(p) == Running /\ (PlayerAnswers(p) \/ RequestFails(p) \/ SendError(p))
Waiter == Running /\ WaitGroupDone

Finished == pc \in Terminal /\ UNCHANGED vars

Next == Main \/ (\E p \in Players : Request(p)) \/ Waiter \/ Finished

(* Every goroutine is scheduled; a request ends, at the latest when its    *)
(* time is up (host/client/client_rpc.go).                                 *)
Fairness ==
  WF_vars(Main) /\ WF_vars(Waiter) /\ \A p \in Players : WF_vars(Request(p))

Spec == Init /\ [][Next]_vars /\ Fairness
=============================================================================
