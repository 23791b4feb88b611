# one-left in TLA+

A model of [one-left](../src/oneleft), a card game played by mutually
distrustful players through a host: the rules and the turn loop of a hand
(`game`), the host that keeps the players, their streams and their requests
(`host`), and the player's side of the protocol (`player`).

`PROJECT.json` lists every run, the source lines behind every definition, the
hazards of the code and the properties that cover them.

## 1. The system

| part | state it keeps | operations | talks to |
|---|---|---|---|
| cards and plays (`game/card.go`, `game/player.go`) | none | color, value, may be laid on, score, validity of an answer | everybody |
| hand (`game/hand.go`) | seat on turn, direction, discards, last wild color, who just got one left, channel of one-left calls | `play`: shuffle, deal, first discard, turns, challenge, penalty, reshuffle, victory | the deck, the players (`Play` in a goroutine of its own), the event callback |
| game (`game/game.go`) | dealer, scores | `Play`: hands until 500 | hand, event callback |
| host game (`host/game/game.go`) | last event, signatures of the last start and end | `onEvent`, and the rounds of game start, hand start and game end | one connection per player, all at once |
| host deck and host player (`host/game/deck.go`, `client_player.go`) | encrypted deck, seen keys, who holds which card | shuffle in three passes, deal, first discard, complete hand; play, challenge | connections, one after the other or all at once |
| host registry (`host/*.go`) | clients, players, chat, last event, is a game running | `OnRun`, `OnStartJoin`, `OnChatMessage`, `OnStop`, `OnEvent`, `PlayGame` | connections, host game |
| host connection (`host/client`) | four channels, two fields for the one outstanding request | `Run`, `SendNonBlocking`, `FailNonBlocking`, thirteen requests | the stream, the registry's handlers |
| player connection (`player/client`) | channels | `Run`, `SendNonBlocking` | the stream, the player handler |
| player handler (`player/*.go`) | last messages, keys, deck, own cards | one handler per request and message | the user interface |
| SRA (`crypto/sra`) | a key pair | encrypt, decrypt | handler, host deck |

What is hard in it, and what makes each part correct:

* **Hand.** Three kinds of goroutine meet in one `select`: the turn loop, the
  goroutine that waits in `Player.Play`, and everybody who calls one-left. A
  penalty can be drawn, and the deck reshuffled, while the player on turn has
  already taken a card out of its hand. It is correct when no card is lost or
  doubled, a call counts only for the window it was made in, a turn ends, one
  player wins, and an error names whoever caused it.
* **Connection.** Many goroutines write to channels that `Run` closes; one pair
  of fields says where an answer goes, is set by the request, cleared by the
  loop and left behind by a timeout. It is correct when an answer reaches the
  call it belongs to, a call hears of the end of the connection, and a failure
  that is asked for is served.
* **Registry.** Every handler is a goroutine; a join looks at the table, asks
  the player for up to a minute, and looks again under the lock. It is correct
  when seats, names and keys stay unique, a running game keeps its table, and a
  client that connects in the middle misses nothing.
* **Host game.** A round asks all players at once, in a goroutine each, and
  ends at the first error or when all have ended. It is correct when nothing
  is missing after a round that passed, the player that loses its connection is
  the one that failed, no player is asked two things at once, and no goroutine
  stays behind.
* **Host deck and player handlers.** Cards are numbers under one key per player;
  host and players each keep the deck, the keys and the hands, and judge every
  request by the last event, which comes another way. They are correct when
  all of them agree on the deck, every card can be opened by all together and
  by nobody less, and players that keep to the code are never refused or blamed.

## 2. The modules

```
Cards ──< Hand ──< HandProperties ──┬─< HandProofs               (theorems)
   │                                │        │
   ├──< CardsProperties ────────────┼────────┘
   │                                └─< MCHand                   (runs hand*)
   ├──< CardTable       (what Hand and Protocol implement)
   └──< Handler ──< Protocol ──< ProtocolProperties              (runs protocol*)
Sra ───────┘                             └──< ProtocolProofs ──< ProtocolCards
                                                  (theorems)          └──< ProtocolRefusals
                                                                             └──< ProtocolFaults
Rounds ──< RoundsProperties ──< RoundsProofs                     (runs rounds*; theorems)
Connection ──< ConnectionProperties ──┬─< MCConnection           (runs connection*)
                                      └─< ConnectionProofs       (theorems)
Host ──< HostProperties ──┬─< MCHost                             (runs host_*)
                          └─< HostProofs                         (theorems)
```

A definition that begins like another and ends in an underscore and a few words
(`Recycled_WithTop`) is a mutant: the same definition with a plausible bug, used
only to see that a property notices it.

**Cards** is the arithmetic of `card.go`: a card is its number, 0 to 107.
`NoCard` is -1 and `PlayIsValid` is `PlayerPlay.AssertValid`. What its operators
must say of all 108 cards is in **CardsProperties**; a run decides it once,
in its first state.

**Hand** is `hand.play` with everything it calls. `pc` is the point the
goroutine has reached; an action takes it from one call that leaves the
goroutine (deck, event callback, player) to the next, so that a failure of that
call and the other goroutines can come in between. `playerDraw` is a loop of
its own (`Draw`, `DealTo`, `Drawn`) and `job` remembers what it was called for.
`reply` is the buffered channel of the `Play` goroutine, `calls` is
`oneLeftCallbackChan`, `pending` is `playerIndexJustGotOneLeft`. Decks are sets:
a shuffled deck may have any card on top. The deck is that of
`gametest/simple_deck.go`, with the failures of `host/game/deck.go`.

* A player lays only cards it holds, as `PracticalPlayer` and the encryption
  of the host's deck see to; it may lay one that does not match, and is refused.
* A call on the channel of an earlier window, which the code has replaced, has
  no effect and is not a step.
* `window` in a call, `culprit` in an error, `chosen` and `lastEvent` are
  recorded for the properties; no guard looks at them. `chosen` is the card a
  player last put forward with its color, and the first card with the color
  chosen for it.
* A card dealt and an answer of `Play` are one step each (`DealTo`,
  `PlayerReplies`). The test players change one slice in both without a lock
  (`simple_deck.go:36`, `practical_player.go:47`): the model has the two in
  either order, not what a data race makes of the slice.
* With no card left to turn up after the deal, or to deal, the process panics
  (`TurnUpPanics`, `DealToPanics`).

**CardTable** is what a hand promises about cards, without goroutines, seats
in turn or messages: stock, hands, pile, face, color and a phase. `Table` in
HandProperties maps Hand to it: the card a player is laying still belongs to
its hand (`Held`), and the stock is whatever is neither held nor discarded (`Stock`). Protocol is
mapped to the same module, with the numbers under keys that the host gave away
for hands (`Table` in ProtocolProperties).

**Connection** is `client.Run` and `doRPC` of `host/client`, with the loop of
`player/client` at the other end. `senders` and `failers` are the goroutines
blocked on unbuffered channels; `receiver` is the one that receives from the
stream and what it is handing over; `valCh` and `errCh` are the two fields;
`call`, `answer` and `told` are each `doRPC` and its two channels. Requests are
told apart by their kind; `Sendable`, `Answerable` and `Matchable` are the three
tables that list the kinds. `crash` is set when a goroutine writes to a channel
that `Run` has closed, which ends the process: nothing runs any more.

**Host** is the registry: `OnRun` holds the lock from beginning to end and is
one action; `OnStartJoin`, `OnChatMessage` and `OnEvent` take it in parts, and
are one action per part. What happens on the way to a client is the subject of
Connection: here a message counts as sent when it is handed over, and handing
one to a client that has ended sets `crash`. A game is `PlayGame` and the events
it reports. A game that is complete ends in `NilError`, see section 5. A
message a player posts with a wrong number makes it a `liar`.

**Rounds** is `Game.Play` around `game.Play`, reduced to the rounds in which all
players are asked at once: `doGameStart`, `doHandStart`, `popTopCardForDeal`,
`doAllHandEnds` twice, `doGameEnd`. `task` is the goroutine of each player,
`answer` what it stores, `errCh` the channel of errors, `waiter` the goroutine
that waits for the group and writes to `doneCh`, `live` the context. A request
may fail at any moment, and once the context is cancelled it may fail for that
(`cutoff`). `TakeError` and `TakeDone` are the `select`. An error is the chain of
player indices its layers name, and `Report` is what `PlayGame` makes of it.
What an answer says is not here; in the two rounds of `CompleteHand`, whose
answers are looked at only after all have come, it is good or bad. Before the
first of them is found bad the host may meet the key of a card that was never
popped, which honest players reveal too: it has no key to compare it with and
the process dies (`KeyUnseen`, the flaw `deckKeys`). Good answers may still come
to a deck that does not match (`CardsDoNotMatch`).

**Sra** is the encryption: a number is the card it came from and the powers that
have not cancelled out, so the order of keys does not matter; 0 and 1 stay what
they are. Keys are names, and a new key is one that is used nowhere else.

**Handler** is the players' side: `mem` is the handler of each player, `line` the
request or the answer under way between it and the host, and there is an action
for each request. What a handler changes before it finds fault is changed
(`HandStart` keeps the request, `GetKey` and `GiveCard` take the card off the
deck). A refusal keeps the type of its request in `why`, for the properties.
The user interface is external: it plays any card that matches the last event
it was shown, or nothing, and chooses any color.

**Protocol** is the host's side of a whole game on those players. `pc` is where
the goroutine of the game stands; between two actions lies a request to one or
all players. An answer is taken when all have answered: which comes first, and
what an error does to the rest, is the subject of Rounds. Whose turn it is and
what one-left calls do is the subject of Hand: here any player may be next, and
this host never takes a call (`SetOneLeftCallback` is empty). An event leaves in
a goroutine of its own: it reaches a player at once, or is late (`late`) and
comes in before any later request, or after the next event, which it then
replaces. So a player has one event late at a time, overtaken by one other at most, and
`MaxLate` players have one. The goroutines of `client.go:159` have no such bound: what is
checked and proved of Protocol is about events no later than that.

With no card left to turn up the players are asked for the key of one all the same
(`TurnUp`) and index their empty decks (`handler_player.go:519`), which the host sees as
a refusal (`GetKey`). Its own index (`deck.go:174`) comes after their answers, so it is
met only when that refusal has been passed over; passing over is the subject of Rounds.

At this commit some lines stop every game that gets to them (section 5).
Rounds and Protocol name them in `Flaws`; `Mended` is the set of those a run takes
as mended, each in one place of the model, to see what the code does beyond them. With
`Mended = {}` the modules are the code as it is, which `rounds_first_error` runs.

## 3. The runs

| run | instance | states | shows |
|---|---|---|---|
| `hand` | 2 players, 2 cards each, deck of 5, 1 call waiting | 288 000 | conservation of cards, one-left windows, why the process may die, whom errors blame, refinement of CardTable, turns end |
| `hand_three_players` | 3 players, 1 card each, deck of 6, no calls | 509 000 | winner, score, color of a wild, where direction and skips matter; the rules of all 108 cards |
| `rounds` | 3 players, 2 hands, 1 card dealt, all of `Flaws` mended | 140 000 | whom an error names, what a passed round leaves out, rounds end with all their goroutines |
| `protocol` | 2 players, 1 card each, 5 cards, 50 points, 3 shuffles, 1 late event, all mended | 390 000 | host and players agree, cards stay closed and open at the end, why players refuse and are blamed, refinement of CardTable |
| `protocol_card_zero` | 2 players, 1 card each, 5 cards with card 0 and a skip, 2 shuffles | 135 000 | what becomes of a card that is the same under every key |
| `connection` | 2 calls, 1 notice, 1 failure, 1 message of the player | 622 000 | answers find their call, nobody is left waiting, a failure is served |
| `host_join` | 3 clients, 3 joins, 2 seats, 1 game, 4 identities that clash | 1 744 000 up to symmetry | seats, names, keys, the three lists of players, the table of a game |
| `host_news` | 2 clients, 1 join, 2 chat messages, log of 1, 1 game with 1 event | 4 306 000 | what a client has been sent |
| `hand_call_on_nobody`, `connection_late_send`, `host_chat_counter`, `rounds_first_error` | small | - | section 5 |

**Why the bounds are enough.** The deck of five has a number card, a draw two, a
card of another color, a wild and a wild draw four; with two cards dealt to each
of two players one is left to turn up and every draw needs a reshuffle, so the
reshuffle in the middle of a draw, the table where the players hold all the
cards and the wild draw four that leaves none to turn up occur. The deck of six adds a skip and a reverse, for three seats. One call in
the channel is enough for it to be stale; its caller and target are any players,
and nobody.

In `rounds` three players let two fail in either order while the third answers,
so that an error meets the end of a round, another error and a cut-off request;
a second hand gives every round one before it. One deal is enough, as the next
one starts from the same variables.

The runs of Protocol have two seats, a hand of one card and a goal that one or
two hands reach. The deck of `protocol` has a number card, two draw twos, a wild
and a wild draw four; that of `protocol_card_zero` has cards 0 and 1, a skip, a
draw two and a wild draw four. `MaxShuffles` counts the shuffles up to the last
reshuffle, and two are the first of a hand with one reshuffle of it, or the
first of two hands. `protocol` reaches a completed game, a hand
completed after a reshuffle, a wild on a wild draw four, the first shuffle
of a second hand, a reshuffle in the middle of a draw and a card 1 that is given
twice; `protocol_card_zero` reaches a card 0 that is lost and a reshuffle without discards. One
late event at a time is enough for a request to overtake it and for the next
event to do so: a late event is overtaken by one other at most, and comes in
right before a request of its player, the only moment at which it matters. Card
0 has a run of its own, as a hand with it seldom gets beyond the loss of that
card: what counts there is why players refuse and the host finds fault.
`protocol` has card 1, which no key hides either, but which is not empty.

On a connection two calls are enough for one to be answered in the
other's place, and a notice, a failure and a message of the player come between
them in every order. `host_join` has one seat fewer than clients that want one
and identities that share a name only, a key only, or neither, and three uses of
OnStartJoin, which one client may use several times. It uses the symmetry of
clients and of uses, which the code never compares but for equality; the run
has no liveness property. `host_news` has two messages for a log of one.

**Fairness.** Hand assumes weak fairness of the goroutine of `hand.play`, which
the scheduler runs, and of the answer to `Play`, which comes or is given up
after a minute (`maxRPCWaitTime`). Nobody has to call one-left. Connection
assumes it of the goroutine of `Run` and of the last steps of a request, which
wait for an answer, an error or a minute at most; nothing is assumed of the
player. Rounds assumes it of every goroutine, and of each request, which ends
when its minute is over at the latest. Host and Protocol have no liveness property.

**Deadlock** is checked for Hand, Rounds and Protocol, which stop only when they
are `Finished`: the hand or game has completed, failed or panicked, or, in
Protocol, the bound on shuffles is reached. It is not checked for Connection and Host, whose
traffic is bounded by constants: they stop when it is used up, or when the
process has panicked.

## 4. The theorems

They hold for any number of players, clients, handlers, games, hands, deals, calls
and notices, and for any deck, under the assumptions named in Hand, Host, Rounds
and Connection: at least two players in a hand and one in a game, cards among
the 108, a positive hand size, limits in `Nat`, and names of calls and notices
that are nobody else's; those of Protocol under the assumptions of Handler and
Protocol, whatever is taken as mended, for events as late as `Send` lets them be
(section 2) and any `MaxLate`.

**Hand.**

* `HandProofs!TypeCorrect`: `[](TypeOK /\ TopKnown)`. TypeOK alone is not inductive:
  `Discard` moves the top card to the pile, which is a card only because no turn
  is reached before one is turned up; `TopKnown` says so.
* `HandProofs!CardsConserved`: `[]Conservation`. The inductive invariant `CardInv`
  adds `TopKnown` and `NothingDealtYet` (before the first shuffle no card is
  anywhere, which `Shuffle` needs, as it takes all of them into the deck). Most
  actions move no card (`Quiet`); the eight that do have one lemma,
  `MovesConserve`.
* The other invariants of a hand rest on `HandInv`: `CardInv`
  and a part for each thing a turn remembers. A draw is a loop that returns to
  where it was called from, so most parts speak of a place in `play` as `Within`:
  there, or in a draw that leads back there.
  `JobInv` and `ReplyInv` say what a draw was called for and when an answer may
  wait; `TopInv` where the top card is no card, a wild or a wild draw four;
  `ColorInv` that the color is one of the four before it counts, `ChosenInv` that what was
  last chosen was chosen for the top card or the one on its way to it; `DeckInv` that a deck still
  empty after the shuffle leaves no discards; `ErrInv` that an error is that of
  the end; `WindowInv` that the window is that of a player with one card
  and closed while an answer is being looked at; `DealInv` that after k deals
  the k seats before the one on turn hold a card; `EmptyInv` who can be out of cards.
  - `WindowHolds` and `NoStaleCallHolds`: a call is always one for the window that
    is open, because a window is opened only with a new channel.
  - `SoleWinnerHolds`: from `EmptyInv`, which needs `DealInv` (everybody holds a card when
    the first turn begins) and that only the player on turn lays cards.
  - `WildHasColorHolds` from `ChosenInv`; `PanicExplainedHolds` (a draw that finds nothing
    finds deck and discards empty, so by Conservation the players hold the rest; where no first
    card is left they hold all but the wild draw fours that `TopInv` knows of) and `BlameHolds`.
* `HandProofs!RefinesCardTable`: Hand implements CardTable. `StepMaps` takes the
  steps of Hand one by one: most leave the table as it is (`SameCards`, `PhaseSteps`), a card drawn
  is a `Take` from the stock, `Apply` a `Lay` by the owner, a reshuffle a
  `Recycle`. `HandInv` is needed where the table asks for more
  than the code looks at: the winner has no cards and the others have, a reshuffle has taken the whole
  pile, and a card on its way from a player to the pile still is that player's.

**Cards.** HandProofs extends CardsProperties too.

* `ScoreIsTheRestHolds`: for any deck, the score of a hand, which adds up the cards the
  players hold, is that of the whole deck less that of the cards in the deck and the
  discards. `DoneHasTop` says that a hand that is done has a card on top. That the
  sums add up needs Conservation and facts about folds over every set of cards. The induction theorems
  of the library are out of the provers' reach, so each such fact is proved by its
  smallest counterexample: `SmallestSet` and `SmallestNumber` pick one from
  the well-foundedness of the strict subset order and of `<`. `TotalsExist` finds
  the function that a fold computes, `SumIsThat` that the fold is that function,
  `AnyCardFirst` that the order of the cards does not matter, and `ScoresAdd` that
  sums over disjoint sets add up.
* `NumbersAreFacesHolds`: about all 108 numbers, of which any may be in the deck;
  `Pairs` and `Runs` count the numbers of a face as intervals of `card.go`.

**Connection.** `ConnectionInv` is TypeOK and three parts. `PlaceInv` says that a request
and its answer are in one place at a time, of the five between the host and the
channel of `doRPC`; `TurnInv` that while no call has lost its place the call that the two
fields name is the only one under way, and nobody else's answer can come;
`SlotInv` that the error field belongs to the call of the other, and that a
call which waits and is not named by it has been told or has lost its place. They give `TypeCorrect`,
`AnswersReachTheirCalls`, `NobodyIsLeftWaiting` and `CallsAreSomewhere`.

**Host.**

* `HostProofs!TypeCorrect`: `[]TypeOK`, by itself inductive.
* `SeatsAreLimited`, `NamesAndKeysAreUnique`, `OneListOfPlayers`: from
  `HostInv`, which is TypeOK, `GreetedOnce` and the three properties together.
  They need each other: a client whose entry is a guest's is in no list, so
  adding it keeps the lists and the entries together. `GreetedOnce` says that a
  client whose `OnRun` has not run has no entry yet, without which a late
  `OnRun` would turn a player into a guest.
* `PlayersStay`: the action property `MembersRemain`, from the same invariant.
* `NobodyJoinsAGame`: `TableIsFixed`, from `OneGame`: with one use of `PlayGame`,
  a game under way means that the flag is set and the table is the game's.
* `NobodyMissesAnything`: `NothingIsMissed`, from `ViewInv`; `EventInv` in it adds
  that the event on its way is the last one. About the event the property speaks of a single
  game: with two at once, one may have stored its event and not sent it
  while the other has sent its own, and a client in between has the older one.

**Rounds.**

* `RoundsProofs!TypeCorrect`: `[]TypeOK`, from `TypeInv`, which adds `HandsCounted`
  (a hand begins only while the bound leaves room) and `ErrNames` (the chain of an
  error ends in its culprit, so that what `Report` finds is a seat).
* `OneRequestEachHolds`, `BlameIsDeservedHolds`, `MissingIsExcusedHolds`: from
  `RoundInv`. `WaitIsForAll` says that the wait is over only when every goroutine
  has ended, `SeatsAsked` that only the receiver of a card is not asked, and
  `Accounted` that who has ended has answered or sent an error: together they leave
  an error in `errCh` for every answer that is missing. `RoundIsLive` says that
  while the game still selects, the context is live, so every error in `errCh` is
  its player's own and of this round; that is what the blame rests on. `MainCases` sorts the seventeen actions of
  the game by what they do to a round.
* `PanicExplainedHolds`: under `Mended = Flaws`, as the four known flaws (the panic on a
  key never seen is one of them) stop the game without any error. A panic that is left is a nil key or signature (`MissingAnswer`),
  and `RoundInv` traces it to an error that was passed over.

**Protocol.** `ProtocolProofs!CardsStayHiddenHolds`: the keys that went through the host's hands
open no card of the deck or of a hand. `ProtocolInv` says where every key is:

* `HostKeys` is what the property needs: the j-th number of the deck is locked by the
  j-th keys of the last shuffle (`LockedBy`), a number that has left the deck by keys
  of its own, and a key the host has seen is one of those on its number (`Fits`), never
  the holder's while the card is held. Two numbers never share their locks, so no seen key
  is one of those on a number of the deck (`StaysHidden`).
* 0 and 1 have no locks. A key filed for one of them might be shown while some other
  number is under it; `Free` says that none is, as each key is made for one place of
  one shuffle.
* `PlayerKeys` says that what the players have filed and hold fits as well,
  `MixInv` how far each number and each player is in the three passes of a shuffle
  (`Halfway`), and `WireInv` which requests and answers are under way, and that decks
  are the host's when a key is asked for: a key for the wrong top card would be
  shown for a number that is not its own.
* When the game has ended the players go on answering, so only `HostKeys` and
  the shapes of the variables last beyond it.

Most steps of the host move no card (`Quiet`, `QuietKeeps`). The others have a lemma
each: numbers leave the deck (`PopKeeps`), a shuffle begins (`ShuffleBegins`),
is passed on and ends. On the players' side `StepKeeps` says what is
left to show of an answer, and `ShuffleStepKeeps` of one to a shuffle.

`ProtocolProofs!TablesAlwaysAgree`: between two requests the players' decks and hands
are the host's. It assumes that the deal takes at least one card and leaves at
least one (`N * HandSize \in 1..Cardinality(StartCards)-1`; the code deals 7 of 108
to each, which limits it to 15 players), as what the code does with no first
discard is another matter. `TableInv` adds to `ProtocolInv`:

* `HandAgrees`: a player's cards have different numbers, which the host has it down
  for and which are in its `given`, and what the host has beyond them is a card without bytes, one
  on its way to the hand (`Coming`) or from it (`Leaving`). Every number in any
  hand is in the `given` of every player but the one it is coming to, so the
  players refuse to deal one twice.
* That holds until a shuffle starts over with all cards. A reshuffle leaves out what
  is held; it goes back to the full deck only in a second hand, or when there is no discard
  but the top one. `Place` and `Told3` say why seat 0 refuses it: three events
  that show the hand are sent before the first turn, one event may be late at each
  player at most, so by then every player's last event shows a pile of discards.
* `Counts`: deck, hands and discards always are `Cardinality(StartCards)` cards. So the
  pile in any event has no more, and with the card that is its top the player takes off
  it expects fewer cards than the full deck. `Doomed` is the state in which that
  request is under way; a refusal is all that can come of it.

A hand never gets past that refusal, whichever flaws are mended: the agreement of
the tables rests on it.

`ProtocolCards!DeckAlwaysOpens`, under the same assumption: the deck opens with the
keys its players have filed, and with the hands and the discards it is a full deck. It
has three parts:

* Opening. `Decrypted` takes the keys off in an order that a `CHOOSE` fixes and nobody knows.
  `AllOpen`: with a key of every player that fits, a number comes to its card without any
  lock. The fold is a function on the sets of players; what it is to be for each of them
  (`Unlocked`) is solved by one function only, as the smallest set on which
  two solutions differ has none below it on which they do (`FewestPlayers`, `DecryptedIsThat`).
* Counting. `Sorted` puts cards in order by rank, which says what `sort.Slice` does to different
  numbers and can be reasoned about, where the SortSeq of TLC cannot. The cards that are smaller
  than one of a pack number its place in the full deck (`Ranks`, `EveryRank`), so any sequence
  of all its cards, each once, comes out as the full deck (`SortedIsFullDeck`).
* Moving. `CardsInv` says that numbers are cards of the start (`Opening`), and that these are in
  the deck, in one hand or among the discards, each once (`Split`), or, while they are being
  shuffled, in the working set (`Shuffled`). A shuffle keeps the cards in each of its stages
  (`Stage0Deals`, `Stage1Deals`), and a card that is turned up or played is the one that its
  number stood for (`TurnedUpDeals`, `GenuineCard`), because the keys that the host
  has seen, or the player has kept, fit (`HostKeys`).

`ProtocolCards!GameRefinesCardTable`, under that assumption too: Protocol implements CardTable
within each hand. `OrderInv` is what it adds to the invariants above: what is asked for when a hand
begins is what the top card calls for (`TopCalls`: a card is turned up after a wild draw four, a
color asked for a wild, two cards drawn for a draw two), the discards are shuffled from under the
top card, a card that is played comes with color 0, signatures are there from the first end
of a hand on, and exactly one player is out of cards when a hand ends. `StepMaps` takes the steps
one by one: those that move no card leave the table alone, begin the play or fail (`StillMaps`);
`KeysGiven` is a `Take` for the player on turn, `TurnedUp` a `TurnUp`, `CardPlayed` a `Lay` by
the owner (`GenuineCard`), `ShuffleDone` a `Recycle` of a used up stock, `HandSigned`
a `Win`. The stock is the deck because of `Split`.

`ProtocolCards!OneHandIsPlayed` states that refusal for itself: once there is a second hand,
the game has not shuffled yet, is over, or waits at the first seat for an answer to the first
request of the shuffle, which is `Doomed` or has been refused. `SecondInv` is inductive over
`CardsInv`: nothing that the players remember of the first hand is forgotten on the way.

`ProtocolCards!TypeCorrect`: `[]TypeOK` for Protocol, under that assumption too. Few of its parts
stand by themselves:

* `KeyInv`: the numbers of the deck, the hands and the working set are cards of the start under
  keys of shuffles that have begun. A working set goes through requests and answers, so
  `SendsKeys` types the lines as well, and `Halfway`, which says under which keys the numbers are in
  each pass, gives the type of what comes back. Keys are made for the places of a
  sequence that is no longer than the deck (`FewFaces`), because its cards differ.
* `TypesInv`: start and discards are cards of the start. What `decryptCard` makes of a number
  is a card only because the keys fit (`TurnedUpDeals`, `GenuineCard`).
* `ScoresInv`: the sum of a hand is a number. `CompleteHand` adds up in the order of a fold whose
  choices nobody knows, over sequences flattened by recursion, so that both come to anything at all
  is by smallest counterexamples once more (`ScoresAddUp`, `FlattenIsIn`).
* `LateInv` and `PlaceInv`: an event is late for one player at a time and as often as
  `MaxLate` allows, and the shuffles are no more than `MaxShuffles` and one for each hand.

`ProtocolRefusals!RefusalsAreExplained`, under that assumption and `Mended = Flaws` (as in the run
`protocol`: a host with the known flaws is refused, or panics, in every game): players that
have seen the last event take what they are asked, but in the cases that `RefusalsExplained`
names, the key of a top card when none is left among them. `AskedInv` is the inductive form: what is under way and not in `Excused` would be
taken (`Takes`) by the player as it is once the last event has come in (`Informed`), and who has
refused is `Behind` or excused. Host and player each have their own record of what `Takes` compares, so
that needs an invariant for each pair of records:

* What events say. `CurrentInv` is where the last event shows the hand as it is, `FirstInv` what it
  shows when the first card is turned up, with the wild draw fours that lie under it.
* Who is asked what. `WhereInv` relates the requests to the place of the game, `BeginInv` the
  starts, scores, dealers and signatures on both sides, `TurnInv` the seats to the cards that have been
  dealt: the first color is asked of the seat after the dealer.
* Which cards. `ShuffleInv` and `RememberInv` are about the cards of a shuffle, `GivenInv`
  says that all players know of the same numbers that have come out, `PairsInv` that they have filed
  keys for the same ones. A number that comes out a second time is one that no key changes (`TopIsNew`).
* What is shown at the end. `RevealInv` says that what players reveal is what they have filed.
  The host looks at it with the same sums and keys as each player does (`OpenWithIsThat`,
  `RevealedFits`), so what passes there is not refused.

`ProtocolFaults!FaultsAreExplained`, under the same assumptions: a game that no player has refused
fails only after a card laid by an event that is late, one that was lost as no bytes (`Empty`), or
one that no key changes and that was shuffled again. The theorem before says what players
take of the host; this one what the host takes of them. `FaultInv` is the inductive form: where a
game has failed, somebody's refusal is on its line, or there is an answer and `Blamed` holds. Besides
refusals the host fails a game in five places. A working set keeps its length (`PassOnGoesOn`) and the first
card opens (`TurnedUpDeals`) by what is proved above; the end of a turn, a card laid
and a hand revealed need:

* Who holds cards. `HeldInv`: after k deals the k seats in turn hold a card, everyone does before
  a card is laid, and at most one player holds none after. So the end of a turn never finds two
  winners, which takes that a draw fails or returns to where it was called from.
* What is laid. `LaidInv`: a card laid by a player that has seen the last event lies on the top and
  color the host goes by, as the last event shows both whenever a play is asked for (`CurrentInv`).
* The keys. `SeenInv`: for each number that has come out, the host has seen the keys the
  players have filed, of a held card all but the holder's, and a player's cards, those it plays
  and those it reveals, have their faces and those keys. It holds for numbers that are `Kept`: one
  that no key changes is filed anew when its card is shuffled again, hence the exception for cards 0
  and 1. So `PlayIsGenuine` finds of a card what it opens (`LaidIsGenuine`).
* What is revealed. Keys and cards of each answer fit what the host has seen (`AnswersFit`), all
  keys together open deck and hands (`AllIsRevealed`), and the cards come to the full deck
  (`AllCardsFit`). That last one is about a sequence that `FlattenSeq` puts together by recursion;
  `FlattenApart` shows by a smallest counterexample that it repeats no card.

**Model-checked only.** Liveness (`TurnEnds`, `FailIsServed`, `RoundSettles`), which needs
fairness and ENABLED.

## 5. What the code does not keep

Four runs show the code disagree with one of its comments or messages:

* `hand_call_on_nobody`: with no one-left pending the pending index is -1, and a
  call on -1 makes player -1 draw (`hand.go:52`); the deal panics.
* `connection_late_send`: a message sent after `Run` has returned is written to
  a closed channel instead of being answered "Not running" (`client.go:156`).
* `host_chat_counter`: two messages of one player are handled by two goroutines,
  and the honest player is failed for the order they ran in
  (`request_handler.go:43`).
* `rounds_first_error`: "first err causes failure" (`deck.go:358`), but the
  error of the last goroutine and the end of the round are ready together, and
  `select` may take the end: the round passes without that player's answer.

The properties of Protocol list the cases in which a host that keeps to the code
meets players that keep to it and the game fails all the same
(`RefusalsExplained`, `FaultsExplained`):

* `client.go:159`: every message leaves through a goroutine of its own, so a
  request overtakes the event it is judged by, and an older event may replace a
  newer one for good.
* `hand.go:328`: a reshuffle in the middle of a draw comes before an event has
  shown an empty deck, or finds no discards under the top card; the players
  refuse it (`handler_player.go:402`).
* `handler_player.go:400`: the event of the end of a hand carries that hand, so
  the first shuffle of a second hand is taken for a reshuffle and refused.
* `hand.go:257`: the color of a wild that follows a wild draw four is asked for
  after an event that is not a deal; `handler_player.go:491` refuses it.
* `handler_player.go:606`: a player cannot play nothing, as "no card" is looked
  for among its cards. The color is cleared for the wild cards it was asked for
  (`:610`; "only when wild card", says `player.proto:155`).
* `handler_player.go:666`: a challenge makes the challenged player panic.
* `client_player.go:36`: card 0 is sent as no bytes, which is read as no card,
  and the player that sent it has lost it. Cards 0 and 1 are the same under every
  key, so after a reshuffle they count as given already.

These lines stop every game that gets to them, and are names in `Flaws`:

* `game.go:218` of `host/game` announces dealer 1 for the first hand,
  `handler_player.go:152` expects 0.
* `newDeck` ends in `panic("TODO")`, and nothing assigns `Game.deck`, which
  `client_player.go:47` and `event.go:20` read.
* `deck.go:137` takes the bytes of the key it did not ask for, a nil pointer.
* `cardCount` is never updated, so `CompleteHand` finds as many winners as
  players (`deck.go:197`); and it indexes the seen keys of cards that were never popped,
  a nil slice (`deck.go:257`), which ends the process with honest answers (`deckKeys`, in Rounds too).
* A second hand is announced without the signatures of the end of the first
  (`game.go:214`), which the handlers want.
* `game.go:65` turns a nil `*GameError` into an `error` that is not nil,
  so a complete game is reported as failed, with a panic.

Others were met while reading, or are cases in the models of one side:

* `client_player.go:103` asks the challenged player again instead of the
  challenger, and blames the challenger for a failure of that request; the
  penalty of a one-left call is put down to the player on turn. Both are the
  exceptions in `BlameIsCulpritElsewhere`.
* `hand.go:328`: nothing can be drawn when the players hold all cards but the
  top one, and `hand.go:223`: nothing can be turned up when the deal has left no card, or wild
  draw fours only. These are the other cases of `PanicExplained`; with 108 cards the second takes 15
  players or more.
* `request_handler.go:119`: a join that is answered without a player panics (`JoinIsAnswered` in Host).
* `client.go:91`: the goroutine that receives from the stream writes to a closed
  channel once `Run` has returned, the goroutines blocked on the channels panic
  as soon as they are closed (`Receive`, `Close` in Connection), and a client
  that has left stays in `Host.clients` (`HandOver` in Host).
* `client_rpc.go:33`: after a timeout the two fields still name the request that
  has given up, and only its buffered channel keeps a late answer from blocking
  the loop.
* `client_rpc.go:222`: game end and hand end cannot be sent, answers to a shuffle
  cannot be sent, and two requests compare their answers with the wrong type
  (`Sendable`, `Answerable`, `Matchable` in Connection). Protocol takes a
  connection to carry every kind.
* Two overlapping games share one flag (`host.go:48-57`); `OnStop` replaces the
  other players by the one that stopped (`request_handler.go:193`), and nothing
  calls it.
* The bytes that are signed hold maps, which the protobuf library may order
  differently at either end (`deck.go:337`).

## 6. What is not modelled

Outside: payloads, signatures and generated code (`pb`): messages are records,
a signature by all is the name of what was signed, and equal messages have
equal bytes. The conversion of messages for the user interface
(`player/iface_convert.go`) and the interface itself, random numbers
(`crypto/rand.go`), and `main.go`, which is a `panic("TODO")`.

Left out on purpose:

* The data race of the test players, whose slice of cards `DealTo` and `Play` change without a
  lock (section 2, Hand). It is theirs alone: the host, which takes no calls, deals no penalty
  while it asks a player to play, and what a torn slice holds says nothing about the game.
* `OnStop` of the registry, which nothing calls, and two uses of `PlayGame` at
  once, of which nothing says what they should do.
* The handlers of a player for welcome, players, chat and errors, which
  hand their message to the interface and keep nothing.
* A player that does not keep to the code: in Protocol a request fails only where
  the code refuses it. Requests that fail for other reasons are in Rounds,
  Connection and Hand, each for the layer it models.
* One module for all layers: the instance of Protocol stands between Hand,
  whose turns it leaves open, and Rounds, whose goroutines it takes as one step.
