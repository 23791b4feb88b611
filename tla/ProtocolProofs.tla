--------------------------- MODULE ProtocolProofs ---------------------------
(***************************************************************************)
(* Proofs about a game with encrypted cards, for every number of players,  *)
(* deck, hand size and order of events: which keys lock which number, that *)
(* the keys the host has seen do not open what is to stay closed, and, for *)
(* every deck that is not dealt out before the first turn, that host and   *)
(* players agree on the deck and the hands.                                *)
(***************************************************************************)
EXTENDS ProtocolProperties, FiniteSetTheorems, SequenceTheorems, TLAPS

IsSeq(s) == s \in Seq(Range(s))
IsNumber(v) == v = [card |-> v.card, powers |-> v.powers]
Hidden(v) == v.card \notin Fixed

\* The powers of a number under the i-th key of every player in shuffle k.
LockedBy(k, i) == {<<<<p, k, i>>, 1>> : p \in Players}

\* The powers of the i-th number of the working set when it comes to seat s.
Halfway(st, s, i) ==
  IF st = 0 THEN {<<<<p, shuffles, 0>>, 1>> : p \in 0..s-1}
  ELSE {<<<<p, shuffles, IF st = 2 \/ p < s THEN i ELSE 0>>, 1>> : p \in Players}

\* The last shuffle whose keys have been filed.
Known == IF pc = "Shuffle" /\ stage < 2 THEN shuffles - 1 ELSE shuffles

Indices == Nat \ {0}

\* The numbers that have left the deck.
Out == DOMAIN seen

\* The i-th keys of shuffle k lock no number that has left the deck, nor the i-th in it.
Free(k, i) ==
  /\ \A v \in Out : Hidden(v) => v.powers # LockedBy(k, i)
  /\ k = shuffles => i \in DOMAIN work /\ ~Hidden(work[i])

\* The key of p is of the keys that lock v, or if nothing can, of keys that lock nothing.
Fits(p, v, key) ==
  \E k \in Nat, i \in Indices :
    /\ k <= Known
    /\ key = <<p, k, i>>
    /\ IF Hidden(v) THEN v.powers = LockedBy(k, i) ELSE Free(k, i)

\* What the variables are made of.
Shape ==
  /\ turn \in Players /\ seat \in Players /\ dealer \in Players
  /\ stage \in 0..2 /\ shuffles \in Nat
  /\ DOMAIN line = Players /\ DOMAIN mem = Players
  /\ \A p \in Players : DOMAIN mem[p] = DOMAIN Forgotten
  /\ IsSeq(work) /\ IsSeq(deck) /\ IsSeq(discard)
  /\ \A i \in DOMAIN work : IsNumber(work[i])
  /\ pc \in {"Start", "GameStart"} => deck = <<>>
  /\ DOMAIN job = DOMAIN NoJob /\ job.then \in {"none", "Deal", "Again", "Turn", "EndTurn"}

(* The numbers of the deck are under the last keys, each under those of    *)
(* its place, and those that have left it under others.  A key the host    *)
(* has seen is one of the keys on its number, and of a card that is held   *)
(* it has not seen the holder's.                                           *)
HostKeys ==
  /\ Len(deck) <= Len(work)
  /\ \A j \in 1..Len(deck) :
       deck[j] = work[j] /\ (Hidden(deck[j]) => deck[j].powers = LockedBy(shuffles, j))
  /\ \A v \in Out : Hidden(v) =>
       \E k \in Nat, i \in Indices :
         /\ k <= shuffles /\ v.powers = LockedBy(k, i)
         /\ k = shuffles => i > Len(deck) /\ pc # "Shuffle"
  /\ \A v, w \in Out : Hidden(v) /\ Hidden(w) /\ v.powers = w.powers => v = w
  /\ \A v \in DOMAIN held :
       held[v] \in Players /\ v \in Out /\ (Hidden(v) => seen[v][held[v]] = NoKey)
  /\ \A v \in Out :
       /\ DOMAIN seen[v] = Players
       /\ \A p \in Players : seen[v][p] = NoKey \/ Fits(p, v, seen[v][p])

\* So are the keys a player has filed and those of the cards it was given.
PlayerKeys ==
  \A p \in Players :
    /\ \A v \in DOMAIN mem[p].cardPairs : Fits(p, v, mem[p].cardPairs[v])
    /\ IsSeq(mem[p].myCards)
    /\ \A c \in Range(mem[p].myCards) : Fits(p, c.number, c.keys[p])

\* The player has answered stage st of the shuffle.
Ended(p, st) ==
  pc = "Shuffle" =>
    stage > st \/ (stage = st /\ (p < seat \/ (p = seat /\ line[p].type \in {"cards", "taken"})))

\* How far the working set and the players' keys are in a shuffle.
MixInv ==
  /\ pc = "Shuffle" =>
       /\ deck = <<>>
       /\ \A i \in DOMAIN work : Hidden(work[i]) => work[i].powers = Halfway(stage, seat, i)
       /\ \A p \in Players :
            /\ Ended(p, 0) /\ ~Ended(p, 1) => mem[p].stage0 = <<p, shuffles, 0>>
            /\ Ended(p, 1) /\ ~Ended(p, 2) =>
                 mem[p].stage1 = [i \in DOMAIN work |-> <<p, shuffles, i>>]
            /\ Ended(p, 2) => mem[p].deck = work
       /\ line[seat].type = "cards" =>
            /\ stage < 2 /\ IsSeq(line[seat].cards)
            /\ stage = 1 => DOMAIN line[seat].cards = DOMAIN work
            /\ \A i \in DOMAIN line[seat].cards :
                 /\ IsNumber(line[seat].cards[i])
                 /\ Hidden(line[seat].cards[i]) =>
                      line[seat].cards[i].powers = Halfway(stage, seat + 1, i)
       /\ line[seat].type = "taken" => stage = 2
  /\ \A p \in Players : mem[p].shuffles = IF Ended(p, 0) THEN shuffles ELSE shuffles - 1

Refusal(r) == r.type = "refused"

\* A player that was asked for the key of the top card.
KeyCase(p) ==
  \/ line[p].type = "Key" /\ mem[p].deck = deck
  \/ Refusal(line[p])
  \/ /\ line[p].type = "key" /\ deck # <<>>
     /\ mem[p].deck = Seqs!Front(deck)
     /\ Fits(p, Seqs!Last(deck), line[p].key)

GiveCase(p) ==
  \/ /\ line[p].type = "Give" /\ DOMAIN line[p].keys = Players
     /\ mem[p].deck # <<>> /\ Seqs!Front(mem[p].deck) = deck
  \/ Refusal(line[p])
  \/ line[p].type = "taken" /\ mem[p].deck = deck

PlayCase(p) ==
  \/ line[p].type = "Play"
  \/ Refusal(line[p])
  \/ line[p].type = "play" /\ Fits(p, line[p].number, line[p].keys[p])

ShuffleCase(p) ==
  \/ line[p].type = "Shuffle" /\ line[p].stage = stage /\ line[p].cards = work
  \/ Refusal(line[p])
  \/ line[p].type \in {"cards", "taken"}

\* Where numbers and keys are asked for, and by which requests.
WithCards == {"Shuffle", "Keys", "FirstKeys", "Give", "Play", "PlayAgain"}
ForCards == {"Shuffle", "Key", "Give", "Play"}

\* The requests and answers under way, and whose decks the host's agrees with.
WireInv ==
  /\ pc = "Shuffle" =>
       ShuffleCase(seat) /\ \A p \in Players \ {seat} : line[p] = Idle
  /\ pc = "Keys" =>
       /\ deck # <<>> /\ line[turn] = Idle /\ mem[turn].deck = deck
       /\ \A p \in Players \ {turn} : KeyCase(p)
  /\ pc = "FirstKeys" => \A p \in Players : KeyCase(p)
  /\ pc = "Give" =>
       GiveCase(turn) /\ \A p \in Players \ {turn} : line[p] = Idle /\ mem[p].deck = deck
  /\ pc \in {"Play", "PlayAgain"} =>
       PlayCase(turn) /\ \A p \in Players \ {turn} : line[p] = Idle
  /\ pc \notin WithCards => \A p \in Players : line[p].type \notin ForCards
  /\ pc # "GameStart" => \A p \in Players : line[p].type # "GameStart"
  /\ pc \notin WithCards \ {"Play", "PlayAgain"} => \A p \in Players : mem[p].deck = deck

Live == WireInv /\ MixInv /\ PlayerKeys

ProtocolInv == Shape /\ HostKeys /\ (pc \notin Terminal => Live)
-----------------------------------------------------------------------------
\* Sequences

(* The first and the last of a sequence.                                   *)
LEMMA FrontAndLast ==
  ASSUME NEW s, IsSeq(s)
  PROVE  /\ IsSeq(Seqs!Front(s))
         /\ s # <<>> =>
              /\ Len(s) \in Nat \ {0}
              /\ Len(Seqs!Front(s)) = Len(s) - 1
              /\ \A j \in 1..Len(s)-1 : Seqs!Front(s)[j] = s[j]
              /\ Seqs!Last(s) = s[Len(s)]
<1> DEFINE S == Range(s)
<1>1. s \in Seq(S) /\ Len(s) \in Nat /\ DOMAIN s = 1..Len(s) /\ (s # <<>> => Len(s) # 0)
  BY LenProperties, EmptySeq DEF IsSeq
<1>2. \A i \in 1..(Len(s) - 1) : s[i] \in S
  BY <1>1
<1>3. LET f == SubSeq(s, 1, Len(s) - 1) IN
        /\ f \in Seq(S)
        /\ Len(f) = IF 1 <= Len(s) - 1 THEN Len(s) - 1 - 1 + 1 ELSE 0
        /\ \A i \in 1..(Len(s) - 1) - 1 + 1 : f[i] = s[1 + i - 1]
  <2> 1 \in Int /\ Len(s) - 1 \in Int
    BY <1>1
  <2> QED
    BY <1>1, <1>2, SubSeqProperties
<1>4. Seqs!Front(s) \in Seq(S)
  BY <1>3 DEF Seqs!Front
<1>5. IsSeq(Seqs!Front(s))
  BY <1>4, SeqOfRange DEF IsSeq
<1> QED
  BY <1>1, <1>3, <1>5 DEF Seqs!Front, Seqs!Last

(* A function on 1..n is a sequence.                                       *)
LEMMA OnInterval ==
  ASSUME NEW n \in Nat, NEW s, DOMAIN s = 1..n, s = [i \in DOMAIN s |-> s[i]]
  PROVE  IsSeq(s) /\ Len(s) = n
<1>1. s \in [1..n -> Range(s)]
  BY DEF Range
<1>2. s \in Seq(Range(s))
  BY <1>1, SeqDef
<1> QED
  BY <1>2, LenProperties DEF IsSeq

LEMMA SeqFacts ==
  ASSUME NEW s, IsSeq(s)
  PROVE  /\ Len(s) \in Nat /\ DOMAIN s = 1..Len(s)
         /\ s = [i \in DOMAIN s |-> s[i]]
         /\ s = <<>> <=> Len(s) = 0
BY LenProperties, EmptySeq DEF IsSeq

LEMMA EmptyIsSeq == IsSeq(<<>>) /\ Len(<<>>) = 0 /\ DOMAIN <<>> = {}
<1>1. <<>> \in Seq({}) /\ Len(<<>>) = 0
  BY EmptySeq
<1> QED
  BY <1>1, SeqOfRange, LenProperties DEF IsSeq

(* A sequence with one more at its end.                                    *)
LEMMA Appended ==
  ASSUME NEW s, IsSeq(s), NEW e
  PROVE  IsSeq(Append(s, e)) /\ Range(Append(s, e)) \subseteq Range(s) \cup {e}
<1> DEFINE S == Range(s) \cup {e}
<1>1. s \in Seq(S)
  BY SeqMonotonic DEF IsSeq
<1>2. Append(s, e) \in Seq(S)
  BY <1>1, AppendProperties
<1> QED
  BY <1>2, SeqOfRange, RangeOfSeq DEF IsSeq

(* A sequence without one of its elements.                                 *)
LEMMA Removed ==
  ASSUME NEW s, IsSeq(s), NEW i \in DOMAIN s
  PROVE  IsSeq(Seqs!RemoveAt(s, i)) /\ Range(Seqs!RemoveAt(s, i)) \subseteq Range(s)
<1> DEFINE S == Range(s)
           before == SubSeq(s, 1, i - 1)
           after == SubSeq(s, i + 1, Len(s))
<1>1. s \in Seq(S) /\ Len(s) \in Nat /\ DOMAIN s = 1..Len(s) /\ i \in 1..Len(s)
  BY LenProperties DEF IsSeq
<1>2. before \in Seq(S)
  <2>1. 1 \in Int /\ i - 1 \in Int /\ \A j \in 1..(i - 1) : s[j] \in S
    BY <1>1 DEF Range
  <2> QED
    BY <2>1, SubSeqProperties
<1>3. after \in Seq(S)
  <2>1. i + 1 \in Int /\ Len(s) \in Int /\ \A j \in i + 1..Len(s) : s[j] \in S
    BY <1>1 DEF Range
  <2> QED
    BY <2>1, SubSeqProperties
<1>4. before \o after \in Seq(S)
  <2> HIDE DEF before, after, S
  <2> QED
    BY <1>2, <1>3, ConcatProperties
<1> QED
  BY <1>4, SeqOfRange, RangeOfSeq DEF IsSeq, Seqs!RemoveAt

(* An order of finitely many things is a sequence of them.                 *)
LEMMA Orders ==
  ASSUME NEW S, IsFiniteSet(S), NEW s \in Seqs!SetToSeqs(S)
  PROVE  IsSeq(s) /\ \A i \in DOMAIN s : s[i] \in S
<1>1. Cardinality(S) \in Nat
  BY FS_CardinalityType
<1>2. s \in [1..Cardinality(S) -> S]
  <2>1. Seqs!Cardinality(S) = Cardinality(S)
    BY DEF Seqs!Cardinality, Cardinality
  <2> QED
    BY <2>1 DEF Seqs!SetToSeqs
<1>3. DOMAIN s = 1..Cardinality(S) /\ s = [i \in DOMAIN s |-> s[i]]
  BY <1>2
<1> QED
  BY <1>1, <1>2, <1>3, OnInterval

(* A full deck is a sequence, as there are no more than 108 cards.         *)
LEMMA FullDeckIsSeq == IsSeq(FullDeck)
<1>1. IsFiniteSet(Deck108)
  BY FS_Interval, 0 \in Int, 107 \in Int DEF Deck108
<1>2. Cardinality(StartCards) \in Nat
  BY <1>1, CardsAssumption, FS_Subset, FS_CardinalityType
<1> HIDE DEF Cardinality
<1> DEFINE nth(i) == CHOOSE card \in StartCards : Cardinality({c \in StartCards : c < card}) = i - 1
<1>3. FullDeck = [i \in 1..Cardinality(StartCards) |-> nth(i)]
  BY DEF FullDeck
<1> HIDE DEF nth
<1> QED
  BY <1>2, <1>3, OnInterval

LEMMA ToShuffleIsSeq ==
  ASSUME NEW cards, IsSeq(cards)
  PROVE  IsSeq(FromCards(cards))
BY FullDeckIsSeq DEF FromCards
-----------------------------------------------------------------------------
\* Seats and keys

(* After the last seat comes the first.                                    *)
LEMMA SeatAfter ==
  ASSUME NEW p \in Players
  PROVE  /\ NextSeat(p) \in Players
         /\ NextSeat(p) = IF p = N - 1 THEN 0 ELSE p + 1
BY NAssumption DEF NextSeat, Players

(* Other keys lock otherwise.                                              *)
LEMMA LocksDiffer ==
  ASSUME NEW k, NEW i, NEW l, NEW j, LockedBy(k, i) = LockedBy(l, j)
  PROVE  k = l /\ i = j
<1>1. 0 \in Players
  BY NAssumption DEF Players
<1>2. <<<<0, k, i>>, 1>> \in LockedBy(l, j)
  BY <1>1 DEF LockedBy
<1> QED
  BY <1>2 DEF LockedBy

(* A key that went through the host's hands did so for one number of its   *)
(* player's.                                                               *)
LEMMA KeyWasFor ==
  ASSUME HostKeys, NEW p, NEW k, NEW i, <<p, k, i>> \in KeysShown
  PROVE  \E w \in Out :
           /\ p \in Players /\ seen[w][p] = <<p, k, i>>
           /\ IF Hidden(w) THEN w.powers = LockedBy(k, i) ELSE Free(k, i)
<1>1. PICK w \in Out : \E q \in Players : seen[w][q] = <<p, k, i>>
  BY DEF HostKeys, KeysShown, Range, Out
<1>2. PICK q \in Players : seen[w][q] = <<p, k, i>>
  BY <1>1
<1>3. <<p, k, i>> # NoKey
  BY DEF NoKey
<1>4. Fits(q, w, <<p, k, i>>)
  BY <1>1, <1>2, <1>3 DEF HostKeys
<1>5. PICK l \in Nat, j \in Indices :
         <<p, k, i>> = <<q, l, j>> /\ IF Hidden(w) THEN w.powers = LockedBy(l, j) ELSE Free(l, j)
  BY <1>4 DEF Fits
<1>6. p = q /\ k = l /\ i = j
  BY <1>5
<1> QED
  BY <1>1, <1>2, <1>5, <1>6

(* Of the keys on a number of the deck the host has seen none, and of      *)
(* those on a number a player holds not the player's.                      *)
LEMMA StaysHidden ==
  ASSUME Shape, HostKeys
  PROVE  CardsStayHidden
<1> SUFFICES ASSUME NEW v \in Range(deck) \cup DOMAIN held, Hidden(v),
                    v.powers \subseteq KeysShown \X {1}
             PROVE  FALSE
  BY DEF CardsStayHidden, Hidden
<1>0. ASSUME NEW p \in Players, NEW k, NEW i, v.powers = LockedBy(k, i)
      PROVE  \E w \in Out :
               /\ seen[w][p] = <<p, k, i>>
               /\ IF Hidden(w) THEN w.powers = LockedBy(k, i) ELSE Free(k, i)
  <2>1. <<<<p, k, i>>, 1>> \in v.powers
    BY <1>0 DEF LockedBy
  <2>2. <<<<p, k, i>>, 1>> \in KeysShown \X {1}
    BY <2>1
  <2>3. <<p, k, i>> \in KeysShown
    BY <2>2
  <2> QED
    BY <2>3, KeyWasFor
<1>1. CASE v \in DOMAIN held
  <2>1. held[v] \in Players /\ v \in Out /\ seen[v][held[v]] = NoKey
    BY <1>1 DEF HostKeys
  <2>2. PICK k \in Nat, i \in Indices : v.powers = LockedBy(k, i)
    BY <2>1 DEF HostKeys
  <2>3. PICK w \in Out : /\ seen[w][held[v]] = <<held[v], k, i>>
                         /\ IF Hidden(w) THEN w.powers = LockedBy(k, i) ELSE Free(k, i)
    BY <1>0, <2>1, <2>2
  <2>4. Hidden(w) => w = v
    BY <2>1, <2>2, <2>3 DEF HostKeys
  <2>5. <<held[v], k, i>> # NoKey
    BY DEF NoKey
  <2> QED
    BY <2>1, <2>2, <2>3, <2>4, <2>5 DEF Free
<1>2. CASE v \in Range(deck)
  <2>1. PICK j \in 1..Len(deck) : v = deck[j]
    BY <1>2, SeqFacts DEF Shape, Range
  <2>2. v = work[j] /\ v.powers = LockedBy(shuffles, j)
    BY <2>1 DEF HostKeys
  <2>3. 0 \in Players
    BY NAssumption DEF Players
  <2>4. PICK w \in Out : IF Hidden(w) THEN w.powers = LockedBy(shuffles, j)
                                      ELSE Free(shuffles, j)
    BY <1>0, <2>2, <2>3
  <2>5. Hidden(w)
    BY <2>2, <2>4 DEF Free
  <2>6. PICK k \in Nat, i \in Indices :
           w.powers = LockedBy(k, i) /\ (k = shuffles => i > Len(deck))
    BY <2>5 DEF HostKeys
  <2>7. k = shuffles /\ i = j
    BY <2>4, <2>5, <2>6, LocksDiffer
  <2>8. Len(deck) \in Nat
    BY SeqFacts DEF Shape
  <2> QED
    BY <2>1, <2>6, <2>7, <2>8
<1> QED
  BY <1>1, <1>2

(* Keys fit on while shuffles go on and numbers leave the deck.            *)
LEMMA FitsStay ==
  ASSUME Shape, Known <= Known',
         UNCHANGED <<work, shuffles>> \/ Known < shuffles',
         \A v \in Out' \ Out : Hidden(v) =>
           \E j \in DOMAIN work : Hidden(work[j]) /\ v.powers = LockedBy(shuffles, j),
         shuffles' \in Nat
  PROVE  \A p, v, key : Fits(p, v, key) => Fits(p, v, key)'
<1>1. Known \in Int /\ Known' \in Int /\ Known <= shuffles
  BY DEF Known, Shape
<1>2. ASSUME NEW k \in Nat, NEW i \in Indices, k <= Known, Free(k, i)
      PROVE  Free(k, i)'
  <2>1. ASSUME NEW v \in Out', Hidden(v)
        PROVE  v.powers # LockedBy(k, i)
    <3>1. CASE v \in Out
      BY <1>2, <2>1, <3>1 DEF Free
    <3>2. CASE v \notin Out
      <4>1. PICK j \in DOMAIN work : Hidden(work[j]) /\ v.powers = LockedBy(shuffles, j)
        BY <2>1, <3>2
      <4>2. ASSUME v.powers = LockedBy(k, i)
            PROVE  FALSE
        <5>1. LockedBy(k, i) = LockedBy(shuffles, j)
          BY <4>1, <4>2
        <5>2. k = shuffles /\ i = j
          BY <5>1, LocksDiffer
        <5> QED
          BY <1>2, <4>1, <5>2 DEF Free
      <4> QED
        BY <4>2
    <3> QED
      BY <3>1, <3>2
  <2>2. k = shuffles' => i \in DOMAIN work' /\ ~Hidden(work'[i])
    BY <1>1, <1>2 DEF Free
  <2> QED
    BY <2>1, <2>2 DEF Free, Hidden, LockedBy
<1> TAKE p, v, key
<1> HAVE Fits(p, v, key)
<1>3. PICK k \in Nat, i \in Indices :
         /\ k <= Known /\ key = <<p, k, i>>
         /\ IF Hidden(v) THEN v.powers = LockedBy(k, i) ELSE Free(k, i)
  BY DEF Fits
<1>4. k <= Known' /\ (Free(k, i) => Free(k, i)')
  BY <1>1, <1>2, <1>3
<1> QED
  BY <1>3, <1>4 DEF Fits, Hidden, LockedBy
-----------------------------------------------------------------------------
\* Steps that leave the table alone

\* The players' memories stay, but for the last event and the like.
MemStays ==
  /\ DOMAIN mem' = Players
  /\ \A p \in Players :
       /\ DOMAIN mem'[p] = DOMAIN Forgotten
       /\ mem'[p].deck = mem[p].deck /\ mem'[p].cardPairs = mem[p].cardPairs
       /\ mem'[p].myCards = mem[p].myCards /\ mem'[p].shuffles = mem[p].shuffles
       /\ mem'[p].stage0 = mem[p].stage0 /\ mem'[p].stage1 = mem[p].stage1

\* Every player's deck is the host's, and nobody is asked for cards.
Agreed == \A p \in Players : mem[p].deck = deck
Uncarded == \A p \in Players : line[p].type \notin ForCards

Thens == {"none", "Deal", "Again", "Turn", "EndTurn"}

\* A step of the host that moves no card and asks for none.
Quiet ==
  /\ UNCHANGED <<deck, held, seen, discard, work, stage, seat, shuffles>>
  /\ MemStays /\ DOMAIN line' = Players
  /\ turn' \in Players /\ dealer' \in Players
  /\ DOMAIN job' = DOMAIN NoJob /\ job'.then \in Thens
  /\ pc' \notin {"Start"} \cup WithCards /\ (pc' = "GameStart" => pc = "Start")
  /\ \/ pc' \in Terminal
     \/ /\ Agreed /\ pc # "Shuffle" /\ Uncarded'
        /\ pc' # "GameStart" => \A p \in Players : line'[p].type # "GameStart"

(* While the table is left alone and no shuffle begins, the keys fit.      *)
LEMMA TableStays ==
  ASSUME Shape, HostKeys, UNCHANGED <<deck, held, seen, work, stage, shuffles>>,
         pc' = "Shuffle" => pc = "Shuffle"
  PROVE  HostKeys' /\ \A p, v, key : Fits(p, v, key) => Fits(p, v, key)'
<1>1. Known <= Known'
  BY DEF Known, Shape
<1>2. Out' = Out
  BY DEF Out
<1>3. \A p, v, key : Fits(p, v, key) => Fits(p, v, key)'
  BY <1>1, <1>2, FitsStay DEF Shape
<1>4. HostKeys'
  BY <1>2, <1>3 DEF HostKeys, LockedBy, Hidden
<1> QED
  BY <1>3, <1>4

(* Such a step keeps the invariant.                                        *)
LEMMA QuietKeeps ==
  ASSUME ProtocolInv, Quiet, pc \notin Terminal
  PROVE  ProtocolInv'
<1>1. Shape /\ HostKeys /\ Live
  BY DEF ProtocolInv
<1>2. Shape'
  BY <1>1 DEF Shape, Quiet, MemStays, WithCards, Thens
<1>3. HostKeys' /\ \A p, v, key : Fits(p, v, key) => Fits(p, v, key)'
  BY <1>1, TableStays DEF Quiet, WithCards
<1>4. CASE pc' \notin Terminal
  <2>1. PlayerKeys'
    BY <1>1, <1>3 DEF Live, PlayerKeys, Quiet, MemStays
  <2>2. MixInv'
    BY <1>1, <1>4 DEF Live, MixInv, Quiet, MemStays, Ended, WithCards
  <2>3. WireInv'
    BY <1>4 DEF WireInv, Quiet, MemStays, Agreed, Uncarded, WithCards
  <2> QED
    BY <1>2, <1>3, <2>1, <2>2, <2>3 DEF ProtocolInv, Live
<1> QED
  BY <1>2, <1>3, <1>4 DEF ProtocolInv

(* An event changes no more of a memory than the last event.               *)
LEMMA EventsStay ==
  ASSUME Shape, NEW type, NEW h, Send(type, h)
  PROVE  MemStays
BY DEF Send, OnGameEvent, Shape, MemStays, Forgotten

LEMMA MemUnchanged == Shape /\ UNCHANGED mem => MemStays
BY DEF Shape, MemStays

(* An event leads from one place where nobody is asked to another.         *)
LEMMA AnnounceIsQuiet ==
  ASSUME ProtocolInv, pc \notin Terminal, Announce
  PROVE  Quiet
<1>1. Shape /\ WireInv
  BY DEF ProtocolInv, Live
<1>2. MemStays
  BY <1>1, EventsStay DEF Announce
<1>3. AfterFirst \in {"FirstCard", "Draw", "FirstEffect", "Turn"}
  BY DEF AfterFirst
<1>4. pc' = Announcement[2] /\ pc \in {"Shuffled", "Drawn", "FirstShown", "FirstEffect",
         "Nothing", "Discarded", "HandOver", "Effect"}
  BY DEF Announce
<1>5. pc' \in {"Deal", "Draw", "FirstCard", "FirstEffect", "Turn", "EndTurn", "Effect",
               "AfterHand", "none", "Again"}
  BY <1>1, <1>3, <1>4 DEF Announcement, Shape
<1>6. UNCHANGED <<table, game, passing, turn, job, line>>
  BY DEF Announce
<1> QED
  BY <1>1, <1>2, <1>4, <1>5, <1>6 DEF Quiet, WireInv, WithCards, Agreed, Uncarded, Shape,
     Thens, table, game, passing

(* So do the starts and the ends of a hand and a game.                     *)
LEMMA StartsAreQuiet ==
  ASSUME ProtocolInv, pc \notin Terminal,
         StartGame \/ GameStarted \/ StartHand \/ AfterHand \/ GameEnded \/ PlayerRefuses
  PROVE  Quiet
<1>1. Shape /\ WireInv
  BY DEF ProtocolInv, Live
<1> USE DEF Quiet, Agreed, Uncarded, Thens, Shape, table, game, passing, told
<1>2. CASE StartGame
  <2>1. MemStays
    BY <1>1, <1>2, MemUnchanged DEF StartGame
  <2> QED
    BY <1>1, <1>2, <2>1 DEF StartGame, CallAll, WireInv, WithCards, ForCards
<1>3. CASE GameStarted \/ GameEnded
  <2>1. MemStays
    BY <1>1, <1>3, EventsStay DEF GameStarted, GameEnded
  <2> QED
    BY <1>1, <1>3, <2>1 DEF GameStarted, GameEnded, Back, HangUp, Idle, WireInv, WithCards,
                            ForCards, Terminal
<1>4. CASE StartHand
  <2>1. MemStays
    BY <1>1, <1>4, MemUnchanged DEF StartHand
  <2> QED
    BY <1>1, <1>4, <2>1 DEF StartHand, CallAll, WireInv, WithCards, ForCards
<1>5. CASE AfterHand
  <2>1. MemStays
    BY <1>1, <1>5, MemUnchanged DEF AfterHand
  <2> QED
    BY <1>1, <1>5, <2>1, SeatAfter DEF AfterHand, CallAll, WireInv, WithCards, ForCards
<1>6. CASE PlayerRefuses
  <2>1. MemStays
    BY <1>1, <1>6, MemUnchanged DEF PlayerRefuses, wires
  <2> QED
    BY <1>1, <1>6, <2>1 DEF PlayerRefuses, wires, WithCards, Terminal
<1> QED
  BY <1>2, <1>3, <1>4, <1>5, <1>6

(* So do the steps of a turn, before and after a card is drawn or laid.    *)
LEMMA TurnsAreQuiet ==
  ASSUME ProtocolInv, pc \notin Terminal,
         \/ Deal \/ CardGiven \/ FirstColor \/ NothingPlayed \/ NextDrawsTwo
         \/ AskChallenge \/ ChallengeDecided \/ NoEffect
  PROVE  Quiet
<1>1. Shape /\ WireInv
  BY DEF ProtocolInv, Live
<1>2. MemStays
  BY <1>1, MemUnchanged DEF Deal, CardGiven, FirstColor, NothingPlayed, NextDrawsTwo, AskChallenge,
     ChallengeDecided, NoEffect, wires, told
<1> USE DEF Quiet, Agreed, Uncarded, Thens, Shape, table, game, passing, told, WithCards,
            ForCards, StartDraw, NoJob
<1>3. CASE Deal
  BY <1>1, <1>2, <1>3, SeatAfter DEF Deal, wires, WireInv
<1>4. CASE CardGiven
  <2>1. mem[turn].deck = deck
    BY <1>1, <1>4 DEF CardGiven, Back, Answered, WireInv, GiveCase, Requests, Refusal
  <2> QED
    BY <1>1, <1>2, <1>4, <2>1 DEF CardGiven, Back, WireInv, HangUp, Idle
<1>5. CASE FirstColor
  BY <1>1, <1>2, <1>5 DEF FirstColor, Back, HangUp, Idle, WireInv
<1>6. CASE NothingPlayed
  BY <1>1, <1>2, <1>6 DEF NothingPlayed, PlayComesBack, Back, HangUp, Idle, WireInv
<1>7. CASE NextDrawsTwo
  BY <1>1, <1>2, <1>7 DEF NextDrawsTwo, wires, WireInv
<1>8. CASE AskChallenge
  BY <1>1, <1>2, <1>8 DEF AskChallenge, Call, CallAll, Idle, WireInv
<1>9. CASE ChallengeDecided
  BY <1>1, <1>2, <1>9 DEF ChallengeDecided, Back, Call, CallAll, HangUp, Idle, WireInv
<1>10. CASE NoEffect
  BY <1>1, <1>2, <1>10 DEF NoEffect, wires, WireInv
<1> QED
  BY <1>3, <1>4, <1>5, <1>6, <1>7, <1>8, <1>9, <1>10

(* So does the count at the end of a hand.                                 *)
LEMMA EndsAreQuiet ==
  ASSUME ProtocolInv, pc \notin Terminal, EndTurn \/ HandRevealed \/ HandSigned
  PROVE  Quiet
<1>1. Shape /\ WireInv
  BY DEF ProtocolInv, Live
<1>2. MemStays
  BY <1>1, MemUnchanged DEF EndTurn, HandRevealed, HandSigned, told
<1> USE DEF Quiet, Agreed, Uncarded, Thens, Shape, table, game, passing, told, WithCards, ForCards
<1>3. CASE EndTurn
  BY <1>1, <1>2, <1>3 DEF EndTurn, CallAll, HandEndRequest, Idle, WireInv, Terminal
<1>4. CASE HandRevealed
  <2>1. /\ Back("HandReveal")
        /\ UNCHANGED <<table, hand, dealer, scores, endSigs, passing, turn, job, told>>
    BY <1>4, Zenon DEF HandRevealed
  <2>2. \/ pc' \in {"Panicked", "Failed"} /\ UNCHANGED line
        \/ /\ pc' = "HandSign"
           /\ \E score, infos : CallAll(Players, HandEndRequest(1, complete.winner, score, infos))
    BY <1>4, Zenon DEF HandRevealed
  <2> QED
    BY <1>1, <1>2, <2>1, <2>2 DEF Back, CallAll, HandEndRequest, Idle, WireInv, Terminal
<1>5. CASE HandSigned
  BY <1>1, <1>2, <1>5 DEF HandSigned, Back, HangUp, Idle, WireInv
<1> QED
  BY <1>3, <1>4, <1>5
-----------------------------------------------------------------------------
\* Steps that ask for cards, and numbers that leave the deck

(* To ask for keys or for a card moves nothing yet.                        *)
LEMMA AsksKeep ==
  ASSUME ProtocolInv, pc \notin Terminal, DealTo \/ TurnUp \/ AskPlay
  PROVE  ProtocolInv'
<1>1. Shape /\ HostKeys /\ Live
  BY DEF ProtocolInv
<1>2. /\ UNCHANGED <<deck, held, seen, discard, work, stage, seat, shuffles, dealer, job, mem>>
      /\ pc \in {"Draw", "FirstCard", "Turn", "Again"}
      /\ pc' \in {"Keys", "FirstKeys", "Play", "PlayAgain"}
  BY DEF DealTo, TurnUp, AskPlay, table, game, passing, told
<1>3. turn' \in Players /\ DOMAIN line' = Players
  BY <1>1 DEF DealTo, TurnUp, AskPlay, Shape, CallAll, Call
<1>4. Shape'
  BY <1>1, <1>2, <1>3 DEF Shape
<1>5. HostKeys' /\ \A p, v, key : Fits(p, v, key) => Fits(p, v, key)'
  BY <1>1, <1>2, TableStays
<1>6. PlayerKeys' /\ MixInv'
  BY <1>1, <1>2, <1>5 DEF Live, PlayerKeys, MixInv, Ended
<1>7. Agreed
  BY <1>1, <1>2 DEF Live, WireInv, WithCards, Agreed
<1>8. WireInv'
  <2> USE <1>1, <1>2, <1>3, <1>7 DEF WireInv, WithCards, Agreed, CallAll, Call, Idle
  <2>1. CASE DealTo
    BY <2>1 DEF DealTo, KeyCase, Shape
  <2>2. CASE TurnUp
    BY <2>2 DEF TurnUp, KeyCase
  <2>3. CASE AskPlay
    BY <2>3 DEF AskPlay, PlayCase
  <2> QED
    BY <2>1, <2>2, <2>3
<1> QED
  BY <1>4, <1>5, <1>6, <1>8 DEF ProtocolInv, Live

(* The top number of the deck: it has not left it before.                  *)
LEMMA TopOfDeck ==
  ASSUME Shape, HostKeys, deck # <<>>
  PROVE  LET v == Seqs!Last(deck) IN
           /\ Len(deck) \in Indices /\ Len(deck) \in DOMAIN work
           /\ v = work[Len(deck)] /\ v = deck[Len(deck)]
           /\ Hidden(v) =>
                /\ v.powers = LockedBy(shuffles, Len(deck))
                /\ \A w \in Out : Hidden(w) => w.powers # v.powers
<1> DEFINE n == Len(deck) v == Seqs!Last(deck)
<1>1. n \in Indices /\ v = deck[n] /\ n \in 1..Len(deck)
  BY FrontAndLast DEF Shape, Indices
<1>2. n \in DOMAIN work /\ v = work[n]
  <2>1. DOMAIN work = 1..Len(work) /\ Len(work) \in Nat
    BY SeqFacts DEF Shape
  <2>2. n <= Len(work) /\ v = work[n]
    BY <1>1 DEF HostKeys
  <2> QED
    BY <1>1, <2>1, <2>2 DEF Indices
<1>3. Hidden(v) => v.powers = LockedBy(shuffles, n)
  BY <1>1 DEF HostKeys
<1>4. ASSUME Hidden(v), NEW w \in Out, Hidden(w), w.powers = v.powers
      PROVE  FALSE
  <2>1. PICK k \in Nat, i \in Indices : w.powers = LockedBy(k, i) /\ (k = shuffles => i > n)
    BY <1>4 DEF HostKeys
  <2>2. LockedBy(k, i) = LockedBy(shuffles, n)
    BY <1>3, <1>4, <2>1
  <2>3. k = shuffles /\ i = n
    BY <2>2, LocksDiffer
  <2> QED
    BY <1>1, <2>1, <2>3 DEF Indices
<1> QED
  BY <1>1, <1>2, <1>3, <1>4

(* The top number leaves the deck with the keys that came in, none of the  *)
(* receiver's if it goes to somebody's hand.                               *)
LEMMA PopKeeps ==
  ASSUME Shape, HostKeys, deck # <<>>, pc # "Shuffle", pc' # "Shuffle",
         UNCHANGED <<work, stage, shuffles>>,
         NEW keys, DOMAIN keys = Players,
         \A p \in Players : keys[p] = NoKey \/ Fits(p, Seqs!Last(deck), keys[p]),
         PopTopCard(keys),
         \/ UNCHANGED held
         \/ turn \in Players /\ keys[turn] = NoKey /\ held' = Put(held, Seqs!Last(deck), turn)
  PROVE  /\ HostKeys' /\ IsSeq(deck')
         /\ \A p, v, key : Fits(p, v, key) => Fits(p, v, key)'
<1> DEFINE n == Len(deck)
<1>0. PICK top : top = Seqs!Last(deck)
  OBVIOUS
<1>1. /\ n \in Indices /\ n \in DOMAIN work /\ top = work[n] /\ top = deck[n]
      /\ Hidden(top) => /\ top.powers = LockedBy(shuffles, n)
                        /\ \A w \in Out : Hidden(w) => w.powers # top.powers
  BY <1>0, TopOfDeck
<1>2. /\ IsSeq(deck') /\ Len(deck') = n - 1
      /\ \A j \in 1..n-1 : deck'[j] = deck[j]
  BY FrontAndLast DEF Shape, PopTopCard
<1>3. /\ Out' = Out \cup {top} /\ seen'[top] = keys
      /\ \A v \in Out : v # top => seen'[v] = seen[v]
  BY <1>0 DEF PopTopCard, Put, Out
<1> HIDE DEF n
<1>4. Known' = Known /\ Known = shuffles
  BY DEF Known
<1>5. \A p, v, key : Fits(p, v, key) => Fits(p, v, key)'
  <2>1. Known <= Known' /\ shuffles' \in Nat
    BY <1>4 DEF Shape
  <2>2. \A v \in Out' \ Out : Hidden(v) =>
           \E j \in DOMAIN work : Hidden(work[j]) /\ v.powers = LockedBy(shuffles, j)
    BY <1>1, <1>3
  <2> QED
    BY <2>1, <2>2, FitsStay
<1>6. Len(deck') <= Len(work') /\ \A j \in 1..Len(deck') :
         deck'[j] = work'[j] /\ (Hidden(deck'[j]) => deck'[j].powers = LockedBy(shuffles', j))
  <2>1. n - 1 <= Len(work) /\ \A j \in 1..n-1 : j \in 1..n
    BY <1>1, SeqFacts DEF HostKeys, Shape, Indices, n
  <2> QED
    BY <1>2, <2>1 DEF HostKeys, n
<1>7. ASSUME NEW v \in Out', Hidden(v)
      PROVE  \E k \in Nat, i \in Indices :
               /\ k <= shuffles' /\ v.powers = LockedBy(k, i)
               /\ k = shuffles' => i > Len(deck') /\ pc' # "Shuffle"
  <2>1. CASE v \in Out
    <3>1. PICK k \in Nat, i \in Indices :
             /\ k <= shuffles /\ v.powers = LockedBy(k, i)
             /\ k = shuffles => i > n
      BY <1>7, <2>1 DEF HostKeys, n
    <3>2. k = shuffles' => i > Len(deck')
      BY <1>1, <1>2, <3>1 DEF Indices
    <3> QED
      BY <3>1, <3>2
  <2>2. CASE v = top
    <3>1. shuffles' \in Nat /\ n > Len(deck') /\ v.powers = LockedBy(shuffles', n)
      BY <1>1, <1>2, <1>7, <2>2 DEF Shape, Indices
    <3>2. shuffles' <= shuffles'
      BY <3>1
    <3> QED
      BY <1>1, <3>1, <3>2
  <2> QED
    BY <1>3, <2>1, <2>2
<1>8. \A v, w \in Out' : Hidden(v) /\ Hidden(w) /\ v.powers = w.powers => v = w
  BY <1>1, <1>3 DEF HostKeys
<1>9. ASSUME NEW v \in DOMAIN held'
      PROVE  held'[v] \in Players /\ v \in Out' /\ (Hidden(v) => seen'[v][held'[v]] = NoKey)
  <2>1. CASE v = top
    <3>1. CASE UNCHANGED held
      BY <1>1, <1>3, <1>9, <2>1, <3>1 DEF HostKeys
    <3>2. CASE turn \in Players /\ keys[turn] = NoKey /\ held' = Put(held, top, turn)
      BY <1>0, <1>3, <2>1, <3>2 DEF Put
    <3> QED
      BY <1>0, <3>1, <3>2
  <2>2. CASE v # top
    <3>1. v \in DOMAIN held /\ held'[v] = held[v]
      BY <1>0, <1>9, <2>2 DEF Put
    <3> QED
      BY <1>3, <2>2, <3>1 DEF HostKeys
  <2> QED
    BY <2>1, <2>2
<1>10. ASSUME NEW v \in Out'
       PROVE  /\ DOMAIN seen'[v] = Players
              /\ \A p \in Players : seen'[v][p] = NoKey \/ Fits(p, v, seen[v][p])'
  <2>1. CASE v = top
    BY <1>0, <1>3, <1>5, <2>1
  <2>2. CASE v # top
    BY <1>3, <1>5, <1>10, <2>2 DEF HostKeys
  <2> QED
    BY <2>1, <2>2
<1>11. HostKeys'
  BY <1>6, <1>7, <1>8, <1>9, <1>10 DEF HostKeys, Hidden, LockedBy
<1> QED
  BY <1>2, <1>5, <1>11

(* A card is dealt: its number and the others' keys go to the receiver.    *)
LEMMA KeysGivenKeeps ==
  ASSUME ProtocolInv, pc \notin Terminal, KeysGiven
  PROVE  ProtocolInv'
<1>1. Shape /\ HostKeys /\ WireInv /\ MixInv /\ PlayerKeys
  BY DEF ProtocolInv, Live
<1>2. /\ pc = "Keys" /\ Answered /\ PopTopCard(KeysIn)
      /\ UNCHANGED <<discard, dealer, work, stage, seat, shuffles, turn, job, mem>>
  BY DEF KeysGiven, Back, game, passing, told
<1>3. deck # <<>> /\ line[turn] = Idle /\ mem[turn].deck = deck
  BY <1>1, <1>2 DEF WireInv
<1>4. \A p \in Players \ {turn} : /\ line[p].type = "key" /\ mem[p].deck = Seqs!Front(deck)
                                  /\ Fits(p, Seqs!Last(deck), line[p].key)
  BY <1>1, <1>2 DEF WireInv, Answered, KeyCase, Refusal, Requests
<1>5. PICK keys : keys = KeysIn
  OBVIOUS
<1>6. /\ DOMAIN keys = Players /\ turn \in Players /\ keys[turn] = NoKey
      /\ \A p \in Players : keys[p] = NoKey \/ Fits(p, Seqs!Last(deck), keys[p])
  BY <1>1, <1>3, <1>4, <1>5 DEF KeysIn, Idle, Shape
<1>7. \/ pc' = "Panicked" /\ UNCHANGED <<held, line>>
      \/ /\ pc' = "Give" /\ held' = Put(held, Seqs!Last(deck), turn)
         /\ Call(turn, [type |-> "Give", keys |-> keys])
  BY <1>5 DEF KeysGiven
<1>8. HostKeys' /\ IsSeq(deck') /\ \A p, v, key : Fits(p, v, key) => Fits(p, v, key)'
  <2>1. pc # "Shuffle" /\ pc' # "Shuffle" /\ PopTopCard(keys)
    BY <1>2, <1>5, <1>7
  <2>2. UNCHANGED held \/ (turn \in Players /\ keys[turn] = NoKey
                              /\ held' = Put(held, Seqs!Last(deck), turn))
    BY <1>6, <1>7
  <2> QED
    BY <1>1, <1>2, <1>3, <1>6, <2>1, <2>2, PopKeeps
<1>9. Shape'
  BY <1>1, <1>2, <1>7, <1>8 DEF Shape, Call, CallAll
<1>10. CASE pc' = "Give"
  <2>1. PlayerKeys' /\ MixInv'
    BY <1>1, <1>2, <1>8, <1>10 DEF PlayerKeys, MixInv, Ended
  <2>2. deck' = Seqs!Front(deck)
    BY <1>2 DEF PopTopCard
  <2>3. Call(turn, [type |-> "Give", keys |-> keys])
    BY <1>7, <1>10
  <2>4. WireInv'
    BY <1>2, <1>3, <1>4, <1>6, <1>10, <2>2, <2>3
       DEF WireInv, GiveCase, Call, CallAll, WithCards, Idle
  <2> QED
    BY <1>8, <1>9, <2>1, <2>4 DEF ProtocolInv, Live
<1> QED
  BY <1>7, <1>8, <1>9, <1>10 DEF ProtocolInv, Terminal

(* If all have sent the key of the top card, there was one.                *)
LEMMA KeysHaveCome ==
  ASSUME WireInv, Back("FirstKeys")
  PROVE  deck # <<>>
<1>1. 0 \in Players
  BY NAssumption DEF Players
<1> QED
  BY <1>1 DEF WireInv, KeyCase, Refusal, Back, Answered, Requests

(* The first card is turned up with the keys of all.                       *)
LEMMA TurnedUpKeeps ==
  ASSUME ProtocolInv, pc \notin Terminal, TurnedUp
  PROVE  ProtocolInv'
<1>1. Shape /\ HostKeys /\ WireInv /\ MixInv /\ PlayerKeys
  BY DEF ProtocolInv, Live
<1>2. /\ pc = "FirstKeys" /\ Answered /\ PopTopCard(KeysIn)
      /\ UNCHANGED <<held, dealer, work, stage, seat, shuffles, turn, mem>>
  BY DEF TurnedUp, Back, game, passing, told
<1>3. deck # <<>>
  BY <1>1, <1>2, KeysHaveCome DEF Back
<1>4. \A p \in Players : /\ line[p].type = "key" /\ mem[p].deck = Seqs!Front(deck)
                         /\ Fits(p, Seqs!Last(deck), line[p].key)
  BY <1>1, <1>2 DEF WireInv, Answered, KeyCase, Refusal, Requests
<1>5. PICK keys : keys = KeysIn
  OBVIOUS
<1>6. /\ DOMAIN keys = Players
      /\ \A p \in Players : keys[p] = NoKey \/ Fits(p, Seqs!Last(deck), keys[p])
  BY <1>4, <1>5 DEF KeysIn
<1>7. \/ pc' \in {"Failed", "FirstShown"} /\ HangUp
      \/ pc' = "FirstColor" /\ Call(turn, [type |-> "ChooseColor"])
  BY DEF TurnedUp
<1>8. HostKeys' /\ IsSeq(deck') /\ \A p, v, key : Fits(p, v, key) => Fits(p, v, key)'
  <2>1. pc # "Shuffle" /\ pc' # "Shuffle" /\ PopTopCard(keys)
    BY <1>2, <1>5, <1>7
  <2> QED
    BY <1>1, <1>2, <1>3, <1>6, <2>1, PopKeeps
<1>9. Shape'
  <2>1. IsSeq(discard')
    <3>1. PICK card : discard' = Append(discard, card)
      BY DEF TurnedUp
    <3> QED
      BY <1>1, <3>1, Appended DEF Shape
  <2>2. job' = [done |-> 0, all |-> 2, event |-> "HandPlayerDrewTwo", then |-> "Turn"]
    BY DEF TurnedUp
  <2>3. DOMAIN line' = Players
    BY <1>7 DEF HangUp, Call, CallAll
  <2> QED
    BY <1>1, <1>2, <1>7, <1>8, <2>1, <2>2, <2>3 DEF Shape, NoJob
<1>10. CASE pc' \notin Terminal
  <2>1. PlayerKeys' /\ MixInv'
    BY <1>1, <1>2, <1>7, <1>8 DEF PlayerKeys, MixInv, Ended
  <2>2. deck' = Seqs!Front(deck)
    BY <1>2 DEF PopTopCard
  <2>3. WireInv'
    BY <1>2, <1>4, <1>7, <2>2
       DEF WireInv, HangUp, Call, CallAll, WithCards, ForCards, Idle
  <2> QED
    BY <1>8, <1>9, <2>1, <2>3 DEF ProtocolInv, Live
<1> QED
  BY <1>8, <1>9, <1>10 DEF ProtocolInv

(* A card is laid, and with it the last of its keys shown.                 *)
LEMMA CardPlayedKeeps ==
  ASSUME ProtocolInv, pc \notin Terminal, CardPlayed
  PROVE  ProtocolInv'
<1>1. Shape /\ HostKeys /\ WireInv /\ MixInv /\ PlayerKeys
  BY DEF ProtocolInv, Live
<1>2. /\ pc \in {"Play", "PlayAgain"} /\ Answered
      /\ UNCHANGED <<deck, dealer, work, stage, seat, shuffles, turn, job, mem>>
  BY DEF CardPlayed, PlayComesBack, Back, game, passing, told
<1>3. PICK top, keys : top = line[turn].number /\ keys = line[turn].keys
  OBVIOUS
<1>4. Fits(turn, top, keys[turn])
  <2>1. turn \in Players
    BY <1>1 DEF Shape
  <2> QED
    BY <1>1, <1>2, <1>3, <2>1 DEF WireInv, Answered, PlayCase, Refusal, Requests
<1>5. \/ pc' = "Failed" /\ UNCHANGED <<held, seen, discard, line>>
      \/ /\ pc' = "Discarded" /\ HangUp
         /\ top \in DOMAIN held /\ held[top] = turn
         /\ seen[top] = [keys EXCEPT ![turn] = NoKey]
         /\ held' = Restrict(held, DOMAIN held \ {top}) /\ seen' = Put(seen, top, keys)
         /\ \E card : discard' = Append(discard, card)
  BY <1>3 DEF CardPlayed, PlayIsGenuine
<1>6. CASE pc' = "Failed"
  <2>1. HostKeys'
    BY <1>1, <1>2, <1>5, <1>6, TableStays
  <2>2. Shape'
    BY <1>1, <1>2, <1>5, <1>6 DEF Shape
  <2> QED
    BY <1>6, <2>1, <2>2 DEF ProtocolInv, Terminal
<1>7. CASE pc' = "Discarded"
  <2>1. top \in Out /\ DOMAIN keys = Players /\ \A p \in Players : p # turn => keys[p] = seen[top][p]
    BY <1>1, <1>5, <1>7 DEF HostKeys
  <2>2. /\ Out' = Out /\ seen'[top] = keys
        /\ \A v \in Out : v # top => seen'[v] = seen[v]
    BY <1>5, <1>7, <2>1 DEF Put, Out
  <2>3. \A p, v, key : Fits(p, v, key) => Fits(p, v, key)'
    <3>1. Known <= Known'
      BY <1>1, <1>2, <1>7 DEF Known, Shape
    <3> QED
      BY <1>1, <1>2, <2>2, <3>1, FitsStay DEF Shape
  <2>4. ASSUME NEW v \in DOMAIN held'
        PROVE  held'[v] \in Players /\ v \in Out' /\ (Hidden(v) => seen'[v][held'[v]] = NoKey)
    <3>1. v # top /\ v \in DOMAIN held /\ held'[v] = held[v]
      BY <1>5, <1>7, <2>4 DEF Restrict
    <3> QED
      BY <1>1, <2>2, <3>1 DEF HostKeys
  <2>5. ASSUME NEW v \in Out'
        PROVE  /\ DOMAIN seen'[v] = Players
               /\ \A p \in Players : (seen[v][p] = NoKey \/ Fits(p, v, seen[v][p]))'
    <3>1. CASE v = top
      <4>1. \A p \in Players : keys[p] = NoKey \/ Fits(p, top, keys[p])
        BY <1>1, <1>4, <2>1 DEF HostKeys
      <4> QED
        BY <2>1, <2>2, <2>3, <3>1, <4>1
    <3>2. CASE v # top
      BY <1>1, <2>2, <2>3, <2>5, <3>2 DEF HostKeys
    <3> QED
      BY <3>1, <3>2
  <2>6. HostKeys'
    BY <1>1, <1>2, <1>7, <2>2, <2>4, <2>5 DEF HostKeys, Hidden, LockedBy
  <2>7. Shape'
    <3>1. IsSeq(discard')
      <4>1. PICK card : discard' = Append(discard, card)
        BY <1>5, <1>7
      <4> QED
        BY <1>1, <4>1, Appended DEF Shape
    <3>2. DOMAIN line' = Players
      BY <1>5, <1>7 DEF HangUp
    <3> QED
      BY <1>1, <1>2, <1>7, <3>1, <3>2 DEF Shape
  <2>8. PlayerKeys' /\ MixInv'
    BY <1>1, <1>2, <1>7, <2>3 DEF PlayerKeys, MixInv, Ended
  <2>9. WireInv'
    BY <1>1, <1>2, <1>5, <1>7 DEF WireInv, HangUp, WithCards, ForCards, Idle
  <2> QED
    BY <2>6, <2>7, <2>8, <2>9 DEF ProtocolInv, Live
<1> QED
  BY <1>5, <1>6, <1>7
-----------------------------------------------------------------------------
\* The shuffle, on the host's side

(* A shuffle begins: the last one's keys have all been filed.              *)
LEMMA ShuffleBegins ==
  ASSUME ProtocolInv, pc \notin Terminal, pc # "Shuffle", NEW cards, IsSeq(cards), Shuffle(cards),
         deck' = <<>>, MemStays, UNCHANGED dealer, turn' \in Players, IsSeq(discard'),
         DOMAIN job' = DOMAIN NoJob, job'.then \in Thens,
         UNCHANGED <<held, seen>> \/ (held' = <<>> /\ seen' = <<>>)
  PROVE  ProtocolInv'
<1>1. Shape /\ HostKeys /\ MixInv /\ PlayerKeys
  BY DEF ProtocolInv, Live
<1>2. PICK from : from = FromCards(cards) /\ IsSeq(from)
  BY ToShuffleIsSeq
<1>3. PICK plain : plain = [i \in DOMAIN from |-> Plain(from[i])]
  OBVIOUS
<1>4. /\ work' = plain /\ stage' = 0 /\ seat' = 0 /\ shuffles' = shuffles + 1
      /\ Call(0, ShuffleRequest(from, 0, plain)) /\ pc' = "Shuffle"
  BY <1>2, <1>3 DEF Shuffle
<1>5. 0 \in Players
  BY NAssumption DEF Players
<1>6. line' = [p \in Players |-> IF p = 0 THEN ShuffleRequest(from, 0, plain) ELSE Idle]
  BY <1>4, <1>5 DEF Call, CallAll
<1>7. IsSeq(plain) /\ \A i \in DOMAIN plain : IsNumber(plain[i]) /\ plain[i].powers = {}
  <2>1. \A i \in DOMAIN from : Plain(from[i]) = [card |-> from[i], powers |-> {}]
    BY DEF Plain
  <2>2. DOMAIN plain = 1..Len(from) /\ Len(from) \in Nat /\ plain = [i \in DOMAIN plain |-> plain[i]]
    BY <1>2, <1>3, SeqFacts
  <2> QED
    BY <1>3, <2>1, <2>2, OnInterval DEF IsNumber
<1>8. Shape'
  BY <1>1, <1>4, <1>5, <1>6, <1>7, EmptyIsSeq DEF Shape, MemStays, Thens
<1>9. Known = shuffles /\ Known' = shuffles /\ Out' \subseteq Out
  BY <1>1, <1>4 DEF Known, Shape, Out
<1>10. \A p, v, key : Fits(p, v, key) => Fits(p, v, key)'
  <2>1. Known <= Known' /\ Known < shuffles' /\ shuffles' \in Nat
    BY <1>1, <1>4, <1>9 DEF Shape
  <2> QED
    BY <1>1, <1>9, <2>1, FitsStay
<1>11. HostKeys'
  <2>1. Len(deck') <= Len(work') /\ 1..Len(deck') = {}
    <3>1. Len(plain) \in Nat
      BY <1>7, SeqFacts
    <3> QED
      BY <1>4, <3>1, EmptyIsSeq
  <2>2. ASSUME NEW v \in Out', Hidden(v)
        PROVE  \E k \in Nat, i \in Indices : k < shuffles' /\ k <= shuffles' /\ v.powers = LockedBy(k, i)
    <3>1. PICK k \in Nat, i \in Indices : k <= shuffles /\ v.powers = LockedBy(k, i)
      BY <1>1, <1>9, <2>2 DEF HostKeys
    <3> QED
      BY <1>1, <1>4, <3>1 DEF Shape
  <2>3. \A k \in Nat : k < shuffles' => k # shuffles'
    BY <1>1, <1>4 DEF Shape
  <2>4. /\ \A v \in DOMAIN held' :
             held'[v] \in Players /\ v \in Out' /\ (Hidden(v) => seen'[v][held'[v]] = NoKey)
        /\ \A v \in Out' : /\ DOMAIN seen'[v] = Players
                           /\ \A p \in Players : (seen[v][p] = NoKey \/ Fits(p, v, seen[v][p]))'
    <3>1. CASE UNCHANGED <<held, seen>>
      BY <1>1, <1>10, <3>1 DEF HostKeys, Out
    <3>2. CASE held' = <<>> /\ seen' = <<>>
      BY <3>2, EmptyIsSeq DEF Out
    <3> QED
      BY <3>1, <3>2
  <2>5. \A v, w \in Out' : Hidden(v) /\ Hidden(w) /\ v.powers = w.powers => v = w
    BY <1>1, <1>9 DEF HostKeys
  <2> QED
    BY <2>1, <2>2, <2>3, <2>4, <2>5 DEF HostKeys, Hidden, LockedBy
<1>12. PlayerKeys'
  BY <1>1, <1>10 DEF PlayerKeys, MemStays
<1>13. MixInv'
  <2>1. \A p \in Players : ~(p < 0)
    BY NAssumption DEF Players
  <2>2. \A p \in Players : ~Ended(p, 0)' /\ ~Ended(p, 1)' /\ ~Ended(p, 2)'
    BY <1>4, <1>6, <2>1 DEF Ended, ShuffleRequest, Idle
  <2>3. \A i : Halfway(0, 0, i)' = {}
    <3>1. 0..(0 - 1) = {}
      OBVIOUS
    <3> QED
      BY <3>1 DEF Halfway
  <2>4. \A p \in Players : mem'[p].shuffles = shuffles' - 1
    BY <1>1, <1>4 DEF MixInv, Ended, MemStays, Shape
  <2> QED
    BY <1>4, <1>5, <1>6, <1>7, <2>2, <2>3, <2>4 DEF MixInv, ShuffleRequest, Halfway
<1>14. WireInv'
  BY <1>4, <1>5, <1>6 DEF WireInv, ShuffleCase, ShuffleRequest, Idle, WithCards
<1> QED
  BY <1>8, <1>11, <1>12, <1>13, <1>14 DEF ProtocolInv, Live

LEMMA ShufflesKeep ==
  ASSUME ProtocolInv, pc \notin Terminal, HandStarted \/ Reshuffle
  PROVE  ProtocolInv'
<1>1. Shape
  BY DEF ProtocolInv
<1>2. CASE Reshuffle
  <2>1. /\ pc = "Draw" /\ deck' = <<>> /\ Shuffle(Seqs!Front(discard))
        /\ UNCHANGED <<held, seen, discard, dealer, turn, job, mem>>
    BY <1>2 DEF Reshuffle, table, game, told
  <2>2. IsSeq(Seqs!Front(discard))
    BY <1>1, FrontAndLast DEF Shape
  <2> QED
    BY <1>1, <2>1, <2>2, MemUnchanged, ShuffleBegins DEF Shape, Thens
<1>3. CASE HandStarted /\ "newDeck" \in Mended
  <2>1. /\ pc = "HandStart" /\ Shuffle(<<>>)
        /\ deck' = <<>> /\ held' = <<>> /\ seen' = <<>> /\ discard' = <<>>
        /\ turn' = dealer /\ job' = NoJob /\ UNCHANGED <<dealer, mem>>
    BY <1>3 DEF HandStarted, Back, game, told
  <2>2. IsSeq(<<>>) /\ IsSeq(discard') /\ turn' \in Players /\ job'.then \in Thens
    BY <1>1, <2>1, EmptyIsSeq DEF Shape, Thens, NoJob
  <2> QED
    BY <1>1, <2>1, <2>2, MemUnchanged, ShuffleBegins
<1>4. CASE HandStarted /\ "newDeck" \notin Mended
  <2>1. /\ pc' = "Panicked"
        /\ UNCHANGED <<deck, held, seen, discard, work, stage, seat, shuffles, dealer, turn, job, line, mem>>
    BY <1>4 DEF HandStarted, table, game, passing, told
  <2>2. HostKeys'
    BY <2>1, TableStays DEF ProtocolInv
  <2>3. Shape'
    BY <1>1, <2>1 DEF Shape
  <2> QED
    BY <2>1, <2>2, <2>3 DEF ProtocolInv, Terminal
<1> QED
  BY <1>2, <1>3, <1>4

(* What has come back where a shuffle is passed around.                    *)
LEMMA SeatAnswered ==
  ASSUME Shape, WireInv, MixInv, Back("Shuffle")
  PROVE  /\ line[seat].type = IF stage < 2 THEN "cards" ELSE "taken"
         /\ \A p \in Players, st \in 0..2 : Ended(p, st) <=> stage > st \/ (stage = st /\ p <= seat)
<1>1. pc = "Shuffle" /\ line[seat].type \in {"cards", "taken"}
  BY DEF Shape, WireInv, ShuffleCase, Refusal, Back, Answered, Requests
<1>2. line[seat].type = IF stage < 2 THEN "cards" ELSE "taken"
  BY <1>1 DEF MixInv, Shape
<1>3. \A p \in Players : p <= seat <=> p < seat \/ p = seat
  BY NAssumption DEF Players, Shape
<1> QED
  BY <1>1, <1>2, <1>3 DEF Ended

(* The deck is dealt from once every player has filed its keys.            *)
LEMMA ShuffleDoneKeeps ==
  ASSUME ProtocolInv, pc \notin Terminal, ShuffleDone
  PROVE  ProtocolInv'
<1>1. Shape /\ HostKeys /\ WireInv /\ MixInv /\ PlayerKeys
  BY DEF ProtocolInv, Live
<1>2. /\ pc = "Shuffle" /\ Back("Shuffle") /\ stage = 2 /\ seat = N - 1
      /\ deck' = work /\ discard' = AfterReshuffle(discard) /\ HangUp /\ pc' = "Shuffled"
      /\ UNCHANGED <<held, seen, dealer, work, stage, seat, shuffles, turn, job, mem>>
  BY DEF ShuffleDone, Back, game, passing, told
<1>3. \A p \in Players : Ended(p, 0) /\ Ended(p, 1) /\ Ended(p, 2)
  <2>1. \A p \in Players : p <= seat
    BY <1>2, NAssumption DEF Players
  <2> QED
    BY <1>1, <1>2, <2>1, SeatAnswered
<1>4. IsSeq(discard')
  <2>1. CASE discard = <<>>
    BY <1>2, <2>1, EmptyIsSeq DEF AfterReshuffle
  <2>2. CASE discard # <<>>
    <3>1. DOMAIN discard' = 1..1 /\ discard' = [i \in DOMAIN discard' |-> discard'[i]]
      BY <1>2, <2>2 DEF AfterReshuffle
    <3> QED
      BY <3>1, OnInterval
  <2> QED
    BY <2>1, <2>2
<1>5. Shape'
  BY <1>1, <1>2, <1>4 DEF Shape, HangUp
<1>6. Known <= Known' /\ Out' = Out
  BY <1>1, <1>2 DEF Known, Shape, Out
<1>7. \A p, v, key : Fits(p, v, key) => Fits(p, v, key)'
  BY <1>1, <1>2, <1>6, FitsStay DEF Shape
<1>8. HostKeys'
  <2>1. Len(work) \in Nat /\ DOMAIN work = 1..Len(work)
    BY <1>1, SeqFacts DEF Shape
  <2>2. \A j \in DOMAIN work : Hidden(work[j]) => work[j].powers = LockedBy(shuffles, j)
    BY <1>1, <1>2 DEF MixInv, Halfway, LockedBy
  <2>3. ASSUME NEW v \in Out, Hidden(v)
        PROVE  \E k \in Nat, i \in Indices :
                 k <= shuffles /\ k # shuffles /\ v.powers = LockedBy(k, i)
    BY <1>1, <1>2, <2>3 DEF HostKeys
  <2>4. /\ \A v, w \in Out : Hidden(v) /\ Hidden(w) /\ v.powers = w.powers => v = w
        /\ \A v \in DOMAIN held :
             held[v] \in Players /\ v \in Out /\ (Hidden(v) => seen[v][held[v]] = NoKey)
        /\ \A v \in Out : /\ DOMAIN seen[v] = Players
                          /\ \A p \in Players : (seen[v][p] = NoKey \/ Fits(p, v, seen[v][p]))'
    BY <1>1, <1>2, <1>7 DEF HostKeys
  <2> QED
    BY <1>2, <1>6, <2>1, <2>2, <2>3, <2>4 DEF HostKeys, Hidden, LockedBy
<1>9. PlayerKeys' /\ MixInv'
  BY <1>1, <1>2, <1>3, <1>7 DEF PlayerKeys, MixInv, Ended
<1>10. WireInv'
  BY <1>1, <1>2, <1>3 DEF WireInv, MixInv, HangUp, Idle, WithCards, ForCards
<1> QED
  BY <1>5, <1>8, <1>9, <1>10 DEF ProtocolInv, Live

(* The working set goes around with one seat's keys more on it each time.  *)
LEMMA PassOnKeeps ==
  ASSUME ProtocolInv, pc \notin Terminal, PassOn
  PROVE  ProtocolInv'
<1>1. Shape /\ HostKeys /\ WireInv /\ MixInv /\ PlayerKeys
  BY DEF ProtocolInv, Live
<1>2. /\ pc = "Shuffle" /\ Back("Shuffle") /\ (stage < 2 \/ seat < N - 1)
      /\ work' = IF stage < 2 THEN line[seat].cards ELSE work
      /\ stage' = IF seat = N - 1 THEN stage + 1 ELSE stage
      /\ seat' = IF seat = N - 1 THEN 0 ELSE seat + 1
      /\ seat' \in Players
      /\ UNCHANGED <<deck, held, seen, discard, dealer, shuffles, turn, job, mem>>
  BY <1>1, SeatAfter DEF PassOn, Back, table, game, told, Shape
<1>3. \/ pc' = "Failed" /\ UNCHANGED line
      \/ pc' = "Shuffle" /\ Call(seat', ShuffleRequest(start, stage', work'))
  BY <1>2 DEF PassOn
<1>4. /\ line[seat].type = IF stage < 2 THEN "cards" ELSE "taken"
      /\ \A p \in Players, st \in 0..2 : Ended(p, st) <=> stage > st \/ (stage = st /\ p <= seat)
  BY <1>1, <1>2, SeatAnswered
<1>5. /\ IsSeq(work') /\ \A i \in DOMAIN work' : IsNumber(work'[i])
      /\ stage = 1 => DOMAIN work' = DOMAIN work
  BY <1>1, <1>2, <1>4 DEF MixInv, Shape
<1>6. stage' \in 0..2
  BY <1>1, <1>2, NAssumption DEF Shape, Players
<1>7. Shape'
  BY <1>1, <1>2, <1>3, <1>5, <1>6 DEF Shape, Call, CallAll
<1>8. Known <= Known' /\ (UNCHANGED work \/ Known < shuffles') /\ Out' = Out
  BY <1>1, <1>2, <1>3, <1>6 DEF Known, Shape, Out
<1>9. \A p, v, key : Fits(p, v, key) => Fits(p, v, key)'
  BY <1>1, <1>2, <1>8, FitsStay DEF Shape
<1>10. deck = <<>> /\ Len(deck) = 0 /\ Len(work') \in Nat
  BY <1>1, <1>2, <1>5, EmptyIsSeq, SeqFacts DEF MixInv
<1>11. HostKeys'
  <2>1. Len(deck') <= Len(work') /\ 1..Len(deck') = {}
    BY <1>2, <1>10
  <2>2. ASSUME NEW v \in Out, Hidden(v)
        PROVE  \E k \in Nat, i \in Indices :
                 k <= shuffles /\ k # shuffles /\ v.powers = LockedBy(k, i)
    BY <1>1, <1>2, <2>2 DEF HostKeys
  <2>3. /\ \A v, w \in Out : Hidden(v) /\ Hidden(w) /\ v.powers = w.powers => v = w
        /\ \A v \in DOMAIN held :
             held[v] \in Players /\ v \in Out /\ (Hidden(v) => seen[v][held[v]] = NoKey)
        /\ \A v \in Out : /\ DOMAIN seen[v] = Players
                          /\ \A p \in Players : (seen[v][p] = NoKey \/ Fits(p, v, seen[v][p]))'
    BY <1>1, <1>2, <1>9 DEF HostKeys
  <2> QED
    BY <1>2, <1>8, <2>1, <2>2, <2>3 DEF HostKeys, Hidden, LockedBy
<1>12. CASE pc' = "Shuffle"
  <2>1. line' = [p \in Players |-> IF p = seat' THEN ShuffleRequest(start, stage', work') ELSE Idle]
    BY <1>2, <1>3, <1>12 DEF Call, CallAll
  <2>2. line'[seat'].type = "Shuffle" /\ line'[seat'].stage = stage' /\ line'[seat'].cards = work'
    BY <1>2, <2>1 DEF ShuffleRequest
  <2>3. \A p \in Players, st \in 0..2 : Ended(p, st)' <=> Ended(p, st)
    <3>1. \A p \in Players : /\ p <= N - 1 /\ ~(p < 0)
                             /\ p < seat + 1 <=> p <= seat
      BY <1>1, NAssumption DEF Players, Shape
    <3>2. \A p \in Players, st \in 0..2 :
             Ended(p, st)' <=> stage' > st \/ (stage' = st /\ p < seat')
      BY <1>12, <2>2 DEF Ended
    <3>3. CASE seat = N - 1
      BY <1>1, <1>2, <1>4, <3>1, <3>2, <3>3 DEF Shape
    <3>4. CASE seat # N - 1
      BY <1>1, <1>2, <1>4, <3>1, <3>2, <3>4 DEF Shape
    <3> QED
      BY <3>3, <3>4
  <2>4. ASSUME NEW i \in DOMAIN work', Hidden(work'[i])
        PROVE  work'[i].powers = Halfway(stage, seat, i)'
    <3>1. work'[i].powers = Halfway(stage, IF stage < 2 THEN seat + 1 ELSE seat, i)
      BY <1>1, <1>2, <1>4, <2>4 DEF MixInv
    <3>2. Players = 0..N - 1 /\ \A p \in Players : p < N /\ ~(p < 0)
      BY NAssumption DEF Players
    <3>3. CASE seat = N - 1
      <4>1. seat + 1 = N /\ stage \in {0, 1} /\ stage' = stage + 1 /\ seat' = 0
        BY <1>1, <1>2, <3>3, NAssumption DEF Shape
      <4>2. CASE stage = 0
        BY <1>2, <3>1, <3>2, <3>3, <4>1, <4>2 DEF Halfway
      <4>3. CASE stage = 1
        BY <1>2, <3>1, <3>2, <4>1, <4>3 DEF Halfway
      <4> QED
        BY <4>1, <4>2, <4>3
    <3>4. CASE seat # N - 1
      <4>1. stage' = stage /\ seat' = seat + 1 /\ stage \in 0..2
        BY <1>1, <1>2, <3>4 DEF Shape
      <4>2. CASE stage < 2
        <5>1. work'[i].powers = Halfway(stage, seat + 1, i)
          BY <3>1, <4>2
        <5>2. \A st, k, j : Halfway(st, k, j)' = Halfway(st, k, j)
          BY <1>2 DEF Halfway
        <5> QED
          BY <4>1, <5>1, <5>2
      <4>3. CASE stage = 2
        BY <1>2, <3>1, <4>1, <4>3 DEF Halfway
      <4> QED
        BY <4>1, <4>2, <4>3
    <3> QED
      BY <3>3, <3>4
  <2>5. \A p \in Players :
          /\ Ended(p, 0)' /\ ~Ended(p, 1)' => mem'[p].stage0 = <<p, shuffles', 0>>
          /\ Ended(p, 1)' /\ ~Ended(p, 2)' =>
               mem'[p].stage1 = [i \in DOMAIN work' |-> <<p, shuffles', i>>]
          /\ Ended(p, 2)' => mem'[p].deck = work'
          /\ mem'[p].shuffles = IF Ended(p, 0)' THEN shuffles' ELSE shuffles' - 1
    <3>1. ASSUME NEW p \in Players, Ended(p, 1) PROVE DOMAIN work' = DOMAIN work
      BY <1>1, <1>2, <1>4, <1>5, <3>1 DEF Shape
    <3>2. ASSUME NEW p \in Players, Ended(p, 2) PROVE work' = work
      BY <1>1, <1>2, <1>4, <3>2 DEF Shape
    <3> TAKE p \in Players
    <3>3. \A st \in 0..2 : Ended(p, st)' <=> Ended(p, st)
      BY <2>3
    <3>4. /\ Ended(p, 0) /\ ~Ended(p, 1) => mem[p].stage0 = <<p, shuffles, 0>>
          /\ Ended(p, 1) /\ ~Ended(p, 2) => mem[p].stage1 = [i \in DOMAIN work |-> <<p, shuffles, i>>]
          /\ Ended(p, 2) => mem[p].deck = work
          /\ mem[p].shuffles = IF Ended(p, 0) THEN shuffles ELSE shuffles - 1
      BY <1>1, <1>2 DEF MixInv
    <3>5. 0 \in 0..2 /\ 1 \in 0..2 /\ 2 \in 0..2
      OBVIOUS
    <3> QED
      BY <1>2, <3>1, <3>2, <3>3, <3>4, <3>5
  <2>6. MixInv'
    BY <1>2, <1>10, <1>12, <2>2, <2>4, <2>5 DEF MixInv, Hidden
  <2>7. WireInv'
    BY <1>2, <1>12, <2>1, <2>2 DEF WireInv, ShuffleCase, Idle, WithCards
  <2>8. PlayerKeys'
    BY <1>1, <1>2, <1>9 DEF PlayerKeys
  <2> QED
    BY <1>7, <1>11, <2>6, <2>7, <2>8 DEF ProtocolInv, Live
<1> QED
  BY <1>3, <1>7, <1>11, <1>12 DEF ProtocolInv, Terminal

(* An event that comes late changes a last event only.                     *)
LEMMA ArriveKeeps ==
  ASSUME ProtocolInv, Arrive
  PROVE  ProtocolInv'
<1>1. Shape /\ HostKeys
  BY DEF ProtocolInv
<1>2. UNCHANGED <<pc, deck, held, seen, discard, dealer, work, stage, seat, shuffles, turn, job, line>>
  BY DEF Arrive, table, game, passing
<1>3. MemStays
  BY <1>1 DEF Arrive, OnGameEvent, Shape, MemStays, Forgotten
<1>4. Shape'
  BY <1>1, <1>2, <1>3 DEF Shape, MemStays
<1>5. HostKeys' /\ \A p, v, key : Fits(p, v, key) => Fits(p, v, key)'
  BY <1>1, <1>2, TableStays
<1>6. Live => Live'
  <2>1. PlayerKeys => PlayerKeys'
    BY <1>3, <1>5 DEF PlayerKeys, MemStays
  <2>2. MixInv => MixInv'
    <3>1. \A p, st : Ended(p, st)' <=> Ended(p, st)
      BY <1>2 DEF Ended
    <3>2. \A st, k, i : Halfway(st, k, i)' = Halfway(st, k, i)
      BY <1>2 DEF Halfway
    <3>3. CASE pc = "Shuffle"
      BY <1>2, <1>3, <3>1, <3>2, <3>3 DEF MixInv, MemStays, Hidden
    <3>4. CASE pc # "Shuffle"
      BY <1>2, <1>3, <3>1, <3>4 DEF MixInv, MemStays
    <3> QED
      BY <3>3, <3>4
  <2>3. Shape /\ WireInv => WireInv'
    BY <1>2, <1>3, <1>5 DEF Shape, WireInv, MemStays, ShuffleCase, KeyCase, GiveCase, PlayCase
  <2> QED
    BY <1>1, <2>1, <2>2, <2>3 DEF Live
<1> QED
  BY <1>2, <1>4, <1>5, <1>6 DEF ProtocolInv
-----------------------------------------------------------------------------
\* The players' side

\* A player's step leaves the others as they are.
Alone(p) ==
  /\ DOMAIN mem' = Players /\ DOMAIN line' = Players /\ DOMAIN mem'[p] = DOMAIN Forgotten
  /\ \A q \in Players \ {p} : mem'[q] = mem[q] /\ line'[q] = line[q]

\* What it holds and has filed stays.
HandStays(p) ==
  /\ mem'[p].cardPairs = mem[p].cardPairs /\ mem'[p].myCards = mem[p].myCards
  /\ mem'[p].shuffles = mem[p].shuffles

(* Outside a shuffle such a step keeps the invariant if the keys the       *)
(* player has still fit and what is under way is as it should be.          *)
LEMMA StepKeeps ==
  ASSUME ProtocolInv, NEW p \in Players, Player(p), Alone(p)
  PROVE  /\ Shape' /\ HostKeys' /\ \A q, v, key : Fits(q, v, key) => Fits(q, v, key)'
         /\ UNCHANGED <<pc, turn, deck, work, stage, seat, shuffles>>
         /\ pc # "Shuffle" /\ pc \notin Terminal /\ WireInv'
            /\ mem'[p].shuffles = mem[p].shuffles /\ IsSeq(mem'[p].myCards)
            /\ (\A v \in DOMAIN mem'[p].cardPairs : Fits(p, v, mem[p].cardPairs[v])')
            /\ (\A c \in Range(mem'[p].myCards) : Fits(p, c.number, c.keys[p]))
              => ProtocolInv'
<1>1. Shape /\ HostKeys /\ (pc \notin Terminal => Live)
  BY DEF ProtocolInv
<1>2. UNCHANGED <<pc, deck, held, seen, discard, dealer, work, stage, seat, shuffles, turn, job>>
  BY DEF Player, table, game, passing
<1>3. Shape'
  BY <1>1, <1>2 DEF Shape, Alone
<1>4. HostKeys' /\ \A q, v, key : Fits(q, v, key) => Fits(q, v, key)'
  BY <1>1, <1>2, TableStays
<1>5. ASSUME pc # "Shuffle", pc \notin Terminal, WireInv', mem'[p].shuffles = mem[p].shuffles,
             IsSeq(mem'[p].myCards),
             \A v \in DOMAIN mem'[p].cardPairs : Fits(p, v, mem[p].cardPairs[v])',
             \A c \in Range(mem'[p].myCards) : Fits(p, c.number, c.keys[p])
      PROVE  ProtocolInv'
  <2>1. MixInv'
    BY <1>1, <1>2, <1>5 DEF Live, MixInv, Ended, Alone
  <2>2. PlayerKeys'
    <3>1. ASSUME NEW q \in Players
          PROVE  (/\ \A v \in DOMAIN mem[q].cardPairs : Fits(q, v, mem[q].cardPairs[v])
                  /\ IsSeq(mem[q].myCards)
                  /\ \A c \in Range(mem[q].myCards) : Fits(q, c.number, c.keys[q]))'
      <4>1. CASE q = p
        <5>1. IsSeq(mem[q].myCards)'
          BY <1>5, <4>1
        <5>2. \A c \in Range(mem'[q].myCards) : Fits(q, c.number, c.keys[q])'
          BY <1>4, <1>5, <4>1
        <5>3. (\A v \in DOMAIN mem[q].cardPairs : Fits(q, v, mem[q].cardPairs[v]))'
          BY <1>5, <4>1
        <5> QED
          BY <5>1, <5>2, <5>3
      <4>2. CASE q # p
        BY <1>1, <1>4, <1>5, <4>2 DEF Live, PlayerKeys, Alone
      <4> QED
        BY <4>1, <4>2
    <3> QED
      BY <3>1 DEF PlayerKeys
  <2> QED
    BY <1>2, <1>3, <1>4, <1>5, <2>1, <2>2 DEF ProtocolInv, Live
<1> QED
  BY <1>2, <1>3, <1>4, <1>5

(* An answer about nothing but events, hands begun and ended, colors.      *)
LEMMA OthersAnswer ==
  ASSUME Shape, NEW p \in Players,
         GameEnd(p) \/ HandStart(p) \/ HandEnd(p) \/ ChooseColor(p) \/ ShouldChallenge(p)
           \/ RevealForChallenge(p)
  PROVE  /\ Alone(p) /\ HandStays(p) /\ mem'[p].deck = mem[p].deck
         /\ line[p].type \notin ForCards \cup {"GameStart", "idle"}
         /\ line'[p].type \notin ForCards \cup {"GameStart"}
<1> USE DEF Shape, Alone, HandStays, Remember, Answer, Reply, Refuse, Signed, Asked, ForCards, Forgotten
<1>1. CASE GameEnd(p)
  BY <1>1 DEF GameEnd
<1>2. CASE HandStart(p)
  BY <1>2 DEF HandStart
<1>3. CASE HandEnd(p)
  BY <1>3 DEF HandEnd
<1>4. CASE ChooseColor(p)
  BY <1>4 DEF ChooseColor
<1>5. CASE ShouldChallenge(p)
  BY <1>5 DEF ShouldChallenge
<1>6. CASE RevealForChallenge(p)
  BY <1>6 DEF RevealForChallenge
<1> QED
  BY <1>1, <1>2, <1>3, <1>4, <1>5, <1>6

(* Where a player may be asked for what.                                   *)
LEMMA AskedWhere ==
  ASSUME Shape, WireInv, NEW p \in Players
  PROVE  /\ line[p].type = "Shuffle" => pc = "Shuffle" /\ p = seat
         /\ line[p].type = "Key" => pc \in {"Keys", "FirstKeys"} /\ (pc = "Keys" => p # turn)
         /\ line[p].type = "Give" => pc = "Give" /\ p = turn
         /\ line[p].type = "Play" => pc \in {"Play", "PlayAgain"} /\ p = turn
         /\ line[p].type = "GameStart" => pc = "GameStart"
         /\ line[p].type \in Requests \ (ForCards \cup {"GameStart"}) => pc \notin WithCards
BY DEF Shape, WireInv, ShuffleCase, KeyCase, GiveCase, PlayCase, Refusal, Idle, Requests,
       WithCards, ForCards

(* Such an answer keeps the invariant, as does a new game.                 *)
LEMMA OthersKeep ==
  ASSUME ProtocolInv, NEW p \in Players, Player(p),
         \/ GameEnd(p) \/ HandStart(p) \/ HandEnd(p) \/ ChooseColor(p) \/ ShouldChallenge(p)
         \/ RevealForChallenge(p) \/ GameStart(p)
  PROVE  ProtocolInv'
<1>1. Shape /\ (pc \notin Terminal => Live)
  BY DEF ProtocolInv
<1>2. CASE GameStart(p)
  <2>1. /\ Alone(p) /\ line[p].type = "GameStart" /\ line'[p].type = "signed"
        /\ mem'[p].deck = <<>> /\ mem'[p].cardPairs = <<>> /\ mem'[p].myCards = <<>>
        /\ mem'[p].shuffles = mem[p].shuffles
    BY <1>1, <1>2 DEF GameStart, Asked, Remember, Reply, Signed, Shape, Alone, Forgotten
  <2>2. /\ Shape' /\ HostKeys' /\ \A q, v, key : Fits(q, v, key) => Fits(q, v, key)'
        /\ UNCHANGED <<pc, turn, deck, work, stage, seat, shuffles>>
    BY <2>1, StepKeeps
  <2>3. CASE pc \notin Terminal
    <3>1. pc = "GameStart" /\ deck = <<>>
      BY <1>1, <2>1, <2>3, AskedWhere DEF Live, Shape
    <3>2. WireInv'
      BY <1>1, <2>1, <2>2, <2>3, <3>1 DEF Live, WireInv, Alone, WithCards, ForCards, Shape
    <3>3. DOMAIN mem'[p].cardPairs = {} /\ IsSeq(mem'[p].myCards) /\ Range(mem'[p].myCards) = {}
      BY <2>1, EmptyIsSeq DEF Range
    <3> QED
      BY <2>1, <2>3, <3>1, <3>2, <3>3, StepKeeps
  <2>4. CASE pc \in Terminal
    BY <2>2, <2>4 DEF ProtocolInv
  <2> QED
    BY <2>3, <2>4
<1>3. CASE GameEnd(p) \/ HandStart(p) \/ HandEnd(p) \/ ChooseColor(p) \/ ShouldChallenge(p)
             \/ RevealForChallenge(p)
  <2>1. /\ Alone(p) /\ HandStays(p) /\ mem'[p].deck = mem[p].deck
        /\ line'[p].type \notin ForCards \cup {"GameStart"}
    BY <1>1, <1>3, OthersAnswer
  <2>2. line[p].type \in Requests \ (ForCards \cup {"GameStart"})
    BY <1>3 DEF GameEnd, HandStart, HandEnd, ChooseColor, ShouldChallenge, RevealForChallenge,
                Asked, Requests, ForCards
  <2>3. /\ Shape' /\ HostKeys' /\ \A q, v, key : Fits(q, v, key) => Fits(q, v, key)'
        /\ UNCHANGED <<pc, turn, deck, work, stage, seat, shuffles>>
    BY <2>1, StepKeeps
  <2>4. CASE pc \notin Terminal
    <3>1. pc \notin WithCards
      BY <1>1, <2>2, <2>4, AskedWhere DEF Live
    <3>2. WireInv'
      BY <1>1, <2>1, <2>3, <2>4, <3>1 DEF Live, WireInv, Alone, WithCards, Shape
    <3>3. /\ IsSeq(mem'[p].myCards)
          /\ \A v \in DOMAIN mem'[p].cardPairs : Fits(p, v, mem[p].cardPairs[v])'
          /\ \A c \in Range(mem'[p].myCards) : Fits(p, c.number, c.keys[p])
      BY <1>1, <2>1, <2>3, <2>4 DEF Live, PlayerKeys, HandStays
    <3> QED
      BY <2>1, <2>4, <3>1, <3>2, <3>3, StepKeeps DEF HandStays, WithCards
  <2>5. CASE pc \in Terminal
    BY <2>3, <2>5 DEF ProtocolInv
  <2> QED
    BY <2>4, <2>5
<1> QED
  BY <1>2, <1>3

(* A key is given for the card on top of the deck, which is popped.        *)
LEMMA GetKeyKeeps ==
  ASSUME ProtocolInv, NEW p \in Players, Player(p), GetKey(p)
  PROVE  ProtocolInv'
<1>1. Shape /\ (pc \notin Terminal => Live)
  BY DEF ProtocolInv
<1> DEFINE last == Seqs!Last(mem[p].deck)
           to == line[p].to
           ok == IF to = None
                   THEN /\ mem[p].lastEvent # NoEvent /\ mem[p].lastEvent.hand # NoHand
                        /\ \A i \in DOMAIN mem[p].lastEvent.hand.discard :
                             Value(mem[p].lastEvent.hand.discard[i]) = WildDrawFour
                   ELSE to # p /\ last \notin mem[p].given
<1>2. /\ line[p].type = "Key"
      /\ \/ Refuse(p) /\ UNCHANGED mem
         \/ /\ mem[p].deck # <<>> /\ last \in DOMAIN mem[p].cardPairs
            /\ Remember(p, [mem[p] EXCEPT !.deck = Seqs!Front(@),
                              !.given = IF to # None /\ ok THEN @ \cup {last} ELSE @])
            /\ Answer(p, ok, [type |-> "key", key |-> mem[p].cardPairs[last]])
  BY Zenon DEF GetKey, Asked
<1>0. ok \in BOOLEAN
  BY Zenon
<1> HIDE DEF ok
<1>3. /\ Alone(p) /\ HandStays(p)
      /\ \/ line'[p].type = "refused"
         \/ /\ line'[p].type = "key" /\ mem[p].deck # <<>> /\ last \in DOMAIN mem[p].cardPairs
            /\ line'[p].key = mem[p].cardPairs[last]
            /\ mem'[p].deck = Seqs!Front(mem[p].deck)
  <2>1. CASE Refuse(p) /\ UNCHANGED mem
    BY <1>1, <2>1 DEF Refuse, Shape, Alone, HandStays
  <2>2. CASE ~(Refuse(p) /\ UNCHANGED mem)
    <3>1. PICK r, given :
            /\ r = [type |-> "key", key |-> mem[p].cardPairs[last]]
            /\ given = IF line[p].to # None /\ ok THEN mem[p].given \cup {last} ELSE mem[p].given
      OBVIOUS
    <3>2. /\ mem[p].deck # <<>> /\ last \in DOMAIN mem[p].cardPairs
          /\ mem' = [mem EXCEPT ![p] = [mem[p] EXCEPT !.deck = Seqs!Front(@), !.given = given]]
          /\ Answer(p, ok, r)
      BY <1>2, <2>2, <3>1, Zenon DEF Remember
    <3>3. line' = [line EXCEPT ![p] = r] \/ Refuse(p)
      BY <3>2, Zenon DEF Answer, Reply
    <3> HIDE DEF last
    <3> QED
      BY <1>1, <3>1, <3>2, <3>3 DEF Refuse, Shape, Alone, HandStays, Forgotten
  <2> QED
    BY <2>1, <2>2
<1> HIDE DEF last
<1>4. /\ Shape' /\ HostKeys' /\ \A q, v, key : Fits(q, v, key) => Fits(q, v, key)'
      /\ UNCHANGED <<pc, turn, deck, work, stage, seat, shuffles>>
  BY <1>3, StepKeeps
<1>5. CASE pc \notin Terminal
  <2>1. pc \in {"Keys", "FirstKeys"} /\ (pc = "Keys" => p # turn)
    BY <1>1, <1>2, <1>5, AskedWhere DEF Live
  <2>2. KeyCase(p) /\ mem[p].deck = deck
    BY <1>1, <1>2, <1>5, <2>1 DEF Live, WireInv, KeyCase, Refusal
  <2>3. KeyCase(p)'
    <3>1. CASE line'[p].type = "refused"
      BY <3>1 DEF KeyCase, Refusal
    <3>2. CASE line'[p].type # "refused"
      <4>1. PICK key, top : key = line'[p].key /\ top = last
        OBVIOUS
      <4>2. Fits(p, top, key)
        BY <1>1, <1>3, <1>5, <3>2, <4>1 DEF Live, PlayerKeys
      <4>3. top = Seqs!Last(deck')
        BY <1>4, <2>2, <4>1 DEF last
      <4>4. Fits(p, Seqs!Last(deck), line[p].key)'
        BY <1>4, <4>1, <4>2, <4>3
      <4>5. line'[p].type = "key" /\ deck' # <<>> /\ mem'[p].deck = Seqs!Front(deck')
        BY <1>3, <1>4, <2>2, <3>2
      <4> QED
        BY <4>4, <4>5 DEF KeyCase
    <3> QED
      BY <3>1, <3>2
  <2>4. \A q \in Players : KeyCase(q) => KeyCase(q)'
    <3>1. ASSUME NEW q \in Players, q # p, KeyCase(q)
          PROVE  KeyCase(q)'
      BY <1>3, <1>4, <3>1 DEF KeyCase, Refusal, Alone
    <3> QED
      BY <2>3, <3>1
  <2>5. WireInv'
    BY <1>1, <1>3, <1>4, <1>5, <2>1, <2>4 DEF Live, WireInv, Alone, WithCards, Shape
  <2>6. /\ IsSeq(mem'[p].myCards)
        /\ \A v \in DOMAIN mem'[p].cardPairs : Fits(p, v, mem[p].cardPairs[v])'
        /\ \A c \in Range(mem'[p].myCards) : Fits(p, c.number, c.keys[p])
    BY <1>1, <1>3, <1>4, <1>5 DEF Live, PlayerKeys, HandStays
  <2> QED
    BY <1>3, <1>5, <2>1, <2>5, <2>6, StepKeeps DEF HandStays
<1>6. CASE pc \in Terminal
  BY <1>4, <1>6 DEF ProtocolInv
<1> QED
  BY <1>5, <1>6

(* A card is taken with all of its keys, the player's own with them.       *)
LEMMA GiveCardKeeps ==
  ASSUME ProtocolInv, NEW p \in Players, Player(p), GiveCard(p)
  PROVE  ProtocolInv'
<1>1. Shape /\ (pc \notin Terminal => Live)
  BY DEF ProtocolInv
<1> DEFINE last == Seqs!Last(mem[p].deck)
           others == line[p].keys
           keys == [others EXCEPT ![p] = mem[p].cardPairs[last]]
           open == FoldSet(LAMBDA q, v : DecryptInt(keys[q], v), last, Players)
           ok == /\ last \in DOMAIN mem[p].cardPairs
                 /\ last \notin mem[p].given
                 /\ \A q \in Players : (others[q] = NoKey) = (q = p)
                 /\ Opened(open)
           mine == [card |-> open.card, number |-> last, keys |-> keys]
<1>2. /\ line[p].type = "Give"
      /\ \/ Refuse(p) /\ UNCHANGED mem
         \/ /\ mem[p].deck # <<>>
            /\ Remember(p, [mem[p] EXCEPT !.deck = Popped(@), !.given = @ \cup {last},
                              !.myCards = IF ok THEN Append(@, mine) ELSE @])
            /\ Answer(p, ok, [type |-> "taken"])
  BY Zenon DEF GiveCard, Asked
<1>3. PICK top, card : top = last /\ card = open.card
  OBVIOUS
<1>4. PICK own : own = mem[p].cardPairs[top]
  OBVIOUS
<1>5. mine = [card |-> card, number |-> top, keys |-> [others EXCEPT ![p] = own]]
  BY <1>3, <1>4
<1>6. ok \in BOOLEAN /\ (ok => top \in DOMAIN mem[p].cardPairs)
  BY <1>3, Zenon
<1> HIDE DEF ok, mine, open, keys
<1>7. /\ Alone(p) /\ mem'[p].cardPairs = mem[p].cardPairs /\ mem'[p].shuffles = mem[p].shuffles
      /\ \/ line'[p].type = "refused" /\ mem'[p].myCards = mem[p].myCards
         \/ /\ line'[p].type = "taken" /\ ok
            /\ mem[p].deck # <<>> /\ mem'[p].deck = Seqs!Front(mem[p].deck)
            /\ mem'[p].myCards = Append(mem[p].myCards, mine)
  <2>1. CASE Refuse(p) /\ UNCHANGED mem
    BY <1>1, <2>1 DEF Refuse, Shape, Alone
  <2>2. CASE ~(Refuse(p) /\ UNCHANGED mem)
    <3>1. PICK given, cards :
            /\ given = mem[p].given \cup {last}
            /\ cards = IF ok THEN Append(mem[p].myCards, mine) ELSE mem[p].myCards
      OBVIOUS
    <3>2. /\ mem[p].deck # <<>>
          /\ mem' = [mem EXCEPT ![p] = [mem[p] EXCEPT !.deck = Popped(@), !.given = given,
                                          !.myCards = cards]]
          /\ Answer(p, ok, [type |-> "taken"])
      BY <1>2, <2>2, <3>1, Zenon DEF Remember
    <3>3. \/ ok /\ line' = [line EXCEPT ![p] = [type |-> "taken"]]
          \/ ~ok /\ Refuse(p)
      BY <1>6, <3>2, Zenon DEF Answer, Reply
    <3>4. \/ ok /\ cards = Append(mem[p].myCards, mine)
          \/ ~ok /\ cards = mem[p].myCards
      BY <1>6, <3>1, Zenon
    <3> HIDE DEF last
    <3>5. /\ Alone(p) /\ mem'[p].cardPairs = mem[p].cardPairs
          /\ mem'[p].shuffles = mem[p].shuffles /\ mem'[p].myCards = cards
          /\ mem'[p].deck = Seqs!Front(mem[p].deck)
      BY <1>1, <3>2, <3>3 DEF Refuse, Popped, Shape, Alone, Forgotten
    <3>6. \/ line'[p].type = "taken" /\ ok
          \/ line'[p].type = "refused" /\ ~ok
      <4>1. CASE line' = [line EXCEPT ![p] = [type |-> "taken"]] /\ ok
        BY <1>1, <4>1 DEF Shape
      <4>2. CASE Refuse(p) /\ ~ok
        BY <1>1, <4>2 DEF Refuse, Shape
      <4> QED
        BY <3>3, <4>1, <4>2, Zenon
    <3> QED
      BY <3>2, <3>4, <3>5, <3>6, Zenon
  <2> QED
    BY <2>1, <2>2
<1>8. /\ Shape' /\ HostKeys' /\ \A q, v, key : Fits(q, v, key) => Fits(q, v, key)'
      /\ UNCHANGED <<pc, turn, deck, work, stage, seat, shuffles>>
  BY <1>7, StepKeeps
<1>9. CASE pc \notin Terminal
  <2>1. pc = "Give" /\ p = turn
    BY <1>1, <1>2, <1>9, AskedWhere DEF Live
  <2>2. GiveCase(p)
    BY <1>1, <1>9, <2>1 DEF Live, WireInv
  <2>3. DOMAIN others = Players /\ Seqs!Front(mem[p].deck) = deck
    BY <1>2, <2>2 DEF GiveCase, Refusal
  <2>4. GiveCase(p)'
    BY <1>7, <1>8, <2>3 DEF GiveCase, Refusal
  <2>5. WireInv'
    BY <1>1, <1>7, <1>8, <1>9, <2>1, <2>4 DEF Live, WireInv, Alone, WithCards, Shape
  <2>6. \A v \in DOMAIN mem'[p].cardPairs : Fits(p, v, mem[p].cardPairs[v])'
    BY <1>1, <1>7, <1>8, <1>9 DEF Live, PlayerKeys
  <2>7. /\ IsSeq(mem[p].myCards)
        /\ \A c \in Range(mem[p].myCards) : Fits(p, c.number, c.keys[p])
    BY <1>1, <1>9 DEF Live, PlayerKeys
  <2>8. /\ IsSeq(mem'[p].myCards)
        /\ \A c \in Range(mem'[p].myCards) : Fits(p, c.number, c.keys[p])
    <3>1. CASE mem'[p].myCards = mem[p].myCards
      BY <2>7, <3>1
    <3>2. CASE ok /\ mem'[p].myCards = Append(mem[p].myCards, mine)
      <4>1. PICK c : c = mine
        OBVIOUS
      <4>2. IsSeq(mem'[p].myCards) /\ Range(mem'[p].myCards) \subseteq Range(mem[p].myCards) \cup {c}
        BY <2>7, <3>2, <4>1, Appended
      <4>3. c.number = top /\ c.keys[p] = own
        BY <1>5, <2>3, <4>1
      <4>4. PICK number, key : number = c.number /\ key = c.keys[p]
        OBVIOUS
      <4>5. Fits(p, number, key)
        BY <1>1, <1>4, <1>6, <1>9, <3>2, <4>3, <4>4 DEF Live, PlayerKeys
      <4> QED
        BY <2>7, <4>2, <4>4, <4>5
    <3> QED
      BY <1>7, <3>1, <3>2
  <2> QED
    BY <1>7, <1>9, <2>1, <2>5, <2>6, <2>8, StepKeeps
<1>10. CASE pc \in Terminal
  BY <1>8, <1>10 DEF ProtocolInv
<1> QED
  BY <1>9, <1>10

(* A card is played that it holds, or nothing.                             *)
LEMMA PlayKeeps ==
  ASSUME ProtocolInv, NEW p \in Players, Player(p), Play(p)
  PROVE  ProtocolInv'
<1>1. Shape /\ (pc \notin Terminal => Live)
  BY DEF ProtocolInv
<1>2. /\ Alone(p) /\ line[p].type = "Play" /\ mem'[p].deck = mem[p].deck
      /\ mem'[p].cardPairs = mem[p].cardPairs /\ mem'[p].shuffles = mem[p].shuffles
      /\ \/ line'[p].type = "refused" /\ mem'[p].myCards = mem[p].myCards
         \/ \E i \in DOMAIN mem[p].myCards :
              /\ mem'[p].myCards = Seqs!RemoveAt(mem[p].myCards, i)
              /\ line'[p].type = "play" /\ line'[p].number = mem[p].myCards[i].number
              /\ line'[p].keys = mem[p].myCards[i].keys
  <2>1. PICK i \in UIPlays(mem[p]) :
           IF i = NoCard THEN Refuse(p) /\ UNCHANGED mem
           ELSE LET c == mem[p].myCards[i]
                IN  /\ Remember(p, [mem[p] EXCEPT !.myCards = Without(@, i)])
                    /\ \E chosen \in IF IsWild(c.card) THEN ChosenColors ELSE {0} :
                         Reply(p, [type |-> "play", card |-> c.card, number |-> c.number,
                                   keys |-> c.keys, wildColor |-> ColorSent(c.card, chosen)])
    BY Zenon DEF Play
  <2>2. line[p].type = "Play"
    BY DEF Play, Asked
  <2>3. CASE i = NoCard
    BY <1>1, <2>1, <2>2, <2>3 DEF Refuse, Shape, Alone
  <2>4. CASE i # NoCard
    <3>1. i \in DOMAIN mem[p].myCards
      BY <2>4 DEF UIPlays
    <3>2. mem' = [mem EXCEPT ![p] = [mem[p] EXCEPT !.myCards = Seqs!RemoveAt(@, i)]]
      BY <2>1, <2>4 DEF Remember, Without
    <3>3. PICK wildColor : line' = [line EXCEPT ![p] =
             [type |-> "play", card |-> mem[p].myCards[i].card, number |-> mem[p].myCards[i].number,
              keys |-> mem[p].myCards[i].keys, wildColor |-> wildColor]]
      BY <2>1, <2>4 DEF Reply
    <3> QED
      BY <1>1, <2>2, <3>1, <3>2, <3>3 DEF Shape, Alone, Forgotten
  <2> QED
    BY <2>3, <2>4
<1>3. /\ Shape' /\ HostKeys' /\ \A q, v, key : Fits(q, v, key) => Fits(q, v, key)'
      /\ UNCHANGED <<pc, turn, deck, work, stage, seat, shuffles>>
  BY <1>2, StepKeeps
<1>4. CASE pc \notin Terminal
  <2>1. pc \in {"Play", "PlayAgain"} /\ p = turn
    BY <1>1, <1>2, <1>4, AskedWhere DEF Live
  <2>2. /\ IsSeq(mem[p].myCards)
        /\ \A c \in Range(mem[p].myCards) : Fits(p, c.number, c.keys[p])
        /\ \A v \in DOMAIN mem[p].cardPairs : Fits(p, v, mem[p].cardPairs[v])
    BY <1>1, <1>4 DEF Live, PlayerKeys
  <2>3. IsSeq(mem'[p].myCards) /\ Range(mem'[p].myCards) \subseteq Range(mem[p].myCards)
    BY <1>2, <2>2, Removed
  <2>4. PlayCase(p)'
    <3>1. CASE line'[p].type = "refused"
      BY <3>1 DEF PlayCase, Refusal
    <3>2. CASE line'[p].type # "refused"
      <4>1. PICK i \in DOMAIN mem[p].myCards :
              /\ line'[p].type = "play" /\ line'[p].number = mem[p].myCards[i].number
              /\ line'[p].keys = mem[p].myCards[i].keys
        BY <1>2, <3>2
      <4>2. PICK c : c = mem[p].myCards[i]
        OBVIOUS
      <4>3. PICK number, key : number = c.number /\ key = c.keys[p]
        OBVIOUS
      <4>4. Fits(p, number, key)'
        BY <1>3, <2>2, <4>2, <4>3 DEF Range
      <4>5. line'[p].number = number /\ line'[p].keys[p] = key
        BY <4>1, <4>2, <4>3
      <4>6. Fits(p, line[p].number, line[p].keys[p])'
        BY <4>4, <4>5
      <4> QED
        BY <4>1, <4>6 DEF PlayCase
    <3> QED
      BY <3>1, <3>2
  <2>5. WireInv'
    BY <1>1, <1>2, <1>3, <1>4, <2>1, <2>4 DEF Live, WireInv, Alone, WithCards, Shape
  <2>6. \A v \in DOMAIN mem'[p].cardPairs : Fits(p, v, mem[p].cardPairs[v])'
    BY <1>2, <1>3, <2>2
  <2> QED
    BY <1>2, <1>4, <2>1, <2>2, <2>3, <2>5, <2>6, StepKeeps
<1>5. CASE pc \in Terminal
  BY <1>3, <1>5 DEF ProtocolInv
<1> QED
  BY <1>4, <1>5
-----------------------------------------------------------------------------
\* The shuffle, on the players' side

(* What a key that is not on a number adds to it, and one that is takes    *)
(* away; 0 and 1 stay what they are.                                       *)
LEMMA Encrypted ==
  ASSUME NEW key, NEW v, IsNumber(v), Hidden(v) => <<key, -1>> \notin v.powers
  PROVE  /\ IsNumber(EncryptInt(key, v)) /\ EncryptInt(key, v).card = v.card
         /\ Hidden(v) => EncryptInt(key, v).powers = v.powers \cup {<<key, 1>>}
<1> DEFINE e == [card |-> v.card, powers |-> IF Hidden(v) THEN v.powers \cup {<<key, 1>>} ELSE v.powers]
<1>1. EncryptInt(key, v) = e
  BY DEF EncryptInt, Exp, Hidden, IsNumber
<1> QED
  BY <1>1 DEF IsNumber

LEMMA Decrypts ==
  ASSUME NEW key, NEW v, IsNumber(v), Hidden(v) => <<key, 1>> \in v.powers
  PROVE  /\ IsNumber(DecryptInt(key, v)) /\ DecryptInt(key, v).card = v.card
         /\ Hidden(v) => DecryptInt(key, v).powers = v.powers \ {<<key, 1>>}
<1> DEFINE e == [card |-> v.card, powers |-> IF Hidden(v) THEN v.powers \ {<<key, 1>>} ELSE v.powers]
<1>1. DecryptInt(key, v) = e
  BY DEF DecryptInt, Exp, Hidden, IsNumber
<1> QED
  BY <1>1 DEF IsNumber

(* The answer to a shuffle request is what it should be if the working set *)
(* and the player's keys are as far as they should be.                     *)
LEMMA ShuffleStepKeeps ==
  ASSUME ProtocolInv, NEW p \in Players, Player(p), Alone(p), line[p].type = "Shuffle",
         line'[p].type \in {"refused", "cards", "taken"}, pc \notin Terminal,
         IsSeq(mem'[p].myCards),
         (\A v \in DOMAIN mem'[p].cardPairs : Fits(p, v, mem[p].cardPairs[v])'),
         (\A c \in Range(mem'[p].myCards) : Fits(p, c.number, c.keys[p])),
         LET ended(st) == stage > st \/ (stage = st /\ line'[p].type # "refused")
         IN  /\ ended(0) /\ ~ended(1) => mem'[p].stage0 = <<p, shuffles, 0>>
             /\ ended(1) /\ ~ended(2) =>
                  mem'[p].stage1 = [i \in DOMAIN work |-> <<p, shuffles, i>>]
             /\ ended(2) => mem'[p].deck = work
             /\ mem'[p].shuffles = IF ended(0) THEN shuffles ELSE shuffles - 1,
         line'[p].type = "cards" =>
            /\ stage < 2 /\ IsSeq(line'[p].cards)
            /\ stage = 1 => DOMAIN line'[p].cards = DOMAIN work
            /\ \A i \in DOMAIN line'[p].cards :
                 /\ IsNumber(line'[p].cards[i])
                 /\ Hidden(line'[p].cards[i]) =>
                      line'[p].cards[i].powers = Halfway(stage, seat + 1, i),
         line'[p].type = "taken" => stage = 2
  PROVE  ProtocolInv'
<1>1. Shape /\ WireInv /\ MixInv /\ PlayerKeys
  BY DEF ProtocolInv, Live
<1>2. /\ Shape' /\ HostKeys' /\ \A q, v, key : Fits(q, v, key) => Fits(q, v, key)'
      /\ UNCHANGED <<pc, turn, deck, work, stage, seat, shuffles>>
  BY StepKeeps
<1>3. pc = "Shuffle" /\ p = seat
  BY <1>1, AskedWhere
<1>4. WireInv'
  BY <1>1, <1>2, <1>3 DEF WireInv, ShuffleCase, Refusal, Alone, WithCards
<1>5. \A q \in Players \ {p}, st \in 0..2 : Ended(q, st)' <=> Ended(q, st)
  BY <1>2, <1>3 DEF Ended
<1>6. \A st \in 0..2 : Ended(p, st)' <=> stage > st \/ (stage = st /\ line'[p].type # "refused")
  BY <1>1, <1>2, <1>3 DEF Ended, Shape, Players
<1>7. \A st, k, i : Halfway(st, k, i)' = Halfway(st, k, i)
  BY <1>2 DEF Halfway
<1>8. 0 \in 0..2 /\ 1 \in 0..2 /\ 2 \in 0..2
  OBVIOUS
<1>9. ASSUME NEW q \in Players
      PROVE  /\ Ended(q, 0)' /\ ~Ended(q, 1)' => mem'[q].stage0 = <<q, shuffles, 0>>
             /\ Ended(q, 1)' /\ ~Ended(q, 2)' =>
                  mem'[q].stage1 = [i \in DOMAIN work |-> <<q, shuffles, i>>]
             /\ Ended(q, 2)' => mem'[q].deck = work
             /\ mem'[q].shuffles = IF Ended(q, 0)' THEN shuffles ELSE shuffles - 1
  <2>1. CASE q = p
    BY <1>6, <1>8, <2>1
  <2>2. CASE q # p
    BY <1>1, <1>3, <1>5, <1>8, <2>2 DEF MixInv, Alone
  <2> QED
    BY <2>1, <2>2
<1>10. MixInv'
  <2>1. /\ deck' = <<>>
        /\ \A i \in DOMAIN work' : Hidden(work'[i]) => work'[i].powers = Halfway(stage, seat, i)'
    BY <1>1, <1>2, <1>3, <1>7 DEF MixInv
  <2>2. PICK r : r = line'[p]
    OBVIOUS
  <2>3. r.type = "cards" =>
            /\ stage < 2 /\ IsSeq(r.cards)
            /\ stage = 1 => DOMAIN r.cards = DOMAIN work
            /\ \A i \in DOMAIN r.cards :
                 /\ IsNumber(r.cards[i])
                 /\ Hidden(r.cards[i]) => r.cards[i].powers = Halfway(stage, seat + 1, i)
    BY <2>2, Zenon
  <2>4. \A i : Halfway(stage, seat + 1, i)' = Halfway(stage, seat + 1, i)
    BY <1>2, <1>7
  <2>5. (line[seat].type = "cards" =>
            /\ stage < 2 /\ IsSeq(line[seat].cards)
            /\ stage = 1 => DOMAIN line[seat].cards = DOMAIN work
            /\ \A i \in DOMAIN line[seat].cards :
                 /\ IsNumber(line[seat].cards[i])
                 /\ Hidden(line[seat].cards[i]) =>
                      line[seat].cards[i].powers = Halfway(stage, seat + 1, i))'
    BY <1>2, <1>3, <2>2, <2>3, <2>4
  <2>6. (line[seat].type = "taken" => stage = 2)'
    BY <1>2, <1>3
  <2>7. \A q \in Players :
           (/\ Ended(q, 0) /\ ~Ended(q, 1) => mem[q].stage0 = <<q, shuffles, 0>>
            /\ Ended(q, 1) /\ ~Ended(q, 2) =>
                 mem[q].stage1 = [i \in DOMAIN work |-> <<q, shuffles, i>>]
            /\ Ended(q, 2) => mem[q].deck = work
            /\ mem[q].shuffles = IF Ended(q, 0) THEN shuffles ELSE shuffles - 1)'
    BY <1>2, <1>9
  <2> QED
    BY <2>1, <2>5, <2>6, <2>7 DEF MixInv
<1>11. PlayerKeys'
  <2>1. ASSUME NEW q \in Players
        PROVE  (/\ \A v \in DOMAIN mem[q].cardPairs : Fits(q, v, mem[q].cardPairs[v])
                /\ IsSeq(mem[q].myCards)
                /\ \A c \in Range(mem[q].myCards) : Fits(q, c.number, c.keys[q]))'
    <3>1. CASE q = p
      <4>1. IsSeq(mem[q].myCards)'
        BY <3>1
      <4>2. \A c \in Range(mem'[q].myCards) : Fits(q, c.number, c.keys[q])'
        BY <1>2, <3>1
      <4>3. (\A v \in DOMAIN mem[q].cardPairs : Fits(q, v, mem[q].cardPairs[v]))'
        BY <3>1
      <4> QED
        BY <4>1, <4>2, <4>3
    <3>2. CASE q # p
      BY <1>1, <1>2, <3>2 DEF PlayerKeys, Alone
    <3> QED
      BY <3>1, <3>2
  <2> QED
    BY <2>1 DEF PlayerKeys
<1> QED
  BY <1>2, <1>4, <1>10, <1>11 DEF ProtocolInv, Live

(* A player that is asked to shuffle: how far it is.                       *)
LEMMA AskedToShuffle ==
  ASSUME ProtocolInv, NEW p \in Players, line[p].type = "Shuffle", pc \notin Terminal
  PROVE  /\ pc = "Shuffle" /\ p = seat /\ line[p].stage = stage /\ line[p].cards = work
         /\ stage \in 0..2 /\ shuffles \in Nat
         /\ mem[p].shuffles = IF stage = 0 THEN shuffles - 1 ELSE shuffles
         /\ stage = 1 => mem[p].stage0 = <<p, shuffles, 0>>
         /\ stage = 2 => mem[p].stage1 = [i \in DOMAIN work |-> <<p, shuffles, i>>]
         /\ \A i \in DOMAIN work : IsNumber(work[i])
         /\ \A i \in DOMAIN work : Hidden(work[i]) => work[i].powers = Halfway(stage, p, i)
         /\ IsSeq(mem[p].myCards)
         /\ \A v \in DOMAIN mem[p].cardPairs : Fits(p, v, mem[p].cardPairs[v])
         /\ \A c \in Range(mem[p].myCards) : Fits(p, c.number, c.keys[p])
<1>1. Shape /\ WireInv /\ MixInv /\ PlayerKeys
  BY DEF ProtocolInv, Live
<1>2. pc = "Shuffle" /\ p = seat
  BY <1>1, AskedWhere
<1>3. ShuffleCase(p)
  BY <1>1, <1>2 DEF WireInv
<1>4. \A st \in 0..2 : Ended(p, st) <=> stage > st
  BY <1>1, <1>2 DEF Ended, Shape, Players
<1>5. 0 \in 0..2 /\ 1 \in 0..2 /\ 2 \in 0..2
  OBVIOUS
<1>6. stage \in 0..2 /\ shuffles \in Nat /\ \A i \in DOMAIN work : IsNumber(work[i])
  BY <1>1 DEF Shape
<1>7. /\ mem[p].shuffles = IF stage = 0 THEN shuffles - 1 ELSE shuffles
      /\ stage = 1 => mem[p].stage0 = <<p, shuffles, 0>>
      /\ stage = 2 => mem[p].stage1 = [i \in DOMAIN work |-> <<p, shuffles, i>>]
  BY <1>1, <1>2, <1>4, <1>5, <1>6 DEF MixInv
<1>8. \A i \in DOMAIN work : Hidden(work[i]) => work[i].powers = Halfway(stage, p, i)
  BY <1>1, <1>2 DEF MixInv
<1> QED
  BY <1>1, <1>2, <1>3, <1>6, <1>7, <1>8 DEF ShuffleCase, Refusal, PlayerKeys

LEMMA ShuffleRefusedKeeps ==
  ASSUME ProtocolInv, NEW p \in Players, Player(p), ShuffleRefused(p)
  PROVE  ProtocolInv'
<1>1. Shape
  BY DEF ProtocolInv
<1>2. Alone(p) /\ line[p].type = "Shuffle" /\ line'[p].type = "refused" /\ UNCHANGED mem
  BY <1>1 DEF ShuffleRefused, Asked, Refuse, Shape, Alone
<1>3. /\ Shape' /\ HostKeys' /\ \A q, v, key : Fits(q, v, key) => Fits(q, v, key)'
      /\ UNCHANGED <<pc, turn, deck, work, stage, seat, shuffles>>
  BY <1>2, StepKeeps
<1>4. CASE pc \notin Terminal
  <2>1. /\ stage > 0 /\ ~(stage > 1) => mem'[p].stage0 = <<p, shuffles, 0>>
        /\ stage > 1 /\ ~(stage > 2) =>
             mem'[p].stage1 = [i \in DOMAIN work |-> <<p, shuffles, i>>]
        /\ ~(stage > 2)
        /\ mem'[p].shuffles = IF stage > 0 THEN shuffles ELSE shuffles - 1
    BY <1>2, <1>4, AskedToShuffle
  <2>2. (\A v \in DOMAIN mem'[p].cardPairs : Fits(p, v, mem[p].cardPairs[v])')
    BY <1>2, <1>3, <1>4, AskedToShuffle
  <2>3. /\ IsSeq(mem'[p].myCards)
        /\ \A c \in Range(mem'[p].myCards) : Fits(p, c.number, c.keys[p])
    BY <1>2, <1>4, AskedToShuffle
  <2> QED
    BY <1>2, <1>4, <2>1, <2>2, <2>3, ShuffleStepKeeps
<1>5. CASE pc \in Terminal
  BY <1>3, <1>5 DEF ProtocolInv
<1> QED
  BY <1>4, <1>5

(* One key for all the numbers, in a new order.                            *)
LEMMA Stage0Keeps ==
  ASSUME ProtocolInv, NEW p \in Players, Player(p), ShuffleStage0(p)
  PROVE  ProtocolInv'
<1>1. Shape
  BY DEF ProtocolInv
<1> DEFINE req == line[p].cards
           key0 == <<p, mem[p].shuffles + 1, 0>>
           numbers0 == {EncryptInt(key0, req[i]) : i \in DOMAIN req}
           from0 == IF mem[p].start = <<>> THEN line[p].start ELSE mem[p].start
<1>2. /\ mem' = [mem EXCEPT ![p] = [mem[p] EXCEPT !.start = from0, !.stage0 = key0,
                                       !.shuffles = @ + 1]]
      /\ \E cards \in Seqs!SetToSeqs(numbers0) :
           line' = [line EXCEPT ![p] = [type |-> "cards", cards |-> cards]]
  BY Zenon DEF ShuffleStage0, Remember, Reply
<1>3. PICK key, numbers : key = key0 /\ numbers = numbers0
  OBVIOUS
<1>4. PICK from, cards :
        /\ cards \in Seqs!SetToSeqs(numbers)
        /\ mem' = [mem EXCEPT ![p] = [mem[p] EXCEPT !.start = from, !.stage0 = key,
                                       !.shuffles = @ + 1]]
        /\ line' = [line EXCEPT ![p] = [type |-> "cards", cards |-> cards]]
  <2> HIDE DEF key0, numbers0, from0
  <2> QED
    BY <1>2, <1>3
<1>5. key = <<p, mem[p].shuffles + 1, 0>> /\ numbers = {EncryptInt(key, req[i]) : i \in DOMAIN req}
  BY <1>3
<1>6. /\ Alone(p) /\ line[p].type = "Shuffle" /\ line[p].stage = 0
      /\ line'[p].type = "cards" /\ line'[p].cards = cards
      /\ mem'[p].cardPairs = mem[p].cardPairs /\ mem'[p].myCards = mem[p].myCards
      /\ mem'[p].stage0 = key /\ mem'[p].shuffles = mem[p].shuffles + 1
  <2>1. line[p].type = "Shuffle" /\ line[p].stage = 0
    BY DEF ShuffleStage0, Asked
  <2> QED
    BY <1>1, <1>4, <2>1 DEF Shape, Alone, Forgotten
<1>7. /\ Shape' /\ HostKeys' /\ \A q, v, k : Fits(q, v, k) => Fits(q, v, k)'
      /\ UNCHANGED <<pc, turn, deck, work, stage, seat, shuffles>>
  BY <1>6, StepKeeps
<1>8. CASE pc \notin Terminal
  <2>1. /\ p = seat /\ req = work /\ stage = 0 /\ key = <<p, shuffles, 0>>
        /\ mem'[p].shuffles = shuffles
    <3>1. /\ p = seat /\ req = work /\ stage = 0
          /\ shuffles \in Nat /\ mem[p].shuffles = shuffles - 1
      BY <1>6, <1>8, AskedToShuffle
    <3> QED
      BY <1>6, <1>5, <3>1
  <2>2. \A i \in DOMAIN work : IsNumber(work[i]) /\
          (Hidden(work[i]) => work[i].powers = {<<<<q, shuffles, 0>>, 1>> : q \in 0..p-1})
    BY <1>6, <1>8, <2>1, AskedToShuffle DEF Halfway
  <2>3. ASSUME NEW v \in numbers
        PROVE  IsNumber(v) /\ (Hidden(v) => \A i : v.powers = Halfway(0, seat + 1, i))
    <3>1. PICK i \in DOMAIN work : v = EncryptInt(key, work[i])
      BY <1>5, <2>1
    <3>2. PICK w : w = work[i]
      OBVIOUS
    <3>3. IsNumber(w) /\ (Hidden(w) => w.powers = {<<<<q, shuffles, 0>>, 1>> : q \in 0..p-1})
      BY <2>2, <3>2
    <3>4. /\ IsNumber(v) /\ v.card = w.card
          /\ Hidden(w) => v.powers = w.powers \cup {<<key, 1>>}
      <4>1. Hidden(w) => <<key, -1>> \notin w.powers
        BY <3>3
      <4> QED
        BY <3>1, <3>2, <3>3, <4>1, Encrypted
    <3>5. 0..(p + 1 - 1) = (0..p-1) \cup {p}
      BY NAssumption DEF Players
    <3> QED
      BY <2>1, <3>3, <3>4, <3>5 DEF Halfway, Hidden
  <2>4. IsFiniteSet(numbers)
    <3>1. DOMAIN work = 1..Len(work) /\ Len(work) \in Nat
      BY <1>1, SeqFacts DEF Shape
    <3>2. IsFiniteSet(DOMAIN work)
      BY <3>1, 1 \in Int, Len(work) \in Int, FS_Interval
    <3>3. numbers = {EncryptInt(key, work[i]) : i \in DOMAIN work}
      BY <1>5, <2>1
    <3>4. PICK f : f = [i \in DOMAIN work |-> EncryptInt(key, work[i])]
      OBVIOUS
    <3>5. f \in Surjection(DOMAIN work, numbers)
      BY <3>3, <3>4 DEF Surjection
    <3> QED
      BY <3>2, <3>5, FS_Surjection
  <2>5. IsSeq(cards) /\ \A i \in DOMAIN cards : cards[i] \in numbers
    BY <1>4, <2>4, Orders
  <2>6. \A i \in DOMAIN cards : /\ IsNumber(cards[i])
                                /\ Hidden(cards[i]) => cards[i].powers = Halfway(stage, seat + 1, i)
    BY <2>1, <2>3, <2>5
  <2>7. (\A v \in DOMAIN mem'[p].cardPairs : Fits(p, v, mem[p].cardPairs[v])')
    BY <1>6, <1>7, <1>8, AskedToShuffle
  <2>8. /\ IsSeq(mem'[p].myCards)
        /\ \A c \in Range(mem'[p].myCards) : Fits(p, c.number, c.keys[p])
    BY <1>6, <1>8, AskedToShuffle
  <2> HIDE DEF req
  <2> QED
    BY <1>6, <1>8, <2>1, <2>5, <2>6, <2>7, <2>8, ShuffleStepKeeps
<1>9. CASE pc \in Terminal
  BY <1>7, <1>9 DEF ProtocolInv
<1> QED
  BY <1>8, <1>9

(* The common key on each number is replaced by one of its own.            *)
LEMMA Stage1Keeps ==
  ASSUME ProtocolInv, NEW p \in Players, Player(p), ShuffleStage1(p)
  PROVE  ProtocolInv'
<1>1. Shape
  BY DEF ProtocolInv
<1> DEFINE req == line[p].cards
           keys0 == [i \in DOMAIN req |-> Stage1Key(p, mem[p], i)]
           cards0 == [i \in DOMAIN keys0 |->
                        EncryptInt(keys0[i], DecryptInt(mem[p].stage0, req[i]))]
<1>2. /\ mem' = [mem EXCEPT ![p] = [mem[p] EXCEPT !.stage1 = keys0, !.stage0 = NoKey]]
      /\ line' = [line EXCEPT ![p] = [type |-> "cards", cards |-> cards0]]
  BY Zenon DEF ShuffleStage1, Remember, Reply
<1>3. PICK keys, cards : keys = keys0 /\ cards = cards0
  OBVIOUS
<1>4. /\ mem' = [mem EXCEPT ![p] = [mem[p] EXCEPT !.stage1 = keys, !.stage0 = NoKey]]
      /\ line' = [line EXCEPT ![p] = [type |-> "cards", cards |-> cards]]
  <2> HIDE DEF keys0, cards0
  <2> QED
    BY <1>2, <1>3
<1>5. /\ keys = [i \in DOMAIN req |-> <<p, mem[p].shuffles, i>>]
      /\ cards = [i \in DOMAIN keys |-> EncryptInt(keys[i], DecryptInt(mem[p].stage0, req[i]))]
  BY <1>3 DEF Stage1Key
<1> HIDE DEF keys0, cards0
<1>6. /\ Alone(p) /\ line[p].type = "Shuffle" /\ line[p].stage = 1
      /\ line'[p].type = "cards" /\ line'[p].cards = cards
      /\ mem'[p].cardPairs = mem[p].cardPairs /\ mem'[p].myCards = mem[p].myCards
      /\ mem'[p].stage1 = keys /\ mem'[p].shuffles = mem[p].shuffles
  <2>1. line[p].type = "Shuffle" /\ line[p].stage = 1
    BY DEF ShuffleStage1, Asked
  <2> QED
    BY <1>1, <1>4, <2>1 DEF Shape, Alone, Forgotten
<1>7. /\ Shape' /\ HostKeys' /\ \A q, v, k : Fits(q, v, k) => Fits(q, v, k)'
      /\ UNCHANGED <<pc, turn, deck, work, stage, seat, shuffles>>
  BY <1>6, StepKeeps
<1>8. CASE pc \notin Terminal
  <2>1. /\ p = seat /\ req = work /\ stage = 1 /\ mem[p].shuffles = shuffles
        /\ mem[p].stage0 = <<p, shuffles, 0>>
    <3>1. p = seat /\ req = work /\ stage = 1
      BY <1>6, <1>8, AskedToShuffle
    <3>2. /\ mem[p].shuffles = IF stage = 0 THEN shuffles - 1 ELSE shuffles
          /\ stage = 1 => mem[p].stage0 = <<p, shuffles, 0>>
      BY <1>6, <1>8, AskedToShuffle
    <3> QED
      BY <3>1, <3>2
  <2>2. PICK key : key = <<p, shuffles, 0>>
    OBVIOUS
  <2>3. /\ keys = [i \in DOMAIN work |-> <<p, shuffles, i>>]
        /\ cards = [i \in DOMAIN keys |-> EncryptInt(keys[i], DecryptInt(key, work[i]))]
    BY <1>5, <2>1, <2>2
  <2>4. IsSeq(cards) /\ DOMAIN cards = DOMAIN work
    <3>1. DOMAIN work = 1..Len(work) /\ Len(work) \in Nat
      BY <1>1, SeqFacts DEF Shape
    <3>2. DOMAIN cards = DOMAIN work /\ cards = [i \in DOMAIN cards |-> cards[i]]
      BY <2>3
    <3> QED
      BY <3>1, <3>2, OnInterval
  <2>5. ASSUME NEW i \in DOMAIN cards
        PROVE  /\ IsNumber(cards[i])
               /\ Hidden(cards[i]) => cards[i].powers = Halfway(stage, seat + 1, i)
    <3>1. i \in DOMAIN work /\ i # 0
      BY <1>1, <2>4, <2>5, SeqFacts DEF Shape
    <3>2. PICK v, own : v = work[i] /\ own = <<p, shuffles, i>>
      OBVIOUS
    <3>3. /\ IsNumber(v)
          /\ Hidden(v) =>
               v.powers = {<<<<q, shuffles, IF q < p THEN i ELSE 0>>, 1>> : q \in Players}
      BY <1>6, <1>8, <2>1, <3>1, <3>2, AskedToShuffle DEF Halfway
    <3>4. ~(p < p) /\ \A q \in Players : q < p + 1 <=> q < p \/ q = p
      BY NAssumption DEF Players
    <3>5. Hidden(v) => <<key, 1>> \in v.powers
      BY <2>2, <3>3, <3>4
    <3>6. PICK w : w = DecryptInt(key, v)
      OBVIOUS
    <3>7. /\ IsNumber(w) /\ w.card = v.card
          /\ Hidden(v) => w.powers = v.powers \ {<<key, 1>>}
      BY <3>3, <3>5, <3>6, Decrypts
    <3>8. Hidden(w) => <<own, -1>> \notin w.powers
      BY <3>3, <3>7 DEF Hidden
    <3>9. PICK e : e = EncryptInt(own, w)
      OBVIOUS
    <3>10. /\ IsNumber(e) /\ e.card = w.card
           /\ Hidden(w) => e.powers = w.powers \cup {<<own, 1>>}
      BY <3>7, <3>8, <3>9, Encrypted
    <3>11. cards[i] = e
      BY <2>3, <3>1, <3>2, <3>6, <3>9
    <3>12. ASSUME Hidden(e)
           PROVE  e.powers = {<<<<q, shuffles, IF q < p + 1 THEN i ELSE 0>>, 1>> : q \in Players}
      <4>1. e.powers = ({<<<<q, shuffles, IF q < p THEN i ELSE 0>>, 1>> : q \in Players}
                          \ {<<key, 1>>}) \cup {<<own, 1>>}
        BY <3>3, <3>7, <3>10, <3>12 DEF Hidden
      <4>2. ASSUME NEW x \in e.powers
            PROVE  x \in {<<<<q, shuffles, IF q < p + 1 THEN i ELSE 0>>, 1>> : q \in Players}
        BY <2>2, <3>2, <3>4, <4>1, <4>2
      <4>3. ASSUME NEW x \in {<<<<q, shuffles, IF q < p + 1 THEN i ELSE 0>>, 1>> : q \in Players}
            PROVE  x \in e.powers
        BY <2>2, <3>2, <3>4, <4>1, <4>3
      <4> QED
        BY <4>2, <4>3
    <3> QED
      BY <2>1, <3>10, <3>11, <3>12 DEF Halfway
  <2>6. (\A v \in DOMAIN mem'[p].cardPairs : Fits(p, v, mem[p].cardPairs[v])')
    BY <1>6, <1>7, <1>8, AskedToShuffle
  <2>7. /\ IsSeq(mem'[p].myCards)
        /\ \A c \in Range(mem'[p].myCards) : Fits(p, c.number, c.keys[p])
    BY <1>6, <1>8, AskedToShuffle
  <2>8. /\ mem'[p].stage1 = [i \in DOMAIN work |-> <<p, shuffles, i>>]
        /\ mem'[p].shuffles = shuffles
    BY <1>6, <2>1, <2>3
  <2> HIDE DEF req
  <2> QED
    BY <1>6, <1>8, <2>1, <2>4, <2>5, <2>6, <2>7, <2>8, ShuffleStepKeeps
<1>9. CASE pc \in Terminal
  BY <1>7, <1>9 DEF ProtocolInv
<1> QED
  BY <1>8, <1>9

(* The keys are filed under the numbers they are on.                       *)
LEMMA Stage2Keeps ==
  ASSUME ProtocolInv, NEW p \in Players, Player(p), ShuffleStage2(p)
  PROVE  ProtocolInv'
<1>1. Shape /\ HostKeys
  BY DEF ProtocolInv
<1> DEFINE filed0 == Filed(mem[p], line[p].cards)
<1>2. PICK filed, pairs, cards :
        filed = filed0 /\ pairs = PutAll(mem[p].cardPairs, filed) /\ cards = line[p].cards
  OBVIOUS
<1>3. /\ mem' = [mem EXCEPT ![p] = [mem[p] EXCEPT !.cardPairs = pairs, !.deck = cards,
                                       !.stage1 = <<>>]]
      /\ line' = [line EXCEPT ![p] = [type |-> "taken"]]
  BY <1>2, Zenon DEF ShuffleStage2, Remember, Reply
<1> HIDE DEF filed0
<1>4. /\ Alone(p) /\ line[p].type = "Shuffle" /\ line[p].stage = 2
      /\ line'[p].type = "taken" /\ mem'[p].myCards = mem[p].myCards
      /\ mem'[p].cardPairs = pairs /\ mem'[p].deck = cards /\ mem'[p].shuffles = mem[p].shuffles
  <2>1. line[p].type = "Shuffle" /\ line[p].stage = 2
    BY DEF ShuffleStage2, Asked
  <2> QED
    BY <1>1, <1>3, <2>1 DEF Shape, Alone, Forgotten
<1>5. /\ Shape' /\ HostKeys' /\ \A q, v, k : Fits(q, v, k) => Fits(q, v, k)'
      /\ UNCHANGED <<pc, turn, deck, work, stage, seat, shuffles>>
  BY <1>4, StepKeeps
<1>6. CASE pc \notin Terminal
  <2>1. /\ pc = "Shuffle" /\ p = seat /\ cards = work /\ stage = 2 /\ shuffles \in Nat
        /\ mem[p].shuffles = shuffles
        /\ mem[p].stage1 = [i \in DOMAIN work |-> <<p, shuffles, i>>]
    BY <1>2, <1>4, <1>6, AskedToShuffle
  <2>2. ASSUME NEW v \in DOMAIN filed
        PROVE  Fits(p, v, filed[v])
    <3>1. /\ DOMAIN filed = Range(work)
          /\ filed[v] = mem[p].stage1[CHOOSE i \in DOMAIN work : work[i] = v]
      <4>1. filed = Filed(mem[p], work)
        BY <1>2, <2>1 DEF filed0
      <4>2. filed = [w \in Range(work) |->
                       mem[p].stage1[CHOOSE i \in DOMAIN work : work[i] = w]]
        BY <4>1, Zenon DEF Filed
      <4> QED
        BY <2>2, <4>2
    <3>2. PICK i : i = CHOOSE j \in DOMAIN work : work[j] = v
      OBVIOUS
    <3>3. \E j \in DOMAIN work : work[j] = v
      BY <2>2, <3>1 DEF Range
    <3>4. i \in DOMAIN work /\ work[i] = v
      BY <3>2, <3>3
    <3>5. filed[v] = <<p, shuffles, i>>
      BY <2>1, <3>1, <3>2, <3>4
    <3>6. i \in Indices
      BY <1>1, <3>4, SeqFacts DEF Shape, Indices
    <3>7. Hidden(v) => v.powers = LockedBy(shuffles, i)
      BY <1>4, <1>6, <2>1, <3>4, AskedToShuffle DEF Halfway, LockedBy
    <3>8. ~Hidden(v) => Free(shuffles, i)
      <4>1. ASSUME NEW w \in Out, Hidden(w), w.powers = LockedBy(shuffles, i)
            PROVE  FALSE
        <5>1. PICK k \in Nat, j \in Indices : k # shuffles /\ w.powers = LockedBy(k, j)
          BY <1>1, <2>1, <4>1 DEF HostKeys
        <5>2. LockedBy(k, j) = LockedBy(shuffles, i)
          BY <4>1, <5>1
        <5> QED
          BY <5>1, <5>2, LocksDiffer
      <4> QED
        BY <3>4, <4>1 DEF Free
    <3>9. shuffles <= Known
      BY <2>1 DEF Known
    <3> QED
      BY <2>1, <3>5, <3>6, <3>7, <3>8, <3>9 DEF Fits
  <2>3. ASSUME NEW v \in DOMAIN pairs
        PROVE  Fits(p, v, pairs[v])
    <3>1. \/ v \in DOMAIN filed /\ pairs[v] = filed[v]
          \/ v \in DOMAIN mem[p].cardPairs /\ pairs[v] = mem[p].cardPairs[v]
      BY <1>2, <2>3 DEF PutAll
    <3>2. \A w \in DOMAIN mem[p].cardPairs : Fits(p, w, mem[p].cardPairs[w])
      BY <1>4, <1>6, AskedToShuffle
    <3> QED
      BY <2>2, <3>1, <3>2
  <2>4. (\A v \in DOMAIN mem'[p].cardPairs : Fits(p, v, mem[p].cardPairs[v])')
    <3>1. \A v \in DOMAIN pairs : Fits(p, v, pairs[v])'
      BY <1>5, <2>3
    <3> QED
      BY <1>4, <3>1
  <2>5. /\ IsSeq(mem'[p].myCards)
        /\ \A c \in Range(mem'[p].myCards) : Fits(p, c.number, c.keys[p])
    BY <1>4, <1>6, AskedToShuffle
  <2> QED
    BY <1>4, <1>6, <2>1, <2>4, <2>5, ShuffleStepKeeps
<1>7. CASE pc \in Terminal
  BY <1>5, <1>7 DEF ProtocolInv
<1> QED
  BY <1>6, <1>7
-----------------------------------------------------------------------------
\* The theorem

LEMMA InitHolds == Init => ProtocolInv
<1> SUFFICES ASSUME Init
             PROVE  ProtocolInv
  OBVIOUS
<1> USE DEF Init, HandlerInit, Forgotten
<1>1. 0 \in Players
  BY NAssumption DEF Players
<1>2. IsSeq(<<>>) /\ Len(<<>>) = 0 /\ DOMAIN <<>> = {}
  BY EmptyIsSeq
<1>3. Shape
  BY <1>1, <1>2 DEF Shape, NoJob
<1>4. HostKeys
  BY <1>2 DEF HostKeys, Out
<1>5. PlayerKeys
  BY <1>2 DEF PlayerKeys, Range
<1>6. MixInv
  BY DEF MixInv, Ended
<1>7. WireInv
  BY DEF WireInv, WithCards, ForCards
<1> QED
  BY <1>3, <1>4, <1>5, <1>6, <1>7 DEF ProtocolInv, Live

(* Once the goroutine of the game has ended the host does nothing.         *)
LEMMA HostKeeps ==
  ASSUME ProtocolInv, Host
  PROVE  ProtocolInv'
<1>1. pc \notin Terminal
  BY Zenon DEF Host, Terminal, PlayerRefuses, Announce, StartGame, GameStarted, StartHand,
     HandStarted, PassOn, ShuffleDone, Deal, Reshuffle, DealTo, KeysGiven, CardGiven, TurnUp,
     TurnedUp, FirstColor, AskPlay, NothingPlayed, CardPlayed, PlayComesBack, NextDrawsTwo,
     AskChallenge, ChallengeDecided, NoEffect, EndTurn, HandRevealed, HandSigned, AfterHand,
     GameEnded, Back
<1>2. CASE \/ StartGame \/ GameStarted \/ StartHand \/ AfterHand \/ GameEnded \/ PlayerRefuses
           \/ Announce \/ EndTurn \/ HandRevealed \/ HandSigned
           \/ Deal \/ CardGiven \/ FirstColor \/ NothingPlayed \/ NextDrawsTwo
           \/ AskChallenge \/ ChallengeDecided \/ NoEffect
  BY <1>1, <1>2, AnnounceIsQuiet, StartsAreQuiet, TurnsAreQuiet, EndsAreQuiet, QuietKeeps
<1>3. CASE HandStarted \/ Reshuffle
  BY <1>1, <1>3, ShufflesKeep
<1>4. CASE PassOn \/ ShuffleDone
  BY <1>1, <1>4, PassOnKeeps, ShuffleDoneKeeps
<1>5. CASE DealTo \/ TurnUp \/ AskPlay
  BY <1>1, <1>5, AsksKeep
<1>6. CASE KeysGiven \/ TurnedUp \/ CardPlayed
  BY <1>1, <1>6, KeysGivenKeeps, TurnedUpKeeps, CardPlayedKeeps
<1> QED
  BY <1>2, <1>3, <1>4, <1>5, <1>6 DEF Host

LEMMA PlayerKeeps ==
  ASSUME ProtocolInv, NEW p \in Players, Player(p)
  PROVE  ProtocolInv'
<1>1. CASE \/ GameEnd(p) \/ HandStart(p) \/ HandEnd(p) \/ ChooseColor(p)
           \/ ShouldChallenge(p) \/ RevealForChallenge(p) \/ GameStart(p)
  BY <1>1, OthersKeep
<1>2. CASE ShuffleStage0(p) \/ ShuffleStage1(p) \/ ShuffleStage2(p) \/ ShuffleRefused(p)
  BY <1>2, Stage0Keeps, Stage1Keeps, Stage2Keeps, ShuffleRefusedKeeps
<1>3. CASE GetKey(p) \/ GiveCard(p) \/ Play(p)
  BY <1>3, GetKeyKeeps, GiveCardKeeps, PlayKeeps
<1> QED
  BY <1>1, <1>2, <1>3 DEF Player, Handle

(* Nothing that matters has changed where nothing has.                     *)
LEMMA StutterKeeps == ProtocolInv /\ UNCHANGED vars => ProtocolInv'
<1> SUFFICES ASSUME ProtocolInv, UNCHANGED vars
             PROVE  ProtocolInv'
  OBVIOUS
<1>1. UNCHANGED <<pc, deck, held, seen, discard, dealer, work, stage, seat, shuffles, turn, job,
                  line, mem>>
  BY DEF vars, table, game, passing, wires, told
<1>2. Shape /\ HostKeys
  BY DEF ProtocolInv
<1>3. Shape'
  BY <1>1, <1>2 DEF Shape
<1>4. HostKeys' /\ \A p, v, key : Fits(p, v, key) => Fits(p, v, key)'
  BY <1>1, <1>2, TableStays
<1>5. PlayerKeys => PlayerKeys'
  BY <1>1, <1>4 DEF PlayerKeys
<1>6. MixInv => MixInv'
  <2>1. \A p, st : Ended(p, st)' <=> Ended(p, st)
    BY <1>1 DEF Ended
  <2>2. \A st, k, i : Halfway(st, k, i)' = Halfway(st, k, i)
    BY <1>1 DEF Halfway
  <2>3. CASE pc = "Shuffle"
    BY <1>1, <2>1, <2>2, <2>3 DEF MixInv, Hidden
  <2>4. CASE pc # "Shuffle"
    BY <1>1, <2>1, <2>4 DEF MixInv
  <2> QED
    BY <2>3, <2>4
<1>7. WireInv => WireInv'
  BY <1>1, <1>4 DEF WireInv, ShuffleCase, KeyCase, GiveCase, PlayCase
<1> QED
  BY <1>1, <1>3, <1>4, <1>5, <1>6, <1>7 DEF ProtocolInv, Live

(* Which keys are on which number, whose they are and who has seen them,   *)
(* as the host (deck.go) and the players (handler_player.go) keep them.    *)
LEMMA ProtocolInvariant == Spec => []ProtocolInv
<1>1. ProtocolInv /\ [Next]_vars => ProtocolInv'
  BY HostKeeps, PlayerKeeps, ArriveKeeps, StutterKeeps DEF Next, Finished
<1> QED
  BY InitHolds, <1>1, PTL DEF Spec

(* The keys that have gone through the host's hands (deck.go) never open a *)
(* card that is in the deck or in a player's hand, however many players    *)
(* there are and however often the discards are shuffled.                  *)
THEOREM CardsStayHiddenHolds == Spec => []CardsStayHidden
<1>1. ProtocolInv => CardsStayHidden
  BY StaysHidden DEF ProtocolInv
<1> QED
  BY ProtocolInvariant, <1>1, PTL
-----------------------------------------------------------------------------
(***************************************************************************)
(* The host's deck and hands, and those of the players.                    *)
(***************************************************************************)

M == Cardinality(StartCards)

\* An event that shows a hand, with no more discards than there are cards.
Outdated(e) ==
  /\ e # NoEvent /\ e.hand # NoHand
  /\ IsSeq(e.hand.discard) /\ Len(e.hand.discard) <= M

\* The last event is of that kind; so are all that are late, and of every
\* player the last one or the one that is late; so are all.
Told1 == Outdated(event)
Told2 ==
  /\ Told1 /\ \A l \in late : Outdated(l[2])
  /\ \A p \in Players : Outdated(mem[p].lastEvent) \/ \E l \in late : l[1] = p
Told3 ==
  /\ Told1 /\ \A l \in late : Outdated(l[2])
  /\ \A p \in Players : Outdated(mem[p].lastEvent)

Fresh == held = <<>> /\ discard = <<>>

Drawing == {"Draw", "Keys", "Give", "Drawn"}
FirstOnes == {"FirstCard", "FirstKeys", "FirstColor", "FirstShown"}
Afterwards == {"FirstEffect", "Turn", "Play", "Again", "PlayAgain", "Nothing", "Discarded",
               "Effect", "Challenge", "Reveal", "EndTurn", "HandReveal", "HandSign", "HandOver",
               "AfterHand", "GameEnd"}

(* Three events that show a hand have been sent when the first turn begins.*)
Place ==
  /\ pc \in {"Start", "GameStart"} => Fresh
  /\ pc \in {"NewHand", "HandStart"} => Fresh \/ Told3
  /\ pc \in {"Shuffle", "Shuffled"} =>
       IF job = NoJob THEN Fresh
       ELSE Told3 /\ discard # <<>> /\ job.then \in {"Again", "Turn", "EndTurn"}
  /\ pc = "Deal" => discard = <<>> /\ Told1 /\ (DOMAIN held # {} => Told2)
  /\ pc \in Drawing =>
       \/ /\ job.then = "Deal" /\ discard = <<>> /\ Told1 /\ job.all = 1
          /\ pc # "Drawn" => job.done = 0
          /\ pc \in {"Draw", "Keys"} => deck # <<>> /\ (DOMAIN held # {} => Told2)
       \/ job.then \in {"Again", "Turn", "EndTurn"} /\ discard # <<>> /\ Told3
  /\ pc \in FirstOnes => Told2
  /\ pc \in {"FirstColor", "FirstShown"} => discard # <<>> /\ job.then = "Turn"
  /\ pc \in Afterwards => Told3 /\ discard # <<>>

\* A full deck is to be shuffled that no player expects any more.
Doomed ==
  /\ pc = "Shuffle" /\ stage = 0 /\ seat = 0 /\ Told3
  /\ line[0].type = "Shuffle" /\ line[0].start = FullDeck

HeldCount == Cardinality(DOMAIN held)

Counts ==
  /\ pc \notin {"Start", "GameStart", "NewHand", "HandStart", "Shuffle"} =>
       Len(deck) + HeldCount + Len(discard) = M
  /\ pc = "Shuffle" =>
       /\ Len(start) + HeldCount + Len(AfterReshuffle(discard)) = M
       /\ stage = 2 => Len(work) = Len(start)

\* A number on its way to a hand, and one on its way from it.
Coming(p, v) ==
  pc = "Give" /\ p = turn /\ line[p].type = "Give" /\ v = Seqs!Last(mem[p].deck)
Leaving(p, v) ==
  pc \in {"Play", "PlayAgain"} /\ p = turn /\ line[p].type = "play" /\ v = line[p].number

\* The numbers of the cards of a hand, no two the same.
NumbersOf(cards) == {c.number : c \in Range(cards)}
NumbersDiffer(cards) ==
  \A i, j \in DOMAIN cards : cards[i].number = cards[j].number => i = j

(* A player's hand, what the host has it down for, and the numbers that    *)
(* the player will not let be dealt once more.                             *)
HandAgrees(p) ==
  /\ NumbersDiffer(mem[p].myCards)
  /\ InHand(p) \subseteq Holding(p) \cap mem[p].given
  /\ \A v \in Holding(p) \ InHand(p) : Empty(v) \/ Coming(p, v) \/ Leaving(p, v)
  /\ \A v \in DOMAIN held : v \in mem[p].given \/ Coming(p, v)

KeyIsNew(p) ==
  /\ line[p].type = "Key" => line[p].to = turn
  /\ line[p].type = "key" => Seqs!Last(deck) \in mem[p].given \ DOMAIN held

Hands ==
  /\ \A p \in Players : HandAgrees(p)
  /\ pc = "Keys" => \A p \in Players \ {turn} : KeyIsNew(p)
  /\ pc = "Give" /\ line[turn].type = "Give" =>
       /\ Seqs!Last(mem[turn].deck) \in DOMAIN held
       /\ held[Seqs!Last(mem[turn].deck)] = turn
  /\ pc \in {"Play", "PlayAgain"} /\ line[turn].type = "play" =>
       line[turn].number \in Holding(turn) \ InHand(turn)

Sound == IsFiniteSet(DOMAIN held) /\ Place /\ (Doomed \/ (Counts /\ Hands))

SameTables ==
  \A p \in Players :
    /\ mem[p].deck = deck
    /\ InHand(p) \subseteq Holding(p)
    /\ \A v \in Holding(p) \ InHand(p) : Empty(v)

Unrefused == \A p \in Players : line[p].type # "refused"

TableInv ==
  /\ pc \in Going => Resting
  /\ pc \in Terminal => (Resting => SameTables)
  /\ pc \notin Terminal /\ Unrefused => Sound
-----------------------------------------------------------------------------
\* Events

\* Whoever has been told stays told.
ToldStays == (Told1 => Told1') /\ (Told2 => Told2') /\ (Told3 => Told3')

(* An event that shows a hand is one step towards everybody's last event   *)
(* showing one.                                                            *)
LEMMA SendTells ==
  ASSUME Shape, Len(discard) <= M, NEW type, Send(type, HandNow)
  PROVE  Told1' /\ (Told1 => Told2') /\ (Told2 => Told3')
<1>1. PICK e : e = [type |-> type, scores |-> scores, dealer |-> dealer, hand |-> HandNow]
  OBVIOUS
<1>2. Outdated(e)
  <2>1. e # NoEvent
    <3>1. "hand" \in DOMAIN e /\ "hand" \notin DOMAIN NoEvent
      BY <1>1 DEF NoEvent
    <3> QED
      BY <3>1
  <2>2. HandNow # NoHand
    <3>1. 0 \in DOMAIN HandNow.remaining
      BY NAssumption DEF HandNow, Players
    <3>2. DOMAIN NoHand.remaining = {}
      BY EmptyIsSeq DEF NoHand
    <3> QED
      BY <3>1, <3>2
  <2>3. e.hand = HandNow /\ HandNow.discard = discard
    BY <1>1 DEF HandNow
  <2> QED
    BY <2>1, <2>2, <2>3 DEF Outdated, Shape
<1>3. PICK slow \in SUBSET Players :
        /\ \A l \in late : l[1] \notin slow
        /\ late' = {l \in late : l[2] = event} \cup {<<p, e>> : p \in slow}
        /\ mem' = [p \in Players |-> IF p \in slow THEN mem[p] ELSE OnGameEvent(mem[p], e)]
  BY <1>1 DEF Send
<1>4. event' = e
  BY <1>1 DEF Send
<1>5. \A p \in Players :
        mem'[p].lastEvent = IF p \in slow THEN mem[p].lastEvent ELSE e
  BY <1>3 DEF OnGameEvent, Shape, Forgotten
<1>6. \A p \in slow : <<p, e>> \in late' /\ <<p, e>>[1] = p
  BY <1>3
<1>7. \A l \in late' : (l \in late /\ l[2] = event) \/ l[2] = e
  BY <1>3
<1>8. Told1'
  BY <1>2, <1>4 DEF Told1, Outdated, M
<1>9. Outdated(event) => \A l \in late' : Outdated(l[2])
  BY <1>2, <1>7
<1>10. Told1 => Told2'
  <2>1. \A p \in Players : Outdated(mem'[p].lastEvent) \/ \E l \in late' : l[1] = p
    BY <1>2, <1>5, <1>6
  <2> QED
    BY <1>8, <1>9, <2>1 DEF Told1, Told2, Outdated, M
<1>11. Told2 => Told3'
  <2>1. Told2 => \A p \in Players : Outdated(mem'[p].lastEvent)
    BY <1>2, <1>3, <1>5 DEF Told2
  <2> QED
    BY <1>8, <1>9, <2>1 DEF Told1, Told2, Told3, Outdated, M
<1> QED
  BY <1>8, <1>10, <1>11

(* An event that comes late is one of those.                               *)
LEMMA ArriveTells ==
  ASSUME Shape, Arrive
  PROVE  ToldStays
<1>1. PICK l \in late :
        /\ late' = late \ {l} /\ UNCHANGED event
        /\ mem' = [mem EXCEPT ![l[1]] = OnGameEvent(@, l[2])]
  BY DEF Arrive
<1>2. \A p \in Players :
        mem'[p].lastEvent = IF p = l[1] THEN l[2] ELSE mem[p].lastEvent
  BY <1>1 DEF OnGameEvent, Shape, Forgotten
<1>3. Told1 => Told1'
  BY <1>1 DEF Told1, Outdated, M
<1>4. Told2 => Told2'
  BY <1>1, <1>2, <1>3 DEF Told2, Outdated, M
<1>5. Told3 => Told3'
  BY <1>1, <1>2, <1>3 DEF Told3, Outdated, M
<1> QED
  BY <1>3, <1>4, <1>5 DEF ToldStays

LEMMA UntoldStays ==
  ASSUME UNCHANGED <<event, late>>, \A p \in Players : mem'[p].lastEvent = mem[p].lastEvent
  PROVE  ToldStays
BY DEF ToldStays, Told1, Told2, Told3, Outdated, M
-----------------------------------------------------------------------------
\* Steps that move no card

\* What the players hold, and the host holds to be theirs, stays.
HandsStay ==
  /\ UNCHANGED held
  /\ \A p \in Players :
       mem'[p].myCards = mem[p].myCards /\ mem[p].given \subseteq mem'[p].given

\* No number is on its way.
Settled ==
  /\ pc = "Give" => line[turn].type # "Give"
  /\ pc \in {"Play", "PlayAgain"} => line[turn].type # "play"

LEMMA HandsSettled ==
  ASSUME Hands, Settled, NEW p \in Players
  PROVE  /\ InHand(p) \subseteq Holding(p)
         /\ \A v \in Holding(p) \ InHand(p) : Empty(v)
         /\ DOMAIN held \subseteq mem[p].given
BY DEF Hands, HandAgrees, Coming, Leaving, Settled

(* Hands that stay go on agreeing.                                         *)
LEMMA HandsAgree ==
  ASSUME Hands, Settled, HandsStay
  PROVE  \A p \in Players : HandAgrees(p)'
<1> SUFFICES ASSUME NEW p \in Players
             PROVE  HandAgrees(p)'
  OBVIOUS
<1>1. HandAgrees(p) /\ \A v : ~Coming(p, v) /\ ~Leaving(p, v)
  BY DEF Hands, Coming, Leaving, Settled
<1>2. InHand(p)' = InHand(p) /\ Holding(p)' = Holding(p)
  BY DEF InHand, Holding, HandsStay
<1>3. \A v : Empty(v)' <=> Empty(v)
  BY DEF Empty, Opened
<1> QED
  BY <1>1, <1>2, <1>3 DEF HandAgrees, HandsStay

Early == {"Start", "GameStart", "NewHand", "HandStart"}

(* Where no card is moved it is enough to see where the game goes on.      *)
LEMMA TableKept ==
  ASSUME Sound, Settled, HandsStay, UNCHANGED <<deck, discard>>, Settled',
         pc # "Shuffle", pc' # "Shuffle", pc \in Early => pc' \in Early,
         pc' = "Keys" => \A p \in Players \ {turn'} : KeyIsNew(p)'
  PROVE  Place' => Sound'
<1>1. IsFiniteSet(DOMAIN held) /\ Counts /\ Hands
  BY DEF Sound, Doomed
<1>2. IsFiniteSet(DOMAIN held') /\ HeldCount' = HeldCount
  BY <1>1 DEF HandsStay, HeldCount
<1>3. Counts'
  BY <1>1, <1>2 DEF Counts, Early, M
<1>4. \A p \in Players : HandAgrees(p)'
  BY <1>1, HandsAgree
<1>5. Hands'
  BY <1>4 DEF Hands, Settled
<1> QED
  BY <1>2, <1>3, <1>5 DEF Sound

(* Where nobody is asked for cards the tables are the same.                *)
LEMMA SoundIsSame ==
  ASSUME ProtocolInv, Sound, pc \notin Terminal \cup WithCards
  PROVE  SameTables
<1>1. Hands /\ Settled /\ WireInv
  BY DEF Sound, Doomed, Settled, WithCards, ProtocolInv, Live
<1> QED
  BY <1>1, HandsSettled DEF SameTables, WireInv, WithCards

\* Nobody is in the middle of anything.
LEMMA AtRest ==
  ASSUME TableInv, pc \in Going
  PROVE  Resting /\ Sound /\ Settled
<1>1. Resting /\ pc \notin Terminal /\ Settled
  BY DEF TableInv, Going, Terminal, Settled
<1> QED
  BY <1>1 DEF TableInv, Resting, Unrefused, Idle

LEMMA Answers ==
  ASSUME TableInv, NEW at \in Waiting, Back(at)
  PROVE  Sound /\ pc = at /\ Unrefused
BY DEF TableInv, Back, Answered, Unrefused, Waiting, Terminal

(* The cards outside the shuffle are as many as there are.                 *)
LEMMA CardsCounted ==
  ASSUME Shape, Sound, pc \notin Early \cup {"Shuffle"}
  PROVE  /\ {Len(deck), Len(discard), HeldCount, M} \subseteq Nat
         /\ Len(deck) + HeldCount + Len(discard) = M
         /\ Len(discard) <= M
<1>1. Len(deck) \in Nat /\ Len(discard) \in Nat /\ HeldCount \in Nat
  BY SeqFacts, FS_CardinalityType DEF Shape, Sound, HeldCount
<1>2. Len(deck) + HeldCount + Len(discard) = M
  BY DEF Sound, Doomed, Counts, Early
<1> QED
  BY <1>1, <1>2

(* An event goes out.                                                      *)
LEMMA AnnounceAgrees ==
  ASSUME ProtocolInv, TableInv, Announce
  PROVE  TableInv'
<1>1. pc \in {"Shuffled", "Drawn", "FirstShown", "FirstEffect", "Nothing", "Discarded",
              "HandOver", "Effect"}
  BY DEF Announce
<1>2. Resting /\ Sound /\ Settled /\ Shape
  BY <1>1, AtRest DEF Going, ProtocolInv
<1>3. Told1' /\ (Told1 => Told2') /\ (Told2 => Told3')
  <2>1. Len(discard) <= M
    BY <1>1, <1>2, CardsCounted DEF Early
  <2> QED
    BY <1>2, <2>1, SendTells DEF Announce
<1>4. AfterFirst \in {"FirstCard", "Draw", "FirstEffect", "Turn"}
  BY DEF AfterFirst
<1>5. /\ UNCHANGED <<deck, held, discard, turn, job, line>>
      /\ pc' = Announcement[2]
  BY DEF Announce, table
<1>6. HandsStay
  BY <1>2, <1>5 DEF Announce, Send, OnGameEvent, HandsStay, Shape, Forgotten
<1>7. (Told3 => Told2) /\ (Told2 => Told1)
  BY DEF Told2, Told3
<1>8. Place
  BY <1>2 DEF Sound
<1>9. Place' /\ pc' \in Going
  <2> USE DEF Announcement, Going
  <2>1. CASE pc = "Shuffled"
    BY <1>3, <1>5, <1>7, <1>8, <2>1 DEF Place, Fresh, Drawing, FirstOnes, Afterwards, NoJob
  <2>2. CASE pc = "Drawn"
    BY <1>3, <1>5, <1>7, <1>8, <2>2 DEF Place, Drawing, FirstOnes, Afterwards
  <2>3. CASE pc = "FirstShown"
    <3>1. Told3' /\ Told2' /\ discard' # <<>> /\ job'.then = "Turn"
      BY <1>3, <1>5, <1>7, <1>8, <2>3 DEF Place, FirstOnes
    <3>2. pc' \in {"FirstCard", "Draw", "FirstEffect", "Turn"}
      BY <1>4, <1>5, <2>3
    <3> HIDE DEF Announcement
    <3> QED
      BY <3>1, <3>2 DEF Place, Drawing, FirstOnes, Afterwards
  <2>4. CASE pc \notin {"Shuffled", "Drawn", "FirstShown"}
    BY <1>1, <1>3, <1>5, <1>7, <1>8, <2>4 DEF Place, Drawing, FirstOnes, Afterwards
  <2> QED
    BY <2>1, <2>2, <2>3, <2>4
<1>10. Settled' /\ Resting'
  BY <1>2, <1>5, <1>9 DEF Going, Settled, Resting
<1>11. Sound'
  BY <1>1, <1>2, <1>5, <1>6, <1>9, <1>10, TableKept DEF Going, Early
<1> QED
  BY <1>9, <1>10, <1>11 DEF TableInv, Going, Terminal

(* The starts and the ends of a game and a hand.                           *)
LEMMA StartsAgree ==
  ASSUME ProtocolInv, TableInv, StartGame \/ GameStarted \/ StartHand \/ AfterHand
  PROVE  TableInv'
<1> USE DEF Early, Going, Waiting, Terminal, Settled
<1>1. Shape
  BY DEF ProtocolInv
<1>2. ASSUME pc \in Going \cup Waiting, Sound, Settled, Settled', HandsStay, UNCHANGED <<deck, discard>>,
             pc \in Early => pc' \in Early, pc' \in {"GameStart", "NewHand", "HandStart", "GameEnd"},
             pc # "Shuffle", Place', pc' = "NewHand" => Resting'
      PROVE  TableInv'
  <2>1. Sound'
    BY <1>2, TableKept
  <2> QED
    BY <1>2, <2>1 DEF TableInv
<1>3. CASE StartGame
  <2>1. pc = "Start" /\ pc' = "GameStart" /\ UNCHANGED <<deck, held, discard, mem>>
    BY <1>3 DEF StartGame, table, told
  <2>2. Sound /\ HandsStay /\ Place
    BY <2>1, AtRest DEF HandsStay, Sound
  <2>3. Place'
    BY <2>1, <2>2 DEF Place, Fresh, Drawing, FirstOnes, Afterwards
  <2> QED
    BY <1>2, <2>1, <2>2, <2>3
<1>4. CASE GameStarted
  <2>1. /\ pc = "GameStart" /\ Back("GameStart") /\ pc' = "NewHand"
        /\ UNCHANGED <<deck, held, discard>> /\ HangUp
    BY <1>4 DEF GameStarted, Back, table
  <2>2. Sound /\ Place /\ Resting'
    BY <2>1, Answers DEF Sound, HangUp, Resting
  <2>3. HandsStay
    BY <1>1, <1>4, <2>1 DEF GameStarted, Send, OnGameEvent, HandsStay, Shape, Forgotten
  <2>4. Place'
    BY <2>1, <2>2 DEF Place, Fresh, Drawing, FirstOnes, Afterwards
  <2> QED
    BY <1>2, <2>1, <2>2, <2>3, <2>4
<1>5. CASE StartHand \/ AfterHand
  <2>1. /\ pc \in {"NewHand", "AfterHand"} /\ pc' \in {"HandStart", "GameEnd", "NewHand"}
        /\ pc = "NewHand" => pc' = "HandStart"
        /\ pc = "AfterHand" => pc' # "HandStart"
        /\ pc' = "NewHand" => UNCHANGED line
        /\ UNCHANGED <<deck, held, discard, mem, event, late>>
    BY <1>5 DEF StartHand, AfterHand, table, told
  <2>2. Resting /\ Sound /\ HandsStay /\ Place /\ ToldStays
    BY <2>1, AtRest, UntoldStays DEF HandsStay, Sound
  <2>3. pc' = "NewHand" => Resting'
    BY <2>1, <2>2 DEF Resting
  <2>4. Place'
    BY <2>1, <2>2 DEF Place, ToldStays, Fresh, Drawing, FirstOnes, Afterwards
  <2> QED
    BY <1>2, <2>1, <2>2, <2>3, <2>4
<1> QED
  BY <1>3, <1>4, <1>5

(* The end of a hand, where it may stop, and that of the game.             *)
LEMMA EndsAgree ==
  ASSUME ProtocolInv, TableInv, EndTurn \/ HandRevealed \/ HandSigned \/ GameEnded
  PROVE  TableInv'
<1> USE DEF Early, Going, Waiting, Terminal, Settled
<1>1. Shape /\ pc \in {"EndTurn", "HandReveal", "HandSign", "GameEnd"}
  BY DEF ProtocolInv, EndTurn, HandRevealed, HandSigned, GameEnded, Back
<1>2. Sound /\ (pc = "EndTurn" => Resting)
  BY <1>1, AtRest, Answers DEF EndTurn, HandRevealed, HandSigned, GameEnded, Back
<1>3. SameTables /\ Place
  BY <1>1, <1>2, SoundIsSame DEF WithCards, Sound
<1>4. UNCHANGED <<deck, held, discard, job>> /\ HandsStay
  <2>1. CASE EndTurn \/ HandRevealed \/ HandSigned
    BY <2>1 DEF EndTurn, HandRevealed, HandSigned, table, told, HandsStay
  <2>2. CASE GameEnded
    BY <1>1, <2>2 DEF GameEnded, Send, OnGameEvent, HandsStay, Shape, Forgotten, table
  <2> QED
    BY <2>1, <2>2
<1>5. UNCHANGED mem \/ (pc' = "Complete" /\ \A p \in Players : mem'[p].deck = mem[p].deck)
  <2>1. CASE EndTurn \/ HandRevealed \/ HandSigned
    BY <2>1 DEF EndTurn, HandRevealed, HandSigned, told
  <2>2. CASE GameEnded
    BY <1>1, <2>2 DEF GameEnded, Send, OnGameEvent, Shape, Forgotten
  <2> QED
    BY <2>1, <2>2
<1>6. CASE pc' \in Terminal
  <2>1. \A p \in Players : InHand(p)' = InHand(p) /\ Holding(p)' = Holding(p)
    BY <1>4 DEF InHand, Holding, HandsStay
  <2>2. SameTables'
    BY <1>3, <1>4, <1>5, <2>1 DEF SameTables, Empty, Opened
  <2> QED
    BY <1>6, <2>2 DEF TableInv
<1>7. CASE pc' \notin Terminal
  <2>1. /\ pc' \in {"Turn", "HandReveal", "HandSign", "HandOver"}
        /\ pc' = "Turn" => pc = "EndTurn" /\ UNCHANGED line
        /\ pc' = "HandOver" => HangUp
        /\ UNCHANGED <<mem, event, late>>
    <3>1. CASE EndTurn
      BY <3>1, <1>7 DEF EndTurn, told
    <3>2. CASE HandRevealed
      BY <3>2, <1>7, Zenon DEF HandRevealed, told
    <3>3. CASE HandSigned
      BY <3>3 DEF HandSigned, told
    <3>4. CASE GameEnded
      BY <3>4, <1>7 DEF GameEnded
    <3> QED
      BY <3>1, <3>2, <3>3, <3>4
  <2>2. Place'
    BY <1>1, <1>3, <1>4, <2>1, UntoldStays DEF ToldStays, Place, Drawing, FirstOnes, Afterwards
  <2>3. Sound'
    BY <1>1, <1>2, <1>4, <2>1, <2>2, TableKept
  <2>4. pc' \in Going => Resting'
    BY <1>2, <2>1 DEF HangUp, Resting
  <2> QED
    BY <1>7, <2>3, <2>4 DEF TableInv
<1> QED
  BY <1>6, <1>7
-----------------------------------------------------------------------------
\* The shuffle

LEMMA FullDeckCounts == M \in Nat /\ Len(FullDeck) = M
<1>1. IsFiniteSet(Deck108)
  BY FS_Interval, 0 \in Int, 107 \in Int DEF Deck108
<1>2. M \in Nat
  BY <1>1, CardsAssumption, FS_Subset, FS_CardinalityType DEF M
<1> DEFINE nth(i) == CHOOSE card \in StartCards : Cardinality({c \in StartCards : c < card}) = i - 1
<1>3. FullDeck = [i \in 1..M |-> nth(i)]
  BY DEF FullDeck, M
<1> HIDE DEF nth, M
<1> QED
  BY <1>2, <1>3, OnInterval

(* What a reshuffle leaves of the discards.                                *)
LEMMA LeftOver ==
  ASSUME Shape
  PROVE  LET left == AfterReshuffle(discard) IN
         IF discard = <<>> THEN left = <<>> ELSE left # <<>> /\ Len(left) = 1
<1>1. CASE discard # <<>>
  <2>1. PICK left : left = AfterReshuffle(discard)
    OBVIOUS
  <2>2. DOMAIN left = 1..1 /\ left = [i \in DOMAIN left |-> left[i]]
    BY <1>1, <2>1 DEF AfterReshuffle
  <2>3. Len(left) = 1
    BY <2>2, OnInterval
  <2> QED
    BY <1>1, <2>1, <2>3, EmptyIsSeq
<1> QED
  BY <1>1 DEF AfterReshuffle

(* The first seat is asked to shuffle.                                     *)
LEMMA FirstAsked ==
  ASSUME NEW cards, Shuffle(cards)
  PROVE  /\ pc' = "Shuffle" /\ stage' = 0 /\ seat' = 0 /\ start' = FromCards(cards)
         /\ line'[0].type = "Shuffle" /\ line'[0].start = FromCards(cards)
<1>1. 0 \in Players
  BY NAssumption DEF Players
<1> QED
  BY <1>1 DEF Shuffle, Call, CallAll, ShuffleRequest

(* The first shuffle of a hand: of the first hand, as no player expects    *)
(* one in another.                                                         *)
LEMMA HandStartedAgrees ==
  ASSUME ProtocolInv, TableInv, HandStarted
  PROVE  TableInv'
<1>1. pc = "HandStart" /\ Sound /\ Shape
  BY Answers DEF HandStarted, Back, Waiting, ProtocolInv
<1>2. UNCHANGED <<mem, event, late>>
  BY DEF HandStarted, told
<1>3. CASE "newDeck" \in Mended
  <2>1. held' = <<>> /\ discard' = <<>> /\ job' = NoJob /\ Shuffle(<<>>)
    BY <1>3 DEF HandStarted
  <2>2. /\ pc' = "Shuffle" /\ stage' = 0 /\ seat' = 0 /\ start' = FullDeck
        /\ line'[0].type = "Shuffle" /\ line'[0].start = FullDeck
    BY <2>1, FirstAsked DEF FromCards
  <2>3. Place'
    BY <2>1, <2>2 DEF Place, Fresh, Drawing, FirstOnes, Afterwards
  <2>4. DOMAIN held' = {} /\ IsFiniteSet(DOMAIN held') /\ HeldCount' = 0
    BY <2>1, EmptyIsSeq, FS_EmptySet DEF HeldCount
  <2>5. CASE Told3
    <3>1. Doomed'
      BY <1>2, <2>2, <2>5, UntoldStays DEF Doomed, ToldStays
    <3> QED
      BY <2>2, <2>3, <2>4, <3>1 DEF TableInv, Sound, Going, Terminal
  <2>6. CASE ~Told3
    <3>1. Hands /\ held = <<>>
      BY <1>1, <2>6 DEF Sound, Doomed, Place, Fresh
    <3>2. \A p \in Players : HandAgrees(p)'
      <4>1. Settled /\ HandsStay
        BY <1>1, <1>2, <2>1, <3>1 DEF Settled, HandsStay
      <4> QED
        BY <3>1, <4>1, HandsAgree
    <3>3. Len(AfterReshuffle(discard')) = 0
      BY <2>1, EmptyIsSeq DEF AfterReshuffle
    <3>4. Counts'
      BY <2>2, <2>4, <3>3, FullDeckCounts DEF Counts, M
    <3> QED
      BY <2>2, <2>3, <2>4, <3>2, <3>4 DEF TableInv, Sound, Hands, Going, Terminal
  <2> QED
    BY <2>5, <2>6
<1>4. CASE "newDeck" \notin Mended
  <2>1. pc' = "Panicked" /\ UNCHANGED <<deck, held>>
    BY <1>4 DEF HandStarted, table
  <2>2. SameTables
    BY <1>1, SoundIsSame DEF Terminal, WithCards
  <2>3. SameTables'
    BY <1>2, <2>1, <2>2 DEF SameTables, InHand, Holding, Empty, Opened
  <2> QED
    BY <2>1, <2>3 DEF TableInv, Going, Terminal
<1> QED
  BY <1>3, <1>4

(* The discards under the top card become the deck, or, when there are     *)
(* none, a full deck would: the first seat will not take it.               *)
LEMMA ReshuffleAgrees ==
  ASSUME ProtocolInv, TableInv, Reshuffle
  PROVE  TableInv'
<1> DEFINE below == Seqs!Front(discard)
<1>1. /\ pc = "Draw" /\ deck = <<>> /\ Shuffle(below)
      /\ UNCHANGED <<deck, held, discard, job, mem, event, late>>
  BY DEF Reshuffle, table, told
<1>2. Sound /\ Settled /\ Shape
  BY <1>1, AtRest DEF Going, ProtocolInv
<1>3. Told3 /\ discard # <<>> /\ job.then \in {"Again", "Turn", "EndTurn"}
  BY <1>1, <1>2 DEF Sound, Place, Drawing
<1>4. /\ pc' = "Shuffle" /\ stage' = 0 /\ seat' = 0 /\ start' = FromCards(below)
      /\ line'[0].type = "Shuffle" /\ line'[0].start = FromCards(below)
  BY <1>1, FirstAsked
<1>5. Told3'
  BY <1>1, <1>3, UntoldStays DEF ToldStays
<1>6. Place' /\ IsFiniteSet(DOMAIN held')
  BY <1>1, <1>2, <1>3, <1>4, <1>5 DEF Place, Drawing, FirstOnes, Afterwards, NoJob, Sound
<1>7. CASE below = <<>>
  <2>1. Doomed'
    BY <1>4, <1>5, <1>7 DEF Doomed, FromCards
  <2> QED
    BY <1>4, <1>6, <2>1 DEF TableInv, Sound, Going, Terminal
<1>8. CASE below # <<>>
  <2>1. Len(start') = Len(discard) - 1
    BY <1>2, <1>3, <1>4, <1>8, FrontAndLast DEF FromCards, Shape
  <2>2. Len(AfterReshuffle(discard')) = 1
    BY <1>1, <1>2, <1>3, LeftOver
  <2>3. Len(deck) = 0
    BY <1>1, EmptyIsSeq
  <2>4. Counts'
    <3>1. HeldCount' = HeldCount
      BY <1>1 DEF HeldCount
    <3>2. /\ {Len(deck), Len(discard), HeldCount, M} \subseteq Nat
          /\ Len(deck) + HeldCount + Len(discard) = M
      BY <1>1, <1>2, CardsCounted DEF Early
    <3> QED
      BY <1>4, <2>1, <2>2, <2>3, <3>1, <3>2 DEF Counts, M
  <2>5. Hands'
    <3>1. Hands /\ HandsStay
      BY <1>1, <1>2 DEF Sound, Doomed, HandsStay
    <3> QED
      BY <1>2, <1>4, <3>1, HandsAgree DEF Hands
  <2> QED
    BY <1>4, <1>6, <2>4, <2>5 DEF TableInv, Sound, Going, Terminal
<1> QED
  BY <1>7, <1>8

(* The working set stays as large as it was, or the game ends.             *)
LEMMA PassOnAgrees ==
  ASSUME ProtocolInv, TableInv, PassOn
  PROVE  TableInv'
<1>1. /\ pc = "Shuffle" /\ Back("Shuffle")
      /\ UNCHANGED <<deck, held, discard, start, job, mem, event, late>>
  BY DEF PassOn, Back, table, told
<1>2. Sound /\ Shape /\ WireInv /\ MixInv
  BY <1>1, Answers DEF Waiting, ProtocolInv, Live, Terminal
<1>3. Counts /\ Hands
  <2>1. 0 \in Players /\ line[0].type # "Shuffle"
    BY <1>1, NAssumption DEF Back, Answered, Requests, Players
  <2> QED
    BY <1>2, <2>1 DEF Sound, Doomed
<1>4. CASE pc' = "Failed" /\ stage = 1 /\ UNCHANGED line
  <2>1. line'[seat].type = "cards" /\ seat \in Players
    BY <1>1, <1>2, <1>4, SeatAnswered DEF Shape
  <2>2. ~Resting'
    BY <2>1 DEF Resting, Idle
  <2> QED
    BY <1>4, <2>2 DEF TableInv, Going, Terminal
<1>5. CASE pc' = "Shuffle" /\ (stage' = 2 => work' = work \/ Len(work') = Len(start))
           /\ (stage' = 2 /\ work' = work => stage = 2 \/ Len(work) = Len(start))
  <2>1. Place'
    BY <1>1, <1>2, <1>5, UntoldStays
    DEF Sound, Place, ToldStays, Fresh, Drawing, FirstOnes, Afterwards
  <2>2. Counts'
    <3>1. HeldCount' = HeldCount
      BY <1>1 DEF HeldCount
    <3> QED
      BY <1>1, <1>3, <1>5, <3>1 DEF Counts, M
  <2>3. Hands'
    <3>1. HandsStay /\ Settled
      BY <1>1 DEF HandsStay, Settled
    <3> QED
      BY <1>3, <1>5, <3>1, HandsAgree DEF Hands
  <2> QED
    BY <1>1, <1>2, <1>5, <2>1, <2>2, <2>3 DEF TableInv, Sound, Going, Terminal
<1>6. \/ pc' = "Failed" /\ stage = 1 /\ UNCHANGED line
      \/ pc' = "Shuffle" /\ (stage' = 2 => work' = work \/ Len(work') = Len(start))
           /\ (stage' = 2 /\ work' = work => stage = 2 \/ Len(work) = Len(start))
  <2>1. stage \in 0..2
    BY <1>2 DEF Shape
  <2> QED
    BY <1>1, <2>1 DEF PassOn
<1> QED
  BY <1>4, <1>5, <1>6

(* The working set becomes the deck.                                       *)
LEMMA ShuffleDoneAgrees ==
  ASSUME ProtocolInv, TableInv, ShuffleDone
  PROVE  TableInv'
<1>1. /\ pc = "Shuffle" /\ Back("Shuffle") /\ stage = 2
      /\ deck' = work /\ discard' = AfterReshuffle(discard) /\ HangUp /\ pc' = "Shuffled"
      /\ UNCHANGED <<held, job, mem, event, late>>
  BY DEF ShuffleDone, Back, told
<1>2. Sound /\ Shape
  BY <1>1, Answers DEF Waiting, ProtocolInv
<1>3. Counts /\ Hands
  BY <1>1, <1>2 DEF Sound, Doomed
<1>4. Place'
  BY <1>1, <1>2, LeftOver, UntoldStays
  DEF Sound, Place, ToldStays, Fresh, Drawing, FirstOnes, Afterwards
<1>5. Counts'
  BY <1>1, <1>3 DEF Counts, HeldCount, M
<1>6. Hands'
  <2>1. HandsStay /\ Settled
    BY <1>1 DEF HandsStay, Settled
  <2> QED
    BY <1>1, <1>3, <2>1, HandsAgree DEF Hands
<1>7. Resting'
  BY <1>1 DEF HangUp, Resting
<1> QED
  BY <1>1, <1>2, <1>4, <1>5, <1>6, <1>7 DEF TableInv, Sound, Terminal
-----------------------------------------------------------------------------
\* Dealing and drawing

\* There is something to deal, and then a card to turn up.
Dealable == N * HandSize \in 1..M-1

(* Cards are dealt until everybody has its hand: two events have been sent *)
(* by then, and the deck has not run out.                                  *)
LEMMA DealAgrees ==
  ASSUME Dealable, ProtocolInv, TableInv, Deal
  PROVE  TableInv'
<1>1. pc = "Deal" /\ UNCHANGED <<deck, held, discard, line, mem, event, late>>
  BY DEF Deal, table, wires, told
<1>2. Resting /\ Sound /\ Settled /\ Shape
  BY <1>1, AtRest DEF Going, ProtocolInv
<1>3. discard = <<>> /\ Told1 /\ (DOMAIN held # {} => Told2)
  BY <1>1, <1>2 DEF Sound, Place
<1>4. Told1' /\ (DOMAIN held' # {} => Told2')
  BY <1>1, <1>3, UntoldStays DEF ToldStays
<1>5. /\ {Len(deck), HeldCount, M} \subseteq Nat
      /\ Len(deck) + HeldCount = M
  <2>1. Len(discard) = 0
    BY <1>3, EmptyIsSeq
  <2> QED
    BY <1>1, <1>2, <2>1, CardsCounted DEF Early
<1>6. CASE HeldCount < N * HandSize
  <2>1. /\ pc' = "Draw" /\ job'.then = "Deal" /\ job'.all = 1 /\ job'.done = 0
    BY <1>6 DEF Deal, StartDraw, HeldCount
  <2>2. deck # <<>>
    BY <1>5, <1>6, EmptyIsSeq DEF Dealable
  <2>3. Place'
    BY <1>1, <1>3, <1>4, <2>1, <2>2 DEF Place, Drawing, FirstOnes, Afterwards
  <2>4. Sound' /\ Resting'
    BY <1>1, <1>2, <2>1, <2>3, TableKept DEF HandsStay, Settled, Early, Resting
  <2> QED
    BY <2>1, <2>4 DEF TableInv, Terminal
<1>7. CASE ~(HeldCount < N * HandSize)
  <2>1. pc' = "FirstCard" /\ UNCHANGED job
    BY <1>7 DEF Deal, HeldCount
  <2>2. DOMAIN held # {}
    <3>1. HeldCount # 0
      BY <1>5, <1>7 DEF Dealable
    <3> QED
      BY <3>1, FS_EmptySet DEF HeldCount
  <2>3. Place'
    BY <1>1, <1>4, <2>1, <2>2 DEF Place, Drawing, FirstOnes, Afterwards
  <2>4. Sound' /\ Resting'
    BY <1>1, <1>2, <2>1, <2>3, TableKept DEF HandsStay, Settled, Early, Resting
  <2> QED
    BY <2>1, <2>4 DEF TableInv, Terminal
<1> QED
  BY <1>6, <1>7

(* Keys are asked for, a color, a card to be played, or there is nothing   *)
(* to ask.                                                                 *)
LEMMA AsksAgree ==
  ASSUME ProtocolInv, TableInv,
         DealTo \/ TurnUp \/ AskPlay \/ NextDrawsTwo \/ AskChallenge \/ NoEffect
  PROVE  TableInv'
<1>1. /\ pc \in {"Draw", "FirstCard", "Turn", "Again", "Effect"}
      /\ UNCHANGED <<deck, held, discard, mem, event, late>>
  BY DEF DealTo, TurnUp, AskPlay, NextDrawsTwo, AskChallenge, NoEffect, table, told, wires
<1>2. Resting /\ Sound /\ Settled /\ HandsStay /\ ToldStays /\ Shape
  BY <1>1, AtRest, UntoldStays DEF Going, HandsStay, ProtocolInv
<1>3. Place
  BY <1>2 DEF Sound
<1> USE DEF ToldStays, Place, Drawing, FirstOnes, Afterwards
<1>4. CASE DealTo
  <2>1. /\ pc = "Draw" /\ deck # <<>> /\ pc' = "Keys" /\ UNCHANGED <<turn, job>>
        /\ line' = [p \in Players |-> IF p \in Players \ {turn}
                                        THEN [type |-> "Key", to |-> turn] ELSE Idle]
    BY <1>4 DEF DealTo, CallAll
  <2>2. Place'
    BY <1>1, <1>2, <1>3, <2>1
  <2>3. \A p \in Players \ {turn'} : KeyIsNew(p)'
    BY <2>1 DEF KeyIsNew
  <2>4. Sound'
    BY <1>1, <1>2, <2>1, <2>2, <2>3, TableKept DEF Settled, Early
  <2> QED
    BY <2>1, <2>4 DEF TableInv, Going, Terminal
<1>5. CASE TurnUp
  <2>1. pc = "FirstCard" /\ pc' = "FirstKeys" /\ UNCHANGED <<turn, job>>
    BY <1>5 DEF TurnUp
  <2>2. Place'
    BY <1>1, <1>2, <1>3, <2>1
  <2>3. Sound'
    BY <1>1, <1>2, <2>1, <2>2, TableKept DEF Settled, Early
  <2> QED
    BY <2>1, <2>3 DEF TableInv, Going, Terminal
<1>6. CASE AskPlay
  <2>1. /\ pc \in {"Turn", "Again"} /\ pc' \in {"Play", "PlayAgain"} /\ UNCHANGED job
        /\ turn' \in Players /\ line'[turn'].type = "Play"
    BY <1>2, <1>6 DEF AskPlay, Call, CallAll, Shape
  <2>2. Place'
    BY <1>1, <1>2, <1>3, <2>1
  <2>3. Sound'
    BY <1>1, <1>2, <2>1, <2>2, TableKept DEF Settled, Early
  <2> QED
    BY <2>1, <2>3 DEF TableInv, Going, Terminal
<1>7. CASE NextDrawsTwo \/ NoEffect
  <2>1. /\ pc = "Effect" /\ UNCHANGED line
        /\ \/ pc' = "EndTurn"
           \/ pc' = "Draw" /\ job'.then = "EndTurn"
    BY <1>7 DEF NextDrawsTwo, NoEffect, StartDraw, wires
  <2>2. Place'
    BY <1>1, <1>2, <1>3, <2>1
  <2>3. Sound' /\ Resting'
    BY <1>1, <1>2, <2>1, <2>2, TableKept DEF Settled, Early, Resting
  <2> QED
    BY <2>1, <2>3 DEF TableInv, Terminal
<1>8. CASE AskChallenge
  <2>1. pc = "Effect" /\ pc' = "Challenge" /\ UNCHANGED job
    BY <1>8 DEF AskChallenge
  <2>2. Place'
    BY <1>1, <1>2, <1>3, <2>1
  <2>3. Sound'
    BY <1>1, <1>2, <2>1, <2>2, TableKept DEF Settled, Early
  <2> QED
    BY <2>1, <2>3 DEF TableInv, Going, Terminal
<1> QED
  BY <1>4, <1>5, <1>6, <1>7, <1>8

(* An answer has come that moves no card any more.                         *)
LEMMA AnswersAgree ==
  ASSUME ProtocolInv, TableInv, CardGiven \/ FirstColor \/ NothingPlayed \/ ChallengeDecided
  PROVE  TableInv'
<1>1. /\ pc \in {"Give", "FirstColor", "Play", "PlayAgain", "Challenge"}
      /\ Back(pc)
      /\ UNCHANGED <<deck, held, discard, mem, event, late>>
  BY DEF CardGiven, FirstColor, NothingPlayed, PlayComesBack, ChallengeDecided, Back, table, told
<1>2. Sound /\ HandsStay /\ ToldStays /\ Shape
  BY <1>1, Answers, UntoldStays DEF Waiting, HandsStay, ProtocolInv
<1>3. Place
  BY <1>2 DEF Sound
<1> USE DEF ToldStays, Place, Drawing, FirstOnes, Afterwards
<1>4. CASE CardGiven
  <2>1. /\ pc = "Give" /\ HangUp /\ DOMAIN job' = DOMAIN NoJob
        /\ job'.then = job.then /\ job'.all = job.all
        /\ pc' = IF job.done + 1 = job.all THEN "Drawn" ELSE "Draw"
    BY <1>2, <1>4 DEF CardGiven, Back, Shape, NoJob
  <2>2. Place'
    BY <1>1, <1>2, <1>3, <2>1
  <2>3. Settled
    BY <1>1, <1>2, <2>1 DEF Settled, Back, Answered, Requests, Shape
  <2>4. Sound' /\ Resting'
    BY <1>1, <1>2, <2>1, <2>2, <2>3, TableKept DEF Settled, Early, HangUp, Resting
  <2> QED
    BY <2>1, <2>4 DEF TableInv, Terminal
<1>5. CASE FirstColor
  <2>1. pc = "FirstColor" /\ HangUp /\ pc' = "FirstShown" /\ UNCHANGED job
    BY <1>5 DEF FirstColor, Back
  <2>2. Place'
    BY <1>1, <1>2, <1>3, <2>1
  <2>3. Sound' /\ Resting'
    BY <1>1, <1>2, <2>1, <2>2, TableKept DEF Settled, Early, HangUp, Resting
  <2> QED
    BY <2>1, <2>3 DEF TableInv, Terminal
<1>6. CASE ChallengeDecided
  <2>1. /\ pc = "Challenge"
        /\ \/ pc' = "Reveal"
           \/ pc' = "Draw" /\ job'.then = "EndTurn" /\ HangUp
    BY <1>6 DEF ChallengeDecided, Back, StartDraw
  <2>2. Place'
    BY <1>1, <1>2, <1>3, <2>1
  <2>3. Sound' /\ (pc' = "Draw" => Resting')
    BY <1>1, <1>2, <2>1, <2>2, TableKept DEF Settled, Early, HangUp, Resting
  <2> QED
    BY <2>1, <2>3 DEF TableInv, Going, Terminal
<1>7. CASE NothingPlayed
  <2>1. /\ pc \in {"Play", "PlayAgain"} /\ HangUp /\ Empty(line[turn].number)
        /\ \/ pc' = "Draw" /\ job'.then = "Again"
           \/ pc' = "Nothing" /\ UNCHANGED job
    BY <1>7 DEF NothingPlayed, PlayComesBack, Back, StartDraw
  <2>2. Place'
    BY <1>1, <1>2, <1>3, <2>1
  <2>3. Resting'
    BY <2>1 DEF HangUp, Resting
  <2>4. Hands /\ Counts /\ IsFiniteSet(DOMAIN held)
    BY <1>2, <2>1 DEF Sound, Doomed
  <2>5. \A p \in Players : HandAgrees(p)'
    <3>1. ASSUME NEW p \in Players
          PROVE  HandAgrees(p)'
      <4>1. HandAgrees(p) /\ \A v : ~Coming(p, v) /\ (Leaving(p, v) => Empty(v))
        BY <2>1, <2>4 DEF Hands, Coming, Leaving
      <4>2. InHand(p)' = InHand(p) /\ Holding(p)' = Holding(p)
        BY <1>2 DEF InHand, Holding, HandsStay
      <4>3. \A v : Empty(v)' <=> Empty(v)
        BY DEF Empty, Opened
      <4> QED
        BY <1>2, <4>1, <4>2, <4>3 DEF HandAgrees, HandsStay
    <3> QED
      BY <3>1
  <2>6. Hands'
    BY <2>1, <2>5 DEF Hands
  <2>7. Counts'
    BY <1>1, <2>1, <2>4 DEF Counts, HeldCount, M
  <2> QED
    BY <1>1, <2>1, <2>2, <2>3, <2>4, <2>6, <2>7 DEF TableInv, Sound, Terminal
<1> QED
  BY <1>4, <1>5, <1>6, <1>7
-----------------------------------------------------------------------------
\* Cards that leave the deck or a hand

(* The number of the top card is a new one: the other players have not     *)
(* given a key for it before.                                              *)
LEMMA KeysGivenAgrees ==
  ASSUME ProtocolInv, TableInv, KeysGiven
  PROVE  TableInv'
<1>1. /\ pc = "Keys" /\ Back("Keys")
      /\ UNCHANGED <<discard, turn, job, mem, event, late>>
  BY DEF KeysGiven, Back, game, told
<1>2. Sound /\ Unrefused /\ Shape /\ WireInv
  BY <1>1, Answers DEF Waiting, ProtocolInv, Live, Terminal
<1>3. Counts /\ Hands /\ Place /\ IsFiniteSet(DOMAIN held)
  BY <1>1, <1>2 DEF Sound, Doomed
<1>4. /\ deck # <<>> /\ mem[turn].deck = deck /\ turn \in Players
      /\ \A p \in Players \ {turn} : line[p].type = "key"
  BY <1>1, <1>2 DEF WireInv, KeyCase, Refusal, Unrefused, Back, Answered, Requests, Shape
<1>5. PICK q \in Players : q # turn
  BY NAssumption DEF Players
<1>6. CASE "ownKey" \notin Mended
  <2>1. pc' = "Panicked" /\ UNCHANGED line
    BY <1>6 DEF KeysGiven
  <2>2. ~Resting'
    BY <1>4, <1>5, <2>1 DEF Resting, Idle
  <2> QED
    BY <2>1, <2>2 DEF TableInv, Going, Terminal
<1>7. CASE "ownKey" \in Mended
  <2>1. PICK top : top = Seqs!Last(deck)
    OBVIOUS
  <2>2. /\ deck' = Seqs!Front(deck) /\ held' = Put(held, top, turn) /\ pc' = "Give"
        /\ line' = [p \in Players |->
                      IF p \in {turn} THEN [type |-> "Give", keys |-> KeysIn] ELSE Idle]
    BY <1>7, <2>1 DEF KeysGiven, PopTopCard, Call, CallAll
  <2>3. /\ top \notin DOMAIN held
        /\ \A p \in Players \ {turn} : top \in mem[p].given
    BY <1>1, <1>3, <1>4, <1>5, <2>1 DEF Hands, KeyIsNew
  <2>4. /\ DOMAIN held' = DOMAIN held \cup {top} /\ held'[top] = turn
        /\ \A v \in DOMAIN held : held'[v] = held[v]
    BY <2>2, <2>3 DEF Put
  <2>5. Place'
    BY <1>1, <1>3, <2>2, UntoldStays DEF Place, ToldStays, Drawing, FirstOnes, Afterwards
  <2>6. IsFiniteSet(DOMAIN held') /\ HeldCount' = HeldCount + 1
    BY <1>3, <2>3, <2>4, FS_AddElement DEF HeldCount
  <2>7. Counts'
    <3>1. /\ {Len(deck), Len(discard), HeldCount, M} \subseteq Nat
          /\ Len(deck) + HeldCount + Len(discard) = M
      BY <1>1, <1>2, CardsCounted DEF Early
    <3>2. Len(deck') = Len(deck) - 1
      BY <1>2, <1>4, <2>2, FrontAndLast DEF Shape
    <3> QED
      BY <1>1, <2>2, <2>6, <3>1, <3>2 DEF Counts, M
  <2>8. top = Seqs!Last(mem'[turn].deck) /\ line'[turn].type = "Give" /\ UNCHANGED turn
    BY <1>1, <1>4, <2>1, <2>2
  <2>9. \A p \in Players : HandAgrees(p)'
    <3>1. ASSUME NEW p \in Players
          PROVE  HandAgrees(p)'
      <4>1. HandAgrees(p) /\ \A v : ~Coming(p, v) /\ ~Leaving(p, v)
        BY <1>1, <1>3 DEF Hands, Coming, Leaving
      <4>2. InHand(p)' = InHand(p)
        BY <1>1 DEF InHand
      <4>3. Holding(p)' = Holding(p) \cup IF p = turn THEN {top} ELSE {}
        BY <2>3, <2>4 DEF Holding
      <4>4. p = turn => Coming(p, top)'
        BY <2>2, <2>8 DEF Coming
      <4>5. \A v : Empty(v)' <=> Empty(v)
        BY DEF Empty, Opened
      <4> QED
        BY <1>1, <2>3, <2>4, <4>1, <4>2, <4>3, <4>4, <4>5 DEF HandAgrees
    <3> QED
      BY <3>1
  <2>10. Hands'
    BY <2>2, <2>4, <2>8, <2>9 DEF Hands
  <2> QED
    BY <2>2, <2>5, <2>6, <2>7, <2>10 DEF TableInv, Sound, Going, Terminal
<1> QED
  BY <1>6, <1>7

(* The first card leaves everybody's deck, whether it opens or not.        *)
LEMMA TurnedUpAgrees ==
  ASSUME ProtocolInv, TableInv, TurnedUp
  PROVE  TableInv'
<1>1. /\ pc = "FirstKeys" /\ Back("FirstKeys")
      /\ UNCHANGED <<held, turn, mem, event, late>>
  BY DEF TurnedUp, Back, game, told
<1>2. Sound /\ Unrefused /\ Shape /\ WireInv
  BY <1>1, Answers DEF Waiting, ProtocolInv, Live, Terminal
<1>3. Counts /\ Hands /\ Place /\ IsFiniteSet(DOMAIN held) /\ Settled
  BY <1>1, <1>2 DEF Sound, Doomed, Settled
<1>4. deck # <<>> /\ \A p \in Players : mem[p].deck = Seqs!Front(deck)
  BY <1>1, <1>2, KeysHaveCome DEF WireInv, KeyCase, Refusal, Unrefused, Back, Answered, Requests
<1>5. PICK v : /\ v = Decrypted(Seqs!Last(deck), KeysIn)
               /\ deck' = Seqs!Front(deck) /\ discard' = Append(discard, v.card)
  BY DEF TurnedUp, PopTopCard
<1>6. /\ job'.then = "Turn"
      /\ \/ pc' \in {"Failed", "FirstShown"} /\ HangUp
         \/ pc' = "FirstColor"
  BY DEF TurnedUp
<1>7. IsSeq(discard) /\ Len(discard') = Len(discard) + 1 /\ discard' # <<>>
  <2>1. PICK card, S : card = v.card /\ S = Range(discard) \cup {card}
    OBVIOUS
  <2>2. IsSeq(discard) /\ discard \in Seq(S) /\ card \in S
    BY <1>2, <2>1, SeqMonotonic DEF Shape, IsSeq
  <2> QED
    BY <1>5, <2>1, <2>2, AppendProperties, EmptyIsSeq, SeqFacts
<1>8. HandsStay /\ Settled'
  BY <1>1, <1>6 DEF HandsStay, Settled
<1>9. CASE pc' = "Failed"
  <2>1. \A p \in Players : InHand(p)' = InHand(p) /\ Holding(p)' = Holding(p)
    BY <1>1 DEF InHand, Holding
  <2>2. SameTables'
    BY <1>1, <1>3, <1>4, <1>5, <2>1, HandsSettled DEF SameTables, Empty, Opened
  <2> QED
    BY <1>9, <2>2 DEF TableInv, Going, Terminal
<1>10. CASE pc' \in {"FirstShown", "FirstColor"}
  <2>1. Place'
    BY <1>1, <1>3, <1>6, <1>7, <1>10, UntoldStays
    DEF Place, ToldStays, Drawing, FirstOnes, Afterwards
  <2>2. Counts'
    <3>1. /\ {Len(deck), Len(discard), HeldCount, M} \subseteq Nat
          /\ Len(deck) + HeldCount + Len(discard) = M
      BY <1>1, <1>2, CardsCounted DEF Early
    <3>2. Len(deck') = Len(deck) - 1 /\ HeldCount' = HeldCount
      BY <1>1, <1>2, <1>4, <1>5, FrontAndLast DEF Shape, HeldCount
    <3> QED
      BY <1>7, <1>10, <3>1, <3>2 DEF Counts, M
  <2>3. Hands'
    <3>1. \A p \in Players : HandAgrees(p)'
      BY <1>3, <1>8, HandsAgree
    <3> QED
      BY <1>10, <3>1 DEF Hands
  <2>4. pc' = "FirstShown" => Resting'
    BY <1>6 DEF HangUp, Resting
  <2> QED
    BY <1>1, <1>3, <1>10, <2>1, <2>2, <2>3, <2>4 DEF TableInv, Sound, Going, Terminal
<1> QED
  BY <1>6, <1>9, <1>10

(* The card that was played leaves the hand the host holds it in.          *)
LEMMA CardPlayedAgrees ==
  ASSUME ProtocolInv, TableInv, CardPlayed
  PROVE  TableInv'
<1>1. /\ pc \in {"Play", "PlayAgain"} /\ Back(pc)
      /\ UNCHANGED <<deck, turn, job, mem, event, late>>
  BY DEF CardPlayed, PlayComesBack, Back, game, told
<1>2. Sound /\ Unrefused /\ Shape /\ WireInv
  BY <1>1, Answers DEF Waiting, ProtocolInv, Live, Terminal
<1>3. Counts /\ Hands /\ Place /\ IsFiniteSet(DOMAIN held)
  BY <1>1, <1>2 DEF Sound, Doomed
<1>4. turn \in Players /\ line[turn].type = "play"
  BY <1>1, <1>2 DEF WireInv, PlayCase, Refusal, Unrefused, Back, Answered, Requests, Shape
<1>5. PICK top : top = line[turn].number
  OBVIOUS
<1>6. \/ pc' = "Failed" /\ UNCHANGED line
      \/ /\ pc' = "Discarded" /\ HangUp
         /\ top \in DOMAIN held /\ held[top] = turn
         /\ held' = Restrict(held, DOMAIN held \ {top})
         /\ \E card : discard' = Append(discard, card)
  BY <1>5 DEF CardPlayed, PlayIsGenuine
<1>7. CASE pc' = "Failed"
  <2>1. ~Resting'
    BY <1>4, <1>6, <1>7 DEF Resting, Idle
  <2> QED
    BY <1>7, <2>1 DEF TableInv, Going, Terminal
<1>8. CASE pc' = "Discarded"
  <2>1. /\ DOMAIN held' = DOMAIN held \ {top}
        /\ \A v \in DOMAIN held' : held'[v] = held[v]
    BY <1>6, <1>8 DEF Restrict
  <2>2. IsFiniteSet(DOMAIN held') /\ HeldCount' = HeldCount - 1
    BY <1>3, <1>6, <1>8, <2>1, FS_RemoveElement DEF HeldCount
  <2>3. IsSeq(discard) /\ Len(discard') = Len(discard) + 1 /\ discard' # <<>>
    <3>1. PICK card : discard' = Append(discard, card)
      BY <1>6, <1>8
    <3>2. PICK S : S = Range(discard) \cup {card}
      OBVIOUS
    <3>3. IsSeq(discard) /\ discard \in Seq(S) /\ card \in S
      BY <1>2, <3>2, SeqMonotonic DEF Shape, IsSeq
    <3> QED
      BY <3>1, <3>3, AppendProperties, EmptyIsSeq, SeqFacts
  <2>4. Place'
    BY <1>1, <1>3, <1>8, <2>3, UntoldStays DEF Place, ToldStays, Drawing, FirstOnes, Afterwards
  <2>5. Counts'
    <3>1. /\ {Len(deck), Len(discard), HeldCount, M} \subseteq Nat
          /\ Len(deck) + HeldCount + Len(discard) = M
      BY <1>1, <1>2, CardsCounted DEF Early
    <3> QED
      BY <1>1, <1>8, <2>2, <2>3, <3>1 DEF Counts, M
  <2>6. \A p \in Players : HandAgrees(p)'
    <3>1. ASSUME NEW p \in Players
          PROVE  HandAgrees(p)'
      <4>1. HandAgrees(p) /\ \A v : ~Coming(p, v) /\ (Leaving(p, v) => v = top)
        BY <1>1, <1>3, <1>5 DEF Hands, Coming, Leaving
      <4>2. InHand(p)' = InHand(p) /\ (p = turn => top \notin InHand(p))
        BY <1>1, <1>3, <1>4, <1>5 DEF Hands, InHand
      <4>3. Holding(p)' = Holding(p) \ {top} /\ (p # turn => top \notin Holding(p))
        BY <1>6, <1>8, <2>1 DEF Holding
      <4>4. \A v : Empty(v)' <=> Empty(v)
        BY DEF Empty, Opened
      <4> QED
        BY <1>1, <2>1, <4>1, <4>2, <4>3, <4>4 DEF HandAgrees
    <3> QED
      BY <3>1
  <2>7. Hands'
    BY <1>8, <2>6 DEF Hands
  <2>8. Resting'
    BY <1>6, <1>8 DEF HangUp, Resting
  <2> QED
    BY <1>8, <2>2, <2>4, <2>5, <2>7, <2>8 DEF TableInv, Sound, Terminal
<1> QED
  BY <1>6, <1>7, <1>8

(* A player that has given up never rests again.                           *)
LEMMA RefusalAgrees ==
  ASSUME PlayerRefuses
  PROVE  TableInv'
<1>1. pc' = "Failed" /\ ~Resting'
  BY DEF PlayerRefuses, wires, Resting, Idle
<1> QED
  BY <1>1 DEF TableInv, Going, Terminal

(* An event that comes late changes nothing on the table.                  *)
LEMMA ArriveAgrees ==
  ASSUME ProtocolInv, TableInv, Arrive
  PROVE  TableInv'
<1>1. Shape /\ UNCHANGED <<pc, deck, held, discard, turn, job, line, start, work, stage, seat>>
  BY DEF Arrive, table, passing, ProtocolInv
<1>2. \A p \in Players :
        /\ mem'[p].deck = mem[p].deck /\ mem'[p].myCards = mem[p].myCards
        /\ mem'[p].given = mem[p].given
  BY <1>1 DEF Arrive, OnGameEvent, Shape, Forgotten
<1>3. \A p \in Players : InHand(p)' = InHand(p) /\ Holding(p)' = Holding(p)
  BY <1>1, <1>2 DEF InHand, Holding
<1>4. \A v : Empty(v)' <=> Empty(v)
  BY DEF Empty, Opened
<1>5. SameTables => SameTables'
  BY <1>1, <1>2, <1>3, <1>4 DEF SameTables
<1>6. (Resting' <=> Resting) /\ (Unrefused' <=> Unrefused)
  BY <1>1 DEF Resting, Unrefused
<1>7. ASSUME Sound
      PROVE  Sound'
  <2>1. Place' /\ (Doomed => Doomed')
    BY <1>1, <1>7, ArriveTells
    DEF Sound, ToldStays, Place, Doomed, Fresh, Drawing, FirstOnes, Afterwards
  <2>2. Counts => Counts'
    BY <1>1 DEF Counts, HeldCount, M
  <2>3. Hands => Hands'
    <3>1. turn \in Players
      BY <1>1 DEF Shape
    <3>2. \A p \in Players : \A v :
            (Coming(p, v)' <=> Coming(p, v)) /\ (Leaving(p, v)' <=> Leaving(p, v))
      BY <1>1, <1>2 DEF Coming, Leaving
    <3>3. \A p \in Players : HandAgrees(p) => HandAgrees(p)'
      BY <1>1, <1>2, <1>3, <1>4, <3>2 DEF HandAgrees
    <3>4. \A p \in Players : KeyIsNew(p) => KeyIsNew(p)'
      BY <1>1, <1>2 DEF KeyIsNew
    <3> QED
      BY <1>1, <1>2, <1>3, <3>1, <3>3, <3>4 DEF Hands
  <2> QED
    BY <1>1, <1>7, <2>1, <2>2, <2>3 DEF Sound
<1> QED
  BY <1>1, <1>5, <1>6, <1>7 DEF TableInv
-----------------------------------------------------------------------------
\* The players' side

(* A player's answer is as good as what the host's tables are after it.    *)
LEMMA StepAgrees ==
  ASSUME TableInv, NEW p \in Players, Player(p), Alone(p),
         line[p].type \in Requests, line'[p].type # "idle",
         line'[p].type # "refused" /\ pc \notin Terminal /\ Sound => Sound'
  PROVE  TableInv'
<1>1. ~Resting /\ ~Resting'
  BY DEF Resting, Idle, Requests
<1>2. UNCHANGED pc
  BY DEF Player
<1>3. Unrefused' => Unrefused /\ line'[p].type # "refused"
  BY DEF Unrefused, Alone, Requests
<1> QED
  BY <1>1, <1>2, <1>3 DEF TableInv

(* What its last event is to a player is the same after it.                *)
LEMMA PlayerTells ==
  ASSUME NEW p \in Players, Player(p), Alone(p), mem'[p].lastEvent = mem[p].lastEvent
  PROVE  /\ UNCHANGED <<pc, deck, held, discard, turn, job, stage, seat>>
         /\ (Place => Place') /\ (Counts => Counts')
<1>1. UNCHANGED <<pc, deck, held, discard, turn, job, start, work, stage, seat, event, late>>
  BY DEF Player, table, passing
<1>2. ToldStays
  BY <1>1, UntoldStays DEF Alone
<1>3. Place => Place'
  BY <1>1, <1>2 DEF ToldStays, Place, Fresh, Drawing, FirstOnes, Afterwards
<1>4. Counts => Counts'
  BY <1>1 DEF Counts, HeldCount, M
<1> QED
  BY <1>1, <1>3, <1>4

(* Answers about nothing but events, hands and colors.                     *)
LEMMA OthersUntold ==
  ASSUME Shape, NEW p \in Players,
         GameEnd(p) \/ HandStart(p) \/ HandEnd(p) \/ ChooseColor(p) \/ ShouldChallenge(p)
           \/ RevealForChallenge(p)
  PROVE  /\ mem'[p].lastEvent = mem[p].lastEvent /\ mem'[p].given = mem[p].given
         /\ line[p].type \in Requests \ (ForCards \cup {"GameStart"})
         /\ line'[p].type # "idle"
<1> USE DEF Shape, Remember, Answer, Reply, Refuse, Signed, Asked, ForCards, Requests, Forgotten
<1>1. CASE GameEnd(p)
  BY <1>1 DEF GameEnd
<1>2. CASE HandStart(p)
  BY <1>2 DEF HandStart
<1>3. CASE HandEnd(p)
  BY <1>3 DEF HandEnd
<1>4. CASE ChooseColor(p)
  BY <1>4 DEF ChooseColor
<1>5. CASE ShouldChallenge(p)
  BY <1>5 DEF ShouldChallenge
<1>6. CASE RevealForChallenge(p)
  BY <1>6 DEF RevealForChallenge
<1> QED
  BY <1>1, <1>2, <1>3, <1>4, <1>5, <1>6

LEMMA OthersAgree ==
  ASSUME ProtocolInv, TableInv, NEW p \in Players, Player(p),
         GameEnd(p) \/ HandStart(p) \/ HandEnd(p) \/ ChooseColor(p) \/ ShouldChallenge(p)
           \/ RevealForChallenge(p)
  PROVE  TableInv'
<1>1. Shape /\ (pc \notin Terminal => WireInv)
  BY DEF ProtocolInv, Live
<1>2. /\ Alone(p) /\ HandStays(p)
      /\ mem'[p].lastEvent = mem[p].lastEvent /\ mem'[p].given = mem[p].given
      /\ line[p].type \in Requests \ (ForCards \cup {"GameStart"})
      /\ line'[p].type # "idle"
  BY <1>1, OthersAnswer, OthersUntold
<1>3. /\ UNCHANGED <<pc, deck, held, discard>>
      /\ Place => Place'
  BY <1>2, PlayerTells
<1>4. ASSUME pc \notin Terminal, Sound
      PROVE  Sound'
  <2>1. pc \notin WithCards
    BY <1>1, <1>2, <1>4, AskedWhere
  <2>2. HandsStay
    BY <1>2, <1>3 DEF HandsStay, HandStays, Alone
  <2> QED
    BY <1>3, <1>4, <2>1, <2>2, TableKept DEF Settled, WithCards, Sound
<1> QED
  BY <1>2, <1>4, StepAgrees

(* A player that forgets everything has been given nothing.                *)
LEMMA GameStartAgrees ==
  ASSUME ProtocolInv, TableInv, NEW p \in Players, Player(p), GameStart(p)
  PROVE  TableInv'
<1>1. Shape /\ (pc \notin Terminal => WireInv)
  BY DEF ProtocolInv, Live
<1>2. /\ Alone(p) /\ line[p].type = "GameStart" /\ line'[p].type = "signed"
      /\ mem'[p].myCards = <<>> /\ mem'[p].given = {}
  BY <1>1 DEF GameStart, Asked, Remember, Reply, Signed, Shape, Alone, Forgotten
<1>3. UNCHANGED <<pc, deck, held, discard>>
  BY DEF Player, table
<1>4. ASSUME pc \notin Terminal, Sound
      PROVE  Sound'
  <2>1. pc = "GameStart" /\ Hands /\ held = <<>> /\ discard = <<>>
    BY <1>1, <1>2, <1>4, AskedWhere DEF Sound, Doomed, Place, Fresh
  <2>2. DOMAIN held = {} /\ DOMAIN <<>> = {}
    BY <2>1, EmptyIsSeq
  <2>3. \A q \in Players : HandAgrees(q)'
    <3>1. ASSUME NEW q \in Players
          PROVE  HandAgrees(q)'
      <4>1. HandAgrees(q) /\ Holding(q) = {}
        BY <2>1, <2>2 DEF Hands, Holding
      <4>2. Holding(q)' = {}
        BY <1>3, <2>2 DEF Holding
      <4>3. CASE q = p
        BY <1>2, <1>3, <2>2, <4>2, <4>3 DEF HandAgrees, InHand, Range, NumbersDiffer
      <4>4. CASE q # p
        BY <1>2, <1>3, <2>2, <4>1, <4>2, <4>4 DEF HandAgrees, InHand, Alone
      <4> QED
        BY <4>3, <4>4
    <3> QED
      BY <3>1
  <2>4. Place' /\ Counts'
    BY <1>3, <2>1 DEF Place, Fresh, Counts, Drawing, FirstOnes, Afterwards
  <2> QED
    BY <1>3, <1>4, <2>1, <2>3, <2>4 DEF Sound, Hands
<1> QED
  BY <1>2, <1>4, StepAgrees DEF Requests

(* No player takes a full deck to shuffle when it has been shown a hand.   *)
LEMMA FullDeckRefused ==
  ASSUME Told3, NEW p \in Players, line[p].start = FullDeck
  PROVE  ~ShuffleIsExpected(mem[p], line[p])
<1>1. PICK pile : pile = mem[p].lastEvent.hand.discard
  OBVIOUS
<1>2. /\ mem[p].lastEvent # NoEvent /\ mem[p].lastEvent.hand # NoHand
      /\ IsSeq(pile) /\ Len(pile) <= M
  BY <1>1 DEF Told3, Outdated
<1>3. pile # <<>> => Len(Seqs!Front(pile)) = Len(pile) - 1 /\ Len(pile) \in Nat
  BY <1>2, FrontAndLast
<1>4. pile # <<>> => Seqs!Front(pile) # FullDeck
  BY <1>2, <1>3, FullDeckCounts
<1> QED
  BY <1>1, <1>2, <1>4 DEF ShuffleIsExpected, ToShuffle

LEMMA ShuffleUntold ==
  ASSUME Shape, NEW p \in Players, ShuffleStage0(p) \/ ShuffleStage1(p) \/ ShuffleStage2(p)
  PROVE  /\ Alone(p) /\ ShuffleIsExpected(mem[p], line[p])
         /\ mem'[p].lastEvent = mem[p].lastEvent
         /\ mem'[p].given = mem[p].given /\ mem'[p].myCards = mem[p].myCards
         /\ line[p].type = "Shuffle" /\ line'[p].type \in {"cards", "taken"}
<1>1. line[p].type = "Shuffle" /\ ShuffleIsExpected(mem[p], line[p])
  BY Zenon DEF ShuffleStage0, ShuffleStage1, ShuffleStage2, Asked
<1>2. CASE ShuffleStage0(p)
  <2> DEFINE from0 == IF mem[p].start = <<>> THEN line[p].start ELSE mem[p].start
             key0 == <<p, mem[p].shuffles + 1, 0>>
             numbers0 == {EncryptInt(key0, line[p].cards[i]) : i \in DOMAIN line[p].cards}
  <2>1. /\ mem' = [mem EXCEPT ![p] = [mem[p] EXCEPT !.start = from0, !.stage0 = key0,
                                        !.shuffles = @ + 1]]
        /\ \E cards \in Seqs!SetToSeqs(numbers0) :
             line' = [line EXCEPT ![p] = [type |-> "cards", cards |-> cards]]
    BY <1>2, Zenon DEF ShuffleStage0, Remember, Reply
  <2> HIDE DEF from0, key0, numbers0
  <2> QED
    BY <1>1, <2>1 DEF Shape, Alone, Forgotten
<1>3. CASE ShuffleStage1(p)
  <2> DEFINE req == line[p].cards
             keys0 == [i \in DOMAIN req |-> Stage1Key(p, mem[p], i)]
             cards0 == [i \in DOMAIN keys0 |->
                          EncryptInt(keys0[i], DecryptInt(mem[p].stage0, req[i]))]
  <2>1. /\ mem' = [mem EXCEPT ![p] = [mem[p] EXCEPT !.stage1 = keys0, !.stage0 = NoKey]]
        /\ line' = [line EXCEPT ![p] = [type |-> "cards", cards |-> cards0]]
    BY <1>3, Zenon DEF ShuffleStage1, Remember, Reply
  <2> HIDE DEF keys0, cards0
  <2> QED
    BY <1>1, <2>1 DEF Shape, Alone, Forgotten
<1>4. CASE ShuffleStage2(p)
  <2> DEFINE pairs0 == PutAll(mem[p].cardPairs, Filed(mem[p], line[p].cards))
  <2>1. /\ mem' = [mem EXCEPT ![p] = [mem[p] EXCEPT !.cardPairs = pairs0, !.deck = line[p].cards,
                                        !.stage1 = <<>>]]
        /\ line' = [line EXCEPT ![p] = [type |-> "taken"]]
    BY <1>4, Zenon DEF ShuffleStage2, Remember, Reply
  <2> HIDE DEF pairs0
  <2> QED
    BY <1>1, <2>1 DEF Shape, Alone, Forgotten
<1> QED
  BY <1>2, <1>3, <1>4

(* A shuffle moves no card between deck and hands.                         *)
LEMMA ShuffleAgrees ==
  ASSUME ProtocolInv, TableInv, NEW p \in Players, Player(p),
         ShuffleStage0(p) \/ ShuffleStage1(p) \/ ShuffleStage2(p) \/ ShuffleRefused(p)
  PROVE  TableInv'
<1>1. Shape /\ (pc \notin Terminal => WireInv)
  BY DEF ProtocolInv, Live
<1>2. CASE ShuffleRefused(p)
  <2>1. Alone(p) /\ line[p].type = "Shuffle" /\ line'[p].type = "refused"
    BY <1>1, <1>2 DEF ShuffleRefused, Asked, Refuse, Shape, Alone
  <2> QED
    BY <2>1, StepAgrees DEF Requests
<1>3. CASE ShuffleStage0(p) \/ ShuffleStage1(p) \/ ShuffleStage2(p)
  <2>1. /\ Alone(p) /\ ShuffleIsExpected(mem[p], line[p])
        /\ mem'[p].lastEvent = mem[p].lastEvent
        /\ mem'[p].given = mem[p].given /\ mem'[p].myCards = mem[p].myCards
        /\ line[p].type = "Shuffle" /\ line'[p].type \in {"cards", "taken"}
    BY <1>1, <1>3, ShuffleUntold
  <2>2. /\ UNCHANGED <<pc, held>>
        /\ (Place => Place') /\ (Counts => Counts')
    BY <2>1, PlayerTells
  <2>3. ASSUME pc \notin Terminal, Sound
        PROVE  Sound'
    <3>1. pc = "Shuffle" /\ p = seat
      BY <1>1, <2>1, <2>3, AskedWhere
    <3>2. Counts /\ Hands
      <4>1. ~Doomed
        BY <2>1, <3>1, FullDeckRefused DEF Doomed
      <4> QED
        BY <2>3, <4>1 DEF Sound
    <3>3. Hands'
      <4>1. HandsStay /\ Settled
        BY <2>1, <2>2, <3>1 DEF HandsStay, Settled, Alone
      <4> QED
        BY <2>2, <3>1, <3>2, <4>1, HandsAgree DEF Hands
    <3> QED
      BY <2>2, <2>3, <3>2, <3>3 DEF Sound
  <2> QED
    BY <2>1, <2>3, StepAgrees DEF Requests
<1> QED
  BY <1>2, <1>3

(* A key is given for a card that is in nobody's hand.                     *)
LEMMA GetKeyAgrees ==
  ASSUME ProtocolInv, TableInv, NEW p \in Players, Player(p), GetKey(p)
  PROVE  TableInv'
<1>1. Shape /\ (pc \notin Terminal => WireInv)
  BY DEF ProtocolInv, Live
<1> DEFINE last == Seqs!Last(mem[p].deck)
           to == line[p].to
           shown == /\ mem[p].lastEvent # NoEvent /\ mem[p].lastEvent.hand # NoHand
                    /\ \A i \in DOMAIN mem[p].lastEvent.hand.discard :
                         Value(mem[p].lastEvent.hand.discard[i]) = WildDrawFour
           ok == IF to = None THEN shown ELSE to # p /\ last \notin mem[p].given
           given0 == IF to # None /\ ok THEN mem[p].given \cup {last} ELSE mem[p].given
           r0 == [type |-> "key", key |-> mem[p].cardPairs[last]]
<1>2. /\ line[p].type = "Key"
      /\ \/ Refuse(p) /\ UNCHANGED mem
         \/ /\ mem' = [mem EXCEPT ![p] = [mem[p] EXCEPT !.deck = Seqs!Front(@), !.given = given0]]
            /\ Answer(p, ok, r0)
  BY Zenon DEF GetKey, Asked, Remember
<1>3. PICK given, r : given = given0 /\ r = r0
  OBVIOUS
<1>4. r.type = "key"
  BY <1>3
<1>5. mem[p].given \subseteq given /\ (to # None /\ ok => last \in given /\ last \notin mem[p].given)
  <2> HIDE DEF shown, last
  <2> QED
    BY <1>3
<1>6. /\ Alone(p) /\ HandStays(p) /\ mem'[p].lastEvent = mem[p].lastEvent
      /\ mem[p].given \subseteq mem'[p].given
      /\ \/ line'[p].type = "refused"
         \/ line'[p].type = "key" /\ ok /\ mem'[p].given = given
  <2>1. ok \in BOOLEAN
    BY Zenon
  <2>2. \/ Refuse(p) /\ UNCHANGED mem
        \/ /\ mem' = [mem EXCEPT ![p] = [mem[p] EXCEPT !.deck = Seqs!Front(@), !.given = given]]
           /\ (ok /\ line' = [line EXCEPT ![p] = r]) \/ (~ok /\ Refuse(p))
    BY <1>2, <1>3, <2>1, Zenon DEF Answer, Reply
  <2> HIDE DEF ok, last, given0, r0
  <2>3. /\ mem[p].given \subseteq given
        /\ \/ Refuse(p) /\ UNCHANGED mem
           \/ /\ mem' = [mem EXCEPT ![p] = [mem[p] EXCEPT !.deck = Seqs!Front(@), !.given = given]]
              /\ (line' = [line EXCEPT ![p] = r]) \/ Refuse(p)
    BY <1>5, <2>2, Zenon
  <2>4. /\ Alone(p) /\ HandStays(p) /\ mem'[p].lastEvent = mem[p].lastEvent
        /\ mem[p].given \subseteq mem'[p].given
        /\ line'[p].type \in {"refused", "key"}
    <3>1. /\ DOMAIN line' = Players /\ line'[p].type \in {"refused", "key"}
          /\ \A q \in Players \ {p} : line'[q] = line[q]
      BY <1>1, <1>4, <2>3 DEF Refuse, Shape
    <3>2. CASE UNCHANGED mem
      BY <1>1, <3>1, <3>2 DEF Shape, Alone, HandStays
    <3>3. CASE ~UNCHANGED mem
      <4>1. mem' = [mem EXCEPT ![p] = [mem[p] EXCEPT !.deck = Seqs!Front(@), !.given = given]]
        BY <2>3, <3>3, Zenon
      <4> QED
        BY <1>1, <2>3, <3>1, <4>1 DEF Shape, Alone, HandStays, Forgotten
    <3> QED
      BY <3>2, <3>3
  <2>5. CASE Refuse(p)
    <3>1. line'[p].type = "refused"
      BY <1>1, <2>5 DEF Refuse, Shape
    <3> QED
      BY <2>4, <3>1
  <2>6. CASE ~Refuse(p)
    <3>1. ok /\ mem' = [mem EXCEPT ![p] = [mem[p] EXCEPT !.deck = Seqs!Front(@), !.given = given]]
      BY <2>2, <2>6, Zenon
    <3>2. mem'[p].given = given
      BY <1>1, <3>1 DEF Shape, Forgotten
    <3> QED
      BY <2>4, <3>1, <3>2, Zenon
  <2> QED
    BY <2>5, <2>6
<1> HIDE DEF shown, r0, given0
<1>7. /\ UNCHANGED <<pc, deck, held, turn>>
      /\ (Place => Place') /\ (Counts => Counts')
  BY <1>6, PlayerTells
<1>8. ASSUME pc \notin Terminal, Sound, line'[p].type # "refused"
      PROVE  Sound'
  <2>1. /\ pc \in {"Keys", "FirstKeys"} /\ (pc = "Keys" => p # turn)
        /\ Counts /\ Hands
    BY <1>1, <1>2, <1>8, AskedWhere DEF Sound, Doomed
  <2>2. Settled /\ HandsStay
    BY <1>6, <1>7, <2>1 DEF Settled, HandsStay, HandStays, Alone
  <2>3. \A q \in Players : HandAgrees(q)'
    BY <2>1, <2>2, HandsAgree
  <2>4. ASSUME pc = "Keys", NEW q \in Players \ {turn}
        PROVE  KeyIsNew(q)'
    <3>1. CASE q # p
      BY <1>6, <1>7, <2>1, <2>4, <3>1 DEF Hands, KeyIsNew, Alone
    <3>2. CASE q = p
      <4>1. to = turn /\ to # None
        BY <1>1, <1>2, <2>1, <2>4, NAssumption DEF Hands, KeyIsNew, Shape, Players, None
      <4>2. mem[p].deck = deck
        BY <1>1, <1>2, <1>8, <2>1, <2>4 DEF WireInv, KeyCase, Refusal
      <4>3. Seqs!Last(deck) \in mem'[p].given /\ Seqs!Last(deck) \notin mem[p].given
        BY <1>5, <1>6, <1>8, <4>1, <4>2
      <4>4. DOMAIN held \subseteq mem[p].given
        BY <2>1, <2>2, HandsSettled
      <4>5. line'[p].type = "key"
        BY <1>6, <1>8
      <4> QED
        BY <1>7, <3>2, <4>3, <4>4, <4>5 DEF KeyIsNew
    <3> QED
      BY <3>1, <3>2
  <2>5. Hands'
    BY <1>7, <2>1, <2>3, <2>4 DEF Hands
  <2> QED
    BY <1>7, <1>8, <2>1, <2>5 DEF Sound
<1>9. line'[p].type # "idle"
  BY <1>6
<1> QED
  BY <1>2, <1>6, <1>8, <1>9, StepAgrees DEF Requests
-----------------------------------------------------------------------------
\* A hand with one card more or less

(* A card with a number of its own is added.                               *)
LEMMA HandWith ==
  ASSUME NEW cards, IsSeq(cards), NumbersDiffer(cards), NEW c, c.number \notin NumbersOf(cards)
  PROVE  LET more == Append(cards, c) IN
           NumbersDiffer(more) /\ NumbersOf(more) = NumbersOf(cards) \cup {c.number}
<1> DEFINE S == Range(cards) \cup {c}
<1>1. PICK more : more = Append(cards, c)
  OBVIOUS
<1>2. cards \in Seq(S) /\ Len(cards) \in Nat /\ DOMAIN cards = 1..Len(cards) /\ c \in S
  BY SeqMonotonic, SeqFacts DEF IsSeq
<1>3. /\ DOMAIN more = 1..Len(cards)+1
      /\ \A i \in 1..Len(cards) : more[i] = cards[i]
      /\ more[Len(cards)+1] = c
  <2>1. /\ more \in Seq(S) /\ Len(more) = Len(cards) + 1
        /\ \A i \in 1..Len(cards) : more[i] = cards[i]
        /\ more[Len(cards)+1] = c
    <3> HIDE DEF S
    <3> QED
      BY <1>1, <1>2, AppendProperties
  <2> QED
    BY <2>1, LenProperties
<1>4. \A i \in 1..Len(cards) : cards[i].number \in NumbersOf(cards)
  BY <1>2 DEF NumbersOf, Range
<1>5. NumbersDiffer(more)
  BY <1>2, <1>3, <1>4 DEF NumbersDiffer
<1>6. NumbersOf(more) = NumbersOf(cards) \cup {c.number}
  BY <1>2, <1>3 DEF NumbersOf, Range
<1> QED
  BY <1>1, <1>5, <1>6

(* A card is taken out.                                                    *)
LEMMA HandWithout ==
  ASSUME NEW cards, IsSeq(cards), NumbersDiffer(cards), NEW i \in DOMAIN cards
  PROVE  LET less == Seqs!RemoveAt(cards, i) IN
           NumbersDiffer(less) /\ NumbersOf(less) = NumbersOf(cards) \ {cards[i].number}
<1> DEFINE S == Range(cards)
           n == Len(cards)
           before == SubSeq(cards, 1, i - 1)
           after == SubSeq(cards, i + 1, n)
<1>1. PICK less : less = Seqs!RemoveAt(cards, i)
  OBVIOUS
<1>2. cards \in Seq(S) /\ n \in Nat /\ DOMAIN cards = 1..n /\ i \in 1..n
  BY LenProperties DEF IsSeq
<1>3. /\ before \in Seq(S) /\ Len(before) = i - 1
      /\ \A j \in 1..i-1 : before[j] = cards[j]
  <2>1. 1 \in Int /\ i - 1 \in Int /\ \A j \in 1..(i - 1) : cards[j] \in S
    BY <1>2 DEF Range
  <2>2. /\ before \in Seq(S)
        /\ Len(before) = IF 1 <= i - 1 THEN i - 1 - 1 + 1 ELSE 0
        /\ \A j \in 1..(i - 1) - 1 + 1 : before[j] = cards[1 + j - 1]
    BY <2>1, SubSeqProperties
  <2> QED
    BY <1>2, <2>2
<1>4. /\ after \in Seq(S) /\ Len(after) = n - i
      /\ \A j \in 1..n-i : after[j] = cards[i + j]
  <2>1. i + 1 \in Int /\ n \in Int /\ \A j \in i + 1..n : cards[j] \in S
    BY <1>2 DEF Range
  <2>2. /\ after \in Seq(S)
        /\ Len(after) = IF i + 1 <= n THEN n - (i + 1) + 1 ELSE 0
        /\ \A j \in 1..n - (i + 1) + 1 : after[j] = cards[i + 1 + j - 1]
    BY <2>1, SubSeqProperties
  <2> QED
    BY <1>2, <2>2
<1>5. /\ DOMAIN less = 1..n-1
      /\ \A j \in 1..n-1 : less[j] = IF j < i THEN cards[j] ELSE cards[j + 1]
  <2>1. less = before \o after
    BY <1>1 DEF Seqs!RemoveAt
  <2> HIDE DEF before, after, S
  <2>2. /\ less \in Seq(S) /\ Len(less) = Len(before) + Len(after)
        /\ \A j \in 1..Len(before) + Len(after) :
             less[j] = IF j <= Len(before) THEN before[j] ELSE after[j - Len(before)]
    BY <1>3, <1>4, <2>1, ConcatProperties
  <2>3. DOMAIN less = 1..Len(less)
    BY <2>2, LenProperties
  <2> HIDE DEF n
  <2>4. Len(less) = n - 1
    BY <1>2, <1>3, <1>4, <2>2
  <2>5. ASSUME NEW j \in 1..n-1
        PROVE  less[j] = IF j < i THEN cards[j] ELSE cards[j + 1]
    <3>1. less[j] = IF j <= i - 1 THEN before[j] ELSE after[j - (i - 1)]
      BY <1>2, <1>3, <1>4, <2>2
    <3>2. CASE j < i
      BY <1>2, <1>3, <3>1, <3>2
    <3>3. CASE ~(j < i)
      <4>1. j - (i - 1) \in 1..n-i /\ i + (j - (i - 1)) = j + 1 /\ ~(j <= i - 1)
        BY <1>2, <3>3
      <4> QED
        BY <1>4, <3>1, <3>3, <4>1
    <3> QED
      BY <3>2, <3>3
  <2> QED
    BY <2>3, <2>4, <2>5
<1> HIDE DEF n, S, before, after
<1>6. NumbersDiffer(less)
  <2>1. ASSUME NEW j \in 1..n-1, NEW k \in 1..n-1, less[j].number = less[k].number
        PROVE  j = k
    <3>1. PICK a \in 1..n : less[j] = cards[a] /\ a = IF j < i THEN j ELSE j + 1
      BY <1>2, <1>5
    <3>2. PICK b \in 1..n : less[k] = cards[b] /\ b = IF k < i THEN k ELSE k + 1
      BY <1>2, <1>5
    <3>3. a = b
      BY <1>2, <2>1, <3>1, <3>2 DEF NumbersDiffer
    <3> QED
      BY <1>2, <3>1, <3>2, <3>3
  <2> QED
    BY <1>5, <2>1 DEF NumbersDiffer
<1>7. NumbersOf(less) = NumbersOf(cards) \ {cards[i].number}
  <2>1. ASSUME NEW j \in 1..n-1
        PROVE  less[j].number \in NumbersOf(cards) /\ less[j].number # cards[i].number
    <3>1. PICK a \in 1..n : less[j] = cards[a] /\ a # i
      BY <1>2, <1>5
    <3> QED
      BY <1>2, <3>1 DEF NumbersDiffer, NumbersOf, Range
  <2>2. ASSUME NEW a \in 1..n, a # i
        PROVE  \E j \in 1..n-1 : less[j] = cards[a]
    <3>1. CASE a < i
      BY <1>2, <1>5, <2>2, <3>1
    <3>2. CASE a > i
      <4>1. a - 1 \in 1..n-1 /\ ~(a - 1 < i) /\ (a - 1) + 1 = a
        BY <1>2, <2>2, <3>2
      <4> QED
        BY <1>5, <4>1
    <3> QED
      BY <1>2, <2>2, <3>1, <3>2
  <2>3. \A x : x \in NumbersOf(less) <=> \E j \in 1..n-1 : x = less[j].number
    BY <1>5 DEF NumbersOf, Range
  <2>4. \A x : x \in NumbersOf(cards) <=> \E a \in 1..n : x = cards[a].number
    BY <1>2 DEF NumbersOf, Range
  <2>5. \A x \in NumbersOf(less) : x \in NumbersOf(cards) /\ x # cards[i].number
    BY <2>1, <2>3
  <2>6. \A x \in NumbersOf(cards) : x # cards[i].number => x \in NumbersOf(less)
    <3>1. ASSUME NEW a \in 1..n, cards[a].number # cards[i].number
          PROVE  cards[a].number \in NumbersOf(less)
      <4>1. PICK j \in 1..n-1 : less[j] = cards[a]
        BY <2>2, <3>1
      <4> QED
        BY <2>3, <4>1
    <3> QED
      BY <2>4, <3>1
  <2> QED
    BY <2>5, <2>6
<1> QED
  BY <1>1, <1>6, <1>7

(* A card that is given is new to the player, whom the host has it for.    *)
LEMMA GiveCardAgrees ==
  ASSUME ProtocolInv, TableInv, NEW p \in Players, Player(p), GiveCard(p)
  PROVE  TableInv'
<1>1. Shape /\ (pc \notin Terminal => WireInv /\ PlayerKeys)
  BY DEF ProtocolInv, Live
<1> DEFINE last == Seqs!Last(mem[p].deck)
           others == line[p].keys
           keys == [others EXCEPT ![p] = mem[p].cardPairs[last]]
           open == FoldSet(LAMBDA q, v : DecryptInt(keys[q], v), last, Players)
           fits == /\ \A q \in Players : (others[q] = NoKey) = (q = p)
                   /\ Opened(open)
           ok == /\ last \in DOMAIN mem[p].cardPairs
                 /\ last \notin mem[p].given
                 /\ fits
           mine0 == [card |-> open.card, number |-> last, keys |-> keys]
<1>2. /\ line[p].type = "Give"
      /\ \/ Refuse(p) /\ UNCHANGED mem
         \/ /\ mem' = [mem EXCEPT ![p] = [mem[p] EXCEPT !.deck = Popped(@), !.given = @ \cup {last},
                         !.myCards = IF ok THEN Append(@, mine0) ELSE @]]
            /\ Answer(p, ok, [type |-> "taken"])
  BY Zenon DEF GiveCard, Asked, Remember
<1>3. PICK top : top = last
  OBVIOUS
<1>5. ok \in BOOLEAN /\ (ok => top \notin mem[p].given)
  BY <1>3, Zenon
<1> HIDE DEF ok, fits, open, keys
<1>4. PICK mine : mine = mine0 /\ mine.number = top
  <2>1. PICK card, ks : card = open.card /\ ks = keys
    OBVIOUS
  <2>2. [card |-> card, number |-> top, keys |-> ks].number = top
    OBVIOUS
  <2>3. mine0 = [card |-> card, number |-> top, keys |-> ks]
    BY <1>3, <2>1, Zenon
  <2> QED
    BY <2>2, <2>3
<1> HIDE DEF mine0
<1>6. \/ Refuse(p) /\ (UNCHANGED mem \/ ~ok)
      \/ /\ mem' = [mem EXCEPT ![p] = [mem[p] EXCEPT !.deck = Popped(@), !.given = @ \cup {top},
                      !.myCards = Append(@, mine)]]
         /\ line' = [line EXCEPT ![p] = [type |-> "taken"]] /\ ok
  BY <1>2, <1>3, <1>4, <1>5 DEF Answer, Reply
<1>7. /\ Alone(p) /\ mem'[p].lastEvent = mem[p].lastEvent
      /\ line'[p].type \in {"refused", "taken"}
      /\ line'[p].type = "taken" =>
           /\ top \notin mem[p].given /\ mem'[p].given = mem[p].given \cup {top}
           /\ mem'[p].myCards = Append(mem[p].myCards, mine)
  <2>1. CASE ~Refuse(p)
    <3>1. /\ mem' = [mem EXCEPT ![p] = [mem[p] EXCEPT !.deck = Popped(@), !.given = @ \cup {top},
                       !.myCards = Append(@, mine)]]
          /\ line' = [line EXCEPT ![p] = [type |-> "taken"]]
          /\ top \notin mem[p].given
      BY <1>5, <1>6, <2>1, Zenon
    <3> QED
      BY <1>1, <3>1 DEF Shape, Alone, Forgotten
  <2>2. CASE Refuse(p)
    <3>1. PICK given, cards, rest :
            \/ UNCHANGED mem
            \/ mem' = [mem EXCEPT ![p] = [mem[p] EXCEPT !.deck = rest, !.given = given,
                         !.myCards = cards]]
      BY <1>2, Zenon
    <3>2. /\ DOMAIN mem' = Players /\ DOMAIN mem'[p] = DOMAIN Forgotten
          /\ mem'[p].lastEvent = mem[p].lastEvent
          /\ \A q \in Players \ {p} : mem'[q] = mem[q]
      BY <1>1, <3>1 DEF Shape, Forgotten
    <3> QED
      BY <1>1, <2>2, <3>2 DEF Refuse, Shape, Alone
  <2> QED
    BY <2>1, <2>2
<1>8. /\ UNCHANGED <<pc, deck, held, turn>>
      /\ (Place => Place') /\ (Counts => Counts')
  BY <1>7, PlayerTells
<1>9. ASSUME pc \notin Terminal, Sound, line'[p].type # "refused"
      PROVE  Sound'
  <2>1. pc = "Give" /\ p = turn /\ Counts /\ Hands /\ IsSeq(mem[p].myCards)
    BY <1>1, <1>2, <1>9, AskedWhere DEF Sound, Doomed, PlayerKeys
  <2>2. /\ line'[p].type = "taken" /\ top \notin mem[p].given
        /\ mem'[p].given = mem[p].given \cup {top}
        /\ mem'[p].myCards = Append(mem[p].myCards, mine)
    BY <1>7, <1>9
  <2>3. top \in DOMAIN held /\ held[top] = turn
    BY <1>2, <1>3, <2>1 DEF Hands
  <2>4. HandAgrees(p) /\ \A v : ~Leaving(p, v) /\ (Coming(p, v) => v = top)
    BY <1>3, <2>1 DEF Hands, Coming, Leaving
  <2>5. \A v : Empty(v)' <=> Empty(v)
    BY DEF Empty, Opened
  <2>6. Holding(p)' = Holding(p) /\ top \in Holding(p)
    BY <1>8, <2>1, <2>3 DEF Holding
  <2>7. InHand(p)' = InHand(p) \cup {top} /\ NumbersDiffer(mem'[p].myCards)
    <3>1. mine.number \notin NumbersOf(mem[p].myCards) /\ NumbersDiffer(mem[p].myCards)
      BY <1>4, <2>2, <2>4 DEF HandAgrees, InHand, NumbersOf
    <3>2. PICK cards : cards = mem[p].myCards
      OBVIOUS
    <3>3. /\ NumbersDiffer(Append(cards, mine))
          /\ NumbersOf(Append(cards, mine)) = NumbersOf(cards) \cup {mine.number}
      BY <2>1, <3>1, <3>2, HandWith, Zenon
    <3>4. InHand(p) = NumbersOf(cards) /\ InHand(p)' = NumbersOf(Append(cards, mine))
      BY <2>2, <3>2 DEF InHand, NumbersOf
    <3> QED
      BY <1>4, <2>2, <3>2, <3>3, <3>4
  <2>8. HandAgrees(p)'
    BY <1>8, <2>2, <2>4, <2>5, <2>6, <2>7 DEF HandAgrees
  <2>9. ASSUME NEW q \in Players, q # p
        PROVE  HandAgrees(q)'
    <3>1. HandAgrees(q) /\ \A v : ~Leaving(q, v) /\ ~Coming(q, v)
      BY <2>1, <2>9 DEF Hands, Coming, Leaving
    <3>2. InHand(q)' = InHand(q) /\ Holding(q)' = Holding(q)
      BY <1>7, <1>8, <2>9 DEF Alone, InHand, Holding
    <3> QED
      BY <1>7, <1>8, <2>5, <2>9, <3>1, <3>2 DEF HandAgrees, Alone
  <2>10. Hands'
    BY <1>8, <2>1, <2>2, <2>8, <2>9 DEF Hands
  <2> QED
    BY <1>8, <1>9, <2>1, <2>10 DEF Sound
<1> QED
  BY <1>2, <1>7, <1>9, StepAgrees DEF Requests

(* A card that is played leaves the player's hand before the host's.       *)
LEMMA PlayAgrees ==
  ASSUME ProtocolInv, TableInv, NEW p \in Players, Player(p), Play(p)
  PROVE  TableInv'
<1>1. Shape /\ (pc \notin Terminal => WireInv /\ PlayerKeys)
  BY DEF ProtocolInv, Live
<1>2. /\ Alone(p) /\ line[p].type = "Play" /\ mem'[p].lastEvent = mem[p].lastEvent
      /\ mem'[p].given = mem[p].given
      /\ \/ line'[p].type = "refused"
         \/ \E i \in DOMAIN mem[p].myCards :
              /\ mem'[p].myCards = Seqs!RemoveAt(mem[p].myCards, i)
              /\ line'[p].type = "play" /\ line'[p].number = mem[p].myCards[i].number
  <2>1. PICK i \in UIPlays(mem[p]) :
           IF i = NoCard THEN Refuse(p) /\ UNCHANGED mem
           ELSE LET c == mem[p].myCards[i]
                IN  /\ Remember(p, [mem[p] EXCEPT !.myCards = Without(@, i)])
                    /\ \E chosen \in IF IsWild(c.card) THEN ChosenColors ELSE {0} :
                         Reply(p, [type |-> "play", card |-> c.card, number |-> c.number,
                                   keys |-> c.keys, wildColor |-> ColorSent(c.card, chosen)])
    BY Zenon DEF Play
  <2>2. line[p].type = "Play"
    BY DEF Play, Asked
  <2>3. CASE i = NoCard
    BY <1>1, <2>1, <2>2, <2>3 DEF Refuse, Shape, Alone
  <2>4. CASE i # NoCard
    <3>1. i \in DOMAIN mem[p].myCards
      BY <2>4 DEF UIPlays
    <3>2. mem' = [mem EXCEPT ![p] = [mem[p] EXCEPT !.myCards = Seqs!RemoveAt(@, i)]]
      BY <2>1, <2>4 DEF Remember, Without
    <3>3. PICK wildColor : line' = [line EXCEPT ![p] =
             [type |-> "play", card |-> mem[p].myCards[i].card, number |-> mem[p].myCards[i].number,
              keys |-> mem[p].myCards[i].keys, wildColor |-> wildColor]]
      BY <2>1, <2>4 DEF Reply
    <3> QED
      BY <1>1, <2>2, <3>1, <3>2, <3>3 DEF Shape, Alone, Forgotten
  <2> QED
    BY <2>3, <2>4
<1>3. /\ UNCHANGED <<pc, deck, held, turn>>
      /\ (Place => Place') /\ (Counts => Counts')
  BY <1>2, PlayerTells
<1>4. ASSUME pc \notin Terminal, Sound, line'[p].type # "refused"
      PROVE  Sound'
  <2>1. pc \in {"Play", "PlayAgain"} /\ p = turn /\ Counts /\ Hands /\ IsSeq(mem[p].myCards)
    BY <1>1, <1>2, <1>4, AskedWhere DEF Sound, Doomed, PlayerKeys
  <2>2. PICK i \in DOMAIN mem[p].myCards :
          /\ mem'[p].myCards = Seqs!RemoveAt(mem[p].myCards, i)
          /\ line'[p].type = "play" /\ line'[p].number = mem[p].myCards[i].number
    BY <1>2, <1>4
  <2>3. PICK top : top = line'[p].number /\ top = mem[p].myCards[i].number
    BY <2>2
  <2>4. HandAgrees(p) /\ \A v : ~Coming(p, v) /\ ~Leaving(p, v)
    BY <1>2, <2>1 DEF Hands, Coming, Leaving
  <2>5. \A v : Empty(v)' <=> Empty(v)
    BY DEF Empty, Opened
  <2>6. InHand(p)' = InHand(p) \ {top} /\ NumbersDiffer(mem'[p].myCards)
    BY <2>1, <2>2, <2>3, <2>4, HandWithout DEF HandAgrees, InHand, NumbersOf
  <2>7. Holding(p)' = Holding(p) /\ top \in Holding(p)
    <3>1. top \in InHand(p)
      BY <2>3 DEF InHand, Range
    <3> QED
      BY <1>3, <2>4, <3>1 DEF HandAgrees, Holding
  <2>8. Leaving(p, top)'
    BY <1>3, <2>1, <2>2, <2>3 DEF Leaving
  <2>9. HandAgrees(p)'
    BY <1>2, <1>3, <2>4, <2>5, <2>6, <2>7, <2>8 DEF HandAgrees
  <2>10. ASSUME NEW q \in Players, q # p
         PROVE  HandAgrees(q)'
    <3>1. HandAgrees(q) /\ \A v : ~Leaving(q, v) /\ ~Coming(q, v)
      BY <2>1, <2>10 DEF Hands, Coming, Leaving
    <3>2. InHand(q)' = InHand(q) /\ Holding(q)' = Holding(q)
      BY <1>2, <1>3, <2>10 DEF Alone, InHand, Holding
    <3> QED
      BY <1>2, <1>3, <2>5, <2>10, <3>1, <3>2 DEF HandAgrees, Alone
  <2>11. Hands'
    BY <1>3, <2>1, <2>3, <2>6, <2>7, <2>9, <2>10 DEF Hands
  <2> QED
    BY <1>3, <1>4, <2>1, <2>11 DEF Sound
<1>5. line'[p].type # "idle"
  BY <1>2
<1> QED
  BY <1>2, <1>4, <1>5, StepAgrees DEF Requests
-----------------------------------------------------------------------------
\* The theorem

LEMMA InitAgrees == Init => TableInv
<1> SUFFICES ASSUME Init
             PROVE  TableInv
  OBVIOUS
<1> USE DEF Init, HandlerInit, Forgotten
<1>1. DOMAIN <<>> = {} /\ IsFiniteSet({})
  BY EmptyIsSeq, FS_EmptySet
<1>2. Resting
  BY DEF Resting, Idle
<1>3. Place /\ Counts
  BY DEF Place, Fresh, Counts, Drawing, FirstOnes, Afterwards
<1>4. \A p \in Players : HandAgrees(p)
  BY <1>1 DEF HandAgrees, NumbersDiffer, InHand, Holding, Range
<1>5. Hands
  BY <1>4 DEF Hands
<1> QED
  BY <1>1, <1>2, <1>3, <1>5 DEF TableInv, Sound, Terminal

LEMMA HostAgrees ==
  ASSUME Dealable, ProtocolInv, TableInv, Host
  PROVE  TableInv'
BY AnnounceAgrees, StartsAgree, EndsAgree, HandStartedAgrees, ReshuffleAgrees, PassOnAgrees,
   ShuffleDoneAgrees, DealAgrees, AsksAgree, AnswersAgree, KeysGivenAgrees, TurnedUpAgrees,
   CardPlayedAgrees, RefusalAgrees, Zenon DEF Host

LEMMA PlayerAgrees ==
  ASSUME ProtocolInv, TableInv, NEW p \in Players, Player(p)
  PROVE  TableInv'
BY OthersAgree, GameStartAgrees, ShuffleAgrees, GetKeyAgrees, GiveCardAgrees, PlayAgrees, Zenon
DEF Player, Handle

LEMMA StutterAgrees ==
  ASSUME TableInv, UNCHANGED vars
  PROVE  TableInv'
<1>1. UNCHANGED <<pc, deck, held, discard, turn, job, line, mem, start, work, stage, seat, event, late>>
  BY DEF vars, table, passing, wires, told
<1>2. /\ Place' <=> Place
      /\ Doomed' <=> Doomed
      /\ Counts' <=> Counts
  BY <1>1 DEF Place, Doomed, Counts, Fresh, Told1, Told2, Told3, Outdated, HeldCount, M,
     Drawing, FirstOnes, Afterwards
<1>3. \A p \in Players : InHand(p)' = InHand(p) /\ Holding(p)' = Holding(p)
  BY <1>1 DEF InHand, Holding
<1>4. \A v : Empty(v)' <=> Empty(v)
  BY DEF Empty, Opened
<1>5. \A p \in Players : \A v :
        (Coming(p, v)' <=> Coming(p, v)) /\ (Leaving(p, v)' <=> Leaving(p, v))
  BY <1>1 DEF Coming, Leaving
<1>6. \A p \in Players : (HandAgrees(p)' <=> HandAgrees(p)) /\ (KeyIsNew(p)' <=> KeyIsNew(p))
  BY <1>1, <1>3, <1>4, <1>5 DEF HandAgrees, KeyIsNew, NumbersDiffer
<1>7. Hands' <=> Hands
  <2>1. Holding(turn)' = Holding(turn) /\ InHand(turn)' = InHand(turn)
    BY <1>1 DEF InHand, Holding
  <2> QED
    BY <1>1, <1>6, <2>1 DEF Hands
<1>8. SameTables' <=> SameTables
  BY <1>1, <1>3, <1>4 DEF SameTables
<1> QED
  BY <1>1, <1>2, <1>7, <1>8 DEF TableInv, Sound, Resting, Unrefused

(* Where no request is under way the tables are the same.                  *)
LEMMA RestingAgrees == ProtocolInv /\ TableInv => TablesAgree
<1> SUFFICES ASSUME ProtocolInv, TableInv, Resting
             PROVE  SameTables
  BY DEF TablesAgree, SameTables
<1>1. CASE pc \in Terminal
  BY <1>1 DEF TableInv
<1>2. CASE pc \notin Terminal
  <2>1. Sound /\ Shape /\ WireInv
    BY <1>2 DEF TableInv, Resting, Unrefused, Idle, ProtocolInv, Live
  <2>2. pc \notin WithCards
    <3>1. PICK q \in Players : q # turn
      BY NAssumption DEF Players
    <3> QED
      BY <2>1, <3>1 DEF Shape, WireInv, ShuffleCase, KeyCase, GiveCase, PlayCase, Refusal,
                        WithCards, Resting, Idle
  <2> QED
    BY <1>2, <2>1, <2>2, SoundIsSame
<1> QED
  BY <1>1, <1>2

(* Between two requests every player's deck and hand (handler_player.go)   *)
(* are what the host has in deck.go, however many players there are, of    *)
(* whatever deck they play, and with events as late as Send lets them be,  *)
(* as long as there is a card to deal and one left to turn up.             *)
THEOREM TablesAlwaysAgree ==
  ASSUME N * HandSize \in 1..Cardinality(StartCards)-1
  PROVE  Spec => []TablesAgree
<1>1. Dealable
  BY DEF Dealable, M
<1>2. ProtocolInv /\ TableInv /\ [Next]_vars => TableInv'
  BY <1>1, HostAgrees, PlayerAgrees, ArriveAgrees, StutterAgrees DEF Next, Finished
<1> QED
  BY <1>2, InitAgrees, RestingAgrees, ProtocolInvariant, PTL DEF Spec
=============================================================================
