---------------------------- MODULE ProtocolCards ----------------------------
(***************************************************************************)
(* Proofs about where the cards of a game are: whatever order they are     *)
(* shuffled in, the deck, the hands and the discards have each card of the *)
(* start once, every card of the deck opens with its players' keys, and    *)
(* no card goes anywhere but as CardTable allows; then about how far a     *)
(* game gets and what its variables are: only one hand is ever played,     *)
(* late events are few, numbers are cards under keys that have been        *)
(* generated, and what the winner scores is a number.                      *)
(***************************************************************************)
EXTENDS ProtocolProofs, FunctionTheorems, WellFoundedInduction

Apart(s) == \A i, j \in DOMAIN s : s[i] = s[j] => i = j

\* How many cards of the start are smaller.
Rank(c) == Cardinality({d \in StartCards : d < c})
-----------------------------------------------------------------------------
\* A deck in order

(* One to one, there are as many on the one side as on the other.          *)
LEMMA OneToOne ==
  ASSUME NEW S, NEW T, IsFiniteSet(S), NEW f \in [S -> T],
         \A a, b \in S : f[a] = f[b] => a = b, \A t \in T : \E a \in S : f[a] = t
  PROVE  IsFiniteSet(T) /\ Cardinality(T) = Cardinality(S)
<1>1. f \in Bijection(S, T)
  BY Fun_IsBij
<1>2. ExistsBijection(S, T)
  BY <1>1, Fun_ExistsBij
<1> QED
  BY <1>2, FS_Bijection

LEMMA PackIsFinite ==
  IsFiniteSet(StartCards) /\ M \in Nat /\ StartCards \subseteq 0..107
<1>1. IsFiniteSet(Deck108)
  BY FS_Interval, 0 \in Int, 107 \in Int DEF Deck108
<1>2. IsFiniteSet(StartCards)
  BY <1>1, CardsAssumption, FS_Subset
<1> QED
  BY <1>2, CardsAssumption, FS_CardinalityType DEF M, Deck108

(* Every card has a rank of its own, one below that of the next.           *)
LEMMA Ranks ==
  /\ \A c \in StartCards : Rank(c) \in 0..M-1 /\ Rank(c + 1) = Rank(c) + 1
  /\ \A c, d \in StartCards : Rank(c) = Rank(d) => c = d
<1> DEFINE Under(c) == {d \in StartCards : d < c}
<1>0. \A c : Rank(c) = Cardinality(Under(c)) /\ Under(c) \in SUBSET StartCards
  BY DEF Rank
<1>1. \A c : IsFiniteSet(Under(c)) /\ Rank(c) \in Nat /\ Rank(c) <= M
  <2> HIDE DEF Under
  <2> QED
    BY <1>0, PackIsFinite, FS_Subset, FS_CardinalityType DEF M
<1>2. ASSUME NEW c \in StartCards
      PROVE  Rank(c) \in 0..M-1 /\ Rank(c + 1) = Rank(c) + 1
  <2>1. c \in Int /\ c \notin Under(c)
    BY PackIsFinite
  <2>2. Under(c) # StartCards
    BY <2>1
  <2>3. Rank(c) # M
    <3> HIDE DEF Under
    <3> QED
      BY <1>0, <2>2, PackIsFinite, FS_Subset DEF M
  <2>4. Under(c + 1) = Under(c) \cup {c}
    <3>1. \A d \in StartCards : d < c + 1 <=> d < c \/ d = c
      BY PackIsFinite
    <3> QED
      BY <3>1
  <2>5. Rank(c + 1) = Rank(c) + 1
    <3> HIDE DEF Under
    <3> QED
      BY <1>0, <1>1, <2>1, <2>4, FS_AddElement
  <2> HIDE DEF Under
  <2> QED
    BY <1>1, <2>3, <2>5, PackIsFinite
<1>3. ASSUME NEW c \in StartCards, NEW d \in StartCards, c < d
      PROVE  Rank(c) # Rank(d)
  <2>0. {c, d} \subseteq Int /\ \A e \in StartCards : e \in Int
    BY PackIsFinite
  <2>1. Under(c) \in SUBSET Under(d) /\ c \in Under(d) /\ c \notin Under(c)
    <3>1. \A e \in StartCards : e < c => e < d
      BY <1>3, <2>0
    <3>2. c < d /\ ~(c < c)
      BY <1>3, <2>0
    <3> QED
      BY <3>1, <3>2
  <2>2. Under(c) # Under(d)
    BY <2>1
  <2> HIDE DEF Under
  <2> QED
    BY <1>0, <1>1, <2>1, <2>2, FS_Subset
<1>4. \A c, d \in StartCards : c = d \/ c < d \/ d < c
  BY PackIsFinite
<1> QED
  BY <1>2, <1>3, <1>4

(* Each number below that of the cards is the rank of one.                 *)
LEMMA EveryRank == \A i \in 1..M : \E c \in StartCards : Rank(c) = i - 1
<1> DEFINE f == [c \in StartCards |-> Rank(c)]
<1>1. f \in [StartCards -> 0..M-1] /\ \A c, d \in StartCards : f[c] = f[d] => c = d
  BY Ranks
<1>2. f \in Injection(StartCards, 0..M-1)
  <2> HIDE DEF f
  <2> QED
    BY <1>1, Fun_IsInj
<1>3. IsFiniteSet(0..M-1) /\ Cardinality(0..M-1) = M
  <2>1. 0 \in Int /\ M - 1 \in Int /\ M \in Nat
    BY PackIsFinite
  <2>2. IsFiniteSet(0..M-1) /\ Cardinality(0..M-1) = IF 0 > M - 1 THEN 0 ELSE (M - 1) - 0 + 1
    BY <2>1, FS_Interval
  <2> QED
    BY <2>1, <2>2
<1>4. f \in Surjection(StartCards, 0..M-1)
  <2> HIDE DEF f
  <2> QED
    BY <1>2, <1>3, FS_Injection DEF M
<1>5. \A n \in 0..M-1 : \E c \in StartCards : f[c] = n
  <2> HIDE DEF f
  <2> QED
    BY <1>4, Fun_SurjectionProperties
<1>6. \A i \in 1..M : i - 1 \in 0..M-1
  BY PackIsFinite
<1> QED
  BY <1>5, <1>6

(* A full deck has every card of the start once.                           *)
LEMMA FullDeckInOrder ==
  /\ DOMAIN FullDeck = 1..M
  /\ FullDeck = [i \in 1..M |-> CHOOSE c \in StartCards : Rank(c) = i - 1]
  /\ Apart(FullDeck) /\ Range(FullDeck) = StartCards
<1> DEFINE nth(i) == CHOOSE c \in StartCards : Rank(c) = i - 1
<1>1. FullDeck = [i \in 1..M |-> nth(i)]
  BY DEF FullDeck, Rank, M
<1>2. \A i \in 1..M : nth(i) \in StartCards /\ Rank(nth(i)) = i - 1
  BY EveryRank
<1> HIDE DEF nth
<1>3. Apart(FullDeck)
  BY <1>1, <1>2, PackIsFinite DEF Apart
<1>4. ASSUME NEW c \in StartCards
      PROVE  \E i \in 1..M : nth(i) = c
  <2>1. Rank(c) + 1 \in 1..M /\ (Rank(c) + 1) - 1 = Rank(c)
    BY Ranks, PackIsFinite
  <2>2. nth(Rank(c) + 1) = c
    BY <1>2, <2>1, Ranks
  <2> QED
    BY <2>1, <2>2
<1>5. Range(FullDeck) = StartCards
  BY <1>1, <1>2, <1>4 DEF Range
<1> QED
  BY <1>1, <1>3, <1>5 DEF nth

(* In order, the cards of the start are a full deck.                       *)
LEMMA SortedIsFullDeck ==
  ASSUME NEW s, IsSeq(s), Apart(s), Range(s) = StartCards
  PROVE  Sorted(s) = FullDeck
<1> DEFINE Smaller(c) == Cardinality({j \in DOMAIN s : s[j] < c})
<1>1. DOMAIN s = 1..Len(s) /\ Len(s) \in Nat /\ s \in [DOMAIN s -> StartCards]
      /\ (\A c \in StartCards : \E j \in DOMAIN s : s[j] = c)
  BY SeqFacts DEF Range
<1>2. IsFiniteSet(DOMAIN s) /\ Cardinality(DOMAIN s) = Len(s)
  <2>1. 1 \in Int /\ Len(s) \in Int
    BY <1>1
  <2>2. IsFiniteSet(1..Len(s)) /\ Cardinality(1..Len(s)) = IF 1 > Len(s) THEN 0 ELSE Len(s) - 1 + 1
    BY <2>1, FS_Interval
  <2> QED
    BY <1>1, <2>2
<1>3. Len(s) = M
  BY <1>1, <1>2, OneToOne DEF Apart, M
<1>4. ASSUME NEW c
      PROVE  Smaller(c) = Rank(c)
  <2> DEFINE S == {j \in DOMAIN s : s[j] < c}
             T == {d \in StartCards : d < c}
             f == [j \in S |-> s[j]]
  <2>1. IsFiniteSet(S)
    BY <1>2, FS_Subset
  <2>2. f \in [S -> T] /\ (\A a, b \in S : f[a] = f[b] => a = b)
        /\ (\A t \in T : \E a \in S : f[a] = t)
    BY <1>1 DEF Apart
  <2>3. Cardinality(T) = Cardinality(S)
    <3> HIDE DEF S, T, f
    <3> QED
      BY <2>1, <2>2, OneToOne
  <2> QED
    BY <2>3 DEF Rank
<1> DEFINE Old(i, c) == Smaller(c) < i /\ i <= Smaller(c + 1)
           New(i, c) == Rank(c) = i - 1
<1>5. \A i \in 1..M : \A c \in StartCards : Old(i, c) <=> New(i, c)
  <2> HIDE DEF Smaller
  <2>1. \A c \in StartCards : Rank(c) \in Nat /\ Rank(c + 1) = Rank(c) + 1
    BY Ranks, PackIsFinite
  <2> QED
    BY <1>4, <2>1
<1>6. Sorted(s) = [i \in 1..M |-> CHOOSE c \in StartCards : Old(i, c)]
  BY <1>1, <1>3 DEF Sorted
<1>7. FullDeck = [i \in 1..M |-> CHOOSE c \in StartCards : New(i, c)]
  BY FullDeckInOrder
<1>8. ASSUME NEW i \in 1..M
      PROVE  (CHOOSE c \in StartCards : Old(i, c)) = (CHOOSE c \in StartCards : New(i, c))
  <2>1. \A c \in StartCards : Old(i, c) <=> New(i, c)
    BY <1>5
  <2> HIDE DEF Old, New
  <2> QED
    BY <2>1
<1> HIDE DEF Old, New
<1> QED
  BY <1>6, <1>7, <1>8

\* A number of the game; nothing locks 0 and 1.
Proper(v) == IsNumber(v) /\ v.card \in StartCards /\ (~Hidden(v) => v.powers = {})

\* A key of every player fits the number.
AllFit(v, keys) == \A q \in Players : Fits(q, v, keys[q])
-----------------------------------------------------------------------------
\* Opening a number

\* What is left of a number by the keys of a set of players, given what g is
\* for smaller sets.
Unlocked(g, v, keys, s) ==
  IF s = {} THEN v ELSE LET q == CHOOSE q \in s : TRUE IN DecryptInt(keys[q], g[s \ {q}])

LEMMA PlayersAreFinite == IsFiniteSet(Players) /\ Cardinality(Players) = N
<1>1. 0 \in Int /\ N - 1 \in Int /\ N \in Nat /\ N >= 2
  BY NAssumption
<1>2. IsFiniteSet(0..N-1) /\ Cardinality(0..N-1) = IF 0 > N - 1 THEN 0 ELSE (N - 1) - 0 + 1
  BY <1>1, FS_Interval
<1> QED
  BY <1>1, <1>2 DEF Players

(* Of some sets of players one has none of the others in it.               *)
LEMMA FewestPlayers ==
  ASSUME NEW Bad, Bad \subseteq SUBSET Players, Bad # {}
  PROVE  \E s \in Bad : \A t \in Bad : t \subseteq s => t = s
<1>1. FiniteSubsetsOf(Players) = SUBSET Players
  BY PlayersAreFinite, FS_FiniteSubsetsOfFinite
<1>2. \E s \in Bad : \A t \in Bad : ~(<<t, s>> \in StrictSubsetOrdering(Players))
  BY <1>1, FS_StrictSubsetOrderingWellFounded, WFMin
<1>3. \A s, t \in SUBSET Players :
         <<t, s>> \in StrictSubsetOrdering(Players) <=> t \subseteq s /\ t # s
  BY DEF StrictSubsetOrdering
<1> QED
  BY <1>2, <1>3

(* What decryptCard computes solves that recursion over sets of players,   *)
(* if anything does; and all that solves it is the same.                   *)
LEMMA DecryptedIsThat ==
  ASSUME NEW v, NEW keys, NEW g,
         \A s \in SUBSET Players : g[s] = Unlocked(g, v, keys, s)
  PROVE  Decrypted(v, keys) = g[Players]
<1> DEFINE part == [s \in SUBSET Players |-> g[s]]
           Sol(f) == f = [s \in SUBSET Players |-> Unlocked(f, v, keys, s)]
           h == CHOOSE f : Sol(f)
<1>0. ASSUME NEW s \in SUBSET Players, s # {}
      PROVE  LET q == CHOOSE q \in s : TRUE IN q \in s /\ s \ {q} \in SUBSET Players
  BY <1>0
<1>1. Sol(part)
  <2>1. ASSUME NEW s \in SUBSET Players
        PROVE  Unlocked(part, v, keys, s) = g[s]
    <3>1. CASE s = {}
      BY <3>1 DEF Unlocked
    <3>2. CASE s # {}
      <4> DEFINE q == CHOOSE q \in s : TRUE
      <4>1. part[s \ {q}] = g[s \ {q}]
        BY <1>0, <3>2
      <4>2. /\ Unlocked(part, v, keys, s) = DecryptInt(keys[q], part[s \ {q}])
            /\ Unlocked(g, v, keys, s) = DecryptInt(keys[q], g[s \ {q}])
        BY <3>2 DEF Unlocked
      <4> HIDE DEF q, part
      <4> QED
        BY <4>1, <4>2
    <3> QED
      BY <3>1, <3>2
  <2> QED
    BY <2>1
<1>2. Sol(h)
  <2> HIDE DEF Sol
  <2> QED
    BY <1>1
<1>3. Decrypted(v, keys) = h[Players]
  BY DEF Decrypted, FoldSet, MapThenFoldSet, Unlocked
<1>4. \A s \in SUBSET Players : h[s] = Unlocked(h, v, keys, s)
  <2> HIDE DEF h
  <2> QED
    BY <1>2
<1>5. \A s \in SUBSET Players : h[s] = g[s]
  <2> HIDE DEF h
  <2> DEFINE Bad == {s \in SUBSET Players : h[s] # g[s]}
  <2> SUFFICES ASSUME Bad # {} PROVE FALSE
    OBVIOUS
  <2>0. Bad \subseteq SUBSET Players
    OBVIOUS
  <2>1. PICK s \in Bad : \A t \in Bad : t \subseteq s => t = s
    <3> HIDE DEF Bad
    <3> QED
      BY <2>0, FewestPlayers
  <2>2. CASE s = {}
    BY <2>2, <1>4 DEF Unlocked
  <2>3. CASE s # {}
    <3> DEFINE q == CHOOSE q \in s : TRUE
    <3>1. s \in SUBSET Players /\ h[s] # g[s]
      OBVIOUS
    <3>2. q \in s /\ s \ {q} \subseteq s /\ s \ {q} # s /\ s \ {q} \in SUBSET Players
      BY <2>3, <3>1
    <3>3. h[s \ {q}] = g[s \ {q}]
      BY <2>1, <3>2
    <3>4. g[s] = DecryptInt(keys[q], g[s \ {q}]) /\ h[s] = DecryptInt(keys[q], h[s \ {q}])
      BY <2>3, <3>1, <1>4 DEF Unlocked
    <3> HIDE DEF q
    <3> QED
      BY <3>1, <3>3, <3>4
  <2> QED
    BY <2>2, <2>3
<1> HIDE DEF h
<1> QED
  BY <1>3, <1>5

(* With a key of every player that fits a number is opened.                *)
LEMMA AllOpen ==
  ASSUME NEW v, Proper(v), NEW keys, AllFit(v, keys)
  PROVE  Decrypted(v, keys) = Plain(v.card)
<1> DEFINE left(s) == IF Hidden(v) THEN {<<keys[q], 1>> : q \in Players \ s} ELSE {}
           g == [s \in SUBSET Players |-> [card |-> v.card, powers |-> left(s)]]
<1>1. \E k, i : \A q \in Players : Hidden(v) => keys[q] = <<q, k, i>> /\ v.powers = LockedBy(k, i)
  <2>1. 0 \in Players
    BY NAssumption DEF Players
  <2>2. CASE Hidden(v)
    <3>1. PICK k \in Nat, i \in Indices : keys[0] = <<0, k, i>> /\ v.powers = LockedBy(k, i)
      BY <2>1, <2>2 DEF AllFit, Fits
    <3>2. ASSUME NEW q \in Players
          PROVE  keys[q] = <<q, k, i>>
      <4>1. PICK l \in Nat, j \in Indices : keys[q] = <<q, l, j>> /\ v.powers = LockedBy(l, j)
        BY <2>2 DEF AllFit, Fits
      <4> QED
        BY <3>1, <4>1, LocksDiffer
    <3> QED
      BY <3>1, <3>2
  <2> QED
    BY <2>2
<1>2. PICK k, i :
        \A q \in Players : Hidden(v) => keys[q] = <<q, k, i>> /\ v.powers = LockedBy(k, i)
  BY <1>1
<1>3. g[{}] = v
  <2>1. left({}) = v.powers
    <3>1. CASE Hidden(v)
      <4>1. \A q \in Players : keys[q] = <<q, k, i>> /\ v.powers = LockedBy(k, i)
        BY <1>2, <3>1
      <4>2. {<<keys[q], 1>> : q \in Players} = {<<<<q, k, i>>, 1>> : q \in Players}
        BY <4>1
      <4>3. 0 \in Players
        BY NAssumption DEF Players
      <4> QED
        BY <3>1, <4>1, <4>2, <4>3 DEF LockedBy
    <3> QED
      BY <3>1 DEF Proper
  <2> QED
    BY <2>1 DEF Proper, IsNumber
<1>4. ASSUME NEW s \in SUBSET Players, NEW q \in s
      PROVE  DecryptInt(keys[q], g[s \ {q}]) = g[s]
  <2>0. g[s \ {q}] = [card |-> v.card, powers |-> left(s \ {q})] /\ g[s] = [card |-> v.card, powers |-> left(s)]
    OBVIOUS
  <2>1. CASE ~Hidden(v)
    <3>1. left(s \ {q}) = {} /\ left(s) = {} /\ v.card \in Fixed
      BY <2>1 DEF Hidden
    <3> HIDE DEF left, g
    <3> QED
      BY <2>0, <3>1 DEF DecryptInt, Exp
  <2>2. CASE Hidden(v)
    <3>1. \A r \in Players : keys[r] = <<r, k, i>>
      BY <1>2, <2>2
    <3>2. \A r \in Players : r # q => keys[r] # keys[q]
      BY <3>1
    <3>3. left(s \ {q}) = left(s) \cup {<<keys[q], 1>>}
      BY <2>2
    <3>4. <<keys[q], 1>> \notin left(s)
      BY <2>2, <3>2
    <3> DEFINE d == DecryptInt(keys[q], g[s \ {q}])
    <3>5. /\ IsNumber(g[s \ {q}]) /\ Hidden(g[s \ {q}])
          /\ <<keys[q], 1>> \in g[s \ {q}].powers
      <4> HIDE DEF left
      <4> QED
        BY <2>0, <2>2, <3>3 DEF IsNumber, Hidden
    <3> HIDE DEF left, g
    <3>6. /\ IsNumber(d) /\ d.card = v.card
          /\ d.powers = left(s \ {q}) \ {<<keys[q], 1>>}
      BY <2>0, <3>5, Decrypts
    <3>7. left(s \ {q}) \ {<<keys[q], 1>>} = left(s)
      BY <3>3, <3>4
    <3> QED
      BY <2>0, <3>6, <3>7 DEF IsNumber
  <2> QED
    BY <2>1, <2>2
<1>5. \A s \in SUBSET Players : g[s] = Unlocked(g, v, keys, s)
  <2> SUFFICES ASSUME NEW s \in SUBSET Players
               PROVE  g[s] = Unlocked(g, v, keys, s)
    OBVIOUS
  <2> HIDE DEF g
  <2>1. CASE s = {}
    BY <1>3, <2>1 DEF Unlocked
  <2>2. CASE s # {}
    <3> DEFINE q == CHOOSE q \in s : TRUE
    <3>1. q \in s
      BY <2>2
    <3>2. Unlocked(g, v, keys, s) = DecryptInt(keys[q], g[s \ {q}])
      BY <2>2 DEF Unlocked
    <3> HIDE DEF q
    <3> QED
      BY <3>1, <3>2, <1>4
  <2> QED
    BY <2>1, <2>2
<1>6. Decrypted(v, keys) = g[Players]
  <2> HIDE DEF g
  <2> QED
    BY <1>5, DecryptedIsThat
<1>7. left(Players) = {}
  OBVIOUS
<1> QED
  BY <1>6, <1>7 DEF Plain

FacesOf(s) == [i \in DOMAIN s |-> s[i].card]
-----------------------------------------------------------------------------
\* Sequences without repetition

LEMMA FacesAreSeq ==
  ASSUME NEW s, IsSeq(s)
  PROVE  IsSeq(FacesOf(s)) /\ DOMAIN FacesOf(s) = DOMAIN s
<1>1. DOMAIN s = 1..Len(s) /\ Len(s) \in Nat
  BY SeqFacts
<1>2. FacesOf(s) = [i \in 1..Len(s) |-> s[i].card]
  BY <1>1 DEF FacesOf
<1> QED
  BY <1>1, <1>2, OnInterval

LEMMA ApartInOne ==
  ASSUME NEW s, NEW i \in DOMAIN s, NEW j \in DOMAIN s, Apart(s), s[i] = s[j]
  PROVE  i = j
BY DEF Apart

(* One after the other.                                                    *)
LEMMA Joined ==
  ASSUME NEW s, IsSeq(s), NEW t, IsSeq(t)
  PROVE  /\ IsSeq(s \o t) /\ Range(s \o t) = Range(s) \cup Range(t)
         /\ Apart(s) /\ Apart(t) /\ Range(s) \cap Range(t) = {} => Apart(s \o t)
<1> DEFINE S == Range(s) \cup Range(t)
           u == s \o t
<1>1. /\ s \in Seq(S) /\ t \in Seq(S) /\ Len(s) \in Nat /\ Len(t) \in Nat
      /\ DOMAIN s = 1..Len(s) /\ DOMAIN t = 1..Len(t)
  BY SeqFacts, SeqMonotonic DEF IsSeq
<1>2. /\ u \in Seq(S) /\ Len(u) = Len(s) + Len(t)
      /\ \A i \in 1..Len(s) + Len(t) : u[i] = IF i <= Len(s) THEN s[i] ELSE t[i - Len(s)]
  <2> HIDE DEF S
  <2> QED
    BY <1>1, ConcatProperties
<1> HIDE DEF S, u
<1>3. IsSeq(u) /\ DOMAIN u = 1..Len(s) + Len(t)
  BY <1>1, <1>2, SeqOfRange, LenProperties DEF IsSeq
<1>4. \A i \in DOMAIN u :
        \/ i \in DOMAIN s /\ u[i] = s[i]
        \/ i - Len(s) \in DOMAIN t /\ u[i] = t[i - Len(s)] /\ i \notin DOMAIN s
  BY <1>1, <1>2, <1>3
<1>5. /\ \A i \in DOMAIN s : i \in DOMAIN u /\ u[i] = s[i]
      /\ \A j \in DOMAIN t : Len(s) + j \in DOMAIN u /\ u[Len(s) + j] = t[j]
  <2>1. \A j \in DOMAIN t : (Len(s) + j) - Len(s) = j /\ ~(Len(s) + j <= Len(s))
                            /\ Len(s) + j \in 1..Len(s) + Len(t)
    BY <1>1
  <2> QED
    BY <1>1, <1>2, <1>3, <2>1
<1>6. Range(u) = Range(s) \cup Range(t)
  <2>1. Range(u) \subseteq Range(s) \cup Range(t)
    BY <1>4 DEF Range
  <2>2. Range(s) \subseteq Range(u) /\ Range(t) \subseteq Range(u)
    BY <1>5 DEF Range
  <2> QED
    BY <2>1, <2>2
<1>7. ASSUME Apart(s), Apart(t), Range(s) \cap Range(t) = {}
      PROVE  Apart(u)
  <2> SUFFICES ASSUME NEW i \in DOMAIN u, NEW j \in DOMAIN u, u[i] = u[j]
               PROVE  i = j
    BY DEF Apart
  <2>1. \A a \in DOMAIN s, b \in DOMAIN t : s[a] # t[b]
    BY <1>7 DEF Range
  <2>2. CASE i \in DOMAIN s /\ j \in DOMAIN s
    BY <1>7, <2>2, <1>5, ApartInOne
  <2>3. CASE i \notin DOMAIN s /\ j \notin DOMAIN s
    <3>1. i - Len(s) = j - Len(s)
      BY <1>4, <1>7, <2>3, ApartInOne
    <3> QED
      BY <1>1, <1>3, <3>1
  <2> QED
    BY <1>4, <2>1, <2>2, <2>3
<1> QED
  BY <1>3, <1>6, <1>7 DEF u

(* An order of finitely many things has each of them once.                 *)
LEMMA OrdersApart ==
  ASSUME NEW S, IsFiniteSet(S), NEW s \in Seqs!SetToSeqs(S)
  PROVE  IsSeq(s) /\ Apart(s) /\ Range(s) = S
<1>1. Cardinality(S) \in Nat /\ Seqs!Cardinality(S) = Cardinality(S)
  BY FS_CardinalityType DEF Seqs!Cardinality, Cardinality
<1> DEFINE D == 1..Cardinality(S)
<1>2. s \in [D -> S] /\ \A i, j \in D : i # j => s[i] # s[j]
  BY <1>1 DEF Seqs!SetToSeqs
<1>3. s \in Injection(D, S)
  <2> HIDE DEF D
  <2> QED
    BY <1>2, Fun_IsInj
<1>4. Cardinality(D) = Cardinality(S)
  <2>1. 1 \in Int /\ Cardinality(S) \in Int
    BY <1>1
  <2>2. Cardinality(D) = IF 1 > Cardinality(S) THEN 0 ELSE Cardinality(S) - 1 + 1
    BY <2>1, FS_Interval
  <2> QED
    BY <1>1, <2>2
<1>5. s \in Surjection(D, S)
  <2> HIDE DEF D
  <2> QED
    BY <1>3, <1>4, FS_Injection
<1>6. Range(s) = S
  <2> HIDE DEF D
  <2> QED
    BY <1>2, <1>5, Fun_SurjectionProperties
<1>7. Apart(s)
  BY <1>2 DEF Apart
<1> QED
  BY <1>6, <1>7, Orders

(* So does the one that is chosen.                                         *)
LEMMA ChosenOrder ==
  ASSUME NEW S, IsFiniteSet(S)
  PROVE  IsSeq(Seqs!SetToSeq(S)) /\ Apart(Seqs!SetToSeq(S)) /\ Range(Seqs!SetToSeq(S)) = S
<1>1. Cardinality(S) \in Nat /\ Seqs!Cardinality(S) = Cardinality(S)
  BY FS_CardinalityType DEF Seqs!Cardinality, Cardinality
<1> DEFINE D == 1..Cardinality(S)
           Good(f) == f \in [D -> S] /\ Seqs!IsInjective(f)
           one == CHOOSE f : Good(f)
<1>2. \E f : Good(f)
  <2>1. Bijection(D, S) # {}
    BY FS_CardinalityType, Fun_ExistsBij
  <2>2. PICK f : f \in Bijection(D, S)
    BY <2>1
  <2>3. f \in [D -> S] /\ \A a, b \in D : f[a] = f[b] => a = b
    <3> HIDE DEF D
    <3> QED
      BY <2>2, Fun_BijectionProperties
  <2> QED
    BY <2>3 DEF Seqs!IsInjective
<1>3. Good(one)
  <2> HIDE DEF Good
  <2> QED
    BY <1>2
<1>4. Seqs!SetToSeq(S) = CHOOSE f \in [D -> S] : Seqs!IsInjective(f)
  BY <1>1 DEF Seqs!SetToSeq
<1>5. Seqs!SetToSeq(S) = one
  BY <1>4
<1>6. one \in [D -> S] /\ \A i, j \in D : i # j => one[i] # one[j]
  <2> HIDE DEF one
  <2> QED
    BY <1>3 DEF Seqs!IsInjective
<1>7. one \in Seqs!SetToSeqs(S)
  <2> HIDE DEF one
  <2> QED
    BY <1>1, <1>6 DEF Seqs!SetToSeqs
<1> HIDE DEF one
<1> QED
  BY <1>5, <1>7, OrdersApart

(* The last of a sequence without repetition is not before.                *)
LEMMA LastApart ==
  ASSUME NEW s, IsSeq(s), s # <<>>, Apart(s)
  PROVE  LET f == Seqs!Front(s) e == Seqs!Last(s)
         IN  IsSeq(f) /\ Apart(f) /\ e \in Range(s) /\ Range(f) = Range(s) \ {e}
<1> DEFINE f == Seqs!Front(s) e == Seqs!Last(s) n == Len(s)
<1>1. /\ IsSeq(f) /\ n \in Nat \ {0} /\ Len(f) = n - 1 /\ e = s[n]
      /\ \A j \in 1..n-1 : f[j] = s[j]
  BY FrontAndLast
<1>2. DOMAIN s = 1..n /\ DOMAIN f = 1..n-1 /\ n \in DOMAIN s
  BY <1>1, SeqFacts
<1> HIDE DEF f, e, n
<1>3. \A j \in DOMAIN f : j \in DOMAIN s /\ j # n /\ f[j] = s[j]
  BY <1>1, <1>2
<1>4. \A j \in DOMAIN s : j = n \/ j \in DOMAIN f
  BY <1>1, <1>2
<1>5. Apart(f)
  BY <1>3 DEF Apart
<1>6. Range(f) = Range(s) \ {e}
  BY <1>1, <1>2, <1>3, <1>4 DEF Apart, Range
<1>7. e \in Range(s)
  BY <1>1, <1>2 DEF Range
<1> QED
  BY <1>1, <1>5, <1>6, <1>7 DEF f, e

(* One more that was not there.                                            *)
LEMMA AppendApart ==
  ASSUME NEW s, IsSeq(s), NEW e
  PROVE  LET t == Append(s, e)
         IN  /\ IsSeq(t) /\ Range(t) = Range(s) \cup {e} /\ t # <<>>
             /\ Seqs!Front(t) = s /\ Seqs!Last(t) = e
             /\ Apart(s) /\ e \notin Range(s) => Apart(t)
<1> DEFINE t == Append(s, e) S == Range(s) \cup {e}
<1>0. IsSeq(t)
  BY Appended
<1>1. s \in Seq(S) /\ e \in S
  BY SeqMonotonic DEF IsSeq
<1>2. /\ Len(t) = Len(s) + 1 /\ \A i \in 1..Len(s) : t[i] = s[i]
      /\ t[Len(s) + 1] = e
  <2> HIDE DEF S
  <2> QED
    BY <1>1, AppendProperties
<1>3. Len(s) \in Nat /\ DOMAIN s = 1..Len(s) /\ DOMAIN t = 1..Len(s) + 1 /\ t # <<>>
  BY <1>0, <1>2, SeqFacts
<1> HIDE DEF t, S
<1>4. \A i \in DOMAIN t : (i \in DOMAIN s /\ t[i] = s[i]) \/ (i = Len(s) + 1 /\ t[i] = e)
  BY <1>2, <1>3
<1>5. \A i \in DOMAIN s : i \in DOMAIN t /\ t[i] = s[i]
  BY <1>2, <1>3
<1>6. Len(s) + 1 \in DOMAIN t
  BY <1>3
<1>7. Range(t) = Range(s) \cup {e}
  BY <1>2, <1>4, <1>5, <1>6 DEF Range
<1>8. Apart(s) /\ e \notin Range(s) => Apart(t)
  <2>1. \A i \in DOMAIN s : s[i] \in Range(s)
    BY DEF Range
  <2> QED
    BY <1>4, <2>1 DEF Apart
<1>9. Seqs!Front(t) = s
  <2>1. /\ IsSeq(Seqs!Front(t)) /\ Len(Seqs!Front(t)) = Len(t) - 1
        /\ \A j \in 1..Len(t)-1 : Seqs!Front(t)[j] = t[j]
    BY <1>0, <1>3, FrontAndLast
  <2>2. DOMAIN Seqs!Front(t) = 1..Len(s)
    BY <1>2, <1>3, <2>1, SeqFacts
  <2>3. Seqs!Front(t) = [i \in 1..Len(s) |-> Seqs!Front(t)[i]] /\ s = [i \in 1..Len(s) |-> s[i]]
    BY <1>3, <2>1, <2>2, SeqFacts
  <2>4. \A i \in 1..Len(s) : Seqs!Front(t)[i] = s[i]
    BY <1>2, <1>3, <2>1
  <2> QED
    BY <2>3, <2>4
<1>10. Seqs!Last(t) = e
  BY <1>0, <1>2, <1>3, FrontAndLast
<1> QED
  BY <1>0, <1>3, <1>7, <1>8, <1>9, <1>10 DEF t

\* What is dealt are numbers that the players have keys for.
Opening ==
  /\ \A i \in DOMAIN work : Proper(work[i])
  /\ pc = "Shuffle" /\ line[seat].type = "cards" =>
       \A i \in DOMAIN line[seat].cards : Proper(line[seat].cards[i])
  /\ \A v \in DOMAIN held : Proper(v)
  /\ \A v \in DOMAIN held : \A q \in Players \ {held[v]} : seen[v][q] # NoKey
  /\ \A p \in Players :
       IsSeq(mem[p].deck) /\ Range(mem[p].deck) \subseteq DOMAIN mem[p].cardPairs

HeldFaces == {v.card : v \in DOMAIN held}
HeldApart == \A v, w \in DOMAIN held : v.card = w.card => v = w

\* Three sets have the cards of the start between them, each in one.
Parted(A, B, C) ==
  /\ A \cup B \cup C = StartCards
  /\ A \cap B = {} /\ A \cap C = {} /\ B \cap C = {}

\* Every card of the start is in the deck, in one hand or among the discards.
Split ==
  /\ Apart(discard) /\ HeldApart /\ Apart(FacesOf(deck))
  /\ Parted(Range(FacesOf(deck)), HeldFaces, Range(discard))

\* These are the cards that are to be shuffled.
ToBeShuffled(s) == Apart(FacesOf(s)) /\ Range(FacesOf(s)) = Range(start)

Shuffled ==
  /\ Apart(discard) /\ HeldApart
  /\ ToBeShuffled(work)
  /\ line[seat].type = "cards" => ToBeShuffled(line[seat].cards)
  /\ Parted(Range(start), HeldFaces, Range(AfterReshuffle(discard)))

Dealt == pc \notin {"Start", "GameStart", "HandStart", "Shuffle"} /\ hand # 0

CardInv ==
  /\ Opening
  /\ Dealt => Split
  /\ pc = "Shuffle" => Shuffled
  /\ hand \in Nat /\ (hand = 0 => pc \in {"Start", "GameStart", "NewHand"})
  /\ pc \in {"Start", "GameStart"} => hand = 0
  /\ pc \in {"GameStart", "HandStart"} => \A p \in Players : line[p] # Idle

CardsInv ==
  /\ pc \in Terminal => DeckOpens
  /\ pc \notin Terminal /\ Unrefused => Doomed \/ CardInv

-----------------------------------------------------------------------------
\* The cards

(* The deck is the start of the last working set.                          *)
LEMMA DeckIsProper ==
  ASSUME Shape, HostKeys, Opening
  PROVE  IsSeq(deck) /\ \A i \in DOMAIN deck : Proper(deck[i])
<1>1. DOMAIN deck = 1..Len(deck) /\ DOMAIN work = 1..Len(work) /\ Len(deck) \in Nat /\ Len(work) \in Nat
  BY SeqFacts DEF Shape
<1>2. \A i \in DOMAIN deck : i \in DOMAIN work /\ deck[i] = work[i]
  BY <1>1 DEF HostKeys
<1> QED
  BY <1>2 DEF Shape, Opening

\* The deck opens, and with the hands and the discards it is a full one.
OpenDeck ==
  /\ \A i \in DOMAIN deck :
       /\ \A p \in Players : deck[i] \in DOMAIN mem[p].cardPairs
       /\ Opened(Decrypted(deck[i], [p \in Players |-> mem[p].cardPairs[deck[i]]]))
  /\ LET out == Seqs!SetToSeq({v.card : v \in DOMAIN held})
     IN  Sorted(discard \o out \o [i \in DOMAIN deck |-> deck[i].card]) = FullDeck

LEMMA DeckOfAll ==
  ASSUME IsSeq(deck), IsSeq(discard), Split
  PROVE  LET out == Seqs!SetToSeq({v.card : v \in DOMAIN held})
         IN  Sorted(discard \o out \o [i \in DOMAIN deck |-> deck[i].card]) = FullDeck
<1> DEFINE out == Seqs!SetToSeq(HeldFaces)
           faces == FacesOf(deck)
<1>1. IsSeq(faces) /\ Apart(faces) /\ Apart(discard) /\ Parted(Range(faces), HeldFaces, Range(discard))
  BY FacesAreSeq DEF Split
<1>2. IsSeq(out) /\ Apart(out) /\ Range(out) = HeldFaces
  <2>1. IsFiniteSet(HeldFaces)
    BY <1>1, PackIsFinite, FS_Subset DEF Parted
  <2> QED
    BY <2>1, ChosenOrder
<1> HIDE DEF out, faces
<1>3. /\ IsSeq(discard \o out) /\ Range(discard \o out) = Range(discard) \cup HeldFaces
      /\ Apart(discard \o out)
  BY <1>1, <1>2, Joined DEF Parted
<1>4. /\ IsSeq(discard \o out \o faces) /\ Apart(discard \o out \o faces)
      /\ Range(discard \o out \o faces) = StartCards
  BY <1>1, <1>2, <1>3, Joined DEF Parted
<1>5. Sorted(discard \o out \o faces) = FullDeck
  BY <1>4, SortedIsFullDeck
<1> QED
  BY <1>5 DEF out, faces, HeldFaces, FacesOf

(* Where nobody is asked for cards the deck opens.                         *)
LEMMA DeckIsOpen ==
  ASSUME ProtocolInv, TableInv, CardInv, pc \notin Terminal \cup WithCards, Unrefused, Dealt
  PROVE  OpenDeck
<1>1. Shape /\ HostKeys /\ PlayerKeys /\ SameTables /\ Opening /\ Split
  <2>1. Sound
    BY DEF TableInv
  <2> QED
    BY <2>1, SoundIsSame DEF ProtocolInv, Live, CardInv
<1>2. IsSeq(deck) /\ (\A i \in DOMAIN deck : Proper(deck[i])) /\ IsSeq(discard)
  BY <1>1, DeckIsProper DEF Shape
<1>3. ASSUME NEW i \in DOMAIN deck
      PROVE  /\ \A p \in Players : deck[i] \in DOMAIN mem[p].cardPairs
             /\ Opened(Decrypted(deck[i], [p \in Players |-> mem[p].cardPairs[deck[i]]]))
  <2>1. \A p \in Players : deck[i] \in DOMAIN mem[p].cardPairs
    BY <1>1 DEF SameTables, Opening, Range
  <2> DEFINE keys == [p \in Players |-> mem[p].cardPairs[deck[i]]]
  <2>2. AllFit(deck[i], keys)
    BY <1>1, <2>1 DEF PlayerKeys, AllFit
  <2>3. Decrypted(deck[i], keys) = Plain(deck[i].card)
    <3> HIDE DEF keys
    <3> QED
      BY <1>2, <2>2, AllOpen
  <2> QED
    BY <2>1, <2>3 DEF Opened, Plain
<1>4. LET out == Seqs!SetToSeq({v.card : v \in DOMAIN held})
      IN  Sorted(discard \o out \o [i \in DOMAIN deck |-> deck[i].card]) = FullDeck
  BY <1>1, <1>2, DeckOfAll
<1> QED
  BY <1>3, <1>4 DEF OpenDeck

LEMMA NoDeckStays ==
  ASSUME OpenDeck, UNCHANGED <<deck, held, discard>>,
         \A p \in Players : mem'[p].cardPairs = mem[p].cardPairs
  PROVE  OpenDeck'
<1>1. \A v : [p \in Players |-> mem'[p].cardPairs[v]] = [p \in Players |-> mem[p].cardPairs[v]]
  OBVIOUS
<1>2. \A v, keys : Decrypted(v, keys)' = Decrypted(v, keys)
  BY DEF Decrypted, FoldSet, MapThenFoldSet
<1>3. \A v : Opened(v)' <=> Opened(v)
  BY DEF Opened
<1>4. \A s : Sorted(s)' = Sorted(s)
  BY DEF Sorted
<1>5. FullDeck' = FullDeck
  BY DEF FullDeck
<1> QED
  BY <1>1, <1>2, <1>3, <1>4, <1>5 DEF OpenDeck

(* Whenever nothing is under way the deck opens.                           *)
LEMMA RestingOpens ==
  ASSUME ProtocolInv, TableInv, CardsInv
  PROVE  DeckOpens
<1> SUFFICES ASSUME Resting, hand > 0, pc \notin Terminal
             PROVE  OpenDeck
  BY DEF DeckOpens, OpenDeck, CardsInv
<1>1. Unrefused /\ Sound /\ Shape /\ WireInv
  BY DEF TableInv, Resting, Unrefused, Idle, ProtocolInv, Live
<1>2. pc \notin WithCards
  <2>1. PICK q \in Players : q # turn
    BY NAssumption DEF Players
  <2> QED
    BY <1>1, <2>1 DEF Shape, WireInv, ShuffleCase, KeyCase, GiveCase, PlayCase, Refusal,
                      WithCards, Resting, Idle
<1>3. CardInv
  BY <1>1, <1>2 DEF CardsInv, Doomed, WithCards
<1>4. 0 \in Players /\ hand # 0
  BY NAssumption DEF Players
<1>5. Dealt
  BY <1>2, <1>3, <1>4 DEF Dealt, CardInv, Resting, WithCards
<1> QED
  BY <1>1, <1>2, <1>3, <1>5, DeckIsOpen

-----------------------------------------------------------------------------
\* Steps that move no card

\* A step that leaves the deck, the hands and the discards alone.
CardsStay ==
  /\ UNCHANGED <<deck, held, seen, discard, work, hand>>
  /\ \A p \in Players : mem'[p].deck = mem[p].deck /\ mem'[p].cardPairs = mem[p].cardPairs

LEMMA OpeningStays ==
  ASSUME Opening, UNCHANGED <<held, seen, work>>, pc' # "Shuffle",
         \A p \in Players : mem'[p].deck = mem[p].deck /\ mem'[p].cardPairs = mem[p].cardPairs
  PROVE  Opening'
BY DEF Opening, Proper, IsNumber, Hidden

LEMMA SplitStays ==
  ASSUME Split, UNCHANGED <<deck, held, discard>>
  PROVE  Split'
BY DEF Split, Apart, HeldApart, HeldFaces, FacesOf, Parted, Range

LEMMA CardsKept ==
  ASSUME CardInv, CardsStay, pc \notin {"Start", "NewHand", "HandStart", "Shuffle"},
         pc = "GameStart" => pc' = "NewHand",
         pc' \notin {"Start", "GameStart", "HandStart", "Shuffle"}
  PROVE  CardInv'
<1>1. Opening'
  BY OpeningStays DEF CardInv, CardsStay
<1>2. Dealt' => Dealt
  BY DEF CardInv, CardsStay, Dealt
<1>3. Dealt' => Split'
  BY <1>2, SplitStays DEF CardInv, CardsStay
<1> QED
  BY <1>1, <1>3 DEF CardInv, CardsStay

(* Where the host goes on there is nothing it was refused.                 *)
LEMMA GoesOn ==
  ASSUME TableInv, CardsInv, pc \notin Terminal,
         pc \in Going \/ \E at \in Waiting : Back(at)
  PROVE  CardInv /\ Unrefused /\ Sound
<1>1. Unrefused /\ ~Doomed
  <2>1. CASE pc \in Going
    BY <2>1 DEF TableInv, Resting, Idle, Unrefused, Going, Doomed
  <2>2. CASE \E at \in Waiting : Back(at)
    <3>1. 0 \in Players
      BY NAssumption DEF Players
    <3> QED
      BY <2>2, <3>1 DEF Back, Answered, Unrefused, Doomed, Requests
  <2> QED
    BY <2>1, <2>2
<1> QED
  BY <1>1 DEF CardsInv, TableInv

(* It is enough to look at where the game goes on, and at a deck where it  *)
(* ends.                                                                   *)
LEMMA Suffices ==
  ASSUME pc' \notin Terminal => CardInv', pc' \in Terminal => ~Resting' \/ OpenDeck'
  PROVE  CardsInv'
BY DEF CardsInv, DeckOpens, OpenDeck

LEMMA AnnounceDeals ==
  ASSUME ProtocolInv, TableInv, CardsInv, Announce
  PROVE  CardsInv'
<1>1. /\ pc \in {"Shuffled", "Drawn", "FirstShown", "FirstEffect", "Nothing", "Discarded",
                 "HandOver", "Effect"}
      /\ UNCHANGED hand
  BY DEF Announce, game
<1>2. CardInv
  BY <1>1, GoesOn DEF Going, Terminal
<1>3. Quiet
  BY <1>1, AnnounceIsQuiet DEF Terminal
<1>4. pc' \notin {"Start", "GameStart", "HandStart", "Shuffle"} \cup Terminal
  <2>1. AfterFirst \in {"FirstCard", "Draw", "FirstEffect", "Turn"}
    BY DEF AfterFirst
  <2>2. job.then \in {"none", "Deal", "Again", "Turn", "EndTurn"} /\ pc' = Announcement[2]
    BY DEF ProtocolInv, Shape, Announce
  <2>3. CASE pc = "FirstShown"
    BY <2>1, <2>2, <2>3 DEF Announcement, Terminal
  <2>4. CASE pc = "Drawn"
    BY <2>2, <2>4 DEF Announcement, Terminal
  <2>5. CASE pc \notin {"FirstShown", "Drawn"}
    BY <1>1, <2>2, <2>5 DEF Announcement, Terminal
  <2> QED
    BY <2>3, <2>4, <2>5
<1>5. CardInv'
  BY <1>1, <1>2, <1>3, <1>4, CardsKept DEF Quiet, MemStays, CardsStay
<1> QED
  BY <1>4, <1>5, Suffices

LEMMA StartsDeal ==
  ASSUME ProtocolInv, TableInv, CardsInv, StartGame \/ GameStarted \/ StartHand \/ AfterHand
  PROVE  CardsInv'
<1>1. /\ pc \in {"Start", "GameStart", "NewHand", "AfterHand"}
      /\ pc = "GameStart" => Back("GameStart")
  BY DEF StartGame, GameStarted, StartHand, AfterHand, Back
<1>2. CardInv /\ pc \notin Terminal
  BY <1>1, GoesOn DEF Going, Waiting, Terminal
<1>3. Quiet
  BY <1>2, StartsAreQuiet
<1>4. CASE StartGame \/ StartHand
  <2>1. /\ pc' \in {"GameStart", "HandStart"} /\ (pc' = "GameStart" => hand' = hand /\ pc = "Start")
        /\ pc' = "HandStart" => hand' = hand + 1
        /\ \A p \in Players : line'[p] # Idle
    BY <1>4 DEF StartGame, StartHand, CallAll, Idle, game
  <2>2. Opening'
    BY <1>2, <1>3, <2>1, OpeningStays DEF CardInv, Quiet, MemStays
  <2>3. CardInv'
    BY <1>2, <2>1, <2>2 DEF CardInv, Dealt
  <2> QED
    BY <2>1, <2>3, Suffices DEF Terminal
<1>5. CASE GameStarted \/ AfterHand
  <2>1. /\ pc \in {"GameStart", "AfterHand"} /\ pc' \in {"NewHand", "GameEnd"}
        /\ (pc = "GameStart" => pc' = "NewHand") /\ UNCHANGED hand
    BY <1>5 DEF GameStarted, AfterHand, Back, game
  <2>2. CardInv'
    BY <1>2, <1>3, <2>1, CardsKept DEF Quiet, MemStays, CardsStay
  <2> QED
    BY <2>1, <2>2, Suffices DEF Terminal
<1> QED
  BY <1>4, <1>5

LEMMA TurnsDeal ==
  ASSUME ProtocolInv, TableInv, CardsInv,
         \/ Deal \/ CardGiven \/ FirstColor \/ NothingPlayed \/ NextDrawsTwo
         \/ AskChallenge \/ ChallengeDecided \/ NoEffect
  PROVE  CardsInv'
<1> DEFINE Places == {"Deal", "Give", "FirstColor", "Play", "PlayAgain", "Effect", "Challenge"}
<1>1. /\ pc \in Places /\ UNCHANGED hand
      /\ pc \in {"Give", "FirstColor", "Play", "PlayAgain", "Challenge"} => Back(pc)
      /\ pc' \in {"FirstCard", "Draw", "Drawn", "FirstShown", "Nothing", "Challenge", "Reveal", "EndTurn"}
  BY DEF Deal, CardGiven, FirstColor, NothingPlayed, NextDrawsTwo, AskChallenge, PlayComesBack,
         ChallengeDecided, NoEffect, Back, StartDraw, game
<1>2. CardInv /\ pc \notin Terminal
  BY <1>1, GoesOn DEF Going, Waiting, Terminal
<1>3. Quiet
  BY <1>2, TurnsAreQuiet
<1>4. CardInv'
  BY <1>1, <1>2, <1>3, CardsKept DEF Quiet, MemStays, CardsStay
<1> QED
  BY <1>1, <1>4, Suffices DEF Terminal

LEMMA AsksDeal ==
  ASSUME ProtocolInv, TableInv, CardsInv, DealTo \/ TurnUp \/ AskPlay
  PROVE  CardsInv'
<1>1. /\ pc \in {"Draw", "FirstCard", "Turn", "Again"}
      /\ pc' \in {"Keys", "FirstKeys", "Play", "PlayAgain"}
      /\ UNCHANGED <<deck, held, seen, discard, work, hand, mem>>
  BY DEF DealTo, TurnUp, AskPlay, table, passing, game, told
<1>2. CardInv
  BY <1>1, GoesOn DEF Going, Terminal
<1>3. CardInv'
  BY <1>1, <1>2, CardsKept DEF CardsStay
<1> QED
  BY <1>1, <1>3, Suffices DEF Terminal

(* The ends, where the game may stop.                                      *)
LEMMA EndsDeal ==
  ASSUME ProtocolInv, TableInv, CardsInv, EndTurn \/ HandRevealed \/ HandSigned \/ GameEnded
  PROVE  CardsInv'
<1>1. /\ pc \in {"EndTurn", "HandReveal", "HandSign", "GameEnd"} /\ UNCHANGED <<hand, deck, held, discard>>
      /\ pc # "EndTurn" => Back(pc)
  BY DEF EndTurn, HandRevealed, HandSigned, GameEnded, Back, game, table
<1>2. CardInv /\ pc \notin Terminal /\ Unrefused
  BY <1>1, GoesOn DEF Going, Waiting, Terminal
<1>3. Quiet
  BY <1>2, StartsAreQuiet, EndsAreQuiet
<1>4. pc' \in {"Turn", "HandReveal", "HandSign", "HandOver"} \cup Terminal
  <2>1. CASE EndTurn
    BY <2>1 DEF EndTurn, Terminal
  <2>2. CASE HandRevealed
    BY <2>2, Zenon DEF HandRevealed, Terminal
  <2>3. CASE HandSigned \/ GameEnded
    BY <2>3 DEF HandSigned, GameEnded, Terminal
  <2> QED
    BY <2>1, <2>2, <2>3
<1>5. pc' \notin Terminal => CardInv'
  BY <1>1, <1>2, <1>3, <1>4, CardsKept DEF Quiet, MemStays, CardsStay
<1>6. hand # 0 => OpenDeck'
  <2>1. hand # 0 => Dealt
    BY <1>1 DEF Dealt
  <2>2. hand # 0 => OpenDeck
    BY <1>1, <1>2, <2>1, DeckIsOpen DEF WithCards
  <2> QED
    BY <1>1, <1>3, <2>2, NoDeckStays DEF Quiet, MemStays
<1>7. CASE hand # 0
  BY <1>5, <1>6, <1>7, Suffices
<1>8. CASE hand = 0
  <2>1. DeckOpens'
    BY <1>1, <1>8 DEF DeckOpens
  <2> QED
    BY <1>5, <2>1 DEF CardsInv
<1> QED
  BY <1>7, <1>8

LEMMA RefusalDeals ==
  ASSUME PlayerRefuses
  PROVE  CardsInv'
<1>1. pc' = "Failed" /\ ~Resting'
  BY DEF PlayerRefuses, wires, Resting, Idle
<1> QED
  BY <1>1, Suffices DEF Terminal

-----------------------------------------------------------------------------
\* The shuffle, on the host's side

(* The plain cards of a sequence are handed to the first seat.             *)
LEMMA CardsHanded ==
  ASSUME NEW cards, Shuffle(cards), IsSeq(FromCards(cards)), Apart(FromCards(cards)),
         Range(FromCards(cards)) \subseteq StartCards
  PROVE  /\ pc' = "Shuffle" /\ start' = FromCards(cards)
         /\ \A i \in DOMAIN work' : Proper(work'[i])
         /\ ToBeShuffled(work)'
         /\ line'[seat'].type # "cards"
<1> DEFINE from == FromCards(cards)
           plain == [i \in DOMAIN from |-> Plain(from[i])]
<1>1. /\ start' = from /\ work' = plain /\ seat' = 0 /\ pc' = "Shuffle"
      /\ line'[0].type = "Shuffle"
  BY FirstAsked DEF Shuffle
<1>2. DOMAIN from = 1..Len(from) /\ from = [i \in DOMAIN from |-> from[i]]
  BY SeqFacts
<1> HIDE DEF from
<1>3. \A i \in DOMAIN from : Plain(from[i]) = [card |-> from[i], powers |-> {}]
  BY DEF Plain
<1>4. \A i \in DOMAIN plain : Proper(plain[i])
  BY <1>3 DEF Proper, IsNumber, Range, from
<1>5. FacesOf(plain) = from
  BY <1>2, <1>3 DEF FacesOf
<1>6. FacesOf(work)' = from
  BY <1>1, <1>5 DEF FacesOf
<1>7. ToBeShuffled(work)'
  BY <1>1, <1>6 DEF ToBeShuffled, Apart, Range, from
<1> QED
  BY <1>1, <1>4, <1>7 DEF from

(* Of a hand the first shuffle is that of a full deck.                     *)
LEMMA HandStartedDeals ==
  ASSUME ProtocolInv, TableInv, CardsInv, HandStarted
  PROVE  CardsInv'
<1>1. pc = "HandStart" /\ Back("HandStart") /\ UNCHANGED <<hand, mem>>
  BY DEF HandStarted, Back, game, told
<1>2. CardInv
  BY <1>1, GoesOn DEF Waiting, Terminal
<1>3. CASE "newDeck" \in Mended
  <2>1. held' = <<>> /\ discard' = <<>> /\ Shuffle(<<>>) /\ FromCards(<<>>) = FullDeck
    BY <1>3 DEF HandStarted, FromCards
  <2>2. /\ pc' = "Shuffle" /\ start' = FullDeck
        /\ \A i \in DOMAIN work' : Proper(work'[i])
        /\ ToBeShuffled(work)'
        /\ line'[seat'].type # "cards"
    BY <2>1, FullDeckIsSeq, FullDeckInOrder, CardsHanded
  <2>3. DOMAIN held' = {} /\ DOMAIN discard' = {} /\ HeldFaces' = {} /\ Range(AfterReshuffle(discard)') = {}
    <3>1. held' = <<>> /\ discard' = <<>> /\ DOMAIN <<>> = {}
      BY <2>1, EmptyIsSeq
    <3> QED
      BY <3>1 DEF HeldFaces, AfterReshuffle, Range
  <2>4. Shuffled'
    <3>1. Apart(discard)' /\ HeldApart'
      BY <2>3 DEF Apart, HeldApart
    <3>2. Range(start') = StartCards
      BY <2>2, FullDeckInOrder
    <3>3. Parted(Range(start'), HeldFaces', Range(AfterReshuffle(discard)'))
      BY <2>3, <3>2 DEF Parted
    <3> QED
      BY <2>2, <3>1, <3>3 DEF Shuffled, Parted, Range
  <2>5. Opening'
    BY <1>1, <1>2, <2>2, <2>3 DEF Opening, CardInv, Proper, IsNumber, Hidden, Range
  <2> QED
    BY <1>1, <1>2, <2>2, <2>4, <2>5 DEF CardsInv, CardInv, Dealt, Terminal
<1>4. CASE "newDeck" \notin Mended
  <2>1. pc' = "Panicked" /\ UNCHANGED line
    BY <1>4 DEF HandStarted
  <2>2. 0 \in Players
    BY NAssumption DEF Players
  <2>3. ~Resting'
    BY <1>1, <1>2, <2>1, <2>2 DEF CardInv, Resting
  <2> QED
    BY <2>1, <2>3, Suffices DEF Terminal
<1> QED
  BY <1>3, <1>4

(* When the deck has run out the discards under the top card are shuffled. *)
LEMMA ReshuffleDeals ==
  ASSUME ProtocolInv, TableInv, CardsInv, Reshuffle
  PROVE  CardsInv'
<1> DEFINE below == Seqs!Front(discard)
<1>1. /\ pc = "Draw" /\ deck = <<>> /\ Shuffle(below)
      /\ UNCHANGED <<held, seen, discard, hand, job, mem, event, late>>
  BY DEF Reshuffle, table, game, told
<1>2. CardInv /\ Sound /\ Shape
  BY <1>1, GoesOn DEF Going, Terminal, ProtocolInv
<1>3. Told3 /\ discard # <<>>
  <2>1. deck = <<>>
    BY <1>1
  <2> QED
    BY <1>1, <1>2, <2>1 DEF Sound, Place, Drawing
<1>4. CASE below = <<>>
  <2>1. /\ pc' = "Shuffle" /\ stage' = 0 /\ seat' = 0
        /\ line'[0].type = "Shuffle" /\ line'[0].start = FullDeck
    BY <1>1, <1>4, FirstAsked DEF FromCards
  <2>2. Told3'
    BY <1>1, <1>3, UntoldStays DEF ToldStays
  <2>3. Doomed'
    BY <2>1, <2>2 DEF Doomed, FullDeck
  <2> QED
    BY <2>1, <2>3 DEF CardsInv, Terminal
<1>5. CASE below # <<>>
  <2>1. Split
    BY <1>1, <1>2 DEF CardInv, Dealt
  <2>2. /\ IsSeq(below) /\ Apart(below) /\ Range(below) = Range(discard) \ {Seqs!Last(discard)}
        /\ Seqs!Last(discard) \in Range(discard)
    BY <1>2, <1>3, <2>1, LastApart DEF Shape, Split
  <2>3. Range(below) \subseteq StartCards /\ Range(FacesOf(deck)) = {} /\ FromCards(below) = below
    <3>1. Range(FacesOf(deck)) = {}
      BY <1>1, EmptyIsSeq DEF FacesOf, Range
    <3>2. Range(discard) \subseteq StartCards
      BY <2>1 DEF Split, Parted
    <3> QED
      BY <1>5, <2>2, <3>1, <3>2 DEF FromCards
  <2> HIDE DEF below
  <2>4. /\ pc' = "Shuffle" /\ start' = below
        /\ \A i \in DOMAIN work' : Proper(work'[i])
        /\ ToBeShuffled(work)'
        /\ line'[seat'].type # "cards"
    BY <1>1, <2>2, <2>3, CardsHanded
  <2>5. Range(AfterReshuffle(discard)') = {Seqs!Last(discard)}
    BY <1>1, <1>3 DEF AfterReshuffle, Range
  <2>6. Shuffled'
    <3>1. Apart(discard)' /\ HeldApart' /\ HeldFaces' = HeldFaces
      BY <1>1, <2>1 DEF Split, Apart, HeldApart, HeldFaces
    <3>2. Parted(Range(start'), HeldFaces', Range(AfterReshuffle(discard)'))
      BY <2>1, <2>2, <2>3, <2>4, <2>5, <3>1 DEF Parted, Split
    <3> QED
      BY <2>4, <3>1, <3>2 DEF Shuffled, Parted, Range
  <2>7. Opening'
    BY <1>1, <1>2, <2>4 DEF Opening, CardInv, Proper, IsNumber, Hidden, Range
  <2> QED
    BY <1>1, <1>2, <2>4, <2>6, <2>7 DEF CardsInv, CardInv, Dealt, Terminal
<1> QED
  BY <1>4, <1>5

(* The working set goes on with the cards it had.                          *)
LEMMA PassOnDeals ==
  ASSUME ProtocolInv, TableInv, CardsInv, PassOn
  PROVE  CardsInv'
<1>1. /\ pc = "Shuffle" /\ Back("Shuffle") /\ work' = IF stage < 2 THEN line[seat].cards ELSE work
      /\ UNCHANGED <<deck, held, seen, discard, hand, start, mem>>
  BY DEF PassOn, Back, table, game, told
<1>2. CardInv
  BY <1>1, GoesOn DEF Waiting, Terminal
<1>3. Shape /\ (stage < 2 => line[seat].type = "cards") /\ seat \in Players /\ line[seat].type # "idle"
  BY <1>1, SeatAnswered DEF ProtocolInv, Live, Terminal, Shape
<1>4. Shuffled /\ (\A i \in DOMAIN work' : Proper(work'[i])) /\ ToBeShuffled(work')
  BY <1>1, <1>2, <1>3 DEF CardInv, Opening, Shuffled
<1>5. CASE pc' = "Failed" /\ UNCHANGED line
  <2>1. ~Resting'
    BY <1>3, <1>5 DEF Resting, Idle
  <2> QED
    BY <1>5, <2>1, Suffices DEF Terminal
<1>6. CASE pc' = "Shuffle" /\ \E st : Call(seat', ShuffleRequest(start, st, work'))
  <2>1. line'[seat'].type = "Shuffle"
    <3>1. NextSeat(seat) \in Players /\ seat' = NextSeat(seat)
      BY <1>3, SeatAfter DEF PassOn
    <3> QED
      BY <1>6, <3>1 DEF Call, CallAll, ShuffleRequest
  <2>2. Opening'
    BY <1>1, <1>2, <1>4, <2>1 DEF Opening, CardInv, Proper, IsNumber, Hidden, Range
  <2>3. Shuffled'
    <3>1. PICK f : f = FacesOf(work')
      OBVIOUS
    <3>2. Apart(f) /\ Range(f) = Range(start) /\ FacesOf(work)' = f
      BY <1>4, <3>1 DEF ToBeShuffled, FacesOf
    <3>3. ToBeShuffled(work)'
      BY <1>1, <3>2 DEF ToBeShuffled, Apart, Range
    <3> QED
      BY <1>1, <1>4, <2>1, <3>3 DEF Shuffled, Apart, HeldApart, HeldFaces, Parted, Range, AfterReshuffle
  <2> QED
    BY <1>1, <1>2, <1>6, <2>2, <2>3 DEF CardsInv, CardInv, Dealt, Terminal
<1>7. \/ pc' = "Failed" /\ UNCHANGED line
      \/ pc' = "Shuffle" /\ \E st : Call(seat', ShuffleRequest(start, st, work'))
  BY <1>1 DEF PassOn
<1> QED
  BY <1>5, <1>6, <1>7

(* The deck has been made of it.                                           *)
LEMMA ShuffleDoneDeals ==
  ASSUME ProtocolInv, TableInv, CardsInv, ShuffleDone
  PROVE  CardsInv'
<1>1. /\ pc = "Shuffle" /\ Back("Shuffle") /\ deck' = work /\ discard' = AfterReshuffle(discard)
      /\ pc' = "Shuffled" /\ UNCHANGED <<held, seen, work, hand, mem>>
  BY DEF ShuffleDone, Back, passing, game, told
<1>2. CardInv /\ Shape
  BY <1>1, GoesOn DEF Waiting, Terminal, ProtocolInv
<1>3. Opening'
  BY <1>1, <1>2, OpeningStays DEF CardInv
<1>4. Split'
  <2>1. Shuffled
    BY <1>1, <1>2 DEF CardInv
  <2>2. Apart(AfterReshuffle(discard))
    <3>1. CASE discard = <<>>
      BY <2>1, <3>1 DEF AfterReshuffle, Shuffled
    <3>2. CASE discard # <<>>
      BY <3>2 DEF AfterReshuffle, Apart
    <3> QED
      BY <3>1, <3>2
  <2>3. Apart(discard)' /\ HeldApart' /\ Apart(FacesOf(deck))'
    BY <1>1, <2>1, <2>2 DEF Shuffled, ToBeShuffled, Apart, HeldApart, FacesOf
  <2>4. Range(FacesOf(deck))' = Range(start) /\ HeldFaces' = HeldFaces
        /\ Range(discard)' = Range(AfterReshuffle(discard))
    BY <1>1, <2>1 DEF Shuffled, ToBeShuffled, HeldFaces, FacesOf, Range
  <2> QED
    BY <2>1, <2>3, <2>4 DEF Split, Shuffled, Parted
<1> QED
  BY <1>1, <1>2, <1>3, <1>4, Suffices DEF CardInv, Terminal
-----------------------------------------------------------------------------
\* Cards that leave the deck

(* The top card is one of the start, in nobody's hand and not turned up.   *)
LEMMA TopCard ==
  ASSUME Shape, HostKeys, Opening, Split, deck # <<>>
  PROVE  LET top == Seqs!Last(deck) rest == Seqs!Front(deck)
         IN  /\ Proper(top) /\ top \notin DOMAIN held
             /\ top.card \notin HeldFaces \cup Range(discard)
             /\ IsSeq(rest) /\ Apart(FacesOf(rest))
             /\ Range(FacesOf(rest)) = Range(FacesOf(deck)) \ {top.card}
             /\ top.card \in Range(FacesOf(deck))
<1> DEFINE rest == Seqs!Front(deck) n == Len(deck)
<1>1. IsSeq(deck) /\ \A i \in DOMAIN deck : Proper(deck[i])
  BY DeckIsProper
<1>2. /\ IsSeq(rest) /\ n \in Nat \ {0} /\ Len(rest) = n - 1 /\ Seqs!Last(deck) = deck[n]
      /\ \A j \in 1..n-1 : rest[j] = deck[j]
  BY <1>1, FrontAndLast
<1>3. DOMAIN deck = 1..n /\ DOMAIN rest = 1..n-1 /\ n \in DOMAIN deck
  BY <1>1, <1>2, SeqFacts
<1> HIDE DEF n, rest
<1>4. /\ \A j \in DOMAIN rest : j \in DOMAIN deck /\ j # n /\ rest[j] = deck[j]
      /\ \A j \in DOMAIN deck : j = n \/ j \in DOMAIN rest
  BY <1>2, <1>3
<1>5. \A i, j \in DOMAIN deck : deck[i].card = deck[j].card => i = j
  BY DEF Split, Apart, FacesOf
<1>6. Apart(FacesOf(rest))
  BY <1>4, <1>5 DEF Apart, FacesOf
<1>7. Range(FacesOf(deck)) = {deck[i].card : i \in DOMAIN deck}
      /\ Range(FacesOf(rest)) = {rest[i].card : i \in DOMAIN rest}
  BY DEF Range, FacesOf
<1>8. Range(FacesOf(rest)) = Range(FacesOf(deck)) \ {deck[n].card} /\ deck[n].card \in Range(FacesOf(deck))
  BY <1>3, <1>4, <1>5, <1>7
<1>9. deck[n].card \notin HeldFaces \cup Range(discard)
  BY <1>8 DEF Split, Parted
<1>10. deck[n] \notin DOMAIN held
  BY <1>9 DEF HeldFaces
<1> QED
  BY <1>1, <1>2, <1>3, <1>6, <1>8, <1>9, <1>10 DEF rest

(* It goes to a hand.                                                      *)
LEMMA KeysGivenDeals ==
  ASSUME ProtocolInv, TableInv, CardsInv, KeysGiven
  PROVE  CardsInv'
<1> DEFINE top == Seqs!Last(deck) rest == Seqs!Front(deck)
<1>1. /\ pc = "Keys" /\ Back("Keys") /\ PopTopCard(KeysIn)
      /\ UNCHANGED <<discard, work, hand, turn, mem>>
  BY DEF KeysGiven, Back, passing, game, told
<1>2. CardInv /\ Shape /\ HostKeys /\ WireInv
  BY <1>1, GoesOn DEF Waiting, Terminal, ProtocolInv, Live
<1>3. deck # <<>> /\ turn \in Players
  BY <1>1, <1>2 DEF WireInv, Shape
<1>4. \A p \in Players \ {turn} : line[p].type = "key" /\ line[p].key # NoKey
  BY <1>1, <1>2 DEF WireInv, KeyCase, Refusal, Fits, NoKey, Back, Answered, Requests
<1>5. CASE pc' = "Panicked" /\ UNCHANGED line
  <2>1. PICK q \in Players : q # turn
    BY NAssumption DEF Players
  <2>2. ~Resting'
    BY <1>4, <1>5, <2>1 DEF Resting, Idle
  <2> QED
    BY <1>5, <2>2, Suffices DEF Terminal
<1>6. CASE pc' = "Give" /\ held' = Put(held, top, turn)
  <2>1. Split /\ Opening
    BY <1>1, <1>2 DEF CardInv, Dealt
  <2>2. /\ Proper(top) /\ top \notin DOMAIN held
        /\ top.card \notin HeldFaces \cup Range(discard)
        /\ IsSeq(rest) /\ Apart(FacesOf(rest))
        /\ Range(FacesOf(rest)) = Range(FacesOf(deck)) \ {top.card}
        /\ top.card \in Range(FacesOf(deck))
    BY <1>2, <1>3, <2>1, TopCard
  <2>3. deck' = rest /\ seen' = Put(seen, top, KeysIn)
    BY <1>1 DEF PopTopCard
  <2> HIDE DEF top, rest
  <2>4. DOMAIN held' = DOMAIN held \cup {top} /\ held'[top] = turn
        /\ \A v \in DOMAIN held : held'[v] = held[v] /\ seen'[v] = seen[v]
    BY <1>2, <1>6, <2>2, <2>3 DEF Put, HostKeys, Out
  <2>5. seen'[top] = KeysIn
    BY <2>3 DEF Put
  <2>6. Opening'
    <3>1. \A q \in Players \ {turn} : KeysIn[q] # NoKey
      BY <1>4 DEF KeysIn
    <3>2. \A v \in DOMAIN held' : \A q \in Players \ {held'[v]} : seen'[v][q] # NoKey
      BY <2>1, <2>4, <2>5, <3>1 DEF Opening
    <3>3. \A v \in DOMAIN held' : Proper(v)
      BY <2>1, <2>2, <2>4 DEF Opening
    <3> QED
      BY <1>1, <1>6, <2>1, <3>2, <3>3 DEF Opening, Proper, IsNumber, Hidden
  <2>7. HeldFaces' = HeldFaces \cup {top.card} /\ HeldApart'
    BY <2>1, <2>2, <2>4 DEF HeldFaces, HeldApart, Split
  <2>8. Split'
    <3>1. Apart(discard)' /\ Apart(FacesOf(deck))' /\ Range(discard)' = Range(discard)
          /\ Range(FacesOf(deck))' = Range(FacesOf(rest))
      BY <1>1, <2>1, <2>2, <2>3 DEF Apart, FacesOf, Split, Range
    <3> QED
      BY <2>1, <2>2, <2>7, <3>1 DEF Split, Parted
  <2> QED
    BY <1>1, <1>2, <1>6, <2>6, <2>8, Suffices DEF CardInv, Terminal
<1> QED
  BY <1>5, <1>6 DEF KeysGiven

(* It is turned up: with the keys of all it opens.                         *)
LEMMA TurnedUpDeals ==
  ASSUME ProtocolInv, TableInv, CardsInv, TurnedUp
  PROVE  CardsInv' /\ discard' = Append(discard, Seqs!Last(deck).card) /\ pc' # "Failed"
<1> DEFINE top == Seqs!Last(deck) rest == Seqs!Front(deck)
<1>1. /\ pc = "FirstKeys" /\ Back("FirstKeys") /\ PopTopCard(KeysIn)
      /\ UNCHANGED <<held, work, hand, mem>>
  BY DEF TurnedUp, Back, passing, game, told
<1>2. CardInv /\ Shape /\ HostKeys /\ WireInv
  BY <1>1, GoesOn DEF Waiting, Terminal, ProtocolInv, Live
<1>3. deck # <<>>
  BY <1>1, <1>2, KeysHaveCome
<1>4. Split /\ Opening
  BY <1>1, <1>2 DEF CardInv, Dealt
<1>5. /\ Proper(top) /\ top \notin DOMAIN held
      /\ top.card \notin HeldFaces \cup Range(discard)
      /\ IsSeq(rest) /\ Apart(FacesOf(rest))
      /\ Range(FacesOf(rest)) = Range(FacesOf(deck)) \ {top.card}
      /\ top.card \in Range(FacesOf(deck))
  BY <1>2, <1>3, <1>4, TopCard
<1>6. AllFit(top, KeysIn)
  BY <1>1, <1>2 DEF AllFit, KeysIn, WireInv, KeyCase, Refusal, Back, Answered, Requests
<1> HIDE DEF top, rest
<1>7. Decrypted(top, KeysIn) = Plain(top.card)
  BY <1>5, <1>6, AllOpen
<1>8. /\ discard' = Append(discard, top.card) /\ pc' \in {"FirstColor", "FirstShown"}
  BY <1>7 DEF TurnedUp, Plain, Opened, top
<1>9. deck' = rest /\ seen' = Put(seen, top, KeysIn)
  BY <1>1 DEF PopTopCard, top, rest
<1>10. Opening'
  <2>1. \A v \in DOMAIN held : seen'[v] = seen[v]
    BY <1>2, <1>5, <1>9 DEF Put, HostKeys, Out
  <2> QED
    BY <1>1, <1>4, <1>8, <2>1 DEF Opening, Proper, IsNumber, Hidden
<1>11. Split'
  <2>1. Apart(discard') /\ Range(discard') = Range(discard) \cup {top.card}
    BY <1>2, <1>4, <1>5, <1>8, AppendApart DEF Shape, Split
  <2>2. HeldFaces' = HeldFaces /\ HeldApart' /\ Apart(FacesOf(deck))'
        /\ Range(FacesOf(deck))' = Range(FacesOf(rest))
    BY <1>1, <1>4, <1>5, <1>9 DEF HeldFaces, HeldApart, Split, Apart, FacesOf, Range
  <2>3. Apart(discard)' /\ Range(discard)' = Range(discard) \cup {top.card}
    BY <2>1 DEF Apart, Range
  <2> QED
    BY <1>4, <1>5, <2>2, <2>3 DEF Split, Parted
<1>12. CardsInv'
  BY <1>1, <1>2, <1>8, <1>10, <1>11, Suffices DEF CardInv, Terminal
<1> QED
  BY <1>8, <1>12 DEF top

(* What is laid is a card that the player holds.                           *)
LEMMA GenuineCard ==
  ASSUME Shape, HostKeys, Opening, turn \in Players, NEW play, PlayIsGenuine(play),
         Fits(turn, play.number, play.keys[turn])
  PROVE  /\ play.number \in DOMAIN held /\ held[play.number] = turn
         /\ Decrypted(play.number, play.keys) = Plain(play.number.card)
<1> DEFINE v == play.number
<1>1. v \in DOMAIN held /\ held[v] = turn /\ seen[v] = [play.keys EXCEPT ![turn] = NoKey]
  BY DEF PlayIsGenuine
<1>2. Proper(v) /\ (\A q \in Players \ {turn} : seen[v][q] # NoKey) /\ v \in Out
  BY <1>1 DEF Opening, HostKeys
<1>3. DOMAIN play.keys = Players
  BY <1>1, <1>2 DEF HostKeys
<1>4. \A q \in Players \ {turn} : Fits(q, v, play.keys[q])
  BY <1>1, <1>2, <1>3 DEF HostKeys
<1>5. AllFit(v, play.keys)
  BY <1>4 DEF AllFit
<1> HIDE DEF v
<1>6. Decrypted(v, play.keys) = Plain(v.card)
  BY <1>2, <1>5, AllOpen
<1> QED
  BY <1>1, <1>6 DEF v

(* Laid, it is among the discards.                                         *)
LEMMA CardPlayedDeals ==
  ASSUME ProtocolInv, TableInv, CardsInv, CardPlayed
  PROVE  CardsInv'
<1>1. /\ pc \in {"Play", "PlayAgain"} /\ Back(pc)
      /\ UNCHANGED <<deck, work, hand, turn, mem>>
  BY DEF CardPlayed, PlayComesBack, Back, passing, game, told
<1>2. CardInv /\ Shape /\ HostKeys /\ WireInv /\ turn \in Players
  BY <1>1, GoesOn DEF Waiting, Terminal, ProtocolInv, Live, Shape
<1>3. Fits(turn, line[turn].number, line[turn].keys[turn]) /\ line[turn].type = "play"
  BY <1>1, <1>2 DEF WireInv, PlayCase, Refusal, Back, Answered, Requests
<1>4. Split /\ Opening
  BY <1>1, <1>2 DEF CardInv, Dealt
<1>5. CASE pc' = "Failed" /\ UNCHANGED line
  <2>1. ~Resting'
    BY <1>2, <1>3, <1>5 DEF Resting, Idle
  <2> QED
    BY <1>5, <2>1, Suffices DEF Terminal
<1>6. CASE ~(pc' = "Failed" /\ UNCHANGED line)
  <2>1. PICK v : v = line[turn].number
    OBVIOUS
  <2>2. /\ PlayIsGenuine(line[turn])
        /\ held' = Restrict(held, DOMAIN held \ {v})
        /\ seen' = Put(seen, v, line[turn].keys)
        /\ discard' = Append(discard, Decrypted(v, line[turn].keys).card)
        /\ pc' = "Discarded"
    BY <1>6, <2>1 DEF CardPlayed
  <2>3. v \in DOMAIN held /\ Decrypted(v, line[turn].keys) = Plain(v.card)
    BY <1>2, <1>3, <1>4, <2>1, <2>2, GenuineCard
  <2>4. discard' = Append(discard, v.card)
    BY <2>2, <2>3 DEF Plain
  <2>5. DOMAIN held' = DOMAIN held \ {v} /\ \A w \in DOMAIN held' : held'[w] = held[w] /\ seen'[w] = seen[w]
    BY <1>2, <2>2 DEF Restrict, Put, HostKeys, Out
  <2>6. Opening'
    <3>1. \A w \in DOMAIN held' : Proper(w) /\ \A q \in Players \ {held'[w]} : seen'[w][q] # NoKey
      BY <1>4, <2>5 DEF Opening
    <3>2. \A w \in DOMAIN held' : Proper(w)' /\ \A q \in Players \ {held'[w]} : seen'[w][q] # NoKey
      BY <3>1 DEF Proper, IsNumber, Hidden
    <3>3. \A i \in DOMAIN work' : Proper(work[i])'
      BY <1>1, <1>4 DEF Opening, Proper, IsNumber, Hidden
    <3> QED
      BY <1>1, <1>4, <2>2, <3>2, <3>3 DEF Opening
  <2>7. HeldFaces' = HeldFaces \ {v.card} /\ HeldApart' /\ v.card \in HeldFaces
    BY <1>4, <2>3, <2>5 DEF HeldFaces, HeldApart, Split
  <2>8. Apart(discard') /\ Range(discard') = Range(discard) \cup {v.card}
    <3>1. v.card \notin Range(discard)
      BY <1>4, <2>7 DEF Split, Parted
    <3> QED
      BY <1>2, <1>4, <2>4, <3>1, AppendApart DEF Shape, Split
  <2>9. Split'
    <3>1. Apart(discard)' /\ Range(discard)' = Range(discard) \cup {v.card}
          /\ Apart(FacesOf(deck))' /\ Range(FacesOf(deck))' = Range(FacesOf(deck))
      BY <1>1, <1>4, <2>8 DEF Apart, Range, FacesOf, Split
    <3> QED
      BY <1>4, <2>7, <3>1 DEF Split, Parted
  <2> QED
    BY <1>1, <1>2, <2>2, <2>6, <2>9, Suffices DEF CardInv, Terminal
<1> QED
  BY <1>5, <1>6

(* An event that comes late is about no card.                              *)
LEMMA ArriveDeals ==
  ASSUME ProtocolInv, TableInv, CardsInv, Arrive
  PROVE  CardsInv'
<1>1. Shape /\ UNCHANGED <<pc, deck, held, seen, discard, turn, hand, line, start, work, stage, seat>>
  BY DEF Arrive, table, game, passing, ProtocolInv
<1>2. \A p \in Players : mem'[p].deck = mem[p].deck /\ mem'[p].cardPairs = mem[p].cardPairs
  BY <1>1 DEF Arrive, OnGameEvent, Shape, Forgotten
<1>3. Doomed => Doomed'
  BY <1>1, ArriveTells DEF ToldStays, Doomed, FullDeck
<1>4. CardInv => CardInv'
  <2>1. Opening => Opening'
    BY <1>1, <1>2 DEF Opening, Proper, IsNumber, Hidden
  <2>2. Split => Split'
    BY <1>1, SplitStays
  <2>3. Shuffled => Shuffled'
    <3> SUFFICES ASSUME Shuffled
                 PROVE  Shuffled'
      OBVIOUS
    <3>1. ToBeShuffled(work)' /\ (line[seat].type = "cards" => ToBeShuffled(line[seat].cards)')
      <4>1. PICK f, g : f = FacesOf(work) /\ g = FacesOf(line[seat].cards)
        OBVIOUS
      <4>2. FacesOf(work)' = f /\ FacesOf(line[seat].cards)' = g
        BY <1>1, <4>1 DEF FacesOf
      <4>3. /\ Apart(f) /\ Range(f) = Range(start)
            /\ line[seat].type = "cards" => Apart(g) /\ Range(g) = Range(start)
        BY <4>1 DEF Shuffled, ToBeShuffled
      <4> QED
        BY <1>1, <4>2, <4>3 DEF ToBeShuffled, Apart, Range
    <3>2. Apart(discard)' /\ HeldApart' /\ HeldFaces' = HeldFaces
      BY <1>1 DEF Shuffled, Apart, HeldApart, HeldFaces
    <3>3. Parted(Range(start), HeldFaces, Range(AfterReshuffle(discard)))'
      BY <1>1, <3>2 DEF Shuffled, Parted, Range, AfterReshuffle
    <3> QED
      BY <1>1, <3>1, <3>2, <3>3 DEF Shuffled
  <2> QED
    BY <1>1, <2>1, <2>2, <2>3 DEF CardInv, Dealt
<1>5. Unrefused' <=> Unrefused
  BY <1>1 DEF Unrefused
<1>6. Resting' <=> Resting
  BY <1>1 DEF Resting, Idle
<1>7. DeckOpens => DeckOpens'
  <2>1. Resting /\ hand > 0 /\ OpenDeck => OpenDeck'
    BY <1>1, <1>2, NoDeckStays
  <2> QED
    BY <1>1, <1>6, <2>1 DEF DeckOpens, OpenDeck
<1> QED
  BY <1>1, <1>3, <1>4, <1>5, <1>7 DEF CardsInv, Terminal

-----------------------------------------------------------------------------
\* The players' side

(* A player's answer is enough if it keeps the cards, and is none to a     *)
(* full deck that is refused.                                              *)
LEMMA AnswerDeals ==
  ASSUME ProtocolInv, TableInv, CardsInv, NEW p \in Players, Player(p), Alone(p),
         line[p].type \in Requests, line'[p].type # "idle",
         line'[p].type # "refused" /\ pc \notin Terminal => ~Doomed,
         line'[p].type # "refused" /\ pc \notin Terminal /\ CardInv => CardInv'
  PROVE  CardsInv'
<1>1. ~Resting'
  BY DEF Resting, Idle
<1>2. UNCHANGED pc
  BY DEF Player
<1>3. Unrefused' => Unrefused /\ line'[p].type # "refused"
  BY DEF Unrefused, Alone, Requests
<1> QED
  BY <1>1, <1>2, <1>3 DEF CardsInv, DeckOpens, Terminal

(* Outside a shuffle it is enough that the player has keys for its deck.   *)
LEMMA AloneDeals ==
  ASSUME ProtocolInv, TableInv, CardsInv, NEW p \in Players, Player(p), Alone(p),
         line[p].type \in Requests, line'[p].type # "idle",
         pc \notin Terminal => pc # "Shuffle",
         line'[p].type # "refused" /\ pc \notin Terminal /\ CardInv =>
           IsSeq(mem'[p].deck) /\ Range(mem'[p].deck) \subseteq DOMAIN mem'[p].cardPairs
  PROVE  CardsInv'
<1>1. UNCHANGED <<pc, deck, held, seen, discard, hand, work>>
  BY DEF Player, table, game, passing
<1>2. ASSUME line'[p].type # "refused", pc \notin Terminal, CardInv
      PROVE  CardInv'
  <2>1. \A q \in Players : IsSeq(mem'[q].deck) /\ Range(mem'[q].deck) \subseteq DOMAIN mem'[q].cardPairs
    BY <1>2 DEF CardInv, Opening, Alone
  <2>2. Opening'
    BY <1>1, <1>2, <2>1 DEF CardInv, Opening, Proper, IsNumber, Hidden, IsSeq, Range
  <2>3. Split => Split'
    BY <1>1, SplitStays
  <2>4. pc \in {"GameStart", "HandStart"} => \A q \in Players : line'[q] # Idle
    BY <1>2 DEF CardInv, Alone, Idle
  <2> QED
    BY <1>1, <1>2, <2>2, <2>3, <2>4 DEF CardInv, Dealt
<1> QED
  BY <1>2, AnswerDeals DEF Doomed

LEMMA OthersDeal ==
  ASSUME ProtocolInv, TableInv, CardsInv, NEW p \in Players, Player(p),
         \/ GameEnd(p) \/ HandStart(p) \/ HandEnd(p) \/ ChooseColor(p) \/ ShouldChallenge(p)
         \/ RevealForChallenge(p) \/ GameStart(p)
  PROVE  CardsInv'
<1>1. Shape /\ (pc \notin Terminal => WireInv)
  BY DEF ProtocolInv, Live
<1>2. CASE GameStart(p)
  <2>1. /\ Alone(p) /\ line[p].type = "GameStart" /\ line'[p].type = "signed"
        /\ mem'[p].deck = <<>> /\ mem'[p].cardPairs = <<>>
    BY <1>1, <1>2 DEF GameStart, Asked, Remember, Reply, Signed, Shape, Alone, Forgotten
  <2>2. IsSeq(mem'[p].deck) /\ Range(mem'[p].deck) = {}
    BY <2>1, EmptyIsSeq DEF Range
  <2>3. pc \notin Terminal => pc # "Shuffle"
    BY <1>1, <2>1, AskedWhere
  <2> QED
    BY <2>1, <2>2, <2>3, AloneDeals DEF Requests
<1>3. CASE \/ GameEnd(p) \/ HandStart(p) \/ HandEnd(p) \/ ChooseColor(p) \/ ShouldChallenge(p)
           \/ RevealForChallenge(p)
  <2>1. /\ Alone(p) /\ HandStays(p) /\ mem'[p].deck = mem[p].deck
        /\ line[p].type \in Requests \ (ForCards \cup {"GameStart"}) /\ line'[p].type # "idle"
    BY <1>1, <1>3, OthersAnswer, OthersUntold
  <2>2. pc \notin Terminal => pc # "Shuffle"
    BY <1>1, <2>1, AskedWhere DEF WithCards
  <2> QED
    BY <2>1, <2>2, AloneDeals DEF HandStays, CardInv, Opening
<1> QED
  BY <1>2, <1>3

(* A deck without its top card.                                            *)
LEMMA DeckBelow ==
  ASSUME NEW s, IsSeq(s), s # <<>>
  PROVE  IsSeq(Seqs!Front(s)) /\ Range(Seqs!Front(s)) \subseteq Range(s)
<1>1. PICK f, n : f = Seqs!Front(s) /\ n = Len(s)
  OBVIOUS
<1>2. /\ IsSeq(f) /\ n \in Nat \ {0} /\ Len(f) = n - 1 /\ \A j \in 1..n-1 : f[j] = s[j]
  BY <1>1, FrontAndLast
<1>3. DOMAIN s = 1..n /\ DOMAIN f = 1..n-1
  BY <1>1, <1>2, SeqFacts
<1> QED
  BY <1>1, <1>2, <1>3 DEF Range

(* Keys are given and cards played from what the player has filed.         *)
LEMMA FiledDeals ==
  ASSUME ProtocolInv, TableInv, CardsInv, NEW p \in Players, Player(p), Alone(p),
         mem'[p].cardPairs = mem[p].cardPairs,
         \/ mem'[p].deck = mem[p].deck
         \/ mem[p].deck # <<>> /\ mem'[p].deck = Seqs!Front(mem[p].deck),
         line[p].type \in {"Key", "Give", "Play"}, line'[p].type # "idle"
  PROVE  CardsInv'
<1>1. Shape /\ (pc \notin Terminal => WireInv)
  BY DEF ProtocolInv, Live
<1>2. pc \notin Terminal => pc # "Shuffle"
  BY <1>1, AskedWhere
<1>3. CardInv => IsSeq(mem'[p].deck) /\ Range(mem'[p].deck) \subseteq DOMAIN mem'[p].cardPairs
  BY DeckBelow DEF CardInv, Opening
<1> QED
  BY <1>2, <1>3, AloneDeals DEF Requests

LEMMA NotAnswered ==
  ASSUME ProtocolInv, TableInv, CardsInv, NEW p \in Players, Player(p),
         line[p].type \in {"Key", "Give", "Play"}, Refuse(p), UNCHANGED mem
  PROVE  CardsInv'
<1>1. Alone(p) /\ line'[p].type # "idle" /\ mem'[p] = mem[p]
  BY DEF ProtocolInv, Shape, Alone, Refuse
<1> QED
  BY <1>1, FiledDeals

LEMMA GetKeyDeals ==
  ASSUME ProtocolInv, TableInv, CardsInv, NEW p \in Players, Player(p), GetKey(p)
  PROVE  CardsInv'
<1> DEFINE last == Seqs!Last(mem[p].deck)
           to == line[p].to
           shown == /\ mem[p].lastEvent # NoEvent /\ mem[p].lastEvent.hand # NoHand
                    /\ \A i \in DOMAIN mem[p].lastEvent.hand.discard :
                         Value(mem[p].lastEvent.hand.discard[i]) = WildDrawFour
           ok == IF to = None THEN shown ELSE to # p /\ last \notin mem[p].given
           given0 == IF to # None /\ ok THEN mem[p].given \cup {last} ELSE mem[p].given
           key0 == mem[p].cardPairs[last]
<1>1. /\ line[p].type = "Key"
      /\ \/ Refuse(p) /\ UNCHANGED mem
         \/ /\ mem[p].deck # <<>>
            /\ mem' = [mem EXCEPT ![p] = [mem[p] EXCEPT !.deck = Seqs!Front(@), !.given = given0]]
            /\ Answer(p, ok, [type |-> "key", key |-> key0])
  BY Zenon DEF GetKey, Asked, Remember
<1>2. CASE Refuse(p) /\ UNCHANGED mem
  BY <1>1, <1>2, NotAnswered
<1>3. CASE ~(Refuse(p) /\ UNCHANGED mem)
  <2>1. PICK m, r : /\ m = [mem[p] EXCEPT !.deck = Seqs!Front(@), !.given = given0]
                    /\ r = IF ok THEN [type |-> "key", key |-> key0]
                                 ELSE [type |-> "refused", why |-> line[p].type]
    OBVIOUS
  <2> HIDE DEF ok, given0, key0
  <2>2. r.type \in {"key", "refused"}
    BY <2>1
  <2>3. mem[p].deck # <<>> /\ mem' = [mem EXCEPT ![p] = m] /\ line' = [line EXCEPT ![p] = r]
    BY <1>1, <1>3, <2>1 DEF Answer, Refuse, Reply
  <2>4. DOMAIN m = DOMAIN Forgotten /\ m.cardPairs = mem[p].cardPairs /\ m.deck = Seqs!Front(mem[p].deck)
    BY <2>1 DEF ProtocolInv, Shape, Forgotten
  <2> QED
    <3>1. Alone(p) /\ line'[p].type # "idle" /\ mem'[p] = m
      BY <2>2, <2>3, <2>4 DEF ProtocolInv, Shape, Alone
    <3> QED
      BY <1>1, <2>3, <2>4, <3>1, FiledDeals
<1> QED
  BY <1>2, <1>3

LEMMA GiveCardDeals ==
  ASSUME ProtocolInv, TableInv, CardsInv, NEW p \in Players, Player(p), GiveCard(p)
  PROVE  CardsInv'
<1> DEFINE last == Seqs!Last(mem[p].deck)
           others == line[p].keys
           keys == [others EXCEPT ![p] = mem[p].cardPairs[last]]
           open == FoldSet(LAMBDA q, v : DecryptInt(keys[q], v), last, Players)
           ok == /\ last \in DOMAIN mem[p].cardPairs
                 /\ last \notin mem[p].given
                 /\ \A q \in Players : (others[q] = NoKey) = (q = p)
                 /\ Opened(open)
           mine == [card |-> open.card, number |-> last, keys |-> keys]
           cards0 == IF ok THEN Append(mem[p].myCards, mine) ELSE mem[p].myCards
<1>1. /\ line[p].type = "Give"
      /\ \/ Refuse(p) /\ UNCHANGED mem
         \/ /\ mem[p].deck # <<>>
            /\ mem' = [mem EXCEPT ![p] = [mem[p] EXCEPT !.deck = Popped(@), !.given = @ \cup {last},
                         !.myCards = cards0]]
            /\ Answer(p, ok, [type |-> "taken"])
  BY Zenon DEF GiveCard, Asked, Remember
<1>2. CASE Refuse(p) /\ UNCHANGED mem
  BY <1>1, <1>2, NotAnswered
<1>3. CASE ~(Refuse(p) /\ UNCHANGED mem)
  <2>1. PICK m, r : /\ m = [mem[p] EXCEPT !.deck = Popped(@), !.given = @ \cup {last},
                              !.myCards = cards0]
                    /\ r = IF ok THEN [type |-> "taken"]
                                 ELSE [type |-> "refused", why |-> line[p].type]
    OBVIOUS
  <2> HIDE DEF ok, cards0, last
  <2>2. r.type \in {"taken", "refused"}
    BY <2>1
  <2>3. mem[p].deck # <<>> /\ mem' = [mem EXCEPT ![p] = m] /\ line' = [line EXCEPT ![p] = r]
    BY <1>1, <1>3, <2>1 DEF Answer, Refuse, Reply
  <2>4. DOMAIN m = DOMAIN Forgotten /\ m.cardPairs = mem[p].cardPairs /\ m.deck = Seqs!Front(mem[p].deck)
    BY <2>1 DEF ProtocolInv, Shape, Forgotten, Popped
  <2> QED
    <3>1. Alone(p) /\ line'[p].type # "idle" /\ mem'[p] = m
      BY <2>2, <2>3, <2>4 DEF ProtocolInv, Shape, Alone
    <3> QED
      BY <1>1, <2>3, <2>4, <3>1, FiledDeals
<1> QED
  BY <1>2, <1>3

LEMMA PlayDeals ==
  ASSUME ProtocolInv, TableInv, CardsInv, NEW p \in Players, Player(p), Play(p)
  PROVE  CardsInv'
<1>1. line[p].type = "Play"
  BY DEF Play, Asked
<1>2. PICK i \in UIPlays(mem[p]) :
         IF i = NoCard THEN Refuse(p) /\ UNCHANGED mem
         ELSE LET c == mem[p].myCards[i]
              IN  /\ Remember(p, [mem[p] EXCEPT !.myCards = Without(@, i)])
                  /\ \E chosen \in IF IsWild(c.card) THEN ChosenColors ELSE {0} :
                       Reply(p, [type |-> "play", card |-> c.card, number |-> c.number,
                                 keys |-> c.keys, wildColor |-> ColorSent(c.card, chosen)])
  BY Zenon DEF Play
<1>3. CASE i = NoCard
  BY <1>1, <1>2, <1>3, NotAnswered
<1>4. CASE i # NoCard
  <2>1. PICK m : m = [mem[p] EXCEPT !.myCards = Without(@, i)]
    OBVIOUS
  <2>2. PICK r : r.type = "play" /\ line' = [line EXCEPT ![p] = r]
    BY <1>2, <1>4 DEF Reply
  <2>3. mem' = [mem EXCEPT ![p] = m]
    BY <1>2, <1>4, <2>1 DEF Remember
  <2>4. DOMAIN m = DOMAIN Forgotten /\ m.cardPairs = mem[p].cardPairs /\ m.deck = mem[p].deck
    BY <2>1 DEF ProtocolInv, Shape, Forgotten
  <2> QED
    <3>1. Alone(p) /\ line'[p].type # "idle" /\ mem'[p] = m
      BY <2>2, <2>3, <2>4 DEF ProtocolInv, Shape, Alone
    <3> QED
      BY <1>1, <2>3, <2>4, <3>1, FiledDeals
<1> QED
  BY <1>3, <1>4

-----------------------------------------------------------------------------
\* A player's part in a shuffle

LEMMA EncryptedIsProper ==
  ASSUME NEW key, NEW v, Proper(v), Hidden(v) => <<key, -1>> \notin v.powers
  PROVE  Proper(EncryptInt(key, v)) /\ EncryptInt(key, v).card = v.card
<1>1. EncryptInt(key, v) = [card |-> v.card,
                            powers |-> IF Hidden(v) THEN v.powers \cup {<<key, 1>>} ELSE v.powers]
  BY DEF EncryptInt, Exp, Hidden, IsNumber, Proper
<1> QED
  BY <1>1 DEF Proper, IsNumber, Hidden

LEMMA DecryptedIsProper ==
  ASSUME NEW key, NEW v, Proper(v), Hidden(v) => <<key, 1>> \in v.powers
  PROVE  Proper(DecryptInt(key, v)) /\ DecryptInt(key, v).card = v.card
<1>1. DecryptInt(key, v) = [card |-> v.card,
                            powers |-> IF Hidden(v) THEN v.powers \ {<<key, 1>>} ELSE v.powers]
  BY DEF DecryptInt, Exp, Hidden, IsNumber, Proper
<1> QED
  BY <1>1 DEF Proper, IsNumber, Hidden

(* It is enough that the answer has the cards of the request, as numbers,  *)
(* and that the player has filed keys for the deck it takes.               *)
LEMMA StageDeals ==
  ASSUME ProtocolInv, TableInv, CardsInv, NEW p \in Players, Player(p),
         ShuffleStage0(p) \/ ShuffleStage1(p) \/ ShuffleStage2(p),
         pc \notin Terminal /\ CardInv =>
           /\ line'[p].type = "cards" =>
                /\ \A i \in DOMAIN line'[p].cards : Proper(line'[p].cards[i])
                /\ ToBeShuffled(line'[p].cards)
           /\ IsSeq(mem'[p].deck) /\ Range(mem'[p].deck) \subseteq DOMAIN mem'[p].cardPairs
  PROVE  CardsInv'
<1>1. Shape /\ (pc \notin Terminal => WireInv)
  BY DEF ProtocolInv, Live
<1>2. /\ Alone(p) /\ ShuffleIsExpected(mem[p], line[p])
      /\ line[p].type = "Shuffle" /\ line'[p].type \in {"cards", "taken"}
  BY <1>1, ShuffleUntold
<1>3. UNCHANGED <<pc, deck, held, seen, discard, hand, start, work, seat>>
  BY DEF Player, table, game, passing
<1>4. pc \notin Terminal => pc = "Shuffle" /\ p = seat
  BY <1>1, <1>2, AskedWhere
<1>5. pc \notin Terminal => ~Doomed
  BY <1>2, <1>4, FullDeckRefused DEF Doomed
<1>6. ASSUME pc \notin Terminal, CardInv
      PROVE  CardInv'
  <2>1. pc = "Shuffle" /\ p = seat /\ Opening /\ Shuffled
    BY <1>4, <1>6 DEF CardInv
  <2>2. PICK cards : cards = line'[p].cards
    OBVIOUS
  <2>3. line'[seat'].cards = cards /\ (line'[p].type = "cards" =>
          (\A i \in DOMAIN cards : Proper(cards[i])) /\ ToBeShuffled(cards))
    BY <1>3, <1>6, <2>1, <2>2
  <2>4. \A q \in Players : IsSeq(mem'[q].deck) /\ Range(mem'[q].deck) \subseteq DOMAIN mem'[q].cardPairs
    BY <1>2, <1>6, <2>1 DEF Opening, Alone
  <2>5. Opening'
    <3>1. \A v : Proper(v)' <=> Proper(v)
      BY DEF Proper, IsNumber, Hidden
    <3> QED
      BY <1>3, <2>1, <2>3, <2>4, <3>1 DEF Opening, IsSeq, Range
  <2>6. Shuffled'
    <3>1. PICK f, g : f = FacesOf(work) /\ g = FacesOf(cards)
      OBVIOUS
    <3>2. FacesOf(work)' = f /\ FacesOf(line[seat].cards)' = g
      BY <1>3, <2>3, <3>1 DEF FacesOf
    <3>3. /\ Apart(f) /\ Range(f) = Range(start)
          /\ line'[p].type = "cards" => Apart(g) /\ Range(g) = Range(start)
      BY <2>1, <2>3, <3>1 DEF Shuffled, ToBeShuffled
    <3>4. ToBeShuffled(work)' /\ (line'[p].type = "cards" => ToBeShuffled(line[seat].cards)')
      <4>1. ToBeShuffled(work)'
        BY <1>3, <3>2, <3>3 DEF ToBeShuffled, Apart, Range
      <4>2. line'[p].type = "cards" => ToBeShuffled(line[seat].cards)'
        BY <1>3, <3>2, <3>3 DEF ToBeShuffled, Apart, Range
      <4> QED
        BY <4>1, <4>2
    <3>5. Apart(discard)' /\ HeldApart' /\ HeldFaces' = HeldFaces
      BY <1>3, <2>1 DEF Shuffled, Apart, HeldApart, HeldFaces
    <3>6. Parted(Range(start), HeldFaces, Range(AfterReshuffle(discard)))'
      BY <1>3, <2>1, <3>5 DEF Shuffled, Parted, Range, AfterReshuffle
    <3> QED
      BY <1>3, <2>1, <3>4, <3>5, <3>6 DEF Shuffled
  <2> QED
    BY <1>3, <1>6, <2>1, <2>5, <2>6 DEF CardInv, Dealt
<1> QED
  BY <1>2, <1>5, <1>6, AnswerDeals DEF Requests

(* One key for all, in any order.                                          *)
LEMMA Stage0Deals ==
  ASSUME ProtocolInv, TableInv, CardsInv, NEW p \in Players, Player(p), ShuffleStage0(p)
  PROVE  CardsInv'
<1>1. Shape
  BY DEF ProtocolInv
<1> DEFINE req == line[p].cards
           key0 == <<p, mem[p].shuffles + 1, 0>>
           numbers0 == {EncryptInt(key0, req[i]) : i \in DOMAIN req}
           from0 == IF mem[p].start = <<>> THEN line[p].start ELSE mem[p].start
<1>2. /\ line[p].type = "Shuffle" /\ line[p].stage = 0
      /\ mem' = [mem EXCEPT ![p] = [mem[p] EXCEPT !.start = from0, !.stage0 = key0,
                                       !.shuffles = @ + 1]]
      /\ \E cards \in Seqs!SetToSeqs(numbers0) :
           line' = [line EXCEPT ![p] = [type |-> "cards", cards |-> cards]]
  BY Zenon DEF ShuffleStage0, Remember, Reply, Asked
<1>3. PICK key, numbers, from : key = key0 /\ numbers = numbers0 /\ from = from0
  OBVIOUS
<1> HIDE DEF numbers0, from0
<1>4. PICK cards : /\ cards \in Seqs!SetToSeqs(numbers)
                   /\ mem' = [mem EXCEPT ![p] = [mem[p] EXCEPT !.start = from, !.stage0 = key,
                                                    !.shuffles = @ + 1]]
                   /\ line' = [line EXCEPT ![p] = [type |-> "cards", cards |-> cards]]
  BY <1>2, <1>3
<1>5. /\ line'[p].type = "cards" /\ line'[p].cards = cards
      /\ mem'[p].deck = mem[p].deck /\ mem'[p].cardPairs = mem[p].cardPairs
  BY <1>1, <1>4 DEF Shape, Forgotten
<1>6. ASSUME pc \notin Terminal, CardInv
      PROVE  (\A i \in DOMAIN cards : Proper(cards[i])) /\ ToBeShuffled(cards)
  <2>1. /\ pc = "Shuffle" /\ req = work /\ stage = 0 /\ key = <<p, shuffles, 0>>
        /\ \A i \in DOMAIN work : Hidden(work[i]) => work[i].powers = Halfway(0, p, i)
    <3>1. /\ pc = "Shuffle" /\ req = work /\ stage = 0
          /\ shuffles \in Nat /\ mem[p].shuffles = shuffles - 1
          /\ \A i \in DOMAIN work : Hidden(work[i]) => work[i].powers = Halfway(stage, p, i)
      BY <1>2, <1>6, AskedToShuffle
    <3> QED
      BY <1>3, <3>1
  <2>2. Opening /\ ToBeShuffled(work)
    BY <1>6, <2>1 DEF CardInv, Shuffled
  <2>3. PICK g : g = [i \in DOMAIN work |-> EncryptInt(key, work[i])]
    OBVIOUS
  <2>4. DOMAIN g = DOMAIN work /\ \A i \in DOMAIN work : Proper(g[i]) /\ g[i].card = work[i].card
    <3>1. ASSUME NEW i \in DOMAIN work
          PROVE  Proper(g[i]) /\ g[i].card = work[i].card
      <4>1. PICK w : w = work[i]
        OBVIOUS
      <4>2. Proper(w) /\ (Hidden(w) => <<key, -1>> \notin w.powers)
        BY <2>1, <2>2, <4>1 DEF Opening, Halfway
      <4>3. g[i] = EncryptInt(key, w)
        BY <2>3, <4>1
      <4> QED
        BY <4>1, <4>2, <4>3, EncryptedIsProper
    <3> QED
      BY <2>3, <3>1
  <2>5. numbers = {g[i] : i \in DOMAIN work}
    <3>1. numbers = {EncryptInt(key, req[i]) : i \in DOMAIN req}
      BY <1>3 DEF numbers0
    <3> QED
      BY <2>1, <2>3, <3>1
  <2>6. IsSeq(cards) /\ Apart(cards) /\ Range(cards) = numbers
    <3>1. IsFiniteSet(DOMAIN work)
      <4>1. DOMAIN work = 1..Len(work) /\ Len(work) \in Nat
        BY <1>1, SeqFacts DEF Shape
      <4> QED
        BY <4>1, 1 \in Int, Len(work) \in Int, FS_Interval
    <3>2. g \in Surjection(DOMAIN work, numbers)
      BY <2>3, <2>5 DEF Surjection
    <3>3. IsFiniteSet(numbers)
      BY <3>1, <3>2, FS_Surjection
    <3> QED
      BY <1>4, <3>3, OrdersApart
  <2>7. \A j \in DOMAIN cards : \E i \in DOMAIN work : cards[j] = g[i]
    BY <2>5, <2>6 DEF Range
  <2>8. \A i \in DOMAIN work : \E j \in DOMAIN cards : cards[j] = g[i]
    BY <2>5, <2>6 DEF Range
  <2>9. \A i, j \in DOMAIN work : work[i].card = work[j].card => i = j
    BY <2>2 DEF ToBeShuffled, Apart, FacesOf
  <2>10. \A i, j \in DOMAIN cards : cards[i].card = cards[j].card => i = j
    BY <2>4, <2>6, <2>7, <2>9 DEF Apart
  <2>11. {cards[j].card : j \in DOMAIN cards} = {work[i].card : i \in DOMAIN work}
    BY <2>4, <2>7, <2>8
  <2>12. Apart(FacesOf(cards))
    BY <2>10 DEF Apart, FacesOf
  <2>13. Range(FacesOf(cards)) = Range(FacesOf(work))
    BY <2>11 DEF Range, FacesOf
  <2>14. Range(FacesOf(work)) = Range(start)
    BY <2>2 DEF ToBeShuffled
  <2> QED
    BY <2>4, <2>7, <2>12, <2>13, <2>14 DEF ToBeShuffled
<1> QED
  BY <1>5, <1>6, StageDeals DEF CardInv, Opening

(* One by one, each keeps its card.                                        *)
LEMMA Stage1Deals ==
  ASSUME ProtocolInv, TableInv, CardsInv, NEW p \in Players, Player(p), ShuffleStage1(p)
  PROVE  CardsInv'
<1>1. Shape
  BY DEF ProtocolInv
<1> DEFINE req == line[p].cards
           keys0 == [i \in DOMAIN req |-> Stage1Key(p, mem[p], i)]
           cards0 == [i \in DOMAIN keys0 |->
                        EncryptInt(keys0[i], DecryptInt(mem[p].stage0, req[i]))]
<1>2. /\ line[p].type = "Shuffle" /\ line[p].stage = 1
      /\ mem' = [mem EXCEPT ![p] = [mem[p] EXCEPT !.stage1 = keys0, !.stage0 = NoKey]]
      /\ line' = [line EXCEPT ![p] = [type |-> "cards", cards |-> cards0]]
  BY Zenon DEF ShuffleStage1, Remember, Reply, Asked
<1>3. PICK keys, cards : keys = keys0 /\ cards = cards0
  OBVIOUS
<1>4. /\ keys = [i \in DOMAIN req |-> <<p, mem[p].shuffles, i>>]
      /\ cards = [i \in DOMAIN keys |-> EncryptInt(keys[i], DecryptInt(mem[p].stage0, req[i]))]
  BY <1>3 DEF Stage1Key
<1> HIDE DEF keys0, cards0
<1>5. /\ line'[p].type = "cards" /\ line'[p].cards = cards
      /\ mem'[p].deck = mem[p].deck /\ mem'[p].cardPairs = mem[p].cardPairs
  BY <1>1, <1>2, <1>3 DEF Shape, Forgotten
<1>6. ASSUME pc \notin Terminal, CardInv
      PROVE  (\A i \in DOMAIN cards : Proper(cards[i])) /\ ToBeShuffled(cards)
  <2>1. /\ pc = "Shuffle" /\ req = work /\ stage = 1 /\ mem[p].shuffles = shuffles
        /\ mem[p].stage0 = <<p, shuffles, 0>>
        /\ \A i \in DOMAIN work : Hidden(work[i]) => work[i].powers = Halfway(1, p, i)
    <3>1. /\ pc = "Shuffle" /\ req = work /\ stage = 1
          /\ mem[p].shuffles = IF stage = 0 THEN shuffles - 1 ELSE shuffles
          /\ stage = 1 => mem[p].stage0 = <<p, shuffles, 0>>
          /\ \A i \in DOMAIN work : Hidden(work[i]) => work[i].powers = Halfway(stage, p, i)
      BY <1>2, <1>6, AskedToShuffle
    <3> QED
      BY <3>1
  <2>2. Opening /\ ToBeShuffled(work)
    BY <1>6, <2>1 DEF CardInv, Shuffled
  <2>3. PICK key : key = <<p, shuffles, 0>>
    OBVIOUS
  <2>4. /\ DOMAIN cards = DOMAIN work
        /\ \A i \in DOMAIN work : cards[i] = EncryptInt(<<p, shuffles, i>>, DecryptInt(key, work[i]))
    BY <1>4, <2>1, <2>3
  <2>5. ASSUME NEW i \in DOMAIN work
        PROVE  Proper(cards[i]) /\ cards[i].card = work[i].card
    <3>1. i # 0
      BY <1>1, <2>5, SeqFacts DEF Shape
    <3>2. PICK v, own : v = work[i] /\ own = <<p, shuffles, i>>
      OBVIOUS
    <3>3. /\ Proper(v)
          /\ Hidden(v) =>
               v.powers = {<<<<q, shuffles, IF q < p THEN i ELSE 0>>, 1>> : q \in Players}
      BY <2>1, <2>2, <3>2 DEF Opening, Halfway
    <3>4. ~(p < p)
      BY NAssumption DEF Players
    <3>5. Hidden(v) => <<key, 1>> \in v.powers
      BY <2>3, <3>3, <3>4
    <3>6. PICK w : w = DecryptInt(key, v)
      OBVIOUS
    <3>7. Proper(w) /\ w.card = v.card
      BY <3>3, <3>5, <3>6, DecryptedIsProper
    <3>8. Hidden(w) => w.powers = v.powers \ {<<key, 1>>}
      BY <3>3, <3>5, <3>6, <3>7, Decrypts DEF Proper, Hidden
    <3>9. Hidden(w) => <<own, -1>> \notin w.powers
      BY <3>3, <3>7, <3>8 DEF Hidden
    <3>10. cards[i] = EncryptInt(own, w)
      BY <2>4, <3>2, <3>6
    <3> QED
      BY <3>2, <3>7, <3>9, <3>10, EncryptedIsProper
  <2>6. FacesOf(cards) = FacesOf(work)
    BY <2>4, <2>5 DEF FacesOf
  <2>7. ToBeShuffled(cards)
    BY <2>2, <2>6 DEF ToBeShuffled
  <2> QED
    BY <2>4, <2>5, <2>7
<1> QED
  BY <1>5, <1>6, StageDeals DEF CardInv, Opening

(* The deck that is taken has keys.                                        *)
LEMMA Stage2Deals ==
  ASSUME ProtocolInv, TableInv, CardsInv, NEW p \in Players, Player(p), ShuffleStage2(p)
  PROVE  CardsInv'
<1>1. Shape
  BY DEF ProtocolInv
<1> DEFINE filed0 == Filed(mem[p], line[p].cards)
<1>2. PICK filed, pairs, cards :
        filed = filed0 /\ pairs = PutAll(mem[p].cardPairs, filed) /\ cards = line[p].cards
  OBVIOUS
<1>3. /\ line[p].type = "Shuffle" /\ line[p].stage = 2
      /\ mem' = [mem EXCEPT ![p] = [mem[p] EXCEPT !.cardPairs = pairs, !.deck = cards,
                                       !.stage1 = <<>>]]
      /\ line' = [line EXCEPT ![p] = [type |-> "taken"]]
  BY <1>2, Zenon DEF ShuffleStage2, Remember, Reply, Asked
<1>4. Range(cards) \subseteq DOMAIN pairs
  BY <1>2 DEF Filed, PutAll
<1>5. line'[p].type = "taken" /\ mem'[p].deck = cards /\ mem'[p].cardPairs = pairs
  BY <1>1, <1>3 DEF Shape, Forgotten
<1>6. pc \notin Terminal => IsSeq(cards)
  BY <1>1, <1>2, <1>3, AskedToShuffle DEF Shape
<1> HIDE DEF filed0
<1> QED
  BY <1>4, <1>5, <1>6, StageDeals

LEMMA ShuffleRefusedDeals ==
  ASSUME ProtocolInv, TableInv, CardsInv, NEW p \in Players, Player(p), ShuffleRefused(p)
  PROVE  CardsInv'
<1>1. Alone(p) /\ line[p].type = "Shuffle" /\ line'[p].type = "refused"
  BY DEF ProtocolInv, ShuffleRefused, Asked, Refuse, Shape, Alone
<1> QED
  BY <1>1, AnswerDeals DEF Requests
-----------------------------------------------------------------------------
\* The theorem

LEMMA InitDeals == Init => CardsInv
<1> SUFFICES ASSUME Init
             PROVE  CardsInv
  OBVIOUS
<1> USE DEF Init, HandlerInit, Forgotten
<1>1. DOMAIN <<>> = {} /\ IsSeq(<<>>)
  BY EmptyIsSeq
<1>2. Opening
  BY <1>1 DEF Opening, Range
<1> QED
  BY <1>2 DEF CardsInv, CardInv, Dealt, Terminal

LEMMA HostDeals ==
  ASSUME ProtocolInv, TableInv, CardsInv, Host
  PROVE  CardsInv'
BY AnnounceDeals, StartsDeal, TurnsDeal, AsksDeal, EndsDeal, RefusalDeals, HandStartedDeals,
   ReshuffleDeals, PassOnDeals, ShuffleDoneDeals, KeysGivenDeals, TurnedUpDeals, CardPlayedDeals,
   Zenon DEF Host

LEMMA PlayerDeals ==
  ASSUME ProtocolInv, TableInv, CardsInv, NEW p \in Players, Player(p)
  PROVE  CardsInv'
BY OthersDeal, GetKeyDeals, GiveCardDeals, PlayDeals, Stage0Deals, Stage1Deals, Stage2Deals,
   ShuffleRefusedDeals, Zenon DEF Player, Handle

LEMMA StutterDeals ==
  ASSUME CardsInv, UNCHANGED vars
  PROVE  CardsInv'
<1>1. UNCHANGED <<pc, deck, held, seen, discard, hand, line, mem, start, work, stage, seat,
                  event, late>>
  BY DEF vars, table, game, passing, wires, told
<1>2. DeckOpens => DeckOpens'
  <2>1. Resting /\ hand > 0 /\ OpenDeck => OpenDeck'
    BY <1>1, NoDeckStays
  <2> QED
    BY <1>1, <2>1 DEF DeckOpens, OpenDeck, Resting, Idle
<1>3. Doomed => Doomed'
  BY <1>1 DEF Doomed, Told3, Told1, Outdated, FullDeck, M
<1>4. CardInv => CardInv'
  <2>1. Opening => Opening'
    BY <1>1 DEF Opening, Proper, IsNumber, Hidden
  <2>2. Split => Split'
    BY <1>1, SplitStays
  <2>3. Shuffled => Shuffled'
    <3> SUFFICES ASSUME Shuffled
                 PROVE  Shuffled'
      OBVIOUS
    <3>1. ToBeShuffled(work)' /\ (line[seat].type = "cards" => ToBeShuffled(line[seat].cards)')
      <4>1. PICK f, g : f = FacesOf(work) /\ g = FacesOf(line[seat].cards)
        OBVIOUS
      <4>2. FacesOf(work)' = f /\ FacesOf(line[seat].cards)' = g
        BY <1>1, <4>1 DEF FacesOf
      <4>3. /\ Apart(f) /\ Range(f) = Range(start)
            /\ line[seat].type = "cards" => Apart(g) /\ Range(g) = Range(start)
        BY <4>1 DEF Shuffled, ToBeShuffled
      <4>4. ToBeShuffled(work)'
        BY <1>1, <4>2, <4>3 DEF ToBeShuffled, Apart, Range
      <4>5. line[seat].type = "cards" => ToBeShuffled(line[seat].cards)'
        BY <1>1, <4>2, <4>3 DEF ToBeShuffled, Apart, Range
      <4> QED
        BY <4>4, <4>5
    <3>2. Apart(discard)' /\ HeldApart' /\ HeldFaces' = HeldFaces
      BY <1>1 DEF Shuffled, Apart, HeldApart, HeldFaces
    <3>3. Parted(Range(start), HeldFaces, Range(AfterReshuffle(discard)))'
      BY <1>1, <3>2 DEF Shuffled, Parted, Range, AfterReshuffle
    <3> QED
      BY <1>1, <3>1, <3>2, <3>3 DEF Shuffled
  <2> QED
    BY <1>1, <2>1, <2>2, <2>3 DEF CardInv, Dealt
<1> QED
  BY <1>1, <1>2, <1>3, <1>4 DEF CardsInv, Unrefused, Terminal

LEMMA TableInvariant == ASSUME Dealable PROVE Spec => []TableInv
<1>1. ProtocolInv /\ TableInv /\ [Next]_vars => TableInv'
  BY HostAgrees, PlayerAgrees, ArriveAgrees, StutterAgrees DEF Next, Finished
<1> QED
  BY <1>1, InitAgrees, ProtocolInvariant, PTL DEF Spec

LEMMA CardsInvariant == ASSUME Dealable PROVE Spec => []CardsInv
<1>1. ProtocolInv /\ TableInv /\ CardsInv /\ [Next]_vars => CardsInv'
  BY HostDeals, PlayerDeals, ArriveDeals, StutterDeals DEF Next, Finished
<1> QED
  BY <1>1, InitDeals, TableInvariant, ProtocolInvariant, PTL DEF Spec

(* Between two requests every card of the deck opens with the keys its     *)
(* players have filed (handler_player.go), whatever the order they have    *)
(* shuffled it in, and the deck, the hands and the discards (deck.go) are  *)
(* the cards of the start, each once.                                      *)
THEOREM DeckAlwaysOpens ==
  ASSUME N * HandSize \in 1..Cardinality(StartCards)-1
  PROVE  Spec => []DeckOpens
<1>1. Dealable
  BY DEF Dealable, M
<1>2. ProtocolInv /\ TableInv /\ CardsInv => DeckOpens
  BY RestingOpens
<1> QED
  BY <1>1, <1>2, TableInvariant, CardsInvariant, ProtocolInvariant, PTL

(***************************************************************************)
(* The steps of CardTable: in which order a hand comes to them, and that   *)
(* each step of the game is one of them or leaves the table as it is.      *)
(***************************************************************************)

Drawings == Drawing \cup {"Shuffle", "Shuffled"}

(* What is asked for when a hand begins is what the top card calls for.    *)
TopCalls ==
  /\ pc \in {"FirstCard", "FirstKeys"} /\ discard # <<>> => TopValue = WildDrawFour
  /\ pc = "FirstColor" => TopValue = Wild
  /\ pc = "FirstEffect" => TopValue \in {Skip, Reverse}
  /\ pc \in Drawings /\ job.then = "Turn" => TopValue = DrawTwo

OnlyOneIsOut == \E p \in Players : \A q \in Players : Owned(q) = {} <=> q = p

(* Signatures are there from the first end of a hand on; the discards are  *)
(* shuffled from under the top card; colors are those an interface chooses *)
(* from, or 0; and one player is out of cards when a hand ends.            *)
OrderInv ==
  /\ TopCalls
  /\ pc \in {"Start", "GameStart"} => endSigs = NoSigs
  /\ pc \in {"HandOver", "AfterHand"} => endSigs # NoSigs
  /\ pc = "Shuffle" => start = FromCards(Below)
  /\ pc = "FirstColor" =>
       \/ line[turn].type \in {"ChooseColor", "refused"}
       \/ line[turn].type = "color" /\ line[turn].color \in ChosenColors
  /\ pc \in {"Play", "PlayAgain"} /\ line[turn].type = "play" => line[turn].wildColor = 0
  /\ pc \in {"HandReveal", "HandSign"} => OnlyOneIsOut

LEMMA TopStays == discard' = discard => TopValue' = TopValue /\ FromCards(Below)' = FromCards(Below)
<1> SUFFICES ASSUME discard' = discard
             PROVE  TopValue' = TopValue /\ FromCards(Below)' = FromCards(Below)
  OBVIOUS
<1>1. Seqs!Last(discard)' = Seqs!Last(discard) /\ Below' = Below
  BY DEF Seqs!Last, Below, Seqs!Front
<1>2. FullDeck' = FullDeck
  BY DEF FullDeck
<1> QED
  BY <1>1, <1>2 DEF TopValue, Value, FromCards, Wild, WildDrawFour, DrawTwo, Skip, Reverse

(* Almost everywhere a step says nothing of what OrderInv is about.        *)
Plainly ==
  {"NewHand", "HandStart", "Deal", "FirstShown", "Turn", "Again", "Nothing", "Discarded", "Effect",
   "Challenge", "Reveal", "EndTurn", "GameEnd"} \cup Terminal

LEMMA PlainOrder == pc \in Plainly => OrderInv
BY DEF Plainly, Terminal, OrderInv, TopCalls, Drawings, Drawing

LEMMA PlainOrderNext == pc' \in Plainly => OrderInv'
BY DEF Plainly, Terminal, OrderInv, TopCalls, Drawings, Drawing

(* While the discards stay, so does what the top card calls for.           *)
LEMMA DrawsOn ==
  ASSUME OrderInv, pc \in Drawings \ {"Shuffle"}, pc' \in Drawings \ {"Shuffle"},
         UNCHANGED discard, job'.then = job.then
  PROVE  OrderInv'
BY TopStays DEF OrderInv, TopCalls, Drawings, Drawing, DrawTwo

LEMMA AnnounceOrders ==
  ASSUME Shape, OrderInv, Announce
  PROVE  OrderInv'
<1>1. /\ pc \in {"Shuffled", "Drawn", "FirstShown", "FirstEffect", "Nothing", "Discarded",
                 "HandOver", "Effect"}
      /\ pc' = Announcement[2] /\ UNCHANGED <<discard, job, endSigs>>
  BY DEF Announce, game, table
<1>2. CASE pc = "Shuffled"
  <2>1. pc' \in {"Deal", "Draw"}
    BY <1>1, <1>2 DEF Announcement
  <2> QED
    BY <1>1, <1>2, <2>1, DrawsOn, PlainOrderNext DEF Plainly, Drawings, Drawing
<1>3. CASE pc = "Drawn"
  <2>1. pc' = job.then
    BY <1>1, <1>3 DEF Announcement
  <2> QED
    BY <2>1 DEF Shape, OrderInv, TopCalls, Drawings, Drawing
<1>4. CASE pc = "FirstShown"
  <2>1. pc' = AfterFirst /\ TopValue' = TopValue
    BY <1>1, <1>4, TopStays DEF Announcement
  <2>2. \/ pc' = "FirstCard" /\ TopValue = WildDrawFour
        \/ pc' = "Draw" /\ TopValue = DrawTwo
        \/ pc' = "FirstEffect" /\ TopValue \in {Skip, Reverse}
        \/ pc' = "Turn"
    BY <2>1 DEF AfterFirst
  <2> QED
    BY <2>1, <2>2 DEF OrderInv, TopCalls, Drawings, Drawing, Skip, Reverse, DrawTwo, WildDrawFour
<1>5. CASE pc = "HandOver"
  <2>1. pc' = "AfterHand"
    BY <1>1, <1>5 DEF Announcement
  <2> QED
    BY <1>1, <1>5, <2>1 DEF OrderInv, TopCalls, Drawings, Drawing, NoSigs
<1>6. CASE pc \in {"FirstEffect", "Nothing", "Discarded", "Effect"}
  <2>1. pc' \in {"Turn", "EndTurn", "Effect"}
    BY <1>1, <1>6 DEF Announcement
  <2> QED
    BY <2>1, PlainOrderNext DEF Plainly
<1> QED
  BY <1>1, <1>2, <1>3, <1>4, <1>5, <1>6

LEMMA StartsOrder ==
  ASSUME OrderInv,
         \/ StartGame \/ GameStarted \/ StartHand \/ HandStarted \/ AfterHand \/ GameEnded
         \/ PlayerRefuses
  PROVE  OrderInv'
<1>1. CASE GameStarted \/ StartHand \/ AfterHand \/ GameEnded \/ PlayerRefuses
  <2>1. pc' \in {"NewHand", "HandStart", "GameEnd"} \cup Terminal
    BY <1>1 DEF GameStarted, StartHand, AfterHand, GameEnded, PlayerRefuses, Terminal
  <2> QED
    BY <2>1, PlainOrderNext DEF Plainly
<1>2. CASE StartGame
  <2>1. pc' = "GameStart" /\ endSigs' = endSigs /\ pc = "Start"
    BY <1>2 DEF StartGame, game
  <2> QED
    BY <2>1 DEF OrderInv, TopCalls, Drawings, Drawing, NoSigs
<1>3. CASE HandStarted
  <2>1. CASE pc' = "Panicked"
    BY <2>1, PlainOrderNext DEF Plainly, Terminal
  <2>2. CASE discard' = <<>> /\ job' = NoJob /\ Shuffle(<<>>)
    <3>1. pc' = "Shuffle" /\ start' = FullDeck
      BY <2>2 DEF Shuffle, FromCards
    <3>2. Below' = <<>> /\ FromCards(<<>>) = FullDeck
      BY <2>2 DEF Below, FromCards
    <3>3. FullDeck' = FullDeck
      BY DEF FullDeck
    <3>4. start' = FromCards(Below)'
      BY <3>1, <3>2, <3>3 DEF FromCards
    <3> QED
      BY <2>2, <3>1, <3>4 DEF OrderInv, TopCalls, Drawings, Drawing, NoJob
  <2> QED
    BY <1>3, <2>1, <2>2 DEF HandStarted
<1> QED
  BY <1>1, <1>2, <1>3

LEMMA ShufflesOrder ==
  ASSUME ProtocolInv, TableInv, CardsInv, OrderInv, Reshuffle \/ PassOn \/ ShuffleDone
  PROVE  OrderInv'
<1>0. /\ pc \in {"Draw", "Shuffle"} /\ (pc = "Shuffle" => Back("Shuffle"))
      /\ job' = job
  BY DEF Reshuffle, PassOn, ShuffleDone, Back
<1>1. Sound /\ Shape
  BY <1>0, GoesOn DEF Going, Waiting, Terminal, ProtocolInv
<1>2. CASE Reshuffle
  <2>1. pc = "Draw" /\ deck = <<>> /\ Shuffle(Seqs!Front(discard)) /\ UNCHANGED discard
    BY <1>2 DEF Reshuffle, table
  <2>2. discard # <<>>
    BY <1>1, <2>1 DEF Sound, Place, Drawing
  <2>3. pc' = "Shuffle" /\ start' = FromCards(Below)
    BY <2>1, <2>2 DEF Shuffle, Below
  <2> QED
    BY <1>0, <2>1, <2>3, TopStays DEF OrderInv, TopCalls, Drawings, Drawing, DrawTwo
<1>3. CASE PassOn
  <2>1. pc = "Shuffle" /\ UNCHANGED <<discard, start>> /\ pc' \in {"Shuffle", "Failed"}
    BY <1>3 DEF PassOn, Back, table
  <2> QED
    BY <1>0, <2>1, TopStays DEF OrderInv, TopCalls, Drawings, Drawing, DrawTwo
<1>4. CASE ShuffleDone
  <2>1. pc = "Shuffle" /\ discard' = AfterReshuffle(discard) /\ pc' = "Shuffled"
    BY <1>4 DEF ShuffleDone, Back
  <2>2. job.then = "Turn" => discard # <<>>
    BY <1>1, <2>1 DEF Sound, Place, Doomed, NoJob
  <2>3. discard # <<>> => TopValue' = TopValue
    <3> SUFFICES ASSUME discard # <<>>
                 PROVE  TopValue' = TopValue
      OBVIOUS
    <3>1. PICK c : c = Seqs!Last(discard)
      OBVIOUS
    <3>2. discard' = <<c>>
      BY <2>1, <3>1 DEF AfterReshuffle
    <3>3. Seqs!Last(discard)' = c
      BY <3>2 DEF Seqs!Last
    <3> QED
      BY <3>1, <3>3 DEF TopValue, Value, Wild, WildDrawFour, DrawTwo, Skip, Reverse
  <2> QED
    BY <1>0, <2>1, <2>2, <2>3 DEF OrderInv, TopCalls, Drawings, Drawing, DrawTwo
<1> QED
  BY <1>2, <1>3, <1>4

LEMMA DealsOrder ==
  ASSUME ProtocolInv, TableInv, CardsInv, OrderInv,
         Deal \/ DealTo \/ KeysGiven \/ CardGiven \/ TurnUp \/ TurnedUp \/ FirstColor
  PROVE  OrderInv'
<1>0. /\ pc \in {"Deal", "Draw", "Keys", "Give", "FirstCard", "FirstKeys", "FirstColor"}
      /\ pc \in {"Keys", "Give", "FirstKeys", "FirstColor"} => Back(pc)
  BY DEF Deal, DealTo, KeysGiven, CardGiven, TurnUp, TurnedUp, FirstColor, Back
<1>1. Sound /\ Shape
  BY <1>0, GoesOn DEF Going, Waiting, Terminal, ProtocolInv
<1>2. CASE Deal
  <2>1. pc = "Deal" /\ discard' = discard /\ discard = <<>>
    BY <1>1, <1>2 DEF Deal, table, Sound, Place
  <2>2. (pc' = "Draw" /\ job'.then = "Deal") \/ pc' = "FirstCard"
    BY <1>2 DEF Deal, StartDraw
  <2> QED
    BY <2>1, <2>2 DEF OrderInv, TopCalls, Drawings, Drawing
<1>3. CASE DealTo \/ KeysGiven \/ CardGiven
  <2>1. /\ pc \in {"Draw", "Keys", "Give"} /\ discard' = discard /\ job'.then = job.then
        /\ pc' \in {"Keys", "Give", "Draw", "Drawn", "Panicked"}
    BY <1>1, <1>3 DEF DealTo, KeysGiven, CardGiven, Back, table, Shape, NoJob
  <2> QED
    BY <2>1, DrawsOn, PlainOrderNext DEF Drawings, Drawing, Plainly, Terminal
<1>4. CASE TurnUp
  <2>1. pc = "FirstCard" /\ pc' = "FirstKeys" /\ discard' = discard
    BY <1>4 DEF TurnUp, table
  <2> QED
    BY <2>1, TopStays DEF OrderInv, TopCalls, Drawings, Drawing, WildDrawFour
<1>5. CASE TurnedUp
  <2> DEFINE c == Decrypted(Seqs!Last(deck), KeysIn).card
  <2>1. /\ discard' = Append(discard, c) /\ turn' = turn
        /\ \/ pc' = "FirstColor" /\ Value(c) = Wild /\ Call(turn, [type |-> "ChooseColor"])
           \/ pc' \in {"FirstShown", "Failed"}
    BY <1>5 DEF TurnedUp
  <2> HIDE DEF c
  <2>2. Seqs!Last(discard') = c
    BY <1>1, <2>1, AppendApart DEF Shape
  <2>3. TopValue' = Value(c)
    BY <2>2 DEF TopValue, Value, Wild, WildDrawFour, DrawTwo, Skip, Reverse
  <2>4. Call(turn, [type |-> "ChooseColor"]) => line'[turn].type = "ChooseColor"
    BY <1>1 DEF Call, CallAll, Shape
  <2>5. CASE pc' = "FirstColor"
    BY <2>1, <2>3, <2>4, <2>5 DEF OrderInv, TopCalls, Drawings, Drawing, Wild
  <2> QED
    BY <2>1, <2>5, PlainOrderNext DEF Plainly, Terminal
<1>6. CASE FirstColor
  BY <1>6, PlainOrderNext DEF FirstColor, Plainly
<1> QED
  BY <1>2, <1>3, <1>4, <1>5, <1>6

LEMMA TurnsOrder ==
  ASSUME OrderInv, Shape,
         \/ AskPlay \/ NothingPlayed \/ CardPlayed
         \/ NextDrawsTwo \/ AskChallenge \/ ChallengeDecided \/ NoEffect
  PROVE  OrderInv'
<1>1. CASE AskPlay
  <2>1. pc' \in {"Play", "PlayAgain"} /\ turn' \in Players /\ line'[turn'].type = "Play"
    BY <1>1 DEF AskPlay, Call, CallAll, Shape
  <2> QED
    BY <2>1 DEF OrderInv, TopCalls, Drawings, Drawing
<1>2. CASE ~AskPlay
  <2>1. \/ pc' = "Draw" /\ job'.then \in {"Again", "EndTurn"}
        \/ pc' \in {"Nothing", "Discarded", "Failed", "Challenge", "Reveal", "EndTurn"}
    BY <1>2 DEF NothingPlayed, CardPlayed, NextDrawsTwo, AskChallenge, ChallengeDecided, NoEffect,
                StartDraw
  <2>2. CASE pc' = "Draw"
    BY <2>1, <2>2 DEF OrderInv, TopCalls, Drawings, Drawing
  <2> QED
    BY <2>1, <2>2, PlainOrderNext DEF Plainly, Terminal
<1> QED
  BY <1>1, <1>2

(* A set of one.                                                           *)
LEMMA OnlyOne ==
  ASSUME NEW S, IsFiniteSet(S), S # {}, ~(Cardinality(S) > 1)
  PROVE  \E p \in S : S = {p}
<1>1. Cardinality(S) \in Nat /\ Cardinality(S) # 0
  BY FS_CardinalityType, FS_EmptySet
<1>2. Cardinality(S) = 1
  BY <1>1
<1> QED
  BY <1>2, FS_Singleton

LEMMA OwnedStays == held' = held => \A p \in Players : Owned(p)' = Owned(p)
BY DEF Owned, Holding

LEMMA EndsOrder ==
  ASSUME ProtocolInv, TableInv, CardsInv, OrderInv, EndTurn \/ HandRevealed \/ HandSigned
  PROVE  OrderInv'
<1>0. held' = held
  BY DEF EndTurn, HandRevealed, HandSigned, table
<1>1. CASE EndTurn
  <2>1. pc = "EndTurn" /\ (pc' \in {"Turn", "Failed"} \/ (pc' = "HandReveal" /\ OutOfCards # {} /\ ~(Cardinality(OutOfCards) > 1)))
    BY <1>1 DEF EndTurn
  <2>2. Sound
    BY <2>1, GoesOn DEF Going, Terminal
  <2>3. ASSUME pc' = "HandReveal"
        PROVE  OnlyOneIsOut'
    <3>1. IsFiniteSet(OutOfCards)
      BY PlayersAreFinite, FS_Subset DEF OutOfCards
    <3>2. PICK p \in Players : OutOfCards = {p}
      BY <2>1, <2>3, <3>1, OnlyOne DEF OutOfCards
    <3>3. "cardCount" \in Mended
      <4>1. PICK q \in Players : q # p
        BY NAssumption DEF Players
      <4> QED
        BY <3>2, <4>1 DEF OutOfCards, CardsRemaining
    <3>4. \A q \in Players : CardsRemaining(q) = 0 <=> Owned(q) = {}
      <4> TAKE q \in Players
      <4>1. IsFiniteSet(Holding(q))
        BY <2>2, FS_Subset DEF Sound, Holding
      <4>2. CardsRemaining(q) = Cardinality(Holding(q))
        BY <3>3 DEF CardsRemaining, Holding
      <4>3. Cardinality(Holding(q)) = 0 <=> Holding(q) = {}
        BY <4>1, FS_EmptySet
      <4> QED
        BY <4>2, <4>3 DEF Owned
    <3>5. \A q \in Players : Owned(q) = {} <=> q = p
      BY <3>2, <3>4 DEF OutOfCards
    <3> QED
      BY <1>0, <3>5, OwnedStays DEF OnlyOneIsOut
  <2>4. CASE pc' = "HandReveal"
    BY <2>3, <2>4 DEF OrderInv, TopCalls, Drawings, Drawing
  <2> QED
    BY <2>1, <2>4, PlainOrderNext DEF Plainly, Terminal
<1>2. CASE HandRevealed
  <2>1. pc = "HandReveal" /\ pc' \in {"HandSign", "Failed", "Panicked"}
    BY <1>2, Zenon DEF HandRevealed, Back
  <2>2. OnlyOneIsOut'
    BY <1>0, <2>1, OwnedStays DEF OrderInv, OnlyOneIsOut
  <2> QED
    BY <2>1, <2>2 DEF OrderInv, TopCalls, Drawings, Drawing
<1>3. CASE HandSigned
  <2>1. pc' = "HandOver" /\ endSigs' # NoSigs
    BY <1>3 DEF HandSigned, HandEndMsg, NoSigs
  <2> QED
    BY <2>1 DEF OrderInv, TopCalls, Drawings, Drawing, NoSigs
<1> QED
  BY <1>1, <1>2, <1>3

(* A player answers on its own line, and only what it is asked.            *)
LEMMA OnItsOwnLine ==
  ASSUME NEW p \in Players, Handle(p)
  PROVE  \E r : line' = [line EXCEPT ![p] = r]
<1> USE DEF Answer, Reply, Refuse
<1>1. CASE GameStart(p) \/ GameEnd(p) \/ HandStart(p)
  BY <1>1 DEF GameStart, GameEnd, HandStart
<1>2. CASE HandEnd(p)
  BY <1>2 DEF HandEnd
<1>3. CASE ShuffleStage0(p) \/ ShuffleStage1(p) \/ ShuffleStage2(p) \/ ShuffleRefused(p)
  BY <1>3 DEF ShuffleStage0, ShuffleStage1, ShuffleStage2, ShuffleRefused
<1>4. CASE ChooseColor(p) \/ ShouldChallenge(p) \/ RevealForChallenge(p)
  BY <1>4 DEF ChooseColor, ShouldChallenge, RevealForChallenge
<1>5. CASE GetKey(p)
  BY <1>5 DEF GetKey
<1>6. CASE GiveCard(p)
  BY <1>6 DEF GiveCard
<1>7. CASE Play(p)
  BY <1>7 DEF Play
<1> QED
  BY <1>1, <1>2, <1>3, <1>4, <1>5, <1>6, <1>7 DEF Handle

LEMMA OnlyAsked ==
  ASSUME NEW p \in Players, Handle(p), line[p].type \notin Requests \ {"ChooseColor", "Play"}
  PROVE  \/ Asked(p, "ChooseColor") /\ ChooseColor(p)
         \/ Asked(p, "Play") /\ Play(p)
<1> USE DEF Asked, Requests
<1>1. ~GameStart(p) /\ ~GameEnd(p) /\ ~HandStart(p)
  BY DEF GameStart, GameEnd, HandStart
<1>2. ~HandEnd(p) /\ ~ShouldChallenge(p) /\ ~RevealForChallenge(p)
  BY DEF HandEnd, ShouldChallenge, RevealForChallenge
<1>3. ~ShuffleStage0(p) /\ ~ShuffleStage1(p) /\ ~ShuffleStage2(p) /\ ~ShuffleRefused(p)
  BY DEF ShuffleStage0, ShuffleStage1, ShuffleStage2, ShuffleRefused
<1>4. ~GetKey(p) /\ ~GiveCard(p)
  BY DEF GetKey, GiveCard
<1>5. ChooseColor(p) => line[p].type = "ChooseColor"
  BY DEF ChooseColor
<1>6. Play(p) => line[p].type = "Play"
  BY DEF Play
<1> QED
  BY <1>1, <1>2, <1>3, <1>4, <1>5, <1>6 DEF Handle

LEMMA PlayerOrders ==
  ASSUME ProtocolInv, OrderInv, NEW p \in Players, Player(p)
  PROVE  OrderInv'
<1>1. /\ UNCHANGED <<pc, held, discard, start, endSigs, turn, job>>
      /\ \A q \in Players \ {p} : line'[q] = line[q]
      /\ Shape /\ Handle(p)
  BY OnItsOwnLine DEF Player, table, passing, game, ProtocolInv, Shape
<1>2. TopValue' = TopValue /\ FromCards(Below)' = FromCards(Below) /\ (OnlyOneIsOut => OnlyOneIsOut')
  BY <1>1, TopStays, OwnedStays DEF OnlyOneIsOut
<1>3. ASSUME pc = "FirstColor", p = turn
      PROVE  \/ line'[turn].type = "refused"
             \/ line'[turn].type = "color" /\ line'[turn].color \in ChosenColors
  <2>1. ChooseColor(p)
    BY <1>1, <1>3, OnlyAsked DEF OrderInv, Requests, Asked
  <2> QED
    BY <1>1, <1>3, <2>1 DEF ChooseColor, Reply, Refuse, Shape
<1>4. ASSUME pc \in {"Play", "PlayAgain"}, p = turn, line'[turn].type = "play"
      PROVE  line'[turn].wildColor = 0
  <2>1. line[p].type \in {"Play", "refused", "play"}
    BY <1>4 DEF ProtocolInv, Live, Terminal, WireInv, PlayCase, Refusal
  <2>2. Play(p)
    BY <1>1, <2>1, OnlyAsked DEF Requests, Asked
  <2> QED
    BY <1>1, <1>4, <2>2 DEF Play, Reply, Refuse, Shape, ColorSent
<1>5. TopCalls'
  BY <1>1, <1>2 DEF OrderInv, TopCalls, Drawings, Drawing, WildDrawFour, Wild, Skip, Reverse, DrawTwo
<1>6. CASE p = turn
  BY <1>1, <1>2, <1>3, <1>4, <1>5, <1>6 DEF OrderInv, NoSigs
<1>7. CASE p # turn
  BY <1>1, <1>2, <1>5, <1>7 DEF OrderInv, NoSigs, Shape
<1> QED
  BY <1>6, <1>7

LEMMA StutterOrders ==
  ASSUME OrderInv, Arrive \/ UNCHANGED vars
  PROVE  OrderInv'
<1>1. UNCHANGED <<pc, held, discard, start, endSigs, turn, job, line>>
  BY DEF Arrive, vars, table, game, passing, wires
<1>2. TopValue' = TopValue /\ FromCards(Below)' = FromCards(Below) /\ (OnlyOneIsOut => OnlyOneIsOut')
  BY <1>1, TopStays, OwnedStays DEF OnlyOneIsOut
<1>3. TopCalls'
  BY <1>1, <1>2 DEF OrderInv, TopCalls, Drawings, Drawing, WildDrawFour, Wild, Skip, Reverse, DrawTwo
<1> QED
  BY <1>1, <1>2, <1>3 DEF OrderInv, NoSigs

LEMMA OrderInvariant == ASSUME Dealable PROVE Spec => []OrderInv
<1>1. Init => OrderInv
  BY DEF Init, OrderInv, TopCalls, Drawings, Drawing
<1>2. ProtocolInv /\ TableInv /\ CardsInv /\ OrderInv /\ Host => OrderInv'
  BY AnnounceOrders, StartsOrder, ShufflesOrder, DealsOrder, TurnsOrder, EndsOrder, Zenon
     DEF Host, ProtocolInv
<1>3. ProtocolInv /\ TableInv /\ CardsInv /\ OrderInv /\ [Next]_vars => OrderInv'
  BY <1>2, PlayerOrders, StutterOrders DEF Next, Finished
<1> QED
  BY <1>1, <1>3, ProtocolInvariant, TableInvariant, CardsInvariant, PTL DEF Spec

\* CardTable has its own copy of the definitions of Cards.
LEMMA SameCards ==
  /\ Table!NoCard = NoCard /\ Table!Colors = Colors
  /\ Table!Wild = Wild /\ Table!WildDrawFour = WildDrawFour
  /\ \A c : Table!Value(c) = Value(c)
  /\ \A c, other, col : Table!CanPlayOn(c, other, col) = CanPlayOn(c, other, col)
<1> USE DEF Table!NoCard, NoCard, Table!Colors, Colors, Table!Wild, Wild, Table!WildDrawFour,
            WildDrawFour, Table!ColorUnknown, ColorUnknown, Table!Skip, Skip,
            Table!Reverse, Reverse, Table!DrawTwo, DrawTwo
<1>1. \A c : Table!Value(c) = Value(c)
  BY DEF Table!Value, Value
<1>2. \A c : Table!Color(c) = Color(c) /\ Table!IsWild(c) = IsWild(c)
  BY <1>1 DEF Table!Color, Color, Table!IsWild, IsWild
<1>3. \A c, other, col : Table!CanPlayOn(c, other, col) = CanPlayOn(c, other, col)
  BY <1>1, <1>2 DEF Table!CanPlayOn, CanPlayOn
<1> QED
  BY <1>1, <1>3

\* The phase of CardTable a hand is in.
Won == {"HandOver", "AfterHand", "GameEnd", "Complete"}
Playing == {"Turn", "Play", "Again", "PlayAgain", "Nothing", "Discarded", "Effect", "Challenge",
            "Reveal", "EndTurn", "HandReveal", "HandSign"}
Setup == {"Start", "GameStart", "Deal"} \cup FirstOnes \cup {"FirstEffect"}

LEMMA PhaseNow ==
  /\ pc \in {"Failed", "Panicked"} => Phase = "failed"
  /\ pc \in Won => Phase = "won"
  /\ pc \in {"NewHand", "HandStart"} => Phase = IF endSigs # NoSigs THEN "won" ELSE "setup"
  /\ pc \in Playing => Phase = "play"
  /\ pc \in Drawings => Phase = IF job.then \in {"Again", "EndTurn"} THEN "play" ELSE "setup"
  /\ pc \in Setup => Phase = "setup"
  /\ pc \notin Terminal \cup Won \cup {"NewHand", "HandStart"} => Phase \in {"setup", "play"}
BY DEF Phase, Won, Playing, Drawings, Drawing, Setup, FirstOnes, Terminal

LEMMA PhaseNext ==
  /\ pc' \in {"Failed", "Panicked"} => Phase' = "failed"
  /\ pc' \in Won => Phase' = "won"
  /\ pc' \in {"NewHand", "HandStart"} => Phase' = IF endSigs' # NoSigs THEN "won" ELSE "setup"
  /\ pc' \in Playing => Phase' = "play"
  /\ pc' \in Drawings => Phase' = IF job'.then \in {"Again", "EndTurn"} THEN "play" ELSE "setup"
  /\ pc' \in Setup => Phase' = "setup"
BY DEF Phase, Won, Playing, Drawings, Drawing, Setup, FirstOnes, Terminal, NoSigs

\* The cards of the numbers that h has for the player.
FacesFor(h, p) == {v.card : v \in {w \in DOMAIN h : h[w] = p}}

LEMMA AllFaces ==
  ASSUME NEW h, \A v \in DOMAIN h : h[v] \in Players
  PROVE  UNION {FacesFor(h, p) : p \in Players} = {v.card : v \in DOMAIN h}
BY DEF FacesFor

LEMMA OwnedNow == \A p : Owned(p) = FacesFor(held, p)
BY DEF Owned, Holding, FacesFor

LEMMA OwnedNext == \A p : Owned(p)' = FacesFor(held', p)
BY DEF Owned, Holding, FacesFor

\* The cards that can be drawn are those that nobody has and nobody has laid.
LEMMA StockNow == HostKeys => Stock = StartCards \ (Range(discard) \cup HeldFaces)
BY OwnedNow, AllFaces DEF Stock, HostKeys, HeldFaces

LEMMA StockNext == HostKeys' => Stock' = StartCards \ (Range(discard)' \cup HeldFaces')
BY OwnedNext, AllFaces DEF Stock, HostKeys, HeldFaces

LEMMA BelowStays == discard' = discard => Range(Below)' = Range(Below) /\ Face' = Face
BY DEF Below, Face, Range, Seqs!Front, Seqs!Last, NoCard

Mapped == Table!TableNext \/ UNCHANGED Table!tableVars

(* A step that moves no card leaves the table alone, begins the play or    *)
(* fails.                                                                  *)
LEMMA StillMaps ==
  ASSUME UNCHANGED <<held, discard, color>>,
         \/ Phase' = Phase
         \/ Phase \in {"setup", "play"} /\ Phase' = "failed"
         \/ /\ Phase = "setup" /\ Phase' = "play"
            /\ discard # <<>> /\ TopValue # WildDrawFour /\ Seqs!Last(discard) # NoCard
  PROVE  Mapped
<1>1. Stock' = Stock /\ OwnedBy' = OwnedBy /\ Range(Below)' = Range(Below) /\ Face' = Face
  <2>1. \A p \in Players : Owned(p)' = Owned(p)
    BY OwnedStays
  <2>2. OwnedBy' = OwnedBy
    BY <2>1 DEF OwnedBy
  <2>3. Stock' = Stock
    BY <2>1 DEF Stock, Range
  <2> QED
    BY <2>2, <2>3, BelowStays
<1>2. CASE Phase' = Phase
  BY <1>1, <1>2 DEF Mapped, Table!tableVars
<1>3. CASE Phase \in {"setup", "play"} /\ Phase' = "failed"
  BY <1>1, <1>3 DEF Mapped, Table!TableNext, Table!Break
<1>4. CASE /\ Phase = "setup" /\ Phase' = "play"
           /\ discard # <<>> /\ TopValue # WildDrawFour /\ Seqs!Last(discard) # NoCard
  <2>1. Face # NoCard /\ Value(Face) # WildDrawFour
    BY <1>4 DEF Face, TopValue
  <2> QED
    BY <1>1, <1>4, <2>1, SameCards DEF Mapped, Table!TableNext, Table!Begin
<1> QED
  BY <1>2, <1>3, <1>4

LEMMA TopIsCard ==
  ASSUME Shape, Split, discard # <<>>
  PROVE  LET top == Seqs!Last(discard)
         IN  /\ top \in StartCards /\ top # NoCard
             /\ Range(discard) = Range(Below) \cup {top} /\ top \notin Range(Below)
<1>1. /\ Seqs!Last(discard) \in Range(discard)
      /\ Range(Seqs!Front(discard)) = Range(discard) \ {Seqs!Last(discard)}
  BY LastApart DEF Shape, Split
<1>2. Range(discard) \subseteq StartCards
  BY DEF Split, Parted
<1>3. NoCard \notin StartCards
  BY CardsAssumption DEF NoCard, Deck108
<1> QED
  BY <1>1, <1>2, <1>3 DEF Below

LEMMA AnnounceMaps ==
  ASSUME ProtocolInv, TableInv, CardsInv, OrderInv, Announce
  PROVE  Mapped
<1>1. /\ pc \in {"Shuffled", "Drawn", "FirstShown", "FirstEffect", "Nothing", "Discarded",
                 "HandOver", "Effect"}
      /\ pc' = Announcement[2] /\ UNCHANGED <<held, discard, color, job, endSigs, hand>>
  BY DEF Announce, game, table
<1>2. Sound /\ CardInv /\ Shape
  BY <1>1, GoesOn DEF Going, Terminal, ProtocolInv
<1>3. Split \/ hand = 0
  BY <1>1, <1>2 DEF CardInv, Dealt
<1>4. Split
  BY <1>1, <1>2, <1>3 DEF CardInv
<1>5. CASE pc = "Shuffled"
  <2>1. IF job = NoJob THEN pc' = "Deal" ELSE pc' = "Draw"
    BY <1>1, <1>5 DEF Announcement
  <2>2. Phase' = Phase
    BY <1>1, <1>5, <2>1, PhaseNow, PhaseNext DEF Drawings, Drawing, Setup, NoJob
  <2> QED
    BY <1>1, <2>2, StillMaps
<1>6. CASE pc = "Drawn"
  <2>1. pc' = job.then /\ job.then \in {"Deal", "Again", "Turn", "EndTurn"}
    BY <1>1, <1>2, <1>6 DEF Announcement, Sound, Place, Drawing
  <2>2. CASE job.then # "Turn"
    <3>1. Phase' = Phase
      BY <1>1, <1>6, <2>1, <2>2, PhaseNow, PhaseNext DEF Drawings, Drawing, Setup, Playing
    <3> QED
      BY <1>1, <3>1, StillMaps
  <2>3. CASE job.then = "Turn"
    <3>1. discard # <<>> /\ TopValue = DrawTwo
      BY <1>2, <1>6, <2>3 DEF Sound, Place, Drawing, Drawings, OrderInv, TopCalls
    <3>2. Phase = "setup" /\ Phase' = "play"
      BY <1>1, <1>6, <2>1, <2>3, PhaseNow, PhaseNext DEF Drawings, Drawing, Playing
    <3> QED
      BY <1>1, <1>2, <1>4, <3>1, <3>2, StillMaps, TopIsCard DEF DrawTwo, WildDrawFour
  <2> QED
    BY <2>2, <2>3
<1>7. CASE pc = "FirstShown"
  <2>1. pc' = AfterFirst /\ discard # <<>> /\ job.then = "Turn"
    BY <1>1, <1>2, <1>7 DEF Announcement, Sound, Place
  <2>2. \/ pc' \in {"FirstCard", "Draw", "FirstEffect"}
        \/ pc' = "Turn" /\ TopValue # WildDrawFour
    BY <2>1 DEF AfterFirst
  <2>3. Phase = "setup"
    BY <1>7, PhaseNow DEF Setup, FirstOnes
  <2>4. CASE pc' \in {"FirstCard", "Draw", "FirstEffect"}
    <3>1. Phase' = "setup"
      BY <1>1, <2>1, <2>4, PhaseNext DEF Setup, FirstOnes, Drawings, Drawing
    <3> QED
      BY <1>1, <2>3, <3>1, StillMaps
  <2>5. CASE pc' = "Turn" /\ TopValue # WildDrawFour
    <3>1. Phase' = "play"
      BY <2>5, PhaseNext DEF Playing
    <3> QED
      BY <1>1, <1>2, <1>4, <2>1, <2>3, <2>5, <3>1, StillMaps, TopIsCard
  <2> QED
    BY <2>2, <2>4, <2>5
<1>8. CASE pc = "FirstEffect"
  <2>1. pc' = "Turn" /\ discard # <<>> /\ TopValue \in {Skip, Reverse}
    BY <1>1, <1>2, <1>8 DEF Announcement, Sound, Place, Afterwards, OrderInv, TopCalls
  <2>2. Phase = "setup" /\ Phase' = "play"
    BY <1>8, <2>1, PhaseNow, PhaseNext DEF Setup, Playing
  <2> QED
    BY <1>1, <1>2, <1>4, <2>1, <2>2, StillMaps, TopIsCard DEF Skip, Reverse, WildDrawFour
<1>9. CASE pc \in {"Nothing", "Discarded", "Effect", "HandOver"}
  <2>1. IF pc = "HandOver" THEN pc' = "AfterHand" ELSE pc' \in {"EndTurn", "Effect"}
    BY <1>1, <1>9 DEF Announcement
  <2>2. Phase' = Phase
    BY <1>9, <2>1, PhaseNow, PhaseNext DEF Playing, Won
  <2> QED
    BY <1>1, <2>2, StillMaps
<1> QED
  BY <1>1, <1>5, <1>6, <1>7, <1>8, <1>9

LEMMA StartsMap ==
  ASSUME OrderInv, StartGame \/ GameStarted \/ StartHand \/ AfterHand
  PROVE  Mapped
<1>1. /\ UNCHANGED <<held, discard, color, endSigs>>
      /\ \/ pc = "Start" /\ pc' = "GameStart"
         \/ pc = "GameStart" /\ pc' = "NewHand"
         \/ pc = "NewHand" /\ pc' = "HandStart"
         \/ pc = "AfterHand" /\ pc' \in {"GameEnd", "NewHand"}
  BY DEF StartGame, GameStarted, StartHand, AfterHand, Back, table, game
<1>2. Phase' = Phase
  BY <1>1, PhaseNow, PhaseNext DEF OrderInv, Setup, FirstOnes, Won
<1> QED
  BY <1>1, <1>2, StillMaps

LEMMA RefusalMaps ==
  ASSUME TableInv, PlayerRefuses, pc \notin {"HandStart", "GameEnd"}
  PROVE  Mapped
<1>1. pc \notin Terminal /\ pc' = "Failed" /\ UNCHANGED <<held, discard, color>> /\ ~Resting
  BY DEF PlayerRefuses, table, Resting, Idle
<1>2. pc \notin Going
  BY <1>1 DEF TableInv
<1>3. Phase \in {"setup", "play"} /\ Phase' = "failed"
  BY <1>1, <1>2, PhaseNow, PhaseNext DEF Won, Going, Terminal
<1> QED
  BY <1>1, <1>3, StillMaps

(* Within a draw, a turn, and the end of a hand the phase is the same, but *)
(* for a failure.                                                          *)
LEMMA WithinMaps ==
  ASSUME Shape, UNCHANGED <<held, discard, color>>,
         \/ pc \in Drawings /\ pc' \in Drawings \cup {"Failed", "Panicked"} /\ job'.then = job.then
         \/ pc \in Playing /\ pc' \in Playing \cup {"Failed", "Panicked"}
         \/ pc \in Playing /\ pc' = "Draw" /\ job'.then \in {"Again", "EndTurn"}
         \/ pc \in Setup /\ pc' \in Setup
         \/ pc \in Setup /\ pc' = "Draw" /\ job'.then = "Deal"
  PROVE  Mapped
<1>1. \/ Phase' = Phase
      \/ Phase \in {"setup", "play"} /\ Phase' = "failed"
  BY PhaseNow, PhaseNext DEF Drawings, Drawing
<1> QED
  BY <1>1, StillMaps

LEMMA DrawsMap ==
  ASSUME Shape, Reshuffle \/ PassOn \/ Deal \/ DealTo \/ CardGiven \/ TurnUp
  PROVE  Mapped
<1>1. CASE Reshuffle
  <2>1. UNCHANGED <<held, discard, color>> /\ pc = "Draw" /\ pc' = "Shuffle" /\ job' = job
    BY <1>1 DEF Reshuffle, Shuffle, table
  <2> QED
    BY <2>1, WithinMaps DEF Drawings, Drawing
<1>2. CASE PassOn
  <2>1. UNCHANGED <<held, discard, color>> /\ pc = "Shuffle" /\ pc' \in {"Shuffle", "Failed"} /\ job' = job
    BY <1>2 DEF PassOn, Back, table
  <2> QED
    BY <2>1, WithinMaps DEF Drawings, Drawing
<1>3. CASE DealTo \/ CardGiven
  <2>1. /\ UNCHANGED <<held, discard, color>> /\ pc \in {"Draw", "Give"} /\ pc' \in {"Keys", "Draw", "Drawn"}
        /\ job'.then = job.then
    BY <1>3 DEF DealTo, CardGiven, Back, table, Shape, NoJob
  <2> QED
    BY <2>1, WithinMaps DEF Drawings, Drawing
<1>4. CASE Deal \/ TurnUp
  <2>1. /\ UNCHANGED <<held, discard, color>> /\ pc \in {"Deal", "FirstCard"}
        /\ \/ pc' \in {"FirstCard", "FirstKeys"}
           \/ pc' = "Draw" /\ job'.then = "Deal"
    BY <1>4 DEF Deal, TurnUp, StartDraw, table
  <2> QED
    BY <2>1, WithinMaps DEF Setup, FirstOnes
<1> QED
  BY <1>1, <1>2, <1>3, <1>4

LEMMA TurnsMap ==
  ASSUME Shape,
         \/ AskPlay \/ NothingPlayed \/ NextDrawsTwo \/ AskChallenge \/ ChallengeDecided \/ NoEffect
         \/ EndTurn \/ HandRevealed
  PROVE  Mapped
<1>1. /\ UNCHANGED <<held, discard, color>>
      /\ pc \in Playing
      /\ \/ pc' \in Playing \cup {"Failed", "Panicked"}
         \/ pc' = "Draw" /\ job'.then \in {"Again", "EndTurn"}
  <2>1. CASE AskPlay \/ NothingPlayed
    BY <2>1 DEF AskPlay, NothingPlayed, PlayComesBack, Back, StartDraw, table, Playing
  <2>2. CASE NextDrawsTwo \/ AskChallenge \/ ChallengeDecided \/ NoEffect
    BY <2>2 DEF NextDrawsTwo, AskChallenge, ChallengeDecided, NoEffect, Back, StartDraw, table, Playing
  <2>3. CASE EndTurn
    BY <2>3 DEF EndTurn, table, Playing
  <2>4. CASE HandRevealed
    BY <2>4, Zenon DEF HandRevealed, Back, table, Playing
  <2> QED
    BY <2>1, <2>2, <2>3, <2>4
<1> QED
  BY <1>1, WithinMaps

(* The players, events and the end of the game leave the table alone.      *)
LEMMA RestMaps ==
  ASSUME (\E p \in Players : Player(p)) \/ Arrive \/ UNCHANGED vars
  PROVE  Mapped
<1>1. UNCHANGED <<pc, held, discard, color, endSigs, job>>
  BY DEF Player, Arrive, vars, table, game
<1>2. Phase' = Phase
  BY <1>1 DEF Phase, NoSigs
<1> QED
  BY <1>1, <1>2, StillMaps

(* A card is put down to a player.                                         *)
LEMMA KeysGivenMaps ==
  ASSUME ProtocolInv, ProtocolInv', TableInv, CardsInv, KeysGiven
  PROVE  Mapped
<1> DEFINE top == Seqs!Last(deck)
<1>1. /\ pc = "Keys" /\ Back("Keys") /\ UNCHANGED <<discard, color, job, turn, hand>>
  BY DEF KeysGiven, Back, game
<1>2. CardInv /\ Shape /\ HostKeys /\ HostKeys' /\ WireInv
  BY <1>1, GoesOn DEF Waiting, Terminal, ProtocolInv, Live
<1>3. deck # <<>> /\ turn \in Players
  BY <1>1, <1>2 DEF WireInv, Shape
<1>4. CASE pc' = "Panicked" /\ UNCHANGED held
  <2>1. Phase \in {"setup", "play"} /\ Phase' = "failed"
    BY <1>1, <1>4, PhaseNow, PhaseNext DEF Drawings, Drawing
  <2> QED
    BY <1>1, <1>4, <2>1, StillMaps
<1>5. CASE pc' = "Give" /\ held' = Put(held, top, turn)
  <2>1. Split /\ Opening
    BY <1>1, <1>2 DEF CardInv, Dealt
  <2>2. top \notin DOMAIN held /\ top.card \notin HeldFaces \cup Range(discard) /\ top.card \in StartCards
    BY <1>2, <1>3, <2>1, TopCard DEF Proper
  <2>3. Phase \in {"setup", "play"} /\ Phase' = Phase
    BY <1>1, <1>5, PhaseNow, PhaseNext DEF Drawings, Drawing
  <2> HIDE DEF top
  <2>4. DOMAIN held' = DOMAIN held \cup {top} /\ held'[top] = turn /\ \A v \in DOMAIN held : held'[v] = held[v]
    BY <1>5, <2>2 DEF Put
  <2>5. HeldFaces' = HeldFaces \cup {top.card}
    BY <2>4 DEF HeldFaces
  <2>6. Stock' = Stock \ {top.card} /\ top.card \in Stock
    <3>1. Range(discard)' = Range(discard)
      BY <1>1 DEF Range
    <3> QED
      BY <1>2, <2>2, <2>5, <3>1, StockNow, StockNext
  <2>7. \A p \in Players : Owned(p)' = IF p = turn THEN Owned(p) \cup {top.card} ELSE Owned(p)
    BY <2>2, <2>4, OwnedNow, OwnedNext DEF FacesFor
  <2>8. OwnedBy' = [OwnedBy EXCEPT ![turn] = @ \cup {top.card}]
    BY <1>3, <2>7 DEF OwnedBy
  <2>9. Table!Take(turn, top.card)
    BY <1>1, <2>3, <2>6, <2>8, BelowStays DEF Table!Take
  <2> QED
    BY <1>3, <2>2, <2>9 DEF Mapped, Table!TableNext
<1> QED
  BY <1>4, <1>5 DEF KeysGiven

(* A card is turned up.                                                    *)
LEMMA TurnedUpMaps ==
  ASSUME ProtocolInv, ProtocolInv', TableInv, CardsInv, OrderInv, TurnedUp
  PROVE  Mapped
<1> DEFINE c == Seqs!Last(deck).card
<1>1. /\ pc = "FirstKeys" /\ Back("FirstKeys") /\ UNCHANGED <<held, color, hand>>
      /\ pc' \in {"FirstColor", "FirstShown", "Failed"}
  BY DEF TurnedUp, Back, game
<1>2. CardInv /\ Shape /\ HostKeys /\ HostKeys' /\ WireInv
  BY <1>1, GoesOn DEF Waiting, Terminal, ProtocolInv, Live
<1>3. Split /\ Opening /\ deck # <<>>
  BY <1>1, <1>2, KeysHaveCome DEF CardInv, Dealt
<1>4. c \notin HeldFaces \cup Range(discard) /\ c \in StartCards
  BY <1>2, <1>3, TopCard DEF Proper
<1>5. discard' = Append(discard, c) /\ pc' # "Failed"
  BY TurnedUpDeals
<1> HIDE DEF c
<1>6. /\ discard' # <<>> /\ Seqs!Front(discard') = discard /\ Seqs!Last(discard') = c
      /\ Range(discard') = Range(discard) \cup {c}
  BY <1>2, <1>5, AppendApart DEF Shape
<1>7. Phase = "setup" /\ Phase' = "setup"
  BY <1>1, <1>5, PhaseNow, PhaseNext DEF Setup, FirstOnes
<1>8. Face = NoCard \/ Value(Face) = WildDrawFour
  BY <1>1 DEF OrderInv, TopCalls, Face, TopValue
<1>9. Face' = c /\ Below' = discard
  BY <1>6 DEF Face, Below
<1>10. Range(Below)' = Range(Below) \cup ({Face} \ {NoCard})
  <2>1. Range(Below)' = Range(discard)
    BY <1>9 DEF Range
  <2>2. CASE discard = <<>>
    BY <2>1, <2>2 DEF Below, Face
  <2>3. CASE discard # <<>>
    BY <1>2, <1>3, <2>1, <2>3, TopIsCard DEF Face
  <2> QED
    BY <2>2, <2>3
<1>11. Stock' = Stock \ {c} /\ c \in Stock
  <2>1. HeldFaces' = HeldFaces
    BY <1>1 DEF HeldFaces
  <2>2. Range(discard)' = Range(discard) \cup {c}
    BY <1>6 DEF Range
  <2> QED
    BY <1>2, <1>4, <2>1, <2>2, StockNow, StockNext
<1>12. OwnedBy' = OwnedBy
  BY <1>1, OwnedStays DEF OwnedBy
<1>13. Table!TurnUp(c)
  BY <1>1, <1>7, <1>8, <1>9, <1>10, <1>11, <1>12, SameCards DEF Table!TurnUp, Table!OrFails
<1> QED
  BY <1>4, <1>13 DEF Mapped, Table!TableNext

(* A color is chosen for it.                                               *)
LEMMA FirstColorMaps ==
  ASSUME ProtocolInv, TableInv, CardsInv, OrderInv, FirstColor
  PROVE  Mapped
<1>1. /\ pc = "FirstColor" /\ Back("FirstColor") /\ UNCHANGED <<held, discard, hand>>
      /\ pc' = "FirstShown" /\ color' = line[turn].color
  BY DEF FirstColor, Back, game
<1>2. CardInv /\ Sound /\ Shape
  BY <1>1, GoesOn DEF Waiting, Terminal, ProtocolInv
<1>3. Split /\ discard # <<>>
  BY <1>1, <1>2 DEF CardInv, Dealt, Sound, Place
<1>4. TopValue = Wild /\ line[turn].color \in ChosenColors
  BY <1>1, <1>2 DEF OrderInv, TopCalls, Back, Answered, Requests, Shape
<1>5. Face # NoCard /\ Value(Face) = Wild
  BY <1>2, <1>3, <1>4, TopIsCard DEF Face, TopValue
<1>6. Phase = "setup" /\ Phase' = "setup"
  BY <1>1, PhaseNow, PhaseNext DEF Setup, FirstOnes
<1>7. Stock' = Stock /\ OwnedBy' = OwnedBy /\ Range(Below)' = Range(Below) /\ Face' = Face
  <2>1. OwnedBy' = OwnedBy
    BY <1>1, OwnedStays DEF OwnedBy
  <2>2. Stock' = Stock
    BY <1>1, OwnedStays DEF Stock, Range
  <2> QED
    BY <1>1, <2>1, <2>2, BelowStays
<1>8. line[turn].color \in Colors
  BY <1>4, ColorsAssumption
<1>9. Table!ChooseColor(line[turn].color)
  BY <1>1, <1>5, <1>6, <1>7, <1>8, SameCards DEF Table!ChooseColor
<1> QED
  BY <1>4, <1>9 DEF Mapped, Table!TableNext

(* A card is laid by the player it was put down to.                        *)
LEMMA CardPlayedMaps ==
  ASSUME ProtocolInv, ProtocolInv', TableInv, CardsInv, OrderInv, CardPlayed
  PROVE  Mapped
<1>1. pc \in {"Play", "PlayAgain"} /\ Back(pc) /\ UNCHANGED <<turn, hand>>
  BY DEF CardPlayed, PlayComesBack, Back, game
<1>2. CardInv /\ Sound /\ Shape /\ HostKeys /\ HostKeys' /\ WireInv /\ turn \in Players
  BY <1>1, GoesOn DEF Waiting, Terminal, ProtocolInv, Live, Shape
<1>3. Fits(turn, line[turn].number, line[turn].keys[turn]) /\ line[turn].type = "play"
  BY <1>1, <1>2 DEF WireInv, PlayCase, Refusal, Back, Answered, Requests
<1>4. Split /\ Opening /\ discard # <<>>
  BY <1>1, <1>2 DEF CardInv, Dealt, Sound, Place, Afterwards, Doomed
<1>5. Phase = "play"
  BY <1>1, PhaseNow DEF Playing
<1>6. CASE pc' = "Failed" /\ UNCHANGED <<held, discard, color>>
  <2>1. Phase' = "failed"
    BY <1>6, PhaseNext
  <2> QED
    BY <1>5, <1>6, <2>1, StillMaps
<1>7. CASE ~(pc' = "Failed" /\ UNCHANGED <<held, discard, color>>)
  <2>1. PICK v : v = line[turn].number
    OBVIOUS
  <2>2. PICK c : c = Decrypted(v, line[turn].keys).card
    OBVIOUS
  <2>3. /\ PlayIsGenuine(line[turn]) /\ CanPlayOn(c, Seqs!Last(discard), color)
        /\ held' = Restrict(held, DOMAIN held \ {v})
        /\ discard' = Append(discard, c)
        /\ color' = line[turn].wildColor
        /\ pc' = "Discarded"
    BY <1>7, <2>1, <2>2 DEF CardPlayed
  <2>4. v \in DOMAIN held /\ held[v] = turn /\ c = v.card
    <3>1. v \in DOMAIN held /\ held[v] = turn
      BY <2>1, <2>3 DEF PlayIsGenuine
    <3>2. Decrypted(v, line[turn].keys) = Plain(v.card)
      BY <1>2, <1>3, <1>4, <2>1, <2>3, GenuineCard
    <3> QED
      BY <2>2, <3>1, <3>2 DEF Plain
  <2>5. DOMAIN held' = DOMAIN held \ {v} /\ \A w \in DOMAIN held' : held'[w] = held[w]
    BY <2>3 DEF Restrict
  <2>6. HeldFaces' = HeldFaces \ {c} /\ c \in HeldFaces
    BY <1>4, <2>4, <2>5 DEF HeldFaces, HeldApart, Split
  <2>7. c \in StartCards /\ c \notin Range(discard)
    BY <1>4, <2>6 DEF Split, Parted
  <2>8. /\ discard' # <<>> /\ Seqs!Front(discard') = discard /\ Seqs!Last(discard') = c
        /\ Range(discard') = Range(discard) \cup {c}
    BY <1>2, <2>3, AppendApart DEF Shape
  <2>9. Phase' = "play"
    BY <2>3, PhaseNext DEF Playing
  <2>10. color' = 0
    BY <1>1, <1>3, <2>3 DEF OrderInv
  <2>11. Face' = c /\ Below' = discard /\ Face = Seqs!Last(discard)
    BY <1>4, <2>8 DEF Face, Below
  <2>12. Range(Below)' = Range(Below) \cup {Face}
    <3>1. Range(Below)' = Range(discard)
      BY <2>11 DEF Range
    <3> QED
      BY <1>2, <1>4, <2>11, <3>1, TopIsCard
  <2>13. Stock' = Stock
    <3>1. Range(discard)' = Range(discard) \cup {c}
      BY <2>8 DEF Range
    <3> QED
      BY <1>2, <2>6, <3>1, StockNow, StockNext
  <2>14. \A p \in Players : Owned(p)' = IF p = turn THEN Owned(p) \ {c} ELSE Owned(p)
    <3>1. \A w \in DOMAIN held : w.card = c => w = v
      BY <1>4, <2>4 DEF Split, HeldApart
    <3> QED
      BY <2>4, <2>5, <3>1, OwnedNow, OwnedNext DEF FacesFor
  <2>15. OwnedBy' = [OwnedBy EXCEPT ![turn] = @ \ {c}]
    BY <1>2, <2>14 DEF OwnedBy
  <2>16. c \in OwnedBy[turn]
    BY <1>2, <2>4, OwnedNow DEF FacesFor, OwnedBy
  <2>17. Table!Lay(turn, c, 0)
    BY <1>5, <2>3, <2>9, <2>10, <2>11, <2>12, <2>13, <2>15, <2>16, SameCards
       DEF Table!Lay, Table!OrFails, Colors
  <2> QED
    BY <1>2, <2>7, <2>17 DEF Mapped, Table!TableNext
<1> QED
  BY <1>6, <1>7

(* The discards become the deck once it is used up.                        *)
LEMMA ShuffleDoneMaps ==
  ASSUME ProtocolInv, ProtocolInv', TableInv, CardsInv, OrderInv, ShuffleDone
  PROVE  Mapped
<1>1. /\ pc = "Shuffle" /\ Back("Shuffle") /\ pc' = "Shuffled" /\ UNCHANGED <<held, color, job>>
      /\ discard' = AfterReshuffle(discard)
  BY DEF ShuffleDone, Back
<1>2. CardInv /\ Shape /\ HostKeys /\ HostKeys'
  BY <1>1, GoesOn DEF Waiting, Terminal, ProtocolInv
<1>3. Phase \in {"setup", "play"} /\ Phase' = Phase
  BY <1>1, PhaseNow, PhaseNext DEF Drawings
<1>4. CASE discard = <<>>
  <2>1. discard' = discard
    BY <1>1, <1>4 DEF AfterReshuffle
  <2> QED
    BY <1>1, <1>3, <2>1, StillMaps
<1>5. CASE discard # <<>>
  <2>1. PICK top : top = Seqs!Last(discard)
    OBVIOUS
  <2>2. discard' = <<top>> /\ AfterReshuffle(discard) = <<top>>
    BY <1>1, <1>5, <2>1 DEF AfterReshuffle
  <2>3. Range(<<top>>) = {top}
    BY DEF Range
  <2>4. Apart(discard) /\ Parted(Range(start), HeldFaces, {top})
    BY <1>1, <1>2, <2>2, <2>3 DEF CardInv, Shuffled
  <2>5. /\ Range(Below) = Range(discard) \ {top} /\ top \in Range(discard)
    BY <1>2, <1>5, <2>1, <2>4, LastApart DEF Shape, Below
  <2>6. Range(start) = Range(Below)
    <3>1. start = FromCards(Below)
      BY <1>1 DEF OrderInv
    <3>2. Below # <<>>
      <4>1. Range(FullDeck) = StartCards
        BY FullDeckInOrder
      <4> QED
        BY <2>4, <3>1, <4>1 DEF FromCards, Parted
    <3> QED
      BY <3>1, <3>2 DEF FromCards
  <2>7. Face = top /\ Face' = top
    <3>1. Seqs!Last(<<top>>) = top /\ <<top>> # <<>>
      BY DEF Seqs!Last
    <3> QED
      BY <1>5, <2>1, <2>2, <3>1 DEF Face
  <2>8. Range(Below)' = {}
    <3>1. Below' = Seqs!Front(<<top>>)
      BY <2>2 DEF Below
    <3>2. Seqs!Front(<<top>>) = <<>>
      BY DEF Seqs!Front
    <3> QED
      BY <3>1, <3>2, EmptyIsSeq DEF Range
  <2>9. HeldFaces' = HeldFaces /\ OwnedBy' = OwnedBy
    BY <1>1, OwnedStays DEF HeldFaces, OwnedBy
  <2>10. Range(discard)' = {top}
    BY <2>2, <2>3 DEF Range
  <2>11. Range(discard) = Range(Below) \cup {top}
    BY <2>5
  <2>12. Stock = {} /\ Stock' = Range(Below)
    BY <1>2, <2>4, <2>6, <2>9, <2>10, <2>11, StockNow, StockNext DEF Parted
  <2>13. Table!Recycle
    BY <1>1, <1>3, <2>7, <2>8, <2>9, <2>12 DEF Table!Recycle, Table!OrFails
  <2> QED
    BY <2>13 DEF Mapped, Table!TableNext
<1> QED
  BY <1>4, <1>5

(* The hand is won by the one player without cards.                        *)
LEMMA HandSignedMaps ==
  ASSUME OrderInv, HandSigned
  PROVE  Mapped
<1>1. pc = "HandSign" /\ pc' = "HandOver" /\ UNCHANGED <<held, discard, color>>
  BY DEF HandSigned, Back, table
<1>2. Phase = "play" /\ Phase' = "won"
  BY <1>1, PhaseNow, PhaseNext DEF Playing, Won
<1>3. Stock' = Stock /\ OwnedBy' = OwnedBy /\ Range(Below)' = Range(Below) /\ Face' = Face
  <2>1. OwnedBy' = OwnedBy
    BY <1>1, OwnedStays DEF OwnedBy
  <2>2. Stock' = Stock
    BY <1>1, OwnedStays DEF Stock, Range
  <2> QED
    BY <1>1, <2>1, <2>2, BelowStays
<1>4. \E p \in Players : \A q \in Players : OwnedBy[q] = {} <=> q = p
  BY <1>1 DEF OrderInv, OnlyOneIsOut, OwnedBy
<1> QED
  BY <1>1, <1>2, <1>3, <1>4 DEF Mapped, Table!TableNext, Table!Win

LEMMA StepMaps ==
  ASSUME ProtocolInv, ProtocolInv', TableInv, CardsInv, OrderInv, [Next]_vars,
         pc \notin {"HandStart", "GameEnd"}
  PROVE  Mapped
<1>1. CASE Host
  <2>1. ~HandStarted /\ ~GameEnded
    BY DEF HandStarted, GameEnded, Back
  <2>2. Shape
    BY DEF ProtocolInv
  <2> QED
    BY <1>1, <2>1, <2>2, AnnounceMaps, StartsMap, RefusalMaps, DrawsMap, TurnsMap, KeysGivenMaps,
       TurnedUpMaps, FirstColorMaps, CardPlayedMaps, ShuffleDoneMaps, HandSignedMaps, Zenon DEF Host
<1>2. CASE ~Host
  BY <1>2, RestMaps DEF Next, Finished
<1> QED
  BY <1>1, <1>2

LEMMA InitMaps == Init => Table!TableInit
<1> SUFFICES ASSUME Init
             PROVE  Table!TableInit
  OBVIOUS
<1>1. held = <<>> /\ discard = <<>> /\ color = 0 /\ pc = "Start" /\ DOMAIN <<>> = {}
  BY EmptyIsSeq DEF Init
<1>2. \A p \in Players : Owned(p) = {}
  BY <1>1 DEF Owned, Holding
<1>3. Range(<<>>) = {}
  BY <1>1 DEF Range
<1>4. Stock = StartCards /\ OwnedBy = [p \in Players |-> {}] /\ Range(Below) = {} /\ Face = NoCard
  BY <1>1, <1>2, <1>3 DEF Stock, OwnedBy, Below, Face
<1>5. Phase = "setup"
  BY <1>1, PhaseNow DEF Setup
<1> QED
  BY <1>1, <1>4, <1>5, SameCards DEF Table!TableInit

(* Whatever goes back and forth encrypted, deck.go and client_player.go    *)
(* do with the cards of a hand what CardTable allows and nothing else.     *)
THEOREM GameRefinesCardTable ==
  ASSUME N * HandSize \in 1..Cardinality(StartCards)-1
  PROVE  Spec => ImplementsCardTable
<1>1. Dealable
  BY DEF Dealable, M
<1>2. ProtocolInv /\ ProtocolInv' /\ TableInv /\ CardsInv /\ OrderInv /\ [Next]_vars =>
        [pc \notin {"HandStart", "GameEnd"} => Table!TableNext \/ UNCHANGED Table!tableVars]_vars
  BY StepMaps DEF Mapped
<1>3. Spec => [][pc \notin {"HandStart", "GameEnd"} => Table!TableNext \/ UNCHANGED Table!tableVars]_vars
  BY <1>1, <1>2, ProtocolInvariant, TableInvariant, CardsInvariant, OrderInvariant, PTL DEF Spec
<1>4. Spec => Table!TableInit
  BY InitMaps DEF Spec
<1> QED
  BY <1>3, <1>4 DEF ImplementsCardTable
-----------------------------------------------------------------------------
\* What a player does with a request

(* A player answers what it is asked, on its own line, and what the        *)
(* request is not about it remembers as before.                            *)
LEMMA Remembers ==
  ASSUME Shape, NEW p \in Players, Handle(p)
  PROVE  /\ Alone(p) /\ line[p].type \in Requests
         /\ line'[p].type \notin Requests \cup {"idle"}
         /\ line'[p].type = "refused" => line'[p].why = line[p].type
         /\ line[p].type # "GameStart" =>
              /\ mem'[p].lastEvent = mem[p].lastEvent
              /\ line[p].type # "HandStart" =>
                   mem'[p].lastHandStart = mem[p].lastHandStart /\ mem'[p].sharedPrime = mem[p].sharedPrime
              /\ line[p].type # "HandEnd" => mem'[p].lastHandEnd = mem[p].lastHandEnd
              /\ line[p].type # "Shuffle" =>
                   mem'[p].start = mem[p].start /\ mem'[p].cardPairs = mem[p].cardPairs
              /\ line[p].type \notin {"Key", "Give"} => mem'[p].given = mem[p].given
              /\ line[p].type \notin {"Key", "Give", "Shuffle"} => mem'[p].deck = mem[p].deck
              /\ line[p].type \notin {"Give", "Play"} => mem'[p].myCards = mem[p].myCards
<1> USE DEF Shape, Alone, Asked, Forgotten, Requests
<1>1. CASE GameStart(p)
  BY <1>1 DEF GameStart, Remember, Reply, Signed
<1>2. CASE GameEnd(p)
  BY <1>2 DEF GameEnd, Answer, Reply, Refuse, Signed
<1>3. CASE HandStart(p)
  BY <1>3 DEF HandStart, Remember, Answer, Reply, Refuse, Signed
<1>4. CASE HandEnd(p)
  BY <1>4 DEF HandEnd, Remember, Answer, Reply, Refuse, Signed
<1>5. CASE ChooseColor(p) \/ ShouldChallenge(p) \/ RevealForChallenge(p)
  BY <1>5 DEF ChooseColor, ShouldChallenge, RevealForChallenge, Reply, Refuse
<1>6. CASE ShuffleRefused(p)
  BY <1>6 DEF ShuffleRefused, Refuse
<1>7. CASE ShuffleStage0(p)
  <2> DEFINE from0 == IF mem[p].start = <<>> THEN line[p].start ELSE mem[p].start
             key0 == <<p, mem[p].shuffles + 1, 0>>
             numbers0 == {EncryptInt(key0, line[p].cards[i]) : i \in DOMAIN line[p].cards}
  <2>1. /\ mem' = [mem EXCEPT ![p] = [mem[p] EXCEPT !.start = from0, !.stage0 = key0,
                                        !.shuffles = @ + 1]]
        /\ \E cards \in Seqs!SetToSeqs(numbers0) :
             line' = [line EXCEPT ![p] = [type |-> "cards", cards |-> cards]]
        /\ line[p].type = "Shuffle"
    BY <1>7, Zenon DEF ShuffleStage0, Remember, Reply
  <2> HIDE DEF from0, key0, numbers0
  <2> QED
    BY <2>1
<1>8. CASE ShuffleStage1(p)
  <2> DEFINE req == line[p].cards
             keys0 == [i \in DOMAIN req |-> Stage1Key(p, mem[p], i)]
             cards0 == [i \in DOMAIN keys0 |->
                          EncryptInt(keys0[i], DecryptInt(mem[p].stage0, req[i]))]
  <2>1. /\ mem' = [mem EXCEPT ![p] = [mem[p] EXCEPT !.stage1 = keys0, !.stage0 = NoKey]]
        /\ line' = [line EXCEPT ![p] = [type |-> "cards", cards |-> cards0]]
        /\ line[p].type = "Shuffle"
    BY <1>8, Zenon DEF ShuffleStage1, Remember, Reply
  <2> HIDE DEF keys0, cards0
  <2> QED
    BY <2>1
<1>9. CASE ShuffleStage2(p)
  <2> DEFINE pairs0 == PutAll(mem[p].cardPairs, Filed(mem[p], line[p].cards))
  <2>1. /\ mem' = [mem EXCEPT ![p] = [mem[p] EXCEPT !.cardPairs = pairs0, !.deck = line[p].cards,
                                        !.stage1 = <<>>]]
        /\ line' = [line EXCEPT ![p] = [type |-> "taken"]]
        /\ line[p].type = "Shuffle"
    BY <1>9, Zenon DEF ShuffleStage2, Remember, Reply
  <2> HIDE DEF pairs0
  <2> QED
    BY <2>1
<1>10. CASE GetKey(p)
  <2> DEFINE last == Seqs!Last(mem[p].deck)
             to == line[p].to
             ok == IF to = None
                     THEN /\ mem[p].lastEvent # NoEvent /\ mem[p].lastEvent.hand # NoHand
                          /\ \A i \in DOMAIN mem[p].lastEvent.hand.discard :
                               Value(mem[p].lastEvent.hand.discard[i]) = WildDrawFour
                     ELSE to # p /\ last \notin mem[p].given
             given0 == IF to # None /\ ok THEN mem[p].given \cup {last} ELSE mem[p].given
             key0 == mem[p].cardPairs[last]
  <2>1. /\ line[p].type = "Key"
        /\ \/ Refuse(p) /\ UNCHANGED mem
           \/ /\ mem' = [mem EXCEPT ![p] = [mem[p] EXCEPT !.deck = Seqs!Front(@), !.given = given0]]
              /\ Answer(p, ok, [type |-> "key", key |-> key0])
    BY <1>10, Zenon DEF GetKey, Remember
  <2>2. PICK m, r : /\ m = [mem[p] EXCEPT !.deck = Seqs!Front(@), !.given = given0]
                    /\ r = IF ok THEN [type |-> "key", key |-> key0]
                                 ELSE [type |-> "refused", why |-> line[p].type]
    OBVIOUS
  <2> HIDE DEF ok, given0, key0
  <2>3. \/ Refuse(p) /\ UNCHANGED mem
        \/ mem' = [mem EXCEPT ![p] = m] /\ line' = [line EXCEPT ![p] = r]
    BY <2>1, <2>2 DEF Answer, Reply, Refuse
  <2>4. /\ r.type = "key" \/ (r.type = "refused" /\ r.why = line[p].type)
        /\ DOMAIN m = DOMAIN mem[p]
        /\ \A f \in DOMAIN mem[p] \ {"deck", "given"} : m[f] = mem[p][f]
    BY <2>2
  <2> QED
    BY <2>1, <2>3, <2>4 DEF Refuse
<1>11. CASE GiveCard(p)
  <2> DEFINE last == Seqs!Last(mem[p].deck)
             others == line[p].keys
             keys == [others EXCEPT ![p] = mem[p].cardPairs[last]]
             open == FoldSet(LAMBDA q, v : DecryptInt(keys[q], v), last, Players)
             ok == /\ last \in DOMAIN mem[p].cardPairs
                   /\ last \notin mem[p].given
                   /\ \A q \in Players : (others[q] = NoKey) = (q = p)
                   /\ Opened(open)
             mine == [card |-> open.card, number |-> last, keys |-> keys]
             cards0 == IF ok THEN Append(mem[p].myCards, mine) ELSE mem[p].myCards
  <2>1. /\ line[p].type = "Give"
        /\ \/ Refuse(p) /\ UNCHANGED mem
           \/ /\ mem' = [mem EXCEPT ![p] = [mem[p] EXCEPT !.deck = Popped(@), !.given = @ \cup {last},
                         !.myCards = cards0]]
              /\ Answer(p, ok, [type |-> "taken"])
    BY <1>11, Zenon DEF GiveCard, Remember
  <2>2. PICK m, r : /\ m = [mem[p] EXCEPT !.deck = Popped(@), !.given = @ \cup {last},
                              !.myCards = cards0]
                    /\ r = IF ok THEN [type |-> "taken"]
                                 ELSE [type |-> "refused", why |-> line[p].type]
    OBVIOUS
  <2> HIDE DEF ok, cards0, last
  <2>3. \/ Refuse(p) /\ UNCHANGED mem
        \/ mem' = [mem EXCEPT ![p] = m] /\ line' = [line EXCEPT ![p] = r]
    BY <2>1, <2>2 DEF Answer, Reply, Refuse
  <2>4. /\ r.type = "taken" \/ (r.type = "refused" /\ r.why = line[p].type)
        /\ DOMAIN m = DOMAIN mem[p]
        /\ \A f \in DOMAIN mem[p] \ {"deck", "given", "myCards"} : m[f] = mem[p][f]
    BY <2>2
  <2> QED
    BY <2>1, <2>3, <2>4 DEF Refuse
<1>12. CASE Play(p)
  <2>1. line[p].type = "Play"
    BY <1>12 DEF Play
  <2>2. PICK i \in UIPlays(mem[p]) :
         IF i = NoCard THEN Refuse(p) /\ UNCHANGED mem
         ELSE LET c == mem[p].myCards[i]
              IN  /\ Remember(p, [mem[p] EXCEPT !.myCards = Without(@, i)])
                  /\ \E chosen \in IF IsWild(c.card) THEN ChosenColors ELSE {0} :
                       Reply(p, [type |-> "play", card |-> c.card, number |-> c.number,
                                 keys |-> c.keys, wildColor |-> ColorSent(c.card, chosen)])
    BY <1>12, Zenon DEF Play
  <2>3. CASE i = NoCard
    BY <2>1, <2>2, <2>3 DEF Refuse
  <2>4. CASE i # NoCard
    <3>1. PICK r : r.type = "play" /\ line' = [line EXCEPT ![p] = r]
      BY <2>2, <2>4 DEF Reply
    <3> QED
      BY <2>1, <2>2, <2>4, <3>1 DEF Remember
  <2> QED
    BY <2>3, <2>4
<1> QED
  BY <1>1, <1>2, <1>3, <1>4, <1>5, <1>6, <1>7, <1>8, <1>9, <1>10, <1>11, <1>12 DEF Handle
-----------------------------------------------------------------------------
\* The shuffle of a second hand

(* A second hand does not get beyond the first request of its shuffle, as  *)
(* everybody has been shown the first.                                     *)
SecondInv ==
  /\ pc = "NewHand" /\ hand > 0 => Told3
  /\ pc = "HandStart" /\ hand > 1 => Told3
  /\ hand > 1 /\ pc \notin Early \cup Terminal => pc = "Shuffle" /\ (Doomed \/ Refusal(line[0]))

(* Where the host goes on with a hand it is the first.                     *)
LEMMA FirstHand ==
  ASSUME TableInv, CardsInv, SecondInv, pc \notin Early \cup Terminal,
         pc \in Going \/ \E at \in Waiting : Back(at)
  PROVE  hand = 1 /\ ~Doomed /\ CardInv /\ Unrefused /\ Sound
<1>1. 0 \in Players
  BY NAssumption DEF Players
<1>2. CardInv /\ Unrefused /\ Sound
  BY GoesOn
<1>3. ~Doomed
  BY <1>1 DEF Doomed, Back, Answered, Requests, Going
<1>4. hand \in Nat /\ hand # 0
  BY <1>2 DEF CardInv, Early
<1>5. ~(hand > 1)
  BY <1>1, <1>2, <1>3 DEF SecondInv, Unrefused, Refusal
<1> QED
  BY <1>2, <1>3, <1>4, <1>5

(* The steps of the host within a hand do not begin another.               *)
Within ==
  \/ Announce \/ PassOn \/ ShuffleDone
  \/ Deal \/ Reshuffle \/ DealTo \/ KeysGiven \/ CardGiven
  \/ TurnUp \/ TurnedUp \/ FirstColor
  \/ AskPlay \/ NothingPlayed \/ CardPlayed
  \/ NextDrawsTwo \/ AskChallenge \/ ChallengeDecided \/ NoEffect
  \/ EndTurn \/ HandRevealed \/ HandSigned

LEMMA WithinHand ==
  ASSUME Shape, Within
  PROVE  /\ pc \notin Early \cup Terminal /\ UNCHANGED hand
         /\ pc \in Going \/ \E at \in Waiting : Back(at)
         /\ pc' \notin Early \cup {"GameEnd", "Complete"}
<1> USE DEF Early, Terminal, Going, Waiting, Back, game
<1>1. CASE Announce
  <2>1. AfterFirst \in {"FirstCard", "Draw", "FirstEffect", "Turn"}
    BY DEF AfterFirst
  <2> QED
    BY <1>1, <2>1 DEF Announce, Announcement, Shape
<1>2. CASE PassOn
  BY <1>2 DEF PassOn
<1>3. CASE ShuffleDone \/ Deal \/ DealTo \/ KeysGiven \/ CardGiven \/ TurnUp
  BY <1>3 DEF ShuffleDone, Deal, DealTo, KeysGiven, CardGiven, TurnUp, StartDraw
<1>4. CASE Reshuffle
  BY <1>4 DEF Reshuffle, Shuffle
<1>5. CASE TurnedUp \/ FirstColor \/ AskPlay
  BY <1>5 DEF TurnedUp, FirstColor, AskPlay
<1>6. CASE NothingPlayed \/ CardPlayed
  BY <1>6 DEF NothingPlayed, CardPlayed, PlayComesBack, StartDraw
<1>7. CASE NextDrawsTwo \/ AskChallenge \/ ChallengeDecided \/ NoEffect
  BY <1>7 DEF NextDrawsTwo, AskChallenge, ChallengeDecided, NoEffect, StartDraw
<1>8. CASE EndTurn \/ HandSigned
  BY <1>8 DEF EndTurn, HandSigned
<1>9. CASE HandRevealed
  BY <1>9, Zenon DEF HandRevealed
<1> QED
  BY <1>1, <1>2, <1>3, <1>4, <1>5, <1>6, <1>7, <1>8, <1>9 DEF Within

LEMMA HostSteps == Host <=>
  \/ Within \/ PlayerRefuses \/ StartGame \/ GameStarted \/ StartHand \/ HandStarted
  \/ AfterHand \/ GameEnded
BY DEF Host, Within

LEMMA HostSeconds ==
  ASSUME ProtocolInv, TableInv, CardsInv, SecondInv, Host
  PROVE  SecondInv'
<1> USE DEF Early, Terminal
<1>1. Shape
  BY DEF ProtocolInv
<1>2. CASE Within
  <2>1. /\ pc \notin Early \cup Terminal /\ UNCHANGED hand
        /\ pc \in Going \/ \E at \in Waiting : Back(at)
        /\ pc' \notin Early
    BY <1>1, <1>2, WithinHand
  <2>2. hand = 1
    BY <2>1, FirstHand
  <2> QED
    BY <2>1, <2>2 DEF SecondInv
<1>3. CASE PlayerRefuses
  BY <1>3 DEF PlayerRefuses, SecondInv
<1>4. CASE StartGame \/ GameStarted
  <2>1. pc \in {"Start", "GameStart"} /\ UNCHANGED hand /\ pc' \in {"GameStart", "NewHand"}
        /\ (pc = "GameStart" => Back(pc))
    BY <1>4 DEF StartGame, GameStarted, Back, game
  <2>2. hand = 0
    BY <2>1, GoesOn DEF CardInv, Going, Waiting
  <2> QED
    BY <2>1, <2>2 DEF SecondInv
<1>5. CASE StartHand
  <2>1. pc = "NewHand" /\ hand' = hand + 1 /\ pc' = "HandStart" /\ UNCHANGED <<mem, event, late>>
    BY <1>5 DEF StartHand, told
  <2>2. hand \in Nat
    BY <2>1, GoesOn DEF CardInv, Going
  <2>3. Told3 => Told3'
    BY <2>1, UntoldStays DEF ToldStays
  <2> QED
    BY <2>1, <2>2, <2>3 DEF SecondInv
<1>6. CASE HandStarted
  <2>1. /\ pc = "HandStart" /\ UNCHANGED <<hand, mem, event, late>>
        /\ pc' = "Panicked" \/ (pc' = "Shuffle" /\ Shuffle(<<>>))
    BY <1>6 DEF HandStarted, Back, game, told, Shuffle
  <2>2. Told3 => Told3'
    BY <2>1, UntoldStays DEF ToldStays
  <2>3. ASSUME Shuffle(<<>>), Told3
        PROVE  Doomed'
    BY <2>2, <2>3, FirstAsked DEF Doomed, FromCards, FullDeck
  <2> QED
    BY <2>1, <2>3 DEF SecondInv
<1>7. CASE AfterHand
  <2>1. /\ pc = "AfterHand" /\ UNCHANGED <<hand, mem, event, late>> /\ pc' \in {"NewHand", "GameEnd"}
    BY <1>7 DEF AfterHand, told
  <2>2. Told3 /\ hand = 1
    BY <2>1, FirstHand DEF Going, Sound, Place, Afterwards
  <2>3. Told3'
    BY <2>1, <2>2, UntoldStays DEF ToldStays
  <2> QED
    BY <2>1, <2>2, <2>3 DEF SecondInv
<1>8. CASE GameEnded
  BY <1>8 DEF GameEnded, SecondInv
<1> QED
  BY <1>2, <1>3, <1>4, <1>5, <1>6, <1>7, <1>8, HostSteps

(* Events stay told where no game starts.                                  *)
LEMMA PlayerSeconds ==
  ASSUME ProtocolInv, TableInv, CardsInv, SecondInv, NEW p \in Players, Player(p)
  PROVE  SecondInv'
<1>1. /\ UNCHANGED <<pc, hand, stage, seat, event, late>> /\ Handle(p) /\ Shape
  BY DEF Player, game, passing, ProtocolInv
<1>2. /\ Alone(p) /\ line[p].type \in Requests
      /\ line[p].type # "GameStart" => mem'[p].lastEvent = mem[p].lastEvent
  BY <1>1, Remembers
<1>3. CASE pc \in Terminal
  BY <1>1, <1>3 DEF SecondInv, Terminal
<1>4. CASE pc \notin Terminal
  <2>1. WireInv
    BY <1>4 DEF ProtocolInv, Live
  <2>2. pc # "GameStart" => (Told3 => Told3')
    <3>1. pc # "GameStart" => \A q \in Players : mem'[q].lastEvent = mem[q].lastEvent
      BY <1>2, <2>1 DEF WireInv, Alone
    <3> QED
      BY <1>1, <3>1, UntoldStays DEF ToldStays
  <2>3. ASSUME pc = "Shuffle", Doomed
        PROVE  Refusal(line'[0])
    <3>1. p = 0 /\ line[0].type = "Shuffle"
      BY <1>1, <1>2, <2>1, <2>3 DEF WireInv, Doomed, Idle, Requests
    <3>2. ~ShuffleIsExpected(mem[p], line[p])
      BY <2>3, <3>1, FullDeckRefused DEF Doomed
    <3>3. ShuffleRefused(p)
      <4>1. ~(ShuffleStage0(p) \/ ShuffleStage1(p) \/ ShuffleStage2(p))
        BY <1>1, <3>2, ShuffleUntold
      <4>2. ~(GameStart(p) \/ GameEnd(p) \/ HandStart(p) \/ HandEnd(p) \/ ChooseColor(p))
        BY <3>1 DEF GameStart, GameEnd, HandStart, HandEnd, ChooseColor, Asked
      <4>3. ~(GetKey(p) \/ GiveCard(p) \/ Play(p) \/ ShouldChallenge(p) \/ RevealForChallenge(p))
        BY <3>1, Zenon DEF GetKey, GiveCard, Play, ShouldChallenge, RevealForChallenge, Asked
      <4> QED
        BY <1>1, <4>1, <4>2, <4>3 DEF Handle
    <3> QED
      BY <1>1, <3>1, <3>3 DEF ShuffleRefused, Refuse, Refusal, Shape
  <2>4. ASSUME Refusal(line[0])
        PROVE  Refusal(line'[0])
    BY <1>2, <2>4, NAssumption DEF Refusal, Alone, Requests, Players
  <2> QED
    BY <1>1, <1>4, <2>2, <2>3, <2>4 DEF SecondInv
<1> QED
  BY <1>3, <1>4

LEMMA ArriveSeconds ==
  ASSUME ProtocolInv, SecondInv, Arrive
  PROVE  SecondInv'
<1>1. Shape /\ UNCHANGED <<pc, hand, line, stage, seat>>
  BY DEF Arrive, game, passing, ProtocolInv
<1>2. Told3 => Told3'
  BY <1>1, ArriveTells DEF ToldStays
<1>3. Doomed => Doomed'
  BY <1>1, <1>2 DEF Doomed, FullDeck
<1> QED
  BY <1>1, <1>2, <1>3 DEF SecondInv, Refusal, Terminal, Early

LEMMA StutterSeconds == SecondInv /\ UNCHANGED vars => SecondInv'
BY DEF vars, game, passing, wires, told, SecondInv, Doomed, Refusal, Terminal, Early, Told3, Told1,
       Outdated, FullDeck, M

LEMMA SecondInvariant == ASSUME Dealable PROVE Spec => []SecondInv
<1>1. Init => SecondInv
  BY DEF Init, SecondInv, Early
<1>2. ProtocolInv /\ TableInv /\ CardsInv /\ SecondInv /\ [Next]_vars => SecondInv'
  BY HostSeconds, PlayerSeconds, ArriveSeconds, StutterSeconds DEF Next, Finished
<1> QED
  BY <1>1, <1>2, ProtocolInvariant, TableInvariant, CardsInvariant, PTL DEF Spec

(* No second hand is played: whatever its cards, everyone takes the        *)
(* request for its shuffle for a reshuffle of the first hand, and the one  *)
(* who is asked first refuses it.                                          *)
THEOREM OneHandIsPlayed ==
  ASSUME Dealable
  PROVE  Spec => [](hand > 1 => \/ pc \in Early \cup Terminal
                                \/ pc = "Shuffle" /\ (Doomed \/ Refusal(line[0])))
<1>1. SecondInv => (hand > 1 => \/ pc \in Early \cup Terminal
                                \/ pc = "Shuffle" /\ (Doomed \/ Refusal(line[0])))
  BY DEF SecondInv
<1> QED
  BY <1>1, SecondInvariant, PTL
-----------------------------------------------------------------------------
\* Late events

(* An event is late for one player, and as often as MaxLate allows.        *)
LateInv ==
  /\ IsFiniteSet(late) /\ Cardinality(late) <= MaxLate
  /\ \A l \in late : l = <<l[1], l[2]>> /\ l[1] \in Players
  /\ \A l, m \in late : l[1] = m[1] => l = m

LEMMA SendIsLate ==
  ASSUME LateInv, NEW type, NEW h, Send(type, h)
  PROVE  LateInv'
<1> DEFINE e == [type |-> type, scores |-> scores, dealer |-> dealer, hand |-> h]
           waiting == {l[1] : l \in late}
           kept == {l \in late : l[2] = event}
           new(s) == {<<p, e>> : p \in s}
<1>1. PICK slow \in SUBSET (Players \ waiting) :
           /\ Cardinality(waiting) + Cardinality(slow) <= MaxLate
           /\ late' = kept \cup new(slow)
  BY DEF Send
<1>2. IsFiniteSet(waiting) /\ IsFiniteSet(slow) /\ IsFiniteSet(kept) /\ IsFiniteSet(new(slow))
  <2>1. IsFiniteSet(waiting)
    <3> DEFINE f == [l \in late |-> l[1]]
    <3>1. f \in Surjection(late, waiting)
      BY Fun_IsSurj
    <3> QED
      BY <3>1, FS_Surjection DEF LateInv
  <2>2. IsFiniteSet(slow)
    BY PlayersAreFinite, FS_Subset
  <2>3. IsFiniteSet(kept)
    BY FS_Subset DEF LateInv
  <2>4. IsFiniteSet(new(slow))
    <3> DEFINE g == [p \in slow |-> <<p, e>>]
    <3>1. g \in Surjection(slow, new(slow))
      BY Fun_IsSurj
    <3> QED
      BY <2>2, <3>1, FS_Surjection
  <2> QED
    BY <2>1, <2>2, <2>3, <2>4
<1>3. \A l, m \in late' : l[1] = m[1] => l = m
  BY <1>1 DEF LateInv
<1>4. \A l \in late' : l = <<l[1], l[2]>> /\ l[1] \in Players
  BY <1>1 DEF LateInv
<1>5. IsFiniteSet(late') /\ Cardinality(late') <= Cardinality(waiting) + Cardinality(slow)
  <2> DEFINE W == waiting \cup slow
             h1 == [l \in late' |-> l[1]]
  <2>1. IsFiniteSet(W) /\ Cardinality(W) = Cardinality(waiting) + Cardinality(slow) - Cardinality(waiting \cap slow)
    BY <1>2, FS_Union
  <2>2. waiting \cap slow = {}
    BY <1>1
  <2>3. Cardinality(W) = Cardinality(waiting) + Cardinality(slow)
    <3>1. Cardinality(waiting \cap slow) = 0
      BY <2>2, FS_EmptySet
    <3>2. Cardinality(waiting) \in Nat /\ Cardinality(slow) \in Nat
      BY <1>2, FS_CardinalityType
    <3> HIDE DEF waiting, W
    <3> QED
      BY <2>1, <3>1, <3>2
  <2>4. h1 \in Injection(late', W)
    <3>1. \A l \in late' : l[1] \in W
      <4> SUFFICES ASSUME NEW l \in late'
                   PROVE  l[1] \in W
        OBVIOUS
      <4>1. l \in late \/ \E p \in slow : l = <<p, e>>
        BY <1>1
      <4> HIDE DEF e
      <4> QED
        BY <4>1
    <3>2. \A l, m \in late' : h1[l] = h1[m] => l = m
      BY <1>3
    <3>3. h1 \in [late' -> W]
      BY <3>1
    <3> QED
      BY <3>2, <3>3, Fun_IsInj
  <2> QED
    BY <2>1, <2>3, <2>4, FS_Injection
<1>6. Cardinality(waiting) \in Nat /\ Cardinality(slow) \in Nat /\ Cardinality(late') \in Nat /\ MaxLate \in Nat
  BY <1>2, <1>5, FS_CardinalityType, BoundsAssumption
<1> QED
  BY <1>1, <1>3, <1>4, <1>5, <1>6 DEF LateInv

LEMMA LateInvariant == Spec => []LateInv
<1>1. Init => LateInv
  BY FS_EmptySet, BoundsAssumption DEF Init, LateInv
<1>2. LateInv /\ [Next]_vars => LateInv'
  <2> SUFFICES ASSUME LateInv, [Next]_vars
               PROVE  LateInv'
    OBVIOUS
  <2>1. CASE Announce \/ GameStarted \/ GameEnded
    BY <2>1, SendIsLate DEF Announce, GameStarted, GameEnded
  <2>2. ASSUME UNCHANGED late
        PROVE  LateInv'
    BY <2>2 DEF LateInv
  <2>3. CASE Arrive
    <3>1. PICK l \in late : late' = late \ {l}
      BY <2>3 DEF Arrive
    <3>2. IsFiniteSet(late') /\ Cardinality(late') <= Cardinality(late)
      BY <3>1, FS_Subset DEF LateInv
    <3>3. Cardinality(late) \in Nat /\ Cardinality(late') \in Nat /\ MaxLate \in Nat
      BY <3>2, FS_CardinalityType, BoundsAssumption DEF LateInv
    <3> QED
      BY <3>1, <3>2, <3>3 DEF LateInv
  <2>4. CASE UNCHANGED vars \/ Finished \/ \E p \in Players : Player(p)
    BY <2>2, <2>4 DEF vars, wires, told, Finished, Player
  <2>5. CASE PlayerRefuses \/ StartGame \/ StartHand \/ HandStarted \/ AfterHand
    BY <2>2, <2>5 DEF PlayerRefuses, StartGame, StartHand, HandStarted, AfterHand, wires, told
  <2>6. CASE Within /\ ~Announce
    <3>1. UNCHANGED told
      <4>1. CASE PassOn \/ ShuffleDone \/ Deal \/ Reshuffle \/ DealTo \/ KeysGiven \/ CardGiven
        BY <4>1 DEF PassOn, ShuffleDone, Deal, Reshuffle, DealTo, KeysGiven, CardGiven, wires
      <4>2. CASE TurnUp \/ TurnedUp \/ FirstColor \/ AskPlay \/ NothingPlayed \/ CardPlayed
        BY <4>2 DEF TurnUp, TurnedUp, FirstColor, AskPlay, NothingPlayed, CardPlayed
      <4>3. CASE NextDrawsTwo \/ AskChallenge \/ ChallengeDecided \/ NoEffect \/ EndTurn \/ HandSigned
        BY <4>3 DEF NextDrawsTwo, AskChallenge, ChallengeDecided, NoEffect, EndTurn, HandSigned, wires
      <4>4. CASE HandRevealed
        BY <4>4, Zenon DEF HandRevealed
      <4> QED
        BY <2>6, <4>1, <4>2, <4>3, <4>4 DEF Within
    <3> QED
      BY <2>2, <3>1 DEF told
  <2> QED
    BY <2>1, <2>3, <2>4, <2>5, <2>6, HostSteps DEF Next
<1> QED
  BY <1>1, <1>2, PTL DEF Spec
-----------------------------------------------------------------------------
\* Where the game stands

(* The bound on the shuffles is used by the first of each hand and by      *)
(* reshuffles up to MaxShuffles.                                           *)
PlaceInv ==
  /\ pc \in Waiting \cup Going \cup Terminal
  /\ hand \in Nat /\ shuffles <= MaxShuffles + hand
  /\ pc = "HandStart" => hand > 0 /\ shuffles < MaxShuffles + hand

LEMMA PlaceInvariant == ASSUME Dealable PROVE Spec => []PlaceInv
<1>1. Init => PlaceInv
  BY BoundsAssumption DEF Init, PlaceInv, Going
<1>2. ProtocolInv /\ TableInv /\ PlaceInv /\ [Next]_vars => PlaceInv'
  <2> SUFFICES ASSUME ProtocolInv, TableInv, PlaceInv, [Next]_vars
               PROVE  PlaceInv'
    OBVIOUS
  <2>1. Shape /\ MaxShuffles \in Nat /\ shuffles \in Nat /\ hand \in Nat
    BY BoundsAssumption DEF ProtocolInv, Shape, PlaceInv
  <2> USE DEF PlaceInv, Waiting, Going, Terminal
  <2>2. CASE PlayerRefuses \/ StartGame \/ GameStarted \/ StartHand \/ AfterHand \/ GameEnded
    BY <2>1, <2>2 DEF PlayerRefuses, StartGame, GameStarted, StartHand, AfterHand, GameEnded, game,
                      passing
  <2>3. CASE HandStarted
    <3>1. pc = "HandStart" /\ UNCHANGED hand
      BY <2>3 DEF HandStarted, Back, game
    <3>2. \/ pc' = "Panicked" /\ UNCHANGED shuffles
          \/ pc' = "Shuffle" /\ shuffles' = shuffles + 1
      BY <2>3 DEF HandStarted, Shuffle, passing
    <3> QED
      BY <2>1, <3>1, <3>2
  <2>4. CASE Reshuffle
    <3>1. shuffles < MaxShuffles /\ UNCHANGED hand /\ pc' = "Shuffle" /\ shuffles' = shuffles + 1
      BY <2>4 DEF Reshuffle, Shuffle, game
    <3> QED
      BY <2>1, <3>1
  <2>5. CASE Announce
    <3>1. AfterFirst \in {"FirstCard", "Draw", "FirstEffect", "Turn"}
      BY DEF AfterFirst
    <3>2. UNCHANGED <<hand, shuffles>> /\ pc' = Announcement[2]
      BY <2>5 DEF Announce, game, passing
    <3>3. pc = "Drawn" => job.then \in {"Deal", "Again", "Turn", "EndTurn"}
      BY DEF TableInv, Resting, Idle, Unrefused, Sound, Place, Drawing
    <3>4. Announcement[2] \in Going
      BY <2>1, <2>5, <3>1, <3>3 DEF Announce, Announcement
    <3> QED
      BY <2>1, <3>2, <3>4
  <2>6. CASE PassOn \/ ShuffleDone \/ Deal \/ DealTo \/ KeysGiven \/ CardGiven \/ TurnUp
    BY <2>1, <2>6 DEF PassOn, ShuffleDone, Deal, DealTo, KeysGiven, CardGiven, TurnUp, game, passing,
                      StartDraw, Back
  <2>7. CASE TurnedUp \/ FirstColor \/ AskPlay \/ NothingPlayed \/ CardPlayed
    BY <2>1, <2>7 DEF TurnedUp, FirstColor, AskPlay, NothingPlayed, CardPlayed, game, passing,
                      StartDraw
  <2>8. CASE NextDrawsTwo \/ AskChallenge \/ ChallengeDecided \/ NoEffect \/ EndTurn \/ HandSigned
    BY <2>1, <2>8 DEF NextDrawsTwo, AskChallenge, ChallengeDecided, NoEffect, EndTurn, HandSigned,
                      game, passing, StartDraw
  <2>9. CASE HandRevealed
    <3>1. pc' \in {"Panicked", "Failed", "HandSign"} /\ UNCHANGED <<hand, shuffles>>
      <4>1. pc' \in {"Panicked", "Failed", "HandSign"} /\ UNCHANGED <<hand, passing>>
        BY <2>9, Zenon DEF HandRevealed
      <4> QED
        BY <4>1 DEF passing
    <3> QED
      BY <2>1, <3>1
  <2>10. CASE UNCHANGED vars \/ Finished \/ Arrive \/ \E p \in Players : Player(p)
    <3>1. UNCHANGED <<pc, hand, shuffles>>
      BY <2>10 DEF vars, Finished, Arrive, Player, game, passing
    <3> QED
      BY <3>1
  <2> QED
    BY <2>2, <2>3, <2>4, <2>5, <2>6, <2>7, <2>8, <2>9, <2>10 DEF Next, Host
<1> QED
  BY <1>1, <1>2, ProtocolInvariant, TableInvariant, PTL DEF Spec
-----------------------------------------------------------------------------
\* What the host sends

LEMMA Calls ==
  ASSUME NEW p \in Players, NEW S, NEW req, CallAll(S, req)
  PROVE  line'[p] = IF p \in S THEN req ELSE Idle
BY DEF CallAll

LEMMA HangsUp ==
  ASSUME NEW p \in Players, HangUp
  PROVE  line'[p] = Idle
BY DEF HangUp

(* The host puts nothing on a line but requests, each where it is due.     *)
LEMMA HostSpeaks ==
  ASSUME Host, NEW p \in Players
  PROVE  \/ line'[p] = line[p]
         \/ /\ line'[p].type \in Requests \cup {"idle"}
            /\ line'[p].type = "Shuffle" => pc' = "Shuffle"
            /\ line'[p].type = "Play" => pc' \in {"Play", "PlayAgain"}
            /\ line'[p].type = "Give" => KeysGiven
<1> USE Calls, HangsUp DEF Requests, Idle, Call
<1>1. CASE PlayerRefuses \/ Announce \/ Deal \/ NextDrawsTwo \/ NoEffect
  BY <1>1 DEF PlayerRefuses, Announce, Deal, NextDrawsTwo, NoEffect, wires
<1>2. CASE StartGame \/ GameStarted \/ StartHand \/ AfterHand \/ GameEnded
  BY <1>2 DEF StartGame, GameStarted, StartHand, AfterHand, GameEnded
<1>3. CASE HandStarted
  BY <1>3 DEF HandStarted, Shuffle, ShuffleRequest
<1>4. CASE PassOn
  <2>1. PICK cards : \/ UNCHANGED line
                     \/ Call(seat', ShuffleRequest(start, stage', cards)) /\ UNCHANGED pc
    BY <1>4 DEF PassOn
  <2> QED
    BY <1>4, <2>1 DEF PassOn, Back, ShuffleRequest
<1>5. CASE Reshuffle
  BY <1>5 DEF Reshuffle, Shuffle, ShuffleRequest
<1>6. CASE ShuffleDone \/ DealTo \/ CardGiven \/ TurnUp
  BY <1>6 DEF ShuffleDone, DealTo, CardGiven, TurnUp
<1>7. CASE KeysGiven
  BY <1>7 DEF KeysGiven
<1>8. CASE TurnedUp
  <2>1. HangUp \/ Call(turn, [type |-> "ChooseColor"])
    BY <1>8, Zenon DEF TurnedUp
  <2> QED
    BY <2>1
<1>9. CASE FirstColor \/ NothingPlayed \/ CardPlayed
  <2>1. HangUp \/ UNCHANGED line
    <3>1. CASE CardPlayed
      BY <3>1, Zenon DEF CardPlayed
    <3> QED
      BY <1>9, <3>1 DEF FirstColor, NothingPlayed
  <2> QED
    BY <2>1
<1>10. CASE AskPlay
  BY <1>10 DEF AskPlay
<1>11. CASE AskChallenge \/ ChallengeDecided \/ HandSigned
  <2>1. CASE AskChallenge
    <3>1. \E q \in Players : \E req : CallAll({q}, req) /\ req.type = "Challenge"
      BY <2>1 DEF AskChallenge
    <3> QED
      BY <3>1
  <2>2. CASE ChallengeDecided
    <3>1. HangUp \/ Call(turn, [type |-> "Reveal"])
      BY <2>2 DEF ChallengeDecided
    <3> QED
      BY <3>1
  <2>3. CASE HandSigned
    BY <2>3 DEF HandSigned
  <2> QED
    BY <1>11, <2>1, <2>2, <2>3
<1>12. CASE EndTurn \/ HandRevealed
  <2>1. \/ UNCHANGED line
        \/ \E st, q, score, infos : CallAll(Players, HandEndRequest(st, q, score, infos))
    <3>1. CASE EndTurn
      BY <3>1, Zenon DEF EndTurn
    <3>2. CASE HandRevealed
      BY <3>2, Zenon DEF HandRevealed
    <3> QED
      BY <1>12, <3>1, <3>2
  <2>2. CASE UNCHANGED line
    BY <2>2
  <2>3. CASE \E st, q, score, infos : CallAll(Players, HandEndRequest(st, q, score, infos))
    <3>1. PICK st, q, score, infos : CallAll(Players, HandEndRequest(st, q, score, infos))
      BY <2>3
    <3> QED
      BY <3>1 DEF HandEndRequest
  <2> QED
    BY <2>1, <2>2, <2>3
<1> QED
  BY <1>1, <1>2, <1>3, <1>4, <1>5, <1>6, <1>7, <1>8, <1>9, <1>10, <1>11, <1>12 DEF Host

(* It goes on when nobody is asked for cards.                              *)
LEMMA NobodyAsked ==
  ASSUME ProtocolInv, TableInv, Host, NEW p \in Players
  PROVE  pc \notin Terminal /\ line[p].type \notin {"Shuffle", "Give", "Play"}
<1>1. CASE PlayerRefuses
  <2>1. pc \notin Terminal /\ \E q \in Players : line[q].type = "refused"
    BY <1>1 DEF PlayerRefuses
  <2>2. WireInv /\ Shape
    BY <2>1 DEF ProtocolInv, Live
  <2>3. line[p].type \in {"Shuffle", "Give", "Play"} =>
          \A q \in Players \ {p} : line[q] = Idle
    BY <2>2, AskedWhere DEF WireInv
  <2> QED
    BY <2>1, <2>3 DEF Idle
<1>2. CASE Within
  <2>1. /\ pc \notin Terminal
        /\ pc \in Going \/ \E at \in Waiting : Back(at)
    BY <1>2, WithinHand DEF ProtocolInv
  <2> QED
    BY <2>1 DEF TableInv, Resting, Idle, Back, Answered, Requests
<1>3. CASE StartGame \/ StartHand \/ AfterHand
  <2>1. pc \in Going /\ pc \notin Terminal
    BY <1>3 DEF StartGame, StartHand, AfterHand, Going, Terminal
  <2> QED
    BY <2>1 DEF TableInv, Resting, Idle
<1>4. CASE GameStarted \/ HandStarted \/ GameEnded
  BY <1>4 DEF GameStarted, HandStarted, GameEnded, Back, Answered, Requests, Terminal
<1> QED
  BY <1>1, <1>2, <1>3, <1>4, HostSteps
-----------------------------------------------------------------------------
\* Numbers and keys

\* The keys a message or a card has, by player.
KeysOfAll == [Players -> Keys \cup {NoKey}]

\* What a player has of them.
KeepsKeys(p) ==
  /\ mem[p].deck \in Seq(Numbers)
  /\ \A v \in DOMAIN mem[p].cardPairs : mem[p].cardPairs[v] \in Keys
  /\ IsSeq(mem[p].myCards)
  /\ \A c \in Range(mem[p].myCards) : c.card \in StartCards /\ c.keys \in KeysOfAll

\* What is on its line.
SendsKeys(p) ==
  /\ line[p].type = "Shuffle" => pc = "Shuffle"
  /\ line[p].type = "Play" => pc \in {"Play", "PlayAgain"}
  /\ line[p].type = "Give" =>
       /\ pc = "Give" /\ line[p].keys \in KeysOfAll
       /\ line[p].keys = seen[Seqs!Last(mem[p].deck)]
  /\ line[p].type = "key" => line[p].key \in Keys
  /\ line[p].type = "play" => line[p].keys \in KeysOfAll
  /\ line[p].type = "revealed" =>
       IsSeq(line[p].cards) /\ \A j \in DOMAIN line[p].cards : line[p].cards[j].card \in StartCards

KeyInv ==
  /\ work \in Seq(Numbers) /\ Len(work) <= M /\ deck \in Seq(Numbers)
  /\ pc = "Shuffle" => shuffles >= 1
  /\ DOMAIN held \subseteq Numbers /\ \A v \in Out : seen[v] \in KeysOfAll
  /\ \A p \in Players : KeepsKeys(p) /\ SendsKeys(p)

(* Shuffles add keys and numbers.                                          *)
LEMMA KeysGrow ==
  ASSUME shuffles \in Nat, shuffles' \in Nat, shuffles <= shuffles'
  PROVE  /\ Keys \subseteq Keys' /\ Numbers \subseteq Numbers' /\ KeysOfAll \subseteq KeysOfAll'
         /\ Seq(Numbers) \subseteq Seq(Numbers)'
<1>1. 1..shuffles \subseteq 1..shuffles'
  OBVIOUS
<1>2. Keys \subseteq Keys'
  BY <1>1 DEF Keys
<1>3. Numbers \subseteq Numbers'
  BY <1>2 DEF Numbers
<1>4. Seq(Numbers) \subseteq Seq(Numbers)'
  BY <1>3, SeqMonotonic
<1>5. NoKey' = NoKey /\ KeysOfAll \subseteq KeysOfAll'
  BY <1>2 DEF KeysOfAll, NoKey
<1> QED
  BY <1>2, <1>3, <1>4, <1>5

\* What a player keeps of numbers and keys stays.
KeepsOn(p) ==
  /\ mem'[p].deck = mem[p].deck /\ mem'[p].cardPairs = mem[p].cardPairs
  /\ mem'[p].myCards = mem[p].myCards

LEMMA StillKeeps ==
  ASSUME shuffles \in Nat, shuffles' \in Nat, shuffles <= shuffles',
         NEW p, KeepsKeys(p), KeepsOn(p)
  PROVE  KeepsKeys(p)'
BY KeysGrow DEF KeepsKeys, KeepsOn

(* A step of the host asks for keys as it should.                          *)
LEMMA StillSends ==
  ASSUME ProtocolInv, TableInv, KeyInv, Host, shuffles' \in Nat, shuffles <= shuffles',
         NEW p \in Players, ~KeysGiven
  PROVE  SendsKeys(p)'
<1>1. shuffles \in Nat /\ SendsKeys(p)
  BY DEF ProtocolInv, Shape, KeyInv
<1>2. line[p].type \notin {"Shuffle", "Give", "Play"}
  BY NobodyAsked
<1>3. CASE line'[p] = line[p]
  BY <1>1, <1>2, <1>3, KeysGrow DEF SendsKeys
<1>4. CASE line'[p] # line[p]
  BY <1>4, HostSpeaks DEF SendsKeys, Requests
<1> QED
  BY <1>3, <1>4

LEMMA QuietKeys ==
  ASSUME ProtocolInv, TableInv, KeyInv, Host, ~KeysGiven,
         UNCHANGED <<deck, held, seen, work, shuffles>>, MemStays, pc' = "Shuffle" => pc = "Shuffle"
  PROVE  KeyInv'
<1>1. shuffles \in Nat /\ shuffles' \in Nat /\ shuffles <= shuffles'
  BY DEF ProtocolInv, Shape
<1>2. \A p \in Players : KeepsKeys(p)' /\ SendsKeys(p)'
  <2> SUFFICES ASSUME NEW p \in Players
               PROVE  KeepsKeys(p)' /\ SendsKeys(p)'
    OBVIOUS
  <2>1. KeepsOn(p)
    BY DEF MemStays, KeepsOn
  <2> QED
    BY <1>1, <2>1, StillKeeps, StillSends DEF KeyInv
<1> QED
  BY <1>1, <1>2, KeysGrow DEF KeyInv, Out, M

(* A sequence of numbers is one of numbers without its last.               *)
LEMMA FrontIsIn ==
  ASSUME NEW S, NEW s \in Seq(S)
  PROVE  Seqs!Front(s) \in Seq(S) /\ (s # <<>> => Seqs!Last(s) \in S)
<1>1. IsSeq(s) /\ \A i \in DOMAIN s : s[i] \in S
  BY SeqOfRange, LenProperties, ElementOfSeq DEF IsSeq
<1>2. PICK f : f = Seqs!Front(s)
  OBVIOUS
<1>3. /\ IsSeq(f)
      /\ s # <<>> => /\ Len(s) \in Nat \ {0} /\ Len(f) = Len(s) - 1
                     /\ \A j \in 1..Len(s)-1 : f[j] = s[j]
                     /\ Seqs!Last(s) = s[Len(s)]
  BY <1>1, <1>2, FrontAndLast
<1>4. DOMAIN s = 1..Len(s) /\ DOMAIN f = 1..Len(f)
  BY <1>1, <1>3, SeqFacts
<1>5. CASE s # <<>>
  <2>1. \A j \in DOMAIN f : f[j] \in S
    BY <1>1, <1>3, <1>4, <1>5
  <2>2. Len(s) \in DOMAIN s
    BY <1>3, <1>4, <1>5
  <2>3. Range(f) \subseteq S
    BY <2>1 DEF Range
  <2>4. f \in Seq(S)
    BY <1>3, <2>3, SeqMonotonic DEF IsSeq
  <2> QED
    BY <1>1, <1>2, <1>3, <1>5, <2>2, <2>4
<1>6. CASE s = <<>>
  <2>1. Len(s) = 0 /\ f = SubSeq(<<>>, 1, 0 - 1)
    BY <1>2, <1>6, EmptyIsSeq DEF Seqs!Front
  <2>2. \A i \in 1..(0 - 1) : <<>>[i] \in S
    OBVIOUS
  <2>3. <<>> \in Seq(S) /\ 1 \in Int /\ 0 - 1 \in Int
    BY EmptySeq
  <2>4. SubSeq(<<>>, 1, 0 - 1) \in Seq(S)
    BY <2>2, <2>3, SubSeqProperties
  <2> QED
    BY <1>2, <1>6, <2>1, <2>4
<1> QED
  BY <1>5, <1>6

LEMMA SeqIsIn ==
  ASSUME NEW S, NEW s, IsSeq(s), \A i \in DOMAIN s : s[i] \in S
  PROVE  s \in Seq(S)
<1>1. Range(s) \subseteq S
  BY DEF Range
<1> QED
  BY <1>1, SeqMonotonic DEF IsSeq

(* Numbers of different cards of the start are no more than those.         *)
LEMMA FewFaces ==
  ASSUME NEW s, IsSeq(s), Apart(FacesOf(s)), Range(FacesOf(s)) \subseteq StartCards
  PROVE  Len(s) <= M /\ Len(s) \in Nat
<1> DEFINE f == [i \in 1..Len(s) |-> s[i].card]
<1>1. DOMAIN s = 1..Len(s) /\ Len(s) \in Nat
  BY SeqFacts
<1>2. FacesOf(s) = f
  BY <1>1 DEF FacesOf
<1>3. f \in Injection(1..Len(s), StartCards)
  <2>1. \A i \in 1..Len(s) : f[i] \in Range(f)
    BY DEF Range
  <2>2. f \in [1..Len(s) -> StartCards]
    BY <1>2, <2>1
  <2>3. \A i, j \in 1..Len(s) : f[i] = f[j] => i = j
    BY <1>2 DEF Apart
  <2> HIDE DEF f
  <2> QED
    BY <2>2, <2>3, Fun_IsInj
<1>4. Cardinality(1..Len(s)) = Len(s)
  <2>1. 1 \in Int /\ Len(s) \in Int
    BY <1>1
  <2>2. Cardinality(1..Len(s)) = IF 1 > Len(s) THEN 0 ELSE Len(s) - 1 + 1
    BY <2>1, FS_Interval
  <2> QED
    BY <1>1, <2>2
<1> HIDE DEF f
<1>5. Cardinality(1..Len(s)) <= Cardinality(StartCards)
  BY <1>3, PackIsFinite, FS_Injection
<1> QED
  BY <1>1, <1>4, <1>5 DEF M

LEMMA IsOfNumbers ==
  ASSUME NEW v, Proper(v), Hidden(v) => v.powers \subseteq Keys \X {1, -1}
  PROVE  v \in Numbers
<1>1. v.card \in StartCards /\ v.powers \in SUBSET (Keys \X {1, -1})
      /\ v = [card |-> v.card, powers |-> v.powers]
  BY DEF Proper, IsNumber, Hidden
<1> QED
  BY <1>1 DEF Numbers

(* A shuffle begins with plain cards.                                      *)
LEMMA PlainNumbers ==
  ASSUME NEW cards, Shuffle(cards), IsSeq(FromCards(cards)), Len(FromCards(cards)) <= M,
         Range(FromCards(cards)) \subseteq StartCards, shuffles \in Nat
  PROVE  /\ work' \in Seq(Numbers)' /\ Len(work') <= M
         /\ shuffles' = shuffles + 1 /\ pc' = "Shuffle"
<1>1. PICK from : from = FromCards(cards)
  OBVIOUS
<1>2. PICK plain : plain = [i \in DOMAIN from |-> Plain(from[i])]
  OBVIOUS
<1>3. work' = plain /\ shuffles' = shuffles + 1 /\ pc' = "Shuffle"
  BY <1>1, <1>2 DEF Shuffle
<1>4. DOMAIN from = 1..Len(from) /\ Len(from) \in Nat
  BY <1>1, SeqFacts
<1>5. IsSeq(plain) /\ Len(plain) = Len(from)
  <2>1. DOMAIN plain = 1..Len(from) /\ plain = [i \in DOMAIN plain |-> plain[i]]
    BY <1>2, <1>4
  <2> QED
    BY <1>4, <2>1, OnInterval
<1>6. ASSUME NEW i \in DOMAIN plain
      PROVE  plain[i] \in Numbers'
  <2>1. plain[i] = [card |-> from[i], powers |-> {}] /\ from[i] \in Range(from)
    BY <1>2, <1>6 DEF Plain, Range
  <2>2. from[i] \in StartCards
    BY <1>1, <2>1
  <2> QED
    BY <2>1, <2>2 DEF Numbers
<1>7. plain \in Seq(Numbers')
  BY <1>5, <1>6, SeqIsIn
<1> QED
  BY <1>1, <1>3, <1>5, <1>7

LEMMA HandStartedKeys ==
  ASSUME ProtocolInv, TableInv, CardsInv, KeyInv, HandStarted
  PROVE  KeyInv'
<1>1. shuffles \in Nat /\ pc = "HandStart" /\ UNCHANGED mem /\ Host /\ Shape
  BY DEF HandStarted, Back, told, Host, ProtocolInv, Shape
<1>2. MemStays
  BY <1>1, MemUnchanged
<1>3. ~KeysGiven
  BY <1>1 DEF KeysGiven, Back
<1>4. CASE "newDeck" \in Mended
  <2>1. deck' = <<>> /\ held' = <<>> /\ seen' = <<>> /\ Shuffle(<<>>)
    BY <1>4 DEF HandStarted
  <2>2. FromCards(<<>>) = FullDeck /\ IsSeq(FullDeck) /\ Len(FullDeck) <= M
        /\ Range(FullDeck) \subseteq StartCards
    <3>1. FromCards(<<>>) = FullDeck
      BY DEF FromCards
    <3>2. Len(FullDeck) = M /\ M \in Nat
      BY FullDeckCounts
    <3>3. M <= M
      BY <3>2
    <3> QED
      BY <3>1, <3>2, <3>3, FullDeckIsSeq, FullDeckInOrder
  <2>3. work' \in Seq(Numbers)' /\ Len(work') <= M /\ shuffles' = shuffles + 1 /\ pc' = "Shuffle"
    BY <1>1, <2>1, <2>2, PlainNumbers
  <2>4. shuffles' \in Nat /\ shuffles <= shuffles' /\ shuffles' >= 1
    BY <1>1, <2>3
  <2>5. \A p \in Players : KeepsKeys(p)' /\ SendsKeys(p)'
    <3> SUFFICES ASSUME NEW p \in Players
                 PROVE  KeepsKeys(p)' /\ SendsKeys(p)'
      OBVIOUS
    <3>1. KeepsOn(p)
      BY <1>2 DEF MemStays, KeepsOn
    <3> QED
      BY <1>1, <1>3, <2>4, <3>1, StillKeeps, StillSends DEF KeyInv
  <2>6. DOMAIN <<>> = {} /\ deck' \in Seq(Numbers)'
    BY <2>1, EmptySeq, EmptyIsSeq
  <2> QED
    BY <2>1, <2>3, <2>4, <2>5, <2>6 DEF KeyInv, Out, M
<1>5. CASE "newDeck" \notin Mended
  <2>1. UNCHANGED <<deck, held, seen, work, shuffles>> /\ pc' = "Panicked"
    BY <1>5 DEF HandStarted, table, passing
  <2> QED
    BY <1>1, <1>2, <1>3, <2>1, QuietKeys
<1> QED
  BY <1>4, <1>5

LEMMA ReshuffleKeys ==
  ASSUME ProtocolInv, TableInv, CardsInv, KeyInv, Reshuffle
  PROVE  KeyInv'
<1> DEFINE below == Seqs!Front(discard)
<1>1. /\ pc = "Draw" /\ deck = <<>> /\ Shuffle(below) /\ Host
      /\ UNCHANGED <<deck, held, seen, discard, mem>>
  BY DEF Reshuffle, table, told, Host
<1>2. CardInv /\ Sound /\ Shape /\ shuffles \in Nat /\ discard # <<>>
  <2>1. CardInv /\ Sound /\ Shape
    BY <1>1, GoesOn DEF Going, Terminal, ProtocolInv
  <2>2. deck = <<>>
    BY <1>1
  <2> QED
    BY <1>1, <2>1, <2>2 DEF Sound, Place, Drawing, Shape
<1>3. IsSeq(FromCards(below)) /\ Len(FromCards(below)) <= M /\ Range(FromCards(below)) \subseteq StartCards
  <2>1. Split
    BY <1>1, <1>2 DEF CardInv, Dealt
  <2>2. discard \in Seq(StartCards) /\ Apart(discard)
    <3>1. IsSeq(discard) /\ \A i \in DOMAIN discard : discard[i] \in Range(discard)
      BY <1>2 DEF Shape, Range
    <3> QED
      BY <2>1, <3>1, SeqIsIn DEF Split, Parted
  <2>3. IsSeq(below) /\ Range(below) \subseteq Range(discard)
    <3>1. IsSeq(discard) /\ discard # <<>>
      BY <1>2 DEF Shape
    <3>2. IsSeq(below) /\ Range(below) = Range(discard) \ {Seqs!Last(discard)}
      BY <2>2, <3>1, LastApart
    <3> QED
      BY <3>2
  <2>4. Len(below) <= M
    <3>1. Len(below) = Len(discard) - 1 /\ Len(discard) \in Nat
      BY <1>2, FrontAndLast, SeqFacts DEF Shape
    <3>2. Len(discard) <= M
      <4>1. ~Doomed
        BY <1>1 DEF Doomed
      <4>2. Len(deck) + HeldCount + Len(discard) = M
        BY <1>1, <1>2, <4>1 DEF Sound, Counts
      <4>3. Len(deck) \in Nat /\ HeldCount \in Nat
        BY <1>2, SeqFacts, FS_CardinalityType DEF Shape, Sound, HeldCount
      <4> QED
        BY <3>1, <4>2, <4>3
    <3>3. M \in Nat
      BY PackIsFinite
    <3> QED
      BY <3>1, <3>2, <3>3
  <2>5. Range(discard) \subseteq StartCards
    BY <2>1 DEF Split, Parted
  <2> HIDE DEF below
  <2>6. CASE below = <<>>
    <3>1. FromCards(below) = FullDeck
      BY <2>6 DEF FromCards
    <3>2. Len(FullDeck) = M /\ M \in Nat
      BY FullDeckCounts
    <3>3. M <= M
      BY <3>2
    <3> QED
      BY <3>1, <3>2, <3>3, FullDeckIsSeq, FullDeckInOrder
  <2>7. CASE below # <<>>
    BY <2>3, <2>4, <2>5, <2>7 DEF FromCards
  <2> QED
    BY <2>6, <2>7
<1> HIDE DEF below
<1>4. work' \in Seq(Numbers)' /\ Len(work') <= M /\ shuffles' = shuffles + 1 /\ pc' = "Shuffle"
  BY <1>1, <1>2, <1>3, PlainNumbers
<1>5. shuffles' \in Nat /\ shuffles <= shuffles' /\ shuffles' >= 1
  BY <1>2, <1>4
<1>6. MemStays
  BY <1>1, <1>2, MemUnchanged
<1>7. \A p \in Players : KeepsKeys(p)' /\ SendsKeys(p)'
  <2> SUFFICES ASSUME NEW p \in Players
               PROVE  KeepsKeys(p)' /\ SendsKeys(p)'
    OBVIOUS
  <2>1. KeepsOn(p)
    BY <1>6 DEF MemStays, KeepsOn
  <2>2. ~KeysGiven
    BY <1>1 DEF KeysGiven, Back
  <2> QED
    BY <1>1, <1>2, <1>5, <2>1, <2>2, StillKeeps, StillSends DEF KeyInv
<1> QED
  BY <1>1, <1>2, <1>4, <1>5, <1>7, KeysGrow DEF KeyInv, Out, M

(* The keys on a working set are those of its shuffle.                     *)
LEMMA HalfwayKeys ==
  ASSUME shuffles \in Nat, shuffles >= 1, NEW st, NEW s \in 0..N, NEW i \in 0..M
  PROVE  Halfway(st, s, i) \subseteq Keys \X {1, -1}
<1>1. shuffles \in 1..shuffles /\ 0 \in 0..Cardinality(StartCards) /\ i \in 0..Cardinality(StartCards)
  BY PackIsFinite DEF M
<1>2. 0..s-1 \subseteq Players
  BY NAssumption DEF Players
<1> HIDE DEF Players
<1> QED
  BY <1>1, <1>2 DEF Halfway, Keys

(* The keys stay where only the working set moves.                         *)
LEMMA StepsKeepKeys ==
  ASSUME ProtocolInv, TableInv, KeyInv, Host, ~KeysGiven, MemStays,
         shuffles' \in Nat, shuffles <= shuffles'
  PROVE  \A p \in Players : KeepsKeys(p)' /\ SendsKeys(p)'
<1> SUFFICES ASSUME NEW p \in Players
             PROVE  KeepsKeys(p)' /\ SendsKeys(p)'
  OBVIOUS
<1>1. shuffles \in Nat /\ KeepsKeys(p) /\ KeepsOn(p)
  BY DEF ProtocolInv, Shape, KeyInv, MemStays, KeepsOn
<1> QED
  BY <1>1, StillKeeps, StillSends

LEMMA PassOnKeys ==
  ASSUME ProtocolInv, TableInv, CardsInv, KeyInv, PassOn
  PROVE  KeyInv'
<1>1. PICK cards : cards = IF stage < 2 THEN line[seat].cards ELSE work
  OBVIOUS
<1>2. /\ pc = "Shuffle" /\ Back("Shuffle") /\ work' = cards /\ Host
      /\ UNCHANGED <<deck, held, seen, shuffles, mem>> /\ pc' \in {"Shuffle", "Failed"}
  BY <1>1 DEF PassOn, Back, table, told, Host
<1>3. CardInv /\ Shape /\ MixInv /\ WireInv /\ Shuffled /\ Opening /\ shuffles \in Nat /\ shuffles >= 1
  <2>1. CardInv
    BY <1>2, GoesOn DEF Waiting, Terminal
  <2> QED
    BY <1>2, <2>1 DEF CardInv, ProtocolInv, Live, Terminal, Shape, KeyInv
<1>4. (stage < 2 => line[seat].type = "cards") /\ seat \in Players /\ stage \in 0..2
  BY <1>2, <1>3, SeatAnswered DEF Shape
<1>5. cards \in Seq(Numbers) /\ Len(cards) <= M
  <2>1. CASE stage < 2
    <3>1. IsSeq(cards) /\ ToBeShuffled(cards) /\ \A i \in DOMAIN cards : Proper(cards[i])
      BY <1>1, <1>2, <1>3, <1>4, <2>1 DEF MixInv, Opening, Shuffled
    <3>2. Range(start) \subseteq StartCards
      BY <1>3 DEF Shuffled, Parted
    <3>3. Len(cards) <= M /\ Len(cards) \in Nat /\ DOMAIN cards = 1..Len(cards)
      BY <3>1, <3>2, FewFaces, SeqFacts DEF ToBeShuffled
    <3>4. ASSUME NEW i \in DOMAIN cards
          PROVE  cards[i] \in Numbers
      <4>1. Hidden(cards[i]) => cards[i].powers = Halfway(stage, seat + 1, i)
        BY <1>1, <1>2, <1>3, <1>4, <2>1 DEF MixInv
      <4>2. seat + 1 \in 0..N /\ i \in 0..M
        BY <1>4, <3>3, NAssumption, PackIsFinite DEF Players
      <4>3. Hidden(cards[i]) => cards[i].powers \subseteq Keys \X {1, -1}
        BY <1>3, <4>1, <4>2, HalfwayKeys
      <4> QED
        BY <3>1, <4>3, IsOfNumbers
    <3> QED
      BY <3>1, <3>3, <3>4, SeqIsIn
  <2>2. CASE ~(stage < 2)
    BY <1>1, <2>2 DEF KeyInv
  <2> QED
    BY <2>1, <2>2
<1>6. MemStays /\ ~KeysGiven /\ shuffles <= shuffles
  BY <1>2, <1>3, MemUnchanged DEF KeysGiven, Back
<1>7. \A p \in Players : KeepsKeys(p)' /\ SendsKeys(p)'
  BY <1>2, <1>3, <1>6, StepsKeepKeys
<1> QED
  BY <1>2, <1>3, <1>5, <1>7 DEF KeyInv, Out, M, Numbers, Keys, KeysOfAll

LEMMA ShuffleDoneKeys ==
  ASSUME ProtocolInv, TableInv, CardsInv, KeyInv, ShuffleDone
  PROVE  KeyInv'
<1>1. /\ pc = "Shuffle" /\ Back("Shuffle") /\ deck' = work /\ Host /\ pc' = "Shuffled"
      /\ UNCHANGED <<work, held, seen, shuffles, mem>>
  BY DEF ShuffleDone, Back, passing, told, Host
<1>2. Shape /\ shuffles \in Nat
  BY DEF ProtocolInv, Shape
<1>3. MemStays /\ ~KeysGiven /\ shuffles <= shuffles
  BY <1>1, <1>2, MemUnchanged DEF KeysGiven, Back
<1>4. \A p \in Players : KeepsKeys(p)' /\ SendsKeys(p)'
  BY <1>1, <1>2, <1>3, StepsKeepKeys
<1> QED
  BY <1>1, <1>2, <1>4 DEF KeyInv, Out, M, Numbers, Keys, KeysOfAll

(* The keys that come in are those that were asked for.                    *)
LEMMA KeysInAreKeys ==
  ASSUME KeyInv
  PROVE  KeysIn \in KeysOfAll
BY DEF KeyInv, SendsKeys, KeysIn, KeysOfAll

(* The top card is taken from the deck, with its keys.                     *)
LEMMA PopsKeys ==
  ASSUME ProtocolInv, KeyInv, deck # <<>>, PopTopCard(KeysIn), UNCHANGED <<work, shuffles>>
  PROVE  /\ deck' \in Seq(Numbers)' /\ Seqs!Last(deck) \in Numbers'
         /\ \A v \in Out' : seen'[v] \in KeysOfAll'
         /\ seen'[Seqs!Last(deck)] = KeysIn /\ KeysIn \in KeysOfAll'
<1>1. KeysOfAll' = KeysOfAll /\ Numbers' = Numbers
  BY DEF KeysOfAll, Keys, Numbers, NoKey
<1>2. PICK top, keys : top = Seqs!Last(deck) /\ keys = KeysIn
  OBVIOUS
<1>3. keys \in KeysOfAll
  BY <1>2, KeysInAreKeys
<1>4. seen' = Put(seen, top, keys) /\ deck' = Seqs!Front(deck)
  BY <1>2 DEF PopTopCard
<1>5. Out' = Out \cup {top} /\ \A v \in Out' : seen'[v] = IF v = top THEN keys ELSE seen[v]
  BY <1>4 DEF Put, Out
<1>6. \A v \in Out' : seen'[v] \in KeysOfAll
  BY <1>3, <1>5 DEF KeyInv
<1>7. deck' \in Seq(Numbers) /\ top \in Numbers
  BY <1>2, <1>4, FrontIsIn DEF KeyInv
<1> QED
  BY <1>1, <1>2, <1>3, <1>5, <1>6, <1>7

LEMMA TurnedUpKeys ==
  ASSUME ProtocolInv, TableInv, CardsInv, KeyInv, TurnedUp
  PROVE  KeyInv'
<1>1. /\ pc = "FirstKeys" /\ Back("FirstKeys") /\ PopTopCard(KeysIn) /\ Host
      /\ UNCHANGED <<held, work, shuffles, mem>> /\ pc' \in {"Failed", "FirstColor", "FirstShown"}
  BY DEF TurnedUp, Back, passing, told, Host
<1>2. Shape /\ shuffles \in Nat /\ WireInv
  BY <1>1 DEF ProtocolInv, Shape, Live, Terminal
<1>3. MemStays /\ ~KeysGiven /\ shuffles <= shuffles /\ deck # <<>>
  BY <1>1, <1>2, MemUnchanged, KeysHaveCome DEF KeysGiven, Back
<1>4. \A p \in Players : KeepsKeys(p)' /\ SendsKeys(p)'
  BY <1>1, <1>2, <1>3, StepsKeepKeys
<1>5. deck' \in Seq(Numbers)' /\ \A v \in Out' : seen'[v] \in KeysOfAll'
  BY <1>1, <1>3, PopsKeys
<1> QED
  BY <1>1, <1>2, <1>4, <1>5 DEF KeyInv, M, Numbers, Keys

LEMMA CardPlayedKeys ==
  ASSUME ProtocolInv, TableInv, CardsInv, KeyInv, CardPlayed
  PROVE  KeyInv'
<1>1. /\ PlayComesBack /\ Host /\ UNCHANGED <<deck, work, shuffles, mem>> /\ pc \in {"Play", "PlayAgain"}
      /\ pc' \in {"Discarded", "Failed"}
      /\ \/ UNCHANGED <<held, seen>>
         \/ /\ held' = Restrict(held, DOMAIN held \ {line[turn].number})
            /\ seen' = Put(seen, line[turn].number, line[turn].keys)
  BY Zenon DEF CardPlayed, PlayComesBack, Back, passing, told, Host
<1>2. Shape /\ shuffles \in Nat /\ turn \in Players /\ WireInv
  BY <1>1 DEF ProtocolInv, Shape, Live, Terminal
<1>3. MemStays /\ ~KeysGiven /\ shuffles <= shuffles
  BY <1>1, <1>2, MemUnchanged DEF KeysGiven, Back
<1>4. \A p \in Players : KeepsKeys(p)' /\ SendsKeys(p)'
  BY <1>1, <1>2, <1>3, StepsKeepKeys
<1>5. line[turn].keys \in KeysOfAll
  <2>1. line[turn].type = "play"
    BY <1>1, <1>2 DEF WireInv, PlayCase, Refusal, PlayComesBack, Back, Answered, Requests
  <2> QED
    BY <1>2, <2>1 DEF KeyInv, SendsKeys
<1>6. DOMAIN held' \subseteq DOMAIN held /\ \A v \in Out' : seen'[v] \in KeysOfAll
  <2>1. PICK v, keys : v = line[turn].number /\ keys = line[turn].keys
    OBVIOUS
  <2>2. CASE UNCHANGED <<held, seen>>
    BY <2>2 DEF KeyInv, Out
  <2>3. CASE held' = Restrict(held, DOMAIN held \ {v}) /\ seen' = Put(seen, v, keys)
    <3>1. DOMAIN held' \subseteq DOMAIN held
      BY <2>3 DEF Restrict
    <3>2. Out' = Out \cup {v} /\ \A w \in Out' : seen'[w] = IF w = v THEN keys ELSE seen[w]
      BY <2>3 DEF Put, Out
    <3> QED
      BY <1>5, <2>1, <3>1, <3>2 DEF KeyInv
  <2> QED
    BY <1>1, <2>1, <2>2, <2>3
<1> QED
  BY <1>1, <1>2, <1>4, <1>6 DEF KeyInv, M, Numbers, Keys, KeysOfAll, NoKey

LEMMA KeysGivenKeys ==
  ASSUME ProtocolInv, TableInv, CardsInv, KeyInv, KeysGiven
  PROVE  KeyInv'
<1>1. PICK top, keys : top = Seqs!Last(deck) /\ keys = KeysIn
  OBVIOUS
<1>2. /\ pc = "Keys" /\ Back("Keys") /\ PopTopCard(keys) /\ Host
      /\ UNCHANGED <<work, shuffles, turn, mem>>
      /\ \/ pc' = "Panicked" /\ UNCHANGED <<held, line>>
         \/ held' = Put(held, top, turn) /\ Call(turn, [type |-> "Give", keys |-> keys]) /\ pc' = "Give"
  BY <1>1 DEF KeysGiven, Back, passing, told, Host
<1>3. /\ Shape /\ shuffles \in Nat /\ WireInv /\ turn \in Players
      /\ deck # <<>> /\ mem[turn].deck = deck
  BY <1>2 DEF ProtocolInv, Shape, Live, Terminal, WireInv
<1>4. KeysOfAll' = KeysOfAll /\ Numbers' = Numbers /\ Keys' = Keys
  BY <1>2 DEF KeysOfAll, Keys, Numbers, NoKey
<1>5. /\ deck' \in Seq(Numbers) /\ top \in Numbers /\ \A v \in Out' : seen'[v] \in KeysOfAll
      /\ seen'[top] = keys /\ keys \in KeysOfAll
  BY <1>1, <1>2, <1>3, <1>4, PopsKeys
<1>6. DOMAIN held' \subseteq Numbers
  BY <1>2, <1>5 DEF KeyInv, Put
<1>7. ASSUME NEW p \in Players
      PROVE  KeepsKeys(p)'
  <2>1. shuffles <= shuffles' /\ KeepsKeys(p) /\ KeepsOn(p)
    BY <1>2, <1>3 DEF KeyInv, KeepsOn
  <2> QED
    BY <1>2, <1>3, <2>1, StillKeeps
<1>8. ASSUME NEW p \in Players
      PROVE  SendsKeys(p)'
  <2>1. line[p].type \notin {"Shuffle", "Give", "Play"} /\ SendsKeys(p)
    BY <1>2, NobodyAsked DEF KeyInv
  <2>2. CASE UNCHANGED line
    BY <1>4, <2>1, <2>2 DEF SendsKeys
  <2>3. CASE Call(turn, [type |-> "Give", keys |-> keys]) /\ pc' = "Give"
    <3>1. CASE p = turn
      <4>1. line'[p] = [type |-> "Give", keys |-> keys]
        BY <2>3, <3>1, Calls DEF Call
      <4>2. line'[p].keys = seen'[Seqs!Last(mem'[p].deck)]
        BY <1>1, <1>2, <1>3, <1>5, <3>1, <4>1
      <4> QED
        BY <1>4, <1>5, <2>3, <4>1, <4>2 DEF SendsKeys
    <3>2. CASE p # turn
      <4>1. line'[p] = Idle
        BY <2>3, <3>2, Calls DEF Call
      <4> QED
        BY <4>1 DEF SendsKeys, Idle
    <3> QED
      BY <3>1, <3>2
  <2> QED
    BY <1>2, <2>2, <2>3
<1> QED
  BY <1>2, <1>3, <1>4, <1>5, <1>6, <1>7, <1>8 DEF KeyInv, M

(* The steps that move no number.                                          *)
LEMMA HostKeepsKeys ==
  ASSUME ProtocolInv, TableInv, CardsInv, KeyInv, Host
  PROVE  KeyInv'
<1> DEFINE Resters ==
      \/ StartGame \/ GameStarted \/ StartHand \/ AfterHand \/ GameEnded \/ PlayerRefuses
      \/ Announce \/ Deal \/ CardGiven \/ FirstColor \/ NothingPlayed \/ NextDrawsTwo
      \/ AskChallenge \/ ChallengeDecided \/ NoEffect \/ EndTurn \/ HandRevealed \/ HandSigned
<1>0. 0 \in Players
  BY NAssumption DEF Players
<1>1. pc \notin Terminal
  BY <1>0, NobodyAsked
<1>2. CASE Resters /\ ~KeysGiven
  <2>1. Quiet
    BY <1>1, <1>2, AnnounceIsQuiet, StartsAreQuiet, TurnsAreQuiet, EndsAreQuiet
  <2> QED
    BY <1>2, <2>1, QuietKeys DEF Quiet, WithCards
<1>3. CASE DealTo \/ TurnUp \/ AskPlay
  <2>1. /\ UNCHANGED <<deck, held, seen, work, shuffles, mem>> /\ pc' # "Shuffle" /\ ~KeysGiven
    BY <1>3 DEF DealTo, TurnUp, AskPlay, table, passing, told, KeysGiven, Back
  <2>2. MemStays
    BY <2>1, MemUnchanged DEF ProtocolInv
  <2> QED
    BY <2>1, <2>2, QuietKeys
<1> QED
  BY <1>2, <1>3, HandStartedKeys, ReshuffleKeys, PassOnKeys, ShuffleDoneKeys, KeysGivenKeys,
     TurnedUpKeys, CardPlayedKeys, Zenon DEF Host
-----------------------------------------------------------------------------
\* What the players do with them

\* A player's answer, with a key or cards it has.
AnswersKeys(r) ==
  /\ r.type \notin {"Shuffle", "Give", "Play"}
  /\ r.type = "key" => r.key \in Keys
  /\ r.type = "play" => r.keys \in KeysOfAll
  /\ r.type = "revealed" =>
       IsSeq(r.cards) /\ \A j \in DOMAIN r.cards : r.cards[j].card \in StartCards

(* It is enough to look at what the player has and what it answers.        *)
LEMMA AnswerKeepsKeys ==
  ASSUME KeyInv, NEW p \in Players, Player(p), Alone(p), KeepsKeys(p)', AnswersKeys(line'[p])
  PROVE  KeyInv'
<1>1. UNCHANGED <<pc, deck, held, seen, work, shuffles>>
  BY DEF Player, table, passing
<1>2. KeysOfAll' = KeysOfAll /\ Numbers' = Numbers /\ Keys' = Keys /\ Out' = Out /\ M' = M
  BY <1>1 DEF KeysOfAll, Keys, Numbers, NoKey, Out, M
<1>3. SendsKeys(p)'
  BY <1>2 DEF SendsKeys, AnswersKeys
<1>4. ASSUME NEW q \in Players \ {p}
      PROVE  KeepsKeys(q)' /\ SendsKeys(q)'
  <2>1. mem'[q] = mem[q] /\ line'[q] = line[q]
    BY DEF Alone
  <2> QED
    BY <1>1, <1>2, <2>1 DEF KeyInv, KeepsKeys, SendsKeys
<1> QED
  BY <1>1, <1>2, <1>3, <1>4 DEF KeyInv

(* Keys and cards that stay are what they were.                            *)
LEMMA KeepsWhatStays ==
  ASSUME KeyInv, NEW p \in Players, Player(p), KeepsOn(p)
  PROVE  KeepsKeys(p)'
<1>1. UNCHANGED shuffles
  BY DEF Player, passing
<1> QED
  BY <1>1 DEF KeyInv, KeepsKeys, KeepsOn, Keys, Numbers, KeysOfAll, NoKey

(* Where no card is asked for.                                             *)
LEMMA OthersKeepKeys ==
  ASSUME ProtocolInv, KeyInv, NEW p \in Players, Player(p),
         \/ GameEnd(p) \/ HandStart(p) \/ ChooseColor(p) \/ ShouldChallenge(p)
         \/ RevealForChallenge(p) \/ ShuffleRefused(p)
  PROVE  KeyInv'
<1>1. Shape
  BY DEF ProtocolInv
<1>2. Alone(p) /\ KeepsOn(p)
  <2>1. CASE ShuffleRefused(p)
    BY <1>1, <2>1 DEF ShuffleRefused, Refuse, Shape, Alone, KeepsOn
  <2>2. CASE ~ShuffleRefused(p)
    BY <1>1, <2>2, OthersAnswer DEF HandStays, KeepsOn
  <2> QED
    BY <2>1, <2>2
<1>3. AnswersKeys(line'[p])
  <2> USE <1>1 DEF Shape, AnswersKeys, Answer, Reply, Refuse, Signed
  <2>1. CASE GameEnd(p) \/ HandStart(p)
    BY <2>1 DEF GameEnd, HandStart
  <2>2. CASE ChooseColor(p) \/ ShouldChallenge(p)
    BY <2>2 DEF ChooseColor, ShouldChallenge
  <2>3. CASE RevealForChallenge(p) \/ ShuffleRefused(p)
    BY <2>3 DEF RevealForChallenge, ShuffleRefused
  <2> QED
    BY <2>1, <2>2, <2>3
<1> QED
  BY <1>2, <1>3, KeepsWhatStays, AnswerKeepsKeys

LEMMA GameStartKeys ==
  ASSUME ProtocolInv, KeyInv, NEW p \in Players, Player(p), GameStart(p)
  PROVE  KeyInv'
<1>1. /\ Alone(p) /\ line'[p].type = "signed"
      /\ mem'[p].deck = <<>> /\ mem'[p].cardPairs = <<>> /\ mem'[p].myCards = <<>>
  BY DEF ProtocolInv, GameStart, Asked, Remember, Reply, Signed, Shape, Alone, Forgotten
<1>2. KeepsKeys(p)'
  <2>1. <<>> \in Seq(Numbers)' /\ DOMAIN <<>> = {} /\ IsSeq(<<>>) /\ Range(<<>>) = {}
    BY EmptySeq, EmptyIsSeq DEF Range
  <2> QED
    BY <1>1, <2>1 DEF KeepsKeys, IsSeq, Range
<1> QED
  BY <1>1, <1>2, AnswerKeepsKeys DEF AnswersKeys

(* The cards of a hand are revealed as they are.                           *)
LEMMA HandEndKeys ==
  ASSUME ProtocolInv, KeyInv, NEW p \in Players, Player(p), HandEnd(p)
  PROVE  KeyInv'
<1> DEFINE hand0 == [j \in DOMAIN mem[p].myCards |->
                       [card |-> mem[p].myCards[j].card, number |-> mem[p].myCards[j].number]]
<1>1. Shape
  BY DEF ProtocolInv
<1>2. Alone(p) /\ KeepsOn(p)
  BY <1>1, OthersAnswer DEF HandStays, KeepsOn
<1>3. PICK cards : cards = hand0
  OBVIOUS
<1>4. \/ line'[p].type \in {"refused", "signed"}
      \/ line'[p].type = "revealed" /\ line'[p].cards = cards
  BY <1>1, <1>3 DEF HandEnd, Answer, Reply, Refuse, Signed, Shape
<1>5. IsSeq(cards) /\ \A j \in DOMAIN cards : cards[j].card \in StartCards
  <2>1. KeepsKeys(p)
    BY DEF KeyInv
  <2>2. DOMAIN mem[p].myCards = 1..Len(mem[p].myCards) /\ Len(mem[p].myCards) \in Nat
    BY <2>1, SeqFacts DEF KeepsKeys
  <2>3. DOMAIN cards = 1..Len(mem[p].myCards) /\ cards = [j \in DOMAIN cards |-> cards[j]]
    BY <1>3, <2>2
  <2>4. \A j \in DOMAIN cards : mem[p].myCards[j] \in Range(mem[p].myCards)
                                /\ cards[j].card = mem[p].myCards[j].card
    BY <1>3 DEF Range
  <2> QED
    BY <2>1, <2>2, <2>3, <2>4, OnInterval DEF KeepsKeys
<1>6. AnswersKeys(line'[p])
  BY <1>4, <1>5 DEF AnswersKeys
<1> QED
  BY <1>2, <1>6, KeepsWhatStays, AnswerKeepsKeys

LEMMA Stage0KeepsKeys ==
  ASSUME ProtocolInv, KeyInv, NEW p \in Players, Player(p), ShuffleStage0(p)
  PROVE  KeyInv'
<1> DEFINE from0 == IF mem[p].start = <<>> THEN line[p].start ELSE mem[p].start
           key0 == <<p, mem[p].shuffles + 1, 0>>
           numbers0 == {EncryptInt(key0, line[p].cards[i]) : i \in DOMAIN line[p].cards}
<1>1. /\ mem' = [mem EXCEPT ![p] = [mem[p] EXCEPT !.start = from0, !.stage0 = key0,
                                      !.shuffles = @ + 1]]
      /\ \E cards \in Seqs!SetToSeqs(numbers0) :
           line' = [line EXCEPT ![p] = [type |-> "cards", cards |-> cards]]
  BY Zenon DEF ShuffleStage0, Remember, Reply
<1> HIDE DEF from0, key0, numbers0
<1>2. Alone(p) /\ KeepsOn(p) /\ line'[p].type = "cards"
  BY <1>1 DEF ProtocolInv, Shape, Alone, KeepsOn, Forgotten
<1> QED
  BY <1>2, KeepsWhatStays, AnswerKeepsKeys DEF AnswersKeys

LEMMA Stage1KeepsKeys ==
  ASSUME ProtocolInv, KeyInv, NEW p \in Players, Player(p), ShuffleStage1(p)
  PROVE  KeyInv'
<1> DEFINE req == line[p].cards
           keys0 == [i \in DOMAIN req |-> Stage1Key(p, mem[p], i)]
           cards0 == [i \in DOMAIN keys0 |->
                        EncryptInt(keys0[i], DecryptInt(mem[p].stage0, req[i]))]
<1>1. /\ mem' = [mem EXCEPT ![p] = [mem[p] EXCEPT !.stage1 = keys0, !.stage0 = NoKey]]
      /\ line' = [line EXCEPT ![p] = [type |-> "cards", cards |-> cards0]]
  BY Zenon DEF ShuffleStage1, Remember, Reply
<1> HIDE DEF keys0, cards0
<1>2. Alone(p) /\ KeepsOn(p) /\ line'[p].type = "cards"
  BY <1>1 DEF ProtocolInv, Shape, Alone, KeepsOn, Forgotten
<1> QED
  BY <1>2, KeepsWhatStays, AnswerKeepsKeys DEF AnswersKeys

(* The keys that are filed are those of the shuffle.                       *)
LEMMA Stage2KeepsKeys ==
  ASSUME ProtocolInv, KeyInv, NEW p \in Players, Player(p), ShuffleStage2(p)
  PROVE  KeyInv'
<1> DEFINE filed0 == Filed(mem[p], line[p].cards)
<1>1. PICK filed, pairs, cards :
        filed = filed0 /\ pairs = PutAll(mem[p].cardPairs, filed) /\ cards = line[p].cards
  OBVIOUS
<1>2. /\ line[p].type = "Shuffle" /\ line[p].stage = 2
      /\ mem' = [mem EXCEPT ![p] = [mem[p] EXCEPT !.cardPairs = pairs, !.deck = cards,
                                       !.stage1 = <<>>]]
      /\ line' = [line EXCEPT ![p] = [type |-> "taken"]]
  BY <1>1, Zenon DEF ShuffleStage2, Remember, Reply, Asked
<1>3. /\ DOMAIN filed = Range(cards)
      /\ \A v \in DOMAIN filed : filed[v] = mem[p].stage1[CHOOSE i \in DOMAIN cards : cards[i] = v]
  BY <1>1 DEF Filed
<1>4. DOMAIN pairs = DOMAIN mem[p].cardPairs \cup DOMAIN filed
      /\ \A v \in DOMAIN pairs : pairs[v] = IF v \in DOMAIN filed THEN filed[v] ELSE mem[p].cardPairs[v]
  BY <1>1 DEF PutAll
<1> HIDE DEF filed0
<1>5. Alone(p) /\ line'[p].type = "taken" /\ mem'[p].deck = cards /\ mem'[p].cardPairs = pairs
      /\ mem'[p].myCards = mem[p].myCards
  BY <1>2 DEF ProtocolInv, Shape, Alone, Forgotten
<1>6. KeepsKeys(p) /\ shuffles \in Nat /\ shuffles >= 1 /\ pc \notin Terminal
  BY <1>2 DEF KeyInv, SendsKeys, ProtocolInv, Shape, Terminal
<1>7. cards = work /\ stage = 2 /\ mem[p].stage1 = [i \in DOMAIN work |-> <<p, shuffles, i>>]
  BY <1>1, <1>2, <1>6, AskedToShuffle
<1>8. ASSUME NEW v \in DOMAIN filed
      PROVE  filed[v] \in Keys
  <2>1. PICK i : i = CHOOSE j \in DOMAIN cards : cards[j] = v
    OBVIOUS
  <2>2. \E j \in DOMAIN cards : cards[j] = v
    BY <1>3 DEF Range
  <2>3. i \in DOMAIN work
    BY <1>7, <2>1, <2>2
  <2>4. DOMAIN work = 1..Len(work) /\ Len(work) \in Nat /\ Len(work) <= M /\ M \in Nat
    BY SeqFacts, PackIsFinite DEF ProtocolInv, Shape, KeyInv
  <2>5. i \in 0..Cardinality(StartCards) /\ shuffles \in 1..shuffles
    BY <1>6, <2>3, <2>4 DEF M
  <2>6. filed[v] = <<p, shuffles, i>>
    BY <1>3, <1>7, <2>1, <2>3
  <2> QED
    BY <2>5, <2>6 DEF Keys
<1>9. KeepsKeys(p)'
  <2>1. UNCHANGED shuffles
    BY DEF Player, passing
  <2>2. Keys' = Keys /\ Numbers' = Numbers /\ KeysOfAll' = KeysOfAll
    BY <2>1 DEF Keys, Numbers, KeysOfAll, NoKey
  <2>3. cards \in Seq(Numbers)
    BY <1>7 DEF KeyInv
  <2>4. \A v \in DOMAIN pairs : pairs[v] \in Keys
    BY <1>4, <1>6, <1>8 DEF KeepsKeys
  <2> QED
    BY <1>5, <1>6, <2>2, <2>3, <2>4 DEF KeepsKeys
<1> QED
  BY <1>5, <1>9, AnswerKeepsKeys DEF AnswersKeys

(* A key is one of those it has filed.                                     *)
LEMMA GetKeyKeys ==
  ASSUME ProtocolInv, KeyInv, NEW p \in Players, Player(p), GetKey(p)
  PROVE  KeyInv'
<1> DEFINE last == Seqs!Last(mem[p].deck)
           to == line[p].to
           shown == /\ mem[p].lastEvent # NoEvent /\ mem[p].lastEvent.hand # NoHand
                    /\ \A i \in DOMAIN mem[p].lastEvent.hand.discard :
                         Value(mem[p].lastEvent.hand.discard[i]) = WildDrawFour
           ok == IF to = None THEN shown ELSE to # p /\ last \notin mem[p].given
           given0 == IF to # None /\ ok THEN mem[p].given \cup {last} ELSE mem[p].given
           key0 == mem[p].cardPairs[last]
<1>1. \/ Refuse(p) /\ UNCHANGED mem
      \/ /\ last \in DOMAIN mem[p].cardPairs
         /\ mem' = [mem EXCEPT ![p] = [mem[p] EXCEPT !.deck = Seqs!Front(@), !.given = given0]]
         /\ Answer(p, ok, [type |-> "key", key |-> key0])
  BY Zenon DEF GetKey, Remember
<1>2. KeepsKeys(p)
  BY DEF KeyInv
<1>3. CASE Refuse(p) /\ UNCHANGED mem
  <2>1. Alone(p) /\ KeepsOn(p) /\ line'[p].type = "refused"
    BY <1>3 DEF Refuse, ProtocolInv, Shape, Alone, KeepsOn
  <2> QED
    BY <2>1, KeepsWhatStays, AnswerKeepsKeys DEF AnswersKeys
<1>4. CASE ~(Refuse(p) /\ UNCHANGED mem)
  <2>1. PICK m, r : /\ m = [mem[p] EXCEPT !.deck = Seqs!Front(@), !.given = given0]
                    /\ r = IF ok THEN [type |-> "key", key |-> key0]
                                 ELSE [type |-> "refused", why |-> line[p].type]
    OBVIOUS
  <2>2. key0 \in Keys
    BY <1>1, <1>2, <1>4 DEF KeepsKeys
  <2> HIDE DEF ok, given0, key0
  <2>3. AnswersKeys(r)
    BY <2>1, <2>2 DEF AnswersKeys
  <2>4. mem' = [mem EXCEPT ![p] = m] /\ line' = [line EXCEPT ![p] = r]
    BY <1>1, <1>4, <2>1 DEF Answer, Refuse, Reply
  <2>5. DOMAIN m = DOMAIN Forgotten /\ m.cardPairs = mem[p].cardPairs /\ m.deck = Seqs!Front(mem[p].deck)
        /\ m.myCards = mem[p].myCards
    BY <2>1 DEF ProtocolInv, Shape, Forgotten
  <2>6. Alone(p) /\ line'[p] = r /\ mem'[p] = m
    BY <2>4, <2>5 DEF ProtocolInv, Shape, Alone
  <2>7. m.deck \in Seq(Numbers)
    BY <1>2, <2>5, FrontIsIn DEF KeepsKeys
  <2>8. KeepsKeys(p)'
    <3>1. UNCHANGED shuffles
      BY DEF Player, passing
    <3>2. Keys' = Keys /\ Numbers' = Numbers /\ KeysOfAll' = KeysOfAll
      BY <3>1 DEF Keys, Numbers, KeysOfAll, NoKey
    <3> QED
      BY <1>2, <2>5, <2>6, <2>7, <3>2 DEF KeepsKeys
  <2> QED
    BY <2>3, <2>6, <2>8, AnswerKeepsKeys
<1> QED
  BY <1>3, <1>4

(* The card a player is given opens to a card of the start.                *)
LEMMA GivenOpens ==
  ASSUME ProtocolInv, TableInv, CardsInv, KeyInv, NEW p \in Players, line[p].type = "Give",
         NEW keys, Seqs!Last(mem[p].deck) \in DOMAIN mem[p].cardPairs,
         keys = [line[p].keys EXCEPT ![p] = mem[p].cardPairs[Seqs!Last(mem[p].deck)]]
  PROVE  /\ keys \in KeysOfAll
         /\ Decrypted(Seqs!Last(mem[p].deck), keys).card \in StartCards
<1>1. PICK top : top = Seqs!Last(mem[p].deck)
  OBVIOUS
<1>2. pc = "Give" /\ line[p].keys \in KeysOfAll /\ line[p].keys = seen[top]
  BY <1>1 DEF KeyInv, SendsKeys
<1>3. Shape /\ HostKeys /\ WireInv /\ PlayerKeys
  BY <1>2 DEF ProtocolInv, Live, Terminal
<1>4. p = turn
  BY <1>3, AskedWhere
<1>5. Unrefused
  BY <1>2, <1>3, <1>4 DEF WireInv, Unrefused, Idle
<1>6. CardInv /\ Hands
  BY <1>2, <1>5 DEF CardsInv, TableInv, Sound, Doomed, Terminal
<1>7. top \in DOMAIN held /\ held[top] = p
  BY <1>1, <1>2, <1>4, <1>6 DEF Hands
<1>8. keys \in KeysOfAll
  <2>1. mem[p].cardPairs[top] \in Keys
    BY <1>1 DEF KeyInv, KeepsKeys
  <2> QED
    BY <1>1, <1>2, <2>1 DEF KeysOfAll
<1>9. keys[p] = mem[p].cardPairs[top] /\ \A q \in Players \ {p} : keys[q] = seen[top][q]
  BY <1>1, <1>2 DEF KeysOfAll
<1>10. AllFit(top, keys)
  <2>1. Fits(p, top, mem[p].cardPairs[top])
    BY <1>1, <1>3 DEF PlayerKeys
  <2>2. ASSUME NEW q \in Players \ {p}
        PROVE  Fits(q, top, seen[top][q])
    BY <1>3, <1>6, <1>7 DEF HostKeys, CardInv, Opening, Out
  <2> QED
    BY <1>9, <2>1, <2>2 DEF AllFit
<1>11. Proper(top)
  BY <1>6, <1>7 DEF CardInv, Opening
<1>12. Decrypted(top, keys) = Plain(top.card)
  BY <1>10, <1>11, AllOpen
<1> QED
  BY <1>1, <1>8, <1>11, <1>12 DEF Plain, Proper

LEMMA GiveCardKeys ==
  ASSUME ProtocolInv, TableInv, CardsInv, KeyInv, NEW p \in Players, Player(p), GiveCard(p)
  PROVE  KeyInv'
<1> DEFINE last == Seqs!Last(mem[p].deck)
           others == line[p].keys
           keys == [others EXCEPT ![p] = mem[p].cardPairs[last]]
           open == FoldSet(LAMBDA q, v : DecryptInt(keys[q], v), last, Players)
           ok == /\ last \in DOMAIN mem[p].cardPairs
                 /\ last \notin mem[p].given
                 /\ \A q \in Players : (others[q] = NoKey) = (q = p)
                 /\ Opened(open)
           mine == [card |-> open.card, number |-> last, keys |-> keys]
           cards0 == IF ok THEN Append(mem[p].myCards, mine) ELSE mem[p].myCards
<1>1. /\ line[p].type = "Give"
      /\ \/ Refuse(p) /\ UNCHANGED mem
         \/ /\ mem[p].deck # <<>>
            /\ mem' = [mem EXCEPT ![p] = [mem[p] EXCEPT !.deck = Popped(@), !.given = @ \cup {last},
                         !.myCards = cards0]]
            /\ Answer(p, ok, [type |-> "taken"])
  BY Zenon DEF GiveCard, Asked, Remember
<1>2. KeepsKeys(p)
  BY DEF KeyInv
<1>3. CASE Refuse(p) /\ UNCHANGED mem
  <2>1. Alone(p) /\ KeepsOn(p) /\ line'[p].type = "refused"
    BY <1>3 DEF Refuse, ProtocolInv, Shape, Alone, KeepsOn
  <2> QED
    BY <2>1, KeepsWhatStays, AnswerKeepsKeys DEF AnswersKeys
<1>4. CASE ~(Refuse(p) /\ UNCHANGED mem)
  <2>1. PICK m, r, cards : /\ m = [mem[p] EXCEPT !.deck = Popped(@), !.given = @ \cup {last},
                                     !.myCards = cards]
                           /\ r = IF ok THEN [type |-> "taken"]
                                        ELSE [type |-> "refused", why |-> line[p].type]
                           /\ cards = cards0
    OBVIOUS
  <2>2. IsSeq(cards) /\ \A c \in Range(cards) : c.card \in StartCards /\ c.keys \in KeysOfAll
    <3>1. CASE ~ok
      <4> HIDE DEF ok
      <4> QED
        BY <1>2, <2>1, <3>1 DEF KeepsKeys
    <3>2. CASE ok
      <4>1. open = Decrypted(last, keys)
        BY DEF Decrypted
      <4>2. keys \in KeysOfAll /\ Decrypted(last, keys).card \in StartCards
        BY <1>1, <3>2, GivenOpens
      <4>3. mine.card \in StartCards /\ mine.keys \in KeysOfAll
        BY <4>1, <4>2
      <4>4. cards = Append(mem[p].myCards, mine)
        BY <2>1, <3>2
      <4> HIDE DEF mine, ok
      <4>5. IsSeq(cards) /\ Range(cards) \subseteq Range(mem[p].myCards) \cup {mine}
        BY <1>2, <4>4, Appended DEF KeepsKeys
      <4> QED
        BY <1>2, <4>3, <4>5 DEF KeepsKeys
    <3> QED
      BY <3>1, <3>2
  <2> HIDE DEF ok, cards0, last
  <2>3. AnswersKeys(r)
    BY <2>1 DEF AnswersKeys
  <2>4. mem' = [mem EXCEPT ![p] = m] /\ line' = [line EXCEPT ![p] = r]
    BY <1>1, <1>4, <2>1 DEF Answer, Refuse, Reply
  <2>5. DOMAIN m = DOMAIN Forgotten /\ m.cardPairs = mem[p].cardPairs /\ m.deck = Seqs!Front(mem[p].deck)
        /\ m.myCards = cards
    BY <2>1 DEF ProtocolInv, Shape, Forgotten, Popped
  <2>6. Alone(p) /\ line'[p] = r /\ mem'[p] = m
    BY <2>4, <2>5 DEF ProtocolInv, Shape, Alone
  <2>7. m.deck \in Seq(Numbers)
    BY <1>2, <2>5, FrontIsIn DEF KeepsKeys
  <2>8. KeepsKeys(p)'
    <3>1. UNCHANGED shuffles
      BY DEF Player, passing
    <3>2. Keys' = Keys /\ Numbers' = Numbers /\ KeysOfAll' = KeysOfAll
      BY <3>1 DEF Keys, Numbers, KeysOfAll, NoKey
    <3> QED
      BY <1>2, <2>2, <2>5, <2>6, <2>7, <3>2 DEF KeepsKeys, IsSeq, Range
  <2> QED
    BY <2>3, <2>6, <2>8, AnswerKeepsKeys
<1> QED
  BY <1>3, <1>4

LEMMA PlayKeys ==
  ASSUME ProtocolInv, KeyInv, NEW p \in Players, Player(p), Play(p)
  PROVE  KeyInv'
<1>1. KeepsKeys(p)
  BY DEF KeyInv
<1>2. PICK i \in UIPlays(mem[p]) :
         IF i = NoCard THEN Refuse(p) /\ UNCHANGED mem
         ELSE LET c == mem[p].myCards[i]
              IN  /\ Remember(p, [mem[p] EXCEPT !.myCards = Without(@, i)])
                  /\ \E chosen \in IF IsWild(c.card) THEN ChosenColors ELSE {0} :
                       Reply(p, [type |-> "play", card |-> c.card, number |-> c.number,
                                 keys |-> c.keys, wildColor |-> ColorSent(c.card, chosen)])
  BY Zenon DEF Play
<1>3. CASE i = NoCard
  <2>1. Alone(p) /\ KeepsOn(p) /\ line'[p].type = "refused"
    BY <1>2, <1>3 DEF Refuse, ProtocolInv, Shape, Alone, KeepsOn
  <2> QED
    BY <2>1, KeepsWhatStays, AnswerKeepsKeys DEF AnswersKeys
<1>4. CASE i # NoCard
  <2>1. i \in DOMAIN mem[p].myCards
    BY <1>4 DEF UIPlays
  <2>2. PICK c, cards, m : /\ c = mem[p].myCards[i] /\ cards = Seqs!RemoveAt(mem[p].myCards, i)
                           /\ m = [mem[p] EXCEPT !.myCards = cards]
    OBVIOUS
  <2>3. PICK r : r.type = "play" /\ r.keys = c.keys /\ line' = [line EXCEPT ![p] = r]
    BY <1>2, <1>4, <2>2 DEF Reply
  <2>4. mem' = [mem EXCEPT ![p] = m]
    BY <1>2, <1>4, <2>2 DEF Remember, Without
  <2>5. DOMAIN m = DOMAIN Forgotten /\ m.cardPairs = mem[p].cardPairs /\ m.deck = mem[p].deck
        /\ m.myCards = cards
    BY <2>2 DEF ProtocolInv, Shape, Forgotten
  <2>6. Alone(p) /\ line'[p] = r /\ mem'[p] = m
    BY <2>3, <2>4, <2>5 DEF ProtocolInv, Shape, Alone
  <2>7. IsSeq(cards) /\ Range(cards) \subseteq Range(mem[p].myCards) /\ c \in Range(mem[p].myCards)
    <3>1. IsSeq(mem[p].myCards)
      BY <1>1 DEF KeepsKeys
    <3>2. IsSeq(cards) /\ Range(cards) \subseteq Range(mem[p].myCards)
      BY <2>1, <2>2, <3>1, Removed DEF Range
    <3> QED
      BY <2>1, <2>2, <3>2 DEF Range
  <2>8. AnswersKeys(r)
    BY <1>1, <2>3, <2>7 DEF AnswersKeys, KeepsKeys
  <2>9. KeepsKeys(p)'
    <3>1. UNCHANGED shuffles
      BY DEF Player, passing
    <3>2. Keys' = Keys /\ Numbers' = Numbers /\ KeysOfAll' = KeysOfAll
      BY <3>1 DEF Keys, Numbers, KeysOfAll, NoKey
    <3>3. \A d \in Range(cards) : d.card \in StartCards /\ d.keys \in KeysOfAll
      BY <1>1, <2>7, Zenon DEF KeepsKeys
    <3>4. mem'[p].deck = mem[p].deck /\ mem'[p].cardPairs = mem[p].cardPairs
          /\ mem'[p].myCards = cards
      BY <2>5, <2>6
    <3>5. (\A d \in Range(cards) : d.card \in StartCards /\ d.keys \in KeysOfAll)'
      BY <3>2, <3>3, <3>4, <2>7
    <3> QED
      BY <1>1, <2>7, <3>2, <3>3, <3>4 DEF KeepsKeys
  <2> QED
    BY <2>6, <2>8, <2>9, AnswerKeepsKeys
<1> QED
  BY <1>3, <1>4

LEMMA PlayersKeepKeys ==
  ASSUME ProtocolInv, TableInv, CardsInv, KeyInv, NEW p \in Players, Player(p)
  PROVE  KeyInv'
BY OthersKeepKeys, GameStartKeys, HandEndKeys, Stage0KeepsKeys, Stage1KeepsKeys, Stage2KeepsKeys,
   GetKeyKeys, GiveCardKeys, PlayKeys, Zenon DEF Player, Handle

LEMMA ArriveKeepsKeys ==
  ASSUME ProtocolInv, KeyInv, Arrive \/ UNCHANGED vars
  PROVE  KeyInv'
<1>1. UNCHANGED <<pc, deck, held, seen, work, shuffles, line>>
  BY DEF Arrive, vars, table, passing, wires
<1>2. KeysOfAll' = KeysOfAll /\ Numbers' = Numbers /\ Keys' = Keys /\ Out' = Out /\ M' = M
  BY <1>1 DEF KeysOfAll, Keys, Numbers, NoKey, Out, M
<1>3. ASSUME NEW p \in Players
      PROVE  KeepsOn(p)
  <2>1. CASE Arrive
    <3>1. PICK l \in late : mem' = [mem EXCEPT ![l[1]] = OnGameEvent(mem[l[1]], l[2])]
      BY <2>1 DEF Arrive
    <3> QED
      BY <3>1 DEF OnGameEvent, ProtocolInv, Shape, Forgotten, KeepsOn
  <2>2. CASE UNCHANGED vars
    BY <2>2 DEF vars, wires, told, KeepsOn
  <2> QED
    BY <2>1, <2>2
<1>4. ASSUME NEW p \in Players
      PROVE  KeepsKeys(p)' /\ SendsKeys(p)'
  <2>1. KeepsOn(p) /\ KeepsKeys(p) /\ SendsKeys(p)
    BY <1>3 DEF KeyInv
  <2>2. KeepsKeys(p)'
    BY <1>2, <2>1 DEF KeepsKeys, KeepsOn
  <2>3. SendsKeys(p)'
    BY <1>1, <1>2, <2>1 DEF SendsKeys, KeepsOn
  <2> QED
    BY <2>2, <2>3
<1> QED
  BY <1>1, <1>2, <1>4 DEF KeyInv

LEMMA KeyInvariant == ASSUME Dealable PROVE Spec => []KeyInv
<1>1. Init => KeyInv
  <2>1. <<>> \in Seq(Numbers) /\ DOMAIN <<>> = {} /\ IsSeq(<<>>) /\ Range(<<>>) = {} /\ Len(<<>>) = 0
    BY EmptySeq, EmptyIsSeq DEF Range
  <2>2. M \in Nat /\ 0 <= M
    BY PackIsFinite
  <2>3. ASSUME Init, NEW p \in Players
        PROVE  KeepsKeys(p) /\ SendsKeys(p)
    <3>1. mem[p] = Forgotten /\ line[p].type = "idle"
      BY <2>3 DEF Init, HandlerInit, Idle
    <3> QED
      BY <2>1, <3>1 DEF KeepsKeys, SendsKeys, Forgotten
  <2>4. ASSUME Init
        PROVE  /\ work \in Seq(Numbers) /\ Len(work) <= M /\ deck \in Seq(Numbers)
               /\ pc # "Shuffle" /\ DOMAIN held = {} /\ Out = {}
    BY <2>1, <2>2, <2>4 DEF Init, Out, Range
  <2> QED
    BY <2>3, <2>4 DEF KeyInv
<1>2. ProtocolInv /\ TableInv /\ CardsInv /\ KeyInv /\ [Next]_vars => KeyInv'
  BY HostKeepsKeys, PlayersKeepKeys, ArriveKeepsKeys DEF Next, Finished
<1> QED
  BY <1>1, <1>2, ProtocolInvariant, TableInvariant, CardsInvariant, PTL DEF Spec
-----------------------------------------------------------------------------
\* Cards and colors

TypesInv == start \in Seq(StartCards) /\ discard \in Seq(StartCards) /\ color \in Colors

LEMMA FullDeckIsOfCards == FullDeck \in Seq(StartCards)
<1>1. \A i \in DOMAIN FullDeck : FullDeck[i] \in StartCards
  BY FullDeckInOrder DEF Range
<1> QED
  BY <1>1, FullDeckIsSeq, SeqIsIn

LEMMA HostKeepsTypes ==
  ASSUME ProtocolInv, TableInv, CardsInv, OrderInv, KeyInv, TypesInv, Host
  PROVE  TypesInv'
<1>0. 0 \in Colors /\ ChosenColors \subseteq Colors
  BY ColorsAssumption DEF Colors
<1>1. CASE \/ PlayerRefuses \/ Announce \/ StartGame \/ GameStarted \/ StartHand \/ Deal \/ DealTo
           \/ KeysGiven \/ CardGiven \/ TurnUp \/ AskPlay \/ NothingPlayed \/ NextDrawsTwo
  BY <1>1 DEF PlayerRefuses, Announce, StartGame, GameStarted, StartHand, Deal, DealTo, KeysGiven,
              CardGiven, TurnUp, AskPlay, NothingPlayed, NextDrawsTwo, table, passing, TypesInv
<1>2. CASE \/ AskChallenge \/ ChallengeDecided \/ NoEffect \/ EndTurn \/ HandSigned \/ AfterHand
           \/ GameEnded \/ HandRevealed
  <2>1. UNCHANGED <<start, discard, color>>
    <3>1. CASE HandRevealed
      BY <3>1, Zenon DEF HandRevealed, table, passing
    <3> QED
      BY <1>2, <3>1 DEF AskChallenge, ChallengeDecided, NoEffect, EndTurn, HandSigned, AfterHand,
                  GameEnded, table, passing
  <2> QED
    BY <2>1 DEF TypesInv
<1>3. CASE HandStarted
  <2>1. \/ UNCHANGED <<start, discard, color>>
        \/ start' = FromCards(<<>>) /\ discard' = <<>> /\ color' = 0
    BY <1>3 DEF HandStarted, table, passing, Shuffle
  <2>2. <<>> \in Seq(StartCards) /\ FromCards(<<>>) = FullDeck
    BY EmptySeq DEF FromCards
  <2> QED
    BY <1>0, <2>1, <2>2, FullDeckIsOfCards DEF TypesInv
<1>4. CASE Reshuffle
  <2>1. start' = FromCards(Seqs!Front(discard)) /\ UNCHANGED <<discard, color>>
    BY <1>4 DEF Reshuffle, Shuffle, table
  <2>2. Seqs!Front(discard) \in Seq(StartCards)
    BY FrontIsIn DEF TypesInv
  <2>3. FromCards(Seqs!Front(discard)) \in Seq(StartCards)
    BY <2>2, FullDeckIsOfCards DEF FromCards
  <2> QED
    BY <2>1, <2>3 DEF TypesInv
<1>5. CASE PassOn
  BY <1>5 DEF PassOn, table, TypesInv
<1>6. CASE ShuffleDone
  <2>1. discard' = AfterReshuffle(discard) /\ UNCHANGED <<start, color>>
    BY <1>6 DEF ShuffleDone, passing
  <2>2. discard # <<>> => Seqs!Last(discard) \in StartCards
    BY FrontIsIn DEF TypesInv
  <2>3. PICK c : c = Seqs!Last(discard)
    OBVIOUS
  <2>4. discard' = discard \/ (discard' = <<c>> /\ c \in StartCards)
    BY <2>1, <2>2, <2>3 DEF AfterReshuffle
  <2>5. c \in StartCards => <<c>> \in Seq(StartCards)
    OBVIOUS
  <2> QED
    BY <2>1, <2>4, <2>5 DEF TypesInv
<1>7. CASE TurnedUp
  <2>1. UNCHANGED <<start, color>> /\ pc = "FirstKeys" /\ Back("FirstKeys")
    BY <1>7 DEF TurnedUp, passing, Back
  <2>2. PICK c : c = Seqs!Last(deck).card
    OBVIOUS
  <2>3. discard' = Append(discard, c)
    BY <1>7, <2>2, TurnedUpDeals
  <2>4. deck # <<>>
    BY <2>1, KeysHaveCome DEF ProtocolInv, Live, Terminal
  <2>5. c \in StartCards
    <3>1. Seqs!Last(deck) \in Numbers
      BY <2>4, FrontIsIn DEF KeyInv
    <3> QED
      BY <2>2, <3>1 DEF Numbers
  <2> QED
    BY <2>1, <2>3, <2>5, AppendProperties DEF TypesInv
<1>8. CASE FirstColor
  <2>1. pc = "FirstColor" /\ Answered /\ color' = line[turn].color /\ UNCHANGED <<start, discard>>
    BY <1>8 DEF FirstColor, passing, Back
  <2>2. line[turn].type \notin {"ChooseColor", "refused"}
    BY <2>1 DEF ProtocolInv, Shape, Answered, Requests
  <2>3. line[turn].color \in Colors
    BY <1>0, <2>1, <2>2 DEF OrderInv
  <2> QED
    BY <2>1, <2>3 DEF TypesInv
<1>9. CASE CardPlayed
  <2>1. /\ pc \in {"Play", "PlayAgain"} /\ Back(pc) /\ UNCHANGED start
    BY <1>9 DEF CardPlayed, PlayComesBack, Back, passing
  <2>2. CardInv /\ Shape /\ HostKeys /\ WireInv /\ turn \in Players /\ Opening
    BY <2>1, GoesOn DEF Waiting, Terminal, ProtocolInv, Live, Shape, CardInv
  <2>3. Fits(turn, line[turn].number, line[turn].keys[turn]) /\ line[turn].type = "play"
    BY <2>1, <2>2 DEF WireInv, PlayCase, Refusal, Back, Answered, Requests
  <2>4. PICK v : v = line[turn].number
    OBVIOUS
  <2>5. \/ UNCHANGED <<discard, color>>
        \/ /\ PlayIsGenuine(line[turn]) /\ color' = line[turn].wildColor
           /\ discard' = Append(discard, Decrypted(v, line[turn].keys).card)
    BY <1>9, <2>4 DEF CardPlayed
  <2>6. PlayIsGenuine(line[turn]) =>
          v \in DOMAIN held /\ Decrypted(v, line[turn].keys) = Plain(v.card)
    BY <2>2, <2>3, <2>4, GenuineCard
  <2>7. v \in DOMAIN held => v.card \in StartCards
    BY DEF KeyInv, Numbers
  <2>8. line[turn].wildColor = 0
    BY <2>1, <2>3 DEF OrderInv
  <2>9. CASE UNCHANGED <<discard, color>>
    BY <2>1, <2>9 DEF TypesInv
  <2>10. CASE /\ PlayIsGenuine(line[turn]) /\ color' = line[turn].wildColor
              /\ discard' = Append(discard, Decrypted(v, line[turn].keys).card)
    <3>1. discard' = Append(discard, v.card) /\ v.card \in StartCards
      BY <2>6, <2>7, <2>10 DEF Plain
    <3> QED
      BY <1>0, <2>1, <2>8, <2>10, <3>1, AppendProperties DEF TypesInv
  <2> QED
    BY <2>5, <2>9, <2>10
<1> QED
  BY <1>1, <1>2, <1>3, <1>4, <1>5, <1>6, <1>7, <1>8, <1>9, Zenon DEF Host

LEMMA TypesInvariant == ASSUME Dealable PROVE Spec => []TypesInv
<1>1. Init => TypesInv
  BY EmptySeq DEF Init, TypesInv, Colors
<1>2. ProtocolInv /\ TableInv /\ CardsInv /\ OrderInv /\ KeyInv /\ TypesInv /\ [Next]_vars => TypesInv'
  <2>1. (\E p \in Players : Player(p)) \/ Arrive \/ UNCHANGED vars => UNCHANGED <<start, discard, color>>
    BY DEF Player, Arrive, vars, table, passing
  <2>2. UNCHANGED <<start, discard, color>> /\ TypesInv => TypesInv'
    BY DEF TypesInv
  <2> QED
    BY <2>1, <2>2, HostKeepsTypes DEF Next, Finished
<1> QED
  BY <1>1, <1>2, ProtocolInvariant, TableInvariant, CardsInvariant, OrderInvariant, KeyInvariant,
     PTL DEF Spec
-----------------------------------------------------------------------------
\* Scores

(* A set of numbers that is not empty has a smallest one.                  *)
LEMMA SmallestNumber ==
  ASSUME NEW Bad \in SUBSET Nat, Bad # {}
  PROVE  \E n \in Bad : \A m \in Bad : n <= m
<1> DEFINE Less == {mn \in Nat \X Nat : mn[1] < mn[2]}
<1>1. IsWellFoundedOn(Less, Nat)
  BY NatLessThanWellFounded DEF OpToRel
<1>2. \E n \in Bad : \A m \in Bad : ~(<<m, n>> \in Less)
  <2> HIDE DEF Less
  <2> QED
    BY <1>1, WFMin
<1>3. PICK n \in Bad : \A m \in Bad : ~(<<m, n>> \in Less)
  BY <1>2
<1>4. ASSUME NEW m \in Bad
      PROVE  n <= m
  <2>1. m \in Nat /\ n \in Nat /\ ~(<<m, n>> \in Less)
    BY <1>3
  <2>2. ~(m < n)
    BY <2>1
  <2> QED
    BY <2>1, <2>2
<1> QED
  BY <1>4

(* What the host and the players add up.                                   *)
ScoreOf(q) == Seqs!FoldSeq(LAMBDA c, s : s + Score(c), 0, q)

\* What that is for the cards at the places s, given what g is for fewer.
ScoreAt(g, q, s) ==
  IF s = {} THEN 0 ELSE LET x == CHOOSE x \in s : TRUE IN g[s \ {x}] + Score(q[x])

LEMMA ScoreOfIsThat ==
  ASSUME NEW q
  PROVE  ScoreOf(q) = (CHOOSE g : g = [s \in SUBSET DOMAIN q |-> ScoreAt(g, q, s)])[DOMAIN q]
BY DEF ScoreOf, ScoreAt, Seqs!FoldSeq, FoldFunction, FoldFunctionOnSet, MapThenFoldSet,
       Seqs!FoldFunction, Seqs!FoldFunctionOnSet, Seqs!MapThenFoldSet

LEMMA ScoresAreNumbers == \A c \in StartCards : Score(c) \in Nat
BY CardsAssumption DEF Deck108, Score, IsWild, Value, Skip, Reverse, DrawTwo, Wild, WildDrawFour

(* It adds up to a number: of the places, sets of n+1 are added to what    *)
(* there is for sets of up to n.                                           *)
LEMMA ScoresAddUp ==
  ASSUME NEW q, IsSeq(q), \A i \in DOMAIN q : q[i] \in StartCards
  PROVE  ScoreOf(q) \in Nat
<1> DEFINE U == DOMAIN q
           Upto(g, n) == \A s \in SUBSET U : Cardinality(s) <= n => g[s] = ScoreAt(g, q, s)
           Bad == {n \in Nat : ~ \E g \in [SUBSET U -> Nat] : Upto(g, n)}
<1>0. IsFiniteSet(U)
  <2>1. U = 1..Len(q) /\ 1 \in Int /\ Len(q) \in Int
    BY SeqFacts
  <2> QED
    BY <2>1, FS_Interval
<1>1. \A s \in SUBSET U : IsFiniteSet(s) /\ Cardinality(s) \in Nat /\ Cardinality(s) <= Cardinality(U)
  BY <1>0, FS_Subset, FS_CardinalityType
<1>2. \A i \in U : Score(q[i]) \in Nat
  BY ScoresAreNumbers
<1> HIDE DEF U
<1>3. ASSUME NEW s \in SUBSET U, s # {}
      PROVE  LET x == CHOOSE x \in s : TRUE
             IN  x \in s /\ s \ {x} \in SUBSET U /\ Cardinality(s \ {x}) = Cardinality(s) - 1
  BY <1>1, <1>3, FS_RemoveElement
<1>4. 0 \notin Bad
  <2>1. \A s \in SUBSET U : Cardinality(s) <= 0 => s = {}
    BY <1>1, FS_EmptySet
  <2>2. Upto([s \in SUBSET U |-> 0], 0)
    BY <2>1 DEF ScoreAt
  <2> QED
    BY <2>2
<1>5. ASSUME NEW n \in Nat, n \notin Bad
      PROVE  n + 1 \notin Bad
  <2>1. PICK g \in [SUBSET U -> Nat] : Upto(g, n)
    BY <1>5
  <2>2. ASSUME NEW s \in SUBSET U, s # {}
        PROVE  ScoreAt(g, q, s) \in Nat
    <3> DEFINE x == CHOOSE x \in s : TRUE
    <3>1. x \in s /\ s \ {x} \in SUBSET U
      BY <2>2
    <3>2. g[s \ {x}] \in Nat /\ Score(q[x]) \in Nat
      BY <1>2, <3>1
    <3>3. ScoreAt(g, q, s) = g[s \ {x}] + Score(q[x])
      BY <2>2 DEF ScoreAt
    <3> QED
      BY <3>2, <3>3
  <2>3. \A s \in SUBSET U : ScoreAt(g, q, s) \in Nat
    BY <2>2 DEF ScoreAt
  <2> DEFINE h == [s \in SUBSET U |-> IF Cardinality(s) <= n THEN g[s] ELSE
                     IF Cardinality(s) = n + 1 THEN ScoreAt(g, q, s) ELSE 0]
  <2>4. ASSUME NEW s \in SUBSET U, Cardinality(s) <= n + 1
        PROVE  ScoreAt(h, q, s) = ScoreAt(g, q, s)
    <3>1. CASE s = {}
      BY <3>1 DEF ScoreAt
    <3>2. CASE s # {}
      <4> DEFINE x == CHOOSE x \in s : TRUE
      <4>1. x \in s /\ s \ {x} \in SUBSET U /\ Cardinality(s \ {x}) <= n
        BY <3>2, <1>3, <2>4, <1>1
      <4>2. h[s \ {x}] = g[s \ {x}]
        BY <4>1
      <4>3. /\ ScoreAt(g, q, s) = g[s \ {x}] + Score(q[x])
            /\ ScoreAt(h, q, s) = h[s \ {x}] + Score(q[x])
        BY <3>2 DEF ScoreAt
      <4> HIDE DEF x, h
      <4> QED
        BY <4>2, <4>3
    <3> QED
      BY <3>1, <3>2
  <2>5. h \in [SUBSET U -> Nat]
    BY <2>3
  <2>6. Upto(h, n + 1)
    <3> SUFFICES ASSUME NEW s \in SUBSET U, Cardinality(s) <= n + 1
                 PROVE  h[s] = ScoreAt(h, q, s)
      OBVIOUS
    <3>1. h[s] = ScoreAt(g, q, s)
      BY <2>1, <1>1
    <3> QED
      BY <3>1, <2>4
  <2> QED
    <3> HIDE DEF h
    <3> QED
      BY <2>5, <2>6
<1>6. Bad = {}
  <2> HIDE DEF Bad
  <2> SUFFICES ASSUME Bad # {} PROVE FALSE
    OBVIOUS
  <2>0. Bad \in SUBSET Nat
    BY DEF Bad
  <2>1. PICK n \in Bad : \A m \in Bad : n <= m
    BY <2>0, SmallestNumber
  <2>2. n \in Nat /\ n # 0 /\ n - 1 \in Nat /\ n - 1 \notin Bad
    BY <2>0, <2>1, <1>4
  <2>3. (n - 1) + 1 \notin Bad
    BY <2>2, <1>5
  <2> QED
    BY <2>1, <2>2, <2>3
<1>7. PICK g \in [SUBSET U -> Nat] : Upto(g, Cardinality(U))
  BY <1>0, <1>6, FS_CardinalityType
<1> DEFINE Sol(f) == f = [s \in SUBSET U |-> ScoreAt(f, q, s)]
           h == CHOOSE f : Sol(f)
<1>8. Sol(g)
  BY <1>1, <1>7
<1>9. Sol(h)
  <2> HIDE DEF Sol
  <2> QED
    BY <1>8
<1>10. ScoreOf(q) = h[U]
  BY ScoreOfIsThat DEF U
<1>11. \A s \in SUBSET U : h[s] = ScoreAt(h, q, s)
  <2> HIDE DEF h
  <2> QED
    BY <1>9
<1> HIDE DEF h
<1> DEFINE Odd == {n \in Nat : \E s \in SUBSET U : Cardinality(s) = n /\ h[s] \notin Nat}
<1>12. Odd = {}
  <2> HIDE DEF Odd
  <2> SUFFICES ASSUME Odd # {} PROVE FALSE
    OBVIOUS
  <2>0. Odd \in SUBSET Nat
    BY DEF Odd
  <2>1. PICK n \in Odd : \A m \in Odd : n <= m
    BY <2>0, SmallestNumber
  <2>2. PICK s \in SUBSET U : Cardinality(s) = n /\ h[s] \notin Nat
    BY <2>1 DEF Odd
  <2>3. s # {}
    BY <1>11, <2>2 DEF ScoreAt
  <2> DEFINE x == CHOOSE x \in s : TRUE
  <2>4. x \in s /\ s \ {x} \in SUBSET U /\ Cardinality(s \ {x}) = n - 1
    BY <1>3, <2>2, <2>3
  <2>5. h[s] = h[s \ {x}] + Score(q[x])
    BY <1>11, <2>3 DEF ScoreAt
  <2> HIDE DEF x
  <2>6. n \in Nat /\ n - 1 \in Nat /\ n - 1 \notin Odd
    BY <1>1, <2>0, <2>1, <2>4
  <2>7. h[s \ {x}] \in Nat /\ Score(q[x]) \in Nat
    BY <1>2, <2>4, <2>6 DEF Odd
  <2> QED
    BY <2>2, <2>5, <2>7
<1> QED
  BY <1>0, <1>10, <1>12, FS_CardinalityType

\* The first sequences put together, given the same for one less.
JoinAt(f, seqs, i) == IF i = 1 THEN seqs[i] ELSE f[i - 1] \o seqs[i]

LEMMA FlattenIsThat ==
  ASSUME NEW seqs, Len(seqs) # 0
  PROVE  Seqs!FlattenSeq(seqs) =
           (CHOOSE f : f = [i \in 1..Len(seqs) |-> JoinAt(f, seqs, i)])[Len(seqs)]
BY DEF Seqs!FlattenSeq, JoinAt

(* There are such sequences, and the last is all of them put together.     *)
LEMMA FlattenJoins ==
  ASSUME NEW S, NEW seqs, NEW n \in Nat \ {0}, Len(seqs) = n,
         \A i \in 1..n : seqs[i] \in Seq(S)
  PROVE  \E h : Seqs!FlattenSeq(seqs) = h[n] /\ \A i \in 1..n : h[i] = JoinAt(h, seqs, i)
<1> DEFINE Upto(f, m) == \A i \in 1..m : f[i] = JoinAt(f, seqs, i)
           Bad == {m \in 1..n : ~ \E f \in [1..n -> Seq(S)] : Upto(f, m)}
<1>0. <<>> \in Seq(S) /\ \A s, t \in Seq(S) : s \o t \in Seq(S)
  BY EmptySeq, ConcatProperties
<1>1. 1 \notin Bad
  <2>1. Upto([i \in 1..n |-> seqs[1]], 1)
    BY DEF JoinAt
  <2> QED
    BY <2>1
<1>2. ASSUME NEW m \in 1..n, m \notin Bad, m + 1 \in 1..n
      PROVE  m + 1 \notin Bad
  <2>1. PICK f \in [1..n -> Seq(S)] : Upto(f, m)
    BY <1>2
  <2> DEFINE h == [f EXCEPT ![m + 1] = f[m] \o seqs[m + 1]]
  <2>2. h \in [1..n -> Seq(S)]
    BY <1>0, <1>2
  <2>3. ASSUME NEW i \in 1..m + 1
        PROVE  h[i] = JoinAt(h, seqs, i)
    <3>1. CASE i = m + 1
      <4>1. h[i] = f[m] \o seqs[m + 1] /\ h[m] = f[m] /\ i # 1 /\ i - 1 = m
        BY <1>2, <3>1
      <4> HIDE DEF h
      <4> QED
        BY <3>1, <4>1 DEF JoinAt
    <3>2. CASE i # m + 1
      <4>1. i \in 1..m /\ i \in 1..n
        BY <1>2, <2>3, <3>2
      <4>2. h[i] = f[i] /\ (i # 1 => h[i - 1] = f[i - 1])
        BY <1>2, <4>1
      <4> HIDE DEF h
      <4> QED
        BY <2>1, <4>1, <4>2 DEF JoinAt
    <3> QED
      BY <3>1, <3>2
  <2> HIDE DEF h
  <2> QED
    BY <2>2, <2>3
<1>3. Bad = {}
  <2> HIDE DEF Bad
  <2> SUFFICES ASSUME Bad # {} PROVE FALSE
    OBVIOUS
  <2>0. Bad \in SUBSET Nat /\ Bad \subseteq 1..n
    BY DEF Bad
  <2>1. PICK m \in Bad : \A l \in Bad : m <= l
    BY <2>0, SmallestNumber
  <2>2. m \in 1..n /\ m # 1 /\ m - 1 \in 1..n /\ m - 1 \notin Bad /\ (m - 1) + 1 = m
    BY <1>1, <2>0, <2>1
  <2> QED
    BY <1>2, <2>1, <2>2
<1>4. PICK g \in [1..n -> Seq(S)] : Upto(g, n)
  <2>1. n \in 1..n
    OBVIOUS
  <2> HIDE DEF Upto
  <2> QED
    BY <1>3, <2>1
<1> DEFINE Sol(f) == f = [i \in 1..Len(seqs) |-> JoinAt(f, seqs, i)]
           h == CHOOSE f : Sol(f)
<1>5. Sol(g)
  BY <1>4
<1>6. Sol(h)
  <2> HIDE DEF Sol
  <2> QED
    BY <1>5
<1>7. Seqs!FlattenSeq(seqs) = h[Len(seqs)]
  BY FlattenIsThat
<1>8. \A i \in 1..n : h[i] = JoinAt(h, seqs, i)
  <2> HIDE DEF h
  <2> QED
    BY <1>6
<1> HIDE DEF h
<1> QED
  BY <1>7, <1>8

(* Sequences of elements of S, put together, are one.                      *)
LEMMA FlattenIsIn ==
  ASSUME NEW S, NEW seqs, NEW n \in Nat \ {0}, Len(seqs) = n,
         \A i \in 1..n : seqs[i] \in Seq(S)
  PROVE  Seqs!FlattenSeq(seqs) \in Seq(S)
<1>1. PICK h : Seqs!FlattenSeq(seqs) = h[n] /\ \A i \in 1..n : h[i] = JoinAt(h, seqs, i)
  BY FlattenJoins
<1>2. \A s, t \in Seq(S) : s \o t \in Seq(S)
  BY ConcatProperties
<1> DEFINE Odd == {i \in 1..n : h[i] \notin Seq(S)}
<1>3. Odd = {}
  <2> HIDE DEF Odd
  <2> SUFFICES ASSUME Odd # {} PROVE FALSE
    OBVIOUS
  <2>0. Odd \in SUBSET Nat /\ Odd \subseteq 1..n
    BY DEF Odd
  <2>1. PICK i \in Odd : \A l \in Odd : i <= l
    BY <2>0, SmallestNumber
  <2>2. i \in 1..n /\ h[i] \notin Seq(S) /\ h[i] = JoinAt(h, seqs, i) /\ seqs[i] \in Seq(S)
    BY <1>1, <2>1 DEF Odd
  <2>3. i # 1
    BY <2>2 DEF JoinAt
  <2>4. i - 1 \in 1..n /\ i - 1 \notin Odd
    BY <2>0, <2>1, <2>2, <2>3
  <2>5. h[i - 1] \in Seq(S) /\ h[i] = h[i - 1] \o seqs[i]
    BY <2>2, <2>3, <2>4 DEF Odd, JoinAt
  <2> QED
    BY <1>2, <2>2, <2>5
<1> QED
  BY <1>1, <1>3

(* Sequences without repetition that share nothing have no repetition      *)
(* either when they are put together.                                      *)
LEMMA FlattenApart ==
  ASSUME NEW seqs, NEW n \in Nat \ {0}, Len(seqs) = n,
         \A i \in 1..n : IsSeq(seqs[i]) /\ Apart(seqs[i]),
         \A i, j \in 1..n : i # j => Range(seqs[i]) \cap Range(seqs[j]) = {}
  PROVE  LET s == Seqs!FlattenSeq(seqs)
         IN  IsSeq(s) /\ Apart(s) /\ Range(s) = UNION {Range(seqs[i]) : i \in 1..n}
<1> DEFINE S == UNION {Range(seqs[i]) : i \in 1..n}
           Upto(i) == UNION {Range(seqs[j]) : j \in 1..i}
           Good(s, i) == IsSeq(s) /\ Apart(s) /\ Range(s) = Upto(i)
<1>1. \A i \in 1..n : seqs[i] \in Seq(S)
  <2> SUFFICES ASSUME NEW i \in 1..n
               PROVE  seqs[i] \in Seq(S)
    OBVIOUS
  <2>1. IsSeq(seqs[i]) /\ \A j \in DOMAIN seqs[i] : seqs[i][j] \in S
    BY DEF Range
  <2> HIDE DEF S
  <2> QED
    BY <2>1, SeqIsIn
<1>2. PICK h : Seqs!FlattenSeq(seqs) = h[n] /\ \A i \in 1..n : h[i] = JoinAt(h, seqs, i)
  <2> HIDE DEF S
  <2> QED
    BY <1>1, FlattenJoins
<1> DEFINE Odd == {i \in 1..n : ~Good(h[i], i)}
<1>3. Odd = {}
  <2> HIDE DEF Odd, Good
  <2> SUFFICES ASSUME Odd # {} PROVE FALSE
    OBVIOUS
  <2>0. Odd \in SUBSET Nat /\ Odd \subseteq 1..n
    BY DEF Odd
  <2>1. PICK i \in Odd : \A l \in Odd : i <= l
    BY <2>0, SmallestNumber
  <2>2. i \in 1..n /\ ~Good(h[i], i) /\ h[i] = JoinAt(h, seqs, i) /\ IsSeq(seqs[i]) /\ Apart(seqs[i])
    BY <1>2, <2>1 DEF Odd
  <2>3. CASE i = 1
    <3>1. h[i] = seqs[i]
      BY <2>2, <2>3 DEF JoinAt
    <3>2. Upto(i) = Range(seqs[i])
      BY <2>3
    <3> QED
      BY <2>2, <3>1, <3>2 DEF Good
  <2>4. CASE i # 1
    <3>1. i - 1 \in 1..n /\ i - 1 \notin Odd
      BY <2>0, <2>1, <2>2, <2>4
    <3>2. Good(h[i - 1], i - 1) /\ h[i] = h[i - 1] \o seqs[i]
      BY <2>2, <2>4, <3>1 DEF Odd, JoinAt
    <3>3. Upto(i) = Upto(i - 1) \cup Range(seqs[i])
      <4>1. 1..i = 1..(i - 1) \cup {i}
        BY <2>2
      <4> QED
        BY <4>1
    <3>4. Upto(i - 1) \cap Range(seqs[i]) = {}
      <4>1. \A j \in 1..(i - 1) : j \in 1..n /\ j # i
        BY <2>2
      <4> QED
        BY <2>2, <4>1
    <3>5. PICK s, t : s = h[i - 1] /\ t = seqs[i]
      OBVIOUS
    <3> HIDE DEF Upto
    <3>6. IsSeq(s) /\ Apart(s) /\ Range(s) = Upto(i - 1)
      BY <3>2, <3>5 DEF Good
    <3>7. IsSeq(s \o t) /\ Range(s \o t) = Range(s) \cup Range(t) /\ Apart(s \o t)
      BY <2>2, <3>4, <3>5, <3>6, Joined
    <3> QED
      BY <2>2, <3>2, <3>3, <3>5, <3>6, <3>7 DEF Good
  <2> QED
    BY <2>3, <2>4
<1> QED
  BY <1>2, <1>3

(* What the players have revealed adds up.                                 *)
LEMMA ShownAddsUp ==
  ASSUME \A p \in Players : /\ IsSeq(line[p].cards)
                            /\ \A j \in DOMAIN line[p].cards : line[p].cards[j].card \in StartCards
  PROVE  ScoreOf(Shown) \in Nat
<1> DEFINE cards(i) == [j \in DOMAIN line[i-1].cards |-> line[i-1].cards[j].card]
           seqs == [i \in 1..N |-> cards(i)]
<1>1. ASSUME NEW i \in 1..N
      PROVE  cards(i) \in Seq(StartCards)
  <2>1. i - 1 \in Players
    BY NAssumption DEF Players
  <2>2. PICK c : c = line[i-1].cards
    OBVIOUS
  <2>3. IsSeq(c) /\ \A j \in DOMAIN c : c[j].card \in StartCards
    BY <2>1, <2>2
  <2>4. DOMAIN c = 1..Len(c) /\ Len(c) \in Nat
    BY <2>3, SeqFacts
  <2>5. [j \in DOMAIN c |-> c[j].card] \in Seq(StartCards)
    BY <2>3, <2>4, IsASeq
  <2> QED
    BY <2>2, <2>5
<1>2. N \in Nat \ {0}
  BY NAssumption
<1> HIDE DEF cards
<1>3. Len(seqs) = N
  <2>1. IsSeq(seqs) /\ Len(seqs) = N
    BY <1>2, OnInterval
  <2> QED
    BY <2>1
<1>4. \A i \in 1..N : seqs[i] \in Seq(StartCards)
  BY <1>1
<1> HIDE DEF seqs
<1>5. Seqs!FlattenSeq(seqs) \in Seq(StartCards)
  BY <1>2, <1>3, <1>4, FlattenIsIn
<1>6. Shown = Seqs!FlattenSeq(seqs)
  BY DEF Shown, seqs, cards
<1>7. IsSeq(Shown) /\ \A i \in DOMAIN Shown : Shown[i] \in StartCards
  BY <1>5, <1>6, SeqOfRange, LenProperties, ElementOfSeq DEF IsSeq
<1> QED
  BY <1>7, ScoresAddUp

(* Whoever wins has points; and at the end of a hand everyone is asked to  *)
(* reveal its cards.                                                       *)
ScoresInv ==
  /\ scores \in [Players -> Nat] /\ complete.score \in Nat /\ DOMAIN complete = {"winner", "score"}
  /\ pc = "HandReveal" =>
       \A p \in Players : \/ line[p].type = "HandEnd" /\ line[p].stage = 0
                          \/ line[p].type \in {"refused", "revealed"}

LEMMA ScoresStay ==
  ASSUME ScoresInv, UNCHANGED <<scores, complete>>, pc' # "HandReveal"
  PROVE  ScoresInv'
BY DEF ScoresInv

LEMMA HostScores ==
  ASSUME ProtocolInv, KeyInv, ScoresInv, Host
  PROVE  ScoresInv'
<1>1. CASE \/ PlayerRefuses \/ StartGame \/ GameStarted \/ StartHand \/ HandStarted \/ PassOn
           \/ ShuffleDone \/ Deal \/ Reshuffle \/ DealTo \/ KeysGiven \/ CardGiven \/ TurnUp \/ TurnedUp
  <2>1. UNCHANGED <<scores, complete>> /\ pc' # "HandReveal"
    BY <1>1 DEF PlayerRefuses, StartGame, GameStarted, StartHand, HandStarted, PassOn,
           ShuffleDone, Deal, Reshuffle, DealTo, KeysGiven, CardGiven, TurnUp, TurnedUp, game,
           Shuffle, StartDraw, Back
  <2> QED
    BY <2>1, ScoresStay
<1>2. CASE \/ FirstColor \/ AskPlay \/ NothingPlayed \/ CardPlayed \/ NextDrawsTwo
           \/ AskChallenge \/ ChallengeDecided \/ NoEffect \/ AfterHand \/ GameEnded
  <2>1. UNCHANGED <<scores, complete>> /\ pc' # "HandReveal"
    <3>1. CASE CardPlayed
      BY <3>1, Zenon DEF CardPlayed, game
    <3> QED
      BY <1>2, <3>1 DEF FirstColor, AskPlay, NothingPlayed, NextDrawsTwo, AskChallenge,
                  ChallengeDecided, NoEffect, AfterHand, GameEnded, game, StartDraw, Back
  <2> QED
    BY <2>1, ScoresStay
<1>3. CASE Announce
  <2>1. UNCHANGED <<scores, complete>> /\ pc' # "HandReveal"
    <3>1. job.then # "HandReveal"
      BY DEF ProtocolInv, Shape
    <3> QED
      BY <1>3, <3>1 DEF Announce, Announcement, AfterFirst, game
  <2> QED
    BY <2>1, ScoresStay
<1>4. CASE EndTurn
  <2>1. UNCHANGED scores /\ \/ UNCHANGED complete /\ pc' # "HandReveal"
                            \/ \E p \in OutOfCards :
                                 /\ complete' = [winner |-> p, score |-> 0]
                                 /\ CallAll(Players, HandEndRequest(0, p, 0, <<>>))
                                 /\ pc' = "HandReveal"
    BY <1>4, Zenon DEF EndTurn
  <2>2. CASE \E p \in OutOfCards :
                                 /\ complete' = [winner |-> p, score |-> 0]
                                 /\ CallAll(Players, HandEndRequest(0, p, 0, <<>>))
                                 /\ pc' = "HandReveal"
    <3>1. PICK p : /\ complete' = [winner |-> p, score |-> 0]
                   /\ CallAll(Players, HandEndRequest(0, p, 0, <<>>))
      BY <2>2
    <3>2. \A q \in Players : line'[q].type = "HandEnd" /\ line'[q].stage = 0
      BY <3>1, Calls DEF HandEndRequest
    <3> QED
      BY <2>1, <3>1, <3>2 DEF ScoresInv
  <2> QED
    BY <2>1, <2>2, ScoresStay
<1>5. CASE HandRevealed
  <2>1. PICK score : score = ScoreOf(Shown)
    OBVIOUS
  <2>2. /\ pc = "HandReveal" /\ Answered /\ UNCHANGED scores /\ pc' # "HandReveal"
        /\ UNCHANGED complete \/ complete' = [complete EXCEPT !.score = score]
    BY <1>5, <2>1, Zenon DEF HandRevealed, Back, ScoreOf
  <2>3. \A p \in Players : line[p].type = "revealed"
    BY <2>2 DEF ScoresInv, Answered, Requests
  <2>4. score \in Nat
    BY <2>1, <2>3, ShownAddsUp DEF KeyInv, SendsKeys
  <2> QED
    BY <2>2, <2>4 DEF ScoresInv
<1>6. CASE HandSigned
  <2>1. /\ scores' = [scores EXCEPT ![complete.winner] = @ + complete.score]
        /\ UNCHANGED complete /\ pc' # "HandReveal"
    BY <1>6 DEF HandSigned
  <2>2. PICK w, n : w = complete.winner /\ n = complete.score
    OBVIOUS
  <2>3. scores' = [scores EXCEPT ![w] = scores[w] + n] /\ n \in Nat
    BY <2>1, <2>2 DEF ScoresInv
  <2>4. scores' \in [Players -> Nat]
    <3>1. CASE w \in Players
      BY <2>3, <3>1 DEF ScoresInv
    <3>2. CASE w \notin Players
      BY <2>3, <3>2 DEF ScoresInv
    <3> QED
      BY <3>1, <3>2
  <2> QED
    BY <2>1, <2>4 DEF ScoresInv
<1> QED
  BY <1>1, <1>2, <1>3, <1>4, <1>5, <1>6, Zenon DEF Host

LEMMA PlayersScore ==
  ASSUME ProtocolInv, ScoresInv, NEW p \in Players, Player(p)
  PROVE  ScoresInv'
<1>1. /\ UNCHANGED <<pc, scores, complete>> /\ \A q \in Players \ {p} : line'[q] = line[q]
      /\ Shape /\ Handle(p)
  BY OnItsOwnLine DEF Player, game, ProtocolInv, Shape
<1>2. ASSUME pc = "HandReveal"
      PROVE  line'[p].type \in {"refused", "revealed"}
  <2>1. line[p].type = "HandEnd" /\ line[p].stage = 0
    BY <1>1, <1>2, Remembers DEF ScoresInv, Requests
  <2>2. HandEnd(p)
    <3>1. ~(GameStart(p) \/ GameEnd(p) \/ HandStart(p) \/ ChooseColor(p) \/ ShuffleRefused(p))
      BY <2>1 DEF GameStart, GameEnd, HandStart, ChooseColor, ShuffleRefused, Asked
    <3>2. ~(ShuffleStage0(p) \/ ShuffleStage1(p) \/ ShuffleStage2(p))
      BY <1>1, <2>1, ShuffleUntold
    <3>3. ~(GetKey(p) \/ GiveCard(p) \/ Play(p) \/ ShouldChallenge(p) \/ RevealForChallenge(p))
      BY <2>1, Zenon DEF GetKey, GiveCard, Play, ShouldChallenge, RevealForChallenge, Asked
    <3> QED
      BY <1>1, <3>1, <3>2, <3>3 DEF Handle
  <2> QED
    BY <1>1, <2>1, <2>2 DEF HandEnd, Answer, Reply, Refuse, Shape
<1> QED
  BY <1>1, <1>2 DEF ScoresInv

LEMMA ScoresInvariant == ASSUME Dealable PROVE Spec => []ScoresInv
<1>1. Init => ScoresInv
  BY DEF Init, ScoresInv
<1>2. ProtocolInv /\ KeyInv /\ ScoresInv /\ [Next]_vars => ScoresInv'
  <2>1. Arrive \/ UNCHANGED vars => UNCHANGED <<pc, line, scores, complete>>
    BY DEF Arrive, vars, game, wires
  <2>2. UNCHANGED <<pc, line, scores, complete>> /\ ScoresInv => ScoresInv'
    BY DEF ScoresInv
  <2> QED
    BY <2>1, <2>2, HostScores, PlayersScore DEF Next, Finished
<1> QED
  BY <1>1, <1>2, ProtocolInvariant, KeyInvariant, PTL DEF Spec

(* TypeOK: every variable of the host keeps to its type.                   *)
THEOREM TypeCorrect == ASSUME Dealable PROVE Spec => []TypeOK
<1>1. /\ ProtocolInv /\ LateInv /\ PlaceInv /\ KeyInv /\ TypesInv /\ ScoresInv
      => TypeOK
  <2> SUFFICES ASSUME ProtocolInv, LateInv, PlaceInv, KeyInv, TypesInv, ScoresInv
               PROVE  TypeOK
    OBVIOUS
  <2>1. /\ pc \in Waiting \cup Going \cup Terminal
        /\ hand \in Nat /\ {dealer, turn, seat} \subseteq Players
        /\ stage \in 0..2
    BY DEF ProtocolInv, Shape, PlaceInv
  <2>2. shuffles \in 0..MaxShuffles + hand
    BY BoundsAssumption DEF ProtocolInv, Shape, PlaceInv
  <2>3. /\ scores \in [Players -> Nat] /\ start \in Seq(StartCards) /\ discard \in Seq(StartCards)
        /\ work \in Seq(Numbers) /\ deck \in Seq(Numbers) /\ color \in Colors
    BY DEF ScoresInv, TypesInv, KeyInv
  <2>4. /\ DOMAIN held \subseteq Numbers /\ Range(held) \subseteq Players
        /\ DOMAIN held \subseteq DOMAIN seen
    BY DEF KeyInv, ProtocolInv, HostKeys, Out, Range
  <2>5. \A v \in DOMAIN seen : seen[v] \in [Players -> Keys \cup {NoKey}]
    BY DEF KeyInv, Out, KeysOfAll
  <2>6. late \subseteq Players \X {l[2] : l \in late} /\ Cardinality(late) <= MaxLate
    BY DEF LateInv
  <2>7. ASSUME NEW p \in Players
        PROVE  /\ mem[p].deck \in Seq(Numbers)
               /\ {c.card : c \in Range(mem[p].myCards)} \subseteq StartCards
    BY DEF KeyInv, KeepsKeys
  <2> QED
    BY <2>1, <2>2, <2>3, <2>4, <2>5, <2>6, <2>7 DEF TypeOK
<1> QED
  BY <1>1, ProtocolInvariant, LateInvariant, PlaceInvariant, KeyInvariant, TypesInvariant,
     ScoresInvariant, PTL
=============================================================================
