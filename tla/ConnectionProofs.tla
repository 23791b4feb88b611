-------------------------- MODULE ConnectionProofs --------------------------
(***************************************************************************)
(* Proofs about the stream between the host and a player, for every number *)
(* of calls, notices and failures and whatever the player sends.           *)
(***************************************************************************)
EXTENDS ConnectionProperties, FiniteSetTheorems, SequenceTheorems, TLAPS

\* What the host hands to its loop.
Sendings == {Notice(n) : n \in Notices} \cup {Request(c) : c \in Calls}

Occurs(x, s) == \E i \in 1..Len(s) : s[i] = x
Once(x, s) == \A i, j \in 1..Len(s) : s[i] = x /\ s[j] = x => i = j

\* A call that has been sent and not been answered yet.
InTransit(c) ==
  \/ Request(c) \in senders
  \/ Occurs(Request(c), toPlayer)
  \/ c \in replies
  \/ Occurs(c, fromPlayer)
  \/ receiver = c

Sent(c) == call[c] \notin {"Idle", "Registered", "Refused"}

\* The error channel noted is that of the call noted, and a call that waits
\* without having been told is noted unless it has lost its place.
SlotInv ==
  /\ errCh # None => valCh = errCh
  /\ \A c \in Calls :
       call[c] \in {"Registered", "Waiting"} =>
         told[c] \/ answer[c] # None \/ errCh = c \/ c \in astray

\* A request and its answer are in one place at a time.
PlaceInv ==
  /\ senders \subseteq Sendings /\ toPlayer \in Seq(Sendings)
  /\ \A c \in Calls :
       /\ InTransit(c) => Sent(c)
       /\ Once(Request(c), toPlayer) /\ Once(c, fromPlayer)
       /\ Request(c) \in senders =>
            ~Occurs(Request(c), toPlayer) /\ c \notin replies
              /\ ~Occurs(c, fromPlayer) /\ receiver # c
       /\ Occurs(Request(c), toPlayer) =>
            c \notin replies /\ ~Occurs(c, fromPlayer) /\ receiver # c
       /\ c \in replies => ~Occurs(c, fromPlayer) /\ receiver # c
       /\ Occurs(c, fromPlayer) => receiver # c

Serving == loop \in {"New", "Select"}

\* While no call has lost its place, the call noted is the only one under way.
TurnInv ==
  /\ Serving => \A c \in Calls : ~told[c]
  /\ astray = {} =>
       /\ cause # "NoRequest"
       /\ \A c \in Calls :
            /\ answer[c] = None \/ (answer[c] = c /\ Sent(c))
            /\ call[c] \in {"Answered", "Unmatched"} => got[c] = c
  /\ astray = {} /\ Serving =>
       \A c \in Calls :
         /\ InTransit(c) => valCh = c
         /\ valCh = c <=>
              call[c] = "Registered" \/ (call[c] = "Waiting" /\ answer[c] = None)
  /\ astray = {} /\ Serving /\ stream = "Open" =>
       \A c \in Calls : call[c] = "Waiting" /\ answer[c] = None => InTransit(c)

ConnectionInv == TypeOK /\ SlotInv /\ PlaceInv /\ TurnInv
-----------------------------------------------------------------------------
\* Queues

(* A message appended is at the end, once if it was not there before.      *)
LEMMA AppendedOccurs ==
  ASSUME NEW S, NEW s \in Seq(S), NEW x \in S
  PROVE  /\ Append(s, x) \in Seq(S)
         /\ \A y : Occurs(y, Append(s, x)) <=> Occurs(y, s) \/ y = x
         /\ \A y : Once(y, s) /\ (y = x => ~Occurs(y, s)) => Once(y, Append(s, x))
<1>1. /\ Append(s, x) \in Seq(S)
      /\ Len(Append(s, x)) = Len(s) + 1
      /\ \A i \in 1..Len(s) : Append(s, x)[i] = s[i]
      /\ Append(s, x)[Len(s) + 1] = x
  BY AppendProperties
<1>2. Len(s) \in Nat
  BY LenProperties
<1>3. ASSUME NEW y
      PROVE  Occurs(y, Append(s, x)) <=> Occurs(y, s) \/ y = x
  BY <1>1, <1>2 DEF Occurs
<1>4. ASSUME NEW y, Once(y, s), y = x => ~Occurs(y, s)
      PROVE  Once(y, Append(s, x))
  BY <1>1, <1>2, <1>4 DEF Occurs, Once
<1> QED
  BY <1>1, <1>3, <1>4

(* A message taken from the front is gone if it was there once.            *)
LEMMA TakenOccurs ==
  ASSUME NEW S, NEW s \in Seq(S), s # <<>>
  PROVE  /\ Head(s) \in S /\ Tail(s) \in Seq(S)
         /\ \A y : Occurs(y, s) <=> Occurs(y, Tail(s)) \/ y = Head(s)
         /\ \A y : Once(y, s) => Once(y, Tail(s))
         /\ \A y : Once(y, s) /\ y = Head(s) => ~Occurs(y, Tail(s))
<1>1. /\ Head(s) \in S /\ Head(s) = s[1] /\ Tail(s) \in Seq(S)
      /\ Len(Tail(s)) = Len(s) - 1
      /\ \A i \in 1..Len(Tail(s)) : Tail(s)[i] = s[i + 1]
  BY HeadTailProperties
<1>2. Len(s) \in Nat /\ Len(s) # 0
  BY LenProperties, EmptySeq
<1>3. ASSUME NEW y
      PROVE  Occurs(y, s) <=> Occurs(y, Tail(s)) \/ y = Head(s)
  <2>1. ASSUME NEW i \in 1..Len(s), s[i] = y
        PROVE  Occurs(y, Tail(s)) \/ y = Head(s)
    <3>1. CASE i = 1
      BY <1>1, <2>1, <3>1
    <3>2. CASE i # 1
      <4>1. i - 1 \in 1..Len(Tail(s)) /\ Tail(s)[i - 1] = s[i]
        BY <1>1, <1>2, <3>2
      <4> QED
        BY <2>1, <4>1 DEF Occurs
    <3> QED
      BY <3>1, <3>2
  <2>2. Occurs(y, Tail(s)) => Occurs(y, s)
    BY <1>1, <1>2 DEF Occurs
  <2>3. y = Head(s) => Occurs(y, s)
    BY <1>1, <1>2 DEF Occurs
  <2> QED
    BY <2>1, <2>2, <2>3 DEF Occurs
<1>4. ASSUME NEW y, Once(y, s)
      PROVE  Once(y, Tail(s)) /\ (y = Head(s) => ~Occurs(y, Tail(s)))
  BY <1>1, <1>2, <1>4 DEF Occurs, Once
<1> QED
  BY <1>1, <1>3, <1>4
-----------------------------------------------------------------------------
\* Types

LEMMA TypeInit == Init => TypeOK
<1>1. <<>> \in Seq(Messages) /\ <<>> \in Seq(Calls \cup Asks)
  BY EmptySeq
<1> QED
  BY <1>1 DEF Init, TypeOK, SlotValues, None

LEMMA TypeStep ==
  ASSUME TypeOK, [Next]_vars
  PROVE  TypeOK'
<1> USE DEF TypeOK, SlotValues
<1>0. /\ \A n \in Notices : Notice(n) \in Messages
      /\ \A c \in Calls : Request(c) \in Messages
  BY DEF Notice, Request, Messages
<1>1. CASE UNCHANGED vars
  BY <1>1 DEF vars, slot, rpc, wire, peer, host
<1>2. ASSUME NEW n \in Notices, SendNotice(n)
      PROVE  TypeOK'
  BY <1>0, <1>2 DEF SendNotice, HandOver, slot, rpc, wire, peer
<1>3. CASE FailNonBlocking
  BY <1>3 DEF FailNonBlocking, slot, rpc, wire, peer
<1>4. ASSUME NEW c \in Calls, Refuse(c) \/ Register(c) \/ TakeError(c) \/ TimeOut(c)
      PROVE  TypeOK'
  BY <1>4 DEF Refuse, Register, TakeError, TimeOut, slot, wire, peer, host
<1>5. ASSUME NEW c \in Calls, SendRequest(c)
      PROVE  TypeOK'
  BY <1>0, <1>5 DEF SendRequest, HandOver, slot, wire, peer
<1>6. ASSUME NEW c \in Calls, TakeAnswer(c)
      PROVE  TypeOK'
  BY <1>6 DEF TakeAnswer, slot, wire, peer, host
<1>7. CASE Run \/ Notify \/ Close
  BY <1>7 DEF Run, Notify, Close, slot, rpc, wire, peer, host
<1>8. CASE LoopSends
  <2>1. PICK m \in senders :
          /\ senders' = senders \ {m}
          /\ toPlayer' \in {toPlayer, Append(toPlayer, m)}
    BY <1>8 DEF LoopSends
  <2>2. toPlayer' \in Seq(Messages)
    BY <2>1, AppendProperties
  <2> QED
    BY <1>8, <2>1, <2>2 DEF LoopSends, End, slot, rpc, peer
<1>9. CASE LoopReceives
  BY <1>9 DEF LoopReceives, End, slot, wire, peer
<1>10. CASE LoopEnds
  BY <1>10 DEF LoopEnds, End, slot, rpc, wire, peer
<1>11. CASE Receive
  <2>1. \/ /\ fromPlayer # <<>> /\ fromPlayer' = Tail(fromPlayer)
           /\ receiver' \in {"Gone", Head(fromPlayer)}
        \/ fromPlayer' = fromPlayer /\ receiver' \in {"Gone", "Err"}
    BY <1>11 DEF Receive
  <2>2. fromPlayer # <<>> =>
          Head(fromPlayer) \in Calls \cup Asks /\ Tail(fromPlayer) \in Seq(Calls \cup Asks)
    BY TakenOccurs
  <2>3. /\ fromPlayer' \in Seq(Calls \cup Asks)
        /\ receiver' \in Calls \cup Asks \cup {"Err", "Gone"}
    BY <2>1, <2>2
  <2> QED
    BY <1>11, <2>3 DEF Receive, slot, rpc, peer
<1>12. CASE PlayerReads
  <2>1. toPlayer # <<>> /\ toPlayer' = Tail(toPlayer)
    BY <1>12 DEF PlayerReads
  <2>2. toPlayer' \in Seq(Messages) /\ Head(toPlayer) \in Messages
    BY <2>1, HeadTailProperties
  <2> QED
    BY <1>12, <2>2 DEF PlayerReads, Messages, slot, rpc, host
<1>13. CASE PlayerSends
  <2>1. PICK c \in replies :
          replies' = replies \ {c} /\ fromPlayer' = Append(fromPlayer, c)
    BY <1>13 DEF PlayerSends
  <2>2. fromPlayer' \in Seq(Calls \cup Asks)
    BY <2>1, AppendProperties
  <2> QED
    BY <1>13, <2>1, <2>2 DEF PlayerSends, slot, rpc, host
<1>14. CASE PlayerAsks
  <2>1. fromPlayer' \in Seq(Calls \cup Asks)
    BY <1>14, AppendProperties DEF PlayerAsks
  <2> QED
    BY <1>14, <2>1 DEF PlayerAsks, slot, rpc, host
<1>15. CASE PlayerLeaves
  BY <1>15 DEF PlayerLeaves, slot, rpc, host
<1> QED
  BY <1>1, <1>2, <1>3, <1>4, <1>5, <1>6, <1>7, <1>8, <1>9, <1>10, <1>11, <1>12, <1>13,
     <1>14, <1>15 DEF Next, Step, Loop, Player, Rpc
-----------------------------------------------------------------------------
\* The two fields of a request

LEMMA SlotStep ==
  ASSUME TypeOK, SlotInv, [Next]_vars
  PROVE  SlotInv'
<1> USE DEF SlotInv, TypeOK, SlotValues
<1>0. None \notin Calls
  BY NoNameTwice DEF None
<1>1. CASE UNCHANGED <<slot, call, told, answer, astray>>
  BY <1>1 DEF slot
<1>2. ASSUME NEW c \in Calls, Refuse(c) \/ TakeAnswer(c) \/ TakeError(c) \/ TimeOut(c)
      PROVE  SlotInv'
  BY <1>2 DEF Refuse, TakeAnswer, TakeError, TimeOut, slot
<1>3. ASSUME NEW c \in Calls, Register(c)
      PROVE  SlotInv'
  <2>1. /\ valCh' = c /\ errCh' = c /\ call' = [call EXCEPT ![c] = "Registered"]
        /\ UNCHANGED <<answer, told>>
        /\ astray' =
             astray \cup ({valCh} \cap {d \in Calls : call[d] \in {"Registered", "Waiting"}})
    BY <1>3 DEF Register
  <2>2. ASSUME NEW d \in Calls \ {c}, call[d] \in {"Registered", "Waiting"},
               ~told[d], answer[d] = None
        PROVE  d \in astray'
    BY <1>0, <2>1, <2>2
  <2> QED
    BY <2>1, <2>2
<1>4. ASSUME NEW c \in Calls, SendRequest(c)
      PROVE  SlotInv'
  BY <1>4 DEF SendRequest, slot
<1>5. CASE LoopReceives
  <2>1. UNCHANGED <<call, told, astray>>
    BY <1>5 DEF LoopReceives
  <2>2. CASE receiver \in Calls /\ valCh # None /\ answer' = [answer EXCEPT ![valCh] = receiver]
             /\ valCh' = None /\ errCh' = None
    BY <1>0, <2>1, <2>2
  <2>3. CASE valCh = None /\ errCh' = None /\ UNCHANGED <<answer, valCh>>
    BY <1>0, <2>1, <2>3
  <2>4. CASE UNCHANGED <<answer, slot>>
    BY <2>1, <2>4 DEF slot
  <2> QED
    BY <1>5, <2>2, <2>3, <2>4 DEF LoopReceives, slot
<1>6. CASE Notify
  BY <1>0, <1>6 DEF Notify
<1>7. CASE \/ Run \/ LoopSends \/ LoopEnds \/ Close \/ Receive \/ Player
           \/ FailNonBlocking \/ \E n \in Notices : SendNotice(n)
  BY <1>1, <1>7 DEF Run, LoopSends, LoopEnds, Close, Receive, Player, PlayerReads,
                    PlayerSends, PlayerAsks, PlayerLeaves, FailNonBlocking, SendNotice, rpc
<1> QED
  BY <1>1, <1>2, <1>3, <1>4, <1>5, <1>6, <1>7 DEF Next, Step, Loop, Rpc, vars, rpc
-----------------------------------------------------------------------------
\* The way of a request and its answer

LEMMA SendingsDiffer ==
  /\ \A c \in Calls : Request(c) \in Sendings /\ Request(c).call = c
  /\ \A n \in Notices : Notice(n) \in Sendings
  /\ \A c, d \in Calls : Request(c) = Request(d) => c = d
  /\ \A n \in Notices, c \in Calls : Notice(n) # Request(c)
  /\ \A m \in Sendings : m.call # None => m.call \in Calls /\ m = Request(m.call)
<1>1. \A c \in Calls : c # None
  BY NoNameTwice DEF None
<1>2. /\ \A c : Request(c).call = c
      /\ \A n : Notice(n).call = None
  BY DEF Request, Notice
<1> QED
  BY <1>1, <1>2 DEF Sendings

LEMMA PlaceStep ==
  ASSUME TypeOK, PlaceInv, [Next]_vars
  PROVE  PlaceInv'
<1> USE DEF InTransit, Sent
<1>0. /\ call \in [Calls -> {"Idle", "Registered", "Waiting", "Answered", "Unmatched",
                             "Failed", "TimedOut", "Refused"}]
      /\ fromPlayer \in Seq(Calls \cup Asks)
      /\ replies \subseteq Calls
  BY DEF TypeOK
<1>i. /\ senders \subseteq Sendings /\ toPlayer \in Seq(Sendings)
      /\ \A c \in Calls :
           /\ InTransit(c) => Sent(c)
           /\ Once(Request(c), toPlayer) /\ Once(c, fromPlayer)
           /\ Request(c) \in senders =>
                ~Occurs(Request(c), toPlayer) /\ c \notin replies
                  /\ ~Occurs(c, fromPlayer) /\ receiver # c
           /\ Occurs(Request(c), toPlayer) =>
                c \notin replies /\ ~Occurs(c, fromPlayer) /\ receiver # c
           /\ c \in replies => ~Occurs(c, fromPlayer) /\ receiver # c
           /\ Occurs(c, fromPlayer) => receiver # c
  BY DEF PlaceInv
<1>n. /\ \A c \in Calls : c \notin {"Recv", "Err", "Gone"} \cup Asks
  BY NoNameTwice DEF Asks
<1>1. CASE UNCHANGED <<senders, toPlayer, replies, fromPlayer, receiver, call>>
  BY <1>1, <1>i DEF PlaceInv
<1>2. ASSUME NEW c \in Calls,
             Refuse(c) \/ Register(c) \/ TakeAnswer(c) \/ TakeError(c) \/ TimeOut(c)
      PROVE  PlaceInv'
  <2>1. /\ UNCHANGED <<senders, toPlayer, replies, fromPlayer, receiver>>
        /\ \A d \in Calls : Sent(d) => Sent(d)'
    BY <1>0, <1>2 DEF Refuse, Register, TakeAnswer, TakeError, TimeOut, wire, peer, host
  <2> QED
    BY <1>i, <2>1 DEF PlaceInv
<1>3. ASSUME NEW c \in Calls, SendRequest(c)
      PROVE  PlaceInv'
  <2>1. /\ UNCHANGED <<toPlayer, replies, fromPlayer, receiver>>
        /\ \A d \in Calls : Sent(d) => Sent(d)'
        /\ ~Sent(c) /\ Sent(c)'
        /\ senders' \in {senders, senders \cup {Request(c)}}
    BY <1>0, <1>3 DEF SendRequest, HandOver, wire, peer
  <2>2. /\ senders' \subseteq Sendings
        /\ \A d \in Calls : Request(d) \in senders' => Request(d) \in senders \/ d = c
    BY <1>i, <2>1, SendingsDiffer
  <2> QED
    BY <1>i, <2>1, <2>2 DEF PlaceInv
<1>4. ASSUME NEW n \in Notices, SendNotice(n)
      PROVE  PlaceInv'
  <2>1. /\ UNCHANGED <<toPlayer, replies, fromPlayer, receiver, call>>
        /\ senders' \in {senders, senders \cup {Notice(n)}}
    BY <1>4 DEF SendNotice, HandOver, rpc, wire, peer
  <2>2. /\ senders' \subseteq Sendings
        /\ \A d \in Calls : Request(d) \in senders' => Request(d) \in senders
    BY <1>i, <2>1, SendingsDiffer
  <2> QED
    BY <1>i, <2>1, <2>2 DEF PlaceInv
<1>5. CASE LoopSends
  <2>1. PICK m \in senders :
          /\ senders' = senders \ {m}
          /\ toPlayer' \in {toPlayer, Append(toPlayer, m)}
    BY <1>5 DEF LoopSends
  <2>2. UNCHANGED <<replies, fromPlayer, receiver, call>>
    BY <1>5 DEF LoopSends, rpc, peer
  <2>3. m \in Sendings
    BY <1>i, <2>1
  <2>4. /\ toPlayer' \in Seq(Sendings)
        /\ \A d \in Calls :
             Occurs(Request(d), toPlayer') => Occurs(Request(d), toPlayer) \/ Request(d) = m
        /\ \A d \in Calls : Once(Request(d), toPlayer')
    <3>1. CASE toPlayer' = toPlayer
      BY <1>i, <3>1
    <3>2. CASE toPlayer' = Append(toPlayer, m)
      <4>1. \A d \in Calls : m = Request(d) => ~Occurs(m, toPlayer)
        BY <1>i, <2>1
      <4>2. \A d \in Calls : Request(d) = m => ~Occurs(Request(d), toPlayer)
        BY <4>1
      <4> HIDE DEF InTransit, Sent
      <4> QED
        BY <1>i, <2>3, <3>2, <4>2, AppendedOccurs
    <3> QED
      BY <2>1, <3>1, <3>2
  <2> QED
    BY <1>i, <2>1, <2>2, <2>4 DEF PlaceInv
<1>6. CASE LoopReceives
  <2>1. UNCHANGED <<senders, toPlayer, replies, fromPlayer, call>> /\ receiver' = "Recv"
    BY <1>6 DEF LoopReceives, wire, peer
  <2> QED
    BY <1>i, <1>n, <2>1 DEF PlaceInv
<1>7. CASE LoopEnds
  <2>1. /\ UNCHANGED <<senders, toPlayer, replies, fromPlayer, call>>
        /\ receiver' \in {receiver, "Gone"}
    BY <1>7 DEF LoopEnds, rpc, wire, peer
  <2> QED
    BY <1>i, <1>n, <2>1 DEF PlaceInv
<1>8. CASE Receive
  <2>1. /\ UNCHANGED <<senders, toPlayer, replies, call>>
        /\ \/ /\ fromPlayer # <<>> /\ fromPlayer' = Tail(fromPlayer)
              /\ receiver' \in {"Gone", Head(fromPlayer)}
           \/ fromPlayer' = fromPlayer /\ receiver' \in {"Gone", "Err"}
    BY <1>8 DEF Receive, rpc, peer
  <2>2. CASE fromPlayer' = fromPlayer /\ receiver' \in {"Gone", "Err"}
    BY <1>i, <1>n, <2>1, <2>2 DEF PlaceInv
  <2>3. CASE /\ fromPlayer # <<>> /\ fromPlayer' = Tail(fromPlayer)
             /\ receiver' \in {"Gone", Head(fromPlayer)}
    <3>1. \A c \in Calls :
            /\ Once(c, fromPlayer')
            /\ Occurs(c, fromPlayer') => Occurs(c, fromPlayer) /\ receiver' # c
            /\ receiver' = c => Occurs(c, fromPlayer)
      BY <1>0, <1>i, <1>n, <2>3, TakenOccurs
    <3> QED
      BY <1>i, <2>1, <3>1 DEF PlaceInv
  <2> QED
    BY <2>1, <2>2, <2>3
<1>9. CASE PlayerReads
  <2>1. /\ toPlayer # <<>> /\ toPlayer' = Tail(toPlayer)
        /\ UNCHANGED <<senders, fromPlayer, receiver, call>>
        /\ \/ UNCHANGED replies
           \/ Head(toPlayer).call # None /\ replies' = replies \cup {Head(toPlayer).call}
    BY <1>9 DEF PlayerReads, rpc, host
  <2>2. /\ toPlayer' \in Seq(Sendings) /\ Head(toPlayer) \in Sendings
        /\ \A c \in Calls :
             /\ Once(Request(c), toPlayer')
             /\ Occurs(Request(c), toPlayer') => Occurs(Request(c), toPlayer)
             /\ Request(c) = Head(toPlayer) =>
                  Occurs(Request(c), toPlayer) /\ ~Occurs(Request(c), toPlayer')
    BY <1>i, <2>1, TakenOccurs
  <2>3. \A c \in Calls : c \in replies' => c \in replies \/ Request(c) = Head(toPlayer)
    BY <2>1, <2>2, SendingsDiffer
  <2> QED
    BY <1>i, <2>1, <2>2, <2>3 DEF PlaceInv
<1>10. CASE PlayerSends
  <2>1. PICK c \in replies :
          replies' = replies \ {c} /\ fromPlayer' = Append(fromPlayer, c)
    BY <1>10 DEF PlayerSends
  <2>2. UNCHANGED <<senders, toPlayer, receiver, call>>
    BY <1>10 DEF PlayerSends, rpc, host
  <2>3. \A d \in Calls :
          /\ Occurs(d, fromPlayer') <=> Occurs(d, fromPlayer) \/ d = c
          /\ Once(d, fromPlayer')
    BY <1>0, <1>i, <2>1, AppendedOccurs
  <2> QED
    BY <1>0, <1>i, <2>1, <2>2, <2>3 DEF PlaceInv
<1>11. CASE PlayerAsks
  <2>1. PICK m \in Asks : fromPlayer' = Append(fromPlayer, m)
    BY <1>11 DEF PlayerAsks
  <2>2. UNCHANGED <<senders, toPlayer, replies, receiver, call>>
    BY <1>11 DEF PlayerAsks, rpc, host
  <2>3. \A d \in Calls :
          /\ Occurs(d, fromPlayer') <=> Occurs(d, fromPlayer)
          /\ Once(d, fromPlayer')
    BY <1>0, <1>i, <1>n, <2>1, AppendedOccurs
  <2> QED
    BY <1>i, <2>2, <2>3 DEF PlaceInv
<1>12. CASE Run \/ Notify \/ Close \/ PlayerLeaves \/ FailNonBlocking \/ UNCHANGED vars
  BY <1>1, <1>12 DEF Run, Notify, Close, PlayerLeaves, FailNonBlocking, rpc, wire, peer,
                     host, vars
<1> QED
  BY <1>2, <1>3, <1>4, <1>5, <1>6, <1>7, <1>8, <1>9, <1>10, <1>11, <1>12
     DEF Next, Step, Loop, Player, Rpc
-----------------------------------------------------------------------------
\* One call at a time

\* A call gets on its way by being sent, and while the stream is up it only
\* leaves it by being given to the call noted.
LEMMA TransitStep ==
  ASSUME TypeOK, PlaceInv, [Next]_vars, NEW d \in Calls
  PROVE  /\ InTransit(d)' => InTransit(d) \/ SendRequest(d)
         /\ SendRequest(d) /\ Serving => InTransit(d)'
         /\ InTransit(d) /\ Serving' /\ stream' = "Open" =>
              InTransit(d)' \/ (LoopReceives /\ receiver = d)
<1> USE DEF InTransit
<1>0. /\ fromPlayer \in Seq(Calls \cup Asks) /\ replies \subseteq Calls
      /\ senders \subseteq Sendings /\ toPlayer \in Seq(Sendings)
      /\ stream \in {"Open", "Broken"}
  BY DEF TypeOK, PlaceInv
<1>n. d \notin {"Recv", "Err", "Gone"} \cup Asks
  BY NoNameTwice DEF Asks
<1>s. SendRequest(d) /\ Serving => InTransit(d)'
  BY SendingsDiffer DEF SendRequest, HandOver, Closed, Serving
<1> SUFFICES /\ InTransit(d)' => InTransit(d) \/ SendRequest(d)
             /\ InTransit(d) /\ Serving' /\ stream' = "Open" =>
                  InTransit(d)' \/ (LoopReceives /\ receiver = d)
  BY <1>s
<1>1. CASE UNCHANGED <<senders, toPlayer, replies, fromPlayer, receiver>>
  BY <1>1
<1>2. ASSUME NEW c \in Calls, SendRequest(c)
      PROVE  /\ InTransit(d)' => InTransit(d) \/ c = d
             /\ InTransit(d) => InTransit(d)'
  <2>1. /\ UNCHANGED <<toPlayer, replies, fromPlayer, receiver>>
        /\ senders' \in {senders, senders \cup {Request(c)}}
    BY <1>2 DEF SendRequest, HandOver, wire, peer
  <2> QED
    BY <2>1, SendingsDiffer
<1>3. ASSUME NEW n \in Notices, SendNotice(n)
      PROVE  /\ InTransit(d)' => InTransit(d)
             /\ InTransit(d) => InTransit(d)'
  <2>1. /\ UNCHANGED <<toPlayer, replies, fromPlayer, receiver>>
        /\ senders' \in {senders, senders \cup {Notice(n)}}
    BY <1>3 DEF SendNotice, HandOver, wire, peer
  <2> QED
    BY <2>1, SendingsDiffer
<1>4. CASE LoopSends
  <2>1. PICK m \in senders :
          /\ senders' = senders \ {m}
          /\ \/ toPlayer' = Append(toPlayer, m)
             \/ toPlayer' = toPlayer /\ stream' # "Open"
    BY <1>4 DEF LoopSends
  <2>2. UNCHANGED <<replies, fromPlayer, receiver>>
    BY <1>4 DEF LoopSends, peer
  <2>3. m \in Sendings
    BY <1>0, <2>1
  <2>4. CASE toPlayer' = Append(toPlayer, m)
    <3>1. Occurs(Request(d), toPlayer') <=> Occurs(Request(d), toPlayer) \/ Request(d) = m
      BY <1>0, <2>3, <2>4, AppendedOccurs
    <3> QED
      BY <2>1, <2>2, <3>1
  <2>5. CASE toPlayer' = toPlayer /\ stream' # "Open"
    BY <2>1, <2>2, <2>5
  <2> QED
    BY <2>1, <2>4, <2>5
<1>5. CASE LoopReceives
  <2>1. UNCHANGED <<senders, toPlayer, replies, fromPlayer>> /\ receiver' = "Recv"
    BY <1>5 DEF LoopReceives, wire, peer
  <2> QED
    BY <1>5, <1>n, <2>1
<1>6. CASE LoopEnds
  <2>1. /\ UNCHANGED <<senders, toPlayer, replies, fromPlayer>>
        /\ receiver' = receiver \/ (receiver = "Err" /\ receiver' = "Gone")
    BY <1>6 DEF LoopEnds, wire, peer
  <2> QED
    BY <1>n, <1>6, <2>1 DEF LoopEnds, End, Serving
<1>7. CASE Receive
  <2>1. /\ UNCHANGED <<senders, toPlayer, replies, loop>> /\ receiver = "Recv"
        /\ \/ /\ fromPlayer # <<>> /\ fromPlayer' = Tail(fromPlayer)
              /\ receiver' = IF Closed THEN "Gone" ELSE Head(fromPlayer)
           \/ fromPlayer' = fromPlayer /\ receiver' \in {"Gone", "Err"}
    BY <1>7 DEF Receive, peer
  <2>2. Serving' => ~Closed
    BY <2>1 DEF Serving, Closed
  <2>3. CASE fromPlayer' = fromPlayer /\ receiver' \in {"Gone", "Err"}
    BY <1>n, <2>1, <2>3
  <2>4. CASE /\ fromPlayer # <<>> /\ fromPlayer' = Tail(fromPlayer)
             /\ receiver' = IF Closed THEN "Gone" ELSE Head(fromPlayer)
    <3>1. Occurs(d, fromPlayer) <=> Occurs(d, fromPlayer') \/ d = Head(fromPlayer)
      BY <1>0, <2>4, TakenOccurs
    <3> QED
      BY <1>n, <2>1, <2>2, <2>4, <3>1
  <2> QED
    BY <2>1, <2>3, <2>4
<1>8. CASE PlayerReads
  <2>1. /\ toPlayer # <<>> /\ toPlayer' = Tail(toPlayer)
        /\ UNCHANGED <<senders, fromPlayer, receiver>>
        /\ \/ Head(toPlayer).notice # None /\ UNCHANGED replies
           \/ Head(toPlayer).call # None /\ replies' = replies \cup {Head(toPlayer).call}
           \/ stream' = "Broken" /\ UNCHANGED replies
    BY <1>8 DEF PlayerReads, host
  <2>2. /\ Head(toPlayer) \in Sendings
        /\ Occurs(Request(d), toPlayer) <=>
             Occurs(Request(d), toPlayer') \/ Request(d) = Head(toPlayer)
    BY <1>0, <2>1, TakenOccurs
  <2>3. Request(d) = Head(toPlayer) =>
          Head(toPlayer).call = d /\ Head(toPlayer).notice = None
    BY DEF Request
  <2>4. Head(toPlayer).call # None => Head(toPlayer) = Request(Head(toPlayer).call)
    BY <2>2, SendingsDiffer
  <2> QED
    BY <2>1, <2>2, <2>3, <2>4
<1>9. CASE PlayerSends
  <2>1. PICK c \in replies :
          replies' = replies \ {c} /\ fromPlayer' = Append(fromPlayer, c)
    BY <1>9 DEF PlayerSends
  <2>2. UNCHANGED <<senders, toPlayer, receiver>>
    BY <1>9 DEF PlayerSends, host
  <2>3. Occurs(d, fromPlayer') <=> Occurs(d, fromPlayer) \/ d = c
    BY <1>0, <2>1, AppendedOccurs
  <2> QED
    BY <2>1, <2>2, <2>3
<1>10. CASE PlayerAsks
  <2>1. PICK m \in Asks : fromPlayer' = Append(fromPlayer, m)
    BY <1>10 DEF PlayerAsks
  <2>2. UNCHANGED <<senders, toPlayer, replies, receiver>>
    BY <1>10 DEF PlayerAsks, host
  <2>3. Occurs(d, fromPlayer') <=> Occurs(d, fromPlayer)
    BY <1>0, <1>n, <2>1, AppendedOccurs
  <2> QED
    BY <2>2, <2>3
<1>11. ASSUME NEW c \in Calls,
              Refuse(c) \/ Register(c) \/ TakeAnswer(c) \/ TakeError(c) \/ TimeOut(c)
       PROVE  UNCHANGED <<senders, toPlayer, replies, fromPlayer, receiver>>
  BY <1>11 DEF Refuse, Register, TakeAnswer, TakeError, TimeOut, wire, peer, host
<1>12. CASE Run \/ Notify \/ Close \/ PlayerLeaves \/ FailNonBlocking \/ UNCHANGED vars
  BY <1>12 DEF Run, Notify, Close, PlayerLeaves, FailNonBlocking, wire, peer, host, vars
<1> QED
  BY <1>1, <1>2, <1>3, <1>4, <1>5, <1>6, <1>7, <1>8, <1>9, <1>10, <1>11, <1>12
     DEF Next, Step, Loop, Player, Rpc

\* What no step undoes.
LEMMA OnlyOnwards ==
  ASSUME TypeOK, [Next]_vars
  PROVE  /\ astray \subseteq astray'
         /\ Serving' => Serving /\ told' = told
         /\ stream' = "Open" => stream = "Open"
<1> USE DEF Serving, slot, rpc, wire, peer, host
<1>1. ASSUME NEW c \in Calls, Rpc(c)
      PROVE  astray \subseteq astray' /\ UNCHANGED <<loop, told, stream>>
  BY <1>1 DEF Rpc, Refuse, Register, SendRequest, TakeAnswer, TakeError, TimeOut
<1>2. CASE Run \/ Notify \/ Close
  BY <1>2 DEF Run, Notify, Close
<1>3. CASE LoopSends \/ LoopReceives \/ LoopEnds
  BY <1>3 DEF LoopSends, LoopReceives, LoopEnds, End
<1>4. CASE \/ Receive \/ Player \/ FailNonBlocking
           \/ (\E n \in Notices : SendNotice(n)) \/ UNCHANGED vars
  BY <1>4 DEF Receive, Player, PlayerReads, PlayerSends, PlayerAsks, PlayerLeaves,
              FailNonBlocking, SendNotice, vars
<1> QED
  BY <1>1, <1>2, <1>3, <1>4 DEF Next, Step, Loop

LEMMA TurnStep ==
  ASSUME TypeOK, PlaceInv, TurnInv, [Next]_vars
  PROVE  TurnInv'
<1> USE DEF TurnInv, Sent
<1>0. /\ \A c \in Calls : c # None
      /\ call \in [Calls -> {"Idle", "Registered", "Waiting", "Answered", "Unmatched",
                             "Failed", "TimedOut", "Refused"}]
      /\ answer \in [Calls -> SlotValues] /\ got \in [Calls -> SlotValues]
      /\ valCh \in SlotValues
  BY NoNameTwice DEF TypeOK, None
<1>o. /\ astray' = {} => astray = {}
      /\ Serving' => Serving /\ told' = told
      /\ stream' = "Open" => stream = "Open"
  BY OnlyOnwards
<1>t. /\ \A c \in Calls : InTransit(c)' => InTransit(c) \/ SendRequest(c)
      /\ \A c \in Calls : SendRequest(c) /\ Serving => InTransit(c)'
      /\ \A c \in Calls : InTransit(c) /\ Serving' /\ stream' = "Open" =>
           InTransit(c)' \/ (LoopReceives /\ receiver = c)
  BY TransitStep
<1>1. ASSUME NEW c \in Calls, Refuse(c)
      PROVE  TurnInv'
  <2>1. /\ call[c] = "Idle" /\ call' = [call EXCEPT ![c] = "Refused"]
        /\ UNCHANGED <<cause, valCh, answer, got>>
        /\ ~LoopReceives /\ \A d \in Calls : ~SendRequest(d)
    BY <1>0, <1>1 DEF Refuse, slot, LoopReceives, SendRequest, host
  <2> QED
    BY <1>0, <1>o, <1>t, <2>1
<1>2. ASSUME NEW c \in Calls, Register(c)
      PROVE  TurnInv'
  <2>1. /\ call[c] = "Idle" /\ call' = [call EXCEPT ![c] = "Registered"]
        /\ UNCHANGED <<cause, answer, got>> /\ valCh' = c
        /\ ~LoopReceives /\ \A d \in Calls : ~SendRequest(d)
    BY <1>0, <1>2 DEF Register, LoopReceives, SendRequest, host
  <2>2. astray' = {} => \A d \in Calls : valCh = d => call[d] \notin {"Registered", "Waiting"}
    BY <1>2 DEF Register
  <2>3. astray' = {} /\ Serving' =>
          \A d \in Calls : valCh # d /\ ~InTransit(d)
    BY <1>o, <2>2
  <2> QED
    BY <1>0, <1>o, <1>t, <2>1, <2>3
<1>3. ASSUME NEW c \in Calls, SendRequest(c)
      PROVE  TurnInv'
  <2>1. /\ call[c] = "Registered" /\ call' = [call EXCEPT ![c] = "Waiting"]
        /\ UNCHANGED <<cause, valCh, answer, got>>
        /\ ~LoopReceives
    BY <1>0, <1>3 DEF SendRequest, slot, LoopReceives
  <2>2. \A d \in Calls \ {c} : ~SendRequest(d)
    BY <1>0, <2>1 DEF SendRequest
  <2> QED
    BY <1>0, <1>3, <1>o, <1>t, <2>1, <2>2
<1>4. ASSUME NEW c \in Calls, TakeAnswer(c)
      PROVE  TurnInv'
  <2>1. /\ call[c] = "Waiting" /\ answer[c] # None
        /\ call' \in {[call EXCEPT ![c] = "Answered"], [call EXCEPT ![c] = "Unmatched"]}
        /\ answer' = [answer EXCEPT ![c] = None] /\ got' = [got EXCEPT ![c] = answer[c]]
        /\ UNCHANGED <<cause, valCh>>
        /\ ~LoopReceives /\ \A d \in Calls : ~SendRequest(d)
    BY <1>0, <1>4 DEF TakeAnswer, slot, LoopReceives, SendRequest, host
  <2> QED
    BY <1>0, <1>o, <1>t, <2>1
<1>5. ASSUME NEW c \in Calls, TakeError(c)
      PROVE  TurnInv'
  <2>1. /\ call[c] = "Waiting" /\ told[c] /\ call' = [call EXCEPT ![c] = "Failed"]
        /\ UNCHANGED <<cause, valCh, answer, got>>
    BY <1>0, <1>5 DEF TakeError, slot
  <2>2. ~Serving'
    BY <1>o, <2>1
  <2> QED
    BY <1>0, <1>o, <2>1, <2>2
<1>6. ASSUME NEW c \in Calls, TimeOut(c)
      PROVE  TurnInv'
  <2>1. /\ call[c] = "Waiting" /\ call' = [call EXCEPT ![c] = "TimedOut"]
        /\ UNCHANGED <<cause, valCh, answer, got>>
        /\ astray' = {} => answer[c] # None
        /\ ~LoopReceives /\ \A d \in Calls : ~SendRequest(d)
    BY <1>0, <1>6 DEF TimeOut, slot, LoopReceives, SendRequest, host
  <2> QED
    BY <1>0, <1>o, <1>t, <2>1
<1>7. CASE LoopReceives
  <2>1. /\ Serving /\ receiver \in Calls \cup Asks /\ receiver' = "Recv"
        /\ UNCHANGED <<call, got>>
        /\ \A d \in Calls : ~SendRequest(d)
    BY <1>0, <1>7 DEF LoopReceives, Serving, SendRequest
  <2>2. CASE /\ receiver \in Calls /\ valCh # None /\ valCh' = None
             /\ answer' = [answer EXCEPT ![valCh] = receiver] /\ UNCHANGED cause
    <3>1. valCh \in Calls
      BY <1>0, <2>2 DEF SlotValues
    <3>2. astray = {} => InTransit(receiver) /\ receiver = valCh
      BY <2>1, <2>2 DEF InTransit
    <3>3. astray = {} => Sent(valCh)
      BY <2>2, <3>2 DEF PlaceInv
    <3>4. \A d \in Calls : InTransit(d)' => InTransit(d) /\ d # receiver
      <4>1. UNCHANGED <<senders, toPlayer, replies, fromPlayer>>
        BY <1>7 DEF LoopReceives, wire, peer
      <4>2. \A d \in Calls : d # "Recv"
        BY NoNameTwice
      <4> QED
        BY <2>1, <2>2, <4>1, <4>2 DEF InTransit, PlaceInv
    <3> QED
      BY <1>0, <1>o, <1>t, <2>1, <2>2, <3>1, <3>2, <3>3, <3>4
  <2>3. CASE receiver \in Calls /\ valCh = None
    <3>1. astray # {}
      BY <1>0, <2>1, <2>3 DEF InTransit
    <3> QED
      BY <1>o, <2>1, <3>1
  <2>4. CASE UNCHANGED <<answer, valCh>> /\ cause' # "NoRequest" /\ receiver \notin Calls
    BY <1>0, <1>o, <1>t, <2>1, <2>4
  <2>5. CASE UNCHANGED <<answer, valCh, cause>> /\ receiver \notin Calls
    BY <1>0, <1>o, <1>t, <2>1, <2>5
  <2> QED
    BY <1>7, <2>2, <2>3, <2>4, <2>5, NoNameTwice DEF LoopReceives, End, slot, Asks
<1>8. CASE /\ UNCHANGED <<call, answer, got, valCh>>
           /\ cause' = cause \/ cause' # "NoRequest"
           /\ ~LoopReceives
  <2>1. \A d \in Calls : ~SendRequest(d)
    BY <1>0, <1>8 DEF SendRequest
  <2> QED
    BY <1>0, <1>8, <1>o, <1>t, <2>1
<1>9. CASE LoopReceives \/ Run \/ LoopSends \/ LoopEnds \/ Notify \/ Close
  BY <1>7, <1>8, <1>9 DEF Run, LoopSends, LoopEnds, End, Notify, Close, slot, rpc
<1>10. CASE \/ Receive \/ Player \/ FailNonBlocking
            \/ (\E n \in Notices : SendNotice(n)) \/ UNCHANGED vars
  <2>1. UNCHANGED <<call, answer, got, valCh, cause>>
    BY <1>10 DEF Receive, Player, PlayerReads, PlayerSends, PlayerAsks, PlayerLeaves,
                 FailNonBlocking, SendNotice, vars, slot, rpc
  <2> QED
    BY <1>7, <1>8, <2>1
<1> QED
  BY <1>1, <1>2, <1>3, <1>4, <1>5, <1>6, <1>9, <1>10 DEF Next, Step, Loop, Rpc
-----------------------------------------------------------------------------
\* The inductive invariant

LEMMA ConnectionInit == Init => ConnectionInv
<1> SUFFICES ASSUME Init PROVE ConnectionInv
  OBVIOUS
<1>1. TypeOK
  BY TypeInit
<1>2. SlotInv
  BY DEF Init, SlotInv
<1>3. Len(<<>>) = 0 /\ <<>> \in Seq(Sendings)
  BY EmptySeq
<1>4. \A x : ~Occurs(x, <<>>) /\ Once(x, <<>>)
  BY <1>3 DEF Occurs, Once
<1>5. \A c \in Calls : ~InTransit(c)
  BY <1>4, NoNameTwice DEF Init, InTransit
<1>6. PlaceInv
  BY <1>3, <1>4, <1>5 DEF Init, PlaceInv, InTransit
<1>7. TurnInv
  BY <1>5, NoNameTwice DEF Init, TurnInv, None
<1> QED
  BY <1>1, <1>2, <1>6, <1>7 DEF ConnectionInv

LEMMA ConnectionInvariant == Spec => []ConnectionInv
<1>1. ConnectionInv /\ [Next]_vars => ConnectionInv'
  BY TypeStep, SlotStep, PlaceStep, TurnStep DEF ConnectionInv
<1> QED
  BY ConnectionInit, <1>1, PTL DEF Spec
-----------------------------------------------------------------------------
\* What the stream keeps

(* Every field of the connection keeps to its type.                        *)
THEOREM TypeCorrect == Spec => []TypeOK
<1>1. ConnectionInv => TypeOK
  BY DEF ConnectionInv
<1> QED
  BY <1>1, ConnectionInvariant, PTL

(* As long as no call has lost its place, by a timeout, a cancellation or  *)
(* a second call, every answer reaches the call it answers and no player   *)
(* is dropped for an answer nobody asked for.                              *)
THEOREM AnswersReachTheirCalls == Spec => []OneCallAtATime
<1>1. ConnectionInv => OneCallAtATime
  BY DEF ConnectionInv, TurnInv, OneCallAtATime
<1> QED
  BY <1>1, ConnectionInvariant, PTL

(* Whoever waits on a connection that has ended has been told, unless it   *)
(* came too late or had lost its place.                                    *)
THEOREM NobodyIsLeftWaiting == Spec => []NobodyLeftWaiting
<1>1. ConnectionInv => NobodyLeftWaiting
  BY DEF ConnectionInv, SlotInv, NobodyLeftWaiting
<1> QED
  BY <1>1, ConnectionInvariant, PTL

LEMMA AtMostOne ==
  ASSUME NEW S, \A x, y \in S : x = y
  PROVE  Cardinality(S) = IF S = {} THEN 0 ELSE 1
<1>1. CASE S = {}
  BY <1>1, FS_EmptySet
<1>2. ASSUME NEW x \in S
      PROVE  Cardinality(S) = 1
  <2>1. S = {x}
    BY <1>2
  <2> QED
    BY <2>1, FS_Singleton
<1> QED
  BY <1>1, <1>2

\* The places of a call hold it once or not at all.
LEMMA EachPlaceOnce ==
  ASSUME ConnectionInv, NEW c \in Calls
  PROVE  /\ Cardinality({m \in senders : m.call = c}) =
              IF Request(c) \in senders THEN 1 ELSE 0
         /\ Cardinality({i \in 1..Len(toPlayer) : toPlayer[i].call = c}) =
              IF Occurs(Request(c), toPlayer) THEN 1 ELSE 0
         /\ Cardinality({c} \cap replies) = IF c \in replies THEN 1 ELSE 0
         /\ Cardinality({i \in 1..Len(fromPlayer) : fromPlayer[i] = c}) =
              IF Occurs(c, fromPlayer) THEN 1 ELSE 0
         /\ Cardinality({c} \cap {receiver}) = IF receiver = c THEN 1 ELSE 0
<1>0. /\ senders \subseteq Sendings /\ toPlayer \in Seq(Sendings)
      /\ Once(Request(c), toPlayer) /\ Once(c, fromPlayer)
  BY DEF ConnectionInv, PlaceInv
<1>1. \A m \in Sendings : m.call = c <=> m = Request(c)
  BY SendingsDiffer, NoNameTwice DEF None
<1>2. \A i \in 1..Len(toPlayer) : toPlayer[i] \in Sendings
  BY <1>0, ElementOfSeq
<1> DEFINE A == {m \in senders : m.call = c}
           B == {i \in 1..Len(toPlayer) : toPlayer[i].call = c}
           D == {i \in 1..Len(fromPlayer) : fromPlayer[i] = c}
<1>3. (\A x, y \in A : x = y) /\ (A = {} <=> Request(c) \notin senders)
  BY <1>0, <1>1
<1>4. (\A i, j \in B : i = j) /\ (B = {} <=> ~Occurs(Request(c), toPlayer))
  BY <1>0, <1>1, <1>2 DEF Occurs, Once
<1>5. (\A i, j \in D : i = j) /\ (D = {} <=> ~Occurs(c, fromPlayer))
  BY <1>0 DEF Occurs, Once
<1>6. Cardinality(A) = IF Request(c) \in senders THEN 1 ELSE 0
  BY <1>3, AtMostOne
<1>7. Cardinality(B) = IF Occurs(Request(c), toPlayer) THEN 1 ELSE 0
  BY <1>4, AtMostOne
<1>8. Cardinality(D) = IF Occurs(c, fromPlayer) THEN 1 ELSE 0
  BY <1>5, AtMostOne
<1>9. Cardinality({c} \cap replies) = IF c \in replies THEN 1 ELSE 0
  BY AtMostOne
<1>10. Cardinality({c} \cap {receiver}) = IF receiver = c THEN 1 ELSE 0
  BY AtMostOne
<1> QED
  BY <1>6, <1>7, <1>8, <1>9, <1>10

(* While the stream is up a call that waits in its own place is on its way *)
(* there or back, exactly once, and the fields are its own until the       *)
(* answer is in its channel.                                               *)
THEOREM CallsAreSomewhere == Spec => []CallIsSomewhere
<1>1. ASSUME ConnectionInv, loop = "Select", stream = "Open", astray = {},
             NEW c \in Calls, call[c] = "Waiting"
      PROVE  Copies(c) = 1 /\ ((valCh = c) <=> (answer[c] = None))
  <2>0. c # None /\ Serving
    BY <1>1, NoNameTwice DEF None, Serving
  <2>1. /\ \A d \in Calls : answer[d] \in {None, d}
        /\ InTransit(c) => valCh = c
        /\ valCh = c <=> answer[c] = None
        /\ answer[c] = None => InTransit(c)
    BY <1>1, <2>0 DEF ConnectionInv, TurnInv
  <2> DEFINE F == {d \in Calls : answer[d] = c}
  <2>2. (\A x, y \in F : x = y) /\ (F = {} <=> answer[c] = None)
    BY <2>0, <2>1
  <2>3. Cardinality(F) = IF InTransit(c) THEN 0 ELSE 1
    BY <2>1, <2>2, AtMostOne
  <2> HIDE DEF F
  <2>4. /\ InTransit(c) <=>
             \/ Request(c) \in senders \/ Occurs(Request(c), toPlayer) \/ c \in replies
             \/ Occurs(c, fromPlayer) \/ receiver = c
        /\ Request(c) \in senders =>
             ~Occurs(Request(c), toPlayer) /\ c \notin replies
               /\ ~Occurs(c, fromPlayer) /\ receiver # c
        /\ Occurs(Request(c), toPlayer) =>
             c \notin replies /\ ~Occurs(c, fromPlayer) /\ receiver # c
        /\ c \in replies => ~Occurs(c, fromPlayer) /\ receiver # c
        /\ Occurs(c, fromPlayer) => receiver # c
    BY <1>1 DEF ConnectionInv, PlaceInv, InTransit
  <2>5. Copies(c) =
          (IF Request(c) \in senders THEN 1 ELSE 0)
          + (IF Occurs(Request(c), toPlayer) THEN 1 ELSE 0)
          + (IF c \in replies THEN 1 ELSE 0)
          + (IF Occurs(c, fromPlayer) THEN 1 ELSE 0)
          + (IF receiver = c THEN 1 ELSE 0)
          + Cardinality(F)
    BY <1>1, EachPlaceOnce DEF Copies, F
  <2>6. Copies(c) = 1
    BY <2>3, <2>4, <2>5
  <2> QED
    BY <2>1, <2>6
<1>2. ConnectionInv => CallIsSomewhere
  BY <1>1 DEF CallIsSomewhere
<1> QED
  BY <1>2, ConnectionInvariant, PTL
=============================================================================
