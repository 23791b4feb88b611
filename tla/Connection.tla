----------------------------- MODULE Connection -----------------------------
(***************************************************************************)
(* The stream between the host and one player: client.Run and doRPC of     *)
(* host/client on one side, the loop of player/client on the other.        *)
(*                                                                         *)
(* On the host many goroutines hand messages to one loop.  SendNonBlocking *)
(* and FailNonBlocking start a goroutine that blocks on an unbuffered      *)
(* channel (senders, failers), a goroutine of its own receives from the    *)
(* stream (receiver), and a request notes in two fields, valCh and errCh,  *)
(* where its answer is to go.  A request carries nothing that its answer   *)
(* could be matched by but its kind.                                       *)
(*                                                                         *)
(* The player's loop handles one message after the other; its answers      *)
(* leave through goroutines too.                                           *)
(***************************************************************************)
EXTENDS Naturals, Sequences, FiniteSets

CONSTANTS
  Calls,      \* the requests the host makes of this player
  Kind,       \* what each of them asks for
  Notices,    \* the other messages of the host: events, chat, updates
  MaxFails,   \* bound on the uses of FailNonBlocking
  MaxAsks     \* bound on the messages the player sends of its own accord

Kinds == {"Join", "GameStart", "GameEnd", "HandStart", "HandEnd", "Shuffle",
          "ChooseColor", "GetDeckTopKey", "GiveDeckTop", "Play", "Challenge",
          "Reveal", "Revealed"}

ASSUME KindAssumption == Kind \in [Calls -> Kinds]
ASSUME BoundsAssumption == MaxFails \in Nat /\ MaxAsks \in Nat
ASSUME NoNameTwice ==
  /\ Calls \cap Notices = {}
  /\ (Calls \cup Notices) \cap {"none", "Ask", "Unknown", "Recv", "Err", "Gone"} = {}

None == "none"

\* hostMessageFromPlayerRequest, sendRPCResponse and
\* playerResponseFromMatchingRequest each list the kinds they know.
Sendable == Kinds \ {"GameEnd", "HandEnd"}
Answerable == Kinds \ {"GameEnd", "HandEnd", "Shuffle"}
Matchable == Kinds \ {"GameEnd", "HandEnd", "GetDeckTopKey", "GiveDeckTop"}

VARIABLES
  loop,        \* the goroutine of Run: "New", "Select", "Notify", "Close", "Returned"
  cause,       \* why the loop ended
  senders,     \* messages whose goroutines are blocked on sendCh
  failers,     \* number of goroutines blocked on terminatingErrCh
  receiver,    \* "Recv", the message it is handing over, "Err", "Gone"
  valCh,       \* receivedRespValCh: the call whose channel it is
  errCh,       \* receivedRespErrCh
  call,        \* how far each doRPC is
  answer,      \* contents of each call's respValCh: the call answered
  told,        \* whether each call's respErrCh has an error
  got,         \* whose answer a call that is "Answered" returned
  crash,       \* the goroutine that wrote to a closed channel
  stream,      \* "Open" or "Broken"
  toPlayer, fromPlayer,   \* messages in the stream
  replies,     \* answers whose goroutines are blocked in the player's client
  player,      \* the player's loop: "On" or "Off"
  asks, fails, \* how often the bounds have been used
  sent,        \* history: notices handed over
  astray       \* history: calls whose answer nobody waits for any more

slot == <<valCh, errCh>>
rpc == <<call, answer, told, got, astray>>
wire == <<stream, toPlayer, fromPlayer>>
peer == <<replies, player, asks>>
host == <<senders, failers, receiver, fails, sent>>
vars == <<loop, cause, crash, slot, rpc, wire, peer, host>>

Notice(n) == [notice |-> n, call |-> None]
Request(c) == [notice |-> None, call |-> c]

\* What a player sends: an answer, a chat message or a wish to join, or a
\* message the host does not know.
Asks == {"Ask", "Unknown"}
-----------------------------------------------------------------------------
Init ==
  /\ loop = "New" /\ cause = None /\ crash = None
  /\ senders = {} /\ failers = 0 /\ receiver = "Recv" /\ fails = 0 /\ sent = {}
  /\ valCh = None /\ errCh = None
  /\ call = [c \in Calls |-> "Idle"]
  /\ answer = [c \in Calls |-> None]
  /\ told = [c \in Calls |-> FALSE]
  /\ got = [c \in Calls |-> None]
  /\ astray = {}
  /\ stream = "Open" /\ toPlayer = <<>> /\ fromPlayer = <<>>
  /\ replies = {} /\ player = "On" /\ asks = 0

Running == loop # "New"
Closed == loop = "Returned"

(* A goroutine writes to sendCh: it waits for the loop, or panics when the *)
(* channel has been closed.                                                *)
HandOver(m) ==
  IF Closed
    THEN crash' = "Sender" /\ UNCHANGED senders
    ELSE senders' = senders \cup {m} /\ UNCHANGED crash

(* SendNonBlocking of an event, a chat message or an update of players.    *)
SendNotice(n) ==
  /\ Running
  /\ n \notin sent
  /\ sent' = sent \cup {n}
  /\ HandOver(Notice(n))
  /\ UNCHANGED <<loop, cause, slot, rpc, wire, peer, failers, receiver, fails>>

(* FailNonBlocking, by a handler or for the player a GameError blames.     *)
FailNonBlocking ==
  /\ Running
  /\ fails < MaxFails
  /\ fails' = fails + 1
  /\ IF Closed
       THEN crash' = "Failer" /\ UNCHANGED failers
       ELSE failers' = failers + 1 /\ UNCHANGED crash
  /\ UNCHANGED <<loop, cause, slot, rpc, wire, peer, senders, receiver, sent>>
-----------------------------------------------------------------------------
\* doRPC: note where the answer goes, send, wait

Refuse(c) ==
  /\ call[c] = "Idle"
  /\ ~Running \/ Kind[c] \notin Sendable
  /\ call' = [call EXCEPT ![c] = "Refused"]
  /\ UNCHANGED <<loop, cause, crash, slot, answer, told, got, astray, wire, peer, host>>

(* A call that still waits for its answer loses its place.                 *)
Register(c) ==
  /\ call[c] = "Idle"
  /\ Running /\ Kind[c] \in Sendable
  /\ call' = [call EXCEPT ![c] = "Registered"]
  /\ valCh' = c
  /\ errCh' = c
  /\ astray' = astray \cup ({valCh} \cap {d \in Calls : call[d] \in {"Registered", "Waiting"}})
  /\ UNCHANGED <<loop, cause, crash, answer, told, got, wire, peer, host>>

SendRequest(c) ==
  /\ call[c] = "Registered"
  /\ call' = [call EXCEPT ![c] = "Waiting"]
  /\ HandOver(Request(c))
  /\ UNCHANGED <<loop, cause, slot, answer, told, got, astray, wire, peer,
                 failers, receiver, fails, sent>>

(* playerResponseFromMatchingRequest looks at the kind of the answer.      *)
TakeAnswer(c) ==
  /\ call[c] = "Waiting"
  /\ answer[c] # None
  /\ IF Kind[answer[c]] = Kind[c] /\ Kind[c] \in Matchable
       THEN call' = [call EXCEPT ![c] = "Answered"]
       ELSE call' = [call EXCEPT ![c] = "Unmatched"]
  /\ got' = [got EXCEPT ![c] = answer[c]]
  /\ answer' = [answer EXCEPT ![c] = None]
  /\ UNCHANGED <<loop, cause, crash, slot, told, astray, wire, peer, host>>

TakeError(c) ==
  /\ call[c] = "Waiting"
  /\ told[c]
  /\ call' = [call EXCEPT ![c] = "Failed"]
  /\ UNCHANGED <<loop, cause, crash, slot, answer, told, got, astray, wire, peer, host>>

(* maxRPCWaitTime is over, or the caller's context has been cancelled      *)
(* because another player has failed; the two fields stay as they are.     *)
TimeOut(c) ==
  /\ call[c] = "Waiting"
  /\ call' = [call EXCEPT ![c] = "TimedOut"]
  /\ astray' = IF answer[c] = None THEN astray \cup {c} ELSE astray
  /\ UNCHANGED <<loop, cause, crash, slot, answer, told, got, wire, peer, host>>

Rpc(c) == \/ Refuse(c) \/ Register(c) \/ SendRequest(c)
          \/ TakeAnswer(c) \/ TakeError(c) \/ TimeOut(c)
-----------------------------------------------------------------------------
\* The loop of Run and its receiving goroutine

Run ==
  /\ loop = "New"
  /\ loop' = "Select"
  /\ UNCHANGED <<cause, crash, slot, rpc, wire, peer, host>>

End(why) == loop' = "Notify" /\ cause' = why

LoopSends ==
  /\ loop = "Select"
  /\ \E m \in senders :
       /\ senders' = senders \ {m}
       /\ \/ /\ stream = "Open"
             /\ toPlayer' = Append(toPlayer, m)
             /\ UNCHANGED <<loop, cause>>
          \/ /\ stream = "Broken"
             /\ UNCHANGED <<loop, cause>> \/ End("SendError")
             /\ UNCHANGED toPlayer
  /\ UNCHANGED <<crash, slot, rpc, stream, fromPlayer, peer, failers, receiver, fails, sent>>

(* Mutants: the answer is handed over on an unbuffered channel; the two    *)
(* fields are cleared whatever the message is.                             *)
LoopReceives_Unbuffered ==
  /\ loop = "Select"
  /\ receiver \in Calls
  /\ valCh # None
  /\ loop' = IF call[valCh] = "Waiting" THEN "Select" ELSE "Stuck"
  /\ receiver' = "Recv"
  /\ answer' = [answer EXCEPT ![valCh] = receiver]
  /\ valCh' = None /\ errCh' = None
  /\ UNCHANGED <<cause, crash, call, told, got, astray, wire, peer, senders, failers, fails, sent>>

LoopReceives_ClearsFirst ==
  /\ loop = "Select"
  /\ receiver \in Calls \cup {"Ask"}
  /\ receiver' = "Recv"
  /\ valCh' = None /\ errCh' = None
  /\ \/ /\ receiver \in Calls /\ valCh # None
        /\ answer' = [answer EXCEPT ![valCh] = receiver]
        /\ UNCHANGED <<loop, cause>>
     \/ receiver \in Calls /\ valCh = None /\ End("NoRequest") /\ UNCHANGED answer
     \/ receiver = "Ask" /\ UNCHANGED <<loop, cause, answer>>
  /\ UNCHANGED <<crash, call, told, got, astray, wire, peer, senders, failers, fails, sent>>

(* An answer goes to the channel of valCh, and both fields are cleared.    *)
LoopReceives ==
  /\ loop = "Select"
  /\ receiver \in Calls \cup Asks
  /\ receiver' = "Recv"
  /\ \/ /\ receiver \in Calls /\ valCh # None
        /\ answer' = [answer EXCEPT ![valCh] = receiver]
        /\ valCh' = None /\ errCh' = None
        /\ UNCHANGED <<loop, cause>>
     \/ /\ receiver \in Calls /\ valCh = None
        /\ errCh' = None
        /\ End("NoRequest")
        /\ UNCHANGED <<answer, valCh>>
     \/ /\ receiver = "Ask"     \* a handler is started
        /\ UNCHANGED <<loop, cause, answer, slot>>
     \/ /\ receiver = "Unknown"
        /\ End("UnknownMessage")
        /\ UNCHANGED <<answer, slot>>
  /\ UNCHANGED <<crash, call, told, got, astray, wire, peer, senders, failers, fails, sent>>

(* Mutant: a failure is taken from the channel without there being one.    *)
LoopEnds_Unguarded ==
  /\ loop = "Select"
  /\ \/ receiver = "Err" /\ receiver' = "Gone" /\ End("RecvError") /\ UNCHANGED failers
     \/ failers' = failers - 1 /\ End("Failed") /\ UNCHANGED receiver
  /\ UNCHANGED <<crash, slot, rpc, wire, peer, senders, fails, sent>>

LoopEnds ==
  /\ loop = "Select"
  /\ \/ receiver = "Err" /\ receiver' = "Gone" /\ End("RecvError") /\ UNCHANGED failers
     \/ failers > 0 /\ failers' = failers - 1 /\ End("Failed") /\ UNCHANGED receiver
  /\ UNCHANGED <<crash, slot, rpc, wire, peer, senders, fails, sent>>

(* Mutant: the field is cleared before it is read.                         *)
Notify_ClearsFirst ==
  /\ loop = "Notify"
  /\ loop' = "Close"
  /\ errCh' = None
  /\ UNCHANGED <<cause, crash, valCh, rpc, wire, peer, host>>

(* The call registered last is told, valCh is left alone.                  *)
Notify ==
  /\ loop = "Notify"
  /\ loop' = "Close"
  /\ told' = [c \in Calls |-> told[c] \/ c = errCh]
  /\ errCh' = None
  /\ UNCHANGED <<cause, crash, valCh, call, answer, got, astray, wire, peer, host>>

Blocked == senders # {} \/ failers > 0 \/ receiver \notin {"Recv", "Gone"}

(* The deferred function closes the four channels: whoever is blocked on   *)
(* one of them panics.  The stream ends with the return of Run.            *)
Close ==
  /\ loop = "Close"
  /\ loop' = "Returned"
  /\ crash' = IF Blocked THEN "Blocked" ELSE None
  /\ stream' = "Broken"
  /\ UNCHANGED <<cause, slot, rpc, toPlayer, fromPlayer, peer, host>>

Receive ==
  /\ Running
  /\ receiver = "Recv"
  /\ \/ /\ fromPlayer # <<>>
        /\ fromPlayer' = Tail(fromPlayer)
        /\ receiver' = IF Closed THEN "Gone" ELSE Head(fromPlayer)
     \/ /\ stream = "Broken"
        /\ receiver' = IF Closed THEN "Gone" ELSE "Err"
        /\ UNCHANGED fromPlayer
  /\ crash' = IF Closed THEN "Receiver" ELSE crash
  /\ UNCHANGED <<loop, cause, slot, rpc, stream, toPlayer, peer, senders, failers, fails, sent>>

Loop == Run \/ LoopSends \/ LoopReceives \/ LoopEnds \/ Notify \/ Close
-----------------------------------------------------------------------------
\* The player's loop

(* A notice is noted.  A request is handled at once: the answer leaves     *)
(* through a goroutine, or the handler's error ends the loop.              *)
PlayerReads ==
  /\ player = "On"
  /\ toPlayer # <<>>
  /\ toPlayer' = Tail(toPlayer)
  /\ LET m == Head(toPlayer) IN
       \/ /\ m.notice # None
          /\ UNCHANGED <<replies, player, stream>>
       \/ /\ m.call # None /\ Kind[m.call] \in Answerable
          /\ replies' = replies \cup {m.call}
          /\ UNCHANGED <<player, stream>>
       \/ /\ m.call # None
          /\ player' = "Off" /\ stream' = "Broken"
          /\ UNCHANGED replies
  /\ UNCHANGED <<loop, cause, crash, slot, rpc, fromPlayer, asks, host>>

(* Mutant: an answer is sent again.                                        *)
PlayerSends_Again ==
  /\ player = "On" /\ stream = "Open"
  /\ Len(fromPlayer) < 2
  /\ \E c \in replies : fromPlayer' = Append(fromPlayer, c)
  /\ UNCHANGED <<loop, cause, crash, slot, rpc, stream, toPlayer, replies, player, asks, host>>

PlayerSends ==
  /\ player = "On" /\ stream = "Open"
  /\ \E c \in replies :
       /\ replies' = replies \ {c}
       /\ fromPlayer' = Append(fromPlayer, c)
  /\ UNCHANGED <<loop, cause, crash, slot, rpc, stream, toPlayer, player, asks, host>>

PlayerAsks ==
  /\ player = "On" /\ stream = "Open"
  /\ asks < MaxAsks
  /\ asks' = asks + 1
  /\ \E m \in Asks : fromPlayer' = Append(fromPlayer, m)
  /\ UNCHANGED <<loop, cause, crash, slot, rpc, stream, toPlayer, replies, player, host>>

PlayerLeaves ==
  /\ player = "On"
  /\ player' = "Off"
  /\ stream' = "Broken"
  /\ UNCHANGED <<loop, cause, crash, slot, rpc, toPlayer, fromPlayer, replies, asks, host>>

Player == PlayerReads \/ PlayerSends \/ PlayerAsks \/ PlayerLeaves
-----------------------------------------------------------------------------
Step == \/ Loop \/ Receive \/ Player \/ FailNonBlocking
        \/ \E n \in Notices : SendNotice(n)
        \/ \E c \in Calls : Rpc(c)

(* Nothing runs any more once a goroutine has panicked.                    *)
Next == crash = None /\ Step

(* The goroutine of Run is scheduled, and a request's wait is bounded.     *)
Fairness ==
  /\ WF_vars(crash = None /\ Loop)
  /\ \A c \in Calls : WF_vars(crash = None /\ (SendRequest(c) \/ TakeAnswer(c) \/ TakeError(c) \/ TimeOut(c)))

Spec == Init /\ [][Next]_vars /\ Fairness
=============================================================================
