-------------------------------- MODULE Host --------------------------------
(***************************************************************************)
(* The registry of the host (host.go, request_handler.go,                  *)
(* event_handler.go): who is connected, who is a player, what has been     *)
(* said, and which event came last.                                        *)
(*                                                                         *)
(* Every handler is a goroutine of its own.  OnRun holds the write lock    *)
(* from beginning to end and is one action; the others take it in parts,   *)
(* or only for reading, and are one action per part.  OnStop is called     *)
(* from nowhere and is left out.                                           *)
(* What happens on the way to a client is the subject of Connection: here  *)
(* a message handed to SendNonBlocking counts as sent, and a connection    *)
(* that has ended panics when it is handed one.                            *)
(***************************************************************************)
EXTENDS Integers, Sequences, FiniteSets

CONSTANTS
  Clients,     \* connections, by Client.Num
  Identities,  \* keys and names, in lower case, players may answer with
  Joins,       \* the uses of OnStartJoin
  Chats,       \* the uses of OnChatMessage
  Games,       \* the uses of PlayGame
  MaxPlayers,  \* maxPlayers
  MaxKept,     \* maxChatMessagesKept
  MaxEvents    \* bound on the events of all games

ASSUME BoundsAssumption ==
  MaxPlayers \in Nat /\ MaxKept \in Nat \ {0} /\ MaxEvents \in Nat

\* What Host.clients holds for a client: nothing, an entry without an
\* Identity, or one with it.
Absent == [entry |-> "Absent"]
Guest == [entry |-> "Guest"]
Member(who) == [entry |-> "Member", who |-> who]

VARIABLES
  conn,          \* of each client: "New", "Running", "Ended"
  greetings,     \* clients whose goroutine OnRun has not run
  clients,       \* Host.clients
  counters,      \* Host.clientChatCounters
  protoPlayers, gamePlayers,
  chatMessages, lastGameEvent, gameRunning,
  join,          \* the goroutines of OnStartJoin
  chat,          \* the goroutines of OnChatMessage
  play,          \* the callers of PlayGame
  crash,         \* why the host has panicked
  view,          \* history: the players, chat and event each client was sent
  posted,        \* history: how many chat messages each client has sent
  liars,         \* history: clients that have sent a wrong counter
  rejected       \* history: clients failed for their chat

people == <<conn, greetings, clients>>
lists == <<protoPlayers, gamePlayers>>
chatting == <<counters, chatMessages, chat, posted, liars, rejected>>
gaming == <<lastGameEvent, gameRunning, play>>
vars == <<people, lists, chatting, gaming, join, crash, view>>

None == "none"

Registered == {c \in Clients : clients[c] # Absent}

Init ==
  /\ conn = [c \in Clients |-> "New"] /\ greetings = {}
  /\ clients = [c \in Clients |-> Absent]
  /\ counters = [c \in Clients |-> 0]
  /\ protoPlayers = <<>> /\ gamePlayers = <<>>
  /\ chatMessages = <<>> /\ lastGameEvent = 0 /\ gameRunning = FALSE
  /\ join = [j \in Joins |-> [pc |-> "Idle"]]
  /\ chat = [k \in Chats |-> [pc |-> "Idle"]]
  /\ play = [g \in Games |-> [pc |-> "Idle"]]
  /\ crash = None
  /\ view = [c \in Clients |-> [players |-> <<>>, chats |-> {}, event |-> 0]]
  /\ posted = [c \in Clients |-> 0] /\ liars = {} /\ rejected = {}

\* SendNonBlocking and FailNonBlocking: a channel that Run has closed.
HandOver(S) ==
  crash' = IF \E c \in S : conn[c] = "Ended" THEN "SentToEnded" ELSE crash
-----------------------------------------------------------------------------
\* Connections

Connect(c) ==
  /\ conn[c] = "New"
  /\ conn' = [conn EXCEPT ![c] = "Running"]
  /\ greetings' = greetings \cup {c}
  /\ UNCHANGED <<clients, lists, chatting, gaming, join, crash, view>>

(* The player leaves, its stream breaks, or FailNonBlocking is served.     *)
(* Run returns and tells nobody.                                           *)
Disconnect(c) ==
  /\ conn[c] = "Running"
  /\ conn' = [conn EXCEPT ![c] = "Ended"]
  /\ UNCHANGED <<greetings, clients, lists, chatting, gaming, join, crash, view>>

Chatted == {chatMessages[i] : i \in 1..Len(chatMessages)}

OnRun(c) ==
  /\ c \in greetings
  /\ greetings' = greetings \ {c}
  /\ HandOver({c})
  /\ clients' = [clients EXCEPT ![c] = Guest]
  /\ view' = [view EXCEPT ![c] = [players |-> protoPlayers, chats |-> Chatted,
                                  event   |-> lastGameEvent]]
  /\ UNCHANGED <<conn, lists, chatting, gaming, join>>

Link(c) == Connect(c) \/ Disconnect(c) \/ OnRun(c)
-----------------------------------------------------------------------------
\* OnStartJoin

AskToJoin(j) ==
  /\ join[j].pc = "Idle"
  /\ \E c \in Clients :
       /\ conn[c] = "Running"
       /\ join' = [join EXCEPT ![j] = [pc |-> "CheckRunning", client |-> c]]
  /\ UNCHANGED <<people, lists, chatting, gaming, crash, view>>

Goto(j, pc) == join' = [join EXCEPT ![j].pc = pc]

JoinChecksRunning(j) ==
  /\ join[j].pc = "CheckRunning"
  /\ \/ gameRunning /\ Goto(j, "Done") /\ HandOver({join[j].client})
     \/ ~gameRunning /\ Goto(j, "CheckCount") /\ UNCHANGED crash
  /\ UNCHANGED <<people, lists, chatting, gaming, view>>

JoinChecksCount(j) ==
  /\ join[j].pc = "CheckCount"
  /\ \/ Len(gamePlayers) >= MaxPlayers /\ Goto(j, "Done") /\ HandOver({join[j].client})
     \/ Len(gamePlayers) < MaxPlayers /\ Goto(j, "Asked") /\ UNCHANGED crash
  /\ UNCHANGED <<people, lists, chatting, gaming, view>>

(* Mutant: the checks of the answer are forgotten.                         *)
JoinIsAnswered_Unchecked(j) ==
  /\ join[j].pc = "Asked"
  /\ \/ Goto(j, "Done")
     \/ \E who \in Identities \cup {[id |-> 0, name |-> "x"]} :
          join' = [join EXCEPT ![j] = [pc |-> "Add", client |-> join[j].client, who |-> who]]
  /\ UNCHANGED <<people, lists, chatting, gaming, crash, view>>

(* The Join request fails, is answered with something that does not pass   *)
(* the checks of nonce, key, signature and name, or with an identity.  An  *)
(* answer without a Player is a nil *PlayerIdentity, and the first check   *)
(* reads its RandomNonce.                                                  *)
JoinIsAnswered(j) ==
  /\ join[j].pc = "Asked"
  /\ \/ Goto(j, "Done") /\ UNCHANGED crash
     \/ Goto(j, "Done") /\ HandOver({join[j].client})
     \/ Goto(j, "Done") /\ crash' = "NoPlayer"
     \/ /\ \E who \in Identities :
             join' = [join EXCEPT ![j] = [pc |-> "Add", client |-> join[j].client, who |-> who]]
        /\ UNCHANGED crash
  /\ UNCHANGED <<people, lists, chatting, gaming, view>>

\* Mutant: both must be taken.
Taken_Both(who) ==
  \E i \in 1..Len(gamePlayers) : gamePlayers[i].who = who

Taken(who) ==
  \E i \in 1..Len(gamePlayers) :
    gamePlayers[i].who.name = who.name \/ gamePlayers[i].who.id = who.id

\* Mutants: one of the checks is not repeated under the lock.
Admitted_DuringGame(c, who) ==
  Len(gamePlayers) < MaxPlayers /\ clients[c] = Guest /\ ~Taken(who)
Admitted_BeyondMax(c, who) ==
  ~gameRunning /\ clients[c] = Guest /\ ~Taken(who)
Admitted_Again(c, who) ==
  ~gameRunning /\ Len(gamePlayers) < MaxPlayers /\ clients[c] # Absent /\ ~Taken(who)
Admitted_BeforeRun(c, who) ==
  ~gameRunning /\ Len(gamePlayers) < MaxPlayers /\ clients[c].entry # "Member" /\ ~Taken(who)

Admitted(c, who) ==
  /\ ~gameRunning
  /\ Len(gamePlayers) < MaxPlayers
  /\ clients[c] = Guest
  /\ ~Taken(who)

JoinAdds(j) ==
  /\ join[j].pc = "Add"
  /\ Goto(j, "Done")
  /\ LET c == join[j].client
         who == join[j].who
     IN \/ /\ ~Admitted(c, who)
           /\ HandOver({c})
           /\ UNCHANGED <<clients, lists, view>>
        \/ /\ Admitted(c, who)
           /\ clients' = [clients EXCEPT ![c] = Member(who)]
           /\ protoPlayers' = Append(protoPlayers, who)
           /\ gamePlayers' = Append(gamePlayers, [client |-> c, who |-> who])
           /\ HandOver(Registered)
           /\ view' = [d \in Clients |-> IF d \in Registered
                                           THEN [view[d] EXCEPT !.players = protoPlayers']
                                           ELSE view[d]]
  /\ UNCHANGED <<conn, greetings, chatting, gaming>>

OnStartJoin(j) == \/ AskToJoin(j) \/ JoinChecksRunning(j) \/ JoinChecksCount(j)
                  \/ JoinIsAnswered(j) \/ JoinAdds(j)
-----------------------------------------------------------------------------
\* OnChatMessage

SendChat(k) ==
  /\ chat[k].pc = "Idle"
  /\ \E c \in Clients :
       /\ conn[c] = "Running"
       /\ \E n \in 0..posted[c] :
            /\ chat' = [chat EXCEPT ![k] = [pc |-> "Arrived", client |-> c, counter |-> n]]
            /\ liars' = IF n = posted[c] THEN liars ELSE liars \cup {c}
       /\ posted' = [posted EXCEPT ![c] = @ + 1]
  /\ UNCHANGED <<people, lists, counters, chatMessages, rejected, gaming, join, crash, view>>

(* The counter is read, and then incremented, in a map that is only locked *)
(* for reading.                                                            *)
ChatReads(k) ==
  /\ chat[k].pc = "Arrived"
  /\ chat' = [chat EXCEPT ![k] =
       [pc |-> "Read", client |-> chat[k].client, counter |-> chat[k].counter,
        member |-> clients[chat[k].client], expected |-> counters[chat[k].client]]]
  /\ UNCHANGED <<people, lists, counters, chatMessages, posted, liars, rejected, gaming, join, crash, view>>

Incrementing == {k \in Chats : chat[k].pc \in {"Read", "Loaded"}}

ChatLoads(k) ==
  /\ chat[k].pc = "Read"
  /\ chat' = [chat EXCEPT ![k] =
       [pc |-> "Loaded", client |-> chat[k].client, counter |-> chat[k].counter,
        member |-> chat[k].member, expected |-> chat[k].expected,
        loaded |-> counters[chat[k].client]]]
  /\ UNCHANGED <<people, lists, counters, chatMessages, posted, liars, rejected, gaming, join, crash, view>>

ChatStores(k) ==
  /\ chat[k].pc = "Loaded"
  /\ counters' = [counters EXCEPT ![chat[k].client] = chat[k].loaded + 1]
  /\ chat' = [chat EXCEPT ![k].pc = "Check"]
  /\ \/ UNCHANGED crash
     \/ Incrementing # {k} /\ crash' = "MapRace"
  /\ UNCHANGED <<people, lists, chatMessages, posted, liars, rejected, gaming, join, view>>

Valid(k) ==
  /\ chat[k].member.entry = "Member"
  /\ chat[k].counter = chat[k].expected

(* The rest of the message, its name, length and signature, may also be    *)
(* wrong.                                                                  *)
ChatIsChecked(k) ==
  /\ chat[k].pc = "Check"
  /\ \/ /\ Valid(k)
        /\ chat' = [chat EXCEPT ![k].pc = "Add"]
        /\ UNCHANGED <<crash, rejected, liars>>
     \/ /\ chat' = [chat EXCEPT ![k].pc = "Done"]
        /\ HandOver({chat[k].client})
        /\ rejected' = rejected \cup {chat[k].client}
        /\ liars' = IF Valid(k) \/ chat[k].member.entry # "Member"
                      THEN liars \cup {chat[k].client} ELSE liars
  /\ UNCHANGED <<people, lists, counters, chatMessages, posted, gaming, join, view>>

\* Mutant: only the players hear of a message.
ChatAdds_ToPlayers(k) ==
  /\ chat[k].pc = "Add"
  /\ chat' = [chat EXCEPT ![k].pc = "Done"]
  /\ HandOver({})
  /\ chatMessages' =
       Append(IF Len(chatMessages) >= MaxKept THEN Tail(chatMessages) ELSE chatMessages, k)
  /\ view' = [d \in Clients |-> IF clients[d].entry = "Member"
                                  THEN [view[d] EXCEPT !.chats = @ \cup {k}] ELSE view[d]]
  /\ UNCHANGED <<people, lists, counters, posted, liars, rejected, gaming, join>>

(* A full log loses its first message.                                     *)
ChatAdds(k) ==
  /\ chat[k].pc = "Add"
  /\ chat' = [chat EXCEPT ![k].pc = "Done"]
  /\ HandOver(Registered)
  /\ chatMessages' =
       Append(IF Len(chatMessages) >= MaxKept THEN Tail(chatMessages) ELSE chatMessages, k)
  /\ view' = [d \in Clients |-> IF d \in Registered
                                  THEN [view[d] EXCEPT !.chats = @ \cup {k}] ELSE view[d]]
  /\ UNCHANGED <<people, lists, counters, posted, liars, rejected, gaming, join>>

OnChatMessage(k) == \/ SendChat(k) \/ ChatReads(k) \/ ChatLoads(k) \/ ChatStores(k)
                    \/ ChatIsChecked(k) \/ ChatAdds(k)
-----------------------------------------------------------------------------
\* PlayGame, and OnEvent as the game calls it

PlayGame(g) ==
  /\ play[g].pc = "Idle"
  /\ play' = [play EXCEPT ![g] = [pc |-> "Playing", players |-> gamePlayers]]
  /\ gameRunning' = TRUE
  /\ UNCHANGED <<people, lists, chatting, lastGameEvent, join, crash, view>>

(* OnEvent takes the lock twice: the event is kept, and then sent.         *)
OnEvent(g) ==
  /\ play[g].pc = "Playing"
  /\ lastGameEvent < MaxEvents
  /\ lastGameEvent' = lastGameEvent + 1
  /\ play' = [play EXCEPT ![g] =
       [pc |-> "Sending", players |-> play[g].players, event |-> lastGameEvent + 1]]
  /\ UNCHANGED <<people, lists, chatting, gameRunning, join, crash, view>>

SendEvent(g) ==
  /\ play[g].pc = "Sending"
  /\ play' = [play EXCEPT ![g] = [pc |-> "Playing", players |-> play[g].players]]
  /\ HandOver(Registered)
  /\ view' = [c \in Clients |-> IF c \in Registered
                                  THEN [view[c] EXCEPT !.event = play[g].event] ELSE view[c]]
  /\ UNCHANGED <<people, lists, chatting, lastGameEvent, gameRunning, join>>

(* sendGameError tells everyone, and fails the player to blame.            *)
GameFails(g) ==
  /\ play[g].pc = "Playing"
  /\ play' = [play EXCEPT ![g].pc = "Returning"]
  /\ \E blamed \in {0} \cup (1..Len(play[g].players)) :
       HandOver(Registered \cup (IF blamed = 0 THEN {} ELSE {play[g].players[blamed].client}))
  /\ UNCHANGED <<people, lists, chatting, lastGameEvent, gameRunning, join, view>>

(* A game that is complete comes with an error too: Game.Play returns the  *)
(* nil *GameError of game.Game as an error that is not nil, and            *)
(* MakePbError dereferences it; the deferred function still runs.          *)
GameCompletes(g) ==
  /\ play[g].pc = "Playing"
  /\ play' = [play EXCEPT ![g].pc = "Done"]
  /\ gameRunning' = FALSE
  /\ crash' = "NilError"
  /\ UNCHANGED <<people, lists, chatting, lastGameEvent, join, view>>

GameReturns(g) ==
  /\ play[g].pc = "Returning"
  /\ play' = [play EXCEPT ![g].pc = "Done"]
  /\ gameRunning' = FALSE
  /\ UNCHANGED <<people, lists, chatting, lastGameEvent, join, crash, view>>

Game(g) == \/ PlayGame(g) \/ OnEvent(g) \/ SendEvent(g)
           \/ GameFails(g) \/ GameCompletes(g) \/ GameReturns(g)
-----------------------------------------------------------------------------
Step == \/ \E c \in Clients : Link(c)
        \/ \E j \in Joins : OnStartJoin(j)
        \/ \E k \in Chats : OnChatMessage(k)
        \/ \E g \in Games : Game(g)

(* Nothing runs any more once a goroutine has panicked.                    *)
Next == crash = None /\ Step

Spec == Init /\ [][Next]_vars
=============================================================================
