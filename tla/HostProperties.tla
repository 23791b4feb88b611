--------------------------- MODULE HostProperties ---------------------------
(* What the registry of the host (module Host) keeps and what it does not. *)
EXTENDS Host

Players == [client : Clients, who : Identities]
Entries == {Absent, Guest} \cup {Member(who) : who \in Identities}

JoinStates ==
  [pc : {"Idle"}]
  \cup [pc : {"CheckRunning", "CheckCount", "Asked", "Done"}, client : Clients]
  \cup [pc : {"Add", "Done"}, client : Clients, who : Identities]

ChatStates ==
  [pc : {"Idle"}]
  \cup [pc : {"Arrived"}, client : Clients, counter : Nat]
  \cup [pc : {"Read"}, client : Clients, counter : Nat, member : Entries, expected : Nat]
  \cup [pc : {"Loaded", "Check", "Add", "Done"}, client : Clients, counter : Nat,
        member : Entries, expected : Nat, loaded : Nat]

PlayStates ==
  [pc : {"Idle"}]
  \cup [pc : {"Playing", "Returning", "Done"}, players : Seq(Players)]
  \cup [pc : {"Sending"}, players : Seq(Players), event : Nat]

PeopleOK ==
  /\ conn \in [Clients -> {"New", "Running", "Ended"}]
  /\ greetings \subseteq Clients
  /\ clients \in [Clients -> Entries]

ListsOK == protoPlayers \in Seq(Identities) /\ gamePlayers \in Seq(Players)

ChattingOK ==
  /\ counters \in [Clients -> Nat]
  /\ chatMessages \in Seq(Chats)
  /\ chat \in [Chats -> ChatStates]
  /\ posted \in [Clients -> Nat]

GamingOK ==
  lastGameEvent \in Nat /\ gameRunning \in BOOLEAN /\ play \in [Games -> PlayStates]

(* Every field of the host keeps to its type.                              *)
TypeOK ==
  /\ PeopleOK /\ ListsOK /\ ChattingOK /\ GamingOK
  /\ join \in [Joins -> JoinStates]
  /\ crash \in {None, "SentToEnded", "MapRace", "NilError", "NoPlayer"}

(* However many join at once, the table never has more than maxPlayers     *)
(* seats (request_handler.go, "Check max again").                          *)
AtMostMaxPlayers == Len(gamePlayers) <= MaxPlayers

(* No two players have the same name or the same key ("Check name and ID   *)
(* uniqueness").                                                           *)
PlayersAreDistinct ==
  \A i, j \in 1..Len(gamePlayers) : i # j =>
    /\ gamePlayers[i].who.name # gamePlayers[j].who.name
    /\ gamePlayers[i].who.id # gamePlayers[j].who.id

(* The three places that know the players agree: the list sent to the      *)
(* clients, the list games are made of, and the entries of the clients.    *)
PlacesAgree ==
  /\ Len(protoPlayers) = Len(gamePlayers)
  /\ \A i \in 1..Len(gamePlayers) :
       /\ protoPlayers[i] = gamePlayers[i].who
       /\ clients[gamePlayers[i].client] = Member(gamePlayers[i].who)
  /\ \A c \in Clients : clients[c].entry = "Member" =>
       \E i \in 1..Len(gamePlayers) : gamePlayers[i].client = c

(* A client that has become a player remains that player: neither a late   *)
(* OnRun nor another OnStartJoin of its own takes its entry.               *)
MembersRemain ==
  [][\A c \in Clients : clients[c].entry = "Member" => clients'[c] = clients[c]]_vars

(* While the one game is played the table stays as the game was given it.  *)
TableIsFixed ==
  (\A g, h \in Games : g = h) =>
    \A g \in Games : play[g].pc \in {"Playing", "Sending", "Returning"} =>
      gamePlayers = play[g].players

(* A client that connects while others join, chat and play misses nothing: *)
(* from its welcome on it has been sent the players as they are, every     *)
(* message that is kept, and every event that has been sent to anybody, as *)
(* long as no second game sends events of its own at the same time.        *)
NothingIsMissed ==
  \A c \in Registered :
    /\ view[c].players = protoPlayers
    /\ Chatted \subseteq view[c].chats
    /\ (\A g, h \in Games : g = h) /\ (\A g \in Games : play[g].pc # "Sending") =>
         view[c].event = lastGameEvent
-----------------------------------------------------------------------------
\* What comments and messages of the repository say and the code does not keep.

(* "Invalid chat counter" (request_handler.go): a player whose messages    *)
(* are numbered as they should be is not failed for one.                   *)
HonestChatIsAccepted == rejected \subseteq liars
=============================================================================
