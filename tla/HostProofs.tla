----------------------------- MODULE HostProofs -----------------------------
(***************************************************************************)
(* Proofs about the registry of the host, for any number of clients,       *)
(* handlers and games, and any limits.                                     *)
(***************************************************************************)
EXTENDS HostProperties, FiniteSetTheorems, SequenceTheorems, TLAPS

LEMMA TypeInit == Init => TypeOK
<1> SUFFICES ASSUME Init PROVE TypeOK
  OBVIOUS
<1>1. PeopleOK
  BY DEF Init, PeopleOK, Entries
<1>2. ListsOK
  BY DEF Init, ListsOK
<1>3. ChattingOK
  BY DEF Init, ChattingOK, ChatStates
<1>4. GamingOK
  BY DEF Init, GamingOK, PlayStates
<1>5. join \in [Joins -> JoinStates]
  BY DEF Init, JoinStates
<1>6. crash \in {None, "SentToEnded", "MapRace", "NilError", "NoPlayer"}
  BY DEF Init
<1> QED
  BY <1>1, <1>2, <1>3, <1>4, <1>5, <1>6 DEF TypeOK

LEMMA PeopleType ==
  ASSUME TypeOK, [Next]_vars
  PROVE  PeopleOK'
<1> USE DEF TypeOK, PeopleOK
<1>1. ASSUME NEW c \in Clients, Link(c) PROVE PeopleOK'
  BY <1>1 DEF Link, Connect, Disconnect, OnRun, Entries
<1>2. ASSUME NEW j \in Joins, JoinAdds(j) PROVE PeopleOK'
  <2>1. join[j].client \in Clients /\ join[j].who \in Identities
    BY <1>2 DEF JoinAdds, JoinStates
  <2>2. Member(join[j].who) \in Entries
    BY <2>1 DEF Entries
  <2> QED
    BY <1>2, <2>1, <2>2 DEF JoinAdds
<1>3. CASE UNCHANGED people
  BY <1>3 DEF people
<1> QED
  BY <1>1, <1>2, <1>3 DEF Next, Step, vars, OnStartJoin, AskToJoin, JoinChecksRunning,
     JoinChecksCount, JoinIsAnswered, OnChatMessage, SendChat, ChatReads, ChatLoads, ChatStores,
     ChatIsChecked, ChatAdds, Game, PlayGame, OnEvent, SendEvent, GameFails, GameCompletes,
     GameReturns

LEMMA ListsType ==
  ASSUME TypeOK, [Next]_vars
  PROVE  ListsOK'
<1>1. ASSUME NEW j \in Joins, JoinAdds(j) PROVE ListsOK'
  <2>1. join[j].client \in Clients /\ join[j].who \in Identities
    BY <1>1 DEF JoinAdds, JoinStates, TypeOK
  <2>2. [client |-> join[j].client, who |-> join[j].who] \in Players
    BY <2>1 DEF Players
  <2>3. \/ UNCHANGED lists
        \/ /\ protoPlayers' = Append(protoPlayers, join[j].who)
           /\ gamePlayers' = Append(gamePlayers, [client |-> join[j].client, who |-> join[j].who])
    BY <1>1 DEF JoinAdds
  <2>4. protoPlayers \in Seq(Identities) /\ gamePlayers \in Seq(Players)
    BY DEF TypeOK, ListsOK
  <2>5. Append(protoPlayers, join[j].who) \in Seq(Identities)
    BY <2>1, <2>4, AppendProperties
  <2>6. Append(gamePlayers, [client |-> join[j].client, who |-> join[j].who]) \in Seq(Players)
    BY <2>2, <2>4, AppendProperties
  <2> QED
    BY <2>3, <2>4, <2>5, <2>6 DEF ListsOK, lists
<1>2. CASE UNCHANGED lists
  BY <1>2 DEF lists, TypeOK, ListsOK
<1> QED
  BY <1>1, <1>2 DEF Next, Step, vars, Link, Connect, Disconnect, OnRun, OnStartJoin, AskToJoin,
     JoinChecksRunning, JoinChecksCount, JoinIsAnswered, OnChatMessage, SendChat, ChatReads,
     ChatLoads, ChatStores, ChatIsChecked, ChatAdds, Game, PlayGame, OnEvent, SendEvent,
     GameFails, GameCompletes, GameReturns

LEMMA ChattingType ==
  ASSUME TypeOK, [Next]_vars
  PROVE  ChattingOK'
<1> USE DEF TypeOK, ChattingOK
<1>1. ASSUME NEW k \in Chats, SendChat(k) PROVE ChattingOK'
  <2>1. PICK c \in Clients : \E n \in 0..posted[c] :
          chat' = [chat EXCEPT ![k] = [pc |-> "Arrived", client |-> c, counter |-> n]]
    BY <1>1 DEF SendChat
  <2>2. PICK n \in 0..posted[c] :
          chat' = [chat EXCEPT ![k] = [pc |-> "Arrived", client |-> c, counter |-> n]]
    BY <2>1
  <2>3. [pc |-> "Arrived", client |-> c, counter |-> n] \in ChatStates
    <3>1. posted[c] \in Nat
      OBVIOUS
    <3>2. n \in Nat
      BY <3>1
    <3> QED
      BY <3>2 DEF ChatStates
  <2>4. UNCHANGED <<counters, chatMessages>> /\ posted' \in [Clients -> Nat]
    BY <1>1 DEF SendChat
  <2>5. chat' \in [Chats -> ChatStates]
    BY <2>2, <2>3
  <2> QED
    BY <2>4, <2>5
<1>2. ASSUME NEW k \in Chats, ChatReads(k) PROVE ChattingOK'
  <2>1. chat[k].client \in Clients /\ chat[k].counter \in Nat
    BY <1>2 DEF ChatReads, ChatStates
  <2>2. clients[chat[k].client] \in Entries /\ counters[chat[k].client] \in Nat
    BY <2>1 DEF PeopleOK
  <2> QED
    BY <1>2, <2>1, <2>2 DEF ChatReads, ChatStates
<1>3. ASSUME NEW k \in Chats, ChatLoads(k) PROVE ChattingOK'
  <2>1. /\ chat[k].client \in Clients /\ chat[k].counter \in Nat
        /\ chat[k].member \in Entries /\ chat[k].expected \in Nat
    BY <1>3 DEF ChatLoads, ChatStates
  <2> QED
    BY <1>3, <2>1 DEF ChatLoads, ChatStates
<1>4. ASSUME NEW k \in Chats, ChatStores(k) PROVE ChattingOK'
  <2>1. chat[k].client \in Clients /\ chat[k].loaded + 1 \in Nat
    BY <1>4 DEF ChatStores, ChatStates
  <2>2. [chat[k] EXCEPT !.pc = "Check"] \in ChatStates
    BY <1>4 DEF ChatStores, ChatStates
  <2> QED
    BY <1>4, <2>1, <2>2 DEF ChatStores
<1>5. ASSUME NEW k \in Chats, ChatIsChecked(k) PROVE ChattingOK'
  <2>1. /\ [chat[k] EXCEPT !.pc = "Add"] \in ChatStates
        /\ [chat[k] EXCEPT !.pc = "Done"] \in ChatStates
    BY <1>5 DEF ChatIsChecked, ChatStates
  <2> QED
    BY <1>5, <2>1 DEF ChatIsChecked
<1>6. ASSUME NEW k \in Chats, ChatAdds(k) PROVE ChattingOK'
  <2>1. [chat[k] EXCEPT !.pc = "Done"] \in ChatStates
    BY <1>6 DEF ChatAdds, ChatStates
  <2>2. Len(chatMessages) >= MaxKept => Tail(chatMessages) \in Seq(Chats)
    BY BoundsAssumption
  <2>3. chatMessages' \in Seq(Chats)
    BY <1>6, <2>2 DEF ChatAdds
  <2> QED
    BY <1>6, <2>1, <2>3 DEF ChatAdds
<1>7. CASE UNCHANGED chatting
  BY <1>7 DEF chatting
<1> QED
  BY <1>1, <1>2, <1>3, <1>4, <1>5, <1>6, <1>7 DEF Next, Step, vars, Link, Connect, Disconnect,
     OnRun, OnStartJoin, AskToJoin, JoinChecksRunning, JoinChecksCount, JoinIsAnswered,
     JoinAdds, OnChatMessage, Game, PlayGame, OnEvent, SendEvent, GameFails, GameCompletes,
     GameReturns

LEMMA GamingType ==
  ASSUME TypeOK, [Next]_vars
  PROVE  GamingOK'
<1> USE DEF TypeOK, GamingOK
<1>1. ASSUME NEW g \in Games, Game(g) PROVE GamingOK'
  <2>1. CASE PlayGame(g)
    BY <2>1 DEF PlayGame, ListsOK, PlayStates
  <2>2. CASE OnEvent(g)
    <3>1. play[g].players \in Seq(Players) /\ lastGameEvent + 1 \in Nat
      BY <2>2 DEF OnEvent, PlayStates
    <3> QED
      BY <2>2, <3>1 DEF OnEvent, PlayStates
  <2>3. CASE SendEvent(g)
    <3>1. play[g].players \in Seq(Players)
      BY <2>3 DEF SendEvent, PlayStates
    <3> QED
      BY <2>3, <3>1 DEF SendEvent, PlayStates
  <2>4. CASE GameFails(g) \/ GameCompletes(g) \/ GameReturns(g)
    <3>1. /\ [play[g] EXCEPT !.pc = "Returning"] \in PlayStates
          /\ [play[g] EXCEPT !.pc = "Done"] \in PlayStates
      BY <2>4 DEF GameFails, GameCompletes, GameReturns, PlayStates
    <3> QED
      BY <2>4, <3>1 DEF GameFails, GameCompletes, GameReturns
  <2> QED
    BY <1>1, <2>1, <2>2, <2>3, <2>4 DEF Game
<1>2. CASE UNCHANGED gaming
  BY <1>2 DEF gaming
<1> QED
  BY <1>1, <1>2 DEF Next, Step, vars, Link, Connect, Disconnect, OnRun, OnStartJoin, AskToJoin,
     JoinChecksRunning, JoinChecksCount, JoinIsAnswered, JoinAdds, OnChatMessage, SendChat,
     ChatReads, ChatLoads, ChatStores, ChatIsChecked, ChatAdds

LEMMA JoinType ==
  ASSUME TypeOK, [Next]_vars
  PROVE  (join \in [Joins -> JoinStates])'
<1> USE DEF TypeOK
<1>1. ASSUME NEW j \in Joins, OnStartJoin(j) PROVE join' \in [Joins -> JoinStates]
  <2>1. CASE AskToJoin(j)
    BY <2>1 DEF AskToJoin, JoinStates
  <2>2. CASE JoinChecksRunning(j) \/ JoinChecksCount(j)
    <3>1. \A pc \in {"CheckCount", "Asked", "Done"} : [join[j] EXCEPT !.pc = pc] \in JoinStates
      BY <2>2 DEF JoinChecksRunning, JoinChecksCount, JoinStates
    <3> QED
      BY <2>2, <3>1 DEF JoinChecksRunning, JoinChecksCount, Goto
  <2>3. CASE JoinIsAnswered(j)
    <3>1. join[j].client \in Clients /\ [join[j] EXCEPT !.pc = "Done"] \in JoinStates
      BY <2>3 DEF JoinIsAnswered, JoinStates
    <3>2. \A who \in Identities :
            [pc |-> "Add", client |-> join[j].client, who |-> who] \in JoinStates
      BY <3>1 DEF JoinStates
    <3> QED
      BY <2>3, <3>1, <3>2 DEF JoinIsAnswered, Goto
  <2>4. CASE JoinAdds(j)
    <3>1. [join[j] EXCEPT !.pc = "Done"] \in JoinStates
      BY <2>4 DEF JoinAdds, JoinStates
    <3> QED
      BY <2>4, <3>1 DEF JoinAdds, Goto
  <2> QED
    BY <1>1, <2>1, <2>2, <2>3, <2>4 DEF OnStartJoin
<1>2. CASE UNCHANGED join
  BY <1>2
<1> QED
  BY <1>1, <1>2 DEF Next, Step, vars, Link, Connect, Disconnect, OnRun, OnChatMessage, SendChat,
     ChatReads, ChatLoads, ChatStores, ChatIsChecked, ChatAdds, Game, PlayGame, OnEvent,
     SendEvent, GameFails, GameCompletes, GameReturns

LEMMA TypeStep ==
  ASSUME TypeOK, [Next]_vars
  PROVE  TypeOK'
<1>1. crash' \in {None, "SentToEnded", "MapRace", "NilError", "NoPlayer"}
  BY DEF TypeOK, Next, Step, vars, Link, Connect, Disconnect, OnRun, OnStartJoin, AskToJoin,
     JoinChecksRunning, JoinChecksCount, JoinIsAnswered, JoinAdds, OnChatMessage, SendChat,
     ChatReads, ChatLoads, ChatStores, ChatIsChecked, ChatAdds, Game, PlayGame, OnEvent,
     SendEvent, GameFails, GameCompletes, GameReturns, HandOver
<1> QED
  BY <1>1, PeopleType, ListsType, ChattingType, GamingType, JoinType DEF TypeOK

(* The variables of the registry keep to their types.                      *)
THEOREM TypeCorrect == Spec => []TypeOK
<1>1. Init => TypeOK
  BY TypeInit
<1>2. TypeOK /\ [Next]_vars => TypeOK'
  BY TypeStep
<1> QED
  BY <1>1, <1>2, PTL DEF Spec
-----------------------------------------------------------------------------
\* OnRun runs once for every client, before the client can be a player.

GreetedOnce ==
  \A c \in Clients :
    /\ conn[c] = "New" => c \notin greetings /\ clients[c] = Absent
    /\ c \in greetings => clients[c] = Absent

LEMMA GreetedOnceStep ==
  ASSUME TypeOK, GreetedOnce, [Next]_vars
  PROVE  GreetedOnce'
<1> USE DEF TypeOK, PeopleOK, GreetedOnce
<1>1. ASSUME NEW c \in Clients, Link(c) PROVE GreetedOnce'
  BY <1>1 DEF Link, Connect, Disconnect, OnRun
<1>2. ASSUME NEW j \in Joins, JoinAdds(j) PROVE GreetedOnce'
  <2>1. CASE UNCHANGED clients
    BY <1>2, <2>1 DEF JoinAdds
  <2>2. CASE Admitted(join[j].client, join[j].who)
    <3>1. clients[join[j].client] # Absent
      BY <2>2 DEF Admitted, Guest, Absent
    <3>2. clients' = [clients EXCEPT ![join[j].client] = Member(join[j].who)]
      BY <1>2, <2>2 DEF JoinAdds
    <3> QED
      BY <1>2, <3>1, <3>2 DEF JoinAdds
  <2> QED
    BY <1>2, <2>1, <2>2 DEF JoinAdds
<1>3. CASE UNCHANGED people
  BY <1>3 DEF people
<1> QED
  BY <1>1, <1>2, <1>3 DEF Next, Step, vars, OnStartJoin, AskToJoin, JoinChecksRunning,
     JoinChecksCount, JoinIsAnswered, OnChatMessage, SendChat, ChatReads, ChatLoads, ChatStores,
     ChatIsChecked, ChatAdds, Game, PlayGame, OnEvent, SendEvent, GameFails, GameCompletes,
     GameReturns
-----------------------------------------------------------------------------
\* Only OnRun and the last part of OnStartJoin change who is who.

Table == AtMostMaxPlayers /\ PlayersAreDistinct /\ PlacesAgree

LEMMA WhoIsWho ==
  ASSUME [Next]_vars
  PROVE  \/ \E c \in Clients : OnRun(c)
         \/ \E j \in Joins : JoinAdds(j) /\ Admitted(join[j].client, join[j].who)
         \/ UNCHANGED <<clients, lists>>
BY DEF Next, Step, vars, people, lists, Link, Connect, Disconnect, OnStartJoin, AskToJoin,
   JoinChecksRunning, JoinChecksCount, JoinIsAnswered, JoinAdds, OnChatMessage, SendChat,
   ChatReads, ChatLoads, ChatStores, ChatIsChecked, ChatAdds, Game, PlayGame, OnEvent,
   SendEvent, GameFails, GameCompletes, GameReturns

LEMMA OnRunKeepsTable ==
  ASSUME TypeOK, GreetedOnce, Table, NEW c \in Clients, OnRun(c)
  PROVE  Table'
<1>1. clients[c] = Absent /\ UNCHANGED lists /\ clients' = [clients EXCEPT ![c] = Guest]
  BY DEF OnRun, GreetedOnce
<1>2. AtMostMaxPlayers' /\ PlayersAreDistinct'
  BY <1>1 DEF Table, AtMostMaxPlayers, PlayersAreDistinct, lists
<1>3. PlacesAgree'
  <2>1. \A who : Member(who) # Absent /\ Guest.entry # "Member"
    BY DEF Member, Absent, Guest
  <2> QED
    BY <1>1, <2>1 DEF Table, PlacesAgree, lists, TypeOK, PeopleOK
<1> QED
  BY <1>2, <1>3 DEF Table

LEMMA JoinKeepsTable ==
  ASSUME TypeOK, Table, NEW j \in Joins, JoinAdds(j), Admitted(join[j].client, join[j].who)
  PROVE  Table'
<1> DEFINE c == join[j].client
           who == join[j].who
           n == Len(gamePlayers)
<1>1. c \in Clients /\ who \in Identities
  BY DEF JoinAdds, JoinStates, TypeOK
<1>2. /\ clients' = [clients EXCEPT ![c] = Member(who)]
      /\ protoPlayers' = Append(protoPlayers, who)
      /\ gamePlayers' = Append(gamePlayers, [client |-> c, who |-> who])
  BY DEF JoinAdds
<1>3. protoPlayers \in Seq(Identities) /\ gamePlayers \in Seq(Players) /\ n \in Nat
  BY DEF TypeOK, ListsOK
<1>4. [client |-> c, who |-> who] \in Players
  BY <1>1 DEF Players
<1>5. /\ Len(gamePlayers') = n + 1
      /\ \A i \in 1..n : gamePlayers'[i] = gamePlayers[i]
      /\ gamePlayers'[n + 1].client = c /\ gamePlayers'[n + 1].who = who
  BY <1>2, <1>3, <1>4, AppendProperties
<1>6. /\ Len(protoPlayers) = n
      /\ Len(protoPlayers') = n + 1
      /\ \A i \in 1..n : protoPlayers'[i] = protoPlayers[i]
      /\ protoPlayers'[n + 1] = who
  BY <1>1, <1>2, <1>3, AppendProperties DEF Table, PlacesAgree
<1> HIDE DEF c, who, n
<1>7. AtMostMaxPlayers'
  <2>1. n < MaxPlayers
    BY DEF Admitted, n
  <2> QED
    BY <1>3, <1>5, <2>1, BoundsAssumption DEF AtMostMaxPlayers
<1>8. PlayersAreDistinct'
  <2>1. \A i \in 1..n : gamePlayers[i].who.name # who.name /\ gamePlayers[i].who.id # who.id
    BY DEF Admitted, Taken, n, who
  <2> QED
    BY <1>3, <1>5, <2>1 DEF Table, PlayersAreDistinct, n
<1>9. PlacesAgree'
  <2>1. clients[c] = Guest
    BY DEF Admitted, c
  <2>2. \A i \in 1..n : gamePlayers[i].client # c
    <3>1. \A w : Member(w) # Guest
      BY DEF Member, Guest
    <3> QED
      BY <2>1, <3>1 DEF Table, PlacesAgree, n
  <2>3. \A i \in 1..(n + 1) : /\ protoPlayers'[i] = gamePlayers'[i].who
                              /\ clients'[gamePlayers'[i].client] = Member(gamePlayers'[i].who)
    <3>1. ASSUME NEW i \in 1..n
          PROVE /\ protoPlayers'[i] = gamePlayers'[i].who
                /\ clients'[gamePlayers'[i].client] = Member(gamePlayers'[i].who)
      <4>1. gamePlayers[i].client \in Clients
        <5>1. gamePlayers[i] \in Players
          BY <1>3 DEF n
        <5> QED
          BY <5>1 DEF Players
      <4>2. gamePlayers'[i] = gamePlayers[i] /\ protoPlayers'[i] = protoPlayers[i]
        BY <1>5, <1>6
      <4>3. clients'[gamePlayers[i].client] = clients[gamePlayers[i].client]
        BY <1>2, <2>2, <4>1 DEF TypeOK, PeopleOK
      <4>4. /\ protoPlayers[i] = gamePlayers[i].who
            /\ clients[gamePlayers[i].client] = Member(gamePlayers[i].who)
        BY DEF Table, PlacesAgree, n
      <4> QED
        BY <4>2, <4>3, <4>4
    <3>2. /\ protoPlayers'[n + 1] = gamePlayers'[n + 1].who
          /\ clients'[gamePlayers'[n + 1].client] = Member(gamePlayers'[n + 1].who)
      BY <1>1, <1>2, <1>5, <1>6 DEF TypeOK, PeopleOK
    <3> QED
      BY <1>3, <3>1, <3>2
  <2>4. ASSUME NEW d \in Clients, clients'[d].entry = "Member"
        PROVE \E i \in 1..(n + 1) : gamePlayers'[i].client = d
    <3>1. CASE d = c
      BY <1>3, <1>5, <3>1
    <3>2. CASE d # c
      <4>1. clients[d].entry = "Member"
        BY <1>2, <2>4, <3>2 DEF TypeOK, PeopleOK
      <4>2. PICK i \in 1..n : gamePlayers[i].client = d
        BY <4>1 DEF Table, PlacesAgree, n
      <4>3. i \in 1..(n + 1) /\ gamePlayers'[i] = gamePlayers[i]
        BY <1>3, <1>5
      <4> QED
        BY <4>2, <4>3
    <3> QED
      BY <3>1, <3>2
  <2> QED
    BY <1>5, <1>6, <2>3, <2>4 DEF PlacesAgree
<1> QED
  BY <1>7, <1>8, <1>9 DEF Table

LEMMA TableStep ==
  ASSUME TypeOK, GreetedOnce, Table, [Next]_vars
  PROVE  Table'
<1>1. CASE UNCHANGED <<clients, lists>>
  BY <1>1 DEF lists, Table, AtMostMaxPlayers, PlayersAreDistinct, PlacesAgree
<1> QED
  BY <1>1, WhoIsWho, OnRunKeepsTable, JoinKeepsTable

HostInv == TypeOK /\ GreetedOnce /\ Table

LEMMA HostInvariant == Spec => []HostInv
<1>1. Init => HostInv
  <2>1. Init => GreetedOnce
    BY DEF Init, GreetedOnce
  <2>2. Init => Table
    BY BoundsAssumption DEF Init, Table, AtMostMaxPlayers, PlayersAreDistinct, PlacesAgree, Absent
  <2> QED
    BY <2>1, <2>2, TypeInit DEF HostInv
<1>2. HostInv /\ [Next]_vars => HostInv'
  BY TypeStep, GreetedOnceStep, TableStep DEF HostInv
<1> QED
  BY <1>1, <1>2, PTL DEF Spec

(* However many join at once, no seat too many is given away: the second   *)
(* check of the count is made under the lock.                              *)
THEOREM SeatsAreLimited == Spec => []AtMostMaxPlayers
<1>1. HostInv => AtMostMaxPlayers
  BY DEF HostInv, Table
<1> QED
  BY <1>1, HostInvariant, PTL

(* No two players of the table ever share a name or a key.                 *)
THEOREM NamesAndKeysAreUnique == Spec => []PlayersAreDistinct
<1>1. HostInv => PlayersAreDistinct
  BY DEF HostInv, Table
<1> QED
  BY <1>1, HostInvariant, PTL

(* The list of the clients' entries, the list sent to the clients and the  *)
(* list games are made of always name the same players.                    *)
THEOREM OneListOfPlayers == Spec => []PlacesAgree
<1>1. HostInv => PlacesAgree
  BY DEF HostInv, Table
<1> QED
  BY <1>1, HostInvariant, PTL

(* Once a player, a client stays that player.                              *)
THEOREM PlayersStay == Spec => MembersRemain
<1>1. HostInv /\ [Next]_vars =>
        [\A c \in Clients : clients[c].entry = "Member" => clients'[c] = clients[c]]_vars
  <2> SUFFICES ASSUME HostInv, [Next]_vars, NEW c \in Clients, clients[c].entry = "Member"
               PROVE  clients'[c] = clients[c]
    OBVIOUS
  <2>1. ASSUME NEW d \in Clients, OnRun(d) PROVE clients'[c] = clients[c]
    <3>1. clients[d] = Absent
      BY <2>1 DEF OnRun, HostInv, GreetedOnce
    <3>2. d # c
      BY <3>1 DEF Absent
    <3> QED
      BY <2>1, <3>2 DEF OnRun, HostInv, TypeOK, PeopleOK
  <2>2. ASSUME NEW j \in Joins, JoinAdds(j), Admitted(join[j].client, join[j].who)
        PROVE clients'[c] = clients[c]
    <3>1. join[j].client # c
      BY <2>2 DEF Admitted, Guest
    <3>2. clients' = [clients EXCEPT ![join[j].client] = Member(join[j].who)]
      BY <2>2 DEF JoinAdds
    <3> QED
      BY <3>1, <3>2 DEF HostInv, TypeOK, PeopleOK
  <2> QED
    BY <2>1, <2>2, WhoIsWho
<1> QED
  BY <1>1, HostInvariant, PTL DEF Spec, MembersRemain
-----------------------------------------------------------------------------
\* With one game at a time the flag is set while it is played, and then the
\* check under the lock keeps everybody out.

InPlay(g) == play[g].pc \in {"Playing", "Sending", "Returning"}

OneGame ==
  (\A g, h \in Games : g = h) =>
    \A g \in Games : InPlay(g) => gameRunning /\ gamePlayers = play[g].players

LEMMA GameStep ==
  ASSUME TypeOK, OneGame, NEW g \in Games, Game(g)
  PROVE  OneGame'
<1> SUFFICES ASSUME \A h, i \in Games : h = i, InPlay(g)'
             PROVE  gameRunning' /\ gamePlayers' = play'[g].players
  BY DEF OneGame
<1> USE DEF TypeOK, GamingOK, OneGame, InPlay, lists
<1>1. CASE PlayGame(g)
  BY <1>1 DEF PlayGame
<1>2. CASE OnEvent(g)
  BY <1>2 DEF OnEvent
<1>3. CASE SendEvent(g)
  BY <1>3 DEF SendEvent
<1>4. CASE GameFails(g)
  <2>1. play'[g].players = play[g].players
    BY <1>4 DEF GameFails, PlayStates
  <2> QED
    BY <1>4, <2>1 DEF GameFails
<1>5. CASE GameCompletes(g) \/ GameReturns(g)
  <2>1. play'[g].pc = "Done"
    BY <1>5 DEF GameCompletes, GameReturns, PlayStates
  <2> QED
    BY <2>1
<1> QED
  BY <1>1, <1>2, <1>3, <1>4, <1>5 DEF Game

LEMMA OneGameStep ==
  ASSUME TypeOK, OneGame, [Next]_vars
  PROVE  OneGame'
<1>1. ASSUME NEW j \in Joins, JoinAdds(j) PROVE OneGame'
  <2>1. UNCHANGED gaming
    BY <1>1 DEF JoinAdds
  <2>2. CASE UNCHANGED lists
    BY <2>1, <2>2 DEF OneGame, InPlay, gaming, lists
  <2>3. CASE Admitted(join[j].client, join[j].who)
    BY <2>1, <2>3 DEF Admitted, OneGame, InPlay, gaming
  <2> QED
    BY <1>1, <2>2, <2>3 DEF JoinAdds
<1>2. CASE UNCHANGED <<gaming, lists>>
  BY <1>2 DEF OneGame, InPlay, gaming, lists
<1> QED
  BY <1>1, <1>2, GameStep DEF Next, Step, vars, Link, Connect, Disconnect, OnRun, OnStartJoin,
     AskToJoin, JoinChecksRunning, JoinChecksCount, JoinIsAnswered, OnChatMessage, SendChat,
     ChatReads, ChatLoads, ChatStores, ChatIsChecked, ChatAdds

(* A game that is alone is played with the players the host has, from its  *)
(* first event to its return: nobody joins behind its back.                *)
THEOREM NobodyJoinsAGame == Spec => []TableIsFixed
<1>1. Init => TypeOK /\ OneGame
  BY TypeInit DEF Init, OneGame, InPlay
<1>2. TypeOK /\ OneGame /\ [Next]_vars => TypeOK' /\ OneGame'
  BY TypeStep, OneGameStep
<1>3. OneGame => TableIsFixed
  BY DEF OneGame, InPlay, TableIsFixed
<1> QED
  BY <1>1, <1>2, <1>3, PTL DEF Spec
-----------------------------------------------------------------------------
\* What each client has been sent

Views == [players : Seq(Identities), chats : SUBSET Chats, event : Nat]

\* An event that is being sent is the last one, and everybody has had it once
\* it has been sent, with one game at a time.
EventInv ==
  (\A g, h \in Games : g = h) =>
    /\ \A g \in Games : play[g].pc = "Sending" => play[g].event = lastGameEvent
    /\ (\A g \in Games : play[g].pc # "Sending") =>
         \A c \in Registered : view[c].event = lastGameEvent

ViewInv ==
  /\ view \in [Clients -> Views]
  /\ \A c \in Registered : view[c].players = protoPlayers /\ Chatted \subseteq view[c].chats
  /\ EventInv

(* A full log loses its first message and gets the new one, nothing else.  *)
LEMMA LogGrowsByOne ==
  ASSUME TypeOK, NEW k \in Chats, ChatAdds(k)
  PROVE  Chatted' \subseteq Chatted \cup {k}
<1> DEFINE kept == IF Len(chatMessages) >= MaxKept THEN Tail(chatMessages) ELSE chatMessages
<1>0. chatMessages \in Seq(Chats) /\ MaxKept \in Nat \ {0}
  BY BoundsAssumption DEF TypeOK, ChattingOK
<1>1. kept \in Seq(Chats) /\ \A i \in 1..Len(kept) : kept[i] \in Chatted
  <2>1. CASE Len(chatMessages) >= MaxKept
    <3>1. chatMessages # <<>>
      BY <1>0, <2>1, EmptySeq
    <3>2. /\ Tail(chatMessages) \in Seq(Chats)
          /\ Len(Tail(chatMessages)) = Len(chatMessages) - 1
          /\ \A i \in 1..Len(Tail(chatMessages)) :
               Tail(chatMessages)[i] = chatMessages[i + 1]
      BY <1>0, <3>1, HeadTailProperties
    <3>3. Len(chatMessages) \in Nat
      BY <1>0, LenProperties
    <3> QED
      BY <2>1, <3>2, <3>3 DEF Chatted
  <2>2. CASE ~(Len(chatMessages) >= MaxKept)
    BY <1>0, <2>2 DEF Chatted
  <2> QED
    BY <2>1, <2>2
<1>2. chatMessages' = Append(kept, k)
  BY DEF ChatAdds
<1> HIDE DEF kept
<1>3. /\ Len(Append(kept, k)) = Len(kept) + 1
      /\ \A i \in 1..Len(kept) : Append(kept, k)[i] = kept[i]
      /\ Append(kept, k)[Len(kept) + 1] = k
      /\ Len(kept) \in Nat
  BY <1>1, AppendProperties, LenProperties
<1>4. ASSUME NEW i \in 1..Len(chatMessages')
      PROVE  chatMessages'[i] \in Chatted \cup {k}
  BY <1>1, <1>2, <1>3, <1>4
<1> QED
  BY <1>4 DEF Chatted

LEMMA ViewStep ==
  ASSUME HostInv, HostInv', ViewInv, [Next]_vars
  PROVE  ViewInv'
<1> USE DEF ViewInv, EventInv
<1>0. TypeOK /\ clients \in [Clients -> Entries] /\ play \in [Games -> PlayStates]
  BY DEF HostInv, TypeOK, PeopleOK, GamingOK
<1>1. ASSUME NEW c \in Clients, OnRun(c)
      PROVE  ViewInv'
  <2>1. /\ clients' = [clients EXCEPT ![c] = Guest]
        /\ view' = [view EXCEPT ![c] = [players |-> protoPlayers, chats |-> Chatted,
                                        event   |-> lastGameEvent]]
        /\ UNCHANGED <<protoPlayers, chatMessages, play, lastGameEvent>>
    BY <1>1 DEF OnRun, lists, chatting, gaming
  <2>2. Chatted \subseteq Chats
    BY <1>0, ElementOfSeq DEF TypeOK, ChattingOK, Chatted
  <2>3. [players |-> protoPlayers, chats |-> Chatted, event |-> lastGameEvent] \in Views
    BY <1>0, <2>2 DEF Views, TypeOK, ListsOK, GamingOK
  <2>4. Registered' \subseteq Registered \cup {c} /\ Chatted' = Chatted
    BY <1>0, <2>1 DEF Registered, Chatted
  <2> QED
    BY <2>1, <2>3, <2>4
<1>2. ASSUME NEW j \in Joins, JoinAdds(j)
      PROVE  ViewInv'
  <2>1. UNCHANGED <<chatMessages, play, lastGameEvent>> /\ Chatted' = Chatted
    BY <1>2 DEF JoinAdds, chatting, gaming, Chatted
  <2>2. CASE UNCHANGED <<clients, lists, view>>
    BY <2>1, <2>2 DEF Registered, lists
  <2>3. CASE Admitted(join[j].client, join[j].who)
    <3>1. clients' = [clients EXCEPT ![join[j].client] = Member(join[j].who)]
      BY <1>2, <2>3 DEF JoinAdds
    <3>2. view' = [d \in Clients |-> IF d \in Registered
                                       THEN [view[d] EXCEPT !.players = protoPlayers']
                                       ELSE view[d]]
      BY <1>2, <2>3 DEF JoinAdds
    <3>3. Registered' = Registered
      BY <1>0, <2>3, <3>1 DEF Registered, Admitted, Guest, Absent, Member
    <3>4. protoPlayers' \in Seq(Identities)
      BY DEF HostInv, TypeOK, ListsOK
    <3>5. \A d \in Clients : [view[d] EXCEPT !.players = protoPlayers'] \in Views
      BY <3>4 DEF Views
    <3>6. \A d \in Registered :
            /\ d \in Clients
            /\ view'[d].players = protoPlayers' /\ view'[d].chats = view[d].chats
            /\ view'[d].event = view[d].event
      BY <3>2 DEF Registered, Views
    <3>7. view' \in [Clients -> Views]
      BY <3>2, <3>5
    <3> QED
      BY <2>1, <3>3, <3>6, <3>7
  <2> QED
    BY <1>2, <2>2, <2>3 DEF JoinAdds
<1>3. ASSUME NEW k \in Chats, ChatAdds(k)
      PROVE  ViewInv'
  <2>1. /\ UNCHANGED <<clients, protoPlayers, play, lastGameEvent>>
        /\ view' = [d \in Clients |-> IF d \in Registered
                                        THEN [view[d] EXCEPT !.chats = @ \cup {k}]
                                        ELSE view[d]]
    BY <1>3 DEF ChatAdds, people, lists, gaming
  <2>2. Registered' = Registered
    BY <2>1 DEF Registered
  <2>3. \A d \in Clients : [view[d] EXCEPT !.chats = @ \cup {k}] \in Views
    BY DEF Views
  <2>4. \A d \in Registered :
          /\ d \in Clients
          /\ view'[d].players = view[d].players /\ view'[d].chats = view[d].chats \cup {k}
          /\ view'[d].event = view[d].event
    BY <2>1 DEF Registered, Views
  <2>5. Chatted' \subseteq Chatted \cup {k}
    BY <1>0, <1>3, LogGrowsByOne
  <2>6. view' \in [Clients -> Views]
    BY <2>1, <2>3
  <2> QED
    BY <2>1, <2>2, <2>4, <2>5, <2>6
<1>4. ASSUME NEW g \in Games, Game(g)
      PROVE  ViewInv'
  <2>1. UNCHANGED <<clients, protoPlayers, chatMessages>>
    BY <1>4 DEF Game, PlayGame, OnEvent, SendEvent, GameFails, GameCompletes, GameReturns,
                people, lists, chatting
  <2>2. Registered' = Registered /\ Chatted' = Chatted
    BY <2>1 DEF Registered, Chatted
  <2>3. CASE OnEvent(g)
    <3>1. /\ play' = [play EXCEPT ![g] =
               [pc |-> "Sending", players |-> play[g].players, event |-> lastGameEvent + 1]]
          /\ lastGameEvent' = lastGameEvent + 1 /\ UNCHANGED view
      BY <2>3 DEF OnEvent
    <3> QED
      BY <1>0, <2>1, <2>2, <3>1
  <2>4. CASE SendEvent(g)
    <3>1. /\ play[g].pc = "Sending" /\ play'[g].pc = "Playing" /\ UNCHANGED lastGameEvent
          /\ view' = [c \in Clients |-> IF c \in Registered
                                          THEN [view[c] EXCEPT !.event = play[g].event]
                                          ELSE view[c]]
          /\ \A h \in Games : h # g => play'[h] = play[h]
      BY <1>0, <2>4 DEF SendEvent
    <3>2. play[g].event \in Nat
      BY <1>0, <3>1 DEF PlayStates
    <3>3. \A d \in Clients : [view[d] EXCEPT !.event = play[g].event] \in Views
      BY <3>2 DEF Views
    <3>4. \A d \in Registered :
            /\ d \in Clients
            /\ view'[d].players = view[d].players /\ view'[d].chats = view[d].chats
            /\ view'[d].event = play[g].event
      BY <3>1 DEF Registered, Views
    <3>5. view' \in [Clients -> Views]
      BY <3>1, <3>3
    <3> QED
      BY <2>1, <2>2, <3>1, <3>4, <3>5
  <2>5. CASE PlayGame(g) \/ GameFails(g) \/ GameCompletes(g) \/ GameReturns(g)
    <3>1. UNCHANGED <<view, lastGameEvent>>
      BY <2>5 DEF PlayGame, GameFails, GameCompletes, GameReturns
    <3>2. /\ play[g].pc # "Sending" /\ play'[g].pc # "Sending"
          /\ \A h \in Games : h # g => play'[h] = play[h]
      BY <1>0, <2>5 DEF PlayGame, GameFails, GameCompletes, GameReturns, PlayStates
    <3> QED
      BY <2>1, <2>2, <3>1, <3>2
  <2> QED
    BY <1>4, <2>3, <2>4, <2>5 DEF Game
<1>5. CASE UNCHANGED <<clients, protoPlayers, chatMessages, play, lastGameEvent, view>>
  BY <1>5 DEF Registered, Chatted
<1> QED
  BY <1>1, <1>2, <1>3, <1>4, <1>5
     DEF Next, Step, vars, people, lists, chatting, gaming, Link, Connect, Disconnect,
         OnStartJoin, AskToJoin, JoinChecksRunning, JoinChecksCount, JoinIsAnswered,
         OnChatMessage, SendChat, ChatReads, ChatLoads, ChatStores, ChatIsChecked

(* Whoever connects while others join, chat and play misses nothing: the   *)
(* welcome and what is sent after it leave no gap.                         *)
THEOREM NobodyMissesAnything == Spec => []NothingIsMissed
<1>1. Init => ViewInv
  <2> SUFFICES ASSUME Init PROVE ViewInv
    OBVIOUS
  <2>1. Registered = {} /\ \A g \in Games : play[g].pc # "Sending"
    BY DEF Init, Registered
  <2>2. view \in [Clients -> Views]
    BY EmptySeq DEF Init, Views
  <2> QED
    BY <2>1, <2>2 DEF ViewInv, EventInv
<1>2. HostInv /\ HostInv' /\ ViewInv /\ [Next]_vars => ViewInv'
  BY ViewStep
<1>3. ViewInv => NothingIsMissed
  BY DEF ViewInv, EventInv, NothingIsMissed
<1> QED
  BY <1>1, <1>2, <1>3, HostInvariant, PTL DEF Spec
=============================================================================
