------------------------ MODULE ConnectionProperties ------------------------
(* What the stream between the host and a player (module Connection) keeps *)
(* and what it does not.                                                   *)
EXTENDS Connection

Messages == [notice : Notices \cup {None}, call : Calls \cup {None}]

SlotValues == Calls \cup {None}

(* Every field of the connection keeps to its type.                        *)
TypeOK ==
  /\ loop \in {"New", "Select", "Notify", "Close", "Returned"}
  /\ cause \in {None, "SendError", "RecvError", "NoRequest", "UnknownMessage", "Failed"}
  /\ crash \in {None, "Sender", "Failer", "Receiver", "Blocked"}
  /\ senders \subseteq Messages
  /\ failers \in Nat /\ fails \in Nat /\ asks \in Nat
  /\ receiver \in Calls \cup Asks \cup {"Recv", "Err", "Gone"}
  /\ valCh \in SlotValues /\ errCh \in SlotValues
  /\ call \in [Calls -> {"Idle", "Registered", "Waiting", "Answered", "Unmatched",
                         "Failed", "TimedOut", "Refused"}]
  /\ answer \in [Calls -> SlotValues] /\ got \in [Calls -> SlotValues]
  /\ told \in [Calls -> BOOLEAN]
  /\ astray \subseteq Calls
  /\ stream \in {"Open", "Broken"} /\ player \in {"On", "Off"}
  /\ toPlayer \in Seq(Messages) /\ fromPlayer \in Seq(Calls \cup Asks)
  /\ replies \subseteq Calls
  /\ sent \subseteq Notices

(* As long as no call has lost its place in the two fields, by a timeout,  *)
(* a cancellation or a second call, every answer reaches the call it       *)
(* answers, and the player is never dropped for an answer nobody asked for *)
(* (client.go, "Sent RCP response without request").                       *)
OneCallAtATime ==
  astray = {} =>
    /\ \A c \in Calls : call[c] \in {"Answered", "Unmatched"} => got[c] = c
    /\ cause # "NoRequest"

\* The places a call and its answer pass through, between SendNonBlocking
\* and the channel of doRPC.
Copies(c) ==
  Cardinality({m \in senders : m.call = c})
  + Cardinality({i \in 1..Len(toPlayer) : toPlayer[i].call = c})
  + Cardinality({c} \cap replies)
  + Cardinality({i \in 1..Len(fromPlayer) : fromPlayer[i] = c})
  + Cardinality({c} \cap {receiver})
  + Cardinality({d \in Calls : answer[d] = c})

(* While the stream is up, a call that waits in its own place is on its    *)
(* way there or back, exactly once, and the fields are its own until the   *)
(* answer is in its channel.                                               *)
CallIsSomewhere ==
  loop = "Select" /\ stream = "Open" =>
    \A c \in Calls : call[c] = "Waiting" /\ c \notin astray /\ astray = {} =>
      /\ Copies(c) = 1
      /\ (valCh = c) <=> (answer[c] = None)

(* No call is left to wait out its minute on a connection that has ended:  *)
(* it has been told, unless it came too late or had lost its place.        *)
NobodyLeftWaiting ==
  loop = "Returned" =>
    \A c \in Calls :
      \/ call[c] # "Waiting"
      \/ told[c] \/ answer[c] # None
      \/ errCh = c \/ c \in astray

(* A failure asked for with FailNonBlocking ends Run, whatever else is     *)
(* sent and received: the loop never blocks on a call that has gone.       *)
FailIsServed == failers > 0 ~> loop = "Returned"
-----------------------------------------------------------------------------
\* What a message of the repository says and the code does not keep.

(* "Not running" (client.go) is what SendNonBlocking answers when the      *)
(* connection has ended; nobody panics for a late message.                 *)
LateSendIsRefused == crash # "Sender"
=============================================================================
