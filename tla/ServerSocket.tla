----------------------------- MODULE ServerSocket -----------------------------
(***************************************************************************)
(* The connection to the matchmaking server: the listener thread of        *)
(* CrowServe::Socket (src/crow_serve/CrowServe.h, CrowServe.cpp) with its  *)
(* handler of the profile (src/snp/CrowServeManager.cpp), and the          *)
(* destructors that end it.                                                *)
(*                                                                         *)
(* A message is received whole or with its body cut.  What the handlers of *)
(* the other messages do is in AgentSession and GameList.  Left out: the   *)
(* status callback, the logs, and which addresses getaddrinfo returns.     *)
(* External: the network, and the server, which answers a request for a    *)
(* profile with the id that is asked for if it has given it, else with a   *)
(* new one, sends heartbeats over a connection on which it has answered,   *)
(* and puts one message under each header.                                 *)
(***************************************************************************)
EXTENDS Integers, Sequences, SequencesExt

CONSTANTS MaxFaults,   \* how often the server or the network fails
          MaxSilence,  \* the seconds by which heartbeats may be apart
          MaxId        \* how many ids the server gives

ASSUME BoundsAssumption ==
    /\ MaxFaults \in Nat /\ MaxSilence \in Nat
    /\ MaxId \in Nat /\ MaxId > MaxFaults

NoId == 0             \* before the first profile
Ids == 1..MaxId
ZeroId == MaxId + 1   \* the address of which every byte is zero

(* The seconds without a message after which the listener gives up.        *)
MissedHeartbeats == 6

VARIABLES listener,  \* where the listener thread is
          state,     \* m_state
          profile,   \* m_profile_received
          id,        \* m_id, once m_id_received
          retry,     \* m_retry_counter
          quiet,     \* the seconds since m_last_message
          destroyer, \* where the destructors are
          conn,      \* the connection of m_socket: "none", "open", "closed" by
                     \* the server, or "dead": nothing gets through, unnoticed
          requests,  \* on their way to the server: the ids they ask for
          inbox,     \* on their way to the listener
          hand,      \* the message that the listener has received
          up,        \* the server accepts connections
          serving,   \* the server has sent a profile over the connection
          given,     \* the ids the server has given so far are 1..given
          faults

mine == <<state, profile, id, retry, quiet, hand>>
wire == <<conn, requests, inbox>>
world == <<up, serving, given, faults>>
vars == <<listener, mine, destroyer, wire, world>>

Profile(i) == [type |-> "ClientProfile", id |-> i]
Heartbeat == [type |-> "AdvertisementsRequest", id |-> NoId]
Rest == [type |-> "rest of a body", id |-> NoId]

(* What a handler is given for a body that cannot be deserialized.         *)
Default(message) ==
    IF message.type = "ClientProfile" THEN Profile(ZeroId) ELSE message

Init ==
    /\ listener = "loop" /\ state = "Disconnected" /\ profile = FALSE
    /\ id = NoId /\ retry = 0 /\ quiet = 0 /\ destroyer = "none"
    /\ conn = "none" /\ requests = <<>> /\ inbox = <<>> /\ hand = Heartbeat
    /\ up = TRUE /\ serving = FALSE /\ given = 0 /\ faults = 0

Stopped == destroyer # "none"

-----------------------------------------------------------------------------
(* disconnect.  What was on the wire is lost.                              *)
CloseSocket == conn' = "none" /\ requests' = <<>> /\ inbox' = <<>>
Disconnect == CloseSocket /\ state' = "Disconnected"

(* The listener thread.  Its loop, up to the start of try_init, which      *)
(* forgets the profile but not the id.  A slip does not forget it.         *)
KeptProfile == profile
ProfileAtStart == FALSE

Loop ==
    /\ listener = "loop"
    /\ \/ /\ Stopped
          /\ listener' = "ended"
          /\ UNCHANGED mine
       \/ /\ ~Stopped /\ state # "Ready"
          /\ listener' = "init"
          /\ state' = "Connecting" /\ profile' = ProfileAtStart
          /\ UNCHANGED <<id, retry, quiet, hand>>
       \/ /\ ~Stopped /\ state = "Ready"
          /\ listener' = "request"
          /\ UNCHANGED mine
    /\ UNCHANGED <<destroyer, wire, world>>

(* try_init ends.  A slip does not look for a stop.                        *)
LeaveReady ==
    /\ listener = "init"
    /\ state = "Ready"
    /\ listener' = "request"
    /\ UNCHANGED <<mine, destroyer, wire, world>>

LeaveInit ==
    /\ listener = "init"
    /\ Stopped \/ state = "Ready"
    /\ listener' = "request"
    /\ UNCHANGED <<mine, destroyer, wire, world>>

(* One attempt.  The socket is created after the last look for a stop, and *)
(* connected before m_state says so.  A failure counts once for the name,  *)
(* or once for each address and once more.  A disconnect of the destructor *)
(* may, by closing the socket, make the attempt fail.                      *)
Attempt ==
    /\ listener = "init" /\ ~Stopped /\ state # "Ready"
    /\ listener' = "attempt"
    /\ UNCHANGED <<mine, destroyer, wire, world>>

Connect ==
    /\ listener = "attempt"
    /\ \/ /\ up
          /\ listener' = "connected"
          /\ conn' = "open" /\ requests' = <<>> /\ inbox' = <<>>
          /\ serving' = FALSE
          /\ UNCHANGED retry
       \/ /\ ~up \/ Stopped
          /\ \E failures \in 1..3 :
                retry' = IF retry + failures < 3 THEN retry + failures ELSE 3
          /\ listener' = "init"
          /\ UNCHANGED <<wire, serving>>
    /\ UNCHANGED <<state, profile, id, quiet, hand, destroyer,
                   up, given, faults>>

BecomeReady ==
    /\ listener = "connected"
    /\ state' = "Ready" /\ retry' = 0
    /\ listener' = "init"
    /\ UNCHANGED <<profile, id, quiet, hand, destroyer, wire, world>>

(* The request for a profile, which asks for the id that is known.  A slip *)
(* asks for none.                                                          *)
AskForAny == NoId
IdToAskFor == id

RequestProfile ==
    /\ listener = "request"
    /\ requests' = IF ~profile /\ state = "Ready" /\ conn = "open"
                   THEN Append(requests, IdToAskFor) ELSE requests
    /\ listener' = "poll"
    /\ UNCHANGED <<mine, destroyer, conn, inbox, world>>

(* The socket has been closed, or the server has closed it.                *)
Hangup == conn = "none" \/ (conn = "closed" /\ inbox = <<>>)

PollReady ==
    /\ listener = "poll"
    /\ inbox # <<>> \/ Hangup
    /\ quiet' = 0
    /\ listener' = "header"
    /\ UNCHANGED <<state, profile, id, retry, hand, destroyer, wire, world>>

(* Nothing has come.  Without a profile the listener goes on to receive.   *)
PollNothing ==
    /\ listener = "poll" /\ ~profile
    /\ inbox = <<>> /\ ~Hangup
    /\ quiet' = 0
    /\ listener' = "header"
    /\ UNCHANGED <<state, profile, id, retry, hand, destroyer, wire, world>>

(* A second in which nothing has come.  m_missed_heartbeats counts them.    *)
(* Slips are off by one, either way.                                       *)
LessPatience == MissedHeartbeats - 1
MorePatience == MissedHeartbeats + 1
Patience == MissedHeartbeats

MissHeartbeat ==
    /\ listener = "poll" /\ profile
    /\ inbox = <<>> /\ ~Hangup
    /\ conn = "open" /\ serving => quiet < MaxSilence
    /\ IF quiet + 1 >= Patience
       THEN quiet' = 0 /\ Disconnect
       ELSE quiet' = quiet + 1 /\ UNCHANGED <<state, wire>>
    /\ listener' = "loop"
    /\ UNCHANGED <<profile, id, retry, hand, destroyer, world>>

(* receive_into fails: the socket is closed, or for a second nothing has   *)
(* come, which takes a fault of the server or of the network.              *)
ReceiveNothing ==
    /\ listener = "header" /\ inbox = <<>>
    /\ \/ /\ Hangup \/ conn = "dead"
          /\ UNCHANGED faults
       \/ /\ conn = "open" /\ faults < MaxFaults
          /\ faults' = faults + 1
    /\ Disconnect
    /\ listener' = "loop"
    /\ UNCHANGED <<profile, id, retry, quiet, hand, destroyer,
                   up, serving, given>>

(* A whole message.  It is not handled once a stop has been requested.     *)
Receive ==
    /\ listener = "header" /\ inbox # <<>> /\ Head(inbox) # Rest
    /\ hand' = Head(inbox) /\ inbox' = Tail(inbox)
    /\ listener' = IF Stopped THEN "ended" ELSE "handle"
    /\ UNCHANGED <<state, profile, id, retry, quiet, destroyer,
                   conn, requests, world>>

(* recv returns a part of the body.  It is not understood, which nobody    *)
(* looks at: the handler gets a default message.                           *)
ReceiveCut ==
    /\ listener = "header" /\ inbox # <<>> /\ Head(inbox) # Rest
    /\ faults < MaxFaults /\ faults' = faults + 1
    /\ hand' = Default(Head(inbox)) /\ inbox' = <<Rest>> \o Tail(inbox)
    /\ listener' = IF Stopped THEN "ended" ELSE "handle"
    /\ UNCHANGED <<state, profile, id, retry, quiet, destroyer,
                   conn, requests, up, serving, given>>

(* What is left of the body lacks the magic bytes of a header.             *)
RefuseRest ==
    /\ listener = "header" /\ inbox # <<>> /\ Head(inbox) = Rest
    /\ Disconnect
    /\ listener' = "loop"
    /\ UNCHANGED <<profile, id, retry, quiet, hand, destroyer, world>>

(* set_profile, for a profile.                                             *)
Handle ==
    /\ listener = "handle"
    /\ IF hand.type = "ClientProfile"
       THEN id' = hand.id /\ profile' = TRUE
       ELSE UNCHANGED <<id, profile>>
    /\ listener' = "loop"
    /\ UNCHANGED <<state, retry, quiet, hand, destroyer, wire, world>>

Listener ==
    \/ Loop \/ LeaveInit \/ Attempt \/ Connect \/ BecomeReady
    \/ RequestProfile
    \/ PollReady \/ PollNothing \/ MissHeartbeat
    \/ ReceiveNothing \/ Receive \/ ReceiveCut \/ RefuseRest \/ Handle

-----------------------------------------------------------------------------
(* The thread that destroys the context.  ~CrowServeManager requests a     *)
(* stop, disconnects and joins the listener; ~Socket disconnects again.  A *)
(* slip trusts the first disconnect.                                       *)
KeepSocket == UNCHANGED <<state, wire>>
DestroySocket == Disconnect

RequestStop ==
    /\ destroyer = "none"
    /\ destroyer' = "requested"
    /\ UNCHANGED <<listener, mine, wire, world>>

DisconnectToStop ==
    /\ destroyer = "requested"
    /\ Disconnect
    /\ destroyer' = "joining"
    /\ UNCHANGED <<listener, profile, id, retry, quiet, hand, world>>

Join ==
    /\ destroyer = "joining" /\ listener = "ended"
    /\ DestroySocket
    /\ destroyer' = "done"
    /\ UNCHANGED <<listener, profile, id, retry, quiet, hand, world>>

Destroyer == RequestStop \/ DisconnectToStop \/ Join

-----------------------------------------------------------------------------
(* The server.                                                             *)
Answer ==
    /\ conn = "open" /\ requests # <<>>
    /\ LET asked == Head(requests)
           new == IF asked \in Ids THEN asked ELSE given + 1
       IN  /\ new \in Ids
           /\ inbox' = Append(inbox, Profile(new))
           /\ given' = IF asked \in Ids THEN given ELSE new
    /\ serving' = TRUE
    /\ requests' = Tail(requests)
    /\ UNCHANGED <<listener, mine, destroyer, conn, up, faults>>

Beat ==
    /\ conn = "open" /\ serving /\ inbox = <<>>
    /\ inbox' = <<Heartbeat>>
    /\ UNCHANGED <<listener, mine, destroyer, conn, requests, world>>

ServerFails ==
    /\ up /\ up' = FALSE
    /\ conn' = IF conn = "open" THEN "closed" ELSE conn
    /\ requests' = <<>>
    /\ faults < MaxFaults /\ faults' = faults + 1
    /\ UNCHANGED <<listener, mine, destroyer, inbox, serving, given>>

ServerStarts ==
    /\ ~up /\ up' = TRUE
    /\ UNCHANGED <<listener, mine, destroyer, wire, serving, given, faults>>

(* The server closes the connection, or the network loses it unnoticed.    *)
ConnectionFails ==
    /\ conn = "open" /\ conn' \in {"closed", "dead"}
    /\ requests' = <<>>
    /\ faults < MaxFaults /\ faults' = faults + 1
    /\ UNCHANGED <<listener, mine, destroyer, inbox, up, serving, given>>

World == Answer \/ Beat \/ ServerFails \/ ServerStarts \/ ConnectionFails

Next == Listener \/ Destroyer \/ World

Spec == Init /\ [][Next]_vars

(* The listener runs, the server answers and restarts, and a destructor    *)
(* that has begun goes on.                                                 *)
Fairness ==
    /\ WF_vars(Listener)
    /\ WF_vars(DisconnectToStop) /\ WF_vars(Join)
    /\ WF_vars(Answer) /\ WF_vars(Beat) /\ WF_vars(ServerStarts)

FairSpec == Spec /\ Fairness

-----------------------------------------------------------------------------
(* Every variable has its type.  The seconds of silence stay below the     *)
(* limit and no more than one request is under way, although one is sent   *)
(* in every turn of the loop that finds no profile.                        *)
TypeOK ==
    /\ listener \in {"loop", "init", "attempt", "connected", "request", "poll",
                     "header", "handle", "ended"}
    /\ state \in {"Disconnected", "Connecting", "Ready"}
    /\ profile \in BOOLEAN /\ id \in {NoId, ZeroId} \cup Ids
    /\ retry \in 0..3 /\ quiet \in 0..MissedHeartbeats-1
    /\ destroyer \in {"none", "requested", "joining", "done"}
    /\ conn \in {"none", "open", "closed", "dead"}
    /\ requests \in {<<>>} \cup {<<i>> : i \in {NoId, ZeroId} \cup Ids}
    /\ hand \in {Heartbeat} \cup {Profile(i) : i \in Ids \cup {ZeroId}}
    /\ Len(inbox) <= 1 /\ ToSet(inbox) \subseteq {Heartbeat, Rest} \cup {Profile(i) : i \in Ids}
    /\ up \in BOOLEAN /\ serving \in BOOLEAN /\ given \in {0} \cup Ids /\ faults \in 0..MaxFaults

(* The client keeps the id the server has given it through every           *)
(* reconnection (m_id and the request_token of the ConnectionRequest),     *)
(* since peers know it by this id.  It loses it only for the zero address, *)
(* when the body of a profile is cut.                                      *)
IdentityKept == [][(id \in Ids) => (id' \in {id, ZeroId})]_vars

(* The listener drops a connection that works, with a profile, only after  *)
(* a fault of the server or the network or for what is left of a cut body, *)
(* not for heartbeats that are merely late (m_missed_heartbeats > 5).      *)
ConnectionKept ==
    [][conn = "open" /\ conn' # "open" /\ profile /\ ~Stopped
       => faults' > faults \/ Rest \in ToSet(inbox)]_vars

(* However the server and the network have failed, unless the context is   *)
(* destroyed the client in the end has an id and a connection over which   *)
(* the server has sent it the profile: it takes part again in all that the *)
(* server does, and not only at the first connection.                      *)
Served ==
    state = "Ready" /\ conn = "open" /\ profile /\ id \in Ids /\ serving

EventuallyServed == []~Stopped => <>[]Served

(* Destroying the context always ends: the listener notices the stop from  *)
(* wherever it is and is joined.                                           *)
StopEnds == Stopped ~> destroyer = "done"

(* The destroyed context leaves no connection behind, also when the        *)
(* listener made one after ~CrowServeManager disconnected.                 *)
NothingLeftOpen == destroyer = "done" => conn = "none"
=============================================================================
