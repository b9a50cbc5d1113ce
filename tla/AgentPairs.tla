------------------------------ MODULE AgentPairs ------------------------------
(***************************************************************************)
(* JuiceManager and its pairs of agents (src/snp/JuiceManager.cpp and .h): *)
(* which agent a packet of the game leaves by, legacy peers, the           *)
(* retirement of idle pairs, and the custom packets, by which a ping is    *)
(* answered: libjuice's callback queues the answer and a thread sends it.  *)
(*                                                                         *)
(* Four threads meet here.  The callers, Storm and the listener, are one   *)
(* variable, since one of them at a time holds m_mutex.  Latencies and the *)
(* quality of a connection may be anything; what the handshake does is in  *)
(* AgentSession, and here an agent may connect or fail at any time.  The   *)
(* strategies other than AdaptiveRedundant, which nothing selects, are     *)
(* left out.                                                               *)
(* External: libjuice runs its callbacks one after another, and a call     *)
(* that sends with an agent or destroys one waits for them to return.      *)
(***************************************************************************)
EXTENDS Integers, Sequences

CONSTANTS Peers,
          Nobody,
          PingEvery,   \* PING_EVERY
          MaxBacklog   \* pings come in only while fewer answers are queued

ASSUME PairsAssumption ==
    /\ Nobody \notin Peers
    /\ PingEvery \in Nat \ {0} /\ MaxBacklog \in Nat \ {0}

Types == {"p2p", "relay"}

VARIABLES link,      \* the agents in m_agents: "none", or what m_p2p_state
                     \* says, "down" for all states before the connection
          active,    \* the peers with an agent used within two minutes
          count,     \* m_send_counter modulo PingEvery
          call,      \* what the caller that holds m_mutex is doing
          queue,     \* m_custom_packet_queue
          ready,     \* m_custom_packet_ready is signalled
          worker,    \* where m_custom_packet_thread is
          packet,    \* the packet it has taken from the queue
          callback,  \* what libjuice's thread is doing
          running,   \* m_custom_packet_thread_running
          destroyer  \* where ~JuiceManager is

pairs == <<link, active, count>>
thread == <<worker, packet>>
vars == <<pairs, call, queue, ready, thread, callback, running, destroyer>>

Packets == [peer : Peers, type : Types]

NoCall == [at |-> "none", peer |-> Nobody, to |-> {}, sent |-> FALSE, steady |-> TRUE]
NoPacket == [peer |-> Nobody, type |-> "p2p"]
Quiet == [at |-> "idle", packet |-> NoPacket]

Init ==
    /\ link = [p \in Peers |-> [t \in Types |-> "none"]]
    /\ active = {} /\ count = [p \in Peers |-> 0]
    /\ call = NoCall
    /\ queue = <<>> /\ ready = FALSE
    /\ worker = "check" /\ packet = NoPacket
    /\ callback = Quiet
    /\ running = TRUE /\ destroyer = "none"

(* The legacy flag is set when, and only when, the relay agent goes.       *)
Known(p) == link[p]["p2p"] # "none"
Legacy(p) == Known(p) /\ link[p]["relay"] = "none"

(* A call into libjuice that waits for the callbacks.                      *)
JuiceFree == callback = Quiet

(* m_mutex.  A caller begins only before the context is destroyed.         *)
MutexFree == call = NoCall /\ worker # "send"
CanCall == MutexFree /\ destroyer = "none"

-----------------------------------------------------------------------------
(* The callers.  ensure_agent, and then what the call does at first.       *)
EnsureAgent(p) ==
    IF Known(p) THEN UNCHANGED <<link, active>>
    ELSE /\ link' = [link EXCEPT ![p] = [t \in Types |-> "down"]]
         /\ active' = active \cup {p}

Begin(p, at) ==
    /\ CanCall
    /\ EnsureAgent(p)
    /\ call' = [NoCall EXCEPT !.at = at, !.peer = p]

Rest == UNCHANGED <<queue, ready, thread, callback, running, destroyer>>

(* The poll of the game list looks at the state, and asks for a connection.*)
Ask(p) ==
    /\ CanCall
    /\ EnsureAgent(p)
    /\ count' = IF Known(p) THEN count ELSE [count EXCEPT ![p] = 0]
    /\ UNCHANGED call /\ Rest

(* send_p2p, which sends pings now and then.                               *)
SendP2p(p) ==
    /\ LET n == (IF Known(p) THEN count[p] + 1 ELSE 1) % PingEvery
       IN  /\ count' = [count EXCEPT ![p] = n]
           /\ Begin(p, IF n = 0 THEN "pings" ELSE "choose")
    /\ Rest

SendPings ==
    /\ call.at = "pings"
    /\ LET connected == \E t \in Types : link[call.peer][t] = "up"
       IN  /\ connected => JuiceFree
           /\ active' = IF connected THEN active \cup {call.peer} ELSE active
    /\ call' = [call EXCEPT !.at = "choose"]
    /\ UNCHANGED <<link, count>> /\ Rest

(* get_best: the agents it may return, whatever the latencies are.  A slip *)
(* looks at the P2P agent first, another one only at the relay agent.      *)
BestP2pFirst(p) ==
    IF link[p]["p2p"] # "up" THEN {"relay"}
    ELSE IF link[p]["relay"] # "up" THEN {"p2p"}
    ELSE Types

BestByRelay(p) == IF link[p]["relay"] # "up" THEN {"p2p"} ELSE Types

Best(p) ==
    IF link[p]["relay"] # "up" THEN {"p2p"}
    ELSE IF link[p]["p2p"] # "up" THEN {"relay"}
    ELSE Types

(* send_legacy; or the adaptive strategy, which may, when both agents are  *)
(* connected, send with both.                                              *)
Choose ==
    /\ call.at = "choose"
    /\ LET p == call.peer
       IN  \/ /\ Legacy(p)
              /\ call' = [call EXCEPT !.at = "best",
                                      !.to = {t \in {"p2p"} : link[p][t] = "up"}]
           \/ /\ ~Legacy(p)
              /\ \E t \in Best(p) : call' = [call EXCEPT !.at = "best", !.to = {t}]
           \/ /\ \A t \in Types : link[p][t] = "up"
              /\ call' = [call EXCEPT !.at = "redundant", !.to = Types]
    /\ UNCHANGED pairs /\ Rest

(* An agent that is not connected any more asks for a connection or, if it *)
(* has failed, is reset.                                                   *)
SendMessage(p, t) ==
    /\ link[p][t] \in {"up", "failed"} => JuiceFree
    /\ active' = active \cup {p}
    /\ link' = [link EXCEPT ![p][t] = IF link[p][t] = "failed" THEN "down" ELSE @]

(* The P2P agent's turn comes first.                                       *)
Send ==
    /\ call.at \in {"best", "redundant"}
    /\ \E t \in call.to :
          LET p == call.peer
              state == link[p][t]
          IN  /\ "p2p" \in call.to => t = "p2p"
              /\ call' = [call EXCEPT !.to = @ \ {t}, !.sent = @ \/ state = "up"]
              /\ IF call.at = "redundant" /\ state # "up"
                 THEN UNCHANGED <<link, active>> ELSE SendMessage(p, t)
    /\ UNCHANGED count /\ Rest

Return ==
    /\ call.at \in {"best", "redundant"} /\ call.to = {}
    /\ call' = NoCall
    /\ UNCHANGED pairs /\ Rest

(* A message of the peer for one of its agents, which may be reset; the    *)
(* first one of a legacy peer turns the pair into one agent.  A slip drops *)
(* the wrong one.                                                          *)
HandleCrownlinkMessage(p) ==
    /\ \/ \E t \in Types :
             /\ CanCall /\ EnsureAgent(p)
             /\ call' = [NoCall EXCEPT !.at = "handle", !.peer = p, !.to = {t}]
       \/ Begin(p, IF Legacy(p) THEN "handle" ELSE "legacy")
    /\ count' = IF Known(p) THEN count ELSE [count EXCEPT ![p] = 0]
    /\ Rest

HandleByAgent ==
    /\ call.at = "handle"
    /\ LET p == call.peer
           t == IF call.to = {"relay"} THEN "relay" ELSE "p2p"
       IN  IF link[p][t] = "none" THEN UNCHANGED link
           ELSE /\ JuiceFree
                /\ link' \in {link, [link EXCEPT ![p][t] = "down"]}
    /\ call' = NoCall
    /\ UNCHANGED <<active, count>> /\ Rest

SetAgentType ==
    /\ call.at = "legacy" /\ JuiceFree
    /\ link' = [link EXCEPT ![call.peer]["p2p"] = "down"]
    /\ call' = [call EXCEPT !.at = "dropRelay"]
    /\ UNCHANGED <<active, count>> /\ Rest

DropP2p ==
    /\ call.at = "dropRelay" /\ JuiceFree
    /\ link' = [link EXCEPT ![call.peer]["p2p"] = "none"]
    /\ call' = [call EXCEPT !.at = "handle"]
    /\ UNCHANGED <<active, count>> /\ Rest

DropRelay ==
    /\ call.at = "dropRelay" /\ JuiceFree
    /\ link' = [link EXCEPT ![call.peer]["relay"] = "none"]
    /\ call' = [call EXCEPT !.at = "handle"]
    /\ UNCHANGED <<active, count>> /\ Rest

(* clear_inactive_agents: the agents are destroyed with the mutex held.    *)
BeginClear ==
    /\ CanCall
    /\ call' = [NoCall EXCEPT !.at = "clear"]
    /\ UNCHANGED pairs /\ Rest

ClearInactiveAgents ==
    /\ call.at = "clear" /\ JuiceFree
    /\ link' = [p \in Peers |-> IF p \in active THEN link[p] ELSE [t \in Types |-> "none"]]
    /\ call' = NoCall
    /\ UNCHANGED <<active, count>> /\ Rest

(* Two minutes without a use of either agent.                              *)
FallIdle(p) ==
    /\ p \in active /\ call.peer # p
    /\ active' = active \ {p}
    /\ UNCHANGED <<link, count, call>> /\ Rest

Caller ==
    \/ SendPings \/ Choose \/ Send \/ Return
    \/ HandleByAgent \/ SetAgentType \/ DropRelay \/ ClearInactiveAgents

-----------------------------------------------------------------------------
(* Libjuice's thread.  m_p2p_state is set by a callback without a mutex.   *)
LinkChanges(p, t) ==
    /\ JuiceFree
    /\ \E s \in {"up", "failed"} :
          /\ link[p][t] \in (IF s = "up" THEN {"down"} ELSE {"down", "up"})
          /\ link' = [link EXCEPT ![p][t] = s]
    /\ call' = IF call.peer = p THEN [call EXCEPT !.steady = FALSE] ELSE call
    /\ UNCHANGED <<active, count>> /\ Rest

(* on_recv of a ping, as long as g_context can be used.                    *)
ReceivePing(p, t) ==
    /\ JuiceFree /\ destroyer = "none"
    /\ link[p][t] = "up" /\ Len(queue) < MaxBacklog
    /\ callback' = [at |-> "ping", packet |-> [peer |-> p, type |-> t]]
    /\ UNCHANGED <<pairs, call, queue, ready, thread, running, destroyer>>

(* handle_ping, which queues the answer and then signals the event.  Slips *)
(* answer at once, under m_mutex, or leave out the signal.                 *)
AnswerAtOnce ==
    /\ callback.at = "ping" /\ MutexFree
    /\ callback' = Quiet
    /\ active' = active \cup {callback.packet.peer}
    /\ UNCHANGED <<link, count, call, queue, ready, thread, running, destroyer>>

QueueCustomPacket ==
    /\ callback.at = "ping"
    /\ queue' = Append(queue, callback.packet)
    /\ callback' = [callback EXCEPT !.at = "queued"]
    /\ UNCHANGED <<pairs, call, ready, thread, running, destroyer>>

NoSignal ==
    /\ callback.at = "queued"
    /\ callback' = Quiet
    /\ UNCHANGED <<pairs, call, queue, ready, thread, running, destroyer>>

SignalPacket ==
    /\ callback.at = "queued"
    /\ ready' = TRUE
    /\ callback' = Quiet
    /\ UNCHANGED <<pairs, call, queue, thread, running, destroyer>>

-----------------------------------------------------------------------------
(* The thread of custom packets.  A slip heeds only the stop token, which  *)
(* the destructor sets after the event.                                    *)
TokenSet == destroyer \in {"joining", "joined"}
StopSeen == ~running \/ TokenSet

CheckStop ==
    /\ worker = "check"
    /\ worker' = IF StopSeen THEN "ended" ELSE "take"
    /\ UNCHANGED <<pairs, call, queue, ready, packet, callback, running, destroyer>>

TryDequeue ==
    /\ worker = "take"
    /\ IF queue = <<>>
       THEN worker' = "wait" /\ UNCHANGED <<queue, packet>>
       ELSE worker' = "lock" /\ packet' = Head(queue) /\ queue' = Tail(queue)
    /\ UNCHANGED <<pairs, call, ready, callback, running, destroyer>>

WaitForPacket ==
    /\ worker = "wait" /\ ready
    /\ ready' = FALSE
    /\ worker' = "check"
    /\ UNCHANGED <<pairs, call, queue, packet, callback, running, destroyer>>

TimeOut ==
    /\ worker = "wait"
    /\ worker' = "check"
    /\ UNCHANGED <<pairs, call, queue, ready, packet, callback, running, destroyer>>

LockMutex ==
    /\ worker = "lock" /\ call = NoCall
    /\ worker' = "send"
    /\ UNCHANGED <<pairs, call, queue, ready, packet, callback, running, destroyer>>

(* The pair, or the agent the ping came to, may be gone, or not connected  *)
(* any more: then the answer is dropped.                                   *)
SendCustomMessage(p, t) ==
    IF link[p][t] = "up"
    THEN JuiceFree /\ active' = active \cup {p}
    ELSE UNCHANGED active

SendCustomPacket ==
    /\ worker = "send"
    /\ SendCustomMessage(packet.peer, packet.type)
    /\ worker' = "check" /\ packet' = NoPacket
    /\ UNCHANGED <<link, count, call, queue, ready, callback, running, destroyer>>

-----------------------------------------------------------------------------
(* ~JuiceManager, when the callers are done: Storm's thread destroys the   *)
(* context, of which the listener is a part that has been destroyed.  A    *)
(* slip leaves out the event.                                              *)
ClearRunning ==
    /\ call = NoCall /\ destroyer = "none"
    /\ running' = FALSE /\ destroyer' = "flagged"
    /\ UNCHANGED <<pairs, call, queue, ready, thread, callback>>

NoWakeUp ==
    /\ destroyer = "flagged"
    /\ destroyer' = "joining"
    /\ UNCHANGED <<pairs, call, queue, ready, thread, callback, running>>

SignalStop ==
    /\ destroyer = "flagged"
    /\ ready' = TRUE /\ destroyer' = "signalled"
    /\ UNCHANGED <<pairs, call, queue, thread, callback, running>>

RequestStop ==
    /\ destroyer = "signalled"
    /\ destroyer' = "joining"
    /\ UNCHANGED <<pairs, call, queue, ready, thread, callback, running>>

Join ==
    /\ destroyer = "joining" /\ worker = "ended"
    /\ destroyer' = "joined"
    /\ UNCHANGED <<pairs, call, queue, ready, thread, callback, running>>

-----------------------------------------------------------------------------
Next ==
    \/ \E p \in Peers : Ask(p) \/ SendP2p(p) \/ HandleCrownlinkMessage(p) \/ FallIdle(p)
    \/ Caller \/ BeginClear
    \/ \E p \in Peers, t \in Types : LinkChanges(p, t) \/ ReceivePing(p, t)
    \/ QueueCustomPacket \/ SignalPacket
    \/ CheckStop \/ TryDequeue \/ WaitForPacket \/ TimeOut \/ LockMutex \/ SendCustomPacket
    \/ ClearRunning \/ SignalStop \/ RequestStop \/ Join

Spec == Init /\ [][Next]_vars

(* Threads run.  Those that want m_mutex or wait for libjuice get their    *)
(* turn, since both are free most of the time, and the game sends again    *)
(* and again.  The time-out of the wait is not relied on.                  *)
Fairness ==
    /\ SF_vars(Caller) /\ \A p \in Peers : SF_vars(SendP2p(p))
    /\ WF_vars(QueueCustomPacket) /\ WF_vars(SignalPacket)
    /\ WF_vars(CheckStop) /\ WF_vars(TryDequeue) /\ WF_vars(WaitForPacket)
    /\ SF_vars(LockMutex) /\ SF_vars(SendCustomPacket)
    /\ WF_vars(SignalStop) /\ WF_vars(RequestStop) /\ WF_vars(Join)

FairSpec == Spec /\ Fairness

-----------------------------------------------------------------------------
Links == {"none", "down", "up", "failed"}

Calls == [at : {"none", "pings", "choose", "best", "redundant", "handle",
                "legacy", "dropRelay", "clear"},
          peer : Peers \cup {Nobody}, to : SUBSET Types,
          sent : BOOLEAN, steady : BOOLEAN]

PairsTyped ==
    /\ link \in [Peers -> [Types -> Links]]
    /\ \A p \in Peers : ~Known(p) => link[p]["relay"] = "none"
    /\ active \subseteq Peers
    /\ count \in [Peers -> 0..PingEvery-1]

QueueTyped ==
    /\ queue \in Seq(Packets) /\ Len(queue) <= MaxBacklog
    /\ ready \in BOOLEAN /\ running \in BOOLEAN
    /\ worker \in {"check", "take", "wait", "lock", "send", "ended"}
    /\ packet \in Packets \cup {NoPacket}
    /\ callback \in [at : {"idle", "ping", "queued"}, packet : Packets \cup {NoPacket}]
    /\ callback.at = "ping" => Len(queue) < MaxBacklog
    /\ destroyer \in {"none", "flagged", "signalled", "joining", "joined"}

(* Every variable has its type.  A pair always has its P2P agent, to which *)
(* AgentPair::handle_crownlink_message turns without asking.               *)
TypeOK == PairsTyped /\ call \in Calls /\ QueueTyped

(* A packet of the game is handed to a connection if the pair has one and  *)
(* no callback has changed an agent since send_p2p began to choose.        *)
SentIfLinked ==
    /\ call.at \in {"best", "redundant"} /\ call.to = {} /\ call.steady
    /\ \E t \in Types : link[call.peer][t] = "up"
    => call.sent

(* The thread of custom packets does not sleep while there is something to *)
(* do: if it waits and nothing has woken it, then the queue is empty or    *)
(* the signal is about to come, and likewise for the stop.  Otherwise an   *)
(* answer, or the destruction of the context, would be late by seconds.    *)
NoLostWakeUp ==
    worker = "wait" /\ ~ready =>
        /\ queue = <<>> \/ callback.at = "queued"
        /\ running \/ destroyer = "flagged"

(* Storm, the listener and libjuice's thread come back from what they call *)
(* although they wait for each other: a caller waits for libjuice while it *)
(* holds m_mutex, so libjuice's callback must not wait for m_mutex.        *)
EveryCallReturns ==
    /\ call # NoCall ~> call = NoCall
    /\ callback # Quiet ~> callback = Quiet
    /\ worker = "send" ~> worker = "check"

(* The answers move on, whatever the callers do, until the destruction.    *)
AnswersMoveOn == queue # <<>> ~> queue = <<>> \/ worker = "send" \/ ~running

(* Without a connection the packets of the game themselves revive a P2P    *)
(* agent that has failed.  (Not so for a legacy peer: send_legacy does not *)
(* touch an agent that is not connected.)                                  *)
Unlinked(p) == link[p]["p2p"] = "failed" /\ link[p]["relay"] \in {"down", "failed"}
PacketsRevive == \A p \in Peers : Unlinked(p) ~> ~Unlinked(p) \/ ~running

(* Destroying the context ends: the thread of custom packets is joined.    *)
JoinEnds == destroyer # "none" ~> destroyer = "joined"
=============================================================================
