---------------------------- MODULE PairHandshake ----------------------------
(***************************************************************************)
(* The handshakes of a whole AgentPair (src/snp/JuiceManager.h, .cpp): the *)
(* P2P agents and the relay agents of two peers are two AgentSessions that *)
(* run side by side.  They are made together, and the games list and the   *)
(* game look at both: lock_game_list asks for a connection, with both      *)
(* agents, if the better of their states is Disconnected or Failed, and a  *)
(* packet goes to the P2P agent unless only the relay agent is connected.  *)
(* So one agent can keep the other from being polled.                      *)
(*                                                                         *)
(* Left out: legacy peers, retirement, a poll that is preempted (those are *)
(* in AgentPairs and AgentSession), the end of gathering, which nothing in *)
(* the handshake waits for, and the order between the messages of the one  *)
(* agent and those of the other.                                           *)
(***************************************************************************)
EXTENDS Integers, Sequences

CONSTANTS Lo, Hi, ClockStart, ClockGain, Pollers, Gamers, MaxBacklog,
          MaxLosses, MaxFailures,  \* as in AgentSession
          MaxFaults                \* losses and failures together

VARIABLES p2p, p2pNet,     \* agent and net of the P2P agents,
          relay, relayNet, \* and of the relay agents
          spent,           \* the faults that either has met
          screen           \* what Storm is at: the games "list" or a "game"

pairs == <<p2p, p2pNet, relay, relayNet>>
vars == <<pairs, spent, screen>>

Peers == {Lo, Hi}

(* No poll is preempted.                                                   *)
P2P == INSTANCE AgentSession
         WITH agent <- p2p, net <- p2pNet, polled <- [p \in Peers |-> FALSE],
              MaxRetirements <- 0, MaxStalePolls <- 0
Relay == INSTANCE AgentSession
           WITH agent <- relay, net <- relayNet, polled <- [p \in Peers |-> FALSE],
                MaxRetirements <- 0, MaxStalePolls <- 0

Init == P2P!Init /\ Relay!Init /\ screen = "list"

-----------------------------------------------------------------------------
(* ensure_agent makes both agents of a pair, and each asks for a connection*)
(* in its constructor: here, the one that is not called.  A slip makes it  *)
(* only when it is called.                                                 *)
RelayIsMadeLater(p) == UNCHANGED <<relay, relayNet>>
P2PIsMade(p) ==
    IF p2p[p].alive THEN UNCHANGED <<p2p, p2pNet>>
    ELSE \E w \in P2P!EnsureAgent(p) : P2P!Finish(p, w, p2pNet[p])
RelayIsMade(p) ==
    IF relay[p].alive THEN UNCHANGED <<relay, relayNet>>
    ELSE \E w \in Relay!EnsureAgent(p) : Relay!Finish(p, w, relayNet[p])

(* AgentPair::handle_crownlink_message hands a message to the agent of the *)
(* type it carries.                                                        *)
HandleP2P(p) == P2P!Deliver(p) /\ RelayIsMade(p) /\ UNCHANGED screen
HandleRelay(p) == Relay!Deliver(p) /\ P2PIsMade(p) /\ UNCHANGED screen

(* lock_game_list: best_agent_state is Disconnected or Failed only if both *)
(* agents are, and send_connection_request then asks with both.            *)
Poll(p) ==
    /\ screen = "list"
    /\ P2P!Poll(p) /\ Relay!Poll(p)
    /\ UNCHANGED screen

(* send_p2p: what get_best and send_redundant leave for the P2P agent when *)
(* it is not connected.  A slip prefers a relay agent that has yet to      *)
(* connect.                                                                *)
RelayBegun(p) == relay[p].state \notin {"Disconnected", "Failed"}
RelayConnected(p) == relay[p].state \in {"Connected", "Completed"}

SendP2p(p) ==
    /\ screen = "game"
    /\ ~RelayConnected(p)
    /\ P2P!SendGamePacket(p) /\ RelayIsMade(p)
    /\ UNCHANGED screen

(* The server and libjuice do not know that the two belong together.       *)
JuiceP2P(p) ==
    /\ \/ P2P!GathersCandidates(p) \/ P2P!Connects(p) \/ P2P!Succeeds(p)
       \/ P2P!Completes(p) \/ P2P!TimesOut(p)
    /\ UNCHANGED <<relay, relayNet, screen>>
JuiceRelay(p) ==
    /\ \/ Relay!GathersCandidates(p) \/ Relay!Connects(p) \/ Relay!Succeeds(p)
       \/ Relay!Completes(p) \/ Relay!TimesOut(p)
    /\ UNCHANGED <<p2p, p2pNet, screen>>
Faults(p) ==
    /\ spent["loss"] + spent["failure"] < MaxFaults
    /\ \/ (P2P!Lose(p) \/ P2P!Fails(p)) /\ UNCHANGED <<relay, relayNet>>
       \/ (Relay!Lose(p) \/ Relay!Fails(p)) /\ UNCHANGED <<p2p, p2pNet>>
    /\ UNCHANGED screen

(* Linked by one agent or by the other, the players begin a game.          *)
Linked == P2P!Linked \/ Relay!Linked

BeginGame ==
    /\ screen = "list" /\ Linked
    /\ screen' = "game"
    /\ UNCHANGED <<pairs, spent>>

Next ==
    \/ BeginGame
    \/ \E p \in Peers :
         \/ HandleP2P(p) \/ HandleRelay(p) \/ Poll(p) \/ SendP2p(p)
         \/ JuiceP2P(p) \/ JuiceRelay(p) \/ Faults(p)

Spec == Init /\ [][Next]_vars

(* While anything can happen that is not a fault, something does: no more is*)
(* asked of the listeners and of libjuice.  While the list is on the screen,*)
(* or the game runs, Storm asks for the list, or sends packets, again and   *)
(* again; whom that reaches is in the guards of Poll and SendP2p.           *)
GoesOn ==
    \E p \in Peers :
      HandleP2P(p) \/ HandleRelay(p) \/ JuiceP2P(p) \/ JuiceRelay(p)

Fairness ==
    /\ WF_vars(GoesOn)
    /\ \A p \in Pollers : WF_vars(Poll(p))
    /\ \A p \in Gamers : WF_vars(SendP2p(p))

FairSpec == Spec /\ Fairness

-----------------------------------------------------------------------------
(* Everything has its type, and there are both agents of a pair or none.   *)
TypeOK ==
    /\ P2P!TypeOK /\ Relay!TypeOK
    /\ \A p \in Peers : p2p[p].alive = relay[p].alive

Lossless == P2P!Lossless

(* Polls, once the faults have stopped, link the peers up, and they stay   *)
(* so.  A lost message stops this in one place only: an agent that gathers *)
(* without an answer, of either kind, is never polled itself and keeps the *)
(* other agent of its pair from being polled.                              *)
EventuallyLinked ==
    <>[](\/ screen = "game" \/ Linked
         \/ ~Lossless /\ \E p \in Peers : P2P!Orphaned(p) \/ Relay!Orphaned(p))

(* The packets of a game link the peers up, or link them again, unless it  *)
(* is the P2P agent that has lost its offer or the answer to it: whatever  *)
(* the relay agents wait for, the packets revive the P2P agents.           *)
PacketsRelink ==
    <>[](\/ screen = "list" \/ Linked
         \/ ~Lossless /\ \E p \in Peers : P2P!Orphaned(p))
=============================================================================
