---------------------------- MODULE AgentSession ----------------------------
(***************************************************************************)
(* One JuiceAgent on each of two machines and the handshake between them   *)
(* (src/snp/JuiceAgent.h, JuiceAgent.cpp): connection requests tagged with *)
(* attempt counters, ICE descriptions and candidates, all relayed by the   *)
(* matchmaking server, and the calls of JuiceManager and of the games list *)
(* that drive it.  Every entry point holds JuiceManager::m_mutex, so a     *)
(* handler is one step; lock_game_list reads the agent's state and sends   *)
(* the request under two acquisitions of that mutex, so a poll is two.     *)
(*                                                                         *)
(* External (not in the repository): libjuice, which moves an agent from   *)
(* "Gathering" on, and the server, which relays the messages of one peer   *)
(* to the other in the order they were sent and may drop some of them.     *)
(***************************************************************************)
EXTENDS Integers, Sequences

CONSTANTS Lo, Hi,       \* the peers' ids, as the server assigns them
          ClockStart,   \* an attempt counter older than any agent's first
          ClockGain,    \* by how much the clock, read when an agent is built,
                        \* can exceed the last counter of its predecessor
          Pollers,      \* the peers whose games list shows the other's lobby
          Gamers,       \* the peers whose game sends packets to the other
          MaxBacklog,   \* a peer polls or plays only if fewer messages are
                        \* in flight (polls are seconds apart)
          MaxLosses, MaxFailures, MaxRetirements, MaxStalePolls

ASSUME IdsAssumption == Lo \in Nat /\ Hi \in Nat /\ Lo < Hi
ASSUME ClockAssumption == ClockStart \in Nat /\ ClockGain \subseteq Int
ASSUME BoundsAssumption ==
    /\ MaxBacklog \in Nat /\ MaxLosses \in Nat /\ MaxFailures \in Nat
    /\ MaxRetirements \in Nat /\ MaxStalePolls \in Nat

Peers == {Lo, Hi}
Other(p) == IF p = Lo THEN Hi ELSE Lo

(* m_controlling: the peer with the smaller id initiates.                  *)
Controlling(p) == p < Other(p)

States == {"Disconnected", "Gathering", "Connecting", "Connected",
           "Completed", "Failed"}

(* An SDP names the libjuice agent that produced it; 0 is the empty string.*)
NoSdp == 0

Request(counter) == [type |-> "ConnectionRequest", val |-> counter]
Description(sdp) == [type |-> "JuiceLocalDescription", val |-> sdp]
Candidate(gen)   == [type |-> "JuiceCandidate", val |-> gen]
Done(gen)        == [type |-> "JuiceDone", val |-> gen]

Messages == [type : {"ConnectionRequest", "JuiceLocalDescription",
                     "JuiceCandidate", "JuiceDone"},
             val  : Nat]

(* alive: JuiceManager::m_agents holds an agent for the other peer.  gen    *)
(* counts the libjuice agents created so far, the last one being m_agent.  *)
(* candidates and remoteDone are what that libjuice agent was told.  Of a  *)
(* destroyed agent only the last counter and gen are remembered.           *)
Agents == [alive : BOOLEAN, state : States, ours : Nat, theirs : Nat,
           gen : Nat, localSdp : Nat, remoteSdp : Nat,
           candidates : SUBSET Nat, remoteDone : BOOLEAN,
           gathered : {"nothing", "candidates", "all"}]

VARIABLES agent,    \* agent[p]: p's agent for the other peer
          net,      \* net[p]: the messages on their way to p
          polled,   \* polled[p]: a poll has read a state that makes it send
          spent     \* how many faults of each kind have happened

vars == <<agent, net, polled, spent>>

Blank(counter, gen) ==
    [alive |-> FALSE, state |-> "Disconnected", ours |-> counter,
     theirs |-> 0, gen |-> gen, localSdp |-> NoSdp, remoteSdp |-> NoSdp,
     candidates |-> {}, remoteDone |-> FALSE, gathered |-> "nothing"]

Faults == {"loss", "failure", "retirement", "stalePoll"}
Budget == [f \in Faults |-> CASE f = "loss"       -> MaxLosses
                              [] f = "failure"    -> MaxFailures
                              [] f = "retirement" -> MaxRetirements
                              [] f = "stalePoll"  -> MaxStalePolls]
Spend(f) == spent[f] < Budget[f] /\ spent' = [spent EXCEPT ![f] = @ + 1]

Init ==
    /\ agent = [p \in Peers |-> Blank(ClockStart, 0)]
    /\ net = [p \in Peers |-> <<>>]
    /\ polled = [p \in Peers |-> FALSE]
    /\ spent = [f \in Faults |-> 0]

-----------------------------------------------------------------------------
(* The member functions of JuiceAgent, on a pair of an agent and the       *)
(* messages it has sent since the entry point was called.                  *)

Work(a) == [agent |-> a, sent |-> <<>>]
Post(w, m) == [w EXCEPT !.sent = Append(@, m)]

SendConnectionRequest(w) == Post(w, Request(w.agent.ours))

(* Slips of reset_agent: the cached SDP survives; the peer's counter does   *)
(* not.                                                                     *)
ResetKeepsLocalSdp(w) ==
    [w EXCEPT !.agent = [Blank(@.ours + 1, @.gen + 1) EXCEPT
                           !.alive = TRUE, !.theirs = w.agent.theirs,
                           !.localSdp = w.agent.localSdp]]
ResetMarksUnknown(w) ==
    [w EXCEPT !.agent = [Blank(@.ours + 1, @.gen + 1) EXCEPT
                           !.alive = TRUE, !.theirs = -1]]

(* Destroys the libjuice agent, with what it was told, and creates another.*)
ResetAgent(w) ==
    [w EXCEPT !.agent = [Blank(@.ours + 1, @.gen + 1) EXCEPT
                           !.alive = TRUE, !.theirs = w.agent.theirs]]

(* juice_gather_candidates calls on_state_changed before it returns.       *)
GatherCandidates(w) ==
    [w EXCEPT !.agent.state = "Gathering", !.agent.ours = @ + 1]

LocalSdp(a) == IF a.localSdp = NoSdp THEN a.gen ELSE a.localSdp

Initialize(w) ==
    GatherCandidates(Post([w EXCEPT !.agent.localSdp = LocalSdp(w.agent)],
                          Description(LocalSdp(w.agent))))

TryInitialize(w) ==
    CASE w.agent.state = "Failed"       -> Initialize(ResetAgent(w))
      [] w.agent.state = "Disconnected" -> Initialize(w)
      [] OTHER                          -> w

ResetIf(test, w) == IF test THEN ResetAgent(w) ELSE w

(* Slips of the handlers: an offer from either side, a new description that *)
(* is ignored, or that resets without a word to the peer.                   *)
RequestStartsEither(p, w, counter) ==
    IF w.agent.theirs > counter THEN w
    ELSE TryInitialize([ResetIf(w.agent.theirs < counter, w) EXCEPT
                          !.agent.theirs = counter])
DescriptionKept(w, sdp) ==
    IF w.agent.remoteSdp = NoSdp
    THEN TryInitialize([w EXCEPT !.agent.remoteSdp = sdp]) ELSE w
DescriptionSilent(w, sdp) ==
    IF w.agent.remoteSdp \in {NoSdp, sdp}
    THEN DescriptionKept(w, sdp) ELSE ResetAgent(w)

(* A request whose counter is new starts a new attempt.                    *)
AdoptCounter(w, counter) ==
    IF w.agent.theirs < counter
    THEN [ResetIf(w.agent.state # "Disconnected", w)
            EXCEPT !.agent.theirs = counter]
    ELSE w

HandleRequest(p, w0, counter) ==
    LET w == ResetIf(w0.agent.state = "Failed", w0)
    IN  IF w.agent.theirs > counter THEN w
        ELSE IF Controlling(p)
             THEN TryInitialize(AdoptCounter(w, counter))
             ELSE SendConnectionRequest(AdoptCounter(w, counter))

HandleDescription(w, sdp) ==
    IF w.agent.remoteSdp = NoSdp
    THEN TryInitialize([w EXCEPT !.agent.remoteSdp = sdp])
    ELSE IF w.agent.remoteSdp = sdp
         THEN w
         ELSE SendConnectionRequest(ResetAgent(w))

(* A slip: one candidate is enough, whichever attempt it belongs to.       *)
HandleFirstCandidate(w, gen) ==
    IF w.agent.candidates = {} THEN [w EXCEPT !.agent.candidates = {gen}] ELSE w
HandleCandidate(w, gen) == [w EXCEPT !.agent.candidates = @ \union {gen}]
HandleDone(w) == [w EXCEPT !.agent.remoteDone = TRUE]

(* A slip of the constructor: the first counter is not taken from the clock.*)
EnsureFromStart(p) ==
    IF agent[p].alive
    THEN {Work(agent[p])}
    ELSE {SendConnectionRequest(
            Work([Blank(ClockStart, agent[p].gen + 1) EXCEPT !.alive = TRUE]))}

(* ensure_agent: the agent, or one just built, which has sent a request.   *)
EnsureAgent(p) ==
    IF agent[p].alive
    THEN {Work(agent[p])}
    ELSE {SendConnectionRequest(
            Work([Blank(c, agent[p].gen + 1) EXCEPT !.alive = TRUE])) :
              c \in {agent[p].ours + d : d \in ClockGain} \cap Nat}

(* p's entry point returns: w is what it made of the agent, rest is what   *)
(* is left of the messages on their way to p.                              *)
Finish(p, w, rest) ==
    /\ agent' = [agent EXCEPT ![p] = w.agent]
    /\ net' = [net EXCEPT ![p] = rest, ![Other(p)] = @ \o w.sent]

-----------------------------------------------------------------------------
(* The listener thread: JuiceManager::handle_crownlink_message.            *)

Receives(p, type) == net[p] # <<>> /\ Head(net[p]).type = type

ReceiveConnectionRequest(p) ==
    /\ Receives(p, "ConnectionRequest")
    /\ \E w \in EnsureAgent(p) :
         Finish(p, HandleRequest(p, w, Head(net[p]).val), Tail(net[p]))
    /\ UNCHANGED <<polled, spent>>

ReceiveLocalDescription(p) ==
    /\ Receives(p, "JuiceLocalDescription")
    /\ \E w \in EnsureAgent(p) :
         Finish(p, HandleDescription(w, Head(net[p]).val), Tail(net[p]))
    /\ UNCHANGED <<polled, spent>>

ReceiveCandidate(p) ==
    /\ Receives(p, "JuiceCandidate")
    /\ \E w \in EnsureAgent(p) :
         Finish(p, HandleCandidate(w, Head(net[p]).val), Tail(net[p]))
    /\ UNCHANGED <<polled, spent>>

ReceiveDone(p) ==
    /\ Receives(p, "JuiceDone")
    /\ \E w \in EnsureAgent(p) : Finish(p, HandleDone(w), Tail(net[p]))
    /\ UNCHANGED <<polled, spent>>

(* The server drops a message, or the sender's socket is not ready and     *)
(* send_messages returns false, which no caller looks at.                  *)
Lose(p) ==
    /\ net[p] # <<>>
    /\ Spend("loss")
    /\ net' = [net EXCEPT ![p] = Tail(@)]
    /\ UNCHANGED <<agent, polled>>

-----------------------------------------------------------------------------
(* Storm's thread: the games list and the game.                            *)

Quiet == Len(net[Lo]) + Len(net[Hi]) < MaxBacklog

(* Slips of lock_game_list: it polls every lobby it is not connected to; or *)
(* it has no case for an agent that has failed.                             *)
NotLinked(a) == a.state \notin {"Connected", "Completed"}
NeverBegun(a) == a.state = "Disconnected"
Idle(a) == a.state \in {"Disconnected", "Failed"}

(* lock_game_list, in one go: lobby_agent_state, then a connection request.*)
(* That is one agent's part in it.  The code looks at both agents of the   *)
(* pair, so that the other one may keep this one from being polled: Poll   *)
(* may happen, and nothing here relies on that it does.  PairHandshake has *)
(* both.                                                                   *)
Poll(p) ==
    /\ p \in Pollers /\ ~polled[p] /\ Quiet
    /\ \E w \in EnsureAgent(p) :
         /\ ~agent[p].alive \/ Idle(w.agent)
         /\ Finish(p, IF Idle(w.agent) THEN SendConnectionRequest(w) ELSE w,
                   net[p])
    /\ UNCHANGED <<polled, spent>>

(* The same, when other threads get between the read and the request.      *)
PollReads(p) ==
    /\ p \in Pollers /\ ~polled[p] /\ Quiet
    /\ Spend("stalePoll")
    /\ \E w \in EnsureAgent(p) : Idle(w.agent) /\ Finish(p, w, net[p])
    /\ polled' = [polled EXCEPT ![p] = TRUE]

PollSends(p) ==
    /\ polled[p]
    /\ \E w \in EnsureAgent(p) : Finish(p, SendConnectionRequest(w), net[p])
    /\ polled' = [polled EXCEPT ![p] = FALSE]
    /\ UNCHANGED spent

(* spi_send down to JuiceAgent::send_message, when there is no session.    *)
SendGamePacket(p) ==
    /\ p \in Gamers /\ Quiet
    /\ \E w \in EnsureAgent(p) :
         /\ ~agent[p].alive \/ Idle(w.agent)
         /\ Finish(p, CASE w.agent.state = "Disconnected" ->
                             SendConnectionRequest(w)
                        [] w.agent.state = "Failed" -> ResetAgent(w)
                        [] OTHER -> w,
                   net[p])
    /\ UNCHANGED <<polled, spent>>

(* clear_inactive_agents or disconnect_if_inactive, after two idle minutes.*)
Retire(p) ==
    /\ agent[p].alive
    /\ Spend("retirement")
    /\ agent' = [agent EXCEPT ![p] = Blank(@.ours, @.gen)]
    /\ UNCHANGED <<net, polled>>

-----------------------------------------------------------------------------
(* libjuice's thread.                                                      *)

JuiceSets(p, state) ==
    /\ agent' = [agent EXCEPT ![p].state = state]
    /\ UNCHANGED <<net, polled>>

(* on_candidate: one message stands for all the candidates of an agent.    *)
GathersCandidates(p) ==
    /\ agent[p].gathered = "nothing" /\ agent[p].state # "Disconnected"
    /\ agent' = [agent EXCEPT ![p].gathered = "candidates"]
    /\ net' = [net EXCEPT ![Other(p)] = Append(@, Candidate(agent[p].gen))]
    /\ UNCHANGED <<polled, spent>>

(* on_gathering_done.                                                      *)
GathersAll(p) ==
    /\ agent[p].gathered = "candidates" /\ agent[p].state # "Disconnected"
    /\ agent' = [agent EXCEPT ![p].gathered = "all"]
    /\ net' = [net EXCEPT ![Other(p)] = Append(@, Done(agent[p].gen))]
    /\ UNCHANGED <<polled, spent>>

Connects(p) ==
    /\ agent[p].state = "Gathering" /\ agent[p].remoteSdp # NoSdp
    /\ JuiceSets(p, "Connecting")
    /\ UNCHANGED spent

(* Each peer's libjuice agent holds the description of the other's.        *)
Knows(p) == agent[p].alive /\ agent[p].remoteSdp = agent[Other(p)].gen
Matched == agent[Lo].alive /\ agent[Hi].alive /\ Knows(Lo) /\ Knows(Hi)

Started(p) == agent[p].state \notin {"Disconnected", "Gathering", "Failed"}

(* A pair of candidates answers; one side's candidates are enough.         *)
Succeeds(p) ==
    /\ agent[p].state = "Connecting"
    /\ Matched /\ Started(Other(p))
    /\ \E q \in Peers : agent[Other(q)].gen \in agent[q].candidates
    /\ JuiceSets(p, "Connected")
    /\ UNCHANGED spent

Completes(p) ==
    /\ agent[p].state = "Connected"
    /\ Matched /\ Started(Other(p))
    /\ JuiceSets(p, "Completed")
    /\ UNCHANGED spent

(* libjuice gives up a session that cannot come about, or whose other end  *)
(* is gone.  It tries for tens of seconds, so what was in flight when it   *)
(* began has arrived; "Fails" is the failure that comes at any moment.     *)
TimesOut(p) ==
    /\ Started(p) /\ \A q \in Peers : net[q] = <<>>
    /\ ~Matched \/ agent[Other(p)].state = "Failed"
    /\ JuiceSets(p, "Failed")
    /\ UNCHANGED spent

(* The network between the two peers fails the session.                    *)
Fails(p) ==
    /\ Started(p)
    /\ Spend("failure")
    /\ JuiceSets(p, "Failed")

-----------------------------------------------------------------------------
Deliver(p) ==
    \/ ReceiveConnectionRequest(p) \/ ReceiveLocalDescription(p)
    \/ ReceiveCandidate(p) \/ ReceiveDone(p)

Juice(p) ==
    \/ GathersCandidates(p) \/ GathersAll(p) \/ Connects(p)
    \/ Succeeds(p) \/ Completes(p) \/ TimesOut(p)

Next ==
    \E p \in Peers :
      \/ Deliver(p) \/ Lose(p)
      \/ Poll(p) \/ PollReads(p) \/ PollSends(p)
      \/ SendGamePacket(p) \/ Retire(p)
      \/ Juice(p) \/ Fails(p)

Spec == Init /\ [][Next]_vars

-----------------------------------------------------------------------------
(* Everything has its type.                                                *)
TypeOK ==
    /\ agent \in [Peers -> Agents]
    /\ net \in [Peers -> Seq(Messages)]
    /\ polled \in [Peers -> BOOLEAN]
    /\ spent \in [Faults -> Nat]

(* The connection requests of the sequence s are between two counters and  *)
(* in the order of their counters.                                         *)
InOrder(s, first, last) ==
    \A i \in 1..Len(s) :
      s[i].type = "ConnectionRequest" =>
        /\ first <= s[i].val /\ s[i].val <= last
        /\ \A j \in i..Len(s) :
             s[j].type = "ConnectionRequest" => s[i].val <= s[j].val

(* The attempt counters order the attempts: the requests on their way to p *)
(* lie between the counter p has processed and the one its peer has now,   *)
(* in order, over every reset, gathering and replacement of either agent.  *)
(* So the early return of handle_crownlink_message for a lower counter     *)
(* drops nothing.                                                          *)
CountersInOrder ==
    \A p \in Peers :
      /\ agent[p].theirs <= agent[Other(p)].ours
      /\ InOrder(net[p], agent[p].theirs, agent[Other(p)].ours)

(* Two offers never cross: the peer that is not m_controlling has left     *)
(* "Disconnected" only once it holds the other's description.              *)
ResponderHasOffer ==
    \A p \in Peers :
      ~Controlling(p) /\ agent[p].state # "Disconnected" =>
        agent[p].remoteSdp # NoSdp

(* m_last_local_sdp, sent again by every later try_initialize, describes   *)
(* the libjuice agent there is, not one that a reset has destroyed.        *)
LocalSdpIsCurrent ==
    \A p \in Peers : agent[p].localSdp \in {NoSdp, agent[p].gen}

Quiescent == \A p \in Peers : net[p] = <<>> /\ ~polled[p]
Lossless == spent["loss"] = 0

(* An agent that gathers without a remote description ignores the polls of *)
(* both sides.  It never gets there when the server loses nothing: while   *)
(* it has no description, a message that brings one about is on its way.   *)
NobodyWaitsForever ==
    Quiescent /\ Lossless =>
      \A p \in Peers :
        agent[p].state = "Gathering" => agent[p].remoteSdp # NoSdp

(* When nothing is in flight and both agents are in session, each holds    *)
(* the description of the agent the other has now, whatever resets and     *)
(* requests have crossed on the way.                                       *)
SessionsMatch ==
    Quiescent /\ Lossless /\ Started(Lo) /\ Started(Hi) => Matched

(* Candidates and descriptions carry no attempt counter.  Still an agent   *)
(* with a description holds no candidate of a later agent than that one.   *)
CandidatesFit ==
    Lossless =>
      \A p \in Peers :
        agent[p].remoteSdp # NoSdp =>
          \A g \in agent[p].candidates : g <= agent[p].remoteSdp

(* Candidates may come to a libjuice agent of another attempt.  When both  *)
(* peers are in session and nothing is in flight, each has those of the    *)
(* agent the other has now, and knows when they are all.                   *)
CandidatesArrive ==
    Quiescent /\ Lossless /\ Started(Lo) /\ Started(Hi) =>
      \A p \in Peers :
        LET q == Other(p)
        IN  /\ agent[q].gathered # "nothing" => agent[q].gen \in agent[p].candidates
            /\ agent[q].gathered = "all" => agent[p].remoteDone

(* "New connection attempt from peer, resetting session" (JuiceAgent.h:75):*)
(* a request that makes p reset a session comes from a peer that has given *)
(* up the agent p's session is with.                                       *)
RaisedCounterIsNewAttempt ==
    \A p \in Peers :
      /\ Receives(p, "ConnectionRequest")
      /\ agent[p].remoteSdp # NoSdp
      /\ Head(net[p]).val > agent[p].theirs
      => \/ ~Knows(p) \/ ~agent[Other(p)].alive
         \/ agent[Other(p)].state = "Failed"

Linked ==
    Matched /\ \A p \in Peers : agent[p].state \in {"Connected", "Completed"}

(* No message still in flight, no poll and no packet of the game ends a    *)
(* session that works: only a failure or a retirement does.                *)
LinkKept == [][Linked /\ spent' = spent => Linked']_vars

(* Where a lost message stops the handshake: an agent that gathers, and    *)
(* whose offer, or the answer to it, was lost.                             *)
Orphaned(p) == agent[p].state = "Gathering" /\ agent[p].remoteSdp = NoSdp
=============================================================================
