# A TLA+ model of CrownLink

CrownLink is a network provider (`CrownLink.snp`) for games built on Blizzard's
Storm library.  It lists lobbies with the help of a matchmaking server and
carries the game's packets from peer to peer over libjuice (ICE).  This
directory models the parts of it where threads, machines and lost messages
meet, checks them with TLC, and proves the properties that matter most with
TLAPS.  Paths below are relative to the repository's `src/`, and `file:line`
names the code.

## The system

| component | state | operations | talks to |
|---|---|---|---|
| `JuiceAgent` (`snp/JuiceAgent.*`) | ICE state, own and the peer's attempt counter, own and the peer's SDP, the libjuice agent | handles ConnectionRequest, JuiceLocalDescription, JuiceCandidate, JuiceDone; resets; sends packets and pings; callbacks of libjuice | its peer's agent, through the server; libjuice |
| `AgentPair` (`snp/JuiceManager.*`) | a P2P and a relay agent, legacy flag, quality | dispatches by agent type, chooses whom to send with | two `JuiceAgent`s |
| `JuiceManager` | map from peer to pair, ICE credentials, queue of custom packets and its thread, `m_mutex` | ensure an agent, dispatch a message, send, clear inactive agents | called by the listener and Storm's thread |
| `AdvertisementManager` | list of lobbies, status ad, recursive list mutex; own ad, `m_is_advertising` and its mutex | lock, unlock, update, prune, iterate the list; start, send, stop the own ad | Storm, the listener, a front end, `JuiceManager` |
| `CrowServe::Socket` (`crow_serve/CrowServe.*`) | connection, `m_state`, profile, id, token, missed heartbeats, retries | the listener thread: connect, ask for a profile, receive, notice a dead server; `send_messages` from any thread | the server; handlers of `CrowServeManager` |
| `CrowServeManager` | the socket and the listener thread | the handlers of all messages; stop and join | every other component |
| `Context` (`snp/Globals.h`) | `g_context`, the queue of received packets | made by `spi_initialize`, destroyed by `spi_destroy` | owns the managers |
| `SNPModule`, `DLLMain` | settings of the provider | entry points for Storm and for a front end | all managers |
| `Ema`, `Config`, `Logger`, protocols | an average; options; output; structures | | |

There are at least four threads: Storm's, the listener, libjuice's and the one
of custom packets; a front end may call the exports of `DLLMain.cpp` from a
fifth.  What is hard here:

* *The handshake.*  Both machines may start an attempt, be polled, time out,
  destroy their agent or lose a message at any time, and the server only
  relays.  Order is kept by counters and by the rule that the smaller id
  offers.
* *The list of lobbies.*  Storm locks it in one call, follows raw pointers,
  and unlocks it in another call, while the listener replaces it.
* *The connection to the server.*  It must come back as the same client after
  any failure, and end when the context is destroyed at any moment.
* *The locks.*  Storm and the listener call libjuice with `m_mutex` held,
  libjuice calls back, and a ping must be answered all the same.
* *The own lobby.*  Storm opens, changes and closes it on its thread, the
  listener sends it, in answer to heartbeats, over connections that come and go.
* *The life of the context.*  One pointer without a lock, used by every thread,
  set after and cleared before the life of what it points to.

`PROJECT.json` lists every hazard with its line and the properties aimed at it.

## Modules

### AgentSession: the handshake

`AgentSession.tla` is one agent on each of two machines.  `agent[p]` is p's
`JuiceAgent` for the other peer together with its entry in
`JuiceManager::m_agents` (`alive`): `state` is `m_p2p_state`, `ours` and
`theirs` are the attempt counters, `localSdp` and `remoteSdp` are
`m_last_local_sdp` and `m_last_remote_sdp`.  An SDP is the number (`gen`) of the
libjuice agent it describes.  `net[p]` holds the messages on their way to p.

The member functions are operators on a *work*, an agent with the messages it
has sent so far, so that `reset_agent`, `try_initialize` and
`send_connection_request` are written once and composed as the C++ composes
them.  Every entry point holds `JuiceManager::m_mutex` and is one action.  The
one place where the code lets go in between is modelled as such: `PollReads`
and `PollSends` are `lock_game_list` when another thread runs between
`lobby_agent_state` and `send_connection_request`; `Poll` is the usual case.
Libjuice's callbacks take no mutex and are actions of their own, except that
`juice_gather_candidates` reports the gathering before it returns.

External and assumed: the server relays in order and may drop a message
(`Lose`, which also stands for a socket that is not ready); libjuice connects
two agents that hold each other's description and one side's candidates
(`Succeeds`), gives up a session that cannot come about only after what was in
flight has arrived (`TimesOut`; it tries for tens of seconds), and fails at any
other time only as a counted fault (`Fails`).  One candidate message stands for
all of an agent's.  Polls are seconds apart: a peer polls only while fewer than
`MaxBacklog` messages are in flight.  Ids are fixed.

The agent is one of the two of a pair, and `Poll` and `SendGamePacket` are its
part in what the list and the game do with the pair.  The code polls and sends
less often than that, since it looks at both agents: the safety properties,
which hold whenever an agent is polled, cover it, and this module has no
fairness.

### PairHandshake: both agents of a pair

`PairHandshake.tla` runs two AgentSessions side by side (`P2P` and `Relay`, by
`INSTANCE`), for the P2P agents and the relay agents of two peers, with the
faults shared. `lock_game_list` polls by `best_agent_state`
(`JuiceManager.cpp:161`): `Poll` is possible only when both agents are
Disconnected or Failed, and asks with both. A packet of the game reaches an
agent that is not connected only through `get_best`, which is the P2P agent
unless only the relay agent is connected (`SendP2p`); and whatever makes one
agent of a pair makes the other (`P2PIsMade`, `RelayIsMade`). `screen` says
whether Storm is at the games list, which polls, or in a game, which sends
packets; a game begins when the peers are linked. Liveness is checked here, with
the fairness of these actions. Left out: legacy peers, retirement, preempted
polls, and the end of gathering, which nothing in the handshake waits for; the
messages of the one agent and those of the other are not ordered.

### GameList: the list of lobbies

`GameList.tla` has `m_lobbies` as a sequence whose entries carry the slots that
`pNext` and `pExtra` point to, so that a pointer left behind by `erase_if` is
seen.  Storm's calls are split where other threads get in: `LockGameList`
(`lock_game_list` with its pruning, linking and contacting, up to the choice of
the head), `ReturnGameList` or `ReturnNothing`, `UnlockGameList`; and
`GetAdByIndex`, which returns a reference, and `CopyGameInfo`, which reads it
unlocked.  `held` is the depth of the recursive mutex in Storm's hands.  The
front end's `iterate_lobbies` and `set_status_lobby` are actions that a constant
can switch off.  The clock is `get_tick_count`: `Prune` reads it for one lobby
after another as the code does, and a difference of unsigned times that would be
negative counts as old; `setBack` remembers whether the clock ever ran backwards.
Left out: the texts of rows and of the status ad, and
the layout.  `contacted` is the set of hosts for which `ensure_agent` has been
asked; what follows is AgentSession's `Poll`.

### ServerSocket: the listener and its end

`ServerSocket.tla` follows the listener through `Socket::listen` and `try_init`
with `listener` as its position, and the destructors with `destroyer`.  The
stop token is looked at only where the code does, and the destructor's
`disconnect` runs between any two steps of the listener.  A connection is
"none", "open", "closed" (the server is gone and the socket polls as ready) or
"dead" (nothing gets through and nobody notices).  A second without a message
is one step of `MissHeartbeat`, for the ten polls of 100 ms.  `ReceiveCut` is a
`recv` that returns a part of a body (`CrowServe.h:226`): `deserialize_cbor_into`
fails, nobody looks, and the handler is given a default message; `RefuseRest`
is the rest of the body taken for a header.  External: the server gives a new id
unless it is asked for one it has given, beats only over connections on which it
has answered, never more than `MaxSilence` seconds apart while nothing fails.

### AgentPairs: two agents, one mutex, and the answers to pings

`AgentPairs.tla` is `JuiceManager` with its pairs of a P2P and a relay agent.
`link[p]` says for either agent whether it exists (`none`) and what
`m_p2p_state` says, with all states before the connection as `down`.  Four
threads meet: Storm and the listener, of whom one at a time holds `m_mutex` and
is in the middle of a call (`call`); libjuice's, which is in a callback
(`callback`); the thread of custom packets (`worker`); and the destructor.
`send_p2p` is split where libjuice may come in between: the pings, the choice of
agents, and one sending after the other.  A ping's answer goes through
`m_custom_packet_queue` with its auto-reset event, step by step, since the order
of enqueuing and signalling, of looking and waiting, and of flag, event, stop
token and join in the destructor are what makes it safe.  Latencies and quality
may be anything: `Best` is the set of agents that `get_best` may return, and
redundant sending is possible whenever both agents are connected.

External: a call that sends with an agent or destroys one waits for libjuice's
callbacks, as the comment at `JuiceAgent.cpp:178` has it, and callbacks run one
after another.  Left out: strategies that nothing selects, and pings that come
in once `g_context` has been reset, which are in ContextLifecycle.

### Noticeboard and Advertising: the own lobby

`Noticeboard.tla` is the promise: an author posts numbered notices and withdraws
them, a board elsewhere shows one or none, never goes back to an older one while
it shows something, and comes to show the latest one that stays.
`Advertising.tla` is `AdvertisementManager`'s other half, `m_ad_data` (`ad`) and
`m_is_advertising`, with Storm's calls, the handler of heartbeats, and the turn
rate; `Board == INSTANCE Noticeboard` maps the number of calls of
`start_advertising`, whether Storm hosts, and the ad the server lists.

Every critical section of `m_ad_mutex` is a step.  So `stop_advertising` is two
(`SendStop` before the lock, `ClearAdvertising` under it), and the handler is
up to four: `HandleHeartbeat` asks `in_games_list`, `ClearInactiveAgents`,
`AskIsAdvertising`, and `SendAdvertisement`, which sets the host to the id the
client has then.  The connection is what is left of ServerSocket: up, dead and
unnoticed, or down, remade with the same id or another one.  `net` is the
provider's turn rate in `g_network_info`, `caps` Storm's live copy, which
`capture_provider_caps` may fail to find.  `Join` is another player who takes
the listed ad's rate in `spi_get_game_info` and gets an agent here; `party` is
the rates of those who have joined.  `overtaken` is a history variable for the
one race the code has (below).

External: Storm's order of calls (a lobby does not reopen once its game has
begun), and a server that lists the last ad it got over a connection until it is
told to stop or the connection ends.  A message is one piece.

### ContextLifecycle: g_context

`ContextLifecycle.tla` follows Storm's thread through `spi_initialize` (the two
managers, then the pointer) and `spi_destroy` (the pointer, then the listener's
stop and join, then the agents), with the listener between receiving a message
and its handler's uses of the pointer, libjuice between a callback's check and
its uses, and a front end that calls `iterate_lobbies` at any time (`Export`), which
goes through the pointer in every call (`AdvertisementManager.cpp:310`, 20, 22).  A
thread that goes through the null pointer ends the program, and `crashed` says
who did.  The queue of received packets and Storm's auto-reset event are here
too, since `spi_receive` goes on after a packet that it drops for its age.

External: Storm and the front end call from any threads; libjuice's callbacks run
one at a time and `juice_destroy` waits for them; no peer is connected before
`spi_initialize` has set the event, so that packets come only while there is a
context when they are checked.

But for PairHandshake, which is composed of AgentSessions, the modules do not
share variables.  They meet in these places: what
`GameList` calls contacting is a poll of `PairHandshake` and `Ask` of
`AgentPairs`; a reconnection of `ServerSocket` is a loss for `AgentSession`;
`Advertising` and `ContextLifecycle` rely on `EventuallyServed` and `StopEnds` of
`ServerSocket` for their fairness; and `AgentPairs` takes the handshake as given,
so that a link may come up or fail at any time.

## Runs

| run | checks | finds |
|---|---|---|
| SessionJoin | TypeOK, RaisedCounterIsNewAttempt, LocalSdpIsCurrent, LinkKept | both peers poll, one failure, one lost message: no late message ends a working session |
| SessionRestart | CountersInOrder, ResponderHasOffer, NobodyWaitsForever, SessionsMatch, CandidatesFit, CandidatesArrive | a retirement, a failure and a preempted poll, a poller against a gamer |
| SessionStalePoll | RaisedCounterIsNewAttempt | **violated**: a preempted poll |
| Pair | TypeOK, EventuallyLinked, PacketsRelink | both agents of two pairs under one list that polls, and then one game that sends, with two failures, a loss, or one of each: the polls link the peers up unless a loss has orphaned an agent of either kind, the packets unless it is a P2P agent |
| GameListRows | TypeOK, StormReadsTheList, ExtraAtHome, ListIsStableWhileRead | all threads, a front end that iterates and switches the status lobby, any clock, the mutex left locked once |
| GameListMutex | MutexFreeBetweenCalls | **violated**: the status lobby switched off within `lock_game_list` |
| GameListChosen | ToldOfTheChosenLobby | **violated**: lobbies numbered anew |
| Socket | TypeOK, NothingLeftOpen, IdentityKept, ConnectionKept, EventuallyServed, StopEnds | four faults of any kind, and the context destroyed at any moment, or never |
| Pairs | TypeOK, SentIfLinked, NoLostWakeUp, EveryCallReturns, AnswersMoveOn, PacketsRevive, JoinEnds | four threads at one pair, destroyed at any moment, or never |
| Advertise | TypeOK, ListedUnderOwnId, JoinersPlayAtHostsRate, JoinersKept, BoardKept, EventuallyUnlisted | three posts of up to three lobbies, one failure, two turn rates of which one is not valid |
| Context | TypeOK, NullOnlyInTransit, NoPacketAsleep, DestroyReturns | contexts made and destroyed again and again under messages, packets and a front end |
| ContextDestroy | CallbacksSurvive | **violated**: a callback between the reset of the pointer and the end of the agents |

The runs of AgentSession alone and of GameList go through `MCAgentSession.tla` and
`MCGameList.tla`, which only define values of constants and the symmetry of
hosts; the others need none.  `CHECK_DEADLOCK FALSE` is there where the system
may rest: a handshake that is complete, a listener that has been joined, a
program that has ended.

**Bounds.** Two peers are the protocol. Three or four messages in flight let a
request, a description and the candidates of one attempt cross those of the
next; one fault of a kind is enough for an attempt to meet the leftovers of its
predecessor, and both runs combine faults of different kinds. Pair has two
sessions at once, and so nothing in flight when a peer polls or plays
(`MaxBacklog = 1`), and one peer that does: what the other one adds are requests
that cross, which are in SessionJoin. Its two faults (`MaxFaults`) can strike
the two agents of a pair at different times, which is what they are for: each
agent can fail, one can fail twice, or one is orphaned by a loss and the other
fails. With two hosts the list can lose its first, its last or all lobbies, and
be renumbered; three seconds of clock are one more than the age that prunes;
`MaxHeld = 2` allows one lock on top of the one left behind. Four faults let a
reconnection fail, and its retry too, and a profile be cut; heartbeats may be
five seconds late, one less than the limit. One pair is enough for AgentPairs,
since pairs share only the mutex, the queue and the thread, and those do not
tell peers apart; a ping of ours with every second packet lets both kinds of
`send_p2p` happen, and two answers in the queue let one signal stand for two.
Three calls of `spi_start_advertising` are a lobby, a change of it and a second
lobby, or three lobbies; the ad of one can then meet the stop of another; the
failure may come between any two of them. `Rates = {5, 12}` has a rate that
`is_valid` refuses and one that differs from the standard one, to which 5 falls
back. `MaxWire = 0` lets a heartbeat come only when the server has caught up, so
that at most a stop and an ad are under way together. Three packets in the queue
let some be dropped before and after one that is delivered.

**Fairness.** PairHandshake: weak fairness of `GoesOn`, that is, while a message
can be handled or libjuice can take a step with any agent, one of these happens;
and of `Poll` and `SendP2p`, which Storm's timers repeat; their guards say when
that reaches an agent. No fairness of losses and failures, which are finitely
many, nor of the beginning of a game. AgentSession and GameList: none.
ServerSocket: weak fairness of the listener, of the destructor's later steps
once it has begun, and of a server that answers, beats and is started again.
AgentPairs: weak fairness of the steps of each thread, and strong fairness of
those that want `m_mutex` or wait for libjuice, since packets are many
milliseconds apart and both are free in between; the game sends again and again
to a peer. The time-out of five seconds is not relied on: what would only come
right by it counts as lost. Advertising: weak fairness of the handler, the end
of `stop_advertising`, the server, and the steps of a reconnection
(EventuallyServed); nobody has to host, stop or join. ContextLifecycle: weak
fairness of a destruction that has begun, of a listener that has been told to
stop (StopEnds), and of callbacks, and strong fairness of the end of the agents,
which waits for callbacks that come and go.

## What the checks found

1. *A poll can end a working session* (SessionStalePoll).  `lock_game_list`
   reads Disconnected, other threads take the handshake on, gathering raises
   `m_attempt_counter_ours` (`JuiceAgent.cpp:242`), and the request that is then
   sent carries the new counter: the peer takes it for a new attempt.
2. *A lock that stays* (GameListMutex).  The list is empty and the status lobby
   in use, so that `lock_game_list` locks and goes past its first exit; a front end
   switches the status lobby off, without a lock; the last `return false`
   (`AdvertisementManager.cpp:289`) then leaves the mutex locked, against the
   comment in the same function.
3. *Storm may be told another game* (GameListChosen).  An answer of the server
   renumbers the lobbies (`AdvertisementManager.cpp:97`) between the row on the
   screen and the player's choice of it.
4. *A ping at the wrong moment ends the program* (ContextDestroy).
   `g_context.reset()` clears the pointer first, `~CrowServeManager` then sleeps
   and joins the listener, and the agents go last; until then `handle_ping`,
   `on_candidate` and `on_gathering_done` go through the null pointer, for which
   only the path of a game packet looks.

Observations, which need no search but a reader should know:

* *Games in progress are contacted.*  `lock_game_list` says that "we don't want to
  initiate p2p" with them (`AdvertisementManager.cpp:190`) and leaves them out.
  `iterate_lobbies` asks for the state of the agent of every lobby of this version
  (lines 315 and 137), and asking builds one; `IterateLobbyList` does this.
* *A lobby may stay listed after its end.*  `stop_advertising` deals with the server
  (line 61) before it clears the flag that the handler of heartbeats looks at
  (line 64), so that an ad can follow the stop.  Advertising takes these steps and
  marks the race (`overtaken`); EventuallyUnlisted says that a closed lobby goes
  but for it.
* *Listing the lobbies without a context ends the program.*  `iterate_lobbies`
  requests advertisements through the pointer (line 310, then 20 and 22) before it
  comes to the check in `connection_type` (line 134).  A front end can do this
  whenever there is no context, at the menu too (`Export` in ContextLifecycle).
  NullOnlyInTransit is about CrownLink's own threads: the listener and libjuice
  meet the null pointer only while `spi_initialize` or `spi_destroy` runs.
* A lost offer or answer leaves the offering agent gathering, where neither polls
  nor packets of the game touch it, until it is retired or its peer begins a new
  attempt (`Orphaned`; EventuallyLinked names exactly this state).  Since polls look
  at both agents of a pair, an orphaned relay agent also keeps a P2P agent that has
  failed from being polled, and the other way round; packets of a game still
  revive the P2P agent (PacketsRelink).
* `m_attempt_counter_ours` starts at the system clock: the counter of an agent
  that is built again after the clock was set back lags, and its requests are
  dropped until it has caught up.  CountersOrdered is proved for clocks that do
  not lag (`ClockGain`).
* A body cut by TCP replaces the client's id by zeros until the next profile;
  IdentityKept allows this and nothing else.
* When the clock has been set back to just before the lobbies' stamp and strikes
  during a pruning, the lobbies looked at first are dropped and the others move
  away from the bytes their `pExtra` points to (or when it is set back between
  two readings of one pruning), which is why ExtraAtHome is about a clock that has
  not been set back.
* `send_legacy` does not touch an agent that is not connected, so that the agent
  of a legacy peer that has failed is left to polls and to that peer, while the
  packets of the game revive every other failed pair (PacketsRevive).
* If the front end sets the turn rate while a lobby is open, the ad keeps the old
  rate until Storm changes the lobby, and joiners play at another rate than the
  host: JoinersPlayAtHostsRate is checked and proved for `Retunes = FALSE`.

## Proofs

| theorem | says |
|---|---|
| AgentSessionProofs!TypeCorrect | `Spec => []TypeOK` |
| AgentSessionProofs!CountersOrdered | with `ClockGain \subseteq Nat`: `Spec => []CountersInOrder` |
| AgentOfferProofs!OffersAreSound | `Spec => []OffersSound`, the invariant for the next two |
| AgentOfferProofs!OneSideOffers | `Spec => []ResponderHasOffer` |
| AgentOfferProofs!SdpIsCurrent | `Spec => []LocalSdpIsCurrent` |
| AgentFlowProofs!DescriptionsKeepOrder | `Spec => []DescriptionsInOrder`, an invariant for the next ones |
| AgentFlowProofs!SessionsAreMatched | `Spec => []SessionsMatch` |
| AgentFlowProofs!CandidatesAreFit | `Spec => []CandidatesFit` |
| AgentFlowProofs!RaisedCounterMeansNewAttempt | with `ClockGain \subseteq Nat` and `MaxStalePolls = 0`: `Spec => []RaisedCounterIsNewAttempt` |
| AgentFlowProofs!LinkIsKept | with the same two: `Spec => LinkKept` |
| AgentFlowProofs!NobodyWaits | with `ClockGain \subseteq Nat`: `Spec => []NobodyWaitsForever` |
| GameListProofs!ListTypes | `Spec => []TypeOK` |
| GameListProofs!StormSeesAll | `Spec => []StormReadsTheList` |
| GameListProofs!ExtraStaysAtHome | `Spec => []ExtraAtHome` |
| GameListProofs!ListStable | `Spec => ListIsStableWhileRead` |
| AgentPairsProofs!TypeCorrect | `Spec => []TypeOK` |
| AgentPairsProofs!NoSleepThroughWakeUp | `Spec => []NoLostWakeUp` |
| AgentPairsProofs!LinkedPacketsLeave | `Spec => []SentIfLinked` |
| AdvertisingProofs!TypeCorrect | `Spec => []TypeOK` |
| AdvertisingProofs!OwnIdIsListed | `Spec => []ListedUnderOwnId` |
| AdvertisingProofs!JoinersAtHostsRate | with `~Retunes`: `Spec => []JoinersPlayAtHostsRate` |
| AdvertisingProofs!JoinersStay | `Spec => JoinersKept` |
| AdvertisingProofs!BoardImplemented | `Spec => Board!Spec`: Advertising implements the safety part of Noticeboard |
| ContextLifecycleProofs!ContextInvariant | `Spec => []Inv`, the invariant for the next three |
| ContextLifecycleProofs!TypeCorrect | `Spec => []TypeOK` |
| ContextLifecycleProofs!UsesInTransit | `Spec => []NullOnlyInTransit` |
| ContextLifecycleProofs!PacketsWakeStorm | `Spec => []NoPacketAsleep` |
| ServerSocketProofs!SocketInvariant | `Spec => []Inv`, the invariant for the next four |
| ServerSocketProofs!TypeCorrect | `Spec => []TypeOK` |
| ServerSocketProofs!ConnectionClosed | `Spec => []NothingLeftOpen` |
| ServerSocketProofs!SameIdentity | `Spec => IdentityKept` |
| ServerSocketProofs!WorkingConnectionKept | with `MaxSilence < MissedHeartbeats`: `Spec => ConnectionKept` |

They hold for all ids, bounds, clocks, hosts and peers, but for the assumptions
named; those about constants are otherwise the modules' own: the ids are two
different numbers, bounds are numbers, hosts are finitely many.  Each assumption
named is one whose failure is described above: clocks that lag (`ClockGain`),
the poll that SessionStalePoll finds (`MaxStalePolls`), and `set_turns_per_second` while a lobby is open (`Retunes`).

*Counters.*  CountersInOrder is inductive together with TypeOK, but a handler
composes several member functions, so the proof follows the works: a work is
`Legitimate` when the requests sent since the entry point was called lie, in
order, between the counter the agent had then and the one it has now.  Each
member function preserves this, whatever state it meets; one lemma then shows
that a legitimate work, put at the end of a channel whose requests were in
order, leaves it in order.  The assumption on the clock enters in one place, the
construction of an agent.

*Offers.*  ResponderHasOffer is not inductive: a description in flight might be
empty, and a destroyed agent might come back with its old SDP.  `OffersSound`
adds that descriptions in flight are not empty and that a living agent has a
libjuice agent (`gen > 0`).

*The flow.*  The other properties of the handshake relate what is in flight to
what both agents are.  A handler is first summed up once, as the *effect* of its
member functions on the agent and on what is sent (`Effect`), and each step of
the system then is a receiver's step on one channel (`Takes`, or `Drops` where
something is lost) and a sender's on the other (`Says`).  Every invariant
of a link, stated for one channel and the agents at its ends, gets one lemma for
each of the two and one that puts them together:

* `DescriptionsInOrder`: descriptions in flight are of later and later libjuice
  agents, and later than the one the receiver holds; only an agent that has left
  Disconnected has described its present one.
* `DescriptionsDelivered`: if nothing is lost, who has left Disconnected has its
  description in flight, or arrived as the last one.  With an empty channel and
  two started sessions this is SessionsMatch.
* `CandidatesFollow`: if nothing is lost, a candidate in flight or held is behind
  the description it belongs to.  CandidatesFit follows.
* `DescriptionsFresh`, for clocks that do not lag: a description belongs to a later
  attempt than the requests before it, and to an earlier one than those behind
  it.  A peer that holds one and receives a request is thus asked for a later
  attempt: it resets, and never answers as a session would not.
* `SendersSettled`, if polls are not preempted: behind the description of its
  present agent a sender that lives and has not failed asks for nothing.  A
  request that makes the peer reset its session with that agent would be behind
  it: RaisedCounterIsNewAttempt.  While the peers are linked nothing but
  candidates is therefore on its way, which is LinkKept.
* `HelpComes`: while the controlling peer gathers without a description, and
  nothing is lost, its own description is on the way, or one to it, or a request
  with a newer counter.  For the other peer OffersSound forbids this state.

*The list.*  That Storm holds the mutex while it reads (`HeldWhileRead`) is
inductive; the guards of the two writers do the rest.

What `std::erase_if` leaves (`Remaining`) is the image of a rising function onto the
places that stay (`Counts`), since the ranks of these places are all the numbers
up to their number; so lobbies stay `Numbered`: the indices rise from 2 and the
hosts differ, and there are no more lobbies than hosts.  TypeOK is not inductive
without this, nor without `LinkedWhileRead`: from `lock_game_list` to
`unlock_game_list` the lobbies are linked and the head is one of the two ends
that are possible.  That Storm then reaches every lobby is an induction over the
list, which the proof does by the least place at which the recursive function and
its closed form differ.  For ExtraAtHome, `StampedTogether` says that all lobbies
have one stamp, which has come, until the clock is set back: the pruning then keeps all, none, or the ones
that were looked at before the clock struck, and no lobby moves.

*The pairs.*  A call that has begun is about a pair that exists (`CallKnown`),
which makes the types inductive.  NoLostWakeUp is not inductive: between the look
at the stop and the wait lies the look into the queue.  `WakeInv` says that from
that first look on, unless the event is signalled, the thread still runs or the
destructor is about to signal.  For SentIfLinked, `StillToTry` says that while a
packet is being sent, and no callback has interfered, it has gone out or a
connected agent is still to be tried.

*The own lobby.*  The first three arguments are about `Messages`, what the server
lists together with what is on its way to it: each carries the id the client has
now, because an id changes only on a connection over which no ad has been sent
(`IdInv`); each of the present game carries the ad's rate, because a new lobby has
a number that no message has (`RateInv`); and in the order of the wire, but for
the stops, each is at least as new as what is before it (`OrderInv`), so that a
step of the server shows a newer notice or clears the board.  `KeptInv`, for
JoinersKept, says that between the look at `in_games_list` and the clearing nobody
who is there has joined an open lobby.

*The context.*  `Life` says that the pointer is set exactly while Storm plays, that
where there is no context at the menu the listener has ended and there is no
agent, and that only an agent has callbacks: the listener or libjuice, if it uses
the null pointer, does so in transit.  A front end can do so at any time that there
is no context, and breaks none of this.

*The connection.*  TypeOK bounds what is under way to one message, which is not
inductive: `Requested` says that a turn of the loop without a profile (`Asking`)
sends one request, that the profile answers it before any heartbeat, and that
afterwards nothing is asked for; `Linked` that a connection exists only while
`m_state` says Ready or is about to; `Known` that every id on its way is the one
the client has.

Only model-checked: all liveness (EventuallyLinked, PacketsRelink,
EventuallyServed, StopEnds, EveryCallReturns, AnswersMoveOn, PacketsRevive,
JoinEnds, EventuallyUnlisted, DestroyReturns, and that the latest notice is
shown in BoardKept), which the prover cannot do under fairness; and
CandidatesArrive and the types of PairHandshake. The other invariants and all
action properties of the passing runs are proved.

## Not modelled

* **Framing.**  `send_messages` sends a message in three calls of `send` without a
  lock, so that parts of two threads' messages can mix (`CrowServe.h:266`).  All
  modules take a message as one piece.  What a server does with mixed parts is
  not in the repository.
* **Socket handles.**  `disconnect` closes `m_socket` and keeps the number, which
  another socket of the process may have by the next `disconnect`
  (`CrowServe.cpp:86`).  This needs libjuice's sockets.
* **The id at the building of an agent.**  `m_controlling` (`JuiceAgent.cpp:47`)
  compares the id the socket had then; AgentSession takes the ids as fixed.  The
  composition with the socket is beyond what TLC can visit in minutes.
* **ICE credentials** and whose memory their pointers point to
  (`JuiceManager.cpp:220`): a matter of the layout of strings.
* **A second initialization's turn rate**: Advertising begins with one
  `spi_initialize`; a later one adopts what Storm's caps then say.
* **The status callback** (`CrowServe.cpp:117`), the exports that look at the pointer
  and only return a state, the setting of texts, and the loading and unloading of
  the module in `DllMain`.
* **spi_compare_net_addresses**, which compares two pointers, and the other entry
  points that only return a value; `spi_free`, which deletes what `spi_receive` lent.
* **Ema** (floating point: AgentPairs lets the averages be anything), the statistics
  and the strategies that nothing selects.
* `Config`, `Logger`, build files and scripts, which are input and output only; the
  layout of Storm's structures; the insides of libjuice and of the server, which
  are not in the repository.
