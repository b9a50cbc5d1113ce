--------------------------- MODULE AgentOfferProofs ---------------------------
(***************************************************************************)
(* Proofs about AgentSession: what an agent holds of its own description   *)
(* and of its peer's.  The member functions keep an agent Sound, and so    *)
(* every step of either machine does, whatever is lost or fails and with   *)
(* any clock.                                                              *)
(***************************************************************************)
EXTENDS AgentSessionProofs

Sound(p, a) ==
    /\ a.alive => a.gen > 0
    /\ a.localSdp \in {NoSdp, a.gen}
    /\ ~Controlling(p) /\ a.state # "Disconnected" => a.remoteSdp # NoSdp

(* The descriptions of the sequence s are not empty strings.               *)
Named(s) ==
    \A i \in 1..Len(s) :
      s[i].type = "JuiceLocalDescription" => s[i].val # NoSdp

(* An agent and what it has sent, as p's member functions hand them on.    *)
Fit(p, w) ==
    /\ w \in Works /\ w.agent.alive
    /\ Sound(p, w.agent) /\ Named(w.sent)

OffersSound == \A p \in Peers : Sound(p, agent[p]) /\ Named(net[p])

-----------------------------------------------------------------------------
(* Sequences of messages.                                                  *)
LEMMA NamedAppend ==
  ASSUME NEW s \in Seq(Messages), Named(s), NEW m \in Messages,
         m.type = "JuiceLocalDescription" => m.val # NoSdp
  PROVE  Append(s, m) \in Seq(Messages) /\ Named(Append(s, m))
  BY AppendProperties DEF Named

(* Channels without empty descriptions, joined.                            *)
LEMMA NamedConcat ==
  ASSUME NEW s \in Seq(Messages), NEW t \in Seq(Messages), Named(s), Named(t)
  PROVE  Named(s \o t)
  <1>1. /\ Len(s \o t) = Len(s) + Len(t) /\ Len(s) \in Nat /\ Len(t) \in Nat
        /\ \A i \in 1..Len(s \o t) :
             (s \o t)[i] = IF i <= Len(s) THEN s[i] ELSE t[i - Len(s)]
    BY ConcatProperties, LenProperties
  <1> QED
    BY <1>1 DEF Named

(* The description at the head is not empty either.                        *)
LEMMA NamedTail ==
  ASSUME NEW s \in Seq(Messages), s # <<>>, Named(s)
  PROVE  /\ Tail(s) \in Seq(Messages) /\ Named(Tail(s))
         /\ Head(s).type = "JuiceLocalDescription" => Head(s).val # NoSdp
  <1>1. /\ Tail(s) \in Seq(Messages) /\ Len(Tail(s)) = Len(s) - 1
        /\ Head(s) = s[1] /\ Len(s) \in Nat /\ Len(s) > 0
    BY EmptySeq, LenProperties, HeadTailProperties
  <1>2. \A i \in 1..Len(Tail(s)) : Tail(s)[i] = s[i + 1]
    BY HeadTailProperties
  <1> QED
    BY <1>1, <1>2 DEF Named

-----------------------------------------------------------------------------
(* The member functions of JuiceAgent.                                     *)
LEMMA ReplaceFit ==
  ASSUME NEW p \in Peers, NEW w \in Works, Named(w.sent),
         NEW a \in Agents, a.alive, Sound(p, a)
  PROVE  Fit(p, [w EXCEPT !.agent = a])
  <1>1. [w EXCEPT !.agent = a] = [agent |-> a, sent |-> w.sent]
    BY DEF Works
  <1> QED
    BY <1>1 DEF Fit, Works

(* A message that is no empty description may be sent.                     *)
LEMMA PostFit ==
  ASSUME NEW p \in Peers, NEW w, Fit(p, w), NEW m \in Messages,
         m.type = "JuiceLocalDescription" => m.val # NoSdp
  PROVE  Fit(p, Post(w, m)) /\ Post(w, m).agent = w.agent
  <1> DEFINE s == Append(w.sent, m)
  <1>1. s \in Seq(Messages) /\ Named(s)
    BY NamedAppend DEF Fit, Works
  <1>2. Post(w, m) = [agent |-> w.agent, sent |-> s]
    BY DEF Post, Fit, Works
  <1> HIDE DEF s
  <1> QED
    BY <1>1, <1>2 DEF Fit, Works

(* A request is no description.                                            *)
LEMMA RequestFit ==
  ASSUME NEW p \in Peers, NEW w, Fit(p, w)
  PROVE  Fit(p, SendConnectionRequest(w))
  <1>1. w.agent.ours \in Nat
    BY DEF Fit, Works, Agents
  <1>2. /\ Request(w.agent.ours) \in Messages
        /\ Request(w.agent.ours).type # "JuiceLocalDescription"
    BY <1>1 DEF Request, Messages
  <1> QED
    BY <1>2, PostFit DEF SendConnectionRequest

(* reset_agent drops both descriptions with the agent they name.           *)
LEMMA ResetFit ==
  ASSUME NEW p \in Peers, NEW w, Fit(p, w)
  PROVE  Fit(p, ResetAgent(w)) /\ ResetAgent(w).agent.state = "Disconnected"
  <1> DEFINE a == [Blank(w.agent.ours + 1, w.agent.gen + 1) EXCEPT
                     !.alive = TRUE, !.theirs = w.agent.theirs]
  <1>1. /\ w.agent.ours + 1 \in Nat /\ w.agent.gen + 1 \in Nat
        /\ w.agent.gen + 1 > 0 /\ w.agent.theirs \in Nat
        /\ w \in Works /\ Named(w.sent)
    BY DEF Fit, Works, Agents
  <1>2. /\ a \in Agents /\ a.alive /\ a.gen = w.agent.gen + 1
        /\ a.localSdp = NoSdp /\ a.state = "Disconnected"
    BY <1>1 DEF Agents, Blank, States, NoSdp
  <1>3. ResetAgent(w) = [w EXCEPT !.agent = a]
    BY <1>1 DEF ResetAgent, Works
  <1> HIDE DEF a
  <1>4. Sound(p, a)
    BY <1>1, <1>2 DEF Sound
  <1>5. [w EXCEPT !.agent = a].agent = a
    BY <1>1 DEF Works
  <1> QED
    BY <1>1, <1>2, <1>3, <1>4, <1>5, ReplaceFit

(* An agent may offer or answer if it is the controlling one, or holds the *)
(* other's description.                                                    *)
LEMMA InitializeFit ==
  ASSUME NEW p \in Peers, NEW w, Fit(p, w),
         Controlling(p) \/ w.agent.remoteSdp # NoSdp
  PROVE  Fit(p, Initialize(w))
  <1> DEFINE sdp == LocalSdp(w.agent)
             a == [w.agent EXCEPT !.localSdp = sdp]
             v == [w EXCEPT !.agent = a]
             u == Post(v, Description(sdp))
             b == [u.agent EXCEPT !.state = "Gathering", !.ours = @ + 1]
  <1>1. /\ w \in Works /\ w.agent \in Agents /\ w.agent.gen \in Nat
        /\ w.agent.gen > 0 /\ Sound(p, w.agent) /\ Named(w.sent)
        /\ w.agent.alive
    BY DEF Fit, Works, Agents, Sound
  <1>2. sdp = w.agent.gen /\ sdp \in Nat /\ sdp # NoSdp
    BY <1>1 DEF LocalSdp, Sound, NoSdp
  <1>3. a \in Agents /\ a.alive /\ a.remoteSdp = w.agent.remoteSdp
    BY <1>1, <1>2 DEF Agents
  <1>4. Sound(p, a)
    BY <1>1, <1>2 DEF Sound, Agents
  <1>5. Initialize(w) = GatherCandidates(u)
    BY <1>1 DEF Initialize, Works
  <1> HIDE DEF a, sdp
  <1>6. Fit(p, v) /\ v.agent = a
    BY <1>1, <1>3, <1>4, ReplaceFit DEF Works
  <1> HIDE DEF v
  <1>7. Description(sdp) \in Messages /\ Description(sdp).val # NoSdp
    BY <1>2 DEF Description, Messages
  <1>8. Fit(p, u) /\ u.agent = a
    BY <1>6, <1>7, PostFit
  <1>9. GatherCandidates(u) = [u EXCEPT !.agent = b]
    BY <1>8 DEF GatherCandidates, Fit, Works
  <1>10. u \in Works /\ Named(u.sent) /\ u.agent = a
    BY <1>8 DEF Fit
  <1> HIDE DEF u
  <1>11. b \in Agents /\ b.alive
    <2>1. a.ours + 1 \in Nat
      BY <1>3 DEF Agents
    <2> QED
      BY <1>3, <1>10, <2>1 DEF Agents, States
  <1>12. Sound(p, b)
    BY <1>3, <1>4, <1>10 DEF Sound, Agents
  <1> HIDE DEF b
  <1> QED
    BY <1>5, <1>9, <1>10, <1>11, <1>12, ReplaceFit

(* try_initialize, of a peer that may offer or answer.                     *)
LEMMA TryInitializeFit ==
  ASSUME NEW p \in Peers, NEW w, Fit(p, w),
         \/ Controlling(p)
         \/ w.agent.state = "Disconnected" /\ w.agent.remoteSdp # NoSdp
  PROVE  Fit(p, TryInitialize(w))
  <1>1. CASE w.agent.state = "Failed"
    BY <1>1, ResetFit, InitializeFit DEF TryInitialize
  <1>2. CASE w.agent.state = "Disconnected"
    BY <1>2, InitializeFit DEF TryInitialize
  <1>3. CASE w.agent.state \notin {"Failed", "Disconnected"}
    BY <1>3 DEF TryInitialize
  <1> QED
    BY <1>1, <1>2, <1>3

(* The reset for a new attempt of the peer.                                *)
LEMMA AdoptFit ==
  ASSUME NEW p \in Peers, NEW w, Fit(p, w), NEW counter \in Nat
  PROVE  Fit(p, AdoptCounter(w, counter))
  <1> DEFINE r == ResetIf(w.agent.state # "Disconnected", w)
             a == [r.agent EXCEPT !.theirs = counter]
  <1>1. Fit(p, r)
    BY ResetFit DEF ResetIf
  <1> HIDE DEF r
  <1>2. /\ r \in Works /\ Named(r.sent) /\ r.agent \in Agents
        /\ r.agent.alive /\ Sound(p, r.agent)
    BY <1>1 DEF Fit, Works
  <1>3. a \in Agents /\ a.alive /\ Sound(p, a)
    BY <1>2 DEF Agents, Sound
  <1>4. AdoptCounter(w, counter) \in {w, [r EXCEPT !.agent = a]}
    BY <1>2 DEF AdoptCounter, r, Works
  <1> HIDE DEF a
  <1> QED
    BY <1>2, <1>3, <1>4, ReplaceFit

(* A request makes only the controlling peer offer.                        *)
LEMMA HandleRequestFit ==
  ASSUME NEW p \in Peers, NEW w, Fit(p, w), NEW counter \in Nat
  PROVE  Fit(p, HandleRequest(p, w, counter))
  <1> DEFINE v == ResetIf(w.agent.state = "Failed", w)
             u == AdoptCounter(v, counter)
  <1>1. Fit(p, v)
    BY ResetFit DEF ResetIf
  <1>2. HandleRequest(p, w, counter) = IF v.agent.theirs > counter THEN v
                                       ELSE IF Controlling(p)
                                            THEN TryInitialize(u)
                                            ELSE SendConnectionRequest(u)
    BY DEF HandleRequest
  <1> HIDE DEF v
  <1>3. Fit(p, u)
    BY <1>1, AdoptFit
  <1> HIDE DEF u
  <1>4. Controlling(p) => Fit(p, TryInitialize(u))
    BY <1>3, TryInitializeFit
  <1>5. Fit(p, SendConnectionRequest(u))
    BY <1>3, RequestFit
  <1> QED
    BY <1>1, <1>2, <1>4, <1>5

(* A description lets either peer start.                                   *)
LEMMA HandleDescriptionFit ==
  ASSUME NEW p \in Peers, NEW w, Fit(p, w), NEW sdp \in Nat, sdp # NoSdp
  PROVE  Fit(p, HandleDescription(w, sdp))
  <1>1. CASE w.agent.remoteSdp = NoSdp
    <2> DEFINE a == [w.agent EXCEPT !.remoteSdp = sdp]
               v == [w EXCEPT !.agent = a]
    <2>1. /\ w \in Works /\ Named(w.sent) /\ w.agent \in Agents
          /\ w.agent.alive /\ Sound(p, w.agent)
      BY DEF Fit, Works
    <2>2. /\ a \in Agents /\ a.alive /\ Sound(p, a)
          /\ a.remoteSdp # NoSdp /\ a.state = w.agent.state
      BY <2>1 DEF Agents, Sound
    <2>3. Controlling(p) \/ w.agent.state = "Disconnected"
      BY <1>1, <2>1 DEF Sound
    <2>4. HandleDescription(w, sdp) = TryInitialize(v)
      BY <1>1, <2>1 DEF HandleDescription, Works
    <2> HIDE DEF a
    <2>5. Fit(p, v) /\ v.agent = a
      BY <2>1, <2>2, ReplaceFit DEF Works
    <2> HIDE DEF v
    <2> QED
      BY <2>2, <2>3, <2>4, <2>5, TryInitializeFit
  <1>2. CASE w.agent.remoteSdp # NoSdp
    <2>1. HandleDescription(w, sdp) \in {w, SendConnectionRequest(ResetAgent(w))}
      BY <1>2 DEF HandleDescription
    <2> QED
      BY <2>1, ResetFit, RequestFit
  <1> QED
    BY <1>1, <1>2

(* Candidates and the end of them are no descriptions.                     *)
LEMMA HandleRestFit ==
  ASSUME NEW p \in Peers, NEW w, Fit(p, w), NEW g \in Nat
  PROVE  Fit(p, HandleCandidate(w, g)) /\ Fit(p, HandleDone(w))
  <1> DEFINE a == [w.agent EXCEPT !.candidates = @ \union {g}]
             b == [w.agent EXCEPT !.remoteDone = TRUE]
  <1>1. /\ w \in Works /\ Named(w.sent) /\ w.agent \in Agents
        /\ w.agent.alive /\ Sound(p, w.agent)
    BY DEF Fit, Works
  <1>2. /\ a \in Agents /\ a.alive /\ Sound(p, a)
        /\ b \in Agents /\ b.alive /\ Sound(p, b)
    BY <1>1 DEF Agents, Sound
  <1>3. /\ HandleCandidate(w, g) = [w EXCEPT !.agent = a]
        /\ HandleDone(w) = [w EXCEPT !.agent = b]
    BY <1>1 DEF HandleCandidate, HandleDone, Works
  <1> HIDE DEF a, b
  <1> QED
    BY <1>1, <1>2, <1>3, ReplaceFit

(* An agent just built is Disconnected and has no description.             *)
LEMMA EnsureFit ==
  ASSUME TypeOK, NEW p \in Peers, Sound(p, agent[p]), NEW w \in EnsureAgent(p)
  PROVE  Fit(p, w)
  <1>1. agent[p] \in Agents /\ agent[p].gen + 1 \in Nat /\ agent[p].gen + 1 > 0
    <2>1. agent[p] \in Agents
      BY DEF TypeOK
    <2> QED
      BY <2>1 DEF Agents
  <1>2. <<>> \in Seq(Messages) /\ Named(<<>>)
    BY DEF Named
  <1>3. CASE agent[p].alive
    <2>1. w = [agent |-> agent[p], sent |-> <<>>]
      BY <1>3 DEF EnsureAgent, Work
    <2> QED
      BY <1>1, <1>2, <1>3, <2>1 DEF Fit, Works
  <1>4. CASE ~agent[p].alive
    <2>1. PICK n \in Nat :
            w = SendConnectionRequest(
                  Work([Blank(n, agent[p].gen + 1) EXCEPT !.alive = TRUE]))
      BY <1>4 DEF EnsureAgent
    <2> DEFINE a == [Blank(n, agent[p].gen + 1) EXCEPT !.alive = TRUE]
    <2>2. a \in Agents /\ a.alive /\ Sound(p, a)
      BY <1>1 DEF Blank, Agents, States, NoSdp, Sound
    <2>3. w = SendConnectionRequest(Work(a))
      BY <2>1
    <2> HIDE DEF a
    <2>4. Fit(p, Work(a))
      BY <1>2, <2>2 DEF Work, Works, Fit
    <2> QED
      BY <2>3, <2>4, RequestFit
  <1> QED
    BY <1>3, <1>4

-----------------------------------------------------------------------------
(* The steps.                                                              *)
LEMMA FinishSound ==
  ASSUME TypeOK, OffersSound, NEW p \in Peers, NEW w, Fit(p, w),
         NEW rest \in Seq(Messages), Named(rest), Finish(p, w, rest)
  PROVE  OffersSound'
  <1> DEFINE q == Other(p)
  <1>1. q \in Peers /\ q # p /\ \A r \in Peers : r = p \/ r = q
    BY PeerTypes
  <1> HIDE DEF q
  <1>2. /\ agent'[p] = w.agent /\ agent'[q] = agent[q]
        /\ net'[p] = rest /\ net'[q] = net[q] \o w.sent
    BY <1>1 DEF TypeOK, Finish, q
  <1>3. /\ net[q] \in Seq(Messages) /\ Named(net[q]) /\ Sound(q, agent[q])
        /\ w.sent \in Seq(Messages) /\ Named(w.sent) /\ Sound(p, w.agent)
    BY <1>1 DEF TypeOK, OffersSound, Fit, Works
  <1>4. Named(net'[q])
    BY <1>2, <1>3, NamedConcat
  <1>5. Named(net'[p]) /\ Sound(p, agent'[p]) /\ Sound(q, agent'[q])
    BY <1>2, <1>3
  <1> QED
    BY <1>1, <1>4, <1>5 DEF OffersSound

(* Every entry point of the listener and of Storm ...                      *)
LEMMA EntrySound ==
  ASSUME TypeOK, OffersSound, NEW p \in Peers,
         \/ Poll(p) \/ PollReads(p) \/ PollSends(p) \/ SendGamePacket(p)
         \/ Deliver(p)
  PROVE  OffersSound'
  <1>1. ASSUME NEW w \in EnsureAgent(p)
        PROVE  /\ Fit(p, w) /\ Fit(p, SendConnectionRequest(w))
               /\ Fit(p, ResetAgent(w))
    BY EnsureFit, RequestFit, ResetFit DEF OffersSound
  <1>2. net[p] \in Seq(Messages) /\ Named(net[p])
    BY DEF TypeOK, OffersSound
  <1>3. CASE Poll(p) \/ PollReads(p) \/ PollSends(p) \/ SendGamePacket(p)
    <2>1. PICK w \in EnsureAgent(p) :
            \/ Finish(p, w, net[p])
            \/ Finish(p, SendConnectionRequest(w), net[p])
            \/ Finish(p, ResetAgent(w), net[p])
      <3>1. CASE Poll(p)
        BY <3>1 DEF Poll
      <3>2. CASE PollReads(p) \/ PollSends(p)
        BY <3>2 DEF PollReads, PollSends
      <3>3. CASE SendGamePacket(p)
        BY <3>3 DEF SendGamePacket
      <3> QED
        BY <1>3, <3>1, <3>2, <3>3
    <2> QED
      BY <1>1, <1>2, <2>1, FinishSound
  <1>4. CASE Deliver(p)
    <2> DEFINE m == Head(net[p])
    <2>1. net[p] # <<>>
      BY <1>4 DEF Deliver, ReceiveConnectionRequest, ReceiveLocalDescription,
                  ReceiveCandidate, ReceiveDone, Receives
    <2>2. m.val \in Nat
      BY <2>1, ChannelTail
    <2>3. /\ Tail(net[p]) \in Seq(Messages) /\ Named(Tail(net[p]))
          /\ m.type = "JuiceLocalDescription" => m.val # NoSdp
      BY <1>2, <2>1, NamedTail
    <2>4. PICK w \in EnsureAgent(p) :
            \/ Finish(p, HandleRequest(p, w, m.val), Tail(net[p]))
            \/ /\ m.type = "JuiceLocalDescription"
               /\ Finish(p, HandleDescription(w, m.val), Tail(net[p]))
            \/ Finish(p, HandleCandidate(w, m.val), Tail(net[p]))
            \/ Finish(p, HandleDone(w), Tail(net[p]))
      BY <1>4 DEF Deliver, ReceiveConnectionRequest, ReceiveLocalDescription,
                  ReceiveCandidate, ReceiveDone, Receives
    <2> HIDE DEF m
    <2>5. /\ Fit(p, HandleRequest(p, w, m.val))
          /\ Fit(p, HandleCandidate(w, m.val)) /\ Fit(p, HandleDone(w))
          /\ m.val # NoSdp => Fit(p, HandleDescription(w, m.val))
      BY <1>1, <2>2, HandleRequestFit, HandleDescriptionFit, HandleRestFit
    <2> QED
      BY <2>3, <2>4, <2>5, FinishSound
  <1> QED
    BY <1>3, <1>4

(* ... and every step of libjuice and of the faults.                       *)
LEMMA OtherSound ==
  ASSUME TypeOK, OffersSound, NEW p \in Peers, OtherStep(p)
  PROVE  OffersSound'
  <1> DEFINE q == Other(p)
  <1>1. q \in Peers /\ q # p /\ \A r \in Peers : r = p \/ r = q
    BY PeerTypes
  <1> HIDE DEF q
  <1>2. /\ agent[p] \in Agents /\ agent[p].gen \in Nat
        /\ net[p] \in Seq(Messages) /\ net[q] \in Seq(Messages)
        /\ Sound(p, agent[p]) /\ Sound(q, agent[q])
        /\ Named(net[p]) /\ Named(net[q])
    BY <1>1 DEF TypeOK, Agents, OffersSound
  <1>3. CASE Lose(p)
    <2>1. agent' = agent /\ net'[p] = Tail(net[p]) /\ net'[q] = net[q]
      BY <1>1, <1>3 DEF Lose, TypeOK
    <2>2. Named(net'[p])
      BY <1>2, <1>3, <2>1, NamedTail DEF Lose
    <2> QED
      BY <1>1, <1>2, <2>1, <2>2 DEF OffersSound
  <1>4. CASE Retire(p)
    <2> DEFINE b == Blank(agent[p].ours, agent[p].gen)
    <2>1. Sound(p, b)
      BY DEF Sound, Blank, NoSdp
    <2>2. agent'[p] = b /\ agent'[q] = agent[q] /\ net' = net
      BY <1>1, <1>4 DEF Retire, TypeOK
    <2> HIDE DEF b
    <2> QED
      BY <1>1, <1>2, <2>1, <2>2 DEF OffersSound
  <1>5. ASSUME NEW state \in States, JuiceSets(p, state),
               agent[p].state # "Disconnected"
        PROVE  OffersSound'
    <2> DEFINE a == [agent[p] EXCEPT !.state = state]
    <2>1. Sound(p, a)
      BY <1>2, <1>5 DEF Sound, Agents
    <2>2. agent'[p] = a /\ agent'[q] = agent[q] /\ net' = net
      BY <1>1, <1>5 DEF JuiceSets, TypeOK
    <2> HIDE DEF a
    <2> QED
      BY <1>1, <1>2, <2>1, <2>2 DEF OffersSound
  <1>6. CASE Connects(p) \/ Succeeds(p) \/ Completes(p) \/ TimesOut(p) \/ Fails(p)
    <2>1. agent[p].state # "Disconnected"
      BY <1>6 DEF Connects, Succeeds, Completes, TimesOut, Fails, Started
    <2>2. PICK state \in States : JuiceSets(p, state)
      BY <1>6 DEF Connects, Succeeds, Completes, TimesOut, Fails, States
    <2> QED
      BY <1>5, <2>1, <2>2
  <1>7. ASSUME NEW m \in Messages, m.type # "JuiceLocalDescription",
               NEW g \in {"candidates", "all"},
               agent' = [agent EXCEPT ![p].gathered = g],
               net' = [net EXCEPT ![Other(p)] = Append(@, m)]
        PROVE  OffersSound'
    <2> DEFINE a == [agent[p] EXCEPT !.gathered = g]
    <2>1. Sound(p, a)
      BY <1>2 DEF Sound, Agents
    <2>2. /\ agent'[p] = a /\ agent'[q] = agent[q]
          /\ net'[p] = net[p] /\ net'[q] = Append(net[q], m)
      BY <1>1, <1>7 DEF TypeOK, q
    <2> HIDE DEF a
    <2>3. Named(net'[q])
      BY <1>2, <1>7, <2>2, NamedAppend
    <2> QED
      BY <1>1, <1>2, <2>1, <2>2, <2>3 DEF OffersSound
  <1>8. CASE GathersCandidates(p)
    <2>1. /\ Candidate(agent[p].gen) \in Messages
          /\ Candidate(agent[p].gen).type # "JuiceLocalDescription"
      BY <1>2 DEF Candidate, Messages
    <2> QED
      BY <1>7, <1>8, <2>1 DEF GathersCandidates
  <1>9. CASE GathersAll(p)
    <2>1. /\ Done(agent[p].gen) \in Messages
          /\ Done(agent[p].gen).type # "JuiceLocalDescription"
      BY <1>2 DEF Done, Messages
    <2> QED
      BY <1>7, <1>9, <2>1 DEF GathersAll
  <1> QED
    BY <1>3, <1>4, <1>6, <1>8, <1>9 DEF OtherStep, Juice

(* Every agent and every channel is sound at all times.                    *)
THEOREM OffersAreSound == Spec => []OffersSound
  <1>1. Init => OffersSound
    <2> SUFFICES ASSUME Init, NEW p \in Peers
                 PROVE  Sound(p, agent[p]) /\ Named(net[p])
      BY DEF OffersSound
    <2>1. agent[p] = Blank(ClockStart, 0) /\ net[p] = <<>>
      BY DEF Init
    <2> QED
      BY <2>1 DEF Sound, Named, Blank, NoSdp
  <1>2. TypeOK /\ OffersSound /\ [Next]_vars => OffersSound'
    <2> SUFFICES ASSUME TypeOK, OffersSound, [Next]_vars PROVE OffersSound'
      OBVIOUS
    <2>1. CASE UNCHANGED vars
      BY <2>1 DEF vars, OffersSound
    <2>2. CASE Next
      <3>1. PICK p \in Peers :
              \/ Poll(p) \/ PollReads(p) \/ PollSends(p) \/ SendGamePacket(p)
              \/ Deliver(p) \/ OtherStep(p)
        BY <2>2 DEF Next, OtherStep
      <3> QED
        BY <3>1, EntrySound, OtherSound
    <2> QED
      BY <2>1, <2>2
  <1> QED
    BY <1>1, <1>2, TypeCorrect, PTL DEF Spec

(* Two offers never cross, with any clock and whatever is lost.            *)
THEOREM OneSideOffers == Spec => []ResponderHasOffer
  <1>1. OffersSound => ResponderHasOffer
    BY DEF OffersSound, Sound, ResponderHasOffer
  <1> QED
    BY <1>1, OffersAreSound, PTL

(* No description of an agent that a reset has destroyed is sent again.    *)
THEOREM SdpIsCurrent == Spec => []LocalSdpIsCurrent
  <1>1. OffersSound => LocalSdpIsCurrent
    BY DEF OffersSound, Sound, LocalSdpIsCurrent
  <1> QED
    BY <1>1, OffersAreSound, PTL
===============================================================================
