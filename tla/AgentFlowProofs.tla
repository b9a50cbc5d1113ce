---------------------------- MODULE AgentFlowProofs ----------------------------
(***************************************************************************)
(* Proofs about AgentSession: what is on its way from one agent to the     *)
(* other fits what both are.  The member functions are summed up once, in  *)
(* Effect, by what an entry point makes of an agent and of its channels;   *)
(* every invariant below is then a matter of sequences of messages.        *)
(***************************************************************************)
EXTENDS AgentOfferProofs

IsRequest(m) == m.type = "ConnectionRequest"
IsDescription(m) == m.type = "JuiceLocalDescription"
IsCandidate(m) == m.type = "JuiceCandidate"

Requests(s) == \A i \in 1..Len(s) : IsRequest(s[i])

(* An agent by itself: it is gone, or new, or gathers, or holds the        *)
(* description of the peer it connects to.                                 *)
Local(a) ==
    /\ ~a.alive => a.state = "Disconnected"
    /\ a.state = "Disconnected" => a.remoteSdp = NoSdp
    /\ a.state \notin {"Disconnected", "Gathering"} => a.remoteSdp # NoSdp

(* What an entry point that found the agent a has made of it so far, before*)
(* a description goes out: the same libjuice agent, or a new one.          *)
Same(a, b) ==
    /\ a.alive /\ b.gen = a.gen /\ b.state = a.state
    /\ b.remoteSdp = a.remoteSdp /\ b.candidates = a.candidates
    /\ a.state # "Disconnected" => b.theirs = a.theirs

New(a, b) ==
    /\ b.gen > a.gen /\ b.state = "Disconnected"
    /\ b.remoteSdp = NoSdp /\ b.candidates = {}

Ready(a, w) ==
    /\ w \in Works /\ w.agent.alive /\ w.agent.gen > 0
    /\ w.agent.localSdp \in {NoSdp, w.agent.gen}
    /\ Requests(w.sent)
    /\ \A i \in 1..Len(w.sent) : w.sent[i].val <= w.agent.ours
    /\ ClockGain \subseteq Nat => a.ours <= w.agent.ours
    /\ Same(a, w.agent) \/ New(a, w.agent)

-----------------------------------------------------------------------------
(* The member functions of JuiceAgent, by what they do to each member.     *)
LEMMA RequestFields ==
  ASSUME NEW w \in Works
  PROVE  /\ SendConnectionRequest(w) \in Works
         /\ SendConnectionRequest(w).agent = w.agent
         /\ SendConnectionRequest(w).sent = Append(w.sent, Request(w.agent.ours))
         /\ Request(w.agent.ours) \in Messages
         /\ IsRequest(Request(w.agent.ours))
         /\ Request(w.agent.ours).val = w.agent.ours
         /\ w.agent.ours \in Nat
  <1>1. w.agent \in Agents /\ w.agent.ours \in Nat /\ w.sent \in Seq(Messages)
    BY DEF Works, Agents
  <1> DEFINE m == Request(w.agent.ours)
             s == Append(w.sent, m)
  <1>2. m \in Messages /\ IsRequest(m) /\ m.val = w.agent.ours
    BY <1>1 DEF Request, Messages, IsRequest
  <1> HIDE DEF m
  <1>3. s \in Seq(Messages)
    BY <1>1, <1>2, AppendProperties
  <1>4. SendConnectionRequest(w) = [w EXCEPT !.sent = s]
    BY DEF SendConnectionRequest, Post, m
  <1> HIDE DEF s
  <1>5. SendConnectionRequest(w) = [agent |-> w.agent, sent |-> s]
    BY <1>4 DEF Works
  <1> QED
    BY <1>1, <1>2, <1>3, <1>5 DEF Works, m, s

(* reset_agent.                                                            *)
LEMMA ResetFields ==
  ASSUME NEW w \in Works
  PROVE  /\ ResetAgent(w) \in Works /\ ResetAgent(w).sent = w.sent
         /\ ResetAgent(w).agent.alive
         /\ ResetAgent(w).agent.state = "Disconnected"
         /\ ResetAgent(w).agent.ours = w.agent.ours + 1
         /\ ResetAgent(w).agent.theirs = w.agent.theirs
         /\ ResetAgent(w).agent.gen = w.agent.gen + 1
         /\ ResetAgent(w).agent.localSdp = NoSdp
         /\ ResetAgent(w).agent.remoteSdp = NoSdp
         /\ ResetAgent(w).agent.candidates = {}
         /\ w.agent.gen \in Nat /\ w.agent.ours \in Nat
  <1> DEFINE a == [Blank(w.agent.ours + 1, w.agent.gen + 1) EXCEPT
                     !.alive = TRUE, !.theirs = w.agent.theirs]
  <1>1. /\ w.agent.ours \in Nat /\ w.agent.ours + 1 \in Nat
        /\ w.agent.gen \in Nat /\ w.agent.gen + 1 \in Nat
        /\ w.agent.theirs \in Nat
    BY DEF Works, Agents
  <1>2. /\ a \in Agents /\ a.alive /\ a.gen = w.agent.gen + 1
        /\ a.ours = w.agent.ours + 1 /\ a.theirs = w.agent.theirs
        /\ a.localSdp = NoSdp /\ a.remoteSdp = NoSdp
        /\ a.state = "Disconnected" /\ a.candidates = {}
    BY <1>1 DEF Agents, Blank, States, NoSdp
  <1>3. ResetAgent(w) = [w EXCEPT !.agent = a]
    BY DEF ResetAgent, Works
  <1> HIDE DEF a
  <1>4. ResetAgent(w) = [agent |-> a, sent |-> w.sent]
    BY <1>3 DEF Works
  <1> QED
    BY <1>1, <1>2, <1>4 DEF Works

(* Sending the description of the libjuice agent there is, and gathering.  *)
LEMMA InitializeFields ==
  ASSUME NEW w \in Works, w.agent.localSdp \in {NoSdp, w.agent.gen}
  PROVE  /\ Initialize(w) \in Works
         /\ Initialize(w).sent = Append(w.sent, Description(w.agent.gen))
         /\ Initialize(w).agent.alive = w.agent.alive
         /\ Initialize(w).agent.state = "Gathering"
         /\ Initialize(w).agent.ours = w.agent.ours + 1
         /\ Initialize(w).agent.theirs = w.agent.theirs
         /\ Initialize(w).agent.gen = w.agent.gen
         /\ Initialize(w).agent.remoteSdp = w.agent.remoteSdp
         /\ Initialize(w).agent.candidates = w.agent.candidates
         /\ Description(w.agent.gen) \in Messages
         /\ IsDescription(Description(w.agent.gen))
         /\ Description(w.agent.gen).val = w.agent.gen
  <1> DEFINE g == w.agent.gen
             m == Description(g)
             a == [w.agent EXCEPT !.localSdp = g]
             s == Append(w.sent, m)
             b == [a EXCEPT !.state = "Gathering", !.ours = @ + 1]
  <1>1. /\ w.agent \in Agents /\ g \in Nat /\ w.agent.ours \in Nat
        /\ w.sent \in Seq(Messages)
    BY DEF Works, Agents
  <1>2. LocalSdp(w.agent) = g
    BY <1>1 DEF LocalSdp, NoSdp
  <1>3. m \in Messages /\ IsDescription(m) /\ m.val = g
    BY <1>1 DEF Description, Messages, IsDescription
  <1>4. s \in Seq(Messages)
    BY <1>1, <1>3, AppendProperties
  <1>5. /\ b \in Agents /\ b.alive = w.agent.alive /\ b.state = "Gathering"
        /\ b.ours = w.agent.ours + 1 /\ b.theirs = w.agent.theirs
        /\ b.gen = g /\ b.remoteSdp = w.agent.remoteSdp
        /\ b.candidates = w.agent.candidates
    <2>1. w.agent.ours + 1 \in Nat
      BY <1>1
    <2> QED
      BY <1>1, <2>1 DEF Agents, States
  <1>6. Initialize(w) = [agent |-> b, sent |-> s]
    <2>1. [w EXCEPT !.agent.localSdp = g] = [agent |-> a, sent |-> w.sent]
      BY DEF Works
    <2>2. Post([agent |-> a, sent |-> w.sent], m) = [agent |-> a, sent |-> s]
      <3> HIDE DEF m, a
      <3> QED
        BY <1>1, <1>3 DEF Post
    <2>3. GatherCandidates([agent |-> a, sent |-> s]) = [agent |-> b, sent |-> s]
      <3> DEFINE u == [agent |-> a, sent |-> s]
                 c == [u.agent EXCEPT !.state = "Gathering",
                                      !.ours = u.agent.ours + 1]
      <3>1. a \in Agents
        BY <1>1 DEF Agents
      <3>2. u \in Works /\ u.agent = a /\ u.sent = s
        BY <1>4, <3>1 DEF Works
      <3> HIDE DEF a, s, u
      <3>3. GatherCandidates(u) = [u EXCEPT !.agent = c]
        BY <3>2 DEF GatherCandidates, Works
      <3>4. c = b
        BY <3>2
      <3> HIDE DEF c, b
      <3>5. [u EXCEPT !.agent = c] = [agent |-> c, sent |-> s]
        BY <3>2 DEF Works
      <3> QED
        BY <3>3, <3>4, <3>5 DEF u
    <2> QED
      BY <1>2, <2>1, <2>2, <2>3 DEF Initialize
  <1> HIDE DEF b, s
  <1> QED
    BY <1>3, <1>4, <1>5, <1>6 DEF Works, s, m, g
-----------------------------------------------------------------------------
(* Sequences of requests.                                                  *)
LEMMA RequestsAppend ==
  ASSUME NEW s \in Seq(Messages), Requests(s), NEW m \in Messages, IsRequest(m),
         NEW n \in Nat, \A i \in 1..Len(s) : s[i].val <= n, m.val <= n
  PROVE  /\ Requests(Append(s, m))
         /\ \A i \in 1..Len(Append(s, m)) : Append(s, m)[i].val <= n
  BY AppendProperties DEF Requests

(* reset_agent leaves a new libjuice agent.                                *)
LEMMA ResetReady ==
  ASSUME NEW a \in Agents, NEW w, Ready(a, w)
  PROVE  /\ Ready(a, ResetAgent(w)) /\ New(a, ResetAgent(w).agent)
         /\ ResetAgent(w).sent = w.sent
         /\ ResetAgent(w).agent.theirs = w.agent.theirs
         /\ ResetAgent(w).agent.ours = w.agent.ours + 1
         /\ w.agent.ours \in Nat
  <1> DEFINE v == ResetAgent(w)
  <1>1. w \in Works /\ a.gen \in Nat /\ a.ours \in Nat
    BY DEF Ready, Agents
  <1>2. /\ v \in Works /\ v.sent = w.sent /\ v.agent.alive
        /\ v.agent.state = "Disconnected" /\ v.agent.ours = w.agent.ours + 1
        /\ v.agent.theirs = w.agent.theirs /\ v.agent.gen = w.agent.gen + 1
        /\ v.agent.localSdp = NoSdp /\ v.agent.remoteSdp = NoSdp
        /\ v.agent.candidates = {}
        /\ w.agent.gen \in Nat /\ w.agent.ours \in Nat
    BY <1>1, ResetFields
  <1> HIDE DEF v
  <1>3. w.agent.gen >= a.gen
    BY <1>1, <1>2 DEF Ready, Same, New
  <1>4. New(a, v.agent)
    BY <1>1, <1>2, <1>3 DEF New
  <1>5. \A i \in 1..Len(v.sent) : v.sent[i].val <= v.agent.ours
    <2>1. \A i \in 1..Len(w.sent) : w.sent[i].val \in Nat
      BY <1>1, ElementTypes DEF Works
    <2> QED
      BY <1>1, <1>2, <2>1 DEF Ready
  <1> QED
    BY <1>1, <1>2, <1>4, <1>5 DEF Ready, v

(* A request may go out.                                                   *)
LEMMA RequestReady ==
  ASSUME NEW a \in Agents, NEW w, Ready(a, w)
  PROVE  /\ Ready(a, SendConnectionRequest(w))
         /\ SendConnectionRequest(w).agent = w.agent
  <1> DEFINE v == SendConnectionRequest(w)
             m == Request(w.agent.ours)
  <1>1. w \in Works /\ w.sent \in Seq(Messages)
    BY DEF Ready, Works
  <1>2. /\ v \in Works /\ v.agent = w.agent /\ v.sent = Append(w.sent, m)
        /\ m \in Messages /\ IsRequest(m) /\ m.val = w.agent.ours
        /\ w.agent.ours \in Nat
    BY <1>1, RequestFields
  <1> HIDE DEF v, m
  <1>3. /\ Requests(v.sent)
        /\ \A i \in 1..Len(v.sent) : v.sent[i].val <= v.agent.ours
    <2>1. /\ Requests(w.sent) /\ m.val <= w.agent.ours
          /\ \A i \in 1..Len(w.sent) : w.sent[i].val <= w.agent.ours
      BY <1>2 DEF Ready
    <2> QED
      BY <1>1, <1>2, <2>1, RequestsAppend
  <1> QED
    BY <1>1, <1>2, <1>3 DEF Ready, v

(* ensure_agent: the agent there was, untouched, or a new one.             *)
LEMMA EnsureReady ==
  ASSUME TypeOK, OffersSound, NEW p \in Peers, NEW w \in EnsureAgent(p)
  PROVE  /\ Ready(agent[p], w)
         /\ w.agent.theirs \in {agent[p].theirs, 0}
         /\ \/ w.sent = <<>> /\ w.agent = agent[p] /\ agent[p].alive
            \/ New(agent[p], w.agent) /\ w.agent.theirs = 0
  <1> DEFINE a == agent[p]
  <1>1. /\ a \in Agents /\ a.gen \in Nat /\ a.ours \in Nat
        /\ Sound(p, a)
    <2>1. a \in Agents /\ Sound(p, a)
      BY DEF TypeOK, OffersSound
    <2> QED
      BY <2>1 DEF Agents
  <1>2. CASE a.alive
    <2>1. w = [agent |-> a, sent |-> <<>>]
      BY <1>2 DEF EnsureAgent, Work
    <2> HIDE DEF a
    <2> QED
      BY <1>1, <1>2, <2>1 DEF Ready, Works, Same, Requests, Sound, a
  <1>3. CASE ~a.alive
    <2>1. PICK n \in Nat :
            /\ ClockGain \subseteq Nat => a.ours <= n
            /\ w = SendConnectionRequest(
                     Work([Blank(n, a.gen + 1) EXCEPT !.alive = TRUE]))
      BY <1>1, <1>3 DEF EnsureAgent
    <2> DEFINE b == [Blank(n, a.gen + 1) EXCEPT !.alive = TRUE]
    <2>2. /\ b \in Agents /\ b.alive /\ b.ours = n /\ b.theirs = 0
          /\ b.gen = a.gen + 1 /\ b.localSdp = NoSdp /\ b.remoteSdp = NoSdp
          /\ b.state = "Disconnected" /\ b.candidates = {}
      <3>1. a.gen + 1 \in Nat
        BY <1>1
      <3> HIDE DEF a
      <3> QED
        BY <3>1 DEF Blank, Agents, States, NoSdp
    <2>3. w = SendConnectionRequest(Work(b))
      BY <2>1
    <2> HIDE DEF b, a
    <2>4. New(a, b)
      BY <1>1, <2>2 DEF New
    <2>5. Work(b) \in Works /\ Work(b).agent = b /\ Work(b).sent = <<>>
      BY <2>2 DEF Work, Works
    <2>6. Ready(a, Work(b))
      BY <1>1, <2>1, <2>2, <2>4, <2>5 DEF Ready, Requests
    <2> QED
      BY <1>1, <2>2, <2>3, <2>4, <2>5, <2>6, RequestReady DEF a
  <1> QED
    BY <1>2, <1>3

-----------------------------------------------------------------------------
(* What an entry point sends in the end: nothing but requests, or, once it *)
(* has made the agent gather, that agent's description last.               *)
Rests(a, w) ==
    /\ Requests(w.sent)
    /\ \/ a.alive /\ w.agent.gen = a.gen /\ w.agent.state = a.state
       \/ w.agent.gen > a.gen /\ w.agent.state = "Disconnected"

Opens(a, w) ==
    /\ \E r \in Seq(Messages) :
         /\ w.sent = Append(r, Description(w.agent.gen)) /\ Requests(r)
         /\ \A i \in 1..Len(r) : r[i].val < w.agent.ours
    /\ w.agent.state = "Gathering"
    /\ \/ a.alive /\ w.agent.gen = a.gen /\ a.state = "Disconnected"
       \/ w.agent.gen > a.gen
    /\ ClockGain \subseteq Nat => a.ours < w.agent.ours

Outcome(a, w) ==
    /\ w \in Works /\ w.agent.alive /\ w.agent.gen > 0 /\ Local(w.agent)
    /\ Rests(a, w) \/ Opens(a, w)

(* An agent in session says nothing.                                       *)
Reticent(a, w) ==
    w.agent.gen = a.gen /\ a.state \notin {"Disconnected", "Failed"} =>
      w.sent = <<>> \/ Opens(a, w)

(* What becomes of what the agent a was told: it is kept, or forgotten with*)
(* the libjuice agent that was told it.                                    *)
Keeps(a, b) ==
    \/ /\ b.gen = a.gen /\ b.remoteSdp = a.remoteSdp
       /\ b.candidates = a.candidates
       /\ a.state # "Disconnected" => b.theirs = a.theirs
    \/ b.gen > a.gen /\ b.remoteSdp = NoSdp /\ b.candidates = {}

TakesDescription(a, b, d) ==
    \/ /\ b.gen = a.gen /\ b.remoteSdp = d /\ a.remoteSdp \in {NoSdp, d}
       /\ b.candidates = a.candidates /\ b.theirs = a.theirs
    \/ b.gen > a.gen /\ b.remoteSdp \in {NoSdp, d} /\ b.candidates = {}

TakesCandidate(a, b, g) ==
    \/ /\ b.gen = a.gen /\ b.remoteSdp = a.remoteSdp
       /\ b.candidates = a.candidates \union {g} /\ b.theirs = a.theirs
    \/ b.gen > a.gen /\ b.remoteSdp = NoSdp /\ b.candidates = {g}

(* A description that is new to the agent a is answered, with a            *)
(* description or with a request for another attempt.                      *)
Answers(a, w) ==
    \/ Opens(a, w)
    \/ \E i \in 1..Len(w.sent) : IsRequest(w.sent[i]) /\ w.sent[i].val > a.ours

(* The agent from which the handlers start.                                *)
Base(a, w) ==
    /\ Ready(a, w) /\ w.agent.theirs \in {a.theirs, 0}
    /\ \/ w.sent = <<>> /\ w.agent = a /\ a.alive
       \/ New(a, w.agent) /\ w.agent.theirs = 0

-----------------------------------------------------------------------------
(* What is ready may be left as it is.                                     *)
LEMMA ReadyOutcome ==
  ASSUME NEW a \in Agents, Local(a), NEW w, Ready(a, w)
  PROVE  Outcome(a, w) /\ Rests(a, w) /\ Keeps(a, w.agent)
  BY DEF Ready, Outcome, Rests, Keeps, Same, New, Local

(* ... or gather.                                                          *)
LEMMA InitializeOpens ==
  ASSUME NEW a \in Agents, NEW w \in Works, w.agent.alive, w.agent.gen > 0,
         w.agent.localSdp \in {NoSdp, w.agent.gen}, Requests(w.sent),
         \A i \in 1..Len(w.sent) : w.sent[i].val <= w.agent.ours,
         ClockGain \subseteq Nat => a.ours <= w.agent.ours,
         \/ a.alive /\ w.agent.gen = a.gen /\ a.state = "Disconnected"
         \/ w.agent.gen > a.gen
  PROVE  /\ Outcome(a, Initialize(w)) /\ Opens(a, Initialize(w))
         /\ Initialize(w).agent.gen = w.agent.gen
         /\ Initialize(w).agent.remoteSdp = w.agent.remoteSdp
         /\ Initialize(w).agent.candidates = w.agent.candidates
         /\ Initialize(w).agent.theirs = w.agent.theirs
  <1> DEFINE v == Initialize(w)
  <1>1. /\ v \in Works /\ v.sent = Append(w.sent, Description(w.agent.gen))
        /\ v.agent.alive /\ v.agent.state = "Gathering"
        /\ v.agent.ours = w.agent.ours + 1 /\ v.agent.gen = w.agent.gen
        /\ v.agent.remoteSdp = w.agent.remoteSdp
        /\ v.agent.candidates = w.agent.candidates
        /\ v.agent.theirs = w.agent.theirs
    BY InitializeFields
  <1>2. /\ w.sent \in Seq(Messages) /\ w.agent.ours \in Nat /\ a.ours \in Nat
        /\ \A i \in 1..Len(w.sent) : w.sent[i].val \in Nat
    BY ElementTypes DEF Works, Agents
  <1> HIDE DEF v
  <1>3. /\ \A i \in 1..Len(w.sent) : w.sent[i].val < v.agent.ours
        /\ ClockGain \subseteq Nat => a.ours < v.agent.ours
    BY <1>1, <1>2
  <1>4. Opens(a, v)
    BY <1>1, <1>2, <1>3 DEF Opens
  <1> QED
    BY <1>1, <1>4 DEF Outcome, Local, v

(* The counter of a new attempt is adopted by an agent that is ready.      *)
LEMMA AdoptReady ==
  ASSUME NEW a \in Agents, NEW v, Ready(a, v), NEW c \in Nat,
         v.agent.theirs <= c
  PROVE  /\ Ready(a, AdoptCounter(v, c))
         /\ AdoptCounter(v, c).agent.theirs = c
         /\ \/ AdoptCounter(v, c) = v
            \/ AdoptCounter(v, c).agent.state = "Disconnected"
  <1>1. v \in Works /\ v.agent.theirs \in Nat
    BY DEF Ready, Works, Agents
  <1>2. CASE v.agent.theirs < c
    <2> DEFINE r == ResetIf(v.agent.state # "Disconnected", v)
               b == [r.agent EXCEPT !.theirs = c]
               u == [r EXCEPT !.agent = b]
    <2>1. Ready(a, r) /\ r.agent.state = "Disconnected"
      BY ResetReady DEF ResetIf, New
    <2>2. AdoptCounter(v, c) = [r EXCEPT !.agent.theirs = c]
      BY <1>2 DEF AdoptCounter
    <2> HIDE DEF r
    <2>3. r \in Works /\ r.agent \in Agents
      BY <2>1 DEF Ready, Works
    <2>4. AdoptCounter(v, c) = u
      BY <2>2, <2>3 DEF Works
    <2>5. /\ b \in Agents /\ b.theirs = c /\ b.alive = r.agent.alive
          /\ b.state = r.agent.state /\ b.ours = r.agent.ours
          /\ b.gen = r.agent.gen /\ b.localSdp = r.agent.localSdp
          /\ b.remoteSdp = r.agent.remoteSdp
          /\ b.candidates = r.agent.candidates
      BY <2>3 DEF Agents
    <2> HIDE DEF b
    <2>6. u = [agent |-> b, sent |-> r.sent]
      BY <2>3 DEF Works
    <2>7. u \in Works /\ u.agent = b /\ u.sent = r.sent
      BY <2>3, <2>5, <2>6 DEF Works
    <2> HIDE DEF u
    <2>8. Same(a, r.agent) => Same(a, b)
      BY <2>1, <2>5 DEF Same
    <2>9. New(a, r.agent) => New(a, b)
      BY <2>5 DEF New
    <2>10. Ready(a, u)
      BY <2>1, <2>5, <2>7, <2>8, <2>9 DEF Ready
    <2> QED
      BY <2>1, <2>4, <2>5, <2>7, <2>10
  <1>3. CASE ~(v.agent.theirs < c)
    BY <1>1, <1>3 DEF AdoptCounter
  <1> QED
    BY <1>2, <1>3

(* handle_crownlink_message for a connection request.                      *)
LEMMA RequestEffect ==
  ASSUME NEW p \in Peers, NEW a \in Agents, Local(a), Sound(p, a),
         NEW w, Base(a, w), NEW c \in Nat, NEW x, x = HandleRequest(p, w, c)
  PROVE  /\ Outcome(a, x) /\ Keeps(a, x.agent)
         /\ x.agent.theirs \in {a.theirs, c, 0}
         /\ x.agent.gen = a.gen /\ a.state # "Disconnected" => c <= a.theirs
         /\ (a.remoteSdp # NoSdp => a.theirs < c) => Reticent(a, x)
  <1> DEFINE v == ResetIf(w.agent.state = "Failed", w)
             u == AdoptCounter(v, c)
  <1>1. /\ Ready(a, v) /\ v.agent.theirs = w.agent.theirs
        /\ v.agent.state # "Failed"
        /\ v = w \/ New(a, v.agent)
    BY ResetReady DEF ResetIf, Base, New
  <1>2. x = IF v.agent.theirs > c THEN v
            ELSE IF Controlling(p) THEN TryInitialize(u)
                 ELSE SendConnectionRequest(u)
    BY DEF HandleRequest
  <1>3. /\ a.gen \in Nat /\ a.theirs \in Nat /\ v.agent.theirs \in Nat
        /\ v.agent.theirs \in {a.theirs, 0}
    BY <1>1 DEF Ready, Works, Agents, Base
  <1>4. v.agent.gen = a.gen =>
          /\ v = w /\ w.sent = <<>> /\ w.agent = a
    BY <1>1, <1>3 DEF Base, New
  <1> HIDE DEF v
  <1>5. CASE v.agent.theirs > c
    BY <1>1, <1>2, <1>3, <1>4, <1>5, ReadyOutcome DEF Reticent
  <1>6. CASE ~(v.agent.theirs > c)
    <2>1. /\ Ready(a, u) /\ u.agent.theirs = c
          /\ u = v \/ u.agent.state = "Disconnected"
      BY <1>1, <1>3, <1>6, AdoptReady
    <2> HIDE DEF u
    <2>2. /\ u \in Works /\ Keeps(a, u.agent) /\ Outcome(a, u)
          /\ u.agent.state # "Failed"
      BY <1>1, <2>1, ReadyOutcome DEF Ready
    <2>3. u.agent.gen = a.gen /\ a.state # "Disconnected" =>
            u = w /\ w.agent = a /\ w.sent = <<>>
      BY <1>3, <1>4, <2>1 DEF Ready, Same, New
    <2>4. CASE Controlling(p) /\ u.agent.state = "Disconnected"
      <3>1. x = Initialize(u)
        BY <1>2, <1>6, <2>4 DEF TryInitialize
      <3>2. \/ a.alive /\ u.agent.gen = a.gen /\ a.state = "Disconnected"
            \/ u.agent.gen > a.gen
        BY <2>1, <2>4 DEF Ready, Same, New
      <3>3. /\ Outcome(a, x) /\ Opens(a, x) /\ x.agent.gen = u.agent.gen
            /\ x.agent.remoteSdp = u.agent.remoteSdp
            /\ x.agent.candidates = u.agent.candidates
            /\ x.agent.theirs = c
        BY <2>1, <2>2, <3>1, <3>2, InitializeOpens DEF Ready
      <3>4. Keeps(a, x.agent)
        BY <2>1, <2>2, <3>3 DEF Keeps
      <3> QED
        BY <2>1, <2>3, <2>4, <3>3, <3>4 DEF Reticent
    <2>5. CASE Controlling(p) /\ u.agent.state # "Disconnected"
      <3>1. x = u
        BY <1>2, <1>6, <2>2, <2>5 DEF TryInitialize
      <3> QED
        BY <1>3, <2>1, <2>2, <2>3, <3>1 DEF Reticent
    <2>6. CASE ~Controlling(p)
      <3>1. x = SendConnectionRequest(u)
        BY <1>2, <1>6, <2>6
      <3>2. Ready(a, x) /\ x.agent = u.agent
        BY <2>1, <3>1, RequestReady
      <3>3. u.agent.gen = a.gen /\ a.state # "Disconnected" =>
              c = a.theirs /\ a.remoteSdp # NoSdp
        BY <2>1, <2>3, <2>6 DEF Sound
      <3> QED
        BY <1>3, <2>1, <2>2, <3>2, <3>3, ReadyOutcome DEF Reticent
    <2> QED
      BY <2>4, <2>5, <2>6
  <1> QED
    BY <1>5, <1>6

(* handle_crownlink_message for a description.                             *)
LEMMA DescriptionEffect ==
  ASSUME NEW a \in Agents, Local(a), NEW w, Base(a, w),
         NEW d \in Nat, d # NoSdp, NEW x, x = HandleDescription(w, d)
  PROVE  /\ Outcome(a, x) /\ TakesDescription(a, x.agent, d)
         /\ x.agent.theirs \in {a.theirs, 0} /\ Reticent(a, x)
         /\ \/ Answers(a, x) \/ a.remoteSdp = d
            \/ a.state # "Disconnected" /\ a.remoteSdp = NoSdp
  <1>1. /\ Ready(a, w) /\ w \in Works /\ w.agent \in Agents
        /\ w.sent \in Seq(Messages) /\ a.gen \in Nat /\ a.ours \in Nat
        /\ w.agent.theirs \in {a.theirs, 0}
    BY DEF Base, Ready, Works, Agents
  <1>2. /\ w.agent.remoteSdp # NoSdp =>
             w.sent = <<>> /\ w.agent = a /\ a.alive
        /\ w.agent.state = "Failed" => w.agent.remoteSdp # NoSdp
    BY DEF Base, New, Local
  <1>3. CASE w.agent.remoteSdp = NoSdp
    <2> DEFINE b == [w.agent EXCEPT !.remoteSdp = d]
               v == [w EXCEPT !.agent = b]
    <2>1. /\ b \in Agents /\ b.theirs = w.agent.theirs
          /\ b.alive = w.agent.alive
          /\ b.state = w.agent.state /\ b.ours = w.agent.ours
          /\ b.gen = w.agent.gen /\ b.localSdp = w.agent.localSdp
          /\ b.remoteSdp = d /\ b.candidates = w.agent.candidates
      BY <1>1 DEF Agents
    <2>2. x = TryInitialize(v)
      BY <1>1, <1>3 DEF HandleDescription, Works
    <2> HIDE DEF b
    <2>3. v = [agent |-> b, sent |-> w.sent]
      BY <1>1 DEF Works
    <2>4. v \in Works /\ v.agent = b /\ v.sent = w.sent
      BY <1>1, <2>1, <2>3 DEF Works
    <2> HIDE DEF v
    <2>5. b.state # "Failed"
      BY <1>2, <1>3, <2>1
    <2>6. CASE b.state = "Disconnected"
      <3>1. x = Initialize(v)
        BY <2>2, <2>4, <2>6 DEF TryInitialize
      <3>2. \/ a.alive /\ v.agent.gen = a.gen /\ a.state = "Disconnected"
            \/ v.agent.gen > a.gen
        BY <1>1, <2>1, <2>4, <2>6 DEF Ready, Same, New
      <3>3. /\ Outcome(a, x) /\ Opens(a, x)
            /\ x.agent.gen = w.agent.gen /\ x.agent.remoteSdp = d
            /\ x.agent.candidates = w.agent.candidates
            /\ x.agent.theirs = w.agent.theirs
        <4>1. /\ v.agent.alive /\ v.agent.gen > 0
              /\ v.agent.localSdp \in {NoSdp, v.agent.gen}
              /\ Requests(v.sent)
              /\ \A i \in 1..Len(v.sent) : v.sent[i].val <= v.agent.ours
              /\ ClockGain \subseteq Nat => a.ours <= v.agent.ours
          BY <1>1, <2>1, <2>4 DEF Ready
        <4> QED
          BY <2>1, <2>4, <3>1, <3>2, <4>1, InitializeOpens
      <3>4. TakesDescription(a, x.agent, d)
        BY <1>1, <1>3, <3>3 DEF TakesDescription, Base, New
      <3> QED
        BY <1>1, <3>3, <3>4 DEF Reticent, Answers
    <2>7. CASE b.state # "Disconnected"
      <3>1. x = v
        BY <2>2, <2>4, <2>5, <2>7 DEF TryInitialize
      <3>2. w.sent = <<>> /\ w.agent = a /\ a.alive
        BY <2>1, <2>7 DEF Base, New
      <3>3. Outcome(a, x)
        BY <1>1, <2>1, <2>4, <2>7, <3>1, <3>2 DEF Outcome, Rests, Ready, Local
      <3>4. TakesDescription(a, x.agent, d)
        BY <1>3, <2>1, <2>4, <3>1, <3>2 DEF TakesDescription
      <3> QED
        BY <1>3, <2>1, <2>4, <2>7, <3>1, <3>2, <3>3, <3>4 DEF Reticent
    <2> QED
      BY <2>6, <2>7
  <1>4. CASE w.agent.remoteSdp # NoSdp /\ w.agent.remoteSdp = d
    <2>1. x = w
      BY <1>4 DEF HandleDescription
    <2> QED
      BY <1>1, <1>2, <1>4, <2>1, ReadyOutcome DEF TakesDescription, Reticent
  <1>5. CASE w.agent.remoteSdp # NoSdp /\ w.agent.remoteSdp # d
    <2> DEFINE r == ResetAgent(w)
    <2>1. x = SendConnectionRequest(r)
      BY <1>5 DEF HandleDescription
    <2>2. /\ Ready(a, r) /\ New(a, r.agent) /\ r.sent = <<>>
          /\ r.agent.theirs = a.theirs /\ r.agent.ours = a.ours + 1
      BY <1>1, <1>2, <1>5, ResetReady
    <2> HIDE DEF r
    <2>3. Ready(a, x) /\ x.agent = r.agent
      BY <2>1, <2>2, RequestReady
    <2>4. /\ x.sent = Append(<<>>, Request(r.agent.ours))
          /\ IsRequest(Request(r.agent.ours))
          /\ Request(r.agent.ours).val = a.ours + 1
      BY <2>1, <2>2, RequestFields DEF Ready
    <2>5. Answers(a, x)
      <3>1. /\ 1 \in 1..Len(x.sent) /\ IsRequest(x.sent[1])
            /\ x.sent[1].val > a.ours
        BY <1>1, <2>4
      <3> QED
        BY <3>1 DEF Answers
    <2>6. TakesDescription(a, x.agent, d) /\ Reticent(a, x)
      BY <1>1, <2>2, <2>3 DEF TakesDescription, Reticent, New
    <2> QED
      BY <2>2, <2>3, <2>5, <2>6, ReadyOutcome
  <1> QED
    BY <1>3, <1>4, <1>5

(* ... for candidates and the end of them.                                 *)
LEMMA RestEffect ==
  ASSUME NEW a \in Agents, Local(a), NEW w, Base(a, w), NEW g \in Nat,
         NEW x, x = HandleCandidate(w, g), NEW y, y = HandleDone(w)
  PROVE  /\ Outcome(a, x) /\ TakesCandidate(a, x.agent, g)
         /\ x.agent.theirs \in {a.theirs, 0} /\ Reticent(a, x)
         /\ Outcome(a, y) /\ Keeps(a, y.agent)
         /\ y.agent.theirs \in {a.theirs, 0} /\ Reticent(a, y)
  <1> DEFINE b == [w.agent EXCEPT !.candidates = @ \union {g}]
             c == [w.agent EXCEPT !.remoteDone = TRUE]
  <1>1. /\ Ready(a, w) /\ w \in Works /\ w.agent \in Agents
        /\ w.sent \in Seq(Messages) /\ a.gen \in Nat
        /\ w.agent.theirs \in {a.theirs, 0}
    BY DEF Base, Ready, Works, Agents
  <1>2. /\ b \in Agents /\ b.alive = w.agent.alive
        /\ b.state = w.agent.state /\ b.theirs = w.agent.theirs
        /\ b.gen = w.agent.gen /\ b.remoteSdp = w.agent.remoteSdp
        /\ b.candidates = w.agent.candidates \union {g}
        /\ c \in Agents /\ c.alive = w.agent.alive
        /\ c.state = w.agent.state /\ c.theirs = w.agent.theirs
        /\ c.gen = w.agent.gen /\ c.remoteSdp = w.agent.remoteSdp
        /\ c.candidates = w.agent.candidates
    BY <1>1 DEF Agents
  <1>3. /\ x = [w EXCEPT !.agent = b]
        /\ y = [w EXCEPT !.agent = c]
    BY <1>1 DEF HandleCandidate, HandleDone, Works
  <1> HIDE DEF b, c
  <1>4. /\ x = [agent |-> b, sent |-> w.sent]
        /\ y = [agent |-> c, sent |-> w.sent]
    BY <1>1, <1>3 DEF Works
  <1>5. /\ x \in Works /\ x.agent = b /\ x.sent = w.sent
        /\ y \in Works /\ y.agent = c /\ y.sent = w.sent
    BY <1>1, <1>2, <1>4 DEF Works
  <1>6. Outcome(a, x) /\ Outcome(a, y)
    BY <1>1, <1>2, <1>5 DEF Outcome, Rests, Ready, Same, New, Local
  <1>7. TakesCandidate(a, x.agent, g) /\ Keeps(a, y.agent)
    BY <1>1, <1>2, <1>5 DEF TakesCandidate, Keeps, Base, New
  <1>8. Reticent(a, x) /\ Reticent(a, y)
    BY <1>1, <1>2, <1>5 DEF Reticent, Base, New
  <1> QED
    BY <1>1, <1>2, <1>5, <1>6, <1>7, <1>8

-----------------------------------------------------------------------------
(* An entry point of the listener or of Storm's thread, by what p's agent  *)
(* is after it and what is left of the messages on their way to p.         *)
Effect(p, w, rest) ==
    LET a == agent[p]
        b == w.agent
        m == Head(net[p])
    IN  /\ Outcome(a, w)
        /\ ClockGain \subseteq Nat => Legitimate(w, a.ours)
        /\ \/ /\ rest = net[p] /\ Keeps(a, b) /\ b.theirs \in {a.theirs, 0}
              /\ ~polled[p] => Reticent(a, w)
           \/ /\ net[p] # <<>> /\ rest = Tail(net[p])
              /\ \/ /\ IsRequest(m) /\ Keeps(a, b)
                    /\ b.theirs \in {a.theirs, m.val, 0}
                    /\ b.gen = a.gen /\ a.state # "Disconnected" =>
                         m.val <= a.theirs
                    /\ (a.remoteSdp # NoSdp => a.theirs < m.val) => Reticent(a, w)
                 \/ /\ IsDescription(m) /\ TakesDescription(a, b, m.val)
                    /\ b.theirs \in {a.theirs, 0} /\ Reticent(a, w)
                    /\ \/ Answers(a, w) \/ a.remoteSdp = m.val
                       \/ a.state # "Disconnected" /\ a.remoteSdp = NoSdp
                 \/ /\ IsCandidate(m) /\ TakesCandidate(a, b, m.val)
                    /\ b.theirs \in {a.theirs, 0} /\ Reticent(a, w)
                 \/ /\ m.type = "JuiceDone" /\ Keeps(a, b)
                    /\ b.theirs \in {a.theirs, 0} /\ Reticent(a, w)

Entry(p) ==
    \/ Poll(p) \/ PollReads(p) \/ PollSends(p) \/ SendGamePacket(p) \/ Deliver(p)

(* ensure_agent is where every entry point starts.                         *)
LEMMA EnsureBase ==
  ASSUME TypeOK, OffersSound, NEW p \in Peers, NEW w \in EnsureAgent(p)
  PROVE  Base(agent[p], w)
  BY EnsureReady DEF Base

(* Storm's calls keep or reset the agent, and ask for an attempt only when *)
(* there is none, unless the poll was preempted.                           *)
LEMMA StormEffect ==
  ASSUME TypeOK, OffersSound, NEW p \in Peers, Local(agent[p]),
         Poll(p) \/ PollReads(p) \/ PollSends(p) \/ SendGamePacket(p)
  PROVE  \E w : Effect(p, w, net[p]) /\ Finish(p, w, net[p])
  <1> DEFINE a == agent[p]
             Good(x) == /\ Outcome(a, x) /\ Keeps(a, x.agent)
                        /\ x.agent.theirs \in {a.theirs, 0}
                        /\ ClockGain \subseteq Nat => Legitimate(x, a.ours)
             Fine(x) == Good(x) /\ (~polled[p] => Reticent(a, x))
  <1>1. a \in Agents
    BY DEF TypeOK
  <1>2. ASSUME NEW w \in EnsureAgent(p)
        PROVE  /\ Base(a, w) /\ Good(w) /\ Good(SendConnectionRequest(w))
               /\ Good(ResetAgent(w)) /\ New(a, ResetAgent(w).agent)
               /\ SendConnectionRequest(w).agent = w.agent
    <2>1. Base(a, w) /\ Ready(a, w) /\ w.agent.theirs \in {a.theirs, 0}
      BY EnsureBase DEF Base
    <2>2. /\ Ready(a, SendConnectionRequest(w))
          /\ SendConnectionRequest(w).agent = w.agent
          /\ Ready(a, ResetAgent(w)) /\ New(a, ResetAgent(w).agent)
          /\ ResetAgent(w).agent.theirs = w.agent.theirs
      BY <1>1, <2>1, RequestReady, ResetReady
    <2>3. ASSUME ClockGain \subseteq Nat
          PROVE  /\ Legitimate(w, a.ours)
                 /\ Legitimate(SendConnectionRequest(w), a.ours)
                 /\ Legitimate(ResetAgent(w), a.ours)
      BY <2>3, EnsureLegitimate, RequestLegitimate, ResetLegitimate
    <2> QED
      BY <1>1, <2>1, <2>2, <2>3, ReadyOutcome
  <1>3. \E x : Fine(x) /\ Finish(p, x, net[p])
    <2>1. CASE PollSends(p)
      <3>1. PICK w \in EnsureAgent(p) :
              Finish(p, SendConnectionRequest(w), net[p]) /\ polled[p]
        BY <2>1 DEF PollSends
      <3> HIDE DEF Good
      <3> QED
        BY <1>2, <3>1
    <2>2. CASE Poll(p)
      <3>1. PICK w \in EnsureAgent(p) :
              /\ ~agent[p].alive \/ Idle(w.agent)
              /\ Finish(p, IF Idle(w.agent) THEN SendConnectionRequest(w) ELSE w,
                        net[p])
        BY <2>2 DEF Poll
      <3>2. ASSUME w.agent.gen = a.gen
            PROVE  w.agent = a /\ Idle(a)
        BY <1>1, <1>2, <3>1, <3>2 DEF Base, New, Agents
      <3>3. Reticent(a, w) /\ Reticent(a, SendConnectionRequest(w))
        BY <1>2, <3>2 DEF Reticent, Idle
      <3> HIDE DEF Good
      <3> QED
        BY <1>2, <3>1, <3>3
    <2>3. CASE PollReads(p)
      <3>1. PICK w \in EnsureAgent(p) : Idle(w.agent) /\ Finish(p, w, net[p])
        BY <2>3 DEF PollReads
      <3>2. Reticent(a, w)
        BY <1>1, <1>2, <3>1 DEF Reticent, Base, New, Agents, Idle
      <3> HIDE DEF Good
      <3> QED
        BY <1>2, <3>1, <3>2
    <2>4. CASE SendGamePacket(p)
      <3>1. PICK w \in EnsureAgent(p) :
              /\ ~agent[p].alive \/ Idle(w.agent)
              /\ Finish(p, CASE w.agent.state = "Disconnected" ->
                                  SendConnectionRequest(w)
                             [] w.agent.state = "Failed" -> ResetAgent(w)
                             [] OTHER -> w,
                        net[p])
        BY <2>4 DEF SendGamePacket
      <3>2. ASSUME w.agent.gen = a.gen
            PROVE  w.agent = a /\ Idle(a)
        BY <1>1, <1>2, <3>1, <3>2 DEF Base, New, Agents
      <3>3. Reticent(a, w) /\ Reticent(a, SendConnectionRequest(w))
        BY <1>2, <3>2 DEF Reticent, Idle
      <3>4. Reticent(a, ResetAgent(w))
        BY <1>1, <1>2 DEF Reticent, New, Agents
      <3> HIDE DEF Good
      <3>5. CASE w.agent.state = "Disconnected"
        BY <1>2, <3>1, <3>3, <3>5
      <3>6. CASE w.agent.state = "Failed"
        BY <1>2, <3>1, <3>4, <3>6
      <3>7. CASE w.agent.state \notin {"Disconnected", "Failed"}
        BY <1>2, <3>1, <3>3, <3>7
      <3> QED
        BY <3>5, <3>6, <3>7
    <2> QED
      BY <2>1, <2>2, <2>3, <2>4
  <1> QED
    BY <1>3 DEF Effect

(* The listener's handlers do what their lemmas say to the message they    *)
(* take.                                                                   *)
LEMMA DeliverEffect ==
  ASSUME TypeOK, OffersSound, NEW p \in Peers, Local(agent[p]), Deliver(p)
  PROVE  /\ net[p] # <<>>
         /\ \E w : Effect(p, w, Tail(net[p])) /\ Finish(p, w, Tail(net[p]))
  <1> DEFINE a == agent[p]
             m == Head(net[p])
             v == m.val
  <1>1. a \in Agents /\ Sound(p, a) /\ Named(net[p]) /\ net[p] \in Seq(Messages)
    BY DEF TypeOK, OffersSound
  <1>2. net[p] # <<>> /\ v \in Nat
    BY ChannelTail DEF Deliver, ReceiveConnectionRequest,
       ReceiveLocalDescription, ReceiveCandidate, ReceiveDone, Receives
  <1>3. ASSUME NEW w \in EnsureAgent(p)
        PROVE  /\ Base(a, w)
               /\ ClockGain \subseteq Nat => Legitimate(w, a.ours)
    BY EnsureBase, EnsureLegitimate
  <1> HIDE DEF a
  <1>4. CASE ReceiveConnectionRequest(p)
    <2>1. PICK w \in EnsureAgent(p) :
            Finish(p, HandleRequest(p, w, v), Tail(net[p])) /\ IsRequest(m)
      BY <1>4 DEF ReceiveConnectionRequest, Receives, IsRequest
    <2> DEFINE x == HandleRequest(p, w, v)
    <2>2. ClockGain \subseteq Nat => Legitimate(x, a.ours)
      BY <1>2, <1>3, HandleRequestLegitimate
    <2>3. /\ Outcome(a, x) /\ Keeps(a, x.agent)
          /\ x.agent.theirs \in {a.theirs, v, 0}
          /\ x.agent.gen = a.gen /\ a.state # "Disconnected" => v <= a.theirs
          /\ (a.remoteSdp # NoSdp => a.theirs < v) => Reticent(a, x)
      BY <1>1, <1>2, <1>3, RequestEffect DEF a
    <2> HIDE DEF x, m
    <2>4. Effect(p, x, Tail(net[p]))
      BY <1>2, <2>1, <2>2, <2>3 DEF Effect, a, m
    <2> QED
      BY <1>2, <2>1, <2>4 DEF x
  <1>5. CASE ReceiveLocalDescription(p)
    <2>1. PICK w \in EnsureAgent(p) :
            Finish(p, HandleDescription(w, v), Tail(net[p])) /\ IsDescription(m)
      BY <1>5 DEF ReceiveLocalDescription, Receives, IsDescription
    <2> DEFINE x == HandleDescription(w, v)
    <2>2. ClockGain \subseteq Nat => Legitimate(x, a.ours)
      BY <1>2, <1>3, HandleDescriptionLegitimate
    <2>3. v # NoSdp
      BY <1>1, <1>2, <2>1, NamedTail DEF IsDescription
    <2>4. /\ Outcome(a, x) /\ TakesDescription(a, x.agent, v)
          /\ x.agent.theirs \in {a.theirs, 0} /\ Reticent(a, x)
          /\ \/ Answers(a, x) \/ a.remoteSdp = v
             \/ a.state # "Disconnected" /\ a.remoteSdp = NoSdp
      BY <1>1, <1>2, <1>3, <2>3, DescriptionEffect DEF a
    <2> HIDE DEF x, m
    <2>5. Effect(p, x, Tail(net[p]))
      BY <1>2, <2>1, <2>2, <2>4 DEF Effect, a, m
    <2> QED
      BY <1>2, <2>1, <2>5 DEF x
  <1>6. CASE ReceiveCandidate(p)
    <2>1. PICK w \in EnsureAgent(p) :
            Finish(p, HandleCandidate(w, v), Tail(net[p])) /\ IsCandidate(m)
      BY <1>6 DEF ReceiveCandidate, Receives, IsCandidate
    <2> DEFINE x == HandleCandidate(w, v)
    <2>2. ClockGain \subseteq Nat => Legitimate(x, a.ours)
      BY <1>2, <1>3, HandleRestLegitimate
    <2>3. /\ Outcome(a, x) /\ TakesCandidate(a, x.agent, v)
          /\ x.agent.theirs \in {a.theirs, 0} /\ Reticent(a, x)
      BY <1>1, <1>2, <1>3, RestEffect DEF a
    <2> HIDE DEF x, m
    <2>4. Effect(p, x, Tail(net[p]))
      BY <1>2, <2>1, <2>2, <2>3 DEF Effect, a, m
    <2> QED
      BY <1>2, <2>1, <2>4 DEF x
  <1>7. CASE ReceiveDone(p)
    <2>1. PICK w \in EnsureAgent(p) :
            Finish(p, HandleDone(w), Tail(net[p])) /\ m.type = "JuiceDone"
      BY <1>7 DEF ReceiveDone, Receives
    <2> DEFINE x == HandleDone(w)
    <2>2. ClockGain \subseteq Nat => Legitimate(x, a.ours)
      BY <1>2, <1>3, HandleRestLegitimate
    <2>3. /\ Outcome(a, x) /\ Keeps(a, x.agent)
          /\ x.agent.theirs \in {a.theirs, 0} /\ Reticent(a, x)
      BY <1>1, <1>2, <1>3, RestEffect DEF a
    <2> HIDE DEF x, m
    <2>4. Effect(p, x, Tail(net[p]))
      BY <1>2, <2>1, <2>2, <2>3 DEF Effect, a, m
    <2> QED
      BY <1>2, <2>1, <2>4 DEF x
  <1> QED
    BY <1>4, <1>5, <1>6, <1>7 DEF Deliver

(* Together.                                                               *)
LEMMA EntryEffect ==
  ASSUME TypeOK, OffersSound, NEW p \in Peers, Local(agent[p]), Entry(p)
  PROVE  \E w, rest : Effect(p, w, rest) /\ Finish(p, w, rest)
  BY StormEffect, DeliverEffect DEF Entry

-----------------------------------------------------------------------------
(* The steps of libjuice and the faults, by what they do to p's agent.     *)
Progress(a, b) ==
    /\ b.alive = a.alive /\ b.ours = a.ours /\ b.theirs = a.theirs
    /\ b.gen = a.gen /\ b.remoteSdp = a.remoteSdp
    /\ b.candidates = a.candidates /\ a.state # "Disconnected"
    /\ \/ b.state = a.state
       \/ /\ a.state # "Failed" /\ b.state \notin {"Disconnected", "Gathering"}
          /\ a.remoteSdp # NoSdp

Retired(a, b) ==
    /\ ~b.alive /\ b.state = "Disconnected" /\ b.ours = a.ours /\ b.theirs = 0
    /\ b.gen = a.gen /\ b.remoteSdp = NoSdp /\ b.candidates = {}

Gathered(a, m) == m = Candidate(a.gen) \/ m = Done(a.gen)

OtherEffect(p) ==
    LET q == Other(p)
    IN  /\ agent'[q] = agent[q]
        /\ \/ /\ agent'[p] = agent[p] /\ net[p] # <<>>
              /\ net'[p] = Tail(net[p]) /\ net'[q] = net[q] /\ ~Lossless'
           \/ /\ Lossless' = Lossless
              /\ \/ Retired(agent[p], agent'[p]) /\ net' = net
                 \/ Progress(agent[p], agent'[p]) /\ net' = net
                 \/ /\ Progress(agent[p], agent'[p]) /\ net'[p] = net[p]
                    /\ \E m \in Messages :
                         /\ Gathered(agent[p], m)
                         /\ net'[q] = Append(net[q], m)

(* None of them does anything else.                                        *)
LEMMA OtherStepFields ==
  ASSUME TypeOK, NEW p \in Peers, Local(agent[p]), OtherStep(p)
  PROVE  OtherEffect(p)
  <1> DEFINE q == Other(p)
             a == agent[p]
  <1>1. q \in Peers /\ q # p
    BY PeerTypes
  <1>2. a \in Agents /\ a.gen \in Nat /\ a.ours \in Nat
    <2>1. a \in Agents
      BY DEF TypeOK
    <2> QED
      BY <2>1 DEF Agents
  <1>3. CASE Lose(p)
    <2>1. /\ agent' = agent /\ net[p] # <<>>
          /\ net' = [net EXCEPT ![p] = Tail(net[p])]
          /\ spent' = [spent EXCEPT !["loss"] = spent["loss"] + 1]
      BY <1>3 DEF Lose, Spend
    <2>2. net'[p] = Tail(net[p]) /\ net'[q] = net[q]
      BY <1>1, <2>1 DEF TypeOK
    <2>3. ~Lossless'
      BY <2>1 DEF TypeOK, Faults, Lossless
    <2> QED
      BY <2>1, <2>2, <2>3 DEF OtherEffect
  <1>4. CASE Retire(p)
    <2>1. agent' = [agent EXCEPT ![p] = Blank(a.ours, a.gen)] /\ net' = net
      BY <1>4 DEF Retire
    <2>2. Lossless' = Lossless
      BY <1>4 DEF Retire, Spend, TypeOK, Faults, Lossless
    <2>3. agent'[p] = Blank(a.ours, a.gen) /\ agent'[q] = agent[q]
      BY <1>1, <2>1 DEF TypeOK
    <2>4. Retired(a, agent'[p])
      BY <2>3 DEF Retired, Blank
    <2> QED
      BY <2>1, <2>2, <2>3, <2>4 DEF OtherEffect
  <1>5. ASSUME NEW state \in States \ {"Disconnected", "Gathering"},
               JuiceSets(p, state), a.state \notin {"Disconnected", "Failed"},
               a.remoteSdp # NoSdp
        PROVE  /\ Progress(agent[p], agent'[p]) /\ net' = net
               /\ agent'[q] = agent[q]
    <2>1. agent' = [agent EXCEPT ![p].state = state] /\ net' = net
      BY <1>5 DEF JuiceSets
    <2>2. agent'[p] = [a EXCEPT !.state = state] /\ agent'[q] = agent[q]
      BY <1>1, <2>1 DEF TypeOK
    <2> HIDE DEF a
    <2>3. Progress(a, agent'[p])
      BY <1>2, <1>5, <2>2 DEF Progress, Agents
    <2> QED
      BY <2>1, <2>2, <2>3 DEF a
  <1>6. CASE Connects(p) \/ Succeeds(p) \/ Completes(p) \/ TimesOut(p) \/ Fails(p)
    <2>1. a.state \notin {"Disconnected", "Failed"} /\ a.remoteSdp # NoSdp
      BY <1>6 DEF Connects, Succeeds, Completes, TimesOut, Fails, Started, Local
    <2>2. PICK state \in States \ {"Disconnected", "Gathering"} :
            JuiceSets(p, state)
      BY <1>6 DEF Connects, Succeeds, Completes, TimesOut, Fails, States
    <2>3. Lossless' = Lossless
      BY <1>6 DEF Connects, Succeeds, Completes, TimesOut, Fails, Spend,
                  TypeOK, Faults, Lossless
    <2> QED
      BY <1>5, <2>1, <2>2, <2>3 DEF OtherEffect
  <1>7. CASE GathersCandidates(p) \/ GathersAll(p)
    <2>1. PICK m, g :
            /\ g \in {"candidates", "all"}
            /\ Gathered(a, m) /\ a.state # "Disconnected"
            /\ agent' = [agent EXCEPT ![p].gathered = g]
            /\ net' = [net EXCEPT ![q] = Append(net[q], m)]
      BY <1>7 DEF GathersCandidates, GathersAll, Gathered
    <2>2. m \in Messages
      BY <1>2, <2>1, MessageTypes DEF Gathered
    <2>3. /\ agent'[p] = [a EXCEPT !.gathered = g] /\ agent'[q] = agent[q]
          /\ net'[p] = net[p] /\ net'[q] = Append(net[q], m)
      BY <1>1, <2>1 DEF TypeOK
    <2>4. Lossless' = Lossless
      BY <1>7 DEF GathersCandidates, GathersAll, Lossless
    <2> HIDE DEF a
    <2>5. Progress(a, agent'[p])
      BY <1>2, <2>1, <2>3 DEF Progress, Agents
    <2> QED
      BY <2>1, <2>2, <2>3, <2>4, <2>5 DEF OtherEffect, a
  <1> QED
    BY <1>3, <1>4, <1>6, <1>7 DEF OtherStep, Juice

(* An entry point's effect on the two agents and the two channels.         *)
LEMMA FinishFields ==
  ASSUME TypeOK, NEW p \in Peers, NEW w, NEW rest, Finish(p, w, rest)
  PROVE  /\ agent'[p] = w.agent /\ agent'[Other(p)] = agent[Other(p)]
         /\ net'[p] = rest /\ net'[Other(p)] = net[Other(p)] \o w.sent
  BY PeerTypes DEF TypeOK, Finish

(* None of them loses a message.                                           *)
LEMMA EntryLosesNothing ==
  ASSUME TypeOK, NEW p \in Peers, Entry(p)
  PROVE  Lossless' = Lossless
  BY DEF Entry, Poll, PollReads, PollSends, SendGamePacket, Deliver,
         ReceiveConnectionRequest, ReceiveLocalDescription, ReceiveCandidate,
         ReceiveDone, Spend, TypeOK, Faults, Lossless

(* Every step of the system is one or the other.                           *)
LEMMA Steps ==
  ASSUME Next
  PROVE  \E p \in Peers : Entry(p) \/ OtherStep(p)
  BY DEF Next, Entry, OtherStep

-----------------------------------------------------------------------------
(* The messages on their way from one agent to the other, before and after *)
(* a step: the first is taken, or more are sent.                           *)
Taken(s, t) ==
    /\ Len(s) \in Nat /\ Len(t) = Len(s) - 1
    /\ 1 \in 1..Len(s) /\ Head(s) = s[1]
    /\ \A i \in 1..Len(t) : t[i] = s[i + 1]

Extends(s, t) ==
    /\ Len(s) \in Nat /\ Len(t) \in Nat /\ Len(s) <= Len(t)
    /\ \A i \in 1..Len(s) : t[i] = s[i]

Sent(s, t, i) == i \in 1..Len(t) /\ i > Len(s)

(* Where the messages of a channel are, in numbers a prover can follow.    *)
LEMMA TailTaken ==
  ASSUME NEW s \in Seq(Messages), s # <<>>
  PROVE  Tail(s) \in Seq(Messages) /\ Taken(s, Tail(s))
  <1>1. /\ Tail(s) \in Seq(Messages) /\ Len(Tail(s)) = Len(s) - 1
        /\ Head(s) = s[1] /\ Len(s) \in Nat /\ Len(s) > 0
    BY EmptySeq, LenProperties, HeadTailProperties
  <1>2. \A i \in 1..Len(Tail(s)) : Tail(s)[i] = s[i + 1]
    BY HeadTailProperties
  <1> QED
    BY <1>1, <1>2 DEF Taken

(* Which message of the one channel is which of the other.                 *)
LEMMA TakenPlaces ==
  ASSUME NEW s \in Seq(Messages), NEW t \in Seq(Messages), Taken(s, t)
  PROVE  /\ Len(s) \in Nat /\ Len(t) \in Nat /\ Len(t) = Len(s) - 1
         /\ 1 \in 1..Len(s) /\ s # t
         /\ \A i \in 1..Len(s) : s[i].val \in Nat
         /\ \A i \in 1..Len(t) : t[i].val \in Nat
         /\ \A i \in 1..Len(t) :
              t[i] = s[i + 1] /\ i + 1 \in 1..Len(s) /\ i + 1 # 1
         /\ \A i \in 1..Len(s) :
              i # 1 => i - 1 \in 1..Len(t) /\ t[i - 1] = s[i]
  <1>1. /\ Len(s) \in Nat /\ Len(t) \in Nat /\ Len(t) = Len(s) - 1
        /\ 1 \in 1..Len(s)
        /\ \A i \in 1..Len(t) : t[i] = s[i + 1]
        /\ \A i \in 1..Len(s) : s[i].val \in Nat
        /\ \A i \in 1..Len(t) : t[i].val \in Nat
    BY LenProperties, ElementTypes DEF Taken
  <1>2. ASSUME NEW i \in 1..Len(s), i # 1
        PROVE  i - 1 \in 1..Len(t) /\ t[i - 1] = s[i]
    <2>1. i - 1 \in 1..Len(t) /\ (i - 1) + 1 = i
      BY <1>1, <1>2
    <2> QED
      BY <1>1, <2>1
  <1>3. \A i \in 1..Len(t) : i + 1 \in 1..Len(s) /\ i + 1 # 1
    BY <1>1
  <1>4. s # t
    BY <1>1
  <1> QED
    BY <1>1, <1>2, <1>3, <1>4

(* Where a longer channel agrees with the shorter one, and what is new in  *)
(* it.                                                                     *)
LEMMA ExtendsPlaces ==
  ASSUME NEW s \in Seq(Messages), NEW t \in Seq(Messages), Extends(s, t)
  PROVE  /\ Len(s) \in Nat /\ Len(t) \in Nat /\ Len(s) <= Len(t)
         /\ \A i \in 1..Len(t) : t[i].val \in Nat
         /\ \A i \in 1..Len(t) : i \in 1..Len(s) \/ Sent(s, t, i)
         /\ \A i \in 1..Len(s) : t[i] = s[i] /\ i \in 1..Len(t)
  <1>1. \A i \in 1..Len(t) : t[i].val \in Nat
    BY ElementTypes
  <1>2. /\ Len(s) \in Nat /\ Len(t) \in Nat /\ Len(s) <= Len(t)
        /\ \A i \in 1..Len(s) : t[i] = s[i]
    BY DEF Extends
  <1> QED
    BY <1>1, <1>2 DEF Sent

(* ... and of the messages that are sent.                                  *)
LEMMA ConcatExtends ==
  ASSUME NEW s \in Seq(Messages), NEW r \in Seq(Messages)
  PROVE  /\ s \o r \in Seq(Messages) /\ Extends(s, s \o r)
         /\ Len(s \o r) = Len(s) + Len(r) /\ Len(r) \in Nat
         /\ \A i : Sent(s, s \o r, i) =>
              i - Len(s) \in 1..Len(r) /\ (s \o r)[i] = r[i - Len(s)]
  <1>1. /\ Len(s \o r) = Len(s) + Len(r) /\ Len(s) \in Nat /\ Len(r) \in Nat
        /\ s \o r \in Seq(Messages)
        /\ \A i \in 1..Len(s \o r) :
             (s \o r)[i] = IF i <= Len(s) THEN s[i] ELSE r[i - Len(s)]
    BY ConcatProperties, LenProperties
  <1> QED
    BY <1>1 DEF Extends, Sent

(* A message at its end extends a channel too.                             *)
LEMMA AppendExtends ==
  ASSUME NEW s \in Seq(Messages), NEW m \in Messages
  PROVE  /\ Append(s, m) \in Seq(Messages) /\ Extends(s, Append(s, m))
         /\ Len(Append(s, m)) = Len(s) + 1
         /\ Append(s, m)[Len(Append(s, m))] = m
         /\ \A i : Sent(s, Append(s, m), i) =>
              i = Len(Append(s, m)) /\ Append(s, m)[i] = m
  <1>1. /\ Len(Append(s, m)) = Len(s) + 1 /\ Len(s) \in Nat
        /\ Append(s, m) \in Seq(Messages)
        /\ Append(s, m)[Len(s) + 1] = m
        /\ \A i \in 1..Len(s) : Append(s, m)[i] = s[i]
    BY AppendProperties, LenProperties
  <1> QED
    BY <1>1 DEF Extends, Sent

(* The receiver's side of a step: a becomes b, and the messages on their   *)
(* way to it, s, become t.                                                 *)
Forgets(b) == b.remoteSdp = NoSdp /\ b.candidates = {}

Remembers(a, b) ==
    /\ b.remoteSdp = a.remoteSdp /\ b.candidates = a.candidates
    /\ a.state # "Disconnected" => b.theirs = a.theirs

Takes(s, a, t, b) ==
    LET m == s[1]
    IN  \/ /\ t = s /\ (Forgets(b) \/ Remembers(a, b))
           /\ b.theirs \in {a.theirs, 0}
        \/ /\ Taken(s, t)
           /\ \/ /\ IsRequest(m) /\ (Forgets(b) \/ Remembers(a, b))
                 /\ b.theirs \in {a.theirs, m.val, 0}
              \/ /\ IsDescription(m) /\ b.theirs \in {a.theirs, 0}
                 /\ \/ /\ a.remoteSdp \in {NoSdp, m.val} /\ b.remoteSdp = m.val
                       /\ b.candidates = a.candidates /\ b.theirs = a.theirs
                    \/ b.remoteSdp \in {NoSdp, m.val} /\ b.candidates = {}
              \/ /\ IsCandidate(m) /\ b.theirs \in {a.theirs, 0}
                 /\ \/ /\ b.remoteSdp = a.remoteSdp /\ b.theirs = a.theirs
                       /\ b.candidates = a.candidates \union {m.val}
                    \/ b.remoteSdp = NoSdp /\ b.candidates = {m.val}
              \/ /\ m.type = "JuiceDone" /\ (Forgets(b) \/ Remembers(a, b))
                 /\ b.theirs \in {a.theirs, 0}

Drops(s, a, t, b) == Taken(s, t) /\ b = a

(* The sender's side: a becomes b, and the messages it has on their way,   *)
(* s, become t.                                                            *)
Says(s, a, t, b) ==
    /\ ClockGain \subseteq Nat => a.ours <= b.ours
    /\ Extends(s, t)
    /\ ClockGain \subseteq Nat =>
         \A i : Sent(s, t, i) /\ IsRequest(t[i]) => a.ours <= t[i].val
    /\ \/ /\ b.alive /\ \A i : Sent(s, t, i) => IsRequest(t[i])
          /\ \/ a.alive /\ b.gen = a.gen /\ b.state = a.state
             \/ b.gen > a.gen /\ b.state = "Disconnected"
       \/ /\ b.alive /\ b.state = "Gathering" /\ Sent(s, t, Len(t))
          /\ IsDescription(t[Len(t)]) /\ t[Len(t)].val = b.gen
          /\ \A i : Sent(s, t, i) /\ i # Len(t) =>
               IsRequest(t[i]) /\ t[i].val < b.ours
          /\ \/ a.alive /\ b.gen = a.gen /\ a.state = "Disconnected"
             \/ b.gen > a.gen
          /\ ClockGain \subseteq Nat => a.ours < b.ours
       \/ t = s /\ Retired(a, b)
       \/ /\ Progress(a, b)
          /\ \A i : Sent(s, t, i) => i = Len(t) /\ Gathered(a, t[i])

(* What the peers' steps are made of: every step is one machine's, and is  *)
(* the receiver's side of one channel and the sender's of the other.       *)
LEMMA EntryTakes ==
  ASSUME TypeOK, NEW p \in Peers, NEW w, NEW rest, Effect(p, w, rest),
         Finish(p, w, rest)
  PROVE  /\ Takes(net[p], agent[p], net'[p], agent'[p])
         /\ Local(agent'[p])
  <1> DEFINE s == net[p]
             a == agent[p]
             b == w.agent
  <1>1. net'[p] = rest /\ agent'[p] = b /\ Local(b)
    BY FinishFields DEF Effect, Outcome
  <1>2. s \in Seq(Messages) /\ a \in Agents
    BY DEF TypeOK
  <1>3. Keeps(a, b) => Forgets(b) \/ Remembers(a, b)
    BY DEF Keeps, Forgets, Remembers
  <1> HIDE DEF b
  <1>4. CASE rest = s /\ Keeps(a, b) /\ b.theirs \in {a.theirs, 0}
    BY <1>1, <1>3, <1>4 DEF Takes
  <1>5. CASE s # <<>> /\ rest = Tail(s)
    <2>1. Taken(s, rest) /\ Head(s) = s[1]
      BY <1>2, <1>5, TailTaken DEF Taken
    <2> HIDE DEF s
    <2>2. \/ /\ IsRequest(s[1]) /\ Keeps(a, b)
             /\ b.theirs \in {a.theirs, s[1].val, 0}
          \/ /\ IsDescription(s[1]) /\ TakesDescription(a, b, s[1].val)
             /\ b.theirs \in {a.theirs, 0}
          \/ /\ IsCandidate(s[1]) /\ TakesCandidate(a, b, s[1].val)
             /\ b.theirs \in {a.theirs, 0}
          \/ /\ s[1].type = "JuiceDone" /\ Keeps(a, b)
             /\ b.theirs \in {a.theirs, 0}
          \/ /\ rest = s /\ Keeps(a, b) /\ b.theirs \in {a.theirs, 0}
      BY <2>1 DEF Effect, s, b
    <2> QED
      BY <1>1, <1>3, <1>4, <2>1, <2>2
      DEF Takes, TakesDescription, TakesCandidate, s
  <1> QED
    BY <1>4, <1>5 DEF Effect, b

(* An entry point sends what its agent may say, at the end of the other    *)
(* channel.                                                                *)
LEMMA EntrySays ==
  ASSUME TypeOK, NEW p \in Peers, NEW w, NEW rest, Effect(p, w, rest),
         Finish(p, w, rest)
  PROVE  Says(net[Other(p)], agent[p], net'[Other(p)], agent'[p])
  <1> DEFINE s == net[Other(p)]
             a == agent[p]
             b == w.agent
             r == w.sent
             t == s \o r
  <1>1. /\ net'[Other(p)] = t /\ agent'[p] = b /\ Outcome(a, w)
        /\ ClockGain \subseteq Nat => Legitimate(w, a.ours)
    BY FinishFields DEF Effect
  <1>2. s \in Seq(Messages) /\ r \in Seq(Messages) /\ w \in Works
    BY <1>1, PeerTypes DEF TypeOK, Outcome, Works
  <1>3. /\ t \in Seq(Messages) /\ Extends(s, t) /\ Len(s) \in Nat
        /\ Len(t) = Len(s) + Len(r) /\ Len(r) \in Nat
        /\ \A i : Sent(s, t, i) =>
             i - Len(s) \in 1..Len(r) /\ t[i] = r[i - Len(s)]
    BY <1>2, ConcatExtends DEF Extends
  <1>4. ASSUME ClockGain \subseteq Nat
        PROVE  /\ a.ours <= b.ours
               /\ \A i : Sent(s, t, i) /\ IsRequest(t[i]) => a.ours <= t[i].val
    BY <1>1, <1>3, <1>4 DEF Legitimate, InOrder, IsRequest
  <1>5. CASE Rests(a, w)
    <2>1. \A i : Sent(s, t, i) => IsRequest(t[i])
      BY <1>3, <1>5 DEF Rests, Requests
    <2> HIDE DEF t, s
    <2> QED
      BY <1>1, <1>3, <1>4, <1>5, <2>1 DEF Says, Rests, Outcome, s
  <1>6. CASE Opens(a, w)
    <2>1. PICK u \in Seq(Messages) :
            /\ r = Append(u, Description(b.gen)) /\ Requests(u)
            /\ \A i \in 1..Len(u) : u[i].val < b.ours
      BY <1>6 DEF Opens
    <2> DEFINE d == Description(b.gen)
    <2>2. IsDescription(d) /\ d.val = b.gen
      BY DEF IsDescription, Description
    <2>3. /\ Len(r) = Len(u) + 1 /\ Len(u) \in Nat /\ r[Len(r)] = d
          /\ \A i \in 1..Len(u) : r[i] = u[i]
      <3> HIDE DEF d, r
      <3>1. d \in Messages
        <4>1. b.gen \in Nat
          BY <1>2 DEF Works, Agents
        <4> QED
          BY <4>1, MessageTypes DEF d
      <3> QED
        BY <2>1, <3>1, AppendProperties, LenProperties DEF d
    <2> HIDE DEF d, r, t, s
    <2> DEFINE k == Len(s)
               l == Len(t)
               n == Len(u)
    <2>4. /\ k \in Nat /\ l \in Nat /\ n \in Nat /\ l = k + (n + 1)
          /\ \A i : Sent(s, t, i) <=> i \in 1..l /\ i > k
      BY <1>3, <2>3 DEF Sent
    <2> HIDE DEF k, l, n
    <2>5. Sent(s, t, l) /\ l - k = n + 1
      BY <2>4
    <2>6. Sent(s, t, Len(t)) /\ t[Len(t)] = d
      BY <1>3, <2>3, <2>5 DEF k, l, n
    <2>7. \A i : Sent(s, t, i) /\ i # Len(t) =>
            IsRequest(t[i]) /\ t[i].val < b.ours
      <3> SUFFICES ASSUME NEW i, Sent(s, t, i), i # Len(t)
                   PROVE  IsRequest(t[i]) /\ t[i].val < b.ours
        OBVIOUS
      <3> DEFINE j == i - k
      <3>1. j \in 1..n
        BY <2>4 DEF l
      <3>2. t[i] = r[j] /\ r[j] = u[j]
        BY <1>3, <2>3, <3>1 DEF k, n
      <3> HIDE DEF j
      <3> QED
        BY <2>1, <3>1, <3>2 DEF Requests, n
    <2>8. /\ b.alive /\ b.state = "Gathering"
          /\ \/ a.alive /\ b.gen = a.gen /\ a.state = "Disconnected"
             \/ b.gen > a.gen
          /\ ClockGain \subseteq Nat => a.ours < b.ours
      BY <1>1, <1>6 DEF Opens, Outcome
    <2> HIDE DEF s, a, b
    <2> QED
      BY <1>1, <1>3, <1>4, <2>2, <2>6, <2>7, <2>8 DEF Says, s, a
  <1> QED
    BY <1>1, <1>5, <1>6 DEF Outcome

(* A step of libjuice or a fault, too.                                     *)
LEMMA OtherTakesAndSays ==
  ASSUME TypeOK, NEW p \in Peers, Local(agent[p]), OtherEffect(p)
  PROVE  LET q == Other(p)
         IN  /\ agent'[q] = agent[q] /\ Local(agent'[p])
             /\ \/ /\ Drops(net[p], agent[p], net'[p], agent'[p])
                   /\ agent'[p] = agent[p] /\ net'[q] = net[q] /\ ~Lossless'
                \/ /\ Takes(net[p], agent[p], net'[p], agent'[p])
                   /\ Says(net[q], agent[p], net'[q], agent'[p])
                   /\ Lossless' = Lossless
  <1> DEFINE q == Other(p)
             a == agent[p]
             b == agent'[p]
             s == net[q]
  <1>1. /\ net[p] \in Seq(Messages) /\ s \in Seq(Messages) /\ a \in Agents
        /\ a.ours \in Nat /\ Len(s) \in Nat
    BY PeerTypes, LenProperties DEF TypeOK, Agents
  <1>2. agent'[q] = agent[q]
    BY DEF OtherEffect
  <1>3. CASE /\ agent'[p] = agent[p] /\ net[p] # <<>>
             /\ net'[p] = Tail(net[p]) /\ net'[q] = net[q] /\ ~Lossless'
    BY <1>1, <1>2, <1>3, TailTaken DEF Drops
  <1>4. CASE Lossless' = Lossless /\ Retired(a, b) /\ net' = net
    <2>1. Takes(net[p], a, net'[p], b) /\ Local(b)
      BY <1>4 DEF Takes, Forgets, Retired, Local
    <2>2. Says(s, a, net'[q], b)
      BY <1>1, <1>4 DEF Says, Extends, Sent, Retired
    <2> QED
      BY <1>2, <1>4, <2>1, <2>2
  <1>5. ASSUME Progress(a, b), net'[p] = net[p]
        PROVE  Takes(net[p], a, net'[p], b) /\ Local(b)
    BY <1>5 DEF Takes, Remembers, Progress, Local
  <1>6. CASE Lossless' = Lossless /\ Progress(a, b) /\ net' = net
    <2>1. Says(s, a, net'[q], b)
      BY <1>1, <1>6 DEF Says, Extends, Sent, Progress
    <2> QED
      BY <1>2, <1>5, <1>6, <2>1
  <1>7. CASE /\ Lossless' = Lossless /\ Progress(a, b) /\ net'[p] = net[p]
             /\ \E m \in Messages :
                  Gathered(a, m) /\ net'[q] = Append(net[q], m)
    <2>1. PICK m \in Messages : Gathered(a, m) /\ net'[q] = Append(s, m)
      BY <1>7
    <2> DEFINE t == Append(s, m)
    <2>2. /\ Extends(s, t) /\ ~IsRequest(m)
          /\ \A i : Sent(s, t, i) => i = Len(t) /\ t[i] = m
      BY <1>1, <2>1, AppendExtends DEF Gathered, Candidate, Done, IsRequest
    <2>3. net'[q] = t
      BY <2>1
    <2> HIDE DEF s, t, a, b
    <2>4. Says(s, a, t, b)
      BY <1>1, <1>7, <2>1, <2>2 DEF Says, Progress
    <2> QED
      BY <1>2, <1>5, <1>7, <2>3, <2>4 DEF s, a, b
  <1> QED
    BY <1>3, <1>4, <1>6, <1>7 DEF OtherEffect

Locals == \A p \in Peers : Local(agent[p])

(* Every step of the system: p is the machine that moves.                  *)
LinkStep(p) ==
    LET q == Other(p)
    IN  /\ agent'[q] = agent[q] /\ Local(agent'[p])
        /\ \/ /\ Drops(net[p], agent[p], net'[p], agent'[p])
              /\ agent'[p] = agent[p] /\ net'[q] = net[q] /\ ~Lossless'
           \/ /\ Takes(net[p], agent[p], net'[p], agent'[p])
              /\ Says(net[q], agent[p], net'[q], agent'[p])
              /\ Lossless' = Lossless

(* So an entry point, libjuice, the channel and the faults are all seen by *)
(* the link as such steps.                                                 *)
LEMMA LinkSteps ==
  ASSUME TypeOK, OffersSound, Locals, NEW p \in Peers, Entry(p) \/ OtherStep(p)
  PROVE  LinkStep(p)
  <1>1. Local(agent[p])
    BY DEF Locals
  <1>2. CASE Entry(p)
    <2>1. PICK w, rest : Effect(p, w, rest) /\ Finish(p, w, rest)
      BY <1>1, <1>2, EntryEffect
    <2>2. agent'[Other(p)] = agent[Other(p)]
      BY <2>1, FinishFields
    <2> QED
      BY <1>2, <2>1, <2>2, EntryTakes, EntrySays, EntryLosesNothing DEF LinkStep
  <1>3. CASE OtherStep(p)
    BY <1>1, <1>3, OtherStepFields, OtherTakesAndSays DEF LinkStep
  <1> QED
    BY <1>2, <1>3

(* An agent by itself, at all times.                                       *)
THEOREM LocalsHold == Spec => []Locals
  <1>1. Init => Locals
    BY DEF Init, Locals, Local, Blank, NoSdp
  <1>2. TypeOK /\ OffersSound /\ Locals /\ [Next]_vars => Locals'
    <2> SUFFICES ASSUME TypeOK, OffersSound, Locals, [Next]_vars PROVE Locals'
      OBVIOUS
    <2>1. CASE UNCHANGED vars
      BY <2>1 DEF vars, Locals
    <2>2. CASE Next
      BY <2>2, Steps, LinkSteps, PeerTypes DEF LinkStep, Locals
    <2> QED
      BY <2>1, <2>2
  <1> QED
    BY <1>1, <1>2, TypeCorrect, OffersAreSound, PTL DEF Spec

-----------------------------------------------------------------------------
(* The last libjuice agent of b that may have been described: one that has *)
(* not gathered yet has not sent its description.                          *)
Offered(b) == IF b.alive /\ b.state = "Disconnected" THEN b.gen - 1 ELSE b.gen

(* The descriptions on their way are later than the one the receiver holds,*)
(* no later than the sender's last, and in their order.                    *)
DescriptionsRise(s, first, last) ==
    /\ first <= last
    /\ \A i \in 1..Len(s) :
         IsDescription(s[i]) =>
           /\ first < s[i].val /\ s[i].val <= last
           /\ \A j \in (i + 1)..Len(s) :
                IsDescription(s[j]) => s[i].val < s[j].val

DescriptionsInOrder ==
    \A p \in Peers :
      DescriptionsRise(net[p], agent[p].remoteSdp, Offered(agent[Other(p)]))

(* What a channel without its first message inherits.                      *)
LEMMA RiseTail ==
  ASSUME NEW s \in Seq(Messages), NEW t \in Seq(Messages), Taken(s, t),
         NEW first \in Nat, NEW last \in Int, DescriptionsRise(s, first, last)
  PROVE  /\ DescriptionsRise(t, first, last)
         /\ IsDescription(s[1]) => DescriptionsRise(t, s[1].val, last)
  <1>1. /\ Len(s) \in Nat /\ Len(t) \in Nat /\ Len(t) = Len(s) - 1
        /\ 1 \in 1..Len(s)
        /\ \A i \in 1..Len(s) : s[i].val \in Nat
        /\ \A i \in 1..Len(t) : t[i] = s[i + 1] /\ i + 1 \in 1..Len(s)
    BY LenProperties, ElementTypes DEF Taken
  <1>2. \A i \in 1..Len(t) : \A j \in (i + 1)..Len(t) :
          /\ j \in 1..Len(t) /\ j + 1 \in ((i + 1) + 1)..Len(s)
    BY <1>1
  <1>3. DescriptionsRise(t, first, last)
    BY <1>1, <1>2 DEF DescriptionsRise
  <1>4. ASSUME IsDescription(s[1])
        PROVE  DescriptionsRise(t, s[1].val, last)
    <2>1. \A i \in 1..Len(t) : i + 1 \in (1 + 1)..Len(s)
      BY <1>1
    <2>2. \A i \in 1..Len(t) : IsDescription(t[i]) => s[1].val < t[i].val
      BY <1>1, <1>4, <2>1 DEF DescriptionsRise
    <2> QED
      BY <1>1, <1>3, <1>4, <2>2 DEF DescriptionsRise
  <1> QED
    BY <1>3, <1>4

(* Descriptions that are read or lost leave the others rising.             *)
LEMMA RiseTakes ==
  ASSUME NEW s \in Seq(Messages), NEW t \in Seq(Messages),
         NEW a \in Agents, NEW b \in Agents, NEW last \in Int,
         DescriptionsRise(s, a.remoteSdp, last),
         Takes(s, a, t, b) \/ Drops(s, a, t, b)
  PROVE  DescriptionsRise(t, b.remoteSdp, last)
  <1>1. a.remoteSdp \in Nat /\ b.remoteSdp \in Nat
    BY DEF Agents
  <1>2. ASSUME DescriptionsRise(t, a.remoteSdp, last)
        PROVE  DescriptionsRise(t, NoSdp, last)
    <2>1. Len(t) \in Nat /\ \A i \in 1..Len(t) : t[i].val \in Nat
      BY LenProperties, ElementTypes
    <2> QED
      BY <1>1, <1>2, <2>1 DEF DescriptionsRise, NoSdp
  <1>3. Taken(s, t) => /\ DescriptionsRise(t, a.remoteSdp, last)
                       /\ IsDescription(s[1]) => DescriptionsRise(t, s[1].val, last)
    BY <1>1, RiseTail
  <1> QED
    BY <1>2, <1>3 DEF Takes, Drops, Forgets, Remembers

(* A description that is sent is of a newer libjuice agent than those      *)
(* before it.                                                              *)
LEMMA RiseSays ==
  ASSUME NEW s \in Seq(Messages), NEW t \in Seq(Messages),
         NEW a \in Agents, NEW b \in Agents, NEW first \in Nat,
         DescriptionsRise(s, first, Offered(a)), Says(s, a, t, b)
  PROVE  DescriptionsRise(t, first, Offered(b))
  <1>1. /\ a.gen \in Nat /\ b.gen \in Nat
        /\ Len(s) \in Nat /\ Len(t) \in Nat /\ Len(s) <= Len(t)
        /\ \A i \in 1..Len(t) : t[i].val \in Nat
        /\ \A i \in 1..Len(t) : i \in 1..Len(s) \/ Sent(s, t, i)
        /\ \A i \in 1..Len(s) : t[i] = s[i]
    BY LenProperties, ElementTypes DEF Agents, Says, Extends, Sent
  <1>2. Offered(a) <= Offered(b) /\ Offered(a) \in Int /\ Offered(b) \in Int
    BY <1>1 DEF Offered, Says, Retired, Progress
  <1> DEFINE News == \E i : Sent(s, t, i) /\ IsDescription(t[i])
  <1>3. CASE ~News
    <2>1. \A i \in 1..Len(t) : IsDescription(t[i]) => i \in 1..Len(s)
      BY <1>1, <1>3
    <2> QED
      BY <1>1, <1>2, <2>1 DEF DescriptionsRise
  <1>4. CASE News
    <2>1. /\ b.alive /\ b.state = "Gathering" /\ Sent(s, t, Len(t))
          /\ IsDescription(t[Len(t)]) /\ t[Len(t)].val = b.gen
          /\ \A i : Sent(s, t, i) /\ i # Len(t) => IsRequest(t[i])
          /\ \/ a.alive /\ b.gen = a.gen /\ a.state = "Disconnected"
             \/ b.gen > a.gen
      BY <1>4 DEF Says, Sent, IsDescription, IsRequest, Gathered, Candidate, Done
    <2>2. Offered(b) = b.gen /\ Offered(a) < b.gen
      BY <1>1, <2>1 DEF Offered
    <2>3. /\ \A i \in 1..Len(t) : IsDescription(t[i]) =>
               i \in 1..Len(s) \/ i = Len(t)
          /\ Len(t) \notin 1..Len(s)
      BY <1>1, <2>1 DEF IsDescription, IsRequest, Sent
    <2>4. \A i \in 1..Len(s) : IsDescription(s[i]) =>
            first < s[i].val /\ s[i].val < b.gen
      BY <1>1, <1>2, <2>2 DEF DescriptionsRise
    <2>5. first < b.gen
      BY <1>1, <1>2, <2>2 DEF DescriptionsRise
    <2>6. ASSUME NEW i \in 1..Len(t), IsDescription(t[i]),
                 NEW j \in (i + 1)..Len(t), IsDescription(t[j])
          PROVE  t[i].val < t[j].val
      <3>1. i \in 1..Len(s) /\ j \in 1..Len(t) /\ t[i] = s[i]
        BY <1>1, <2>3, <2>6
      <3>2. CASE j = Len(t)
        BY <2>1, <2>4, <2>6, <3>1, <3>2
      <3>3. CASE j \in 1..Len(s)
        <4>1. j \in (i + 1)..Len(s) /\ t[j] = s[j]
          BY <1>1, <3>1, <3>3
        <4> QED
          BY <2>6, <3>1, <4>1 DEF DescriptionsRise
      <3> QED
        BY <2>3, <2>6, <3>1, <3>2, <3>3
    <2>7. \A i \in 1..Len(t) : IsDescription(t[i]) =>
            first < t[i].val /\ t[i].val <= b.gen
      BY <1>1, <2>1, <2>3, <2>4, <2>5
    <2> QED
      BY <1>1, <2>2, <2>5, <2>6, <2>7 DEF DescriptionsRise
  <1> QED
    BY <1>3, <1>4

(* What the lemmas about a channel need to know of the step.               *)
LEMMA StepTypes ==
  ASSUME TypeOK, TypeOK', NEW p \in Peers
  PROVE  /\ agent[p] \in Agents /\ agent'[p] \in Agents
         /\ net[p] \in Seq(Messages) /\ net'[p] \in Seq(Messages)
         /\ Offered(agent[p]) \in Int /\ agent[p].gen \in Nat
         /\ agent[p].remoteSdp \in Nat
  <1>1. /\ agent[p] \in Agents /\ agent'[p] \in Agents
        /\ net[p] \in Seq(Messages) /\ net'[p] \in Seq(Messages)
    BY DEF TypeOK
  <1>2. agent[p].gen \in Nat /\ agent[p].remoteSdp \in Nat
    BY <1>1 DEF Agents
  <1> QED
    BY <1>1, <1>2 DEF Offered

(* A step of either machine leaves the descriptions in order.              *)
LEMMA DescriptionsStep ==
  ASSUME TypeOK, TypeOK', DescriptionsInOrder, NEW p \in Peers, LinkStep(p)
  PROVE  DescriptionsInOrder'
  <1> DEFINE q == Other(p)
  <1>1. /\ q \in Peers /\ Other(q) = p /\ \A r \in Peers : r = p \/ r = q
        /\ agent'[q] = agent[q]
    BY PeerTypes DEF LinkStep
  <1>2. /\ DescriptionsRise(net[p], agent[p].remoteSdp, Offered(agent[q]))
        /\ DescriptionsRise(net[q], agent[q].remoteSdp, Offered(agent[p]))
    BY <1>1 DEF DescriptionsInOrder
  <1>3. \/ Takes(net[p], agent[p], net'[p], agent'[p])
        \/ Drops(net[p], agent[p], net'[p], agent'[p])
    BY DEF LinkStep
  <1>4. \/ Says(net[q], agent[p], net'[q], agent'[p])
        \/ agent'[p] = agent[p] /\ net'[q] = net[q]
    BY DEF LinkStep
  <1> HIDE DEF q
  <1>5. DescriptionsRise(net'[p], agent'[p].remoteSdp, Offered(agent[q]))
    BY <1>1, <1>2, <1>3, StepTypes, RiseTakes
  <1>6. DescriptionsRise(net'[q], agent[q].remoteSdp, Offered(agent'[p]))
    BY <1>1, <1>2, <1>4, StepTypes, RiseSays
  <1>7. DescriptionsRise(net'[p], agent'[p].remoteSdp, Offered(agent'[q]))
    BY <1>1, <1>5
  <1>8. DescriptionsRise(net'[q], agent'[q].remoteSdp, Offered(agent'[p]))
    BY <1>1, <1>6
  <1> QED
    BY <1>1, <1>7, <1>8 DEF DescriptionsInOrder, q

(* The descriptions on their way are in their order, with any clock and    *)
(* whatever is lost, retired or fails.                                     *)
THEOREM DescriptionsKeepOrder == Spec => []DescriptionsInOrder
  <1>1. Init => DescriptionsInOrder
    <2> SUFFICES ASSUME Init, NEW p \in Peers
                 PROVE  DescriptionsRise(net[p], agent[p].remoteSdp,
                                         Offered(agent[Other(p)]))
      BY DEF DescriptionsInOrder
    <2>1. /\ net[p] = <<>> /\ agent[p] = Blank(ClockStart, 0)
          /\ agent[Other(p)] = Blank(ClockStart, 0)
      BY PeerTypes DEF Init
    <2> QED
      BY <2>1 DEF DescriptionsRise, Blank, NoSdp, Offered
  <1>2. /\ TypeOK /\ TypeOK' /\ OffersSound /\ Locals /\ DescriptionsInOrder
        /\ [Next]_vars
        => DescriptionsInOrder'
    <2> SUFFICES ASSUME TypeOK, TypeOK', OffersSound, Locals,
                        DescriptionsInOrder, [Next]_vars
                 PROVE  DescriptionsInOrder'
      OBVIOUS
    <2>1. CASE UNCHANGED vars
      BY <2>1 DEF vars, DescriptionsInOrder
    <2>2. CASE Next
      BY <2>2, Steps, LinkSteps, DescriptionsStep
    <2> QED
      BY <2>1, <2>2
  <1> QED
    BY <1>1, <1>2, TypeCorrect, OffersAreSound, LocalsHold, PTL DEF Spec

-----------------------------------------------------------------------------
(* While nothing is lost, a sender that has gathered has its description on*)
(* the way, or it was the last one to arrive.                              *)
Delivered(s, a, b) ==
    b.state # "Disconnected" =>
      \/ \E i \in 1..Len(s) : IsDescription(s[i]) /\ s[i].val = b.gen
      \/ /\ a.remoteSdp \in {NoSdp, b.gen}
         /\ \A i \in 1..Len(s) : ~IsDescription(s[i])

DescriptionsDelivered ==
    Lossless =>
      \A p \in Peers : Delivered(net[p], agent[p], agent[Other(p)])

(* A description that is read becomes the last one that has arrived.       *)
LEMMA DeliveredTakes ==
  ASSUME NEW s \in Seq(Messages), NEW t \in Seq(Messages),
         NEW a \in Agents, NEW b \in Agents, NEW x \in Agents,
         DescriptionsRise(s, a.remoteSdp, Offered(x)), Delivered(s, a, x),
         Takes(s, a, t, b)
  PROVE  Delivered(t, b, x)
  <1> SUFFICES ASSUME x.state # "Disconnected"
               PROVE  Delivered(t, b, x)
    BY DEF Delivered
  <1>1. x.gen \in Nat /\ Offered(x) = x.gen
    BY DEF Agents, Offered
  <1>2. CASE t = s
    BY <1>2 DEF Delivered, Takes, Forgets, Remembers, Taken
  <1>3. CASE Taken(s, t)
    <2>1. /\ Len(s) \in Nat /\ Len(t) \in Nat /\ Len(t) = Len(s) - 1
          /\ \A i \in 1..Len(s) : s[i].val \in Nat
          /\ \A i \in 1..Len(t) : t[i] = s[i + 1] /\ i + 1 \in 1..Len(s)
          /\ \A i \in 1..Len(s) : i # 1 => i - 1 \in 1..Len(t) /\ t[i - 1] = s[i]
          /\ 1 \in 1..Len(s)
      BY <1>3, TakenPlaces
    <2>2. CASE IsDescription(s[1]) /\ s[1].val = x.gen
      <3>1. \A i \in 1..Len(t) : ~IsDescription(t[i])
        <4> SUFFICES ASSUME NEW i \in 1..Len(t), IsDescription(t[i])
                     PROVE  FALSE
          OBVIOUS
        <4>1. i + 1 \in (1 + 1)..Len(s) /\ IsDescription(s[i + 1])
          BY <2>1
        <4>2. s[1].val < s[i + 1].val /\ s[i + 1].val <= x.gen
          BY <1>1, <2>1, <2>2, <4>1 DEF DescriptionsRise
        <4> QED
          BY <1>1, <2>1, <2>2, <4>2
      <3>2. b.remoteSdp \in {NoSdp, x.gen}
        <4>1. s # t
          BY <2>1
        <4> QED
          BY <2>2, <4>1
          DEF Takes, IsDescription, IsRequest, IsCandidate
      <3> QED
        BY <3>1, <3>2 DEF Delivered
    <2>3. ASSUME NEW i \in 1..Len(s), IsDescription(s[i]), s[i].val = x.gen,
                 i # 1
          PROVE  Delivered(t, b, x)
      BY <2>1, <2>3 DEF Delivered
    <2>4. CASE /\ a.remoteSdp \in {NoSdp, x.gen}
               /\ \A i \in 1..Len(s) : ~IsDescription(s[i])
      <3>1. b.remoteSdp \in {NoSdp, a.remoteSdp}
        BY <2>1, <2>4 DEF Takes, Forgets, Remembers
      <3> QED
        BY <2>1, <2>4, <3>1 DEF Delivered
    <2> QED
      BY <2>2, <2>3, <2>4 DEF Delivered
  <1> QED
    BY <1>2, <1>3 DEF Takes

(* An agent leaves Disconnected only with its description sent.            *)
LEMMA DeliveredSays ==
  ASSUME NEW s \in Seq(Messages), NEW t \in Seq(Messages),
         NEW a \in Agents, NEW b \in Agents, NEW x \in Agents,
         Delivered(s, x, a), Says(s, a, t, b)
  PROVE  Delivered(t, x, b)
  <1> SUFFICES ASSUME b.state # "Disconnected"
               PROVE  Delivered(t, x, b)
    BY DEF Delivered
  <1>1. /\ Len(s) \in Nat /\ Len(t) \in Nat /\ Len(s) <= Len(t)
        /\ \A i \in 1..Len(t) : i \in 1..Len(s) \/ Sent(s, t, i)
        /\ \A i \in 1..Len(s) : t[i] = s[i] /\ i \in 1..Len(t)
    BY LenProperties DEF Says, Extends, Sent
  <1>2. CASE \E i : Sent(s, t, i) /\ IsDescription(t[i]) /\ t[i].val = b.gen
    BY <1>2 DEF Delivered, Sent
  <1>3. CASE /\ b.gen = a.gen /\ a.state # "Disconnected"
             /\ \A i : Sent(s, t, i) => ~IsDescription(t[i])
    BY <1>1, <1>3 DEF Delivered
  <1> QED
    BY <1>2, <1>3 DEF Says, Retired, Progress, Gathered, Candidate, Done,
                     IsRequest, IsDescription

(* A step of either machine keeps this.                                    *)
LEMMA DeliveredStep ==
  ASSUME TypeOK, TypeOK', DescriptionsInOrder, DescriptionsDelivered,
         NEW p \in Peers, LinkStep(p)
  PROVE  DescriptionsDelivered'
  <1> DEFINE q == Other(p)
  <1> SUFFICES ASSUME Lossless'
               PROVE  \A r \in Peers : Delivered(net[r], agent[r], agent[Other(r)])'
    BY DEF DescriptionsDelivered
  <1>1. /\ q \in Peers /\ Other(q) = p /\ \A r \in Peers : r = p \/ r = q
        /\ agent'[q] = agent[q] /\ Lossless
        /\ Takes(net[p], agent[p], net'[p], agent'[p])
        /\ Says(net[q], agent[p], net'[q], agent'[p])
    BY PeerTypes DEF LinkStep
  <1>2. /\ DescriptionsRise(net[p], agent[p].remoteSdp, Offered(agent[q]))
        /\ Delivered(net[p], agent[p], agent[q])
        /\ Delivered(net[q], agent[q], agent[p])
    BY <1>1 DEF DescriptionsInOrder, DescriptionsDelivered
  <1> HIDE DEF q
  <1>3. Delivered(net'[p], agent'[p], agent[q])
    BY <1>1, <1>2, StepTypes, DeliveredTakes
  <1>4. Delivered(net'[q], agent[q], agent'[p])
    BY <1>1, <1>2, StepTypes, DeliveredSays
  <1>5. Delivered(net'[p], agent'[p], agent'[q])
    BY <1>1, <1>3
  <1>6. Delivered(net'[q], agent'[q], agent'[p])
    BY <1>1, <1>4
  <1> QED
    BY <1>1, <1>5, <1>6 DEF q

(* While nothing is lost, whoever has left Disconnected has its            *)
(* description on the way or arrived.                                      *)
THEOREM DescriptionsArrive == Spec => []DescriptionsDelivered
  <1>1. Init => DescriptionsDelivered
    BY PeerTypes DEF Init, DescriptionsDelivered, Delivered, Blank
  <1>2. /\ TypeOK /\ TypeOK' /\ OffersSound /\ Locals /\ DescriptionsInOrder
        /\ DescriptionsDelivered /\ [Next]_vars
        => DescriptionsDelivered'
    <2> SUFFICES ASSUME TypeOK, TypeOK', OffersSound, Locals,
                        DescriptionsInOrder, DescriptionsDelivered, [Next]_vars
                 PROVE  DescriptionsDelivered'
      OBVIOUS
    <2>1. CASE UNCHANGED vars
      BY <2>1 DEF vars, DescriptionsDelivered, Lossless
    <2>2. CASE Next
      BY <2>2, Steps, LinkSteps, DeliveredStep
    <2> QED
      BY <2>1, <2>2
  <1> QED
    BY <1>1, <1>2, TypeCorrect, OffersAreSound, LocalsHold,
       DescriptionsKeepOrder, PTL DEF Spec

(* When nothing is in flight and both agents are in session, each holds    *)
(* the other's description, with any clock: the attempt counters play no   *)
(* part in it.                                                             *)
THEOREM SessionsAreMatched == Spec => []SessionsMatch
  <1>1. /\ Locals /\ DescriptionsDelivered => SessionsMatch
    <2> SUFFICES ASSUME Locals, DescriptionsDelivered, Quiescent, Lossless,
                        Started(Lo), Started(Hi)
                 PROVE  Matched
      BY DEF SessionsMatch
    <2>1. /\ Lo \in Peers /\ Hi \in Peers /\ Other(Lo) = Hi /\ Other(Hi) = Lo
      BY IdsAssumption DEF Peers, Other
    <2>2. ASSUME NEW p \in Peers, Started(p), Started(Other(p))
          PROVE  agent[p].alive /\ Knows(p)
      <3>1. net[p] = <<>> /\ Delivered(net[p], agent[p], agent[Other(p)])
        BY <2>2 DEF Quiescent, DescriptionsDelivered
      <3>2. Local(agent[p])
        BY DEF Locals
      <3> QED
        BY <2>2, <3>1, <3>2 DEF Delivered, Local, Started, Knows
    <2> QED
      BY <2>1, <2>2 DEF Matched
  <1> QED
    BY <1>1, LocalsHold, DescriptionsArrive, PTL

-----------------------------------------------------------------------------
(* While nothing is lost, no candidate overtakes the description of its    *)
(* agent: what the receiver was told belongs to an agent no later than the *)
(* description it holds and than those on their way, and a candidate on    *)
(* its way comes after the description, or the receiver has had it.        *)
HeldFollow(s, a, b) ==
    \A g \in a.candidates :
      /\ g <= b.gen
      /\ a.remoteSdp # NoSdp => g <= a.remoteSdp
      /\ \A i \in 1..Len(s) : IsDescription(s[i]) => g <= s[i].val

Preceded(s, j) ==
    \E i \in 1..j : IsDescription(s[i]) /\ s[j].val <= s[i].val

Announced(s, a, j) ==
    \/ Preceded(s, j)
    \/ /\ \A i \in 1..j : ~IsDescription(s[i])
       /\ a.remoteSdp = NoSdp \/ s[j].val <= a.remoteSdp

FlightFollows(s, a, b) ==
    \A j \in 1..Len(s) :
      IsCandidate(s[j]) =>
        /\ s[j].val <= b.gen
        /\ \A i \in j..Len(s) : IsDescription(s[i]) => s[j].val <= s[i].val
        /\ Announced(s, a, j)

CandidatesFollow ==
    Lossless =>
      \A p \in Peers :
        /\ HeldFollow(net[p], agent[p], agent[Other(p)])
        /\ FlightFollows(net[p], agent[p], agent[Other(p)])

(* A candidate that is read belongs to the description its receiver holds, *)
(* or to a later one.                                                      *)
LEMMA HeldTakes ==
  ASSUME NEW s \in Seq(Messages), NEW t \in Seq(Messages),
         NEW a \in Agents, NEW b \in Agents, NEW x \in Agents,
         HeldFollow(s, a, x), FlightFollows(s, a, x), Takes(s, a, t, b)
  PROVE  HeldFollow(t, b, x)
  <1>1. CASE t = s
    BY <1>1, TakenPlaces DEF HeldFollow, Takes, Forgets, Remembers
  <1>2. CASE Taken(s, t)
    <2>1. /\ Len(s) \in Nat /\ 1 \in 1..Len(s) /\ s # t
          /\ \A i \in 1..Len(t) : t[i] = s[i + 1] /\ i + 1 \in 1..Len(s)
      BY <1>2, TakenPlaces
    <2>2. \A g \in a.candidates :
            /\ g <= x.gen
            /\ a.remoteSdp # NoSdp => g <= a.remoteSdp
            /\ \A i \in 1..Len(t) : IsDescription(t[i]) => g <= t[i].val
      BY <2>1 DEF HeldFollow
    <2>3. CASE b.remoteSdp = a.remoteSdp /\ b.candidates = a.candidates
      BY <2>2, <2>3 DEF HeldFollow
    <2>4. CASE b.candidates = {}
      BY <2>4 DEF HeldFollow
    <2>5. CASE /\ IsDescription(s[1]) /\ b.remoteSdp = s[1].val
               /\ b.candidates = a.candidates
      BY <2>1, <2>2, <2>5 DEF HeldFollow
    <2>6. CASE /\ IsCandidate(s[1])
               /\ \/ /\ b.remoteSdp = a.remoteSdp
                     /\ b.candidates = a.candidates \union {s[1].val}
                  \/ b.remoteSdp = NoSdp /\ b.candidates = {s[1].val}
      <3>1. /\ s[1].val <= x.gen
            /\ \A i \in 1..Len(s) : IsDescription(s[i]) => s[1].val <= s[i].val
            /\ Announced(s, a, 1)
        BY <2>1, <2>6 DEF FlightFollows
      <3>2. ~Preceded(s, 1)
        BY <2>6 DEF Preceded, IsCandidate, IsDescription
      <3>3. a.remoteSdp # NoSdp => s[1].val <= a.remoteSdp
        BY <3>1, <3>2 DEF Announced
      <3>4. \A i \in 1..Len(t) : IsDescription(t[i]) => s[1].val <= t[i].val
        BY <2>1, <3>1
      <3> QED
        BY <2>2, <2>6, <3>1, <3>3, <3>4 DEF HeldFollow
    <2> QED
      BY <2>1, <2>3, <2>4, <2>5, <2>6 DEF Takes, Forgets, Remembers
  <1> QED
    BY <1>1, <1>2 DEF Takes

(* What is read or forgotten announces the candidates behind it as before. *)
LEMMA FlightTakes ==
  ASSUME NEW s \in Seq(Messages), NEW t \in Seq(Messages),
         NEW a \in Agents, NEW b \in Agents, NEW x \in Agents,
         DescriptionsRise(s, a.remoteSdp, Offered(x)),
         FlightFollows(s, a, x), Takes(s, a, t, b)
  PROVE  FlightFollows(t, b, x)
  <1>1. CASE t = s
    <2>1. b.remoteSdp \in {NoSdp, a.remoteSdp}
      BY <1>1, TakenPlaces DEF Takes, Forgets, Remembers
    <2> QED
      BY <1>1, <2>1 DEF FlightFollows, Announced
  <1>2. CASE Taken(s, t)
    <2>1. /\ Len(s) \in Nat /\ Len(t) \in Nat /\ 1 \in 1..Len(s) /\ s # t
          /\ Len(t) = Len(s) - 1
          /\ \A i \in 1..Len(s) : s[i].val \in Nat
          /\ \A i \in 1..Len(t) : t[i] = s[i + 1] /\ i + 1 \in 1..Len(s)
          /\ \A i \in 1..Len(s) :
               i # 1 => i - 1 \in 1..Len(t) /\ t[i - 1] = s[i]
      BY <1>2, TakenPlaces
    <2> SUFFICES ASSUME NEW j \in 1..Len(t), IsCandidate(t[j])
                 PROVE  /\ t[j].val <= x.gen
                        /\ \A i \in j..Len(t) :
                             IsDescription(t[i]) => t[j].val <= t[i].val
                        /\ Announced(t, b, j)
      BY DEF FlightFollows
    <2> DEFINE k == j + 1
    <2>2. k \in 1..Len(s) /\ t[j] = s[k] /\ k \in Nat /\ 1 \in 1..k
      BY <2>1
    <2>3. /\ s[k].val <= x.gen
          /\ \A i \in k..Len(s) : IsDescription(s[i]) => s[k].val <= s[i].val
          /\ Announced(s, a, k)
      BY <2>2 DEF FlightFollows
    <2>4. \A i \in j..Len(t) : IsDescription(t[i]) => t[j].val <= t[i].val
      <3> SUFFICES ASSUME NEW i \in j..Len(t), IsDescription(t[i])
                   PROVE  t[j].val <= t[i].val
        OBVIOUS
      <3>1. i + 1 \in k..Len(s) /\ i \in 1..Len(t)
        BY <2>1
      <3> QED
        BY <2>1, <2>2, <2>3, <3>1
    <2>5. ASSUME NEW i \in 1..k, IsDescription(s[i]), i # 1,
                 s[k].val <= s[i].val
          PROVE  Preceded(t, j)
      <3>1. i - 1 \in 1..j /\ i \in 1..Len(s)
        BY <2>1, <2>5
      <3> QED
        BY <2>1, <2>2, <2>5, <3>1 DEF Preceded
    <2>6. Announced(t, b, j)
      <3>1. CASE IsDescription(s[1])
        <4>1. b.remoteSdp \in {NoSdp, s[1].val}
          BY <2>1, <3>1 DEF Takes, IsDescription, IsRequest, IsCandidate
        <4>2. Preceded(s, k)
          BY <2>2, <2>3, <3>1 DEF Announced
        <4>3. PICK i \in 1..k : IsDescription(s[i]) /\ s[k].val <= s[i].val
          BY <4>2 DEF Preceded
        <4>4. CASE \E l \in 1..j : IsDescription(t[l])
          <5>1. PICK l \in 1..j : IsDescription(t[l])
            BY <4>4
          <5>2. /\ l + 1 \in 1..k /\ l + 1 # 1 /\ l + 1 \in 1..Len(s)
                /\ t[l] = s[l + 1] /\ l + 1 \in (1 + 1)..Len(s)
            BY <2>1
          <5>3. s[1].val < s[l + 1].val
            BY <2>1, <3>1, <5>1, <5>2 DEF DescriptionsRise
          <5>4. CASE i = 1
            <6>1. s[k].val <= s[l + 1].val
              BY <2>1, <2>2, <4>3, <5>2, <5>3, <5>4
            <6> QED
              BY <2>5, <5>1, <5>2, <6>1 DEF Announced
          <5>5. CASE i # 1
            BY <2>5, <4>3, <5>5 DEF Announced
          <5> QED
            BY <5>4, <5>5
        <4>5. CASE \A l \in 1..j : ~IsDescription(t[l])
          <5>1. CASE i = 1
            BY <2>2, <4>1, <4>3, <4>5, <5>1 DEF Announced
          <5>2. CASE i # 1
            BY <2>5, <4>3, <5>2 DEF Announced
          <5> QED
            BY <5>1, <5>2
        <4> QED
          BY <4>4, <4>5
      <3>2. CASE ~IsDescription(s[1])
        <4>1. b.remoteSdp \in {NoSdp, a.remoteSdp}
          BY <2>1, <3>2 DEF Takes, Forgets, Remembers
        <4>2. CASE Preceded(s, k)
          BY <2>5, <3>2, <4>2 DEF Preceded, Announced
        <4>3. CASE ~Preceded(s, k)
          <5>1. /\ \A i \in 1..k : ~IsDescription(s[i])
                /\ a.remoteSdp = NoSdp \/ s[k].val <= a.remoteSdp
            BY <2>3, <4>3 DEF Announced
          <5>2. \A i \in 1..j : i + 1 \in 1..k /\ i \in 1..Len(t)
            BY <2>1
          <5>3. \A i \in 1..j : ~IsDescription(t[i])
            BY <2>1, <5>1, <5>2
          <5> QED
            BY <2>2, <4>1, <5>1, <5>3 DEF Announced
        <4> QED
          BY <4>2, <4>3
      <3> QED
        BY <3>1, <3>2
    <2> QED
      BY <2>2, <2>3, <2>4, <2>6
  <1> QED
    BY <1>1, <1>2 DEF Takes

(* A candidate is sent only behind the description of its own agent.       *)
LEMMA FollowSays ==
  ASSUME NEW s \in Seq(Messages), NEW t \in Seq(Messages),
         NEW a \in Agents, NEW b \in Agents, NEW x \in Agents,
         HeldFollow(s, x, a), FlightFollows(s, x, a), Delivered(s, x, a),
         Says(s, a, t, b)
  PROVE  HeldFollow(t, x, b) /\ FlightFollows(t, x, b)
  <1>1. /\ Len(s) \in Nat /\ Len(t) \in Nat /\ Len(s) <= Len(t)
        /\ \A i \in 1..Len(t) : t[i].val \in Nat
        /\ \A i \in 1..Len(t) : i \in 1..Len(s) \/ Sent(s, t, i)
        /\ \A i \in 1..Len(s) : t[i] = s[i] /\ i \in 1..Len(t)
        /\ a.gen \in Nat /\ b.gen \in Nat /\ x.candidates \subseteq Nat
    <2>1. a.gen \in Nat /\ b.gen \in Nat /\ x.candidates \subseteq Nat
      BY DEF Agents
    <2> QED
      BY <2>1, ExtendsPlaces DEF Says
  <1>2. a.gen <= b.gen
    BY <1>1 DEF Says, Retired, Progress
  <1>3. \A i : Sent(s, t, i) /\ IsDescription(t[i]) => t[i].val = b.gen
    BY DEF Says, Retired, Progress, Gathered, Candidate, Done, IsDescription,
           IsRequest, Sent
  <1>4. \A i : Sent(s, t, i) /\ IsCandidate(t[i]) =>
          /\ i = Len(t) /\ t[i].val = a.gen /\ b.gen = a.gen
          /\ a.state # "Disconnected"
          /\ \A k \in 1..Len(t) : IsDescription(t[k]) => k \in 1..Len(s)
    <2> SUFFICES ASSUME NEW i, Sent(s, t, i), IsCandidate(t[i])
                 PROVE  /\ i = Len(t) /\ t[i].val = a.gen /\ b.gen = a.gen
                        /\ a.state # "Disconnected"
                        /\ \A k \in 1..Len(t) :
                             IsDescription(t[k]) => k \in 1..Len(s)
      OBVIOUS
    <2>1. ~IsRequest(t[i]) /\ ~IsDescription(t[i]) /\ i \in 1..Len(t)
      BY DEF IsCandidate, IsRequest, IsDescription, Sent
    <2>2. t # s
      BY <1>1 DEF Sent
    <2>3. /\ Progress(a, b)
          /\ \A k : Sent(s, t, k) => k = Len(t) /\ Gathered(a, t[k])
      BY <2>1, <2>2 DEF Says
    <2>4. t[i].val = a.gen
      BY <2>3 DEF Gathered, Candidate, Done
    <2> QED
      BY <1>1, <2>1, <2>3, <2>4 DEF Progress
  <1>5. HeldFollow(t, x, b)
    <2> SUFFICES ASSUME NEW g \in x.candidates
                 PROVE  /\ g <= b.gen
                        /\ x.remoteSdp # NoSdp => g <= x.remoteSdp
                        /\ \A i \in 1..Len(t) : IsDescription(t[i]) => g <= t[i].val
      BY DEF HeldFollow
    <2>1. /\ g \in Nat /\ g <= a.gen
          /\ x.remoteSdp # NoSdp => g <= x.remoteSdp
          /\ \A i \in 1..Len(s) : IsDescription(s[i]) => g <= s[i].val
      BY <1>1 DEF HeldFollow
    <2>2. g <= b.gen
      BY <1>1, <1>2, <2>1
    <2> QED
      BY <1>1, <1>3, <2>1, <2>2
  <1>6. ASSUME NEW j \in 1..Len(s), IsCandidate(t[j])
        PROVE  /\ t[j].val <= b.gen
               /\ \A i \in j..Len(t) : IsDescription(t[i]) => t[j].val <= t[i].val
               /\ Announced(t, x, j)
    <2>1. /\ t[j] = s[j] /\ s[j].val <= a.gen /\ s[j].val \in Nat
          /\ \A i \in j..Len(s) : IsDescription(s[i]) => s[j].val <= s[i].val
          /\ Announced(s, x, j)
      BY <1>1, <1>6 DEF FlightFollows
    <2>2. t[j].val <= b.gen
      BY <1>1, <1>2, <2>1
    <2>3. ASSUME NEW i \in j..Len(t), IsDescription(t[i])
          PROVE  t[j].val <= t[i].val
      <3>1. CASE i \in 1..Len(s)
        <4>1. i \in j..Len(s)
          BY <1>1, <3>1
        <4> QED
          BY <1>1, <2>1, <2>3, <3>1, <4>1
      <3>2. CASE Sent(s, t, i)
        BY <1>3, <2>2, <2>3, <3>2
      <3>3. i \in 1..Len(t)
        BY <1>1
      <3> QED
        BY <1>1, <3>1, <3>2, <3>3
    <2>4. \A i \in 1..j : i \in 1..Len(s)
      BY <1>1
    <2>5. Announced(t, x, j)
      BY <1>1, <2>1, <2>4 DEF Announced, Preceded
    <2> QED
      BY <2>2, <2>3, <2>5
  <1>7. ASSUME NEW j \in 1..Len(t), Sent(s, t, j), IsCandidate(t[j])
        PROVE  /\ t[j].val <= b.gen
               /\ \A i \in j..Len(t) : IsDescription(t[i]) => t[j].val <= t[i].val
               /\ Announced(t, x, j)
    <2>1. /\ j = Len(t) /\ t[j].val = a.gen /\ b.gen = a.gen
          /\ a.state # "Disconnected"
          /\ \A k \in 1..Len(t) : IsDescription(t[k]) => k \in 1..Len(s)
      BY <1>4, <1>7
    <2>2. \A i \in j..Len(t) : i = j
      BY <1>1, <2>1
    <2>3. ~IsDescription(t[j])
      BY <1>7 DEF IsCandidate, IsDescription
    <2>4. \A i \in 1..Len(s) : i \in 1..j
      BY <1>1, <2>1
    <2>5. CASE \E i \in 1..Len(s) : IsDescription(s[i]) /\ s[i].val = a.gen
      BY <1>1, <2>1, <2>4, <2>5 DEF Announced, Preceded
    <2>6. CASE /\ x.remoteSdp \in {NoSdp, a.gen}
               /\ \A i \in 1..Len(s) : ~IsDescription(s[i])
      <3>1. \A i \in 1..j : ~IsDescription(t[i])
        BY <1>1, <2>1, <2>6
      <3> QED
        BY <1>1, <2>1, <2>6, <3>1 DEF Announced
    <2>7. Announced(t, x, j)
      BY <2>1, <2>5, <2>6 DEF Delivered
    <2> QED
      BY <1>1, <2>1, <2>2, <2>3, <2>7
  <1> QED
    BY <1>1, <1>5, <1>6, <1>7 DEF FlightFollows

(* A step of either machine keeps the candidates behind.                   *)
LEMMA FollowStep ==
  ASSUME TypeOK, TypeOK', DescriptionsInOrder, DescriptionsDelivered,
         CandidatesFollow, NEW p \in Peers, LinkStep(p)
  PROVE  CandidatesFollow'
  <1> DEFINE q == Other(p)
             Both(s, a, b) == HeldFollow(s, a, b) /\ FlightFollows(s, a, b)
  <1> SUFFICES ASSUME Lossless'
               PROVE  \A r \in Peers : Both(net[r], agent[r], agent[Other(r)])'
    BY DEF CandidatesFollow
  <1>1. /\ q \in Peers /\ Other(q) = p /\ \A r \in Peers : r = p \/ r = q
        /\ agent'[q] = agent[q] /\ Lossless
        /\ Takes(net[p], agent[p], net'[p], agent'[p])
        /\ Says(net[q], agent[p], net'[q], agent'[p])
    BY PeerTypes DEF LinkStep
  <1>2. /\ DescriptionsRise(net[p], agent[p].remoteSdp, Offered(agent[q]))
        /\ Both(net[p], agent[p], agent[q]) /\ Both(net[q], agent[q], agent[p])
        /\ Delivered(net[q], agent[q], agent[p])
    BY <1>1 DEF DescriptionsInOrder, DescriptionsDelivered, CandidatesFollow
  <1> HIDE DEF q
  <1>3. Both(net'[p], agent'[p], agent[q])
    BY <1>1, <1>2, StepTypes, HeldTakes, FlightTakes
  <1>4. Both(net'[q], agent[q], agent'[p])
    BY <1>1, <1>2, StepTypes, FollowSays
  <1> HIDE DEF Both
  <1>5. Both(net'[p], agent'[p], agent'[q])
    BY <1>1, <1>3
  <1>6. Both(net'[q], agent'[q], agent'[p])
    BY <1>1, <1>4
  <1>7. \A r \in Peers : Both(net'[r], agent'[r], agent'[Other(r)])
    BY <1>1, <1>5, <1>6 DEF q
  <1> QED
    BY <1>7 DEF Both

(* While nothing is lost, each candidate in flight or held comes behind    *)
(* the description it belongs to.                                          *)
THEOREM CandidatesKeepBehind == Spec => []CandidatesFollow
  <1>1. Init => CandidatesFollow
    <2> SUFFICES ASSUME Init, NEW p \in Peers
                 PROVE  /\ HeldFollow(net[p], agent[p], agent[Other(p)])
                        /\ FlightFollows(net[p], agent[p], agent[Other(p)])
      BY DEF CandidatesFollow
    <2>1. net[p] = <<>> /\ agent[p].candidates = {}
      BY DEF Init, Blank
    <2> QED
      BY <2>1 DEF HeldFollow, FlightFollows
  <1>2. /\ TypeOK /\ TypeOK' /\ OffersSound /\ Locals /\ DescriptionsInOrder
        /\ DescriptionsDelivered /\ CandidatesFollow /\ [Next]_vars
        => CandidatesFollow'
    <2> SUFFICES ASSUME TypeOK, TypeOK', OffersSound, Locals,
                        DescriptionsInOrder, DescriptionsDelivered,
                        CandidatesFollow, [Next]_vars
                 PROVE  CandidatesFollow'
      OBVIOUS
    <2>1. CASE UNCHANGED vars
      BY <2>1 DEF vars, CandidatesFollow, Lossless
    <2>2. CASE Next
      BY <2>2, Steps, LinkSteps, FollowStep
    <2> QED
      BY <2>1, <2>2
  <1> QED
    BY <1>1, <1>2, TypeCorrect, OffersAreSound, LocalsHold,
       DescriptionsKeepOrder, DescriptionsArrive, PTL DEF Spec

(* No candidate of a later agent than the description says, with any clock:*)
(* the order in which the server relays is enough.                         *)
THEOREM CandidatesAreFit == Spec => []CandidatesFit
  <1>1. CandidatesFollow => CandidatesFit
    BY DEF CandidatesFollow, HeldFollow, CandidatesFit
  <1> QED
    BY <1>1, CandidatesKeepBehind, PTL

-----------------------------------------------------------------------------
(* The attempt counter of a description is the one of the attempt it       *)
(* belongs to: a receiver that holds it has seen no later attempt, the     *)
(* requests that follow it are later than all that came before, and it is  *)
(* itself of an attempt later than those.                                  *)
Above(s, n) == \A j \in 1..Len(s) : IsRequest(s[j]) => n < s[j].val

Dated(s, a, b, i) ==
    /\ a.theirs < b.ours
    /\ \A j \in i..Len(s) : IsRequest(s[j]) => a.theirs < s[j].val
    /\ \A k \in 1..i :
         IsRequest(s[k]) =>
           /\ s[k].val < b.ours
           /\ \A j \in i..Len(s) : IsRequest(s[j]) => s[k].val < s[j].val

Fresh(s, a, b) ==
    /\ a.remoteSdp # NoSdp => a.theirs < b.ours /\ Above(s, a.theirs)
    /\ \A i \in 1..Len(s) : IsDescription(s[i]) => Dated(s, a, b, i)

DescriptionsFresh ==
    \A p \in Peers : Fresh(net[p], agent[p], agent[Other(p)])

(* The receiver adopts the counter of the attempt before.                  *)
LEMMA DatedTaken ==
  ASSUME NEW s \in Seq(Messages), NEW t \in Seq(Messages), Taken(s, t),
         NEW a \in Agents, NEW b \in Agents, NEW x \in Agents, Fresh(s, a, x),
         \/ b.theirs \in {a.theirs, 0}
         \/ IsRequest(s[1]) /\ b.theirs = s[1].val,
         NEW i \in 1..Len(t), IsDescription(t[i])
  PROVE  Dated(t, b, x, i)
  <1>1. /\ Len(s) \in Nat /\ Len(t) \in Nat /\ Len(t) = Len(s) - 1
        /\ 1 \in 1..Len(s)
        /\ \A j \in 1..Len(s) : s[j].val \in Nat
        /\ \A j \in 1..Len(t) : t[j].val \in Nat
        /\ \A j \in 1..Len(t) :
             t[j] = s[j + 1] /\ j + 1 \in 1..Len(s) /\ j + 1 # 1
    BY TakenPlaces
  <1>2. a.theirs \in Nat /\ b.theirs \in Nat /\ x.ours \in Nat
    BY DEF Agents
  <1> DEFINE n == i + 1
  <1>3. /\ n \in 1..Len(s) /\ IsDescription(s[n]) /\ 1 \in 1..n
        /\ \A j \in i..Len(t) : j \in 1..Len(t) /\ j + 1 \in n..Len(s)
        /\ \A k \in 1..i : k \in 1..Len(t) /\ k + 1 \in 1..n
    BY <1>1
  <1>4. Dated(s, a, x, n)
    BY <1>3 DEF Fresh
  <1> HIDE DEF n
  <1>5. b.theirs < x.ours
    BY <1>2, <1>3, <1>4 DEF Dated
  <1>6. ASSUME NEW j \in i..Len(t), IsRequest(t[j])
        PROVE  b.theirs < t[j].val
    <2>1. /\ t[j] = s[j + 1] /\ j + 1 \in n..Len(s) /\ IsRequest(s[j + 1])
          /\ t[j].val \in Nat
      BY <1>1, <1>3, <1>6
    <2>2. a.theirs < t[j].val
      BY <1>4, <2>1 DEF Dated
    <2>3. IsRequest(s[1]) => s[1].val < t[j].val
      BY <1>3, <1>4, <2>1 DEF Dated
    <2> QED
      BY <1>2, <2>1, <2>2, <2>3
  <1>7. \A k \in 1..i :
          IsRequest(t[k]) =>
            /\ t[k].val < x.ours
            /\ \A j \in i..Len(t) : IsRequest(t[j]) => t[k].val < t[j].val
    BY <1>1, <1>3, <1>4 DEF Dated
  <1> QED
    BY <1>5, <1>6, <1>7 DEF Dated

(* A receiver that moves to a newer attempt has no older description       *)
(* before it.                                                              *)
LEMMA FreshTakes ==
  ASSUME NEW s \in Seq(Messages), NEW t \in Seq(Messages),
         NEW a \in Agents, NEW b \in Agents, NEW x \in Agents,
         Local(a), Fresh(s, a, x), Takes(s, a, t, b) \/ Drops(s, a, t, b)
  PROVE  Fresh(t, b, x)
  <1>1. a.theirs \in Nat /\ b.theirs \in Nat /\ x.ours \in Nat
    BY DEF Agents
  <1>2. CASE Taken(s, t)
    <2>1. /\ Len(s) \in Nat /\ 1 \in 1..Len(s) /\ s # t
          /\ \A j \in 1..Len(s) : s[j].val \in Nat
          /\ \A j \in 1..Len(t) : t[j].val \in Nat
          /\ \A j \in 1..Len(t) : t[j] = s[j + 1] /\ j + 1 \in 1..Len(s)
      BY <1>2, TakenPlaces
    <2>2. \/ b.theirs \in {a.theirs, 0}
          \/ IsRequest(s[1]) /\ b.theirs = s[1].val
      BY <2>1 DEF Takes, Drops
    <2>3. \A i \in 1..Len(t) : IsDescription(t[i]) => Dated(t, b, x, i)
      BY <1>2, <2>2, DatedTaken
    <2>4. ASSUME b.remoteSdp = a.remoteSdp, b.remoteSdp # NoSdp,
                 b.theirs = a.theirs
          PROVE  b.theirs < x.ours /\ Above(t, b.theirs)
      BY <2>1, <2>4 DEF Fresh, Above
    <2>5. ASSUME IsDescription(s[1]), b.theirs \in {a.theirs, 0}
          PROVE  b.theirs < x.ours /\ Above(t, b.theirs)
      <3>1. Dated(s, a, x, 1)
        BY <2>1, <2>5 DEF Fresh
      <3>2. \A j \in 1..Len(t) : j + 1 \in 1..Len(s) /\ t[j] = s[j + 1]
        BY <2>1
      <3>3. /\ a.theirs < x.ours
            /\ \A j \in 1..Len(s) : IsRequest(s[j]) => a.theirs < s[j].val
        BY <3>1 DEF Dated
      <3>4. \A j \in 1..Len(t) : IsRequest(t[j]) => a.theirs < t[j].val
        BY <3>2, <3>3
      <3> QED
        BY <1>1, <2>1, <2>5, <3>3, <3>4 DEF Above
    <2>6. \/ b.remoteSdp = NoSdp
          \/ b.remoteSdp = a.remoteSdp /\ (a.remoteSdp # NoSdp => b.theirs = a.theirs)
          \/ IsDescription(s[1]) /\ b.theirs \in {a.theirs, 0}
      BY <2>1 DEF Takes, Drops, Forgets, Remembers, Local
    <2> QED
      BY <2>3, <2>4, <2>5, <2>6 DEF Fresh
  <1>3. CASE t = s
    <2>1. /\ b.theirs \in {a.theirs, 0}
          /\ \/ b.remoteSdp = NoSdp
             \/ /\ b.remoteSdp = a.remoteSdp
                /\ a.remoteSdp # NoSdp => b.theirs = a.theirs
      BY <1>3, TakenPlaces DEF Takes, Drops, Forgets, Remembers, Local
    <2>2. \A j \in 1..Len(s) : s[j].val \in Nat
      BY ElementTypes
    <2>3. ASSUME NEW i \in 1..Len(s), IsDescription(s[i])
          PROVE  Dated(s, b, x, i)
      <3>1. Dated(s, a, x, i) /\ \A j \in i..Len(s) : j \in 1..Len(s)
        BY <2>3, LenProperties DEF Fresh
      <3> QED
        BY <1>1, <2>1, <2>2, <3>1 DEF Dated
    <2> QED
      BY <1>3, <2>1, <2>3 DEF Fresh
  <1> QED
    BY <1>2, <1>3 DEF Takes, Drops

(* A description is sent when every request of its sender is of an older   *)
(* counter.                                                                *)
LEMMA FreshSays ==
  ASSUME ClockGain \subseteq Nat,
         NEW s \in Seq(Messages), NEW t \in Seq(Messages),
         NEW a \in Agents, NEW b \in Agents, NEW x \in Agents,
         Fresh(s, x, a), x.theirs <= a.ours, InOrder(s, x.theirs, a.ours),
         Says(s, a, t, b)
  PROVE  Fresh(t, x, b)
  <1>1. /\ Len(s) \in Nat /\ Len(t) \in Nat /\ Len(s) <= Len(t)
        /\ \A i \in 1..Len(t) : t[i].val \in Nat
        /\ \A i \in 1..Len(t) : i \in 1..Len(s) \/ Sent(s, t, i)
        /\ \A i \in 1..Len(s) : t[i] = s[i] /\ i \in 1..Len(t)
        /\ \A i : Sent(s, t, i) => i \in 1..Len(t) /\ i > Len(s)
    BY ExtendsPlaces DEF Says, Sent
  <1>2. /\ a.ours \in Nat /\ b.ours \in Nat /\ x.theirs \in Nat
        /\ a.ours <= b.ours
        /\ \A i : Sent(s, t, i) /\ IsRequest(t[i]) => a.ours <= t[i].val
    BY DEF Agents, Says
  <1>3. x.remoteSdp # NoSdp => x.theirs < b.ours /\ Above(t, x.theirs)
    <2> SUFFICES ASSUME x.remoteSdp # NoSdp
                 PROVE  x.theirs < b.ours /\ Above(t, x.theirs)
      OBVIOUS
    <2>1. x.theirs < a.ours /\ Above(s, x.theirs)
      BY DEF Fresh
    <2>2. ASSUME NEW j \in 1..Len(t), IsRequest(t[j])
          PROVE  x.theirs < t[j].val
      <3>1. CASE j \in 1..Len(s)
        BY <1>1, <2>1, <2>2, <3>1 DEF Above
      <3>2. CASE Sent(s, t, j)
        BY <1>1, <1>2, <2>1, <2>2, <3>2
      <3> QED
        BY <1>1, <3>1, <3>2
    <2> QED
      BY <1>2, <2>1, <2>2 DEF Above
  <1>4. ASSUME NEW i \in 1..Len(s), IsDescription(t[i])
        PROVE  Dated(t, x, b, i)
    <2>1. Dated(s, x, a, i)
      BY <1>1, <1>4 DEF Fresh
    <2>2. /\ \A j \in i..Len(t) : j \in 1..Len(t) /\ (j \in i..Len(s) \/ Sent(s, t, j))
          /\ \A k \in 1..i : k \in 1..Len(s) /\ k \in 1..Len(t)
          /\ \A j \in i..Len(s) : j \in 1..Len(s)
      BY <1>1
    <2>3. x.theirs < b.ours
      BY <1>2, <2>1 DEF Dated
    <2>4. \A j \in i..Len(t) : IsRequest(t[j]) => x.theirs < t[j].val
      BY <1>1, <1>2, <2>1, <2>2 DEF Dated
    <2>5. ASSUME NEW k \in 1..i, IsRequest(t[k])
          PROVE  /\ t[k].val < b.ours
                 /\ \A j \in i..Len(t) : IsRequest(t[j]) => t[k].val < t[j].val
      <3>1. /\ t[k] = s[k] /\ t[k].val \in Nat /\ t[k].val < a.ours
            /\ \A j \in i..Len(s) : IsRequest(s[j]) => t[k].val < s[j].val
        BY <1>1, <2>1, <2>2, <2>5 DEF Dated
      <3>2. ASSUME NEW j \in i..Len(t), IsRequest(t[j])
            PROVE  t[k].val < t[j].val
        <4>1. CASE j \in i..Len(s)
          BY <1>1, <2>2, <3>1, <3>2, <4>1
        <4>2. CASE Sent(s, t, j)
          <5>1. a.ours <= t[j].val /\ t[j].val \in Nat
            BY <1>1, <1>2, <3>2, <4>2
          <5> QED
            BY <1>2, <3>1, <5>1
        <4> QED
          BY <2>2, <4>1, <4>2
      <3>3. t[k].val < b.ours
        BY <1>2, <3>1
      <3> QED
        BY <3>2, <3>3
    <2> QED
      BY <2>3, <2>4, <2>5 DEF Dated
  <1>5. ASSUME NEW i, Sent(s, t, i), IsDescription(t[i])
        PROVE  Dated(t, x, b, i)
    <2>1. /\ i = Len(t) /\ a.ours < b.ours
          /\ \A k : Sent(s, t, k) /\ k # Len(t) => t[k].val < b.ours
      <3>1. ~IsRequest(t[i]) /\ t # s
        BY <1>1, <1>5 DEF IsRequest, IsDescription
      <3>2. ~(Progress(a, b) /\ \A k : Sent(s, t, k) => Gathered(a, t[k]))
        BY <1>5 DEF Gathered, Candidate, Done, IsDescription
      <3> QED
        BY <1>5, <3>1, <3>2 DEF Says
    <2>2. /\ \A j \in i..Len(t) : j = i
          /\ \A k \in 1..i : k \in 1..Len(t)
          /\ ~IsRequest(t[i])
      BY <1>1, <1>5, <2>1 DEF IsRequest, IsDescription
    <2>3. \A k \in 1..Len(s) : IsRequest(s[k]) => s[k].val <= a.ours
      BY DEF InOrder, IsRequest
    <2>4. \A k \in 1..i : IsRequest(t[k]) => t[k].val < b.ours
      BY <1>1, <1>2, <2>1, <2>2, <2>3
    <2>5. x.theirs < b.ours
      BY <1>2, <2>1
    <2> QED
      BY <2>2, <2>4, <2>5 DEF Dated
  <1> QED
    BY <1>1, <1>3, <1>4, <1>5 DEF Fresh

(* A step of either machine keeps the descriptions dated.                  *)
LEMMA FreshStep ==
  ASSUME ClockGain \subseteq Nat, TypeOK, TypeOK', Locals, CountersInOrder,
         DescriptionsFresh, NEW p \in Peers, LinkStep(p)
  PROVE  DescriptionsFresh'
  <1> DEFINE q == Other(p)
  <1>1. /\ q \in Peers /\ Other(q) = p /\ \A r \in Peers : r = p \/ r = q
        /\ agent'[q] = agent[q]
    BY PeerTypes DEF LinkStep
  <1>2. /\ Fresh(net[p], agent[p], agent[q]) /\ Local(agent[p])
        /\ Fresh(net[q], agent[q], agent[p])
        /\ agent[q].theirs <= agent[p].ours
        /\ InOrder(net[q], agent[q].theirs, agent[p].ours)
    BY <1>1 DEF DescriptionsFresh, Locals, CountersInOrder
  <1>3. \/ Takes(net[p], agent[p], net'[p], agent'[p])
        \/ Drops(net[p], agent[p], net'[p], agent'[p])
    BY DEF LinkStep
  <1>4. \/ Says(net[q], agent[p], net'[q], agent'[p])
        \/ agent'[p] = agent[p] /\ net'[q] = net[q]
    BY DEF LinkStep
  <1> HIDE DEF q
  <1>5. Fresh(net'[p], agent'[p], agent[q])
    BY <1>1, <1>2, <1>3, StepTypes, FreshTakes
  <1>6. Fresh(net'[q], agent[q], agent'[p])
    BY <1>1, <1>2, <1>4, StepTypes, FreshSays
  <1>7. Fresh(net'[p], agent'[p], agent'[q])
    BY <1>1, <1>5
  <1>8. Fresh(net'[q], agent'[q], agent'[p])
    BY <1>1, <1>6
  <1> QED
    BY <1>1, <1>7, <1>8 DEF DescriptionsFresh, q

(* With clocks that do not lag, every description in flight is newer than  *)
(* the requests before it.                                                 *)
THEOREM DescriptionsAreFresh ==
  ASSUME ClockGain \subseteq Nat
  PROVE  Spec => []DescriptionsFresh
  <1>1. Init => DescriptionsFresh
    <2> SUFFICES ASSUME Init, NEW p \in Peers
                 PROVE  Fresh(net[p], agent[p], agent[Other(p)])
      BY DEF DescriptionsFresh
    <2>1. net[p] = <<>> /\ agent[p].remoteSdp = NoSdp
      BY DEF Init, Blank
    <2> QED
      BY <2>1 DEF Fresh
  <1>2. /\ TypeOK /\ TypeOK' /\ OffersSound /\ Locals /\ CountersInOrder
        /\ DescriptionsFresh /\ [Next]_vars
        => DescriptionsFresh'
    <2> SUFFICES ASSUME TypeOK, TypeOK', OffersSound, Locals, CountersInOrder,
                        DescriptionsFresh, [Next]_vars
                 PROVE  DescriptionsFresh'
      OBVIOUS
    <2>1. CASE UNCHANGED vars
      BY <2>1 DEF vars, DescriptionsFresh
    <2>2. CASE Next
      BY <2>2, Steps, LinkSteps, FreshStep
    <2> QED
      BY <2>1, <2>2
  <1>3. Spec => []CountersInOrder
    BY CountersOrdered
  <1> QED
    BY <1>1, <1>2, <1>3, TypeCorrect, OffersAreSound, LocalsHold, PTL DEF Spec

-----------------------------------------------------------------------------
(* Nobody is between the read and the request of a preempted poll.         *)
NoStalePolls == \A p \in Peers : ~polled[p]

(* If no poll may be preempted there, none is.                             *)
THEOREM PollsAreWhole ==
  ASSUME MaxStalePolls = 0
  PROVE  Spec => []NoStalePolls
  <1>1. Init => NoStalePolls
    BY DEF Init, NoStalePolls
  <1>2. TypeOK /\ NoStalePolls /\ [Next]_vars => NoStalePolls'
    <2> SUFFICES ASSUME TypeOK, NoStalePolls, [Next]_vars PROVE NoStalePolls'
      OBVIOUS
    <2>1. CASE UNCHANGED vars
      BY <2>1 DEF vars, NoStalePolls
    <2>2. CASE Next
      <3>1. PICK p \in Peers : Entry(p) \/ OtherStep(p)
        BY <2>2, Steps
      <3>2. ~PollReads(p)
        <4>1. spent["stalePoll"] \in Nat /\ Budget["stalePoll"] = 0
          BY DEF TypeOK, Faults, Budget
        <4> QED
          BY <4>1 DEF PollReads, Spend
      <3>3. polled' = polled \/ polled' = [polled EXCEPT ![p] = FALSE]
        BY <3>1, <3>2
        DEF Entry, OtherStep, Poll, PollSends, SendGamePacket, Deliver,
            ReceiveConnectionRequest, ReceiveLocalDescription,
            ReceiveCandidate, ReceiveDone, Lose, Retire, Juice,
            GathersCandidates, GathersAll, Connects, Succeeds, Completes,
            TimesOut, Fails, JuiceSets
      <3> QED
        BY <3>3 DEF NoStalePolls, TypeOK
    <2> QED
      BY <2>1, <2>2
  <1> QED
    BY <1>1, <1>2, TypeCorrect, PTL DEF Spec

(* A sender that is there and has not failed has asked for no other        *)
(* attempt since it sent the description of its agent.                     *)
Settled(s, a, b) ==
    b.alive /\ b.state # "Failed" =>
      /\ a.remoteSdp = b.gen => \A j \in 1..Len(s) : ~IsRequest(s[j])
      /\ \A i \in 1..Len(s) :
           IsDescription(s[i]) /\ s[i].val = b.gen =>
             \A j \in i..Len(s) : ~IsRequest(s[j])

SendersSettled ==
    \A p \in Peers : Settled(net[p], agent[p], agent[Other(p)])

(* What is read or lost leaves nothing new behind the description.         *)
LEMMA SettledTakes ==
  ASSUME NEW s \in Seq(Messages), NEW t \in Seq(Messages),
         NEW a \in Agents, NEW b \in Agents, NEW x \in Agents,
         x.alive => x.gen > 0, Settled(s, a, x),
         Takes(s, a, t, b) \/ Drops(s, a, t, b)
  PROVE  Settled(t, b, x)
  <1> SUFFICES ASSUME x.alive, x.state # "Failed"
               PROVE  /\ b.remoteSdp = x.gen =>
                           \A j \in 1..Len(t) : ~IsRequest(t[j])
                      /\ \A i \in 1..Len(t) :
                           IsDescription(t[i]) /\ t[i].val = x.gen =>
                             \A j \in i..Len(t) : ~IsRequest(t[j])
    BY DEF Settled
  <1>1. x.gen # NoSdp
    BY DEF NoSdp
  <1>2. CASE Taken(s, t)
    <2>1. /\ Len(s) \in Nat /\ Len(t) \in Nat /\ Len(t) = Len(s) - 1
          /\ 1 \in 1..Len(s) /\ s # t
          /\ \A j \in 1..Len(t) : t[j] = s[j + 1] /\ j + 1 \in 1..Len(s)
      BY <1>2, TakenPlaces
    <2>2. \/ b.remoteSdp \in {NoSdp, a.remoteSdp}
          \/ IsDescription(s[1]) /\ b.remoteSdp = s[1].val
      BY <2>1 DEF Takes, Drops, Forgets, Remembers
    <2>3. b.remoteSdp = x.gen => \A j \in 1..Len(t) : ~IsRequest(t[j])
      BY <1>1, <2>1, <2>2 DEF Settled
    <2>4. ASSUME NEW i \in 1..Len(t), IsDescription(t[i]), t[i].val = x.gen,
                 NEW j \in i..Len(t)
          PROVE  ~IsRequest(t[j])
      <3>1. /\ j \in 1..Len(t) /\ j + 1 \in (i + 1)..Len(s)
            /\ i + 1 \in 1..Len(s) /\ t[i] = s[i + 1] /\ t[j] = s[j + 1]
        BY <2>1
      <3> QED
        BY <2>4, <3>1 DEF Settled
    <2> QED
      BY <2>3, <2>4
  <1>3. CASE t = s
    <2>1. b.remoteSdp \in {NoSdp, a.remoteSdp}
      BY <1>3, TakenPlaces DEF Takes, Drops, Forgets, Remembers
    <2> QED
      BY <1>1, <1>3, <2>1 DEF Settled
  <1> QED
    BY <1>2, <1>3 DEF Takes, Drops

(* A sender that asks for another attempt has begun a new libjuice agent,  *)
(* or has failed.                                                          *)
LEMMA SettledSays ==
  ASSUME NEW s \in Seq(Messages), NEW t \in Seq(Messages),
         NEW a \in Agents, NEW b \in Agents, NEW x \in Agents,
         DescriptionsRise(s, x.remoteSdp, Offered(a)), Settled(s, x, a),
         Says(s, a, t, b),
         /\ b.gen = a.gen /\ a.state \notin {"Disconnected", "Failed"}
         => \A i : Sent(s, t, i) => ~IsRequest(t[i])
  PROVE  Settled(t, x, b)
  <1> SUFFICES ASSUME b.alive, b.state # "Failed"
               PROVE  /\ x.remoteSdp = b.gen =>
                           \A j \in 1..Len(t) : ~IsRequest(t[j])
                      /\ \A i \in 1..Len(t) :
                           IsDescription(t[i]) /\ t[i].val = b.gen =>
                             \A j \in i..Len(t) : ~IsRequest(t[j])
    BY DEF Settled
  <1>1. /\ Len(s) \in Nat /\ Len(t) \in Nat /\ Len(s) <= Len(t)
        /\ \A i \in 1..Len(t) : t[i].val \in Nat
        /\ \A i \in 1..Len(t) : i \in 1..Len(s) \/ Sent(s, t, i)
        /\ \A i \in 1..Len(s) : t[i] = s[i] /\ i \in 1..Len(t)
        /\ \A i : Sent(s, t, i) => i \in 1..Len(t) /\ i > Len(s)
    BY ExtendsPlaces DEF Says, Sent
  <1>2. a.gen \in Nat /\ b.gen \in Nat /\ x.remoteSdp \in Nat
    BY DEF Agents
  <1>3. /\ Offered(a) \in Int /\ Offered(a) <= a.gen
        /\ a.alive /\ a.state = "Disconnected" => Offered(a) < a.gen
    BY <1>2 DEF Offered
  (* The description of b's agent is still to come, or just sent.          *)
  <1>4. CASE Offered(a) < b.gen
    <2>1. x.remoteSdp # b.gen
      BY <1>2, <1>3, <1>4 DEF DescriptionsRise
    <2>2. \A i \in 1..Len(s) : IsDescription(s[i]) => s[i].val # b.gen
      BY <1>1, <1>2, <1>3, <1>4 DEF DescriptionsRise
    <2>3. ASSUME NEW i \in 1..Len(t), IsDescription(t[i]), t[i].val = b.gen,
                 NEW j \in i..Len(t)
          PROVE  ~IsRequest(t[j])
      <3>1. Sent(s, t, i)
        BY <1>1, <2>2, <2>3
      <3>2. i = Len(t)
        BY <2>3, <3>1
        DEF Says, IsRequest, IsDescription, Gathered, Candidate, Done, Retired
      <3> QED
        BY <1>1, <2>3, <3>2 DEF IsRequest, IsDescription
    <2> QED
      BY <2>1, <2>3
  (* The agent is one that has gathered before.                            *)
  <1>5. CASE ~(Offered(a) < b.gen)
    <2>1. /\ b.gen = a.gen /\ a.alive /\ a.state \notin {"Disconnected", "Failed"}
          /\ \A i : Sent(s, t, i) => ~IsDescription(t[i])
      <3>1. /\ ~(b.gen > a.gen)
            /\ ~(a.alive /\ b.gen = a.gen /\ a.state = "Disconnected")
        BY <1>2, <1>3, <1>5
      <3>2. \/ /\ a.alive /\ b.gen = a.gen /\ b.state = a.state
               /\ \A i : Sent(s, t, i) => IsRequest(t[i])
            \/ Progress(a, b) /\ \A i : Sent(s, t, i) => Gathered(a, t[i])
        BY <3>1 DEF Says, Retired
      <3>3. \A i : Sent(s, t, i) => ~IsDescription(t[i])
        BY <3>2
        DEF Gathered, Candidate, Done, IsRequest, IsDescription
      <3>4. /\ b.gen = a.gen /\ a.alive
            /\ a.state \notin {"Disconnected", "Failed"}
        BY <3>1, <3>2 DEF Progress
      <3> QED
        BY <3>3, <3>4
    <2>2. \A i : Sent(s, t, i) => ~IsRequest(t[i])
      BY <2>1
    <2>3. /\ x.remoteSdp = a.gen => \A j \in 1..Len(s) : ~IsRequest(s[j])
          /\ \A i \in 1..Len(s) :
               IsDescription(s[i]) /\ s[i].val = a.gen =>
                 \A j \in i..Len(s) : ~IsRequest(s[j])
      BY <2>1 DEF Settled
    <2>4. ASSUME NEW i \in 1..Len(t), IsDescription(t[i]), t[i].val = b.gen,
                 NEW j \in i..Len(t)
          PROVE  ~IsRequest(t[j])
      <3>1. i \in 1..Len(s) /\ j \in 1..Len(t) /\ t[i] = s[i]
        BY <1>1, <2>1, <2>4
      <3>2. j \in 1..Len(s) => j \in i..Len(s)
        BY <1>1
      <3> QED
        BY <1>1, <2>1, <2>2, <2>3, <2>4, <3>1, <3>2
    <2>5. x.remoteSdp = b.gen => \A j \in 1..Len(t) : ~IsRequest(t[j])
      BY <1>1, <2>1, <2>2, <2>3
    <2> QED
      BY <2>4, <2>5
  <1> QED
    BY <1>4, <1>5

(* An agent in session asks for no other attempt, whatever it receives: a  *)
(* request that arrives is of a later attempt, and makes it reset.         *)
LEMMA SessionSilent ==
  ASSUME TypeOK, OffersSound, Locals, DescriptionsFresh, NoStalePolls,
         NEW p \in Peers, Entry(p) \/ OtherStep(p),
         agent'[p].gen = agent[p].gen,
         agent[p].state \notin {"Disconnected", "Failed"},
         NEW i, Sent(net[Other(p)], net'[Other(p)], i)
  PROVE  ~IsRequest(net'[Other(p)][i])
  <1> DEFINE a == agent[p]
             q == Other(p)
             s == net[p]
  <1>1. /\ Local(a) /\ a \in Agents /\ a.gen \in Nat /\ s \in Seq(Messages)
        /\ net[q] \in Seq(Messages)
    BY PeerTypes DEF Locals, TypeOK, Agents
  <1>2. CASE OtherStep(p)
    <2>1. OtherEffect(p)
      BY <1>1, <1>2, OtherStepFields
    <2>2. \/ net'[q] = net[q]
          \/ \E m \in Messages : Gathered(a, m) /\ net'[q] = Append(net[q], m)
      BY <2>1, PeerTypes DEF OtherEffect
    <2>3. ASSUME NEW m \in Messages, Gathered(a, m),
                 net'[q] = Append(net[q], m)
          PROVE  net'[q][i] = m
      BY <1>1, <2>3, AppendExtends
    <2>4. net'[q] # net[q]
      BY DEF Sent
    <2> QED
      BY <2>2, <2>3, <2>4 DEF Gathered, Candidate, Done, IsRequest
  <1>3. CASE Entry(p)
    <2>1. PICK w, rest : Effect(p, w, rest) /\ Finish(p, w, rest)
      BY <1>1, <1>3, EntryEffect
    <2>2. agent'[p] = w.agent /\ net'[q] = net[q] \o w.sent
      BY <2>1, FinishFields
    <2>3. Reticent(a, w)
      <3>1. ASSUME s # <<>>, IsRequest(Head(s)), a.remoteSdp # NoSdp
            PROVE  a.theirs < Head(s).val
        <4>1. 1 \in 1..Len(s) /\ Head(s) = s[1]
          BY <1>1, <3>1, TailTaken DEF Taken
        <4>2. Above(s, a.theirs)
          BY <3>1 DEF DescriptionsFresh, Fresh
        <4> QED
          BY <3>1, <4>1, <4>2 DEF Above
      <3>2. ~polled[p]
        BY DEF NoStalePolls
      <3> QED
        BY <2>1, <3>1, <3>2 DEF Effect
    <2>4. w.sent = <<>>
      BY <1>1, <2>2, <2>3 DEF Reticent, Opens
    <2>5. net'[q] = net[q]
      BY <1>1, <2>2, <2>4
    <2> QED
      BY <2>5 DEF Sent
  <1> QED
    BY <1>2, <1>3

(* A step of either machine leaves the senders settled.                    *)
LEMMA SettledStep ==
  ASSUME TypeOK, TypeOK', OffersSound, Locals, DescriptionsInOrder,
         DescriptionsFresh, NoStalePolls, SendersSettled,
         NEW p \in Peers, Entry(p) \/ OtherStep(p)
  PROVE  SendersSettled'
  <1> DEFINE q == Other(p)
  <1>1. LinkStep(p)
    BY LinkSteps
  <1>2. /\ q \in Peers /\ Other(q) = p /\ \A r \in Peers : r = p \/ r = q
        /\ agent'[q] = agent[q]
    BY <1>1, PeerTypes DEF LinkStep
  <1>3. /\ Settled(net[p], agent[p], agent[q])
        /\ Settled(net[q], agent[q], agent[p])
        /\ DescriptionsRise(net[q], agent[q].remoteSdp, Offered(agent[p]))
        /\ agent[q].alive => agent[q].gen > 0
    BY <1>2 DEF SendersSettled, DescriptionsInOrder, OffersSound, Sound
  <1>4. \/ Takes(net[p], agent[p], net'[p], agent'[p])
        \/ Drops(net[p], agent[p], net'[p], agent'[p])
    BY <1>1 DEF LinkStep
  <1>5. \/ Says(net[q], agent[p], net'[q], agent'[p])
        \/ agent'[p] = agent[p] /\ net'[q] = net[q]
    BY <1>1 DEF LinkStep
  <1>6. /\ agent'[p].gen = agent[p].gen
        /\ agent[p].state \notin {"Disconnected", "Failed"}
        => \A i : Sent(net[q], net'[q], i) => ~IsRequest(net'[q][i])
    BY SessionSilent
  <1> HIDE DEF q
  <1>7. Settled(net'[p], agent'[p], agent[q])
    BY <1>2, <1>3, <1>4, StepTypes, SettledTakes
  <1>8. Settled(net'[q], agent[q], agent'[p])
    BY <1>2, <1>3, <1>5, <1>6, StepTypes, SettledSays
  <1>9. Settled(net'[p], agent'[p], agent'[q])
    BY <1>2, <1>7
  <1>10. Settled(net'[q], agent'[q], agent'[p])
    BY <1>2, <1>8
  <1> QED
    BY <1>2, <1>9, <1>10 DEF SendersSettled, q

(* With whole polls and clocks that do not lag, no sender asks for another *)
(* attempt behind its current description.                                 *)
THEOREM SendersAreSettled ==
  ASSUME ClockGain \subseteq Nat, MaxStalePolls = 0
  PROVE  Spec => []SendersSettled
  <1>1. Init => SendersSettled
    <2> SUFFICES ASSUME Init, NEW p \in Peers
                 PROVE  Settled(net[p], agent[p], agent[Other(p)])
      BY DEF SendersSettled
    <2>1. net[p] = <<>>
      BY DEF Init
    <2> QED
      BY <2>1 DEF Settled
  <1>2. /\ TypeOK /\ TypeOK' /\ OffersSound /\ Locals /\ DescriptionsInOrder
        /\ DescriptionsFresh /\ NoStalePolls /\ SendersSettled /\ [Next]_vars
        => SendersSettled'
    <2> SUFFICES ASSUME TypeOK, TypeOK', OffersSound, Locals,
                        DescriptionsInOrder, DescriptionsFresh, NoStalePolls,
                        SendersSettled, [Next]_vars
                 PROVE  SendersSettled'
      OBVIOUS
    <2>1. CASE UNCHANGED vars
      BY <2>1 DEF vars, SendersSettled
    <2>2. CASE Next
      BY <2>2, Steps, SettledStep
    <2> QED
      BY <2>1, <2>2
  <1>3. Spec => []DescriptionsFresh
    BY DescriptionsAreFresh
  <1>4. Spec => []NoStalePolls
    BY PollsAreWhole
  <1> QED
    BY <1>1, <1>2, <1>3, <1>4, TypeCorrect, OffersAreSound, LocalsHold,
       DescriptionsKeepOrder, PTL DEF Spec

(* A request that makes p reset a session comes from a peer that has given *)
(* up the agent p's session is with: with a clock that does not go back,   *)
(* and polls that are not preempted.                                       *)
THEOREM RaisedCounterMeansNewAttempt ==
  ASSUME ClockGain \subseteq Nat, MaxStalePolls = 0
  PROVE  Spec => []RaisedCounterIsNewAttempt
  <1>1. TypeOK /\ SendersSettled => RaisedCounterIsNewAttempt
    <2> SUFFICES ASSUME TypeOK, SendersSettled, NEW p \in Peers,
                        Receives(p, "ConnectionRequest"),
                        Knows(p), agent[Other(p)].alive,
                        agent[Other(p)].state # "Failed"
                 PROVE  FALSE
      BY DEF RaisedCounterIsNewAttempt
    <2>1. /\ net[p] \in Seq(Messages) /\ net[p] # <<>>
          /\ Head(net[p]).type = "ConnectionRequest"
      BY DEF TypeOK, Receives
    <2>2. 1 \in 1..Len(net[p]) /\ IsRequest(net[p][1])
      BY <2>1, TailTaken DEF Taken, IsRequest
    <2> QED
      BY <2>2 DEF SendersSettled, Settled, Knows
  <1>2. Spec => []SendersSettled
    BY SendersAreSettled
  <1> QED
    BY <1>1, <1>2, TypeCorrect, PTL

(* When the peers are linked, nothing is on its way but candidates.        *)
LEMMA LinkedChannels ==
  ASSUME TypeOK, DescriptionsInOrder, SendersSettled, Linked, NEW p \in Peers,
         NEW i \in 1..Len(net[p])
  PROVE  ~IsRequest(net[p][i]) /\ ~IsDescription(net[p][i])
  <1> DEFINE q == Other(p)
  <1>1. /\ q \in Peers /\ Knows(p) /\ agent[q].alive
        /\ agent[q].state \in {"Connected", "Completed"}
    <2>1. \A r \in Peers : Knows(r) /\ agent[r].alive
      BY DEF Linked, Matched, Peers
    <2> QED
      BY <2>1, PeerTypes DEF Linked
  <1>2. ~IsRequest(net[p][i])
    BY <1>1 DEF SendersSettled, Settled, Knows
  <1>3. ASSUME IsDescription(net[p][i])
        PROVE  FALSE
    <2>1. /\ agent[p].remoteSdp < net[p][i].val
          /\ net[p][i].val <= Offered(agent[q])
      BY <1>3 DEF DescriptionsInOrder, DescriptionsRise
    <2>2. /\ agent[p].remoteSdp = agent[q].gen /\ agent[q].gen \in Nat
          /\ net[p][i].val \in Nat
      <3>1. net[p] \in Seq(Messages) /\ agent[q] \in Agents
        BY <1>1 DEF TypeOK
      <3> QED
        BY <1>1, <3>1, ElementTypes DEF Knows, Agents
    <2> QED
      BY <1>1, <2>1, <2>2 DEF Offered
  <1> QED
    BY <1>2, <1>3

(* An agent that may be of a link, with another in the place of a.         *)
StaysLinked(a, b) ==
    /\ b.alive = a.alive /\ b.gen = a.gen /\ b.remoteSdp = a.remoteSdp
    /\ b.state \in {"Connected", "Completed"}

(* A link is kept by a step that leaves the agents linked.                 *)
LEMMA LinkedKeep ==
  ASSUME TypeOK, Linked, NEW p \in Peers, StaysLinked(agent[p], agent'[p]),
         agent'[Other(p)] = agent[Other(p)]
  PROVE  Linked'
  <1>1. \A r \in Peers : StaysLinked(agent[r], agent'[r])
    BY PeerTypes DEF StaysLinked, Linked
  <1>2. /\ Lo \in Peers /\ Hi \in Peers
        /\ \A r \in Peers : Other(r) \in Peers
    BY PeerTypes DEF Peers
  <1> QED
    BY <1>1, <1>2 DEF StaysLinked, Linked, Matched, Knows

(* No message still in flight, no poll and no packet of the game ends a    *)
(* session that works, for peers whose clocks do not go back and whose     *)
(* polls are not preempted.                                                *)
THEOREM LinkIsKept ==
  ASSUME ClockGain \subseteq Nat, MaxStalePolls = 0
  PROVE  Spec => LinkKept
  <1>1. /\ TypeOK /\ DescriptionsInOrder /\ SendersSettled /\ NoStalePolls
        /\ [Next]_vars
        => [Linked /\ spent' = spent => Linked']_vars
    <2> SUFFICES ASSUME TypeOK, DescriptionsInOrder, SendersSettled,
                        NoStalePolls, Next, Linked, spent' = spent
                 PROVE  Linked'
      OBVIOUS
    <2>1. PICK p \in Peers : Entry(p) \/ OtherStep(p)
      BY Steps
    <2> DEFINE q == Other(p)
               a == agent[p]
    <2>2. /\ q \in Peers /\ q # p /\ a \in Agents /\ a.alive
          /\ a.state \in {"Connected", "Completed"} /\ Matched
          /\ agent[q].state \in {"Connected", "Completed"}
      <3>1. Matched /\ \A r \in Peers : agent[r].alive
        BY DEF Linked, Matched, Peers
      <3> QED
        BY <3>1, PeerTypes DEF Linked, TypeOK
    <2>3. \A w \in EnsureAgent(p) : w = Work(a) /\ w.agent = a
      BY <2>2 DEF EnsureAgent, Work
    <2>4. \A f \in Faults : ~Spend(f)
      BY DEF Spend, TypeOK
    <2>5. CASE Poll(p) \/ PollReads(p) \/ PollSends(p) \/ SendGamePacket(p)
      <3>1. ~PollSends(p)
        BY DEF PollSends, NoStalePolls
      <3>2. ~Idle(a)
        BY <2>2 DEF Idle
      <3> QED
        BY <2>2, <2>3, <2>5, <3>1, <3>2 DEF Poll, PollReads, SendGamePacket
    <2>6. CASE Deliver(p)
      <3>1. net[p] \in Seq(Messages) /\ net[p] # <<>>
        BY <2>6 DEF TypeOK, Deliver, ReceiveConnectionRequest,
           ReceiveLocalDescription, ReceiveCandidate, ReceiveDone, Receives
      <3>2. 1 \in 1..Len(net[p]) /\ Head(net[p]) = net[p][1]
        BY <3>1, TailTaken DEF Taken
      <3>3. ~ReceiveConnectionRequest(p) /\ ~ReceiveLocalDescription(p)
        BY <3>2, LinkedChannels
        DEF ReceiveConnectionRequest, ReceiveLocalDescription, Receives,
            IsRequest, IsDescription
      <3>4. PICK w, rest :
              /\ Finish(p, w, rest)
              /\ \/ \E g : w = HandleCandidate(Work(a), g)
                 \/ w = HandleDone(Work(a))
        BY <2>3, <2>6, <3>3 DEF Deliver, ReceiveCandidate, ReceiveDone
      <3>5. StaysLinked(a, w.agent)
        <4> HIDE DEF a
        <4>1. \/ \E g : w.agent = [a EXCEPT !.candidates = a.candidates \union {g}]
              \/ w.agent = [a EXCEPT !.remoteDone = TRUE]
          BY <3>4 DEF HandleCandidate, HandleDone, Work
        <4> QED
          BY <2>2, <4>1 DEF StaysLinked, Agents
      <3>6. agent'[p] = w.agent /\ agent'[q] = agent[q]
        BY <3>4, FinishFields
      <3> QED
        BY <3>5, <3>6, LinkedKeep
    <2>7. CASE OtherStep(p)
      <3>1. ~Lose(p) /\ ~Retire(p) /\ ~Fails(p)
        BY <2>4 DEF Lose, Retire, Fails, Faults
      <3>2. ~Connects(p) /\ ~Succeeds(p) /\ ~TimesOut(p)
        BY <2>2 DEF Connects, Succeeds, TimesOut
      <3>3. CASE Completes(p)
        <4>1. agent' = [agent EXCEPT ![p].state = "Completed"]
          BY <3>3 DEF Completes, JuiceSets
        <4>2. /\ agent'[p] = [a EXCEPT !.state = "Completed"]
              /\ agent'[q] = agent[q]
          BY <2>2, <4>1 DEF TypeOK
        <4>3. StaysLinked(a, agent'[p])
          BY <2>2, <4>2 DEF StaysLinked, Agents
        <4> QED
          BY <4>2, <4>3, LinkedKeep
      <3>4. CASE GathersCandidates(p) \/ GathersAll(p)
        <4>1. PICK g : agent' = [agent EXCEPT ![p].gathered = g]
          BY <3>4 DEF GathersCandidates, GathersAll
        <4>2. /\ agent'[p] = [a EXCEPT !.gathered = g]
              /\ agent'[q] = agent[q]
          BY <2>2, <4>1 DEF TypeOK
        <4>3. StaysLinked(a, agent'[p])
          BY <2>2, <4>2 DEF StaysLinked, Agents
        <4> QED
          BY <4>2, <4>3, LinkedKeep
      <3> QED
        BY <2>7, <3>1, <3>2, <3>3, <3>4 DEF OtherStep, Juice
    <2> QED
      BY <2>1, <2>5, <2>6, <2>7 DEF Entry
  <1>2. Spec => []SendersSettled
    BY SendersAreSettled
  <1>3. Spec => []NoStalePolls
    BY PollsAreWhole
  <1> QED
    BY <1>1, <1>2, <1>3, TypeCorrect, DescriptionsKeepOrder, PTL
    DEF Spec, LinkKept

-----------------------------------------------------------------------------
(* The controlling peer gathers, and waits for a description.  While       *)
(* nothing is lost its own is on its way, or an answer to it is: a         *)
(* description, or a request of a later attempt.                           *)
Described(s, g) == \E i \in 1..Len(s) : IsDescription(s[i]) /\ s[i].val = g

Answered(s, n) ==
    \E i \in 1..Len(s) :
      IsDescription(s[i]) \/ (IsRequest(s[i]) /\ s[i].val > n)

Awaits(a) == a.state = "Gathering" /\ a.remoteSdp = NoSdp

HelpComes ==
    Lossless /\ Awaits(agent[Lo]) =>
      \/ Described(net[Hi], agent[Lo].gen)
      \/ Answered(net[Lo], agent[Lo].theirs)

(* What the messages that follow leave as it is.                           *)
LEMMA HelpExtends ==
  ASSUME NEW s \in Seq(Messages), NEW t \in Seq(Messages), Extends(s, t),
         NEW n
  PROVE  /\ Described(s, n) => Described(t, n)
         /\ Answered(s, n) => Answered(t, n)
  BY ExtendsPlaces DEF Described, Answered

(* ... and the one that is taken, unless it is the one that matters.       *)
LEMMA HelpTaken ==
  ASSUME NEW s \in Seq(Messages), NEW t \in Seq(Messages), Taken(s, t),
         NEW n
  PROVE  /\ Described(s, n) /\ ~(IsDescription(s[1]) /\ s[1].val = n)
            => Described(t, n)
         /\ /\ Answered(s, n) /\ ~IsDescription(s[1])
            /\ ~(IsRequest(s[1]) /\ s[1].val > n)
            => Answered(t, n)
  <1>1. \A i \in 1..Len(s) : i # 1 => i - 1 \in 1..Len(t) /\ t[i - 1] = s[i]
    BY TakenPlaces
  <1> QED
    BY <1>1 DEF Described, Answered

(* ... and what is sent gets on its way.                                   *)
LEMMA ConcatHas ==
  ASSUME NEW s \in Seq(Messages), NEW r \in Seq(Messages), NEW i \in 1..Len(r)
  PROVE  \E k \in 1..Len(s \o r) : (s \o r)[k] = r[i]
  <1> DEFINE k == Len(s) + i
  <1>1. /\ Len(s \o r) = Len(s) + Len(r) /\ Len(s) \in Nat /\ Len(r) \in Nat
        /\ \A j \in 1..Len(s \o r) :
             (s \o r)[j] = IF j <= Len(s) THEN s[j] ELSE r[j - Len(s)]
    BY ConcatProperties, LenProperties
  <1>2. k \in 1..Len(s \o r) /\ ~(k <= Len(s)) /\ k - Len(s) = i
    BY <1>1
  <1>3. (s \o r)[k] = r[i]
    BY <1>1, <1>2
  <1> QED
    BY <1>2, <1>3

Ends == Lo \in Peers /\ Hi \in Peers /\ Other(Lo) = Hi /\ Other(Hi) = Lo

(* There are two peers, and each is the other one's peer.                  *)
LEMMA PeersEnds == Ends
  BY IdsAssumption DEF Ends, Peers, Other

(* The entry points of the controlling peer.                               *)
LEMMA HelpLo ==
  ASSUME TypeOK, TypeOK', OffersSound, Locals, HelpComes, Entry(Lo)
  PROVE  HelpComes'
  <1> DEFINE a == agent[Lo]
             b == agent'[Lo]
             s == net[Lo]
             t == net'[Lo]
  <1> SUFFICES ASSUME Lossless', Awaits(b)
               PROVE  Described(net'[Hi], b.gen) \/ Answered(t, b.theirs)
    BY DEF HelpComes
  <1>1. /\ Lo \in Peers /\ Hi \in Peers /\ Other(Lo) = Hi /\ Local(a)
        /\ a \in Agents /\ a.gen \in Nat /\ s \in Seq(Messages)
        /\ t \in Seq(Messages) /\ net[Hi] \in Seq(Messages)
        /\ net'[Hi] \in Seq(Messages) /\ Named(s) /\ Lossless
    BY PeersEnds, EntryLosesNothing
    DEF Ends, TypeOK, Agents, Locals, OffersSound
  <1>2. PICK w, rest : Effect(Lo, w, rest) /\ Finish(Lo, w, rest)
    BY <1>1, EntryEffect
  <1>3. b = w.agent /\ t = rest /\ Says(net[Hi], a, net'[Hi], b)
    BY <1>1, <1>2, FinishFields, EntrySays
  <1>4. Described(net'[Hi], b.gen) \/ (b.gen = a.gen /\ a.state = "Gathering")
    BY <1>3 DEF Says, Described, Sent, Retired, Progress, Awaits
  <1>5. ASSUME b.gen = a.gen, a.state = "Gathering"
        PROVE  Described(net'[Hi], b.gen) \/ Answered(t, b.theirs)
    <2>1. Described(net[Hi], a.gen) => Described(net'[Hi], b.gen)
      BY <1>1, <1>3, <1>5, HelpExtends DEF Says
    <2>2. ASSUME a.remoteSdp = NoSdp
          PROVE  Described(net[Hi], a.gen) \/ Answered(s, a.theirs)
      BY <1>1, <1>5, <2>2 DEF HelpComes, Awaits
    <2>3. CASE rest = s /\ Keeps(a, b)
      <3>1. a.remoteSdp = NoSdp /\ b.theirs = a.theirs
        BY <1>1, <1>5, <2>3 DEF Keeps, Awaits
      <3> QED
        BY <1>3, <2>1, <2>2, <2>3, <3>1
    <2>4. CASE s # <<>> /\ rest = Tail(s)
      <3>1. Taken(s, t) /\ Head(s) = s[1]
        BY <1>1, <1>3, <2>4, TailTaken DEF Taken
      <3>2. IsDescription(s[1]) => s[1].val # NoSdp
        BY <1>1, <2>4, <3>1, NamedTail DEF IsDescription
      <3>3. \/ rest = s /\ Keeps(a, b)
            \/ IsRequest(s[1]) /\ Keeps(a, b) /\ s[1].val <= a.theirs
            \/ IsDescription(s[1]) /\ TakesDescription(a, b, s[1].val)
            \/ IsCandidate(s[1]) /\ TakesCandidate(a, b, s[1].val)
            \/ s[1].type = "JuiceDone" /\ Keeps(a, b)
        BY <1>2, <1>3, <1>5, <3>1 DEF Effect
      <3>4. CASE /\ ~IsDescription(s[1]) /\ a.remoteSdp = NoSdp
                 /\ b.theirs = a.theirs
                 /\ IsRequest(s[1]) => s[1].val <= a.theirs
        <4>1. ~(IsRequest(s[1]) /\ s[1].val > a.theirs)
          <5>1. a.theirs \in Nat /\ s[1].val \in Nat
            BY <1>1, <3>1, TakenPlaces DEF Agents
          <5> QED
            BY <3>4, <5>1
        <4> QED
          BY <1>1, <2>1, <2>2, <3>1, <3>4, <4>1, HelpTaken
      <3>5. ~IsDescription(s[1]) \/ (rest = s /\ Keeps(a, b))
        BY <1>1, <1>5, <3>2, <3>3
        DEF TakesDescription, Awaits, IsDescription, IsRequest, IsCandidate
      <3>6. \/ rest = s /\ Keeps(a, b)
            \/ /\ a.remoteSdp = NoSdp /\ b.theirs = a.theirs
               /\ IsRequest(s[1]) => s[1].val <= a.theirs
        BY <1>1, <1>5, <3>3, <3>5
        DEF Keeps, TakesCandidate, Awaits, IsDescription, IsRequest, IsCandidate
      <3> QED
        BY <2>3, <3>4, <3>5, <3>6
    <2> QED
      BY <1>2, <1>3, <2>3, <2>4 DEF Effect
  <1> QED
    BY <1>4, <1>5

(* The entry points of the other peer, which has to answer.                *)
LEMMA HelpHi ==
  ASSUME TypeOK, TypeOK', OffersSound, Locals, CountersInOrder,
         DescriptionsInOrder, HelpComes, Entry(Hi)
  PROVE  HelpComes'
  <1> DEFINE a == agent[Lo]
             h == agent[Hi]
             s == net[Hi]
             t == net'[Hi]
  <1>1. /\ Lo \in Peers /\ Hi \in Peers /\ Other(Hi) = Lo /\ Other(Lo) = Hi
        /\ Local(h) /\ a \in Agents /\ h \in Agents /\ a.gen \in Nat
        /\ s \in Seq(Messages) /\ t \in Seq(Messages)
        /\ net[Lo] \in Seq(Messages) /\ net'[Lo] \in Seq(Messages)
    BY PeersEnds DEF Ends, TypeOK, Agents, Locals
  <1>2. PICK w, rest : Effect(Hi, w, rest) /\ Finish(Hi, w, rest)
    BY <1>1, EntryEffect
  <1>3. /\ agent'[Lo] = a /\ t = rest /\ net'[Lo] = net[Lo] \o w.sent
        /\ Says(net[Lo], h, net'[Lo], agent'[Hi])
    BY <1>1, <1>2, FinishFields, EntrySays
  <1>4. Lossless' = Lossless
    BY <1>1, EntryLosesNothing
  <1> SUFFICES ASSUME Lossless, Awaits(a)
               PROVE  Described(t, a.gen) \/ Answered(net'[Lo], a.theirs)
    BY <1>3, <1>4 DEF HelpComes
  <1>5. Answered(net[Lo], a.theirs) => Answered(net'[Lo], a.theirs)
    BY <1>1, <1>3, HelpExtends DEF Says
  <1>6. Described(s, a.gen) \/ Answered(net[Lo], a.theirs)
    BY DEF HelpComes
  <1>7. CASE rest = s
    BY <1>3, <1>5, <1>6, <1>7
  <1>8. CASE s # <<>> /\ rest = Tail(s)
    <2>1. Taken(s, t) /\ Head(s) = s[1] /\ 1 \in 1..Len(s)
      BY <1>1, <1>3, <1>8, TailTaken DEF Taken
    <2>2. CASE ~(IsDescription(s[1]) /\ s[1].val = a.gen)
      BY <1>1, <1>5, <1>6, <2>1, <2>2, HelpTaken
    <2>3. CASE IsDescription(s[1]) /\ s[1].val = a.gen
      <3>1. s # t
        BY <1>1, <2>1, TakenPlaces
      <3>2. \/ Answers(h, w) \/ h.remoteSdp = s[1].val
            \/ h.state # "Disconnected" /\ h.remoteSdp = NoSdp
        BY <1>2, <1>3, <2>1, <2>3, <3>1
        DEF Effect, IsDescription, IsRequest, IsCandidate
      <3>3. h.remoteSdp # s[1].val
        <4>1. h.remoteSdp < s[1].val
          BY <1>1, <2>1, <2>3 DEF DescriptionsInOrder, DescriptionsRise
        <4>2. h.remoteSdp \in Nat
          BY <1>1 DEF Agents
        <4> QED
          BY <1>1, <2>3, <4>1, <4>2
      <3>4. ~(h.state # "Disconnected" /\ h.remoteSdp = NoSdp)
        <4>1. ~Controlling(Hi)
          BY <1>1, IdsAssumption DEF Controlling
        <4> QED
          BY <1>1, <4>1 DEF OffersSound, Sound
      <3>5. Outcome(h, w) /\ w.sent \in Seq(Messages)
        BY <1>2 DEF Effect, Outcome, Works
      <3>6. PICK i \in 1..Len(w.sent) :
              \/ IsDescription(w.sent[i])
              \/ IsRequest(w.sent[i]) /\ w.sent[i].val > h.ours
        <4>1. CASE Opens(h, w)
          <5>1. PICK r \in Seq(Messages) :
                  w.sent = Append(r, Description(w.agent.gen))
            BY <4>1 DEF Opens
          <5>2. Description(w.agent.gen) \in Messages
            <6>1. w.agent.gen \in Nat
              BY <3>5 DEF Outcome, Works, Agents
            <6> QED
              BY <6>1, MessageTypes
          <5>3. /\ Len(w.sent) \in 1..Len(w.sent)
                /\ w.sent[Len(w.sent)] = Description(w.agent.gen)
            BY <5>1, <5>2, AppendProperties, LenProperties
          <5> QED
            BY <5>3 DEF Description, IsDescription
        <4> QED
          BY <3>2, <3>3, <3>4, <4>1 DEF Answers
      <3> DEFINE u == net[Lo] \o w.sent
      <3>7. PICK k \in 1..Len(u) : u[k] = w.sent[i]
        BY <1>1, <3>5, ConcatHas
      <3> HIDE DEF u
      <3>8. a.theirs <= h.ours /\ a.theirs \in Nat /\ h.ours \in Nat
        BY <1>1 DEF CountersInOrder, Agents
      <3>9. w.sent[i].val \in Nat
        BY <3>5, ElementTypes
      <3>10. IsDescription(u[k]) \/ (IsRequest(u[k]) /\ u[k].val > a.theirs)
        BY <3>6, <3>7, <3>8, <3>9
      <3>11. Answered(u, a.theirs)
        BY <3>7, <3>10 DEF Answered
      <3> QED
        BY <1>3, <3>11 DEF u
    <2> QED
      BY <2>2, <2>3
  <1> QED
    BY <1>2, <1>7, <1>8 DEF Effect

(* libjuice and the faults.                                                *)
LEMMA HelpOther ==
  ASSUME TypeOK, TypeOK', Locals, HelpComes, NEW p \in Peers, OtherStep(p)
  PROVE  HelpComes'
  <1> DEFINE q == Other(p)
  <1>1. OtherEffect(p) /\ Ends /\ q \in Peers /\ (p = Lo \/ p = Hi)
    BY OtherStepFields, PeersEnds, PeerTypes DEF Locals, Peers
  <1> SUFFICES ASSUME Lossless', Awaits(agent'[Lo])
               PROVE  \/ Described(net'[Hi], agent'[Lo].gen)
                      \/ Answered(net'[Lo], agent'[Lo].theirs)
    BY DEF HelpComes
  <1>2. /\ Lossless /\ agent'[q] = agent[q]
        /\ \/ Retired(agent[p], agent'[p]) /\ net' = net
           \/ Progress(agent[p], agent'[p])
        /\ \/ net'[p] = net[p] /\ net'[q] = net[q]
           \/ net'[p] = net[p] /\ \E m \in Messages : net'[q] = Append(net[q], m)
    BY <1>1 DEF OtherEffect
  <1>3. /\ Awaits(agent[Lo]) /\ agent'[Lo].gen = agent[Lo].gen
        /\ agent'[Lo].theirs = agent[Lo].theirs
    BY <1>1, <1>2 DEF Ends, Awaits, Retired, Progress
  <1>4. /\ Described(net[Hi], agent[Lo].gen) => Described(net'[Hi], agent[Lo].gen)
        /\ Answered(net[Lo], agent[Lo].theirs) =>
             Answered(net'[Lo], agent[Lo].theirs)
    <2>1. \A r \in Peers : net'[r] = net[r] \/ Extends(net[r], net'[r])
      <3>1. net[q] \in Seq(Messages)
        BY <1>1 DEF TypeOK
      <3>2. net'[p] = net[p]
        BY <1>2
      <3>3. net'[q] = net[q] \/ Extends(net[q], net'[q])
        BY <1>2, <3>1, AppendExtends
      <3> QED
        BY <3>2, <3>3, PeerTypes
    <2>2. /\ net[Lo] \in Seq(Messages) /\ net'[Lo] \in Seq(Messages)
          /\ net[Hi] \in Seq(Messages) /\ net'[Hi] \in Seq(Messages)
      BY <1>1 DEF TypeOK, Ends
    <2> QED
      BY <1>1, <2>1, <2>2, HelpExtends DEF Ends
  <1> QED
    BY <1>2, <1>3, <1>4 DEF HelpComes

(* Nobody waits for ever, if the clocks do not go back: when nothing is on *)
(* its way and nothing was lost, every agent that gathers knows its peer.  *)
THEOREM NobodyWaits ==
  ASSUME ClockGain \subseteq Nat
  PROVE  Spec => []NobodyWaitsForever
  <1>1. Init => HelpComes
    <2> SUFFICES ASSUME Init PROVE ~Awaits(agent[Lo])
      BY DEF HelpComes
    <2> QED
      BY PeersEnds DEF Ends, Init, Blank, Awaits
  <1>2. /\ TypeOK /\ TypeOK' /\ OffersSound /\ Locals /\ CountersInOrder
        /\ DescriptionsInOrder /\ HelpComes /\ [Next]_vars
        => HelpComes'
    <2> SUFFICES ASSUME TypeOK, TypeOK', OffersSound, Locals, CountersInOrder,
                        DescriptionsInOrder, HelpComes, [Next]_vars
                 PROVE  HelpComes'
      OBVIOUS
    <2>1. CASE UNCHANGED vars
      BY <2>1 DEF vars, HelpComes, Lossless
    <2>2. CASE Next
      <3>1. PICK p \in Peers : Entry(p) \/ OtherStep(p)
        BY <2>2, Steps
      <3>2. p = Lo \/ p = Hi
        BY DEF Peers
      <3> QED
        BY <3>1, <3>2, HelpLo, HelpHi, HelpOther
    <2> QED
      BY <2>1, <2>2
  <1>3. HelpComes /\ ResponderHasOffer => NobodyWaitsForever
    <2> SUFFICES ASSUME HelpComes, ResponderHasOffer, Quiescent, Lossless,
                        NEW p \in Peers, agent[p].state = "Gathering",
                        agent[p].remoteSdp = NoSdp
                 PROVE  FALSE
      BY DEF NobodyWaitsForever
    <2>1. CASE p = Hi
      <3>1. ~Controlling(Hi)
        BY PeersEnds, IdsAssumption DEF Ends, Controlling
      <3> QED
        BY <2>1, <3>1 DEF ResponderHasOffer
    <2>2. CASE p = Lo
      <3>1. net[Lo] = <<>> /\ net[Hi] = <<>>
        BY PeersEnds DEF Ends, Quiescent
      <3> QED
        BY <2>2, <3>1 DEF HelpComes, Awaits, Described, Answered
    <2> QED
      BY <2>1, <2>2 DEF Peers
  <1>4. Spec => []CountersInOrder
    BY CountersOrdered
  <1> QED
    BY <1>1, <1>2, <1>3, <1>4, TypeCorrect, OffersAreSound, OneSideOffers,
       LocalsHold, DescriptionsKeepOrder, PTL DEF Spec
================================================================================
