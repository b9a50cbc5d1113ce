-------------------------- MODULE AgentSessionProofs --------------------------
(***************************************************************************)
(* Proofs about AgentSession for all ids, counters and bounds.  The member *)
(* functions of JuiceAgent take a Work, an agent and what it has sent, to  *)
(* another; each keeps it legitimate: the requests sent since the entry    *)
(* point was called lie, in order, between the counter the agent had then  *)
(* and the one it has now.  What reaches the peer's channel in the end is  *)
(* therefore in order with what was there.                                 *)
(***************************************************************************)
EXTENDS AgentSession, SequenceTheorems, TLAPS

Works == [agent : Agents, sent : Seq(Messages)]

Legitimate(w, c) ==
    /\ w \in Works
    /\ c \in Nat /\ c <= w.agent.ours
    /\ InOrder(w.sent, c, w.agent.ours)

-----------------------------------------------------------------------------
(* The constructors of messages and agents have their types.               *)
LEMMA MessageTypes ==
  ASSUME NEW n \in Nat
  PROVE  /\ Request(n) \in Messages /\ Request(n).type = "ConnectionRequest"
         /\ Request(n).val = n
         /\ Description(n) \in Messages
         /\ Description(n).type # "ConnectionRequest"
         /\ Candidate(n) \in Messages
         /\ Candidate(n).type # "ConnectionRequest"
         /\ Done(n) \in Messages /\ Done(n).type # "ConnectionRequest"
  BY DEF Messages, Request, Description, Candidate, Done

(* A destroyed agent, and one just built from it, have their types.        *)
LEMMA BlankType ==
  ASSUME NEW c \in Nat, NEW g \in Nat
  PROVE  /\ Blank(c, g) \in Agents
         /\ Blank(c, g).ours = c /\ Blank(c, g).theirs = 0
         /\ [Blank(c, g) EXCEPT !.alive = TRUE] \in Agents
         /\ [Blank(c, g) EXCEPT !.alive = TRUE].ours = c
         /\ [Blank(c, g) EXCEPT !.alive = TRUE].theirs = 0
  BY DEF Blank, Agents, States, NoSdp

(* There are two peers, and each is the other's other.                     *)
LEMMA PeerTypes ==
  ASSUME NEW p \in Peers
  PROVE  /\ Other(p) \in Peers /\ Other(p) # p /\ Other(Other(p)) = p
         /\ \A q \in Peers : q = p \/ q = Other(p)
  BY IdsAssumption DEF Peers, Other

-----------------------------------------------------------------------------
(* Sequences of messages whose requests are in order.                      *)
LEMMA ElementTypes ==
  ASSUME NEW s \in Seq(Messages), NEW i \in 1..Len(s)
  PROVE  s[i] \in Messages /\ s[i].val \in Nat
  <1>1. s[i] \in Messages
    BY ElementOfSeq
  <1> QED
    BY <1>1 DEF Messages

(* An empty channel is in order.                                           *)
LEMMA InOrderEmpty ==
  ASSUME NEW a, NEW b
  PROVE  InOrder(<<>>, a, b)
  BY DEF InOrder

(* What is in order stays so between wider bounds.                         *)
LEMMA InOrderWiden ==
  ASSUME NEW s \in Seq(Messages),
         NEW a \in Nat, NEW b \in Nat, NEW c \in Nat, NEW d \in Nat,
         c <= a, b <= d, InOrder(s, a, b)
  PROVE  InOrder(s, c, d)
  <1> SUFFICES ASSUME NEW i \in 1..Len(s), s[i].type = "ConnectionRequest"
               PROVE  /\ c <= s[i].val /\ s[i].val <= d
                      /\ \A j \in i..Len(s) :
                           s[j].type = "ConnectionRequest" => s[i].val <= s[j].val
    BY DEF InOrder
  <1>1. s[i].val \in Nat
    BY ElementTypes
  <1> QED
    BY <1>1 DEF InOrder

(* A request at the head raises the bound of what is behind it.            *)
LEMMA InOrderTail ==
  ASSUME NEW s \in Seq(Messages), s # <<>>, NEW a \in Nat, NEW b \in Nat,
         InOrder(s, a, b)
  PROVE  /\ Tail(s) \in Seq(Messages)
         /\ InOrder(Tail(s), a, b)
         /\ Head(s) \in Messages
         /\ Head(s).type = "ConnectionRequest" =>
              /\ a <= Head(s).val /\ Head(s).val <= b
              /\ InOrder(Tail(s), Head(s).val, b)
  <1>1. /\ Tail(s) \in Seq(Messages) /\ Len(Tail(s)) = Len(s) - 1
        /\ Head(s) = s[1] /\ Head(s) \in Messages
        /\ Len(s) \in Nat /\ Len(s) > 0
    BY EmptySeq, LenProperties, ElementOfSeq, HeadTailProperties
  <1>2. \A i \in 1..Len(Tail(s)) : Tail(s)[i] = s[i + 1]
    BY HeadTailProperties
  <1>3. InOrder(Tail(s), a, b)
    BY <1>1, <1>2 DEF InOrder
  <1>4. ASSUME Head(s).type = "ConnectionRequest"
        PROVE  /\ a <= Head(s).val /\ Head(s).val <= b
               /\ InOrder(Tail(s), Head(s).val, b)
    BY <1>1, <1>2, <1>4 DEF InOrder
  <1> QED
    BY <1>1, <1>3, <1>4

(* Later requests can follow earlier ones.                                 *)
LEMMA InOrderConcat ==
  ASSUME NEW s \in Seq(Messages), NEW t \in Seq(Messages),
         NEW a \in Nat, NEW b \in Nat, NEW c \in Nat, a <= b, b <= c,
         InOrder(s, a, b), InOrder(t, b, c)
  PROVE  InOrder(s \o t, a, c)
  <1> DEFINE u == s \o t
  <1>1. /\ u \in Seq(Messages) /\ Len(u) = Len(s) + Len(t)
        /\ Len(s) \in Nat /\ Len(t) \in Nat
        /\ \A i \in 1..Len(u) :
             u[i] = IF i <= Len(s) THEN s[i] ELSE t[i - Len(s)]
    BY ConcatProperties, LenProperties
  <1>2. \A i \in 1..Len(s) : s[i].val \in Nat
    BY ElementTypes
  <1>3. \A i \in 1..Len(t) : t[i].val \in Nat
    BY ElementTypes
  <1> HIDE DEF u
  <1> SUFFICES ASSUME NEW i \in 1..Len(u), u[i].type = "ConnectionRequest"
               PROVE  /\ a <= u[i].val /\ u[i].val <= c
                      /\ \A j \in i..Len(u) :
                           u[j].type = "ConnectionRequest" => u[i].val <= u[j].val
    BY DEF InOrder, u
  <1>4. CASE i <= Len(s)
    <2>1. i \in 1..Len(s) /\ u[i] = s[i]
      BY <1>1, <1>4
    <2>2. a <= s[i].val /\ s[i].val <= b
      BY <2>1 DEF InOrder
    <2>3. ASSUME NEW j \in i..Len(u), u[j].type = "ConnectionRequest"
          PROVE  u[i].val <= u[j].val
      <3>1. CASE j <= Len(s)
        <4>1. j \in i..Len(s) /\ u[j] = s[j]
          BY <1>1, <3>1
        <4> QED
          BY <2>1, <2>3, <4>1 DEF InOrder
      <3>2. CASE ~(j <= Len(s))
        <4>1. j - Len(s) \in 1..Len(t) /\ u[j] = t[j - Len(s)]
          BY <1>1, <3>2
        <4>2. b <= u[j].val
          BY <2>3, <4>1 DEF InOrder
        <4> QED
          BY <1>2, <1>3, <2>1, <2>2, <4>1, <4>2
      <3> QED
        BY <3>1, <3>2
    <2> QED
      BY <1>2, <2>1, <2>2, <2>3
  <1>5. CASE ~(i <= Len(s))
    <2>1. i - Len(s) \in 1..Len(t) /\ u[i] = t[i - Len(s)]
      BY <1>1, <1>5
    <2>2. b <= u[i].val /\ u[i].val <= c
      BY <2>1 DEF InOrder
    <2>3. ASSUME NEW j \in i..Len(u), u[j].type = "ConnectionRequest"
          PROVE  u[i].val <= u[j].val
      <3>1. j - Len(s) \in (i - Len(s))..Len(t) /\ u[j] = t[j - Len(s)]
        BY <1>1, <1>5
      <3> QED
        BY <2>1, <2>3, <3>1 DEF InOrder
    <2> QED
      BY <1>3, <2>1, <2>2, <2>3
  <1> QED
    BY <1>4, <1>5

(* One message is in order if it is no request out of bounds.              *)
LEMMA InOrderSingle ==
  ASSUME NEW m \in Messages, NEW a \in Nat, NEW b \in Nat,
         m.type = "ConnectionRequest" => a <= m.val /\ m.val <= b
  PROVE  <<m>> \in Seq(Messages) /\ InOrder(<<m>>, a, b)
  <1>1. m.val \in Nat
    BY DEF Messages
  <1> QED
    BY <1>1 DEF InOrder

(* A request with the last counter, or any other message, can follow.      *)
LEMMA InOrderAppend ==
  ASSUME NEW s \in Seq(Messages), NEW m \in Messages,
         NEW a \in Nat, NEW b \in Nat, a <= b, InOrder(s, a, b),
         m.type = "ConnectionRequest" => m.val = b
  PROVE  /\ Append(s, m) \in Seq(Messages)
         /\ InOrder(Append(s, m), a, b)
  <1>1. m.val \in Nat
    BY DEF Messages
  <1>2. Append(s, m) = s \o <<m>> /\ Append(s, m) \in Seq(Messages)
    BY AppendIsConcat, AppendProperties
  <1>3. InOrder(<<m>>, b, b) /\ <<m>> \in Seq(Messages)
    BY <1>1, InOrderSingle
  <1>4. b <= b
    OBVIOUS
  <1>5. InOrder(s \o <<m>>, a, b)
    BY <1>3, <1>4, InOrderConcat, Zenon
  <1> QED
    BY <1>2, <1>5
-----------------------------------------------------------------------------
(* The member functions of JuiceAgent.                                     *)
LEMMA PostLegitimate ==
  ASSUME NEW w, NEW c, Legitimate(w, c), NEW m \in Messages,
         m.type = "ConnectionRequest" => m.val = w.agent.ours
  PROVE  /\ Legitimate(Post(w, m), c)
         /\ Post(w, m).agent = w.agent
  <1>1. /\ w.agent.ours \in Nat /\ w.sent \in Seq(Messages)
        /\ w.agent \in Agents
    BY DEF Legitimate, Works, Agents
  <1>2. /\ Append(w.sent, m) \in Seq(Messages)
        /\ InOrder(Append(w.sent, m), c, w.agent.ours)
    BY <1>1, InOrderAppend DEF Legitimate
  <1> DEFINE s == Append(w.sent, m)
  <1> HIDE DEF s
  <1>3. [w EXCEPT !.sent = s] = [agent |-> w.agent, sent |-> s]
    BY DEF Legitimate, Works
  <1>4. Post(w, m) = [w EXCEPT !.sent = s]
    BY DEF Post, s
  <1> QED
    BY <1>1, <1>2, <1>3, <1>4 DEF Legitimate, Works, s

(* send_connection_request sends the counter the agent has.                *)
LEMMA RequestLegitimate ==
  ASSUME NEW w, NEW c, Legitimate(w, c)
  PROVE  /\ Legitimate(SendConnectionRequest(w), c)
         /\ SendConnectionRequest(w).agent = w.agent
  <1>1. w.agent.ours \in Nat
    BY DEF Legitimate, Works, Agents
  <1> QED
    BY <1>1, MessageTypes, PostLegitimate DEF SendConnectionRequest

(* Replacing the agent by one with no lower a counter.                     *)
LEMMA ReplaceLegitimate ==
  ASSUME NEW w, NEW c, Legitimate(w, c), NEW a \in Agents,
         w.agent.ours <= a.ours
  PROVE  /\ Legitimate([w EXCEPT !.agent = a], c)
         /\ [w EXCEPT !.agent = a].agent = a
  <1>1. /\ w.agent.ours \in Nat /\ w.sent \in Seq(Messages)
        /\ a.ours \in Nat /\ c \in Nat /\ c <= c
        /\ InOrder(w.sent, c, w.agent.ours)
    BY DEF Legitimate, Works, Agents
  <1>2. InOrder(w.sent, c, a.ours)
    BY <1>1, InOrderWiden
  <1>3. [w EXCEPT !.agent = a] = [agent |-> a, sent |-> w.sent]
    BY DEF Legitimate, Works
  <1> QED
    BY <1>1, <1>2, <1>3 DEF Legitimate, Works

(* reset_agent raises the counter and remembers the peer's.                *)
LEMMA ResetLegitimate ==
  ASSUME NEW w, NEW c, Legitimate(w, c)
  PROVE  /\ Legitimate(ResetAgent(w), c)
         /\ ResetAgent(w).agent.theirs = w.agent.theirs
  <1> DEFINE a == [Blank(w.agent.ours + 1, w.agent.gen + 1) EXCEPT
                     !.alive = TRUE, !.theirs = w.agent.theirs]
  <1>1. /\ w.agent.ours \in Nat /\ w.agent.ours + 1 \in Nat
        /\ w.agent.gen + 1 \in Nat /\ w.agent.theirs \in Nat
    BY DEF Legitimate, Works, Agents
  <1>2. /\ a \in Agents /\ a.ours = w.agent.ours + 1
        /\ a.theirs = w.agent.theirs
    <2> DEFINE b == Blank(w.agent.ours + 1, w.agent.gen + 1)
    <2>1. b \in Agents /\ b.ours = w.agent.ours + 1
      BY <1>1, BlankType
    <2> HIDE DEF b
    <2>2. a = [b EXCEPT !.alive = TRUE, !.theirs = w.agent.theirs]
      BY DEF b
    <2> QED
      BY <1>1, <2>1, <2>2 DEF Agents
  <1>3. ResetAgent(w) = [w EXCEPT !.agent = a]
    BY DEF ResetAgent, Legitimate, Works
  <1> HIDE DEF a
  <1> QED
    BY <1>1, <1>2, <1>3, ReplaceLegitimate

(* So does gathering, after the description has been sent.                 *)
LEMMA InitializeLegitimate ==
  ASSUME NEW w, NEW c, Legitimate(w, c)
  PROVE  /\ Legitimate(Initialize(w), c)
         /\ Initialize(w).agent.theirs = w.agent.theirs
  <1> DEFINE sdp == LocalSdp(w.agent)
             v == [w EXCEPT !.agent.localSdp = sdp]
             u == Post(v, Description(sdp))
  <1>1. w.agent \in Agents /\ w.agent.ours \in Nat /\ sdp \in Nat
    BY DEF Legitimate, Works, Agents, LocalSdp
  <1>2. Legitimate(v, c) /\ v.agent.theirs = w.agent.theirs
    <2> DEFINE a == [w.agent EXCEPT !.localSdp = sdp]
    <2>1. /\ a \in Agents /\ a.ours = w.agent.ours
          /\ a.theirs = w.agent.theirs
      BY <1>1 DEF Agents
    <2>2. v = [w EXCEPT !.agent = a]
      BY DEF Legitimate, Works
    <2> HIDE DEF a, v
    <2> QED
      BY <1>1, <2>1, <2>2, ReplaceLegitimate
  <1>3. Legitimate(u, c) /\ u.agent = v.agent
    BY <1>1, <1>2, MessageTypes, PostLegitimate
  <1> HIDE DEF u
  <1>4. /\ Legitimate(GatherCandidates(u), c)
        /\ GatherCandidates(u).agent.theirs = u.agent.theirs
    <2> DEFINE a == [u.agent EXCEPT !.state = "Gathering",
                                    !.ours = u.agent.ours + 1]
    <2>1. u.agent \in Agents /\ u.agent.ours \in Nat
      BY <1>3 DEF Legitimate, Works, Agents
    <2>2. /\ a \in Agents /\ a.ours = u.agent.ours + 1
          /\ a.theirs = u.agent.theirs
      <3>1. u.agent.ours + 1 \in Nat
        BY <2>1
      <3> QED
        BY <2>1, <3>1 DEF Agents, States
    <2>3. GatherCandidates(u) = [u EXCEPT !.agent = a]
      BY <1>3 DEF GatherCandidates, Legitimate, Works
    <2> HIDE DEF a
    <2> QED
      BY <1>3, <2>1, <2>2, <2>3, ReplaceLegitimate
  <1> QED
    BY <1>2, <1>3, <1>4 DEF Initialize, u

(* try_initialize, from whatever state.                                    *)
LEMMA TryInitializeLegitimate ==
  ASSUME NEW w, NEW c, Legitimate(w, c)
  PROVE  /\ Legitimate(TryInitialize(w), c)
         /\ TryInitialize(w).agent.theirs = w.agent.theirs
  <1>1. CASE w.agent.state = "Failed"
    BY <1>1, ResetLegitimate, InitializeLegitimate DEF TryInitialize
  <1>2. CASE w.agent.state = "Disconnected"
    BY <1>2, InitializeLegitimate DEF TryInitialize
  <1>3. CASE w.agent.state \notin {"Failed", "Disconnected"}
    BY <1>3 DEF TryInitialize
  <1> QED
    BY <1>1, <1>2, <1>3

(* A reset under a condition.                                              *)
LEMMA ResetIfLegitimate ==
  ASSUME NEW w, NEW c, Legitimate(w, c), NEW test \in BOOLEAN
  PROVE  /\ Legitimate(ResetIf(test, w), c)
         /\ ResetIf(test, w).agent.theirs = w.agent.theirs
  BY ResetLegitimate DEF ResetIf

(* A new counter of the peer is adopted, a lower one not.                  *)
LEMMA AdoptLegitimate ==
  ASSUME NEW w, NEW c, Legitimate(w, c), NEW counter \in Nat
  PROVE  /\ Legitimate(AdoptCounter(w, counter), c)
         /\ w.agent.theirs <= counter =>
              AdoptCounter(w, counter).agent.theirs = counter
  <1>1. CASE w.agent.theirs < counter
    <2> DEFINE r == ResetIf(w.agent.state # "Disconnected", w)
               a == [r.agent EXCEPT !.theirs = counter]
    <2>1. Legitimate(r, c)
      BY ResetIfLegitimate
    <2>2. AdoptCounter(w, counter) = [r EXCEPT !.agent.theirs = counter]
      BY <1>1 DEF AdoptCounter
    <2> HIDE DEF r
    <2>3. /\ r.agent.ours \in Nat /\ a \in Agents
          /\ a.ours = r.agent.ours /\ a.theirs = counter
      BY <2>1 DEF Legitimate, Works, Agents
    <2>4. AdoptCounter(w, counter) = [r EXCEPT !.agent = a]
      BY <2>1, <2>2 DEF Legitimate, Works
    <2> HIDE DEF a
    <2> QED
      BY <2>1, <2>3, <2>4, ReplaceLegitimate
  <1>2. CASE ~(w.agent.theirs < counter)
    <2>1. w.agent.theirs \in Nat
      BY DEF Legitimate, Works, Agents
    <2> QED
      BY <1>2, <2>1 DEF AdoptCounter
  <1> QED
    BY <1>1, <1>2

(* A request with the counter last processed, or a later one, makes it the *)
(* counter last processed.                                                 *)
LEMMA HandleRequestLegitimate ==
  ASSUME NEW p \in Peers, NEW w, NEW c, Legitimate(w, c), NEW counter \in Nat
  PROVE  /\ Legitimate(HandleRequest(p, w, counter), c)
         /\ w.agent.theirs <= counter =>
              HandleRequest(p, w, counter).agent.theirs = counter
  <1> DEFINE v == ResetIf(w.agent.state = "Failed", w)
             u == AdoptCounter(v, counter)
  <1>1. Legitimate(v, c) /\ v.agent.theirs = w.agent.theirs
    BY ResetIfLegitimate
  <1>2. HandleRequest(p, w, counter) = IF v.agent.theirs > counter THEN v
                                       ELSE IF Controlling(p)
                                            THEN TryInitialize(u)
                                            ELSE SendConnectionRequest(u)
    BY DEF HandleRequest
  <1> HIDE DEF v
  <1>3. /\ Legitimate(u, c)
        /\ v.agent.theirs <= counter => u.agent.theirs = counter
    BY <1>1, AdoptLegitimate
  <1> HIDE DEF u
  <1>4. v.agent.theirs \in Nat
    BY <1>1 DEF Legitimate, Works, Agents
  <1>5. CASE v.agent.theirs > counter
    BY <1>1, <1>2, <1>4, <1>5
  <1>6. CASE ~(v.agent.theirs > counter)
    <2>1. CASE Controlling(p)
      BY <1>1, <1>2, <1>3, <1>4, <1>6, <2>1, TryInitializeLegitimate
    <2>2. CASE ~Controlling(p)
      BY <1>1, <1>2, <1>3, <1>4, <1>6, <2>2, RequestLegitimate
    <2> QED
      BY <2>1, <2>2
  <1> QED
    BY <1>5, <1>6

(* A description, whether first, repeated or different.                    *)
LEMMA HandleDescriptionLegitimate ==
  ASSUME NEW w, NEW c, Legitimate(w, c), NEW sdp \in Nat
  PROVE  /\ Legitimate(HandleDescription(w, sdp), c)
         /\ HandleDescription(w, sdp).agent.theirs = w.agent.theirs
  <1>1. CASE w.agent.remoteSdp = NoSdp
    <2> DEFINE a == [w.agent EXCEPT !.remoteSdp = sdp]
               v == [w EXCEPT !.agent.remoteSdp = sdp]
    <2>1. /\ w.agent.ours \in Nat /\ a \in Agents
          /\ a.ours = w.agent.ours /\ a.theirs = w.agent.theirs
      BY DEF Legitimate, Works, Agents
    <2>2. v = [w EXCEPT !.agent = a]
      BY DEF Legitimate, Works
    <2> HIDE DEF a, v
    <2>3. Legitimate(v, c) /\ v.agent.theirs = w.agent.theirs
      BY <2>1, <2>2, ReplaceLegitimate
    <2>4. HandleDescription(w, sdp) = TryInitialize(v)
      BY <1>1 DEF HandleDescription, v
    <2> QED
      BY <2>3, <2>4, TryInitializeLegitimate
  <1>2. CASE w.agent.remoteSdp # NoSdp /\ w.agent.remoteSdp = sdp
    BY <1>2 DEF HandleDescription
  <1>3. CASE w.agent.remoteSdp # NoSdp /\ w.agent.remoteSdp # sdp
    <2>1. HandleDescription(w, sdp) = SendConnectionRequest(ResetAgent(w))
      BY <1>3 DEF HandleDescription
    <2> QED
      BY <2>1, ResetLegitimate, RequestLegitimate
  <1> QED
    BY <1>1, <1>2, <1>3

(* Candidates and the end of them leave the counters alone.                *)
LEMMA HandleRestLegitimate ==
  ASSUME NEW w, NEW c, Legitimate(w, c), NEW g \in Nat
  PROVE  /\ Legitimate(HandleCandidate(w, g), c)
         /\ HandleCandidate(w, g).agent.theirs = w.agent.theirs
         /\ Legitimate(HandleDone(w), c)
         /\ HandleDone(w).agent.theirs = w.agent.theirs
  <1> DEFINE a == [w.agent EXCEPT !.candidates = @ \union {g}]
             b == [w.agent EXCEPT !.remoteDone = TRUE]
  <1>1. /\ w.agent.ours \in Nat /\ a \in Agents /\ b \in Agents
        /\ a.ours = w.agent.ours /\ a.theirs = w.agent.theirs
        /\ b.ours = w.agent.ours /\ b.theirs = w.agent.theirs
    BY DEF Legitimate, Works, Agents
  <1>2. /\ HandleCandidate(w, g) = [w EXCEPT !.agent = a]
        /\ HandleDone(w) = [w EXCEPT !.agent = b]
    BY DEF HandleCandidate, HandleDone, Legitimate, Works
  <1> HIDE DEF a, b
  <1> QED
    BY <1>1, <1>2, ReplaceLegitimate

(* ensure_agent.  With a clock that does not lag, a new agent's counter is *)
(* not behind its predecessor's.                                           *)
LEMMA EnsureLegitimate ==
  ASSUME TypeOK, NEW p \in Peers, NEW w \in EnsureAgent(p)
  PROVE  /\ Legitimate(w, 0)
         /\ ClockGain \subseteq Nat => Legitimate(w, agent[p].ours)
         /\ w.agent.theirs <= agent[p].theirs
  <1>1. /\ agent[p] \in Agents /\ agent[p].ours \in Nat
        /\ agent[p].theirs \in Nat /\ agent[p].gen + 1 \in Nat
        /\ 0 <= agent[p].ours
    <2>1. agent[p] \in Agents
      BY DEF TypeOK
    <2> QED
      BY <2>1 DEF Agents
  <1>2. CASE agent[p].alive
    <2>1. w = [agent |-> agent[p], sent |-> <<>>]
      BY <1>2 DEF EnsureAgent, Work
    <2>2. <<>> \in Seq(Messages) /\ \A c : InOrder(<<>>, c, agent[p].ours)
      BY InOrderEmpty
    <2> QED
      BY <1>1, <2>1, <2>2 DEF Legitimate, Works
  <1>3. CASE ~agent[p].alive
    <2>1. PICK d \in ClockGain :
            /\ agent[p].ours + d \in Nat
            /\ w = SendConnectionRequest(
                     Work([Blank(agent[p].ours + d, agent[p].gen + 1)
                             EXCEPT !.alive = TRUE]))
      BY <1>3 DEF EnsureAgent
    <2> DEFINE n == agent[p].ours + d
               a == [Blank(n, agent[p].gen + 1) EXCEPT !.alive = TRUE]
    <2>2. n \in Nat /\ a \in Agents /\ a.ours = n /\ a.theirs = 0
      BY <1>1, <2>1, BlankType
    <2>3. w = SendConnectionRequest(Work(a))
      BY <2>1
    <2>4. ClockGain \subseteq Nat => agent[p].ours <= n
      BY <1>1, <2>1
    <2> HIDE DEF n, a
    <2>5. ASSUME NEW c \in Nat, c <= n
          PROVE  Legitimate(w, c) /\ w.agent.theirs = 0
      <3>1. Work(a) \in Works /\ Work(a).agent = a /\ Work(a).sent = <<>>
        BY <2>2 DEF Work, Works
      <3>2. Legitimate(Work(a), c)
        BY <2>2, <2>5, <3>1, InOrderEmpty DEF Legitimate
      <3> QED
        BY <2>2, <2>3, <3>1, <3>2, RequestLegitimate
    <2> QED
      BY <1>1, <2>2, <2>4, <2>5
  <1> QED
    BY <1>2, <1>3

-----------------------------------------------------------------------------
(* What an entry point leaves behind.                                      *)
LEMMA FinishTyped ==
  ASSUME TypeOK, NEW p \in Peers, NEW w \in Works,
         NEW rest \in Seq(Messages), Finish(p, w, rest)
  PROVE  agent' \in [Peers -> Agents] /\ net' \in [Peers -> Seq(Messages)]
  <1>1. w.agent \in Agents /\ w.sent \in Seq(Messages)
    BY DEF Works
  <1>2. Other(p) \in Peers /\ Other(p) # p
    BY PeerTypes
  <1>3. agent' \in [Peers -> Agents]
    BY <1>1 DEF TypeOK, Finish
  <1>4. net[Other(p)] \o w.sent \in Seq(Messages)
    BY <1>1, <1>2, ConcatProperties DEF TypeOK
  <1>5. net' \in [Peers -> Seq(Messages)]
    BY <1>2, <1>4 DEF TypeOK, Finish
  <1> QED
    BY <1>3, <1>5

(* The peer's channel grows by requests no older than those in it, and p's *)
(* by nothing.                                                             *)
LEMMA FinishInOrder ==
  ASSUME TypeOK, CountersInOrder, NEW p \in Peers, NEW w,
         Legitimate(w, agent[p].ours), NEW rest \in Seq(Messages),
         w.agent.theirs <= agent[Other(p)].ours,
         InOrder(rest, w.agent.theirs, agent[Other(p)].ours),
         Finish(p, w, rest)
  PROVE  CountersInOrder'
  <1> DEFINE q == Other(p)
  <1>1. q \in Peers /\ q # p /\ Other(q) = p /\ \A r \in Peers : r = p \/ r = q
    BY PeerTypes
  <1> HIDE DEF q
  <1>2. /\ agent'[p] = w.agent /\ agent'[q] = agent[q]
        /\ net'[p] = rest /\ net'[q] = net[q] \o w.sent
    BY <1>1 DEF TypeOK, Finish, q
  <1>3. /\ agent[p].ours \in Nat /\ w.agent.ours \in Nat
        /\ agent[q].theirs \in Nat
        /\ net[q] \in Seq(Messages) /\ w.sent \in Seq(Messages)
        /\ agent[p].ours <= w.agent.ours
        /\ InOrder(w.sent, agent[p].ours, w.agent.ours)
    BY <1>1 DEF TypeOK, Legitimate, Works, Agents
  <1>4. /\ agent[q].theirs <= agent[p].ours
        /\ InOrder(net[q], agent[q].theirs, agent[p].ours)
    BY <1>1 DEF CountersInOrder
  <1>5. /\ agent[q].theirs <= w.agent.ours
        /\ InOrder(net[q] \o w.sent, agent[q].theirs, w.agent.ours)
    BY <1>3, <1>4, InOrderConcat
  <1>6. /\ agent'[p].theirs <= agent'[q].ours
        /\ InOrder(net'[p], agent'[p].theirs, agent'[q].ours)
    BY <1>2 DEF q
  <1>7. /\ agent'[q].theirs <= agent'[p].ours
        /\ InOrder(net'[q], agent'[q].theirs, agent'[p].ours)
    BY <1>2, <1>5
  <1> QED
    BY <1>1, <1>6, <1>7 DEF CountersInOrder, q

(* The same for a message that leaves the counter processed alone.         *)
LEMMA FinishKeepsOrder ==
  ASSUME TypeOK, CountersInOrder, NEW p \in Peers, NEW w,
         Legitimate(w, agent[p].ours), NEW rest \in Seq(Messages),
         w.agent.theirs <= agent[p].theirs,
         InOrder(rest, agent[p].theirs, agent[Other(p)].ours),
         Finish(p, w, rest)
  PROVE  CountersInOrder'
  <1>1. /\ agent[p].theirs \in Nat /\ agent[Other(p)].ours \in Nat
        /\ w.agent.theirs \in Nat
    BY PeerTypes DEF TypeOK, Legitimate, Works, Agents
  <1>2. agent[p].theirs <= agent[Other(p)].ours
    BY DEF CountersInOrder
  <1>3. /\ w.agent.theirs <= agent[Other(p)].ours
        /\ agent[Other(p)].ours <= agent[Other(p)].ours
    BY <1>1, <1>2
  <1>4. InOrder(rest, w.agent.theirs, agent[Other(p)].ours)
    BY <1>1, <1>3, InOrderWiden
  <1> QED
    BY <1>3, <1>4, FinishInOrder

(* What p's channel holds once its head has been taken.                    *)
LEMMA ChannelTail ==
  ASSUME TypeOK, NEW p \in Peers, net[p] # <<>>
  PROVE  /\ Tail(net[p]) \in Seq(Messages)
         /\ Head(net[p]) \in Messages /\ Head(net[p]).val \in Nat
         /\ CountersInOrder =>
              /\ InOrder(Tail(net[p]), agent[p].theirs, agent[Other(p)].ours)
              /\ Head(net[p]).type = "ConnectionRequest" =>
                   /\ agent[p].theirs <= Head(net[p]).val
                   /\ Head(net[p]).val <= agent[Other(p)].ours
                   /\ InOrder(Tail(net[p]), Head(net[p]).val,
                              agent[Other(p)].ours)
  <1>1. /\ net[p] \in Seq(Messages) /\ agent[p].theirs \in Nat
        /\ agent[Other(p)].ours \in Nat
    BY PeerTypes DEF TypeOK, Agents
  <1>2. Tail(net[p]) \in Seq(Messages) /\ Head(net[p]) \in Messages
    BY <1>1, HeadTailProperties
  <1>3. Head(net[p]).val \in Nat
    BY <1>2 DEF Messages
  <1>4. ASSUME CountersInOrder
        PROVE  InOrder(net[p], agent[p].theirs, agent[Other(p)].ours)
    BY <1>4 DEF CountersInOrder
  <1> QED
    BY <1>1, <1>2, <1>3, <1>4, InOrderTail

-----------------------------------------------------------------------------
(* Every entry point hands legitimate work to Finish.                      *)
LEMMA StormsCalls ==
  ASSUME TypeOK, NEW p \in Peers, NEW c,
         \A w \in EnsureAgent(p) : Legitimate(w, c),
         Poll(p) \/ PollReads(p) \/ PollSends(p) \/ SendGamePacket(p)
  PROVE  \E w : /\ Legitimate(w, c) /\ w.agent.theirs <= agent[p].theirs
               /\ Finish(p, w, net[p])
  <1> DEFINE Good(w) == Legitimate(w, c) /\ w.agent.theirs <= agent[p].theirs
  <1>1. ASSUME NEW w \in EnsureAgent(p)
        PROVE  /\ Good(w) /\ Good(SendConnectionRequest(w))
               /\ Good(ResetAgent(w))
    BY EnsureLegitimate, RequestLegitimate, ResetLegitimate
  <1> HIDE DEF Good
  <1>2. CASE Poll(p)
    <2>1. PICK w \in EnsureAgent(p) :
            Finish(p, IF Idle(w.agent) THEN SendConnectionRequest(w) ELSE w,
                   net[p])
      BY <1>2 DEF Poll
    <2> QED
      BY <1>1, <2>1 DEF Good
  <1>3. CASE PollReads(p)
    BY <1>1, <1>3 DEF PollReads, Good
  <1>4. CASE PollSends(p)
    <2>1. PICK w \in EnsureAgent(p) :
            Finish(p, SendConnectionRequest(w), net[p])
      BY <1>4 DEF PollSends
    <2> QED
      BY <1>1, <2>1 DEF Good
  <1>5. CASE SendGamePacket(p)
    <2>1. PICK w \in EnsureAgent(p) :
            Finish(p, CASE w.agent.state = "Disconnected" ->
                             SendConnectionRequest(w)
                        [] w.agent.state = "Failed" -> ResetAgent(w)
                        [] OTHER -> w,
                   net[p])
      BY <1>5 DEF SendGamePacket
    <2>2. CASE w.agent.state = "Disconnected"
      BY <1>1, <2>1, <2>2 DEF Good
    <2>3. CASE w.agent.state = "Failed"
      BY <1>1, <2>1, <2>3 DEF Good
    <2>4. CASE w.agent.state \notin {"Disconnected", "Failed"}
      BY <1>1, <2>1, <2>4 DEF Good
    <2> QED
      BY <2>2, <2>3, <2>4
  <1> QED
    BY <1>2, <1>3, <1>4, <1>5

(* w has processed the request at the head of p's channel, unless it is old. *)
Processed(p, w) == agent[p].theirs <= Head(net[p]).val =>
                     w.agent.theirs = Head(net[p]).val

(* The listener, for a connection request ...                              *)
LEMMA ReceivedRequest ==
  ASSUME TypeOK, NEW p \in Peers, NEW c,
         \A w \in EnsureAgent(p) : Legitimate(w, c),
         ReceiveConnectionRequest(p)
  PROVE  /\ Receives(p, "ConnectionRequest")
         /\ \E w : /\ Legitimate(w, c) /\ Processed(p, w)
                  /\ Finish(p, w, Tail(net[p]))
  <1>1. PICK w \in EnsureAgent(p) :
          Finish(p, HandleRequest(p, w, Head(net[p]).val), Tail(net[p]))
    BY DEF ReceiveConnectionRequest
  <1>2. Receives(p, "ConnectionRequest") /\ Head(net[p]).val \in Nat
    BY ChannelTail DEF ReceiveConnectionRequest, Receives
  <1>3. /\ Legitimate(w, c) /\ w.agent.theirs <= agent[p].theirs
        /\ w.agent.theirs \in Nat /\ agent[p].theirs \in Nat
    BY EnsureLegitimate DEF TypeOK, Legitimate, Works, Agents
  <1> DEFINE v == HandleRequest(p, w, Head(net[p]).val)
  <1>4. Legitimate(v, c) /\ Processed(p, v)
    BY <1>2, <1>3, HandleRequestLegitimate DEF Processed
  <1>5. Finish(p, v, Tail(net[p]))
    BY <1>1
  <1> HIDE DEF v
  <1> QED
    BY <1>2, <1>4, <1>5

(* ... and for any other message.                                          *)
LEMMA ReceivedRest ==
  ASSUME TypeOK, NEW p \in Peers, NEW c,
         \A w \in EnsureAgent(p) : Legitimate(w, c),
         \/ ReceiveLocalDescription(p) \/ ReceiveCandidate(p) \/ ReceiveDone(p)
  PROVE  /\ net[p] # <<>>
         /\ \E w : /\ Legitimate(w, c) /\ w.agent.theirs <= agent[p].theirs
                  /\ Finish(p, w, Tail(net[p]))
  <1>1. net[p] # <<>> /\ Head(net[p]).val \in Nat
    BY ChannelTail DEF ReceiveLocalDescription, ReceiveCandidate, ReceiveDone,
                       Receives
  <1> DEFINE v == Head(net[p]).val
             Good(w) == Legitimate(w, c) /\ w.agent.theirs <= agent[p].theirs
  <1>2. ASSUME NEW w \in EnsureAgent(p)
        PROVE  /\ Good(HandleDescription(w, v)) /\ Good(HandleCandidate(w, v))
               /\ Good(HandleDone(w))
    BY <1>1, EnsureLegitimate, HandleDescriptionLegitimate,
       HandleRestLegitimate
  <1>3. \E w \in EnsureAgent(p) :
          \/ Finish(p, HandleDescription(w, v), Tail(net[p]))
          \/ Finish(p, HandleCandidate(w, v), Tail(net[p]))
          \/ Finish(p, HandleDone(w), Tail(net[p]))
    BY DEF ReceiveLocalDescription, ReceiveCandidate, ReceiveDone
  <1> HIDE DEF Good
  <1>4. \E w : Good(w) /\ Finish(p, w, Tail(net[p]))
    BY <1>2, <1>3
  <1> QED
    BY <1>1, <1>4 DEF Good

-----------------------------------------------------------------------------
(* The steps that are not entry points of ours leave both counters alone,  *)
(* or forget the one processed, and add no request to a channel.           *)
OtherStep(p) ==
    \/ Lose(p) \/ Retire(p) \/ Juice(p) \/ Fails(p)

(* libjuice, the faults and the retirement send no request.                *)
LEMMA OtherStepEffect ==
  ASSUME TypeOK, NEW p \in Peers, OtherStep(p)
  PROVE  /\ agent' \in [Peers -> Agents]
         /\ net' \in [Peers -> Seq(Messages)]
         /\ polled' = polled
         /\ \A q \in Peers : /\ agent'[q].ours = agent[q].ours
                             /\ agent'[q].theirs \in {agent[q].theirs, 0}
         /\ CountersInOrder =>
              \A q \in Peers :
                InOrder(net'[q], agent[q].theirs, agent[Other(q)].ours)
  <1> DEFINE q == Other(p)
  <1>1. q \in Peers /\ q # p /\ Other(q) = p /\ \A r \in Peers : r = p \/ r = q
    BY PeerTypes
  <1> HIDE DEF q
  <1>2. /\ agent[p] \in Agents /\ agent[p].ours \in Nat /\ agent[p].gen \in Nat
        /\ agent[p].theirs \in Nat
        /\ agent[q] \in Agents /\ agent[q].theirs \in Nat
        /\ net[p] \in Seq(Messages) /\ net[q] \in Seq(Messages)
    BY <1>1 DEF TypeOK, Agents
  <1>3. ASSUME CountersInOrder
        PROVE  /\ InOrder(net[p], agent[p].theirs, agent[q].ours)
               /\ InOrder(net[q], agent[q].theirs, agent[p].ours)
               /\ agent[q].theirs <= agent[p].ours
    BY <1>1, <1>3 DEF CountersInOrder, q
  <1>4. CASE Lose(p)
    <2>1. /\ net' = [net EXCEPT ![p] = Tail(net[p])] /\ net[p] # <<>>
          /\ agent' = agent /\ polled' = polled
      BY <1>4 DEF Lose
    <2>2. /\ Tail(net[p]) \in Seq(Messages)
          /\ CountersInOrder =>
               InOrder(Tail(net[p]), agent[p].theirs, agent[q].ours)
      BY <2>1, ChannelTail DEF q
    <2>3. net'[p] = Tail(net[p]) /\ net'[q] = net[q]
      BY <1>1, <2>1 DEF TypeOK
    <2>4. net' \in [Peers -> Seq(Messages)]
      BY <2>1, <2>2 DEF TypeOK
    <2> QED
      BY <1>1, <1>3, <2>1, <2>2, <2>3, <2>4 DEF TypeOK, q
  <1>5. CASE Retire(p)
    <2> DEFINE b == Blank(agent[p].ours, agent[p].gen)
    <2>1. b \in Agents /\ b.ours = agent[p].ours /\ b.theirs = 0
      BY <1>2, BlankType
    <2>2. agent' = [agent EXCEPT ![p] = b] /\ net' = net /\ polled' = polled
      BY <1>5 DEF Retire
    <2> HIDE DEF b
    <2>3. agent' \in [Peers -> Agents] /\ agent'[p] = b /\ agent'[q] = agent[q]
      BY <1>1, <2>1, <2>2 DEF TypeOK
    <2> QED
      BY <1>1, <1>3, <2>1, <2>2, <2>3 DEF TypeOK, q
  <1>6. ASSUME NEW state \in States, JuiceSets(p, state)
        PROVE  /\ agent' \in [Peers -> Agents] /\ net' = net /\ polled' = polled
               /\ \A r \in Peers : /\ agent'[r].ours = agent[r].ours
                                   /\ agent'[r].theirs = agent[r].theirs
    <2> DEFINE a == [agent[p] EXCEPT !.state = state]
    <2>1. /\ a \in Agents /\ a.ours = agent[p].ours
          /\ a.theirs = agent[p].theirs
      BY <1>2 DEF Agents
    <2>2. agent' = [agent EXCEPT ![p] = a] /\ net' = net /\ polled' = polled
      BY <1>6 DEF JuiceSets
    <2> HIDE DEF a
    <2> QED
      BY <1>1, <2>1, <2>2 DEF TypeOK
  <1>7. CASE Connects(p) \/ Succeeds(p) \/ Completes(p) \/ TimesOut(p) \/ Fails(p)
    <2>1. PICK state \in States : JuiceSets(p, state)
      BY <1>7 DEF Connects, Succeeds, Completes, TimesOut, Fails, States
    <2> QED
      BY <1>1, <1>3, <1>6, <2>1 DEF TypeOK, q
  <1>8. ASSUME NEW m \in Messages, m.type # "ConnectionRequest",
               NEW g \in {"candidates", "all"},
               agent' = [agent EXCEPT ![p].gathered = g],
               net' = [net EXCEPT ![Other(p)] = Append(@, m)], polled' = polled
        PROVE  /\ agent' \in [Peers -> Agents]
               /\ net' \in [Peers -> Seq(Messages)]
               /\ \A r \in Peers : /\ agent'[r].ours = agent[r].ours
                                   /\ agent'[r].theirs = agent[r].theirs
               /\ CountersInOrder =>
                    \A r \in Peers :
                      InOrder(net'[r], agent[r].theirs, agent[Other(r)].ours)
    <2> DEFINE a == [agent[p] EXCEPT !.gathered = g]
               s == Append(net[q], m)
    <2>1. /\ a \in Agents /\ a.ours = agent[p].ours
          /\ a.theirs = agent[p].theirs
      BY <1>2 DEF Agents
    <2>2. agent' = [agent EXCEPT ![p] = a] /\ net' = [net EXCEPT ![q] = s]
      BY <1>8 DEF q
    <2>3. /\ s \in Seq(Messages)
          /\ CountersInOrder => InOrder(s, agent[q].theirs, agent[p].ours)
      BY <1>2, <1>3, <1>8, InOrderAppend, AppendProperties
    <2> HIDE DEF a, s
    <2>4. net'[q] = s /\ net'[p] = net[p] /\ net' \in [Peers -> Seq(Messages)]
      BY <1>1, <2>2, <2>3 DEF TypeOK
    <2>5. /\ agent' \in [Peers -> Agents]
          /\ \A r \in Peers : /\ agent'[r].ours = agent[r].ours
                              /\ agent'[r].theirs = agent[r].theirs
      BY <1>1, <2>1, <2>2 DEF TypeOK
    <2> QED
      BY <1>1, <1>3, <2>3, <2>4, <2>5 DEF q
  <1>9. CASE GathersCandidates(p)
    BY <1>2, <1>8, <1>9, MessageTypes DEF GathersCandidates
  <1>10. CASE GathersAll(p)
    BY <1>2, <1>8, <1>10, MessageTypes DEF GathersAll
  <1> QED
    BY <1>4, <1>5, <1>7, <1>9, <1>10 DEF OtherStep, Juice

(* What is left of the state has its type.                                 *)
LEMMA FaultsTyped ==
  ASSUME TypeOK, NEW p \in Peers,
         \/ Deliver(p) \/ Poll(p) \/ PollReads(p) \/ PollSends(p)
         \/ SendGamePacket(p) \/ OtherStep(p)
  PROVE  spent' \in [Faults -> Nat] /\ polled' \in [Peers -> BOOLEAN]
  <1>1. ASSUME NEW f \in Faults, Spend(f)
        PROVE  spent' \in [Faults -> Nat]
    BY <1>1 DEF Spend, TypeOK
  <1>2. spent' \in [Faults -> Nat]
    BY <1>1 DEF TypeOK, Faults, Deliver, ReceiveConnectionRequest,
       ReceiveLocalDescription, ReceiveCandidate, ReceiveDone, Poll, PollReads,
       PollSends, SendGamePacket, OtherStep, Lose, Retire, Fails, Juice,
       GathersCandidates, GathersAll, Connects, Succeeds, Completes, TimesOut
  <1>3. polled' \in [Peers -> BOOLEAN]
    BY OtherStepEffect DEF TypeOK, Deliver, ReceiveConnectionRequest,
       ReceiveLocalDescription, ReceiveCandidate, ReceiveDone, Poll, PollReads,
       PollSends, SendGamePacket
  <1> QED
    BY <1>2, <1>3

-----------------------------------------------------------------------------
(* The type invariant, for every clock.                                    *)
THEOREM TypeCorrect == Spec => []TypeOK
  <1>1. Init => TypeOK
    <2> SUFFICES ASSUME Init PROVE TypeOK
      OBVIOUS
    <2>1. Blank(ClockStart, 0) \in Agents
      BY ClockAssumption, BlankType
    <2>2. <<>> \in Seq(Messages)
      OBVIOUS
    <2> QED
      BY <2>1, <2>2 DEF Init, TypeOK
  <1>2. TypeOK /\ [Next]_vars => TypeOK'
    <2> SUFFICES ASSUME TypeOK, [Next]_vars PROVE TypeOK'
      OBVIOUS
    <2>1. CASE UNCHANGED vars
      BY <2>1 DEF vars, TypeOK
    <2>2. ASSUME NEW p \in Peers,
                 \/ Deliver(p) \/ Poll(p) \/ PollReads(p) \/ PollSends(p)
                 \/ SendGamePacket(p) \/ OtherStep(p)
          PROVE  TypeOK'
      <3>1. \A w \in EnsureAgent(p) : Legitimate(w, 0)
        BY EnsureLegitimate
      <3>2. \A w : Legitimate(w, 0) => w \in Works
        BY DEF Legitimate
      <3>3. net[p] \in Seq(Messages)
        BY DEF TypeOK
      <3>4. spent' \in [Faults -> Nat] /\ polled' \in [Peers -> BOOLEAN]
        BY <2>2, FaultsTyped
      <3>5. CASE Poll(p) \/ PollReads(p) \/ PollSends(p) \/ SendGamePacket(p)
        <4>1. PICK w : Legitimate(w, 0) /\ Finish(p, w, net[p])
          BY <3>1, <3>5, StormsCalls
        <4> QED
          BY <3>2, <3>3, <3>4, <4>1, FinishTyped DEF TypeOK
      <3>6. CASE ReceiveConnectionRequest(p)
        <4>1. PICK w : Legitimate(w, 0) /\ Finish(p, w, Tail(net[p]))
          BY <3>1, <3>6, ReceivedRequest
        <4>2. Tail(net[p]) \in Seq(Messages)
          BY <3>6, ChannelTail DEF ReceiveConnectionRequest, Receives
        <4> QED
          BY <3>2, <3>4, <4>1, <4>2, FinishTyped DEF TypeOK
      <3>7. CASE \/ ReceiveLocalDescription(p) \/ ReceiveCandidate(p)
                 \/ ReceiveDone(p)
        <4>1. PICK w : Legitimate(w, 0) /\ Finish(p, w, Tail(net[p]))
          BY <3>1, <3>7, ReceivedRest
        <4>2. Tail(net[p]) \in Seq(Messages)
          BY <3>1, <3>7, ReceivedRest, ChannelTail
        <4> QED
          BY <3>2, <3>4, <4>1, <4>2, FinishTyped DEF TypeOK
      <3>8. CASE OtherStep(p)
        BY <3>4, <3>8, OtherStepEffect DEF TypeOK
      <3> QED
        BY <2>2, <3>5, <3>6, <3>7, <3>8 DEF Deliver
    <2>3. CASE Next
      BY <2>2, <2>3 DEF Next, OtherStep
    <2> QED
      BY <2>1, <2>3
  <1> QED
    BY <1>1, <1>2, PTL DEF Spec

(* With a clock that does not lag behind the counters, the counters order  *)
(* the attempts whatever is lost, fails, retires or is preempted.          *)
THEOREM CountersOrdered ==
  ASSUME ClockGain \subseteq Nat
  PROVE  Spec => []CountersInOrder
  <1>1. Init => CountersInOrder
    <2> SUFFICES ASSUME Init PROVE CountersInOrder
      OBVIOUS
    <2>1. \A p \in Peers : /\ agent[p].theirs = 0 /\ agent[p].ours = ClockStart
                          /\ net[p] = <<>>
      BY ClockAssumption, BlankType DEF Init
    <2>2. \A p \in Peers : InOrder(net[p], agent[p].theirs, agent[Other(p)].ours)
      BY <2>1, InOrderEmpty
    <2> QED
      BY <2>1, <2>2, PeerTypes, ClockAssumption DEF CountersInOrder
  <1>2. TypeOK /\ CountersInOrder /\ [Next]_vars => CountersInOrder'
    <2> SUFFICES ASSUME TypeOK, CountersInOrder, [Next]_vars
                 PROVE  CountersInOrder'
      OBVIOUS
    <2>1. CASE UNCHANGED vars
      BY <2>1 DEF vars, CountersInOrder
    <2>2. ASSUME NEW p \in Peers,
                 \/ Deliver(p) \/ Poll(p) \/ PollReads(p) \/ PollSends(p)
                 \/ SendGamePacket(p) \/ OtherStep(p)
          PROVE  CountersInOrder'
      <3>1. \A w \in EnsureAgent(p) : Legitimate(w, agent[p].ours)
        BY EnsureLegitimate
      <3>2. /\ net[p] \in Seq(Messages)
            /\ InOrder(net[p], agent[p].theirs, agent[Other(p)].ours)
        BY DEF TypeOK, CountersInOrder
      <3>3. CASE Poll(p) \/ PollReads(p) \/ PollSends(p) \/ SendGamePacket(p)
        <4>1. PICK w : /\ Legitimate(w, agent[p].ours)
                       /\ w.agent.theirs <= agent[p].theirs
                       /\ Finish(p, w, net[p])
          BY <3>1, <3>3, StormsCalls
        <4> QED
          BY <3>2, <4>1, FinishKeepsOrder
      <3>4. CASE ReceiveConnectionRequest(p)
        <4>1. /\ Tail(net[p]) \in Seq(Messages)
              /\ agent[p].theirs <= Head(net[p]).val
              /\ Head(net[p]).val <= agent[Other(p)].ours
              /\ InOrder(Tail(net[p]), Head(net[p]).val, agent[Other(p)].ours)
          BY <3>4, ChannelTail DEF ReceiveConnectionRequest, Receives
        <4>2. PICK w : /\ Legitimate(w, agent[p].ours) /\ Processed(p, w)
                       /\ Finish(p, w, Tail(net[p]))
          BY <3>1, <3>4, ReceivedRequest
        <4>3. w.agent.theirs = Head(net[p]).val
          BY <4>1, <4>2 DEF Processed
        <4> QED
          BY <4>1, <4>2, <4>3, FinishInOrder
      <3>5. CASE \/ ReceiveLocalDescription(p) \/ ReceiveCandidate(p)
                 \/ ReceiveDone(p)
        <4>1. PICK w : /\ Legitimate(w, agent[p].ours)
                       /\ w.agent.theirs <= agent[p].theirs
                       /\ Finish(p, w, Tail(net[p]))
          BY <3>1, <3>5, ReceivedRest
        <4>2. /\ Tail(net[p]) \in Seq(Messages)
              /\ InOrder(Tail(net[p]), agent[p].theirs, agent[Other(p)].ours)
          BY <3>1, <3>5, ReceivedRest, ChannelTail
        <4> QED
          BY <4>1, <4>2, FinishKeepsOrder
      <3>6. CASE OtherStep(p)
        <4> SUFFICES ASSUME NEW q \in Peers
                     PROVE  /\ agent'[q].theirs <= agent'[Other(q)].ours
                            /\ InOrder(net'[q], agent'[q].theirs,
                                       agent'[Other(q)].ours)
          BY DEF CountersInOrder
        <4>1. /\ agent'[Other(q)].ours = agent[Other(q)].ours
              /\ agent'[q].theirs \in {agent[q].theirs, 0}
              /\ InOrder(net'[q], agent[q].theirs, agent[Other(q)].ours)
              /\ net'[q] \in Seq(Messages)
          BY <3>6, OtherStepEffect, PeerTypes
        <4>2. /\ agent[q].theirs \in Nat /\ agent[Other(q)].ours \in Nat
              /\ agent[q].theirs <= agent[Other(q)].ours
          BY PeerTypes DEF TypeOK, Agents, CountersInOrder
        <4>3. /\ agent'[q].theirs \in Nat
              /\ agent'[q].theirs <= agent[q].theirs
              /\ agent[Other(q)].ours <= agent'[Other(q)].ours
              /\ agent'[q].theirs <= agent'[Other(q)].ours
          BY <4>1, <4>2
        <4> QED
          BY <4>1, <4>2, <4>3, InOrderWiden
      <3> QED
        BY <2>2, <3>3, <3>4, <3>5, <3>6 DEF Deliver
    <2>3. CASE Next
      BY <2>2, <2>3 DEF Next, OtherStep
    <2> QED
      BY <2>1, <2>3
  <1> QED
    BY <1>1, <1>2, TypeCorrect, PTL DEF Spec
===============================================================================
