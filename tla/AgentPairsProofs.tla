--------------------------- MODULE AgentPairsProofs ---------------------------
(***************************************************************************)
(* Theorems about AgentPairs, for any peers and bounds: its types, and     *)
(* that the thread of custom packets never sleeps through a wake-up.       *)
(***************************************************************************)
EXTENDS AgentPairs, TLAPS

(* A call that has begun is about a peer whose pair exists, because        *)
(* ensure_agent came first, and a packet under way is one.                 *)
CallKnown == call.at \notin {"none", "clear"} => call.peer \in Peers /\ Known(call.peer)

PacketKnown ==
    /\ callback.at # "idle" => callback.packet \in Packets
    /\ worker \in {"lock", "send"} => packet \in Packets

Inv == TypeOK /\ CallKnown /\ PacketKnown

(* The initial state has the types.                                        *)
LEMMA InitTypes == Init => Inv
<1> SUFFICES ASSUME Init PROVE Inv
    OBVIOUS
<1>1. PairsTyped
  <2>1. link \in [Peers -> [Types -> Links]]
      BY DEF Init, Links
  <2>2. \A p \in Peers : link[p]["relay"] = "none"
      BY DEF Init, Types
  <2>3. 0 \in 0..PingEvery-1
      BY PairsAssumption DEF PairsAssumption
  <2> QED BY <2>1, <2>2, <2>3 DEF Init, PairsTyped
<1>2. call \in Calls
    BY DEF Init, NoCall, Calls
<1>3. QueueTyped
  <2>1. queue \in Seq(Packets) /\ Len(queue) <= MaxBacklog
      BY PairsAssumption DEF Init, PairsAssumption
  <2> QED BY <2>1 DEF Init, QueueTyped, Quiet
<1>4. CallKnown /\ PacketKnown
    BY DEF Init, CallKnown, PacketKnown, NoCall, Quiet
<1> QED BY <1>1, <1>2, <1>3, <1>4 DEF Inv, TypeOK

-----------------------------------------------------------------------------
(* A step of the callers leaves the queue alone: what is left to show.     *)
LEMMA CallerFrame ==
    ASSUME Inv, Rest, PairsTyped', call' \in Calls, CallKnown'
    PROVE  Inv'
BY DEF Rest, thread, Inv, TypeOK, QueueTyped, PacketKnown

(* One agent of a pair that exists may change, to anything but nothing.    *)
LEMMA OneLink ==
    ASSUME PairsTyped, NEW p \in Peers, NEW t \in Types, NEW s \in Links \ {"none"},
           Known(p),
           link' = [link EXCEPT ![p][t] = s],
           active' \subseteq Peers, count' \in [Peers -> 0..PingEvery-1]
    PROVE  PairsTyped' /\ \A q \in Peers : Known(q) => link'[q]["p2p"] # "none"
<1>1. link' \in [Peers -> [Types -> Links]]
    BY DEF PairsTyped
<1>2. ASSUME NEW q \in Peers PROVE /\ ~Known(q)' => (link[q]["relay"] = "none")'
                                   /\ Known(q) => Known(q)'
  <2>1. CASE q # p
      BY <2>1 DEF PairsTyped, Known
  <2>2. CASE q = p
    <3>1. link'[p] = [link[p] EXCEPT ![t] = s]
        BY DEF PairsTyped
    <3>2. link'[p]["p2p"] # "none"
        BY <3>1 DEF PairsTyped, Known, Types
    <3> QED BY <2>2, <3>2 DEF Known
  <2> QED BY <2>1, <2>2
<1> QED BY <1>1, <1>2 DEF PairsTyped, Known

(* ensure_agent leaves the map well-formed, with the peer's pair in it.    *)
LEMMA Ensured ==
    ASSUME PairsTyped, NEW p \in Peers, EnsureAgent(p), count' \in [Peers -> 0..PingEvery-1]
    PROVE  PairsTyped' /\ Known(p)'
<1>1. CASE Known(p)
    BY <1>1 DEF EnsureAgent, PairsTyped, Known
<1>2. CASE ~Known(p)
  <2>1. link' = [link EXCEPT ![p] = [t \in Types |-> "down"]] /\ active' = active \cup {p}
      BY <1>2 DEF EnsureAgent
  <2>2. link' \in [Peers -> [Types -> Links]]
      BY <2>1 DEF PairsTyped, Links
  <2>3. link'[p]["p2p"] = "down"
      BY <2>1 DEF PairsTyped, Types
  <2> QED BY <2>1, <2>2, <2>3 DEF PairsTyped, Known
<1> QED BY <1>1, <1>2

(* The first steps of the calls, and a pair that has fallen idle.          *)
LEMMA BeginTypes ==
    ASSUME Inv, NEW p \in Peers,
           Ask(p) \/ SendP2p(p) \/ HandleCrownlinkMessage(p) \/ FallIdle(p)
    PROVE  Inv'
<1> USE PairsAssumption DEF PairsAssumption
<1>0. PairsTyped /\ call \in Calls /\ count \in [Peers -> 0..PingEvery-1]
    BY DEF Inv, TypeOK, PairsTyped
<1>1. CASE Ask(p)
  <2>1. EnsureAgent(p) /\ count' \in [Peers -> 0..PingEvery-1] /\ call' = call /\ call = NoCall
      BY <1>0, <1>1 DEF Ask, CanCall, MutexFree
  <2>2. CallKnown'
      BY <2>1 DEF CallKnown, NoCall
  <2>3. Rest
      BY <1>1 DEF Ask
  <2> QED BY <1>0, <2>1, <2>2, <2>3, Ensured, CallerFrame
<1>2. CASE SendP2p(p)
  <2>1. PICK n \in 0..PingEvery-1 : count' = [count EXCEPT ![p] = n]
    <3> DEFINE m == (IF Known(p) THEN count[p] + 1 ELSE 1) % PingEvery
    <3>1. count[p] \in Nat
        BY <1>0
    <3>2. m \in 0..PingEvery-1
        BY <3>1
    <3> QED BY <1>2, <3>2 DEF SendP2p
  <2>2. count' \in [Peers -> 0..PingEvery-1]
      BY <1>0, <2>1
  <2>3. EnsureAgent(p) /\ \E at \in {"pings", "choose"} : call' = [NoCall EXCEPT !.at = at, !.peer = p]
      BY <1>2 DEF SendP2p, Begin
  <2>4. call' \in Calls /\ call'.peer = p
      BY <2>3 DEF NoCall, Calls
  <2>5. PairsTyped' /\ Known(p)'
      BY <1>0, <2>2, <2>3, Ensured
  <2>6. CallKnown'
      BY <2>4, <2>5 DEF CallKnown, Known
  <2>7. Rest
      BY <1>2 DEF SendP2p
  <2> QED BY <2>4, <2>5, <2>6, <2>7, CallerFrame
<1>3. CASE HandleCrownlinkMessage(p)
  <2>1. EnsureAgent(p) /\ count' \in [Peers -> 0..PingEvery-1] /\ Rest
    <3>1. EnsureAgent(p) /\ Rest
        BY <1>3 DEF HandleCrownlinkMessage, Begin
    <3>2. count' = IF Known(p) THEN count ELSE [count EXCEPT ![p] = 0]
        BY <1>3 DEF HandleCrownlinkMessage
    <3>3. 0 \in 0..PingEvery-1
        OBVIOUS
    <3> QED BY <1>0, <3>1, <3>2, <3>3
  <2>2. call' \in Calls /\ call'.peer = p
    <3>1. ASSUME NEW t \in Types, call' = [NoCall EXCEPT !.at = "handle", !.peer = p, !.to = {t}]
          PROVE  call' \in Calls /\ call'.peer = p
        BY <3>1 DEF NoCall, Calls
    <3>2. ASSUME Begin(p, IF Legacy(p) THEN "handle" ELSE "legacy")
          PROVE  call' \in Calls /\ call'.peer = p
      <4>1. \E at \in {"handle", "legacy"} : call' = [NoCall EXCEPT !.at = at, !.peer = p]
          BY <3>2 DEF Begin
      <4> QED BY <4>1 DEF NoCall, Calls
    <3> QED BY <1>3, <3>1, <3>2 DEF HandleCrownlinkMessage
  <2>3. PairsTyped' /\ Known(p)'
      BY <1>0, <2>1, Ensured
  <2>4. CallKnown'
      BY <2>2, <2>3 DEF CallKnown, Known
  <2> QED BY <2>1, <2>2, <2>3, <2>4, CallerFrame
<1>4. CASE FallIdle(p)
  <2>1. active' \subseteq Peers /\ UNCHANGED <<link, count, call>> /\ Rest
      BY <1>0, <1>4 DEF FallIdle, PairsTyped
  <2>2. PairsTyped' /\ CallKnown'
      BY <1>0, <2>1 DEF PairsTyped, CallKnown, Known, Inv
  <2> QED BY <1>0, <2>1, <2>2, CallerFrame
<1> QED BY <1>1, <1>2, <1>3, <1>4

(* The later steps of send_p2p.                                            *)
LEMMA SendTypes ==
    ASSUME Inv, SendPings \/ Choose \/ Send \/ Return
    PROVE  Inv'
<1>0. PairsTyped /\ call \in Calls /\ CallKnown
    BY DEF Inv, TypeOK
<1>1. CASE SendPings
  <2>1. call.peer \in Peers /\ UNCHANGED <<link, count>> /\ Rest
      BY <1>0, <1>1 DEF SendPings, CallKnown
  <2>2. active' \subseteq Peers
      BY <1>0, <1>1, <2>1 DEF SendPings, PairsTyped
  <2>3. call' \in Calls /\ call'.peer = call.peer
      BY <1>0, <1>1 DEF SendPings, Calls
  <2>4. call.at = "pings"
      BY <1>1 DEF SendPings
  <2>5. PairsTyped' /\ CallKnown'
      BY <1>0, <2>1, <2>2, <2>3, <2>4 DEF PairsTyped, CallKnown, Known
  <2> QED BY <2>1, <2>3, <2>5, CallerFrame
<1>2. CASE Choose
  <2>1. /\ \E at \in {"best", "redundant"}, to \in SUBSET Types :
              call' = [call EXCEPT !.at = at, !.to = to]
        /\ call.at = "choose" /\ UNCHANGED pairs /\ Rest
    <3>1. ASSUME NEW t \in Best(call.peer) PROVE {t} \in SUBSET Types
        BY DEF Best, Types
    <3>2. {t \in {"p2p"} : link[call.peer][t] = "up"} \in SUBSET Types
        BY DEF Types
    <3> QED BY <1>2, <3>1, <3>2 DEF Choose
  <2>2. call' \in Calls /\ call'.peer = call.peer
      BY <1>0, <2>1 DEF Calls
  <2>3. PairsTyped' /\ CallKnown'
      BY <1>0, <2>1, <2>2 DEF pairs, PairsTyped, CallKnown, Known
  <2> QED BY <2>1, <2>2, <2>3, CallerFrame
<1>3. CASE Send
  <2>1. PICK t \in call.to :
           /\ call' = [call EXCEPT !.to = @ \ {t}, !.sent = @ \/ link[call.peer][t] = "up"]
           /\ \/ UNCHANGED <<link, active>>
              \/ /\ active' = active \cup {call.peer}
                 /\ link' = [link EXCEPT ![call.peer][t] =
                               IF link[call.peer][t] = "failed" THEN "down" ELSE @]
      BY <1>3 DEF Send, SendMessage
  <2>2. /\ call.at \in {"best", "redundant"} /\ call.peer \in Peers /\ Known(call.peer)
        /\ t \in Types /\ UNCHANGED count /\ Rest
      BY <1>0, <1>3, <2>1 DEF Send, CallKnown, Calls
  <2>3. call' \in Calls /\ call'.peer = call.peer
    <3>1. (call.sent \/ link[call.peer][t] = "up") \in BOOLEAN
        OBVIOUS
    <3>2. call.to \ {t} \in SUBSET Types
        BY <1>0 DEF Calls
    <3>3. \E s \in BOOLEAN, to \in SUBSET Types : call' = [call EXCEPT !.to = to, !.sent = s]
        BY <2>1, <3>1, <3>2
    <3> QED BY <1>0, <3>3 DEF Calls
  <2>4. PairsTyped' /\ link'[call.peer]["p2p"] # "none"
    <3>1. CASE UNCHANGED <<link, active>>
        BY <1>0, <2>2, <3>1 DEF PairsTyped, Known
    <3>2. CASE /\ active' = active \cup {call.peer}
               /\ link' = [link EXCEPT ![call.peer][t] =
                             IF link[call.peer][t] = "failed" THEN "down" ELSE @]
      <4>1. CASE link[call.peer][t] = "failed"
        <5>1. link' = [link EXCEPT ![call.peer][t] = "down"]
            BY <3>2, <4>1
        <5>2. active' \subseteq Peers /\ count' \in [Peers -> 0..PingEvery-1]
            BY <1>0, <2>2, <3>2 DEF PairsTyped
        <5>3. "down" \in Links \ {"none"}
            BY DEF Links
        <5> QED BY <1>0, <2>2, <5>1, <5>2, <5>3, OneLink
      <4>2. CASE link[call.peer][t] # "failed"
        <5>1. link' = link
            BY <1>0, <2>2, <3>2, <4>2 DEF PairsTyped
        <5> QED BY <1>0, <2>2, <3>2, <5>1 DEF PairsTyped, Known
      <4> QED BY <4>1, <4>2
    <3> QED BY <2>1, <3>1, <3>2
  <2>5. CallKnown'
      BY <2>2, <2>3, <2>4 DEF CallKnown, Known
  <2> QED BY <2>2, <2>3, <2>4, <2>5, CallerFrame
<1>4. CASE Return
  <2>1. call' = NoCall /\ UNCHANGED pairs /\ Rest
      BY <1>4 DEF Return
  <2>2. PairsTyped' /\ call' \in Calls /\ CallKnown'
      BY <1>0, <2>1 DEF pairs, PairsTyped, Known, NoCall, Calls, CallKnown
  <2> QED BY <2>1, <2>2, CallerFrame
<1> QED BY <1>1, <1>2, <1>3, <1>4

(* The handling of a message, the retirement, and the callbacks that       *)
(* change a link.                                                          *)
LEMMA LinkTypes ==
    ASSUME Inv,
           \/ HandleByAgent \/ SetAgentType \/ DropRelay \/ BeginClear \/ ClearInactiveAgents
           \/ \E p \in Peers, t \in Types : LinkChanges(p, t)
    PROVE  Inv'
<1>0. PairsTyped /\ call \in Calls /\ CallKnown
    BY DEF Inv, TypeOK
<1>1. NoCall \in Calls
    BY DEF NoCall, Calls
<1>2. ASSUME call' = NoCall PROVE CallKnown'
    BY <1>2 DEF CallKnown, NoCall
<1>3. "down" \in Links \ {"none"} /\ "p2p" \in Types /\ "relay" \in Types
    BY DEF Links, Types
<1>4. CASE HandleByAgent
  <2>1. /\ call' = NoCall /\ call.peer \in Peers /\ Known(call.peer)
        /\ UNCHANGED <<active, count>> /\ Rest
      BY <1>0, <1>4 DEF HandleByAgent, CallKnown
  <2>2. \/ UNCHANGED link
        \/ link' = [link EXCEPT ![call.peer]["p2p"] = "down"]
        \/ /\ link' = [link EXCEPT ![call.peer]["relay"] = "down"]
           /\ link[call.peer]["relay"] # "none"
      BY <1>4 DEF HandleByAgent
  <2>3. active' \subseteq Peers /\ count' \in [Peers -> 0..PingEvery-1]
      BY <1>0, <2>1 DEF PairsTyped
  <2>4. PairsTyped'
    <3>1. CASE UNCHANGED link
        BY <1>0, <2>3, <3>1 DEF PairsTyped, Known
    <3>2. CASE link' = [link EXCEPT ![call.peer]["p2p"] = "down"]
        BY <1>0, <1>3, <2>1, <2>3, <3>2, OneLink
    <3>3. CASE link' = [link EXCEPT ![call.peer]["relay"] = "down"]
        BY <1>0, <1>3, <2>1, <2>3, <3>3, OneLink
    <3> QED BY <2>2, <3>1, <3>2, <3>3
  <2> QED BY <1>1, <1>2, <2>1, <2>4, CallerFrame
<1>5. CASE SetAgentType
  <2>1. /\ call.at = "legacy" /\ link' = [link EXCEPT ![call.peer]["p2p"] = "down"]
        /\ call' = [call EXCEPT !.at = "dropRelay"] /\ UNCHANGED <<active, count>> /\ Rest
      BY <1>5 DEF SetAgentType
  <2>2. call.peer \in Peers /\ Known(call.peer)
      BY <1>0, <2>1 DEF CallKnown
  <2>3. active' \subseteq Peers /\ count' \in [Peers -> 0..PingEvery-1]
      BY <1>0, <2>1 DEF PairsTyped
  <2>4. PairsTyped' /\ link'[call.peer]["p2p"] # "none"
      BY <1>0, <1>3, <2>1, <2>2, <2>3, OneLink
  <2>5. call' \in Calls /\ call'.peer = call.peer
      BY <1>0, <2>1 DEF Calls
  <2>6. CallKnown'
      BY <2>2, <2>4, <2>5 DEF CallKnown, Known
  <2> QED BY <2>1, <2>4, <2>5, <2>6, CallerFrame
<1>6. CASE DropRelay
  <2>1. /\ call.at = "dropRelay" /\ link' = [link EXCEPT ![call.peer]["relay"] = "none"]
        /\ call' = [call EXCEPT !.at = "handle"] /\ UNCHANGED <<active, count>> /\ Rest
      BY <1>6 DEF DropRelay
  <2>2. call.peer \in Peers /\ Known(call.peer)
      BY <1>0, <2>1 DEF CallKnown
  <2>3. link' \in [Peers -> [Types -> Links]]
      BY <1>0, <2>1 DEF PairsTyped, Links
  <2>4. \A q \in Peers : q # call.peer => link'[q] = link[q]
      BY <1>0, <2>1 DEF PairsTyped
  <2>5. link'[call.peer] = [link[call.peer] EXCEPT !["relay"] = "none"]
      BY <1>0, <2>1, <2>2 DEF PairsTyped
  <2>6. link'[call.peer]["relay"] = "none" /\ link'[call.peer]["p2p"] = link[call.peer]["p2p"]
      BY <1>0, <1>3, <2>2, <2>5 DEF PairsTyped
  <2>7. PairsTyped' /\ link'[call.peer]["p2p"] # "none"
      BY <1>0, <2>1, <2>2, <2>3, <2>4, <2>6 DEF PairsTyped, Known
  <2>8. call' \in Calls /\ call'.peer = call.peer
      BY <1>0, <2>1 DEF Calls
  <2>9. CallKnown'
      BY <2>2, <2>7, <2>8 DEF CallKnown, Known
  <2> QED BY <2>1, <2>7, <2>8, <2>9, CallerFrame
<1>7. CASE BeginClear
  <2>1. call' = [NoCall EXCEPT !.at = "clear"] /\ UNCHANGED pairs /\ Rest
      BY <1>7 DEF BeginClear
  <2>2. call' \in Calls /\ CallKnown'
      BY <2>1 DEF NoCall, Calls, CallKnown
  <2>3. PairsTyped'
      BY <1>0, <2>1 DEF pairs, PairsTyped, Known
  <2> QED BY <2>1, <2>2, <2>3, CallerFrame
<1>8. CASE ClearInactiveAgents
  <2>1. /\ link' = [p \in Peers |-> IF p \in active THEN link[p] ELSE [t \in Types |-> "none"]]
        /\ call' = NoCall /\ UNCHANGED <<active, count>> /\ Rest
      BY <1>8 DEF ClearInactiveAgents
  <2>2. link' \in [Peers -> [Types -> Links]]
      BY <1>0, <2>1 DEF PairsTyped, Links
  <2>3. ASSUME NEW q \in Peers PROVE ~Known(q)' => link'[q]["relay"] = "none"
    <3>1. CASE q \in active
        BY <1>0, <2>1, <3>1 DEF PairsTyped, Known
    <3>2. CASE q \notin active
        BY <1>3, <2>1, <3>2
    <3> QED BY <3>1, <3>2
  <2>4. PairsTyped'
      BY <1>0, <2>1, <2>2, <2>3 DEF PairsTyped
  <2> QED BY <1>1, <1>2, <2>1, <2>4, CallerFrame
<1>9. ASSUME NEW p \in Peers, NEW t \in Types, LinkChanges(p, t) PROVE Inv'
  <2>1. PICK s \in Links \ {"none"} : link[p][t] # "none" /\ link' = [link EXCEPT ![p][t] = s]
      BY <1>9 DEF LinkChanges, Links
  <2>2. UNCHANGED <<active, count>> /\ Rest
      BY <1>9 DEF LinkChanges
  <2>3. Known(p)
      BY <1>0, <2>1 DEF PairsTyped, Known, Types
  <2>4. active' \subseteq Peers /\ count' \in [Peers -> 0..PingEvery-1]
      BY <1>0, <2>2 DEF PairsTyped
  <2>5. PairsTyped' /\ \A q \in Peers : Known(q) => link'[q]["p2p"] # "none"
      BY <1>0, <2>1, <2>3, <2>4, OneLink
  <2>6. call' \in Calls /\ call'.peer = call.peer /\ call'.at = call.at
      BY <1>0, <1>9 DEF LinkChanges, Calls
  <2>7. CallKnown'
      BY <1>0, <2>5, <2>6 DEF CallKnown, Known
  <2> QED BY <2>2, <2>5, <2>6, <2>7, CallerFrame
<1> QED BY <1>4, <1>5, <1>6, <1>7, <1>8, <1>9

(* A step of the other threads leaves the pairs alone, but for the use of  *)
(* one of them: what is left to show.                                      *)
LEMMA ThreadFrame ==
    ASSUME Inv, UNCHANGED <<link, count, call>>, active' \subseteq Peers, QueueTyped', PacketKnown'
    PROVE  Inv'
BY DEF Inv, TypeOK, PairsTyped, CallKnown, Known

(* The steps of libjuice's thread and of the thread of custom packets.     *)
LEMMA PacketTypes ==
    ASSUME Inv,
           \/ \E p \in Peers, t \in Types : ReceivePing(p, t)
           \/ QueueCustomPacket \/ SignalPacket
           \/ CheckStop \/ TryDequeue \/ WaitForPacket \/ TimeOut \/ LockMutex \/ SendCustomPacket
           \/ ClearRunning \/ SignalStop \/ RequestStop \/ Join
    PROVE  Inv'
<1> USE PairsAssumption DEF PairsAssumption
<1>0. QueueTyped /\ PacketKnown /\ active \subseteq Peers
    BY DEF Inv, TypeOK, PairsTyped
<1>1. ASSUME NEW p \in Peers, NEW t \in Types, ReceivePing(p, t) PROVE Inv'
  <2>1. UNCHANGED pairs /\ UNCHANGED call
      BY <1>1 DEF ReceivePing
  <2>2. [peer |-> p, type |-> t] \in Packets
      BY DEF Packets
  <2>3. QueueTyped' /\ PacketKnown'
      BY <1>0, <1>1, <2>2 DEF ReceivePing, thread, QueueTyped, PacketKnown
  <2> QED BY <1>0, <2>1, <2>3, ThreadFrame DEF pairs
<1>2. CASE QueueCustomPacket
  <2>1. callback.packet \in Packets /\ Len(queue) < MaxBacklog /\ queue \in Seq(Packets)
      BY <1>0, <1>2 DEF QueueCustomPacket, QueueTyped, PacketKnown
  <2>2. queue' \in Seq(Packets) /\ Len(queue') <= MaxBacklog
      BY <1>2, <2>1 DEF QueueCustomPacket
  <2>3. QueueTyped' /\ PacketKnown'
      BY <1>0, <1>2, <2>1, <2>2 DEF QueueCustomPacket, thread, QueueTyped, PacketKnown
  <2> QED BY <1>0, <1>2, <2>3, ThreadFrame DEF QueueCustomPacket, pairs
<1>3. CASE SignalPacket
  <2>1. QueueTyped' /\ PacketKnown'
      BY <1>0, <1>3 DEF SignalPacket, thread, QueueTyped, PacketKnown, Quiet
  <2> QED BY <1>0, <1>3, <2>1, ThreadFrame DEF SignalPacket, pairs
<1>4. CASE TryDequeue
  <2>1. queue' \in Seq(Packets) /\ Len(queue') <= Len(queue) /\ packet' \in Packets \cup {NoPacket}
    <3>1. CASE queue = <<>>
        BY <1>0, <1>4, <3>1 DEF TryDequeue, QueueTyped
    <3>2. CASE queue # <<>>
        BY <1>0, <1>4, <3>2 DEF TryDequeue, QueueTyped
    <3> QED BY <3>1, <3>2
  <2>2. worker' \in {"wait", "lock"} /\ (worker' = "lock" => packet' \in Packets)
    <3>1. CASE queue = <<>>
        BY <1>4, <3>1 DEF TryDequeue
    <3>2. CASE queue # <<>>
        BY <1>0, <1>4, <3>2 DEF TryDequeue, QueueTyped
    <3> QED BY <3>1, <3>2
  <2>3. UNCHANGED <<pairs, call, ready, callback, running, destroyer>>
      BY <1>4 DEF TryDequeue
  <2>4. Len(queue') \in Nat /\ Len(queue) \in Nat
      BY <1>0, <2>1 DEF QueueTyped
  <2>5. QueueTyped' /\ PacketKnown'
      BY <1>0, <2>1, <2>2, <2>3, <2>4 DEF QueueTyped, PacketKnown
  <2> QED BY <1>0, <2>3, <2>5, ThreadFrame DEF pairs
<1>5. CASE CheckStop \/ WaitForPacket \/ TimeOut \/ LockMutex
  <2>1. QueueTyped' /\ PacketKnown' /\ UNCHANGED pairs /\ UNCHANGED call
      BY <1>0, <1>5 DEF CheckStop, WaitForPacket, TimeOut, LockMutex, QueueTyped, PacketKnown
  <2> QED BY <1>0, <2>1, ThreadFrame DEF pairs
<1>6. CASE SendCustomPacket
  <2>1. packet.peer \in Peers
      BY <1>0, <1>6 DEF SendCustomPacket, PacketKnown, Packets
  <2>2. active' \subseteq Peers /\ UNCHANGED <<link, count, call>>
      BY <1>0, <1>6, <2>1 DEF SendCustomPacket, SendCustomMessage
  <2>3. QueueTyped' /\ PacketKnown'
      BY <1>0, <1>6 DEF SendCustomPacket, QueueTyped, PacketKnown
  <2> QED BY <2>2, <2>3, ThreadFrame
<1>7. CASE ClearRunning \/ SignalStop \/ RequestStop \/ Join
  <2>1. QueueTyped' /\ PacketKnown' /\ UNCHANGED pairs /\ UNCHANGED call
      BY <1>0, <1>7 DEF ClearRunning, SignalStop, RequestStop, Join, thread, QueueTyped, PacketKnown
  <2> QED BY <1>0, <2>1, ThreadFrame DEF pairs
<1> QED BY <1>1, <1>2, <1>3, <1>4, <1>5, <1>6, <1>7

LEMMA NextTypes == Inv /\ [Next]_vars => Inv'
<1> SUFFICES ASSUME Inv, [Next]_vars PROVE Inv'
    OBVIOUS
<1>1. CASE Next
    BY <1>1, BeginTypes, SendTypes, LinkTypes, PacketTypes DEF Next, Caller
<1>2. CASE UNCHANGED vars
  <2>1. QueueTyped' /\ PacketKnown'
      BY <1>2 DEF vars, thread, Inv, TypeOK, QueueTyped, PacketKnown
  <2>2. UNCHANGED <<link, count, call>> /\ active' \subseteq Peers
      BY <1>2 DEF vars, pairs, Inv, TypeOK, PairsTyped
  <2> QED BY <2>1, <2>2, ThreadFrame
<1> QED BY <1>1, <1>2

LEMMA AlwaysInv == Spec => []Inv
BY InitTypes, NextTypes, PTL DEF Spec

(* The variables keep their types, and a pair of agents always has its P2P *)
(* agent, which handle_crownlink_message dereferences without a check.     *)
THEOREM TypeCorrect == Spec => []TypeOK
<1>1. Inv => TypeOK
    BY DEF Inv
<1> QED BY <1>1, AlwaysInv, PTL

-----------------------------------------------------------------------------
(* What makes a wake-up safe.  The stop must be known already when the     *)
(* thread has looked for it and goes to the queue, not only when it waits. *)
WakeInv ==
    /\ worker \in {"take", "wait"} /\ ~ready => running \/ destroyer = "flagged"
    /\ worker = "wait" /\ ~ready => queue = <<>> \/ callback.at = "queued"

LEMMA NextWakes == Inv /\ WakeInv /\ [Next]_vars => WakeInv'
<1> SUFFICES ASSUME Inv, WakeInv, [Next]_vars PROVE WakeInv'
    OBVIOUS
<1> USE DEF WakeInv, pairs, thread, Rest
<1>1. ASSUME UNCHANGED <<queue, ready, thread, callback, running, destroyer>> PROVE WakeInv'
    BY <1>1
<1>2. ASSUME NEW p \in Peers, Ask(p) \/ SendP2p(p) \/ HandleCrownlinkMessage(p) \/ FallIdle(p)
      PROVE  WakeInv'
    BY <1>1, <1>2 DEF Ask, SendP2p, HandleCrownlinkMessage, FallIdle
<1>3. CASE Caller \/ BeginClear
    BY <1>1, <1>3 DEF Caller, BeginClear, SendPings, Choose, Send, Return, HandleByAgent,
                      SetAgentType, DropRelay, ClearInactiveAgents
<1>4. ASSUME NEW p \in Peers, NEW t \in Types, LinkChanges(p, t) PROVE WakeInv'
    BY <1>1, <1>4 DEF LinkChanges
<1>5. ASSUME NEW p \in Peers, NEW t \in Types, ReceivePing(p, t) PROVE WakeInv'
    BY <1>5 DEF ReceivePing, JuiceFree, Quiet
<1>6. CASE QueueCustomPacket
    BY <1>6 DEF QueueCustomPacket, Inv, TypeOK, QueueTyped
<1>7. CASE SignalPacket
    BY <1>7 DEF SignalPacket
<1>8. CASE CheckStop
    BY <1>8 DEF CheckStop, StopSeen
<1>9. CASE TryDequeue
    BY <1>9 DEF TryDequeue
<1>10. CASE WaitForPacket \/ TimeOut \/ LockMutex \/ SendCustomPacket
    BY <1>10 DEF WaitForPacket, TimeOut, LockMutex, SendCustomPacket
<1>11. CASE ClearRunning \/ SignalStop \/ RequestStop \/ Join
    BY <1>11 DEF ClearRunning, SignalStop, RequestStop, Join
<1>12. CASE UNCHANGED vars
    BY <1>1, <1>12 DEF vars
<1> QED BY <1>2, <1>3, <1>4, <1>5, <1>6, <1>7, <1>8, <1>9, <1>10, <1>11, <1>12 DEF Next

(* The thread of custom packets does not sleep while an answer is queued   *)
(* or the destructor waits for it, unless the signal is about to come.     *)
THEOREM NoSleepThroughWakeUp == Spec => []NoLostWakeUp
<1>1. Init => WakeInv
    BY DEF Init, WakeInv
<1>2. WakeInv => NoLostWakeUp
    BY DEF WakeInv, NoLostWakeUp
<1> QED BY <1>1, <1>2, NextWakes, AlwaysInv, PTL DEF Spec

-----------------------------------------------------------------------------
(* Until send_p2p returns, and unless a callback has changed an agent: if  *)
(* an agent is connected then the packet has been handed to a connection,  *)
(* or an agent that is connected is still to be tried.                     *)
StillToTry ==
    call.at \in {"best", "redundant"} /\ call.steady =>
        \A t \in Types : link[call.peer][t] = "up" =>
            call.sent \/ \E u \in call.to : link[call.peer][u] = "up"

(* What is not about the packet that is being sent leaves this alone.      *)
LEMMA OtherSteps ==
    ASSUME Inv, StillToTry, [Next]_vars, ~Choose, ~Send
    PROVE  StillToTry'
<1>0. call \in Calls
    BY DEF Inv, TypeOK
<1>1. ASSUME call'.at \notin {"best", "redundant"} PROVE StillToTry'
    BY <1>1 DEF StillToTry
<1>2. ASSUME UNCHANGED <<link, call>> PROVE StillToTry'
    BY <1>2 DEF StillToTry
<1>3. ASSUME NEW p \in Peers, Ask(p) \/ SendP2p(p) \/ HandleCrownlinkMessage(p) \/ FallIdle(p)
      PROVE  StillToTry'
  <2>1. CASE Ask(p)
      BY <1>1, <2>1 DEF Ask, CanCall, MutexFree, NoCall
  <2>2. CASE SendP2p(p)
      BY <1>1, <2>2 DEF SendP2p, Begin, NoCall
  <2>3. CASE HandleCrownlinkMessage(p)
      BY <1>1, <2>3 DEF HandleCrownlinkMessage, Begin, NoCall
  <2>4. CASE FallIdle(p)
      BY <1>2, <2>4 DEF FallIdle
  <2> QED BY <1>3, <2>1, <2>2, <2>3, <2>4
<1>4. CASE SendPings
    BY <1>0, <1>1, <1>4 DEF SendPings, Calls
<1>5. CASE Return \/ HandleByAgent \/ ClearInactiveAgents
    BY <1>1, <1>5 DEF Return, HandleByAgent, ClearInactiveAgents, NoCall
<1>6. CASE SetAgentType \/ DropRelay \/ BeginClear
    BY <1>0, <1>1, <1>6 DEF SetAgentType, DropRelay, BeginClear, Calls, NoCall
<1>7. ASSUME NEW p \in Peers, NEW t \in Types, LinkChanges(p, t) PROVE StillToTry'
  <2>1. CASE call.peer = p
    <3>1. call'.steady = FALSE
        BY <1>0, <1>7, <2>1 DEF LinkChanges, Calls
    <3> QED BY <3>1 DEF StillToTry
  <2>2. CASE call.peer # p
    <3>1. call' = call /\ \E s : link' = [link EXCEPT ![p][t] = s]
        BY <1>7, <2>2 DEF LinkChanges
    <3>2. CASE call.at \in {"best", "redundant"}
      <4>1. call.peer \in Peers
          BY <3>2 DEF Inv, CallKnown
      <4>2. link'[call.peer] = link[call.peer]
          BY <2>2, <3>1, <4>1 DEF Inv, TypeOK, PairsTyped
      <4> QED BY <3>1, <4>2 DEF StillToTry
    <3>3. CASE call.at \notin {"best", "redundant"}
        BY <1>1, <3>1, <3>3
    <3> QED BY <3>2, <3>3
  <2> QED BY <2>1, <2>2
<1>8. ASSUME \/ \E p \in Peers, t \in Types : ReceivePing(p, t)
             \/ QueueCustomPacket \/ SignalPacket
             \/ CheckStop \/ TryDequeue \/ WaitForPacket \/ TimeOut \/ LockMutex \/ SendCustomPacket
             \/ ClearRunning \/ SignalStop \/ RequestStop \/ Join
      PROVE  StillToTry'
  <2>1. UNCHANGED <<link, call>>
      BY <1>8 DEF ReceivePing, QueueCustomPacket, SignalPacket, CheckStop, TryDequeue, WaitForPacket,
                  TimeOut, LockMutex, SendCustomPacket, ClearRunning, SignalStop, RequestStop, Join, pairs
  <2> QED BY <1>2, <2>1
<1>9. CASE UNCHANGED vars
    BY <1>2, <1>9 DEF vars, pairs
<1> QED BY <1>3, <1>4, <1>5, <1>6, <1>7, <1>8, <1>9 DEF Next, Caller

(* The choice: get_best takes the agent that is connected if only one is.  *)
LEMMA ChoiceTries ==
    ASSUME Inv, Choose
    PROVE  StillToTry'
<1>1. call \in Calls /\ call.at = "choose" /\ UNCHANGED link
    BY DEF Inv, TypeOK, Choose, pairs
<1>2. PairsTyped /\ call.peer \in Peers
    BY <1>1 DEF Inv, TypeOK, CallKnown
<1>3. CASE /\ Legacy(call.peer)
           /\ call' = [call EXCEPT !.at = "best", !.to = {t \in {"p2p"} : link[call.peer][t] = "up"}]
  <2>1. call'.to = {t \in {"p2p"} : link[call.peer][t] = "up"} /\ call'.peer = call.peer
      BY <1>1, <1>3 DEF Calls
  <2>2. link[call.peer]["relay"] # "up"
      BY <1>3 DEF Legacy
  <2> QED BY <1>1, <2>1, <2>2 DEF StillToTry, Types
<1>4. ASSUME NEW u \in Best(call.peer), call' = [call EXCEPT !.at = "best", !.to = {u}]
      PROVE  StillToTry'
  <2>1. call'.to = {u} /\ call'.peer = call.peer
      BY <1>1, <1>4 DEF Calls
  <2>2. (\E t \in Types : link[call.peer][t] = "up") => link[call.peer][u] = "up"
      BY <1>4 DEF Best, Types
  <2> QED BY <1>1, <2>1, <2>2 DEF StillToTry
<1>5. CASE call' = [call EXCEPT !.at = "redundant", !.to = Types]
  <2>1. call'.to = Types /\ call'.peer = call.peer
      BY <1>1, <1>5 DEF Calls
  <2> QED BY <1>1, <2>1 DEF StillToTry
<1> QED BY <1>3, <1>4, <1>5 DEF Choose

(* One agent is tried: it was connected, or another one is still to come.  *)
LEMMA SendTries ==
    ASSUME Inv, StillToTry, Send
    PROVE  StillToTry'
<1>1. call \in Calls /\ call.at \in {"best", "redundant"} /\ PairsTyped
    BY DEF Inv, TypeOK, Send
<1>2. call.peer \in Peers
    BY <1>1 DEF Inv, CallKnown
<1>3. PICK t \in call.to :
         /\ call' = [call EXCEPT !.to = @ \ {t}, !.sent = @ \/ link[call.peer][t] = "up"]
         /\ \/ UNCHANGED link
            \/ link' = [link EXCEPT ![call.peer][t] =
                           IF link[call.peer][t] = "failed" THEN "down" ELSE @]
    BY DEF Send, SendMessage
<1>4. t \in Types
    BY <1>1 DEF Calls
<1>5. /\ call'.peer = call.peer /\ call'.at = call.at /\ call'.steady = call.steady
      /\ call'.to = call.to \ {t}
    BY <1>1, <1>3 DEF Calls
<1>6. call'.sent = (call.sent \/ link[call.peer][t] = "up")
    BY <1>1, <1>3 DEF Calls
<1>7. \A u \in Types : link'[call.peer][u] = "up" <=> link[call.peer][u] = "up"
  <2>1. CASE UNCHANGED link
      BY <2>1
  <2>2. CASE link' = [link EXCEPT ![call.peer][t] =
                         IF link[call.peer][t] = "failed" THEN "down" ELSE @]
    <3>1. link'[call.peer] = [link[call.peer] EXCEPT ![t] =
                                 IF link[call.peer][t] = "failed" THEN "down" ELSE @]
        BY <1>1, <1>2, <2>2 DEF PairsTyped
    <3>2. link[call.peer] \in [Types -> Links]
        BY <1>1, <1>2 DEF PairsTyped
    <3> QED BY <3>1, <3>2
  <2> QED BY <1>3, <2>1, <2>2
<1>8. call.to \subseteq Types
    BY <1>1 DEF Calls
<1>9. CASE link[call.peer][t] = "up"
    BY <1>5, <1>6, <1>9 DEF StillToTry
<1>10. CASE link[call.peer][t] # "up"
  <2>1. call'.sent = call.sent
      BY <1>1, <1>6, <1>10 DEF Calls
  <2> QED BY <1>5, <1>7, <1>8, <1>10, <2>1 DEF StillToTry
<1> QED BY <1>9, <1>10

(* A packet of the game goes out by a connection if the pair has one that  *)
(* no callback takes away while send_p2p runs.                             *)
THEOREM LinkedPacketsLeave == Spec => []SentIfLinked
<1>1. Init => StillToTry
    BY DEF Init, StillToTry, NoCall
<1>2. Inv /\ StillToTry /\ [Next]_vars => StillToTry'
    BY OtherSteps, ChoiceTries, SendTries
<1>3. StillToTry => SentIfLinked
    BY DEF StillToTry, SentIfLinked
<1> QED BY <1>1, <1>2, <1>3, AlwaysInv, PTL DEF Spec
=============================================================================
