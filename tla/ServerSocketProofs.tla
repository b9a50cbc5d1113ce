-------------------------- MODULE ServerSocketProofs --------------------------
(***************************************************************************)
(* Proofs about ServerSocket: its types, that the client keeps its id, that*)
(* connections which work are kept, and that none is left open.            *)
(***************************************************************************)
EXTENDS ServerSocket, TLAPS

AnyId == {NoId, ZeroId} \cup Ids
Profiles == {Profile(i) : i \in Ids}
Others == {Heartbeat, Rest}

(* What may be on its way: nothing, or one of S.                           *)
AtMostOne(S) == {<<>>} \cup {<<m>> : m \in S}

Threads ==
    /\ listener \in {"loop", "init", "attempt", "connected", "request", "poll",
                     "header", "handle", "ended"}
    /\ state \in {"Disconnected", "Connecting", "Ready"}
    /\ destroyer \in {"none", "requested", "joining", "done"}
    /\ conn \in {"none", "open", "closed", "dead"}
    /\ profile \in BOOLEAN /\ up \in BOOLEAN /\ serving \in BOOLEAN

Numbers ==
    /\ id \in AnyId /\ given \in {0} \cup Ids
    /\ retry \in 0..3 /\ quiet \in 0..5
    /\ faults \in 0..MaxFaults

Contents ==
    /\ requests \in AtMostOne(AnyId)
    /\ inbox \in AtMostOne(Profiles \cup Others)
    /\ hand \in {Heartbeat, Profile(ZeroId)} \cup Profiles

(* The connection and m_state: only between connect and the assignment does*)
(* the one lack the other.  What is on its way is on an open connection, or*)
(* has come in before it closed.                                           *)
Linked ==
    /\ conn # "none" => state = "Ready" \/ listener = "connected"
    /\ listener \in {"attempt", "connected"} => state # "Ready"
    /\ listener = "attempt" => conn = "none"
    /\ conn = "none" => inbox = <<>>
    /\ conn # "open" => requests = <<>>
    /\ destroyer = "done" => listener = "ended" /\ conn = "none"

(* A turn of the loop without a profile sends one request, which is        *)
(* answered before anything else comes.                                    *)
Asking == listener \in {"poll", "header"} /\ ~profile

Requested ==
    /\ ~Asking => requests = <<>>
    /\ listener \in {"init", "attempt", "connected"} => ~profile
    /\ listener \in {"loop", "init", "attempt", "connected", "request"} /\ ~profile
         => inbox = <<>> /\ (conn = "open" => ~serving)
    /\ Asking =>
         /\ inbox \in AtMostOne(Profiles)
         /\ requests = <<>> \/ inbox = <<>>
         /\ conn = "open" => (serving <=> inbox # <<>>)
    /\ ~Asking => inbox \in AtMostOne(Others)
    /\ listener = "handle" => (~profile <=> hand # Heartbeat)
    /\ profile \/ listener = "handle" => (conn = "open" => serving)

(* The id that is asked for, given and about to be set is the one the      *)
(* client has, once it has one.                                            *)
Known ==
    id \in Ids =>
        /\ requests \in AtMostOne({id})
        /\ inbox \in AtMostOne({Profile(id)} \cup Others)
        /\ listener = "handle" => hand \in {Heartbeat, Profile(id), Profile(ZeroId)}

Inv == Threads /\ Numbers /\ Contents /\ Linked /\ Requested /\ Known

LEMMA Messages ==
  /\ Heartbeat # Rest
  /\ \A i, j : Profile(i) = Profile(j) => i = j
  /\ \A i : Profile(i) # Heartbeat /\ Profile(i) # Rest
  /\ \A i : Default(Profile(i)) = Profile(ZeroId)
  /\ Default(Heartbeat) = Heartbeat
  /\ \A i : Profile(i).type = "ClientProfile" /\ Profile(i).id = i
  /\ Heartbeat.type # "ClientProfile"
BY DEF Heartbeat, Rest, Profile, Default

LEMMA Constants ==
  /\ NoId \notin Ids /\ ZeroId \notin Ids /\ NoId # ZeroId
  /\ NoId \in AnyId /\ ZeroId \in AnyId /\ Ids \subseteq AnyId
  /\ 0 \in 0..MaxFaults /\ MaxFaults \in Nat
BY BoundsAssumption DEF NoId, ZeroId, Ids, AnyId

(* Sequences of at most one message.                                       *)
LEMMA One ==
  ASSUME NEW S, NEW s \in AtMostOne(S), s # <<>>
  PROVE  Head(s) \in S /\ s = <<Head(s)>> /\ Tail(s) = <<>>
<1>1. PICK m \in S : s = <<m>>
  BY DEF AtMostOne
<1>2. Head(<<m>>) = m /\ Tail(<<m>>) = <<>>
  OBVIOUS
<1> QED BY <1>1, <1>2

LEMMA OneMore ==
  /\ \A m : Append(<<>>, m) = <<m>> /\ <<m>> # <<>>
  /\ \A m : <<m>> \o <<>> = <<m>>
  /\ \A m, n : <<m>> = <<n>> => m = n
  /\ \A S : <<>> \in AtMostOne(S)
  /\ \A S : \A m \in S : <<m>> \in AtMostOne(S)
<1>1. \A m : Append(<<>>, m) = <<m>>
  OBVIOUS
<1>2. \A m : <<m>> \o <<>> = <<m>>
  OBVIOUS
<1>3. \A m : <<m>> # <<>>
  OBVIOUS
<1>4. \A m, n : <<m>> = <<n>> => m = n
  OBVIOUS
<1> QED BY <1>1, <1>2, <1>3, <1>4 DEF AtMostOne

LEMMA InitInv == Init => Inv
<1> SUFFICES ASSUME Init PROVE Inv
  OBVIOUS
<1>1. Threads
  BY DEF Init, Threads
<1>2. Numbers
  BY Constants DEF Init, Numbers
<1>3. Contents
  BY OneMore DEF Init, Contents
<1>4. Linked /\ Requested /\ Known
  BY Constants, OneMore DEF Init, Linked, Requested, Known, Asking
<1> QED BY <1>1, <1>2, <1>3, <1>4 DEF Inv

LEMMA LoopInv == ASSUME Inv, Loop PROVE Inv'
<1> USE Constants, Messages, OneMore
    DEF Loop, ProfileAtStart, Inv, mine, wire, world, Stopped
<1>1. Threads'
  BY DEF Threads
<1>2. Numbers'
  BY DEF Numbers, Contents
<1>3. Contents'
  BY DEF Contents, Numbers
<1>4. Linked'
  BY DEF Threads, Linked
<1>5. Requested'
  BY DEF Threads, Contents, Linked, Requested, Asking, AtMostOne
<1>6. Known'
  BY DEF Threads, Contents, Linked, Requested, Asking, Known, AtMostOne
<1> QED BY <1>1, <1>2, <1>3, <1>4, <1>5, <1>6

LEMMA ConnectInv == ASSUME Inv, Connect PROVE Inv'
<1> USE Constants, Messages, OneMore
    DEF Connect, Inv, mine, wire, world, Stopped
<1>1. Threads'
  BY DEF Threads
<1>2. Numbers'
  BY DEF Numbers, Contents
<1>3. Contents'
  BY DEF Contents, Numbers
<1>4. Linked'
  BY DEF Threads, Linked
<1>5. Requested'
  BY DEF Threads, Contents, Linked, Requested, Asking, AtMostOne
<1>6. Known'
  BY DEF Threads, Contents, Linked, Requested, Asking, Known, AtMostOne
<1> QED BY <1>1, <1>2, <1>3, <1>4, <1>5, <1>6

LEMMA RequestProfileInv == ASSUME Inv, RequestProfile PROVE Inv'
<1> USE Constants, Messages, OneMore
    DEF RequestProfile, IdToAskFor, Inv, mine, wire, world, Stopped
<1>1. requests' = requests \/ (requests = <<>> /\ requests' = <<id>>)
  BY DEF Requested, Asking
<1>2. Threads' /\ Linked'
  BY <1>1 DEF Threads, Linked
<1>3. Numbers'
  BY DEF Numbers
<1>4. Contents'
  BY <1>1 DEF Contents, Numbers
<1>5. Requested'
  BY <1>1 DEF Threads, Contents, Linked, Requested, Asking, AtMostOne
<1>6. Known'
  BY <1>1 DEF Threads, Contents, Linked, Requested, Asking, Known, AtMostOne
<1> QED BY <1>2, <1>3, <1>4, <1>5, <1>6

(* What the listener receives: the answer while it asks, else a heartbeat. *)
LEMMA Received ==
  ASSUME Inv, listener = "header", inbox # <<>>, Head(inbox) # Rest
  PROVE  /\ inbox = <<Head(inbox)>> /\ Tail(inbox) = <<>>
         /\ requests = <<>>
         /\ IF profile THEN Head(inbox) = Heartbeat ELSE Head(inbox) \in Profiles
         /\ id \in Ids => Head(inbox) \in {Heartbeat, Profile(id)}
         /\ conn = "open" => serving
<1>1. inbox = <<Head(inbox)>> /\ Tail(inbox) = <<>>
  BY One DEF Inv, Contents
<1>2. requests = <<>>
  BY DEF Inv, Requested, Asking
<1>3. CASE profile
  <2>1. inbox \in AtMostOne(Others)
    BY <1>3 DEF Inv, Requested, Asking
  <2>2. Head(inbox) = Heartbeat
    BY <2>1, One DEF Others
  <2> QED BY <1>1, <1>2, <1>3, <2>2 DEF Inv, Requested
<1>4. CASE ~profile
  <2>1. inbox \in AtMostOne(Profiles) /\ (conn = "open" => serving)
    BY <1>4 DEF Inv, Requested, Asking
  <2>2. Head(inbox) \in Profiles
    BY <2>1, One
  <2>3. ASSUME id \in Ids PROVE Head(inbox) \in {Heartbeat, Profile(id)}
    <3>1. inbox \in AtMostOne({Profile(id)} \cup Others)
      BY <2>3 DEF Inv, Known
    <3>2. Head(inbox) \in {Profile(id)} \cup Others
      BY <3>1, One
    <3> QED BY <3>2 DEF Others
  <2> QED BY <1>1, <1>2, <1>4, <2>1, <2>2, <2>3
<1> QED BY <1>3, <1>4

LEMMA ReceiveInv == ASSUME Inv, Receive PROVE Inv'
<1> USE Constants, Messages, OneMore DEF Receive, Inv, world
<1>1. hand' = Head(inbox) /\ inbox' = <<>> /\ requests' = <<>>
      /\ hand' \in Profiles \cup {Heartbeat}
  BY Received
<1>2. Threads' /\ Linked'
  BY <1>1 DEF Threads, Linked, Stopped
<1>3. Numbers'
  BY DEF Numbers
<1>4. Contents'
  BY <1>1 DEF Contents
<1>5. Requested'
  <2>1. ~profile <=> hand' # Heartbeat
    BY <1>1, Received DEF Profiles
  <2>2. conn' = "open" => serving'
    BY Received
  <2> QED BY <1>1, <2>1, <2>2 DEF Requested, Asking, Stopped
<1>6. Known'
  BY <1>1, Received DEF Known
<1> QED BY <1>2, <1>3, <1>4, <1>5, <1>6

LEMMA ReceiveCutInv == ASSUME Inv, ReceiveCut PROVE Inv'
<1> USE Constants, Messages, OneMore DEF ReceiveCut, Inv
<1>1. /\ IF profile THEN hand' = Heartbeat ELSE hand' = Profile(ZeroId)
      /\ inbox' = <<Rest>> /\ requests' = <<>>
  <2>1. inbox' = <<Rest>> /\ requests' = <<>>
    BY Received
  <2>2. CASE profile
    BY <2>1, <2>2, Received
  <2>3. CASE ~profile
    <3>1. PICK i \in Ids : Head(inbox) = Profile(i)
      BY <2>3, Received DEF Profiles
    <3>2. hand' = Default(Profile(i))
      BY <3>1
    <3> QED BY <2>1, <2>3, <3>2
  <2> QED BY <2>2, <2>3
<1>2. conn' = "open" => serving'
  BY Received
<1>3. inbox' \in AtMostOne(Others) /\ inbox' \in AtMostOne(Profiles \cup Others)
      /\ inbox' \in AtMostOne({Profile(id')} \cup Others)
  <2>1. \A S : Rest \in S => inbox' \in AtMostOne(S)
    BY <1>1
  <2> QED BY <2>1 DEF Others
<1>4. Threads' /\ Linked'
  <2>1. conn' = conn /\ conn # "none"
    BY DEF Linked
  <2> QED BY <1>1, <2>1 DEF Threads, Linked, Stopped
<1>5. Numbers'
  BY DEF Numbers
<1>6. Contents'
  BY <1>1, <1>3 DEF Contents
<1>7. Requested'
  BY <1>1, <1>2, <1>3 DEF Requested, Asking, Stopped
<1>8. Known'
  BY <1>1, <1>3 DEF Known
<1> QED BY <1>4, <1>5, <1>6, <1>7, <1>8

LEMMA HandleInv == ASSUME Inv, Handle PROVE Inv'
<1> USE Constants, Messages, OneMore DEF Handle, Inv, wire, world
<1>1. \/ hand = Heartbeat /\ id' = id /\ profile' = profile /\ profile
      \/ /\ hand # Heartbeat /\ profile' = TRUE /\ ~profile
         /\ id' \in Ids \cup {ZeroId} /\ hand = Profile(id')
  <2>1. CASE hand = Heartbeat
    BY <2>1 DEF Requested, Threads
  <2>2. CASE hand # Heartbeat
    <3>1. PICK i \in Ids \cup {ZeroId} : hand = Profile(i)
      BY <2>2 DEF Contents, Profiles
    <3>2. id' = i /\ profile' = TRUE
      BY <3>1
    <3> QED BY <2>2, <3>1, <3>2 DEF Requested, Threads
  <2> QED BY <2>1, <2>2
<1>2. requests = <<>> /\ inbox \in AtMostOne(Others)
      /\ (conn = "open" => serving) /\ profile' = TRUE
  BY <1>1 DEF Requested, Asking, Threads
<1>3. Threads' /\ Linked'
  BY <1>2 DEF Threads, Linked
<1>4. Numbers'
  BY <1>1 DEF Numbers, AnyId
<1>5. Contents'
  BY DEF Contents
<1>6. Requested'
  BY <1>2 DEF Requested, Asking
<1>7. Known'
  BY <1>2 DEF Known, AtMostOne
<1> QED BY <1>3, <1>4, <1>5, <1>6, <1>7

(* The listener's other steps.                                             *)
LEMMA ListenerInv == ASSUME Inv, Listener PROVE Inv'
<1> USE Constants, OneMore
    DEF Inv, Threads, Numbers, Contents, Linked, Requested, Asking, Known,
        AtMostOne, mine, wire, world, Stopped, Disconnect, CloseSocket
<1>1. CASE LeaveInit
  BY <1>1 DEF LeaveInit
<1>2. CASE Attempt
  BY <1>2 DEF Attempt
<1>3. CASE BecomeReady
  BY <1>3 DEF BecomeReady
<1>4. CASE PollReady
  BY <1>4 DEF PollReady
<1>5. CASE PollNothing
  BY <1>5 DEF PollNothing
<1>6. CASE MissHeartbeat
  BY <1>6 DEF MissHeartbeat, Patience, MissedHeartbeats
<1>7. CASE ReceiveNothing
  BY <1>7 DEF ReceiveNothing
<1>8. CASE RefuseRest
  BY <1>8 DEF RefuseRest
<1>9. CASE Loop \/ Connect \/ RequestProfile \/ Receive \/ ReceiveCut \/ Handle
  BY <1>9, LoopInv, ConnectInv, RequestProfileInv, ReceiveInv, ReceiveCutInv,
     HandleInv
<1> QED BY <1>1, <1>2, <1>3, <1>4, <1>5, <1>6, <1>7, <1>8, <1>9
        DEF Listener

LEMMA DestroyerInv == ASSUME Inv, Destroyer PROVE Inv'
<1> USE Constants, OneMore
    DEF Inv, Threads, Numbers, Contents, Linked, Requested, Asking, Known,
        AtMostOne, mine, wire, world, Stopped, Disconnect, CloseSocket
<1>1. CASE RequestStop
  BY <1>1 DEF RequestStop
<1>2. CASE DisconnectToStop
  BY <1>2 DEF DisconnectToStop
<1>3. CASE Join
  BY <1>3 DEF Join, DestroySocket
<1> QED BY <1>1, <1>2, <1>3 DEF Destroyer

LEMMA AnswerInv == ASSUME Inv, Answer PROVE Inv'
<1> USE Constants, Messages, OneMore DEF Inv, mine
<1>1. Asking /\ inbox = <<>>
  BY DEF Answer, Requested
<1>2. Head(requests) \in AnyId /\ Tail(requests) = <<>>
      /\ (id \in Ids => Head(requests) = id)
  <2>1. requests # <<>>
    BY DEF Answer
  <2>2. Head(requests) \in AnyId /\ Tail(requests) = <<>>
    BY <2>1, One DEF Contents
  <2>3. id \in Ids => Head(requests) \in {id}
    BY <2>1, One DEF Known
  <2> QED BY <2>2, <2>3
<1>3. PICK new \in Ids :
        /\ inbox' = <<Profile(new)>>
        /\ id \in Ids => new = id
        /\ given' \in {given, new}
  BY <1>1, <1>2 DEF Answer
<1>4. requests' = <<>> /\ conn' = "open" /\ conn = "open" /\ serving' = TRUE
      /\ UNCHANGED <<listener, state, profile, id, retry, quiet, hand,
                     destroyer, conn, up, faults>>
  BY <1>2 DEF Answer
<1>5. Threads' /\ Linked'
  BY <1>4 DEF Threads, Linked
<1>6. Numbers'
  BY <1>3, <1>4 DEF Numbers
<1>7. Contents'
  <2>1. Profile(new) \in Profiles
    BY DEF Profiles
  <2> QED BY <1>3, <1>4, <2>1 DEF Contents
<1>8. Requested'
  <2>1. inbox' \in AtMostOne(Profiles) /\ inbox' # <<>>
    BY <1>3 DEF Profiles
  <2> QED BY <1>1, <1>4, <2>1 DEF Requested, Asking
<1>9. Known'
  BY <1>1, <1>3, <1>4 DEF Known, Asking
<1> QED BY <1>5, <1>6, <1>7, <1>8, <1>9

LEMMA BeatInv == ASSUME Inv, Beat PROVE Inv'
<1> USE Constants, Messages, OneMore DEF Beat, Inv, mine, world
<1>1. ~Asking
  BY DEF Requested
<1>2. inbox' = <<Heartbeat>> /\ inbox' \in AtMostOne(Others)
      /\ inbox' \in AtMostOne(Profiles \cup Others)
      /\ inbox' \in AtMostOne({Profile(id')} \cup Others)
  BY DEF Others
<1>3. Threads' /\ Linked'
  BY DEF Threads, Linked
<1>4. Numbers'
  BY DEF Numbers
<1>5. Contents'
  BY <1>2 DEF Contents
<1>6. Requested'
  BY <1>1, <1>2 DEF Requested, Asking, Threads
<1>7. Known'
  BY <1>2 DEF Known
<1> QED BY <1>3, <1>4, <1>5, <1>6, <1>7

LEMMA ServerFailsInv == ASSUME Inv, ServerFails PROVE Inv'
<1> USE Constants, Messages, OneMore
    DEF ServerFails, Inv, mine, wire, world, Stopped
<1>1. Threads'
  BY DEF Threads
<1>2. Numbers'
  BY DEF Numbers, Contents
<1>3. Contents'
  BY DEF Contents, Numbers
<1>4. Linked'
  BY DEF Threads, Linked
<1>5. Requested'
  BY DEF Threads, Contents, Linked, Requested, Asking, AtMostOne
<1>6. Known'
  BY DEF Threads, Contents, Linked, Requested, Asking, Known, AtMostOne
<1> QED BY <1>1, <1>2, <1>3, <1>4, <1>5, <1>6

LEMMA WorldInv == ASSUME Inv, World PROVE Inv'
<1> USE Constants, OneMore
    DEF Inv, Threads, Numbers, Contents, Linked, Requested, Asking, Known,
        AtMostOne, mine, wire, world, Stopped
<1>1. CASE ServerStarts
  BY <1>1 DEF ServerStarts
<1>2. CASE ConnectionFails
  BY <1>2 DEF ConnectionFails
<1>3. CASE Answer \/ Beat \/ ServerFails
  BY <1>3, AnswerInv, BeatInv, ServerFailsInv
<1> QED BY <1>1, <1>2, <1>3 DEF World

LEMMA NextInv == Inv /\ [Next]_vars => Inv'
<1>1. ASSUME Inv, UNCHANGED vars PROVE Inv'
  BY <1>1 DEF vars, mine, wire, world, Inv, Threads, Numbers, Contents, Linked,
              Requested, Asking, Known
<1> QED BY <1>1, ListenerInv, DestroyerInv, WorldInv DEF Next

(* The inductive invariant of ServerSocket.                                *)
THEOREM SocketInvariant == Spec => []Inv
<1> QED BY InitInv, NextInv, PTL DEF Spec

(* Every variable has its type, and no more than one request or message is *)
(* ever under way (Socket in src/crow_serve/CrowServe.h).                  *)
THEOREM TypeCorrect == Spec => []TypeOK
<1>1. Inv => TypeOK
  <2> SUFFICES ASSUME Inv PROVE TypeOK
    OBVIOUS
  <2>1. Len(inbox) <= 1
        /\ ToSet(inbox) \subseteq {Heartbeat, Rest} \cup {Profile(i) : i \in Ids}
    <3>1. CASE inbox = <<>>
      BY <3>1 DEF ToSet
    <3>2. CASE inbox # <<>>
      <4>1. PICK m \in Profiles \cup Others : inbox = <<m>>
        BY <3>2 DEF Inv, Contents, AtMostOne
      <4>2. Len(<<m>>) = 1 /\ ToSet(<<m>>) = {m}
        BY DEF ToSet
      <4> QED BY <4>1, <4>2 DEF Profiles, Others
    <3> QED BY <3>1, <3>2
  <2>2. requests \in {<<>>} \cup {<<i>> : i \in {NoId, ZeroId} \cup Ids}
    BY DEF Inv, Contents, AtMostOne, AnyId
  <2>3. hand \in {Heartbeat} \cup {Profile(i) : i \in Ids \cup {ZeroId}}
    BY DEF Inv, Contents, Profiles
  <2>4. /\ id \in {NoId, ZeroId} \cup Ids /\ given \in {0} \cup Ids
        /\ retry \in 0..3 /\ quiet \in 0..MissedHeartbeats-1
        /\ faults \in 0..MaxFaults
    BY DEF Inv, Numbers, AnyId, MissedHeartbeats
  <2> QED BY <2>1, <2>2, <2>3, <2>4 DEF Inv, Threads, TypeOK
<1> QED BY <1>1, SocketInvariant, PTL

(* Whatever point of its loop the listener is stopped at, the destructors  *)
(* leave no connection (~CrowServeManager and ~Socket).                    *)
THEOREM ConnectionClosed == Spec => []NothingLeftOpen
<1>1. Inv => NothingLeftOpen
  BY DEF Inv, Linked, NothingLeftOpen
<1> QED BY <1>1, SocketInvariant, PTL

(* The client stays who it is, except for the zero address of a profile    *)
(* that was cut (set_profile).                                             *)
THEOREM SameIdentity == Spec => IdentityKept
<1>1. Inv /\ [Next]_vars => [(id \in Ids) => (id' \in {id, ZeroId})]_vars
  <2> SUFFICES ASSUME Inv, Next, id \in Ids PROVE id' \in {id, ZeroId}
    OBVIOUS
  <2>1. CASE Handle
    <3>1. hand \in {Heartbeat, Profile(id), Profile(ZeroId)}
      BY <2>1 DEF Handle, Inv, Known
    <3> QED BY <2>1, <3>1, Messages DEF Handle
  <2>2. CASE ~Handle
    <3>1. id' = id
      BY <2>2 DEF Next, Listener, Destroyer, World, Loop, LeaveInit, Attempt,
         Connect, BecomeReady, RequestProfile, PollReady, PollNothing,
         MissHeartbeat, ReceiveNothing, Receive, ReceiveCut, RefuseRest,
         RequestStop, DisconnectToStop, Join, Answer, Beat, ServerFails,
         ServerStarts, ConnectionFails, mine
    <3> QED BY <3>1
  <2> QED BY <2>1, <2>2
<1> QED BY <1>1, SocketInvariant, PTL DEF Spec, IdentityKept

(* With heartbeats that come before the limit on missed ones, the listener *)
(* drops a connection with a profile only after a fault, or for what is    *)
(* left of a cut body (listen, disconnect).                                *)
THEOREM WorkingConnectionKept ==
  ASSUME MaxSilence < MissedHeartbeats
  PROVE  Spec => ConnectionKept
<1> DEFINE Kept ==
      conn = "open" /\ conn' # "open" /\ profile /\ ~Stopped
        => faults' > faults \/ Rest \in ToSet(inbox)
<1>1. Inv /\ [Next]_vars => [Kept]_vars
  <2> SUFFICES ASSUME Inv, Next, conn = "open", conn' # "open", profile, ~Stopped
               PROVE  faults' > faults \/ Rest \in ToSet(inbox)
    OBVIOUS
  <2>0. faults \in Nat /\ quiet \in Nat
    BY BoundsAssumption DEF Inv, Numbers
  <2>1. CASE MissHeartbeat
    <3>1. serving
      BY DEF Inv, Requested
    <3>2. quiet < MaxSilence
      BY <2>1, <3>1 DEF MissHeartbeat
    <3>3. quiet + 1 < Patience
      BY <2>0, <3>2, BoundsAssumption DEF Patience, MissedHeartbeats
    <3>4. conn' = conn
      BY <2>0, <2>1, <3>3 DEF MissHeartbeat, wire, Patience, MissedHeartbeats
    <3> QED BY <3>4
  <2>2. CASE RefuseRest
    <3>1. inbox = <<Rest>>
      BY <2>2, One DEF RefuseRest, Inv, Contents
    <3>2. Rest \in ToSet(<<Rest>>)
      BY DEF ToSet
    <3> QED BY <3>1, <3>2
  <2>3. CASE ReceiveNothing \/ ServerFails \/ ConnectionFails
    <3>1. faults' = faults + 1
      BY <2>3 DEF ReceiveNothing, ServerFails, ConnectionFails, Hangup
    <3> QED BY <2>0, <3>1
  <2>4. CASE ~(MissHeartbeat \/ RefuseRest \/ ReceiveNothing \/ ServerFails
              \/ ConnectionFails)
    <3>1. conn' = "open"
      BY <2>4 DEF Next, Listener, Destroyer, World, Loop, LeaveInit, Attempt,
         Connect, BecomeReady, RequestProfile, PollReady, PollNothing,
         Receive, ReceiveCut, Handle, Inv, Linked,
         RequestStop, DisconnectToStop, Join, Answer, Beat, ServerStarts,
         wire, Stopped
    <3> QED BY <3>1
  <2> QED BY <2>1, <2>2, <2>3, <2>4
<1> QED BY <1>1, SocketInvariant, PTL DEF Spec, ConnectionKept
=============================================================================
