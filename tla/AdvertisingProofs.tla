-------------------------- MODULE AdvertisingProofs --------------------------
(***************************************************************************)
(* Proofs about Advertising: its types, that the server lists the lobby    *)
(* under the client's own id, that those who join play at the host's turn  *)
(* rate, and that every step is one of a Noticeboard.                      *)
(***************************************************************************)
EXTENDS Advertising, TLAPS

(* What the constants and the operators without state are.                 *)
LEMMA Constants ==
  /\ NoAd \in Ads /\ NoJoiner \in [game : Nat, silent : BOOLEAN]
  /\ \A declared \in Rates \union {NoRate} : Adopt(declared) \in ValidRates
<1>1. NoAd \in Ads
  BY BoundsAssumption DEF NoAd, Ads, NoRate
<1>2. NoJoiner \in [game : Nat, silent : BOOLEAN]
  BY DEF NoJoiner
<1>3. \A declared \in Rates \union {NoRate} : Adopt(declared) \in ValidRates
  BY DEF Adopt, ValidRates, Standard
<1> QED BY <1>1, <1>2, <1>3

LEMMA SendTypes ==
  ASSUME wire \in Seq(Ads), NEW message \in Ads, Send(message)
  PROVE  wire' \in Seq(Ads)
BY DEF Send

LEMMA SetRateTypes ==
  ASSUME TypeOK, NEW rate \in Rates, SetRate(rate)
  PROVE  /\ net' \in ValidRates
         /\ caps' \in Rates \union ValidRates \union {NoRate}
BY DEF TypeOK, SetRate, PatchCaps, rates

(* The initial state has the types.                                        *)
LEMMA InitTypes == Init => TypeOK
<1> SUFFICES ASSUME Init PROVE TypeOK
  OBVIOUS
<1>1. net \in ValidRates /\ caps \in Rates \union ValidRates \union {NoRate}
  BY Constants DEF Init
<1>2. <<>> \in Seq(Ads) /\ 0 \in 0..(MaxFaults + 1) /\ 0 \in 0..MaxFaults
  BY BoundsAssumption
<1> QED BY <1>1, <1>2, Constants DEF Init, TypeOK

(* A new ad has the type of ads.                                           *)
LEMMA CreateTypes ==
  ASSUME TypeOK, ad.no < MaxPosts, NEW game \in Nat, NEW open \in BOOLEAN
  PROVE  Create(game, open) \in Ads
<1>1. ad.no + 1 \in 0..MaxPosts /\ 0 \in 0..(MaxFaults + 1)
  BY BoundsAssumption DEF TypeOK, Ads
<1> QED BY <1>1 DEF TypeOK, Create, Ads

LEMMA StormTypes == ASSUME TypeOK, Storm PROVE TypeOK'
<1>1. CASE SpiStartAdvertising
  <2>1. ad' \in Ads /\ advertising' = TRUE
    <3>1. PICK open \in BOOLEAN :
            StartAdvertising(IF storm = "browsing" THEN ad.game + 1 ELSE ad.game,
                             open)
      BY <1>1 DEF SpiStartAdvertising
    <3>2. (IF storm = "browsing" THEN ad.game + 1 ELSE ad.game) \in Nat
      BY DEF TypeOK, Ads
    <3> QED BY <1>1, <3>1, <3>2, CreateTypes
            DEF StartAdvertising, SpiStartAdvertising
  <2>2. net' \in ValidRates /\ caps' \in Rates \union ValidRates \union {NoRate}
    BY <1>1 DEF SpiStartAdvertising, PatchCaps, TypeOK
  <2> QED BY <1>1, <2>1, <2>2
          DEF SpiStartAdvertising, TypeOK, link, server, players
<1>2. CASE SendStop
  <2>1. wire' \in Seq(Ads)
    BY <1>2, SendTypes, Constants DEF SendStop, TypeOK
  <2> QED BY <1>2, <2>1 DEF SendStop, TypeOK, manager, rates, link, players
<1>3. CASE ClearAdvertising
  BY <1>3 DEF ClearAdvertising, TypeOK, rates, link, server
<1>4. CASE RequestAdvertisements \/ SolicitationAges
  BY <1>4 DEF RequestAdvertisements, SolicitationAges, TypeOK, rates, link,
              server, players
<1>5. ASSUME NEW rate \in Rates, GetGameInfo(rate) \/ SetTurnsPerSecond(rate)
      PROVE  TypeOK'
  <2>1. SetRate(rate)
    BY <1>5 DEF GetGameInfo, SetTurnsPerSecond
  <2> QED BY <1>5, <2>1, SetRateTypes
          DEF GetGameInfo, SetTurnsPerSecond, TypeOK, manager, link, server,
              players
<1> QED BY <1>1, <1>2, <1>3, <1>4, <1>5 DEF Storm

LEMMA HandlerTypes == ASSUME TypeOK, Handler PROVE TypeOK'
<1>1. CASE HandleHeartbeat
  BY <1>1 DEF HandleHeartbeat, TypeOK, manager, rates, link, server, players
<1>2. CASE ClearInactiveAgents
  BY <1>2, Constants DEF ClearInactiveAgents, TypeOK, manager, rates, link, server
<1>3. CASE AskIsAdvertising
  BY <1>3 DEF AskIsAdvertising, TypeOK, manager, rates, link, server, players
<1>4. CASE SendAdvertisement
  <2>1. ad' \in Ads
    BY <1>4 DEF SendAdvertisement, TypeOK, Ads, Host
  <2>2. wire' \in Seq(Ads)
    BY <1>4, <2>1 DEF SendAdvertisement, TypeOK, Send
  <2> QED BY <1>4, <2>1, <2>2 DEF SendAdvertisement, TypeOK, rates, link, players
<1> QED BY <1>1, <1>2, <1>3, <1>4 DEF Handler

LEMMA WorldTypes == ASSUME TypeOK, World PROVE TypeOK'
<1>1. CASE Fail
  <2>1. faults' \in 0..MaxFaults
    BY <1>1, BoundsAssumption DEF Fail, TypeOK
  <2> QED BY <1>1, <2>1, Constants DEF Fail, TypeOK, manager, rates, players
<1>2. CASE GiveUp \/ Connect \/ Heartbeat
  BY <1>2 DEF GiveUp, Connect, Heartbeat, TypeOK, manager, rates, link, server,
              players
<1>3. CASE ReceiveProfile
  <2>1. id' \in 0..(MaxFaults + 1)
    BY <1>3, BoundsAssumption DEF ReceiveProfile, TypeOK
  <2> QED BY <1>3, <2>1 DEF ReceiveProfile, TypeOK, manager, rates, server,
                            players
<1>4. CASE ServerReceives
  <2>1. listed' \in Ads /\ wire' \in Seq(Ads)
    BY <1>4 DEF ServerReceives, TypeOK
  <2> QED BY <1>4, <2>1 DEF ServerReceives, TypeOK, manager, rates, link, players
<1>5. CASE FallSilent
  BY <1>5 DEF FallSilent, TypeOK, manager, rates, link, server
<1>6. ASSUME NEW own \in Rates \intersect ValidRates, Join(own) PROVE TypeOK'
  <2>1. joiner' \in [game : Nat, silent : BOOLEAN]
    BY <1>6 DEF Join, TypeOK, Ads
  <2>2. party' \subseteq ValidRates
    BY <1>6 DEF Join, TypeOK
  <2> QED BY <1>6, <2>1, <2>2 DEF Join, TypeOK, manager, rates, link, server
<1> QED BY <1>1, <1>2, <1>3, <1>4, <1>5, <1>6 DEF World

LEMMA NextTypes == TypeOK /\ [Next]_vars => TypeOK'
<1>1. ASSUME TypeOK, UNCHANGED vars PROVE TypeOK'
  BY <1>1 DEF vars, manager, rates, link, server, players, TypeOK
<1> QED BY <1>1, StormTypes, HandlerTypes, WorldTypes DEF Next

(* Everything has its type (src/snp/AdvertisementManager.h and the rate).  *)
THEOREM TypeCorrect == Spec => []TypeOK
<1> QED BY InitTypes, NextTypes, PTL DEF Spec

-----------------------------------------------------------------------------
(* What the server lists and what is on its way to it.                     *)
Messages == {listed} \union {wire[i] : i \in 1..Len(wire)}

LEMMA MessagesAreAds == ASSUME TypeOK PROVE Messages \subseteq Ads
BY DEF TypeOK, Messages

LEMMA SentMessages ==
  ASSUME TypeOK, NEW message, Send(message), listed' = listed
  PROVE  /\ Messages' \subseteq Messages \union {message}
         /\ conn # "up" => Messages' = Messages
<1>1. CASE conn = "up"
  <2>1. wire' = Append(wire, message) /\ wire \in Seq(Ads)
    BY <1>1 DEF Send, TypeOK
  <2>2. ASSUME NEW i \in 1..Len(wire')
        PROVE  wire'[i] \in Messages \union {message}
    <3>1. CASE i = Len(wire) + 1
      BY <2>1, <3>1
    <3>2. CASE i \in 1..Len(wire)
      BY <2>1, <3>2 DEF Messages
    <3> QED BY <2>1, <2>2, <3>1, <3>2
  <2> QED BY <1>1, <2>2 DEF Messages
<1>2. CASE conn # "up"
  BY <1>2 DEF Send, Messages
<1> QED BY <1>1, <1>2

LEMMA ReceivedMessages ==
  ASSUME TypeOK, ServerReceives
  PROVE  Messages' \subseteq Messages
<1>1. wire \in Seq(Ads) /\ wire # <<>> /\ wire' = Tail(wire) /\ listed' = wire[1]
  BY DEF TypeOK, ServerReceives
<1>2. listed' \in Messages
  BY <1>1 DEF Messages
<1>3. ASSUME NEW i \in 1..Len(wire') PROVE wire'[i] \in Messages
  <2>1. wire'[i] = wire[i + 1] /\ i + 1 \in 1..Len(wire)
    BY <1>1, <1>3
  <2> QED BY <2>1 DEF Messages
<1> QED BY <1>2, <1>3 DEF Messages

LEMMA FailedMessages == ASSUME Fail PROVE Messages' = {NoAd}
<1>1. Len(wire') = 0 /\ listed' = NoAd
  BY DEF Fail
<1> QED BY <1>1 DEF Messages

(* Only four actions touch the wire or the list.                           *)
LEMMA OtherMessages ==
  ASSUME [Next]_vars, ~SendStop, ~SendAdvertisement, ~ServerReceives, ~Fail
  PROVE  wire' = wire /\ listed' = listed /\ Messages' = Messages
<1>1. wire' = wire /\ listed' = listed
  <2>1. CASE Storm
    BY <2>1 DEF Storm, SpiStartAdvertising, ClearAdvertising,
                RequestAdvertisements, SolicitationAges, GetGameInfo,
                SetTurnsPerSecond, server
  <2>2. CASE Handler
    BY <2>2 DEF Handler, HandleHeartbeat, ClearInactiveAgents, AskIsAdvertising,
                server
  <2>3. CASE World
    BY <2>3 DEF World, GiveUp, Connect, ReceiveProfile, Heartbeat, FallSilent,
                Join, server
  <2>4. CASE UNCHANGED vars
    BY <2>4 DEF vars, server
  <2> QED BY <2>1, <2>2, <2>3, <2>4 DEF Next
<1> QED BY <1>1 DEF Messages

-----------------------------------------------------------------------------
(* A handler runs, or is about to, only with a profile; and without one, or*)
(* without a connection, there is no ad outside.                           *)
IdInv ==
    /\ TypeOK
    /\ listener # "idle" \/ beat => profile
    /\ ~profile \/ conn # "up" => Messages \subseteq {NoAd}
    /\ \A m \in Messages : m = NoAd \/ m.host = id

LEMMA InitId == Init => IdInv
<1> SUFFICES ASSUME Init PROVE IdInv
  OBVIOUS
<1>1. Messages = {NoAd}
  BY DEF Init, Messages
<1> QED BY <1>1, InitTypes DEF Init, IdInv

LEMMA SendStopId == ASSUME IdInv, SendStop, TypeOK' PROVE IdInv'
<1>1. Messages' \subseteq Messages \union {NoAd}
  BY SentMessages DEF SendStop, IdInv
<1> QED BY <1>1 DEF SendStop, IdInv, link

LEMMA SendAdvertisementId == ASSUME IdInv, SendAdvertisement, TypeOK' PROVE IdInv'
<1>1. profile /\ ad'.host = id
  BY DEF SendAdvertisement, IdInv, TypeOK, Ads, Host
<1>2. /\ Messages' \subseteq Messages \union {ad'}
      /\ conn # "up" => Messages' = Messages
  BY SentMessages DEF SendAdvertisement, IdInv
<1> QED BY <1>1, <1>2 DEF SendAdvertisement, IdInv, link

LEMMA NextId == IdInv /\ [Next]_vars => IdInv'
<1> SUFFICES ASSUME IdInv, [Next]_vars PROVE IdInv'
  OBVIOUS
<1>1. TypeOK'
  BY NextTypes DEF IdInv
<1>2. CASE SendStop
  BY <1>1, <1>2, SendStopId
<1>3. CASE SendAdvertisement
  BY <1>1, <1>3, SendAdvertisementId
<1>4. CASE ServerReceives
  <2>1. Messages' \subseteq Messages
    BY <1>4, ReceivedMessages DEF IdInv
  <2> QED BY <1>1, <1>4, <2>1 DEF ServerReceives, IdInv, link
<1>5. CASE Fail
  <2>1. Messages' = {NoAd}
    BY <1>5, FailedMessages
  <2> QED BY <1>1, <1>5, <2>1 DEF Fail, IdInv
<1>6. CASE ~SendStop /\ ~SendAdvertisement /\ ~ServerReceives /\ ~Fail
  <2>1. Messages' = Messages
    BY <1>6, OtherMessages
  <2>2. CASE Storm \/ UNCHANGED vars
    <3>1. UNCHANGED <<listener, link, beat>>
      BY <1>6, <2>2 DEF Storm, SpiStartAdvertising, ClearAdvertising,
         RequestAdvertisements, SolicitationAges, GetGameInfo,
         SetTurnsPerSecond, vars
    <3> QED BY <1>1, <2>1, <3>1 DEF IdInv, link
  <2>3. CASE Handler
    BY <1>1, <1>6, <2>1, <2>3 DEF Handler, HandleHeartbeat,
       ClearInactiveAgents, AskIsAdvertising, IdInv, link
  <2>4. CASE GiveUp
    BY <1>1, <2>1, <2>4 DEF GiveUp, IdInv
  <2>5. CASE Connect
    BY <1>1, <2>1, <2>5 DEF Connect, IdInv
  <2>6. CASE ReceiveProfile
    BY <1>1, <2>1, <2>6 DEF ReceiveProfile, IdInv
  <2>7. CASE Heartbeat
    BY <1>1, <2>1, <2>7 DEF Heartbeat, IdInv, link
  <2>8. CASE FallSilent \/ \E own \in Rates \intersect ValidRates : Join(own)
    <3>1. UNCHANGED <<listener, link, beat>>
      BY <2>8 DEF FallSilent, Join
    <3> QED BY <1>1, <2>1, <3>1 DEF IdInv, link
  <2> QED BY <1>6, <2>2, <2>3, <2>4, <2>5, <2>6, <2>7, <2>8 DEF Next, World
<1> QED BY <1>2, <1>3, <1>4, <1>5, <1>6

(* The server lists the lobby under the id the client has now: is it       *)
(* another one after a new connection, send_advertisement sets it (line    *)
(* 51) before anything is sent over that connection.                       *)
THEOREM OwnIdIsListed == Spec => []ListedUnderOwnId
<1>1. IdInv => ListedUnderOwnId
  BY DEF IdInv, ListedUnderOwnId, Messages
<1> QED BY <1>1, InitId, NextId, PTL DEF Spec

-----------------------------------------------------------------------------
(* While a lobby is open, Storm's rate, the caps, the ad, every message    *)
(* about this game and all who have joined agree on the turn rate.         *)
RateInv ==
    /\ TypeOK
    /\ storm = "browsing" => party = {}
    /\ storm = "hosting" => net = ad.rate /\ caps \in {NoRate, net}
    /\ storm = "hosting" => party \subseteq {ad.rate}
    /\ \A m \in Messages : m.game <= ad.game
    /\ storm = "hosting" =>
         \A m \in Messages : m.game = ad.game /\ m # NoAd => m.rate = ad.rate

LEMMA InitRate == Init => RateInv
<1> SUFFICES ASSUME Init PROVE RateInv
  OBVIOUS
<1>1. Messages = {NoAd}
  BY DEF Init, Messages
<1> QED BY <1>1, InitTypes DEF Init, RateInv, NoAd

(* A new lobby has a number of its own; a new state of it has its rate.    *)
LEMMA StartRate == ASSUME RateInv, SpiStartAdvertising, TypeOK' PROVE RateInv'
<1>1. Messages' = Messages
  BY DEF SpiStartAdvertising, server, Messages
<1>2. /\ ad'.rate = net
      /\ ad'.game = IF storm = "browsing" THEN ad.game + 1 ELSE ad.game
  BY DEF SpiStartAdvertising, StartAdvertising, Create
<1>3. net' = net /\ caps' \in {NoRate, net} /\ party' = party
      /\ storm' = "hosting" /\ storm \in {"browsing", "hosting"}
  BY DEF SpiStartAdvertising, PatchCaps, players
<1>4. ad.game \in Nat /\ \A m \in Messages : m.game \in Nat
  BY MessagesAreAds DEF RateInv, TypeOK, Ads
<1>5. CASE storm = "browsing"
  <2>1. ad'.game = ad.game + 1
    BY <1>2, <1>5
  <2>2. ASSUME NEW m \in Messages
        PROVE  m.game <= ad'.game /\ m.game # ad'.game
    BY <1>4, <2>1 DEF RateInv
  <2> QED BY <1>1, <1>2, <1>3, <1>5, <2>2 DEF RateInv
<1>6. CASE storm = "hosting"
  <2>1. ad'.game = ad.game /\ ad'.rate = ad.rate
    BY <1>2, <1>6 DEF RateInv
  <2> QED BY <1>1, <1>2, <1>3, <1>6, <2>1 DEF RateInv
<1> QED BY <1>3, <1>5, <1>6

LEMMA SendAdvertisementRate ==
  ASSUME RateInv, SendAdvertisement, TypeOK' PROVE RateInv'
<1>1. ad'.game = ad.game /\ ad'.rate = ad.rate /\ ad.game \in Nat
  BY DEF SendAdvertisement, RateInv, TypeOK, Ads
<1>2. Messages' \subseteq Messages \union {ad'}
  BY SentMessages DEF SendAdvertisement, RateInv
<1>3. ASSUME NEW m \in Messages' PROVE m.game <= ad'.game
  BY <1>1, <1>2, <1>3 DEF RateInv
<1>4. ASSUME storm' = "hosting", NEW m \in Messages', m.game = ad'.game, m # NoAd
      PROVE  m.rate = ad'.rate
  BY <1>1, <1>2, <1>4 DEF SendAdvertisement, RateInv
<1>5. UNCHANGED <<storm, net, caps, party>>
  BY DEF SendAdvertisement, rates, players
<1> QED BY <1>1, <1>3, <1>4, <1>5 DEF RateInv

LEMMA JoinRate ==
  ASSUME RateInv, NEW own, Join(own), TypeOK' PROVE RateInv'
<1>1. Messages' = Messages /\ listed \in Messages /\ listed # NoAd
  BY DEF Join, server, Messages, NoAd
<1>2. storm = "browsing" => party' = party
  BY DEF Join
<1>3. ASSUME storm = "hosting" PROVE party' \subseteq {ad.rate}
  <2>1. CASE listed.game = ad.game
    <3>1. listed.rate = ad.rate /\ ad.rate \in ValidRates
      BY <1>1, <1>3, <2>1 DEF RateInv, TypeOK
    <3> QED BY <1>3, <2>1, <3>1 DEF Join, RateInv
  <2>2. CASE listed.game # ad.game
    BY <1>3, <2>2 DEF Join, RateInv
  <2> QED BY <2>1, <2>2
<1> QED BY <1>1, <1>2, <1>3 DEF Join, RateInv, manager, rates

LEMMA NextRate == RateInv /\ ~Retunes /\ [Next]_vars => RateInv'
<1> SUFFICES ASSUME RateInv, ~Retunes, [Next]_vars PROVE RateInv'
  OBVIOUS
<1>1. TypeOK'
  BY NextTypes DEF RateInv
<1>2. CASE SpiStartAdvertising
  BY <1>1, <1>2, StartRate
<1>3. CASE SendStop
  <2>1. Messages' \subseteq Messages \union {NoAd} /\ NoAd.game <= ad.game
    BY <1>3, SentMessages DEF SendStop, RateInv, TypeOK, Ads, NoAd
  <2> QED BY <1>1, <1>3, <2>1 DEF SendStop, RateInv, manager
<1>4. CASE SendAdvertisement
  BY <1>1, <1>4, SendAdvertisementRate
<1>5. CASE ServerReceives
  <2>1. Messages' \subseteq Messages
    BY <1>5, ReceivedMessages DEF RateInv
  <2> QED BY <1>1, <1>5, <2>1
          DEF ServerReceives, RateInv, manager, rates, players
<1>6. CASE Fail
  <2>1. Messages' = {NoAd} /\ NoAd.game <= ad.game
    BY <1>6, FailedMessages DEF RateInv, TypeOK, Ads, NoAd
  <2> QED BY <1>1, <1>6, <2>1 DEF Fail, RateInv, manager, rates, players
<1>7. ASSUME NEW own \in Rates \intersect ValidRates, Join(own) PROVE RateInv'
  BY <1>1, <1>7, JoinRate
<1>8. CASE ClearAdvertising
  <2>1. Messages' = Messages
    BY <1>8 DEF ClearAdvertising, server, Messages
  <2> QED BY <1>1, <1>8, <2>1 DEF ClearAdvertising, RateInv
<1>9. ASSUME NEW rate \in Rates, GetGameInfo(rate) \/ SetTurnsPerSecond(rate)
      PROVE  RateInv'
  <2>1. Messages' = Messages
    BY <1>9 DEF GetGameInfo, SetTurnsPerSecond, server, Messages
  <2> QED BY <1>1, <1>9, <2>1
          DEF GetGameInfo, SetTurnsPerSecond, RateInv, manager, players
<1>10. CASE \/ RequestAdvertisements \/ SolicitationAges \/ HandleHeartbeat
            \/ ClearInactiveAgents \/ AskIsAdvertising \/ GiveUp \/ Connect
            \/ ReceiveProfile \/ Heartbeat \/ FallSilent \/ UNCHANGED vars
  <2>1. UNCHANGED <<storm, ad, rates, server, party>>
    BY <1>10 DEF RequestAdvertisements, SolicitationAges, HandleHeartbeat,
       ClearInactiveAgents, AskIsAdvertising, GiveUp, Connect, ReceiveProfile,
       Heartbeat, FallSilent, vars, manager, players
  <2>2. Messages' = Messages
    BY <2>1 DEF server, Messages
  <2> QED BY <1>1, <2>1, <2>2 DEF RateInv, rates
<1> QED BY <1>2, <1>3, <1>4, <1>5, <1>6, <1>7, <1>8, <1>9, <1>10
        DEF Next, Storm, Handler, World

(* All who have joined play at the rate of the host's Storm, if the front  *)
(* end does not set the rate while a lobby is open.                        *)
THEOREM JoinersAtHostsRate ==
  ASSUME ~Retunes PROVE Spec => []JoinersPlayAtHostsRate
<1>1. RateInv => JoinersPlayAtHostsRate
  BY DEF RateInv, JoinersPlayAtHostsRate
<1>2. RateInv /\ [Next]_vars => RateInv'
  BY NextRate
<1> QED BY <1>1, <1>2, InitRate, PTL DEF Spec

-----------------------------------------------------------------------------
(* A player waits in the open lobby, as in JoinersKept.                     *)
Waiting ==
    storm = "hosting" /\ ad.open /\ joiner # NoJoiner /\ joiner.game = ad.game

(* The handler clears agents only when it has found no open lobby, and a   *)
(* lobby that is opened meanwhile has a number that nobody has joined.     *)
KeptInv ==
    /\ TypeOK
    /\ storm = "hosting" => advertising
    /\ \A m \in Messages : m.game <= ad.game
    /\ joiner.game <= ad.game
    /\ listener = "clearing" => ~Waiting

LEMMA InitKept == Init => KeptInv
<1> SUFFICES ASSUME Init PROVE KeptInv
  OBVIOUS
<1>1. Messages = {NoAd}
  BY DEF Init, Messages
<1> QED BY <1>1, InitTypes DEF Init, KeptInv, NoAd, NoJoiner

LEMMA NextKept == KeptInv /\ [Next]_vars => KeptInv'
<1> SUFFICES ASSUME KeptInv, [Next]_vars PROVE KeptInv'
  OBVIOUS
<1>1. TypeOK' /\ ad.game \in Nat /\ joiner.game \in Nat
      /\ \A m \in Messages : m.game \in Nat
  BY NextTypes, MessagesAreAds DEF KeptInv, TypeOK, Ads
<1>2. CASE SpiStartAdvertising
  <2>1. Messages' = Messages /\ joiner' = joiner /\ listener' = listener
    BY <1>2 DEF SpiStartAdvertising, server, players, Messages
  <2>2. advertising' = TRUE
    BY <1>2 DEF SpiStartAdvertising, StartAdvertising
  <2>3. CASE storm = "browsing"
    <3>1. ad'.game = ad.game + 1
      BY <1>2, <2>3 DEF SpiStartAdvertising, StartAdvertising, Create
    <3>2. joiner.game <= ad'.game /\ joiner.game # ad'.game
          /\ \A m \in Messages : m.game <= ad'.game
      BY <1>1, <3>1 DEF KeptInv
    <3> QED BY <1>1, <2>1, <2>2, <3>2 DEF KeptInv, Waiting
  <2>4. CASE storm = "hosting"
    <3>1. ad'.game = ad.game /\ (ad'.open => ad.open)
      BY <1>2, <2>4 DEF SpiStartAdvertising, StartAdvertising, Create
    <3> QED BY <1>1, <2>1, <2>2, <2>4, <3>1 DEF KeptInv, Waiting
  <2> QED BY <1>2, <2>3, <2>4 DEF SpiStartAdvertising
<1>3. CASE SendStop
  <2>1. Messages' \subseteq Messages \union {NoAd} /\ NoAd.game <= ad.game
    BY <1>1, <1>3, SentMessages DEF SendStop, KeptInv, NoAd
  <2> QED BY <1>1, <1>3, <2>1 DEF SendStop, KeptInv, Waiting, manager, players
<1>4. CASE SendAdvertisement
  <2>1. ad'.game = ad.game /\ Messages' \subseteq Messages \union {ad'}
    BY <1>4, SentMessages DEF SendAdvertisement, KeptInv, TypeOK, Ads
  <2>2. \A m \in Messages' : m.game <= ad'.game
    BY <1>1, <2>1 DEF KeptInv
  <2> QED BY <1>1, <1>4, <2>1, <2>2 DEF SendAdvertisement, KeptInv, players
<1>5. CASE ServerReceives
  <2>1. Messages' \subseteq Messages
    BY <1>5, ReceivedMessages DEF KeptInv
  <2> QED BY <1>1, <1>5, <2>1
          DEF ServerReceives, KeptInv, Waiting, manager, players
<1>6. CASE Fail
  <2>1. Messages' = {NoAd} /\ NoAd.game <= ad.game
    BY <1>1, <1>6, FailedMessages DEF NoAd
  <2> QED BY <1>1, <1>6, <2>1 DEF Fail, KeptInv, Waiting, manager, players
<1>7. ASSUME NEW own \in Rates \intersect ValidRates, Join(own) PROVE KeptInv'
  <2>1. joiner'.game = listed.game /\ listed \in Messages /\ Messages' = Messages
        /\ listener' # "clearing"
    BY <1>7 DEF Join, server, Messages
  <2> QED BY <1>1, <1>7, <2>1 DEF Join, KeptInv, manager
<1>8. CASE ClearInactiveAgents
  <2>1. joiner'.game <= ad.game /\ Messages' = Messages
    BY <1>1, <1>8 DEF ClearInactiveAgents, KeptInv, NoJoiner, server, Messages
  <2> QED BY <1>1, <1>8, <2>1 DEF ClearInactiveAgents, KeptInv, manager
<1>9. CASE HandleHeartbeat
  <2>1. UNCHANGED <<ad, storm, advertising, joiner>> /\ Messages' = Messages
    BY <1>9 DEF HandleHeartbeat, manager, players, server, Messages
  <2>2. listener' = "clearing" => ~(advertising /\ ad.open)
    BY <1>9 DEF HandleHeartbeat, InGamesList
  <2> QED BY <1>1, <2>1, <2>2 DEF KeptInv, Waiting
<1>10. CASE ClearAdvertising
  <2>1. Messages' = Messages /\ UNCHANGED <<ad, joiner>> /\ storm' = "browsing"
    BY <1>10 DEF ClearAdvertising, server, Messages
  <2> QED BY <1>1, <2>1 DEF KeptInv, Waiting
<1>11. CASE FallSilent
  <2>1. joiner'.game = joiner.game /\ joiner # NoJoiner
    BY <1>11 DEF FallSilent, KeptInv, TypeOK
  <2>2. UNCHANGED <<storm, ad, advertising, listener>> /\ Messages' = Messages
    BY <1>11 DEF FallSilent, manager, server, Messages
  <2> QED BY <1>1, <2>1, <2>2 DEF KeptInv, Waiting
<1>12. CASE \/ RequestAdvertisements \/ SolicitationAges
            \/ \E rate \in Rates : GetGameInfo(rate) \/ SetTurnsPerSecond(rate)
            \/ AskIsAdvertising \/ GiveUp \/ Connect \/ ReceiveProfile
            \/ Heartbeat \/ UNCHANGED vars
  <2>1. UNCHANGED <<storm, ad, advertising, joiner, server>>
        /\ listener' \in {listener, "sending", "idle"}
    BY <1>12 DEF RequestAdvertisements, SolicitationAges, GetGameInfo,
       SetTurnsPerSecond, AskIsAdvertising, GiveUp, Connect, ReceiveProfile,
       Heartbeat, vars, manager, players
  <2>2. Messages' = Messages
    BY <2>1 DEF server, Messages
  <2> QED BY <1>1, <2>1, <2>2 DEF KeptInv, Waiting
<1> QED BY <1>2, <1>3, <1>4, <1>5, <1>6, <1>7, <1>8, <1>9, <1>10, <1>11, <1>12
        DEF Next, Storm, Handler, World

(* clear_inactive_agents leaves those who wait in the open lobby, whatever *)
(* Storm does between the look at in_games_list and the clearing.          *)
THEOREM JoinersStay == Spec => JoinersKept
<1>1. KeptInv /\ [Next]_vars
      => [ClearInactiveAgents /\ storm = "hosting" /\ ad.open
            /\ joiner # NoJoiner /\ joiner.game = ad.game
          => joiner' = joiner]_vars
  BY DEF KeptInv, Waiting, ClearInactiveAgents
<1> QED BY <1>1, InitKept, NextKept, PTL DEF Spec, JoinersKept

-----------------------------------------------------------------------------
(* What the server lists and what is on its way is numbered in order, but  *)
(* for the stops between, up to the latest.                                *)
Ordered ==
    /\ \A i \in 1..Len(wire) : wire[i].no = 0 \/ listed.no <= wire[i].no
    /\ \A i, j \in 1..Len(wire) :
         i < j => wire[j].no = 0 \/ wire[i].no <= wire[j].no
OrderInv ==
    /\ TypeOK
    /\ \A m \in Messages : m.no <= ad.no
    /\ Ordered

LEMMA InitOrder == Init => OrderInv
<1> SUFFICES ASSUME Init PROVE OrderInv
  OBVIOUS
<1>1. Messages = {NoAd} /\ NoAd.no <= ad.no
  BY DEF Init, Messages, NoAd
<1>2. Ordered
  BY DEF Init, Ordered
<1> QED BY <1>1, <1>2, InitTypes DEF OrderInv

LEMMA SentInOrder ==
  ASSUME OrderInv, NEW message \in Ads, Send(message), listed' = listed,
         message.no \in {0, ad.no}
  PROVE  Ordered'
<1>1. CASE conn = "up"
  <2>1. wire' = Append(wire, message) /\ wire \in Seq(Ads)
    BY <1>1 DEF Send, OrderInv, TypeOK
  <2>2. ASSUME NEW i \in 1..Len(wire')
        PROVE  \/ i \in 1..Len(wire) /\ wire'[i] = wire[i]
               \/ i = Len(wire) + 1 /\ wire'[i] = message
    BY <2>1, <2>2
  <2>3. \A i \in 1..Len(wire) : wire[i].no <= ad.no
    BY DEF OrderInv, Messages
  <2>4. listed.no <= ad.no
    BY DEF OrderInv, Messages
  <2>5. ASSUME NEW i \in 1..Len(wire')
        PROVE  wire'[i].no = 0 \/ listed.no <= wire'[i].no
    BY <2>2, <2>4, <2>5 DEF OrderInv, Ordered
  <2>6. ASSUME NEW i \in 1..Len(wire'), NEW j \in 1..Len(wire'), i < j
        PROVE  wire'[j].no = 0 \/ wire'[i].no <= wire'[j].no
    <3>1. i \in 1..Len(wire) /\ wire'[i] = wire[i]
      BY <2>1, <2>6
    <3>2. CASE j \in 1..Len(wire) /\ wire'[j] = wire[j]
      BY <2>6, <3>1, <3>2 DEF OrderInv, Ordered
    <3>3. CASE wire'[j] = message
      BY <2>3, <3>1, <3>3
    <3> QED BY <2>2, <3>2, <3>3
  <2> QED BY <2>5, <2>6 DEF Ordered
<1>2. CASE conn # "up"
  BY <1>2 DEF Send, OrderInv, Ordered
<1> QED BY <1>1, <1>2

LEMMA ReceivedInOrder ==
  ASSUME OrderInv, ServerReceives
  PROVE  Ordered' /\ (listed'.no = 0 \/ listed.no <= listed'.no)
<1>1. wire \in Seq(Ads) /\ wire # <<>> /\ wire' = Tail(wire) /\ listed' = wire[1]
  BY DEF OrderInv, TypeOK, ServerReceives
<1>2. ASSUME NEW i \in 1..Len(wire')
      PROVE  wire'[i] = wire[i + 1] /\ i + 1 \in 1..Len(wire) /\ 1 < i + 1
  BY <1>1, <1>2
<1>3. 1 \in 1..Len(wire)
  BY <1>1
<1>4. ASSUME NEW i \in 1..Len(wire')
      PROVE  wire'[i].no = 0 \/ listed'.no <= wire'[i].no
  BY <1>1, <1>2, <1>3, <1>4 DEF OrderInv, Ordered
<1>5. ASSUME NEW i \in 1..Len(wire'), NEW j \in 1..Len(wire'), i < j
      PROVE  wire'[j].no = 0 \/ wire'[i].no <= wire'[j].no
  <2>1. i + 1 < j + 1
    BY <1>5
  <2> QED BY <1>2, <2>1 DEF OrderInv, Ordered
<1>6. listed'.no = 0 \/ listed.no <= listed'.no
  BY <1>1, <1>3 DEF OrderInv, Ordered
<1> QED BY <1>4, <1>5, <1>6 DEF Ordered

LEMMA NextOrder == OrderInv /\ [Next]_vars => OrderInv'
<1> SUFFICES ASSUME OrderInv, [Next]_vars PROVE OrderInv'
  OBVIOUS
<1>1. TypeOK'
  BY NextTypes DEF OrderInv
<1>2. ad.no \in Nat /\ \A m \in Messages : m.no \in Nat
  BY MessagesAreAds DEF OrderInv, TypeOK, Ads
<1>3. CASE SendStop
  <2>1. Messages' \subseteq Messages \union {NoAd} /\ NoAd.no <= ad.no
    BY <1>2, <1>3, SentMessages DEF SendStop, OrderInv, NoAd
  <2>2. Ordered'
    BY <1>3, SentInOrder, Constants DEF SendStop, NoAd
  <2> QED BY <1>1, <1>3, <2>1, <2>2 DEF SendStop, OrderInv, manager
<1>4. CASE SendAdvertisement
  <2>1. ad'.no = ad.no /\ ad' \in Ads
    BY <1>1, <1>4 DEF SendAdvertisement, OrderInv, TypeOK, Ads
  <2>2. Messages' \subseteq Messages \union {ad'}
    BY <1>4, SentMessages DEF SendAdvertisement, OrderInv
  <2>3. Ordered'
    BY <1>4, <2>1, SentInOrder DEF SendAdvertisement
  <2> QED BY <1>1, <1>2, <2>1, <2>2, <2>3 DEF OrderInv
<1>5. CASE ServerReceives
  <2>1. Messages' \subseteq Messages /\ Ordered'
    BY <1>5, ReceivedMessages, ReceivedInOrder DEF OrderInv
  <2> QED BY <1>1, <1>5, <2>1 DEF ServerReceives, OrderInv, manager
<1>6. CASE Fail
  <2>1. Messages' = {NoAd} /\ NoAd.no <= ad.no /\ Len(wire') = 0
    BY <1>2, <1>6, FailedMessages DEF Fail, NoAd
  <2> QED BY <1>1, <1>6, <2>1 DEF Fail, OrderInv, Ordered, manager
<1>7. CASE ~SendStop /\ ~SendAdvertisement /\ ~ServerReceives /\ ~Fail
  <2>1. wire' = wire /\ listed' = listed /\ Messages' = Messages
    BY <1>7, OtherMessages
  <2>2. ad'.no = ad.no \/ ad'.no = ad.no + 1
    <3>1. CASE SpiStartAdvertising
      BY <3>1 DEF SpiStartAdvertising, StartAdvertising, Create
    <3>2. CASE ~SpiStartAdvertising
      BY <1>7, <3>2 DEF Next, Storm, Handler, World, ClearAdvertising,
         RequestAdvertisements, SolicitationAges, GetGameInfo,
         SetTurnsPerSecond, HandleHeartbeat, ClearInactiveAgents,
         AskIsAdvertising, GiveUp, Connect, ReceiveProfile, Heartbeat,
         FallSilent, Join, vars, manager
    <3> QED BY <3>1, <3>2
  <2>3. \A m \in Messages : m.no <= ad'.no
    BY <1>2, <2>2 DEF OrderInv
  <2> QED BY <1>1, <2>1, <2>3 DEF OrderInv, Ordered
<1> QED BY <1>3, <1>4, <1>5, <1>6, <1>7

-----------------------------------------------------------------------------
(* The initial states are a Noticeboard's, and every step is one of its    *)
(* steps or leaves the board alone.                                        *)
LEMMA InitBoard == Init => Board!Init
BY DEF Init, Board!Init, NoAd

LEMMA ServerReceivesBoard ==
  ASSUME OrderInv, OrderInv', ServerReceives
  PROVE  [Board!Next]_(Board!board)
<1>1. ad' = ad /\ storm' = storm
  BY DEF ServerReceives, manager
<1>2. listed.no \in Nat /\ listed'.no \in Nat /\ ad.no \in Nat
  BY DEF OrderInv, TypeOK, Ads
<1>3. listed'.no <= ad.no
  BY <1>1 DEF OrderInv, Messages
<1>4. listed'.no = 0 \/ listed.no <= listed'.no
  BY ReceivedInOrder
<1>5. CASE listed'.no = listed.no
  BY <1>1, <1>5 DEF Board!board
<1>6. CASE listed'.no = 0 /\ listed.no # 0
  BY <1>1, <1>6 DEF Board!Next, Board!Clear
<1>7. CASE listed'.no > listed.no
  <2>1. listed'.no \in 1..ad.no
    BY <1>2, <1>3, <1>7
  <2> QED BY <1>1, <1>7, <2>1 DEF Board!Next, Board!Show
<1> QED BY <1>2, <1>4, <1>5, <1>6, <1>7

LEMMA NextBoard ==
  OrderInv /\ [Next]_vars => [Board!Next]_(Board!board)
<1> SUFFICES ASSUME OrderInv, [Next]_vars PROVE [Board!Next]_(Board!board)
  OBVIOUS
<1>1. OrderInv'
  BY NextOrder
<1>2. CASE ServerReceives
  BY <1>1, <1>2, ServerReceivesBoard
<1>3. CASE SpiStartAdvertising
  <2>1. ad'.no = ad.no + 1 /\ storm' = "hosting" /\ listed' = listed
    BY <1>3 DEF SpiStartAdvertising, StartAdvertising, Create, server
  <2> QED BY <2>1 DEF Board!Next, Board!Post
<1>4. CASE SendStop
  BY <1>4 DEF SendStop, manager, Board!Next, Board!Withdraw
<1>5. CASE Fail
  <2>1. ad' = ad /\ storm' = storm /\ listed'.no = 0
    BY <1>5 DEF Fail, manager, NoAd
  <2>2. CASE listed.no = 0
    BY <2>1, <2>2 DEF Board!board
  <2>3. CASE listed.no # 0
    BY <2>1, <2>3 DEF Board!Next, Board!Clear
  <2> QED BY <2>2, <2>3
<1>6. CASE SendAdvertisement
  <2>1. ad'.no = ad.no
    BY <1>6 DEF SendAdvertisement, OrderInv, TypeOK, Ads
  <2> QED BY <1>6, <2>1 DEF SendAdvertisement, Board!board
<1>7. CASE ClearAdvertising
  BY <1>7 DEF ClearAdvertising, server, Board!board
<1>8. CASE \/ RequestAdvertisements \/ SolicitationAges
           \/ \E rate \in Rates : GetGameInfo(rate) \/ SetTurnsPerSecond(rate)
           \/ HandleHeartbeat \/ ClearInactiveAgents \/ AskIsAdvertising
           \/ GiveUp \/ Connect \/ ReceiveProfile \/ Heartbeat \/ FallSilent
           \/ \E own \in Rates \intersect ValidRates : Join(own)
           \/ UNCHANGED vars
  <2>1. UNCHANGED <<storm, ad, listed>>
    BY <1>8 DEF RequestAdvertisements, SolicitationAges, GetGameInfo,
       SetTurnsPerSecond, HandleHeartbeat, ClearInactiveAgents,
       AskIsAdvertising, GiveUp, Connect, ReceiveProfile, Heartbeat,
       FallSilent, Join, vars, manager, server
  <2> QED BY <2>1 DEF Board!board
<1> QED BY <1>2, <1>3, <1>4, <1>5, <1>6, <1>7, <1>8
        DEF Next, Storm, Handler, World

(* Advertising implements Noticeboard: between two ends of a connection the*)
(* server never lists an older state of the lobby after a newer one, nor   *)
(* one that Storm has not given.  (That the latest is listed in the end is *)
(* the run's to check.)                                                    *)
THEOREM BoardImplemented == Spec => Board!Spec
<1>1. OrderInv /\ [Next]_vars => OrderInv'
  BY NextOrder
<1> QED BY <1>1, InitOrder, InitBoard, NextBoard, PTL DEF Spec, Board!Spec
=============================================================================
