----------------------------- MODULE Advertising -----------------------------
(***************************************************************************)
(* The player's own lobby: AdvertisementManager's m_ad_data and            *)
(* m_is_advertising (src/snp/AdvertisementManager.cpp), which Storm sets   *)
(* and clears through SNPModule.cpp, and which the listener's handler of   *)
(* the server's heartbeat (CrowServeManager.cpp) sends; with the turn rate *)
(* that an ad carries to those who join.  Noticeboard is what it promises. *)
(*                                                                         *)
(* Every critical section of m_ad_mutex is a step.  The connection is what *)
(* is left of ServerSocket: it fails, is given up and made again, with the *)
(* id the client had or another.  Messages come whole.  External: Storm,   *)
(* the front end, those who join, and the server, which lists the last ad  *)
(* it has got over a connection until it is told to stop or the connection *)
(* ends.                                                                   *)
(***************************************************************************)
EXTENDS Integers, Sequences

CONSTANTS Rates,     \* the turn rates that caps.dat and front ends come up with
          MaxPosts,  \* how often Storm calls spi_start_advertising
          MaxFaults, \* how often the connection fails
          MaxWire,   \* no heartbeat while more messages are on their way
          Retunes    \* the front end sets the turn rate while a lobby is open

ASSUME BoundsAssumption ==
    MaxPosts \in Nat /\ MaxFaults \in Nat /\ MaxWire \in Nat
ASSUME RatesAssumption == Rates \subseteq Nat \ {0}
ASSUME EnvironmentAssumption == Retunes \in BOOLEAN

(* TurnsPerSecond, with is_valid, and what g_network_info starts with.     *)
ValidRates == {4, 6, 8, 10, 12}
Standard == 8
NoRate == 0   \* Storm's caps have not been captured

(* What matters of an AdFile: which call of start_advertising it comes     *)
(* from, its game, whether game_state says open, its rate and its host.    *)
Ads == [no : 0..MaxPosts, game : Nat, open : BOOLEAN,
        rate : ValidRates \union {NoRate}, host : 0..(MaxFaults + 1)]
NoAd == [no |-> 0, game |-> 0, open |-> FALSE, rate |-> NoRate, host |-> 0]

NoJoiner == [game |-> 0, silent |-> FALSE]

VARIABLES storm,       \* "browsing", "hosting", or "stopping": in the middle
                       \* of stop_advertising
          ad,          \* m_ad_data
          advertising, \* m_is_advertising
          solicited,   \* m_last_solicitation is less than two seconds ago
          net,         \* g_network_info.caps.turns_per_second
          caps,        \* g_storm_caps->turns_per_second
          listener,    \* where the heartbeat's handler is, or "idle"
          conn,        \* "up", "dead" and not noticed yet, or "down": only
                       \* then m_state is not Ready
          profile,     \* the client has its id, and the server sends heartbeats
          id,          \* m_id
          beat,        \* a heartbeat is at the listener
          wire,        \* on its way to the server: StartAdvertising as its ad,
                       \* StopAdvertising as NoAd
          listed,      \* what the server lists for this client
          joiner,      \* the agent there is for a player who has joined
          party,       \* the turn rates of those who have joined the game
          overtaken,   \* history: the handler has let an ad follow the stop
          faults

manager == <<ad, advertising, solicited>>
rates == <<net, caps>>
link == <<conn, profile, id>>
server == <<wire, listed>>
players == <<joiner, party>>
vars == <<storm, manager, rates, listener, link, beat, server, players,
          overtaken, faults>>

Ready == conn # "down"

(* send_messages: nothing is sent without a connection that counts as one. *)
Send(message) ==
    wire' = IF conn = "up" THEN Append(wire, message) ELSE wire

-----------------------------------------------------------------------------
(* capture_provider_caps, of what caps.dat has declared, in spi_initialize.*)
(* A slip adopts any rate.                                                 *)
AdoptAny(declared) == IF declared # NoRate THEN declared ELSE Standard
Adopt(declared) == IF declared \in ValidRates THEN declared ELSE Standard

(* set_provider_turns_per_second, and a slip that does not patch the caps. *)
LeaveCaps(rate) == UNCHANGED caps
PatchCaps(rate) == caps' = IF caps = NoRate THEN NoRate ELSE rate

(* set_snp_turns_per_second.                                               *)
SetRate(rate) ==
    IF rate \in ValidRates THEN net' = rate /\ PatchCaps(rate)
    ELSE UNCHANGED rates

Init ==
    /\ storm = "browsing" /\ ad = NoAd /\ advertising = FALSE
    /\ solicited = TRUE
    /\ caps \in Rates \union {NoRate} /\ net = Adopt(caps)
    /\ listener = "idle" /\ conn = "down" /\ profile = FALSE /\ id = 0
    /\ beat = FALSE /\ wire = <<>> /\ listed = NoAd
    /\ joiner = NoJoiner /\ party = {} /\ overtaken = FALSE /\ faults = 0

-----------------------------------------------------------------------------
(* Storm.  create_ad overwrites m_ad_data, without a host.                  *)
Create(game, open) ==
    [no |-> ad.no + 1, game |-> game, open |-> open, rate |-> net, host |-> 0]

StartAdvertising(game, open) ==
    /\ ad' = Create(game, open)
    /\ advertising' = TRUE

(* spi_start_advertising_ladder_game, for a new lobby, and whenever the    *)
(* lobby changes.  Once a game has begun it does not open again.           *)
SpiStartAdvertising ==
    /\ storm \in {"browsing", "hosting"} /\ ad.no < MaxPosts
    /\ storm' = "hosting"
    /\ \E open \in BOOLEAN :
         /\ storm = "browsing" => open
         /\ storm = "hosting" => (open => ad.open)
         /\ StartAdvertising(IF storm = "browsing" THEN ad.game + 1 ELSE ad.game,
                             open)
    /\ PatchCaps(net) /\ UNCHANGED net
    /\ overtaken' = IF storm = "browsing" THEN FALSE ELSE overtaken
    /\ UNCHANGED <<solicited, listener, link, beat, server, players, faults>>

(* stop_advertising sends, and then takes the lock.  A slip does not send. *)
StopUnsent ==
    /\ storm = "hosting"
    /\ storm' = "stopping"
    /\ UNCHANGED <<manager, rates, listener, link, beat, server, players,
                   overtaken, faults>>

SendStop ==
    /\ storm = "hosting"
    /\ Send(NoAd)
    /\ storm' = "stopping"
    /\ UNCHANGED <<manager, rates, listener, link, beat, listed, players,
                   overtaken, faults>>

(* A slip leaves m_is_advertising.                                         *)
StopForgotten ==
    /\ storm = "stopping"
    /\ storm' = "browsing"
    /\ party' = {}
    /\ overtaken' = (overtaken \/ listener = "sending")
    /\ UNCHANGED <<manager, rates, listener, link, beat, server, joiner,
                   faults>>

ClearAdvertising ==
    /\ storm = "stopping"
    /\ advertising' = FALSE
    /\ storm' = "browsing"
    /\ party' = {}
    /\ overtaken' = (overtaken \/ listener = "sending")
    /\ UNCHANGED <<ad, solicited, rates, listener, link, beat, server, joiner,
                   faults>>

(* request_advertisements, from the games list, and two seconds later.     *)
RequestAdvertisements ==
    /\ storm = "browsing"
    /\ solicited' = TRUE
    /\ UNCHANGED <<storm, ad, advertising, rates, listener, link, beat, server,
                   players, overtaken, faults>>

SolicitationAges ==
    /\ solicited' = FALSE
    /\ UNCHANGED <<storm, ad, advertising, rates, listener, link, beat, server,
                   players, overtaken, faults>>

(* spi_get_game_info, for a game whose ad has some rate, and the front     *)
(* end's set_turns_per_second.                                             *)
GetGameInfo(rate) ==
    /\ storm = "browsing"
    /\ SetRate(rate)
    /\ UNCHANGED <<storm, manager, listener, link, beat, server, players,
                   overtaken, faults>>

SetTurnsPerSecond(rate) ==
    /\ storm = "browsing" \/ Retunes
    /\ SetRate(rate)
    /\ UNCHANGED <<storm, manager, listener, link, beat, server, players,
                   overtaken, faults>>

Storm ==
    \/ SpiStartAdvertising \/ SendStop \/ ClearAdvertising
    \/ RequestAdvertisements \/ SolicitationAges
    \/ \E rate \in Rates : GetGameInfo(rate) \/ SetTurnsPerSecond(rate)

-----------------------------------------------------------------------------
(* The listener's handler of a heartbeat.  in_games_list: a slip looks only*)
(* at the solicitation.                                                    *)
OnlySolicited == solicited
InGamesList == (advertising /\ ad.open) \/ solicited

HandleHeartbeat ==
    /\ listener = "idle" /\ beat
    /\ beat' = FALSE
    /\ listener' = IF InGamesList THEN "asking" ELSE "clearing"
    /\ UNCHANGED <<storm, manager, rates, link, server, players, overtaken,
                   faults>>

ClearInactiveAgents ==
    /\ listener = "clearing"
    /\ joiner' = IF joiner.silent THEN NoJoiner ELSE joiner
    /\ listener' = "asking"
    /\ UNCHANGED <<storm, manager, rates, link, beat, server, party, overtaken,
                   faults>>

(* is_advertising takes the lock and gives it back.  The answer to the     *)
(* heartbeat, when there is no ad, tells the server nothing it keeps.  A   *)
(* slip asks in_games_list.                                                *)
AskInGamesList ==
    /\ listener = "asking"
    /\ listener' = IF InGamesList THEN "sending" ELSE "idle"
    /\ UNCHANGED <<storm, manager, rates, link, beat, server, players,
                   overtaken, faults>>

AskIsAdvertising ==
    /\ listener = "asking"
    /\ listener' = IF advertising THEN "sending" ELSE "idle"
    /\ UNCHANGED <<storm, manager, rates, link, beat, server, players,
                   overtaken, faults>>

(* send_advertisement.  A slip sets the host of an ad once.                *)
HostOnce == IF ad.host = 0 THEN id ELSE ad.host
Host == id

SendAdvertisement ==
    /\ listener = "sending"
    /\ ad' = [ad EXCEPT !.host = Host]
    /\ Send(ad')
    /\ listener' = "idle"
    /\ overtaken' = (overtaken \/ storm = "stopping")
    /\ UNCHANGED <<storm, advertising, solicited, rates, link, beat, listed,
                   players, faults>>

Handler ==
    HandleHeartbeat \/ ClearInactiveAgents \/ AskIsAdvertising
    \/ SendAdvertisement

-----------------------------------------------------------------------------
(* The connection.  The listener gives it up and makes it between handlers.*)
Fail ==
    /\ conn = "up" /\ faults < MaxFaults
    /\ conn' = "dead" /\ faults' = faults + 1
    /\ wire' = <<>> /\ listed' = NoAd
    /\ UNCHANGED <<storm, manager, rates, listener, profile, id, beat, players,
                   overtaken>>

GiveUp ==
    /\ conn = "dead" /\ listener = "idle"
    /\ conn' = "down" /\ profile' = FALSE /\ beat' = FALSE
    /\ UNCHANGED <<storm, manager, rates, listener, id, server, players,
                   overtaken, faults>>

Connect ==
    /\ conn = "down" /\ listener = "idle"
    /\ conn' = "up"
    /\ UNCHANGED <<storm, manager, rates, listener, profile, id, beat, server,
                   players, overtaken, faults>>

(* The profile brings the id that was asked for, or another one.           *)
ReceiveProfile ==
    /\ conn = "up" /\ ~profile /\ listener = "idle"
    /\ profile' = TRUE
    /\ id' \in {id, faults + 1} \ {0}
    /\ UNCHANGED <<storm, manager, rates, listener, conn, beat, server, players,
                   overtaken, faults>>

Heartbeat ==
    /\ conn = "up" /\ profile /\ ~beat /\ Len(wire) <= MaxWire
    /\ beat' = TRUE
    /\ UNCHANGED <<storm, manager, rates, listener, link, server, players,
                   overtaken, faults>>

ServerReceives ==
    /\ wire # <<>>
    /\ listed' = Head(wire) /\ wire' = Tail(wire)
    /\ UNCHANGED <<storm, manager, rates, listener, link, beat, players,
                   overtaken, faults>>

(* Another player joins the listed game: takes its rate in                 *)
(* spi_get_game_info, if it is valid, and sends a request, for which the   *)
(* listener makes an agent.  Storm lets the player in if there is such a   *)
(* game.  In a lobby little is sent: after two minutes the agent counts as *)
(* inactive.                                                               *)
Join(own) ==
    /\ listed.open /\ listener = "idle" /\ conn = "up"
    /\ joiner' = [game |-> listed.game, silent |-> FALSE]
    /\ party' = IF storm = "hosting" /\ listed.game = ad.game
                THEN party \union {IF listed.rate \in ValidRates
                                   THEN listed.rate ELSE own}
                ELSE party
    /\ UNCHANGED <<storm, manager, rates, listener, link, beat, server,
                   overtaken, faults>>

FallSilent ==
    /\ joiner # NoJoiner
    /\ joiner' = [joiner EXCEPT !.silent = TRUE]
    /\ UNCHANGED <<storm, manager, rates, listener, link, beat, server, party,
                   overtaken, faults>>

World ==
    \/ Fail \/ GiveUp \/ Connect \/ ReceiveProfile \/ Heartbeat
    \/ ServerReceives \/ FallSilent
    \/ \E own \in Rates \intersect ValidRates : Join(own)

Next == Storm \/ Handler \/ World

Spec == Init /\ [][Next]_vars

(* Every thread goes on, the server beats and receives, and the listener   *)
(* notices a dead connection and makes a new one (EventuallyServed of      *)
(* ServerSocket).  Nobody has to host, to stop or to join.                 *)
Fairness ==
    /\ WF_vars(ClearAdvertising) /\ WF_vars(Handler)
    /\ WF_vars(GiveUp) /\ WF_vars(Connect) /\ WF_vars(ReceiveProfile)
    /\ WF_vars(Heartbeat) /\ WF_vars(ServerReceives)

FairSpec == Spec /\ Fairness

-----------------------------------------------------------------------------
(* Everything has its type.                                                *)
TypeOK ==
    /\ storm \in {"browsing", "hosting", "stopping"}
    /\ ad \in Ads /\ advertising \in BOOLEAN /\ solicited \in BOOLEAN
    /\ net \in ValidRates /\ caps \in Rates \union ValidRates \union {NoRate}
    /\ listener \in {"idle", "clearing", "asking", "sending"}
    /\ conn \in {"up", "dead", "down"} /\ profile \in BOOLEAN
    /\ id \in 0..(MaxFaults + 1) /\ beat \in BOOLEAN
    /\ wire \in Seq(Ads) /\ listed \in Ads
    /\ joiner \in [game : Nat, silent : BOOLEAN]
    /\ party \subseteq ValidRates
    /\ overtaken \in BOOLEAN /\ faults \in 0..MaxFaults

(* The lobby is listed under the id by which the client is reached now,    *)
(* also after it has come back as another one.                             *)
ListedUnderOwnId == listed # NoAd => listed.host = id

(* Whoever has joined the game plays at the turn rate of the host's Storm, *)
(* which the front end leaves alone while a lobby is open.                 *)
JoinersPlayAtHostsRate ==
    storm = "hosting" /\ caps # NoRate => party \subseteq {caps}

(* The agent of a player who waits in the open lobby is not cleared,       *)
(* however long the player is silent.                                      *)
JoinersKept ==
    [][ClearInactiveAgents /\ storm = "hosting" /\ ad.open
         /\ joiner # NoJoiner /\ joiner.game = ad.game
       => joiner' = joiner]_vars

(* The server lists the lobby as on a Noticeboard: never an older state    *)
(* after a newer one, and in the end the latest.                           *)
Board == INSTANCE Noticeboard
           WITH latest <- ad.no, wanted <- storm = "hosting",
                shown <- listed.no
BoardKept == Board!FairSpec

(* A lobby that has been closed is not listed for good, unless a heartbeat *)
(* was handled while stop_advertising was under way (line 60): then the ad *)
(* may have followed the stop.                                             *)
EventuallyUnlisted ==
    <>[](storm = "browsing" => listed = NoAd \/ overtaken)
=============================================================================
