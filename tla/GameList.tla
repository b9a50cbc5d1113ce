------------------------------ MODULE GameList ------------------------------
(***************************************************************************)
(* The list of lobbies that AdvertisementManager keeps                     *)
(* (src/snp/AdvertisementManager.h, .cpp) and the three threads at it:     *)
(* Storm, which locks the list, follows it through its pNext pointers,     *)
(* unlocks it and later asks for one game by its index (spi_lock_game_list,*)
(* spi_unlock_game_list and spi_get_game_info of SNPModule.cpp); the       *)
(* listener, which replaces the lobbies with what the server says; and a   *)
(* front end that calls the functions DLLMain.cpp exports.                 *)
(*                                                                         *)
(* A pointer to a lobby is the number of its slot in the vector m_lobbies. *)
(* Every critical section of the listener and of the front end is a step;  *)
(* Storm's spans several calls.  The texts of the rows, the status text    *)
(* and the layout are left out.  External: Storm, the front end, and the   *)
(* server, which answers a request with an ad for each of some hosts.      *)
(***************************************************************************)
EXTENDS Integers, Sequences, FiniteSets

CONSTANTS Hosts,
          Kinds,         \* what can be said of a lobby, some of AllKinds
          MaxTime,       \* the clock, in seconds, stays below this
          MaxHeld,       \* Storm locks the list only if it holds it less often
          Iterates,      \* the front end calls iterate_lobbies
          TogglesStatus  \* the front end calls set_status_lobby

ASSUME HostsAssumption == IsFiniteSet(Hosts)
ASSUME BoundsAssumption == MaxTime \in Nat /\ MaxHeld \in Nat
ASSUME EnvironmentAssumption == {Iterates, TogglesStatus} \subseteq BOOLEAN

Null == -1        \* a null pointer
StatusSlot == 0   \* the address of m_status_ad
StatusIndex == 1  \* its game_index

(* What matters of an ad: its host, and whether one may join the game.     *)
AllKinds == {"open", "inProgress", "otherVersion"}
ASSUME KindsAssumption == Kinds \subseteq AllKinds
Ads == [host : Hosts, kind : Kinds]

(* An entry of m_lobbies: the ad, host_last_time, game_index, and the slots*)
(* that pExtra and pNext point to.                                         *)
Lobbies == [host : Hosts, kind : Kinds, stamp : 0..MaxTime, index : Nat,
            extra : Int, next : Int]

HostsOf(s) == {s[i].host : i \in DOMAIN s}

(* The answers of the server: at most one ad of a host.                    *)
Listings ==
    UNION {{s \in [1..n -> Ads] : Cardinality(HostsOf(s)) = n} :
             n \in 0..Cardinality(Hosts)}

VARIABLES lobbies,     \* m_lobbies
          statusNext,  \* pNext of m_status_ad
          statusUsed,  \* m_status_ad_used
          held,        \* how often Storm's thread holds m_gamelist_mutex
          storm,       \* where Storm is: "idle", "returning", "reading",
                       \* "copying", "told"
          head,        \* the list that lock_game_list has returned
          rows,        \* the games Storm shows: their indices and hosts
          joining,     \* the row the player has chosen, the slot found for it
                       \* and the game Storm has then been told
          asked,       \* a request for advertisements is with the server
          answers,     \* the answers of the server, at the listener
          now,         \* get_tick_count()
          setBack,     \* history: the system clock has been set back
          contacted    \* the hosts for which an agent has been asked

list == <<lobbies, statusNext, statusUsed>>
screen == <<storm, head, rows, joining>>
clock == <<now, setBack>>
vars == <<list, held, screen, asked, answers, clock, contacted>>

NotJoining == [index |-> 0, chosen |-> {}, slot |-> Null, got |-> {}]

Init ==
    /\ lobbies = <<>> /\ statusNext = Null /\ statusUsed = TRUE
    /\ held = 0 /\ storm = "idle" /\ head = Null /\ rows = {}
    /\ joining = NotJoining
    /\ asked = FALSE /\ answers = <<>>
    /\ now = 0 /\ setBack = FALSE /\ contacted = {}

-----------------------------------------------------------------------------
(* std::erase_if: the entries of s at the places K are left, in order.     *)
Remaining(s, K) ==
    LET nth(n) == CHOOSE i \in K : Cardinality({j \in K : j <= i}) = n
    IN  [n \in 1..Cardinality(K) |-> s[nth(n)]]

(* update_lobbies: known lobbies keep their order, new ones follow.        *)
Order(incoming) ==
    LET known == Remaining(lobbies, {i \in DOMAIN lobbies :
                                  lobbies[i].host \in HostsOf(incoming)})
        new   == Remaining(incoming, {i \in DOMAIN incoming :
                                   incoming[i].host \notin HostsOf(lobbies)})
    IN  [i \in 1..(Len(known) + Len(new)) |->
           IF i <= Len(known) THEN known[i].host ELSE new[i - Len(known)].host]

Lobby(h, incoming, i) ==
    [host |-> h, stamp |-> now, index |-> i + 1, extra |-> i, next |-> Null,
     kind |-> (CHOOSE a \in {incoming[j] : j \in DOMAIN incoming} :
                 a.host = h).kind]

(* A slip of update_lobbies: only a new lobby gets its pExtra.             *)
UpdateKeepsExtra(incoming) ==
    [i \in DOMAIN Order(incoming) |->
       [Lobby(Order(incoming)[i], incoming, i) EXCEPT
          !.extra = IF \E j \in DOMAIN lobbies : lobbies[j].host = Order(incoming)[i]
                    THEN CHOOSE j \in DOMAIN lobbies :
                           lobbies[j].host = Order(incoming)[i]
                    ELSE i]]

(* Every lobby that is left has been overwritten, stamped and numbered.    *)
Update(incoming) ==
    [i \in DOMAIN Order(incoming) |-> Lobby(Order(incoming)[i], incoming, i)]

(* get_tick_count() - host_last_time > seconds, on 32 unsigned bits: a time*)
(* that has not come yet is as good as very old.                           *)
Older(l, time, seconds) == time < l.stamp \/ time - l.stamp > seconds

(* prune_lobbies_older_than: the clock is read for one lobby after another,*)
(* and strikes after the first c.  A lobby that moves to another slot takes*)
(* its pointers along.                                                     *)
Prune(seconds, c) ==
    Remaining(lobbies, {i \in DOMAIN lobbies :
                     ~Older(lobbies[i], IF i <= c THEN now ELSE now + 1, seconds)})

Strikes(c) == c = Len(lobbies) \/ (c < Len(lobbies) /\ now < MaxTime)
After(c) == IF c < Len(lobbies) THEN now + 1 ELSE now

(* Each lobby points to the next one, the last to none.  A slip leaves the  *)
(* last one as it was.                                                      *)
LinkedOpen(s) ==
    [i \in DOMAIN s |-> [s[i] EXCEPT !.next = IF i < Len(s) THEN i + 1 ELSE @]]
Linked(s) ==
    [i \in DOMAIN s |-> [s[i] EXCEPT !.next = IF i < Len(s) THEN i + 1 ELSE Null]]

(* Whose agents a walk of the list asks for: lock_game_list those of open  *)
(* lobbies, since "we don't want to initiate p2p" with games in progress   *)
(* (AdvertisementManager.cpp:190), iterate_lobby_list those of such games  *)
(* as well.                                                                *)
SameVersion == AllKinds \ {"otherVersion"}
Joinable == {"open"}
HostsWith(kinds, s) ==
    {s[i].host : i \in {j \in DOMAIN s : s[j].kind \in kinds}}

(* request_advertisements: the socket may not be ready.                    *)
Request == asked' \in {asked, TRUE}

-----------------------------------------------------------------------------
(* Storm's thread.                                                         *)

(* lock_game_list returns false at once: there is nothing to show.         *)
FindsNothing ==
    /\ storm = "idle" /\ held < MaxHeld
    /\ ~statusUsed /\ lobbies = <<>>
    /\ Request
    /\ UNCHANGED <<list, held, screen, answers, clock, contacted>>

(* A slip: lock_game_list holds the mutex as a local guard would.           *)
LockGuards ==
    /\ storm = "idle" /\ held < MaxHeld
    /\ statusUsed \/ lobbies # <<>>
    /\ lobbies' = Linked(lobbies)
    /\ statusNext' = IF lobbies = <<>> THEN Null ELSE 1
    /\ storm' = "returning"
    /\ UNCHANGED <<statusUsed, held, head, rows, joining, asked, answers, clock,
                   contacted>>

(* lock_game_list up to where it chooses the head of the list.             *)
LockGameList ==
    /\ storm = "idle" /\ held < MaxHeld
    /\ statusUsed \/ lobbies # <<>>
    /\ Request
    /\ held' = held + 1
    /\ \E c \in 0..Len(lobbies) :
         /\ Strikes(c)
         /\ lobbies' = Linked(Prune(2, c))
         /\ now' = After(c)
    /\ statusNext' = IF lobbies' = <<>> THEN Null ELSE 1
    /\ contacted' = contacted \union HostsWith(Joinable, lobbies')
    /\ storm' = "returning"
    /\ UNCHANGED <<statusUsed, head, rows, joining, answers, setBack>>

(* It returns the list, whose reader will unlock it.                       *)
ReturnGameList ==
    /\ storm = "returning"
    /\ statusUsed \/ lobbies # <<>>
    /\ head' = IF statusUsed THEN StatusSlot ELSE 1
    /\ storm' = "reading"
    /\ UNCHANGED <<list, held, rows, joining, asked, answers, clock, contacted>>

(* It returns false although it has the mutex.                             *)
ReturnNothing ==
    /\ storm = "returning"
    /\ ~statusUsed /\ lobbies = <<>>
    /\ head' = Null
    /\ storm' = "idle"
    /\ UNCHANGED <<list, held, rows, joining, asked, answers, clock, contacted>>

Next1(slot) == IF slot = StatusSlot THEN statusNext ELSE lobbies[slot].next

(* The slots Storm gets to from the head of the list.                      *)
Reached ==
    LET reach[n \in 0..Len(lobbies)] ==
          IF n = 0 THEN {head}
          ELSE reach[n - 1] \union {Next1(s) : s \in reach[n - 1] \ {Null}}
    IN  reach[Len(lobbies)] \ {Null, StatusSlot}

(* Storm copies the list and unlocks it.  It does not show games in        *)
(* progress.                                                               *)
UnlockGameList ==
    /\ storm = "reading"
    /\ rows' = {[index |-> lobbies[s].index, host |-> lobbies[s].host] :
                  s \in {r \in Reached : lobbies[r].kind # "inProgress"}}
    /\ held' = held - 1
    /\ storm' = "idle"
    /\ UNCHANGED <<list, head, joining, asked, answers, clock, contacted>>

(* spi_get_game_info for a row: get_ad_by_index locks the list, unlocks it *)
(* and returns a reference to what it has found ...                        *)
GetAdByIndex(row) ==
    /\ storm = "idle"
    /\ \E s \in DOMAIN lobbies :
         /\ lobbies[s].index = row.index
         /\ joining' = [index |-> row.index, chosen |-> {row.host}, slot |-> s,
                        got |-> {lobbies[s].host}]
    /\ storm' = "copying"
    /\ UNCHANGED <<list, held, head, rows, asked, answers, clock, contacted>>

(* ... which is read when the list may have changed: the memory may still  *)
(* be as it was, or hold another lobby.                                    *)
CopyGameInfo ==
    /\ storm = "copying"
    /\ \E h \in joining.got \union
                {lobbies[s].host : s \in {joining.slot} \cap DOMAIN lobbies} :
         joining' = [joining EXCEPT !.got = {h}]
    /\ storm' = "told"
    /\ UNCHANGED <<list, held, head, rows, asked, answers, clock, contacted>>

(* The player is back at the games list, which Storm asks for again.       *)
BackToList ==
    /\ storm = "told"
    /\ storm' = "idle" /\ rows' = {} /\ joining' = NotJoining
    /\ UNCHANGED <<list, held, head, asked, answers, clock, contacted>>

-----------------------------------------------------------------------------
(* The server, the listener and the front end.                             *)

ServerAnswers ==
    /\ asked /\ answers = <<>>
    /\ asked' = FALSE
    /\ \E listing \in Listings : answers' = <<listing>>
    /\ UNCHANGED <<list, held, screen, clock, contacted>>

(* A slip: update_lobbies does not lock the list.                           *)
UpdateUnlocked ==
    /\ answers # <<>>
    /\ lobbies' = Update(Head(answers))
    /\ answers' = Tail(answers)
    /\ UNCHANGED <<statusNext, statusUsed, held, screen, asked, clock, contacted>>

UpdateLobbies ==
    /\ answers # <<>>
    /\ held = 0
    /\ lobbies' = Update(Head(answers))
    /\ answers' = Tail(answers)
    /\ UNCHANGED <<statusNext, statusUsed, held, screen, asked, clock, contacted>>

(* iterate_lobby_list asks connection_type about every lobby, which asks   *)
(* for the agent of each one of the same version.                          *)
IterateLobbyList ==
    /\ Iterates /\ held = 0
    /\ Request
    /\ \E c \in 0..Len(lobbies) :
         /\ Strikes(c)
         /\ lobbies' = Prune(1, c)
         /\ now' = After(c)
    /\ contacted' = contacted \union HostsWith(SameVersion, lobbies')
    /\ UNCHANGED <<statusNext, statusUsed, held, screen, answers, setBack>>

SetStatusLobby ==
    /\ TogglesStatus
    /\ statusUsed' = ~statusUsed
    /\ UNCHANGED <<lobbies, statusNext, held, screen, asked, answers, clock,
                   contacted>>

(* The system clock, which get_tick_count reads, strikes or is set back.   *)
ClockMoves ==
    /\ now' \in 0..MaxTime
    /\ setBack' = (setBack \/ now' < now)
    /\ UNCHANGED <<list, held, screen, asked, answers, contacted>>

-----------------------------------------------------------------------------
Storm ==
    \/ FindsNothing \/ LockGameList \/ ReturnGameList \/ ReturnNothing
    \/ UnlockGameList \/ CopyGameInfo \/ BackToList
    \/ \E row \in rows : GetAdByIndex(row)

Next ==
    \/ Storm \/ ServerAnswers \/ UpdateLobbies
    \/ IterateLobbyList \/ SetStatusLobby \/ ClockMoves

Spec == Init /\ [][Next]_vars

-----------------------------------------------------------------------------
(* Everything has its type.                                                *)
TypeOK ==
    /\ lobbies \in Seq(Lobbies) /\ Len(lobbies) <= Cardinality(Hosts)
    /\ statusNext \in Int /\ statusUsed \in BOOLEAN
    /\ held \in 0..MaxHeld
    /\ storm \in {"idle", "returning", "reading", "copying", "told"}
    /\ head \in Int
    /\ rows \subseteq [index : Nat, host : Hosts]
    /\ joining \in [index : Nat, chosen : SUBSET Hosts, slot : Int,
                    got : SUBSET Hosts]
    /\ asked \in BOOLEAN
    /\ answers \in Seq(Listings) /\ Len(answers) <= 1
    /\ now \in 0..MaxTime /\ setBack \in BOOLEAN /\ contacted \subseteq Hosts

(* As long as the clock has not been set back, the pExtra of a lobby points*)
(* to its own extra bytes, although the pruning moves lobbies and leaves   *)
(* pExtra alone: update_lobbies stamps all lobbies with one time, so that  *)
(* the pruning keeps the beginning of the list.                            *)
ExtraAtHome == ~setBack => \A i \in DOMAIN lobbies : lobbies[i].extra = i

(* What Storm follows is a list of all lobbies that ends, with one row of  *)
(* an index of its own for each host and none with the status ad's.        *)
StormReadsTheList ==
    storm = "reading" =>
      /\ Reached = DOMAIN lobbies
      /\ lobbies # <<>> => lobbies[Len(lobbies)].next = Null
      /\ \A i, j \in DOMAIN lobbies :
           /\ lobbies[i].index # StatusIndex
           /\ i # j => /\ lobbies[i].index # lobbies[j].index
                       /\ lobbies[i].host # lobbies[j].host

(* The list is not changed while Storm reads it.                           *)
ListIsStableWhileRead ==
    [][storm = "reading" => UNCHANGED <<lobbies, statusNext>>]_vars

(* "If we return false Storm won't call spi_unlock_game_list() to unlock   *)
(* the mutex" (AdvertisementManager.cpp:167): so Storm holds the mutex only*)
(* from a call of lock_game_list that returns true to the unlocking.       *)
MutexFreeBetweenCalls == storm \in {"idle", "copying", "told"} => held = 0

(* "called by storm when the user selects a lobby to join"                 *)
(* (SNPModule.cpp:139): Storm is told of the lobby that the player chose.  *)
ToldOfTheChosenLobby ==
    storm = "told" => joining.got = joining.chosen
=============================================================================
