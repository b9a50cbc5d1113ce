--------------------------- MODULE GameListProofs ---------------------------
(***************************************************************************)
(* Theorems about GameList, for every set of hosts and every clock, and    *)
(* whatever the server says and the front end does.  First what erasing    *)
(* leaves of a sequence and what Storm reaches through the pointers, for   *)
(* sequences of every length; then the mutex, the list that Storm reads,   *)
(* and the extra bytes.                                                    *)
(***************************************************************************)
EXTENDS GameList, FiniteSetTheorems, NaturalsInduction, WellFoundedInduction,
        TLAPS

(* The places of K up to i.                                                *)
UpTo(K, i) == {j \in K : j <= i}

(* The rank of a place rises with it, from 1 to the number of places.      *)
LEMMA RankRises ==
  ASSUME NEW K, IsFiniteSet(K), K \subseteq Nat, NEW i \in K
  PROVE  /\ Cardinality(UpTo(K, i)) \in 1..Cardinality(K)
         /\ \A j \in K : i < j => Cardinality(UpTo(K, i)) < Cardinality(UpTo(K, j))
  <1>1. ASSUME NEW j \in K PROVE UpTo(K, j) \subseteq K /\ j \in UpTo(K, j)
    BY <1>1 DEF UpTo
  <1>2. Cardinality(K) \in Nat
    BY FS_CardinalityType
  <1>3. ASSUME NEW j \in K
        PROVE  IsFiniteSet(UpTo(K, j)) /\ Cardinality(UpTo(K, j)) \in 1..Cardinality(K)
    <2>1. IsFiniteSet(UpTo(K, j)) /\ Cardinality(UpTo(K, j)) <= Cardinality(K)
      BY <1>1, <1>3, FS_Subset
    <2>2. Cardinality(UpTo(K, j)) \in Nat /\ Cardinality(UpTo(K, j)) # 0
      BY <2>1, <1>1, <1>3, FS_CardinalityType, FS_EmptySet
    <2> QED
      BY <2>1, <2>2, <1>2
  <1>4. ASSUME NEW j \in K, i < j
        PROVE  Cardinality(UpTo(K, i)) < Cardinality(UpTo(K, j))
    <2> \A k \in K : k \in Int
      OBVIOUS
    <2>1. UpTo(K, i) \subseteq UpTo(K, j) /\ j \in UpTo(K, j) /\ j \notin UpTo(K, i)
      <3>1. ~(j <= i)
        BY <1>4
      <3>2. \A k \in K : k <= i => k <= j
        BY <1>4
      <3> QED
        BY <1>1, <1>4, <3>1, <3>2 DEF UpTo
    <2>2. /\ Cardinality(UpTo(K, i)) <= Cardinality(UpTo(K, j))
          /\ Cardinality(UpTo(K, i)) # Cardinality(UpTo(K, j))
      BY <2>1, <1>3, FS_Subset
    <2> QED
      BY <2>2, <1>3
  <1> QED
    BY <1>3, <1>4

(* f counts the places of K upwards, and r is what is left of s there.     *)
Counts(f, K, s, r) ==
    /\ f \in [1..Cardinality(K) -> K]
    /\ \A k \in K : \E n \in 1..Cardinality(K) : f[n] = k
    /\ \A a, b \in 1..Cardinality(K) : a < b => f[a] < f[b]
    /\ r = [n \in 1..Cardinality(K) |-> s[f[n]]]

(* What is left of s at the places K: the n-th of them is at the n-th      *)
(* place, which exists because the ranks of the places are all numbers up  *)
(* to their number.                                                        *)
LEMMA RemainingIs ==
  ASSUME NEW s, NEW m \in Nat, NEW K \in SUBSET (1..m)
  PROVE  /\ Cardinality(K) \in Nat
         /\ \E f : Counts(f, K, s, Remaining(s, K))
  <1> DEFINE C == Cardinality(K)
             rank == [i \in K |-> Cardinality(UpTo(K, i))]
  <1>1. IsFiniteSet(K) /\ C \in Nat /\ K \subseteq Nat
    <2>1. IsFiniteSet(1..m)
      BY FS_Interval
    <2>2. IsFiniteSet(K)
      BY <2>1, FS_Subset
    <2> QED
      BY <2>2, FS_CardinalityType
  <1>2. IsFiniteSet(1..C) /\ Cardinality(1..C) = C
    BY <1>1, FS_Interval
  <1>3. \A i \in K : /\ rank[i] \in 1..C
                     /\ \A j \in K : i < j => rank[i] < rank[j]
    BY <1>1, RankRises
  <1>4. rank \in Injection(K, 1..C)
    <2>1. \A i, j \in K : rank[i] = rank[j] => i = j
      BY <1>1, <1>3
    <2> QED
      BY <2>1, <1>3 DEF Injection, IsInjective
  <1>5. rank \in Surjection(K, 1..C)
    BY <1>2, <1>4, FS_Injection
  <1>6. \A n \in 1..C : \E i \in K : rank[i] = n
    BY <1>5 DEF Surjection
  <1> DEFINE f == [n \in 1..C |-> CHOOSE i \in K : Cardinality({j \in K : j <= i}) = n]
  <1>7. \A n \in 1..C : f[n] \in K /\ rank[f[n]] = n
    BY <1>6 DEF UpTo
  <1>8. f \in [1..C -> K]
    BY <1>7
  <1>9. \A k \in K : rank[k] \in 1..C /\ f[rank[k]] = k
    <2>1. \A i, j \in K : rank[i] = rank[j] => i = j
      BY <1>4 DEF Injection, IsInjective
    <2> HIDE DEF f, rank
    <2> QED
      BY <2>1, <1>3, <1>7
  <1>10. ASSUME NEW a \in 1..C, NEW b \in 1..C, a < b PROVE f[a] < f[b]
    <2> HIDE DEF f, rank, C
    <2>1. f[a] \in K /\ f[b] \in K /\ rank[f[a]] = a /\ rank[f[b]] = b
      BY <1>7
    <2>2. f[a] \in Nat /\ f[b] \in Nat /\ a \in Nat /\ b \in Nat
      <3>1. K \subseteq Nat /\ C \in Nat
        BY <1>1
      <3>2. f[a] \in Nat /\ f[b] \in Nat
        BY <2>1, <3>1
      <3> QED
        BY <3>1, <3>2
    <2>3. CASE f[b] < f[a]
      <3>1. b < a
        BY <1>3, <2>1, <2>3
      <3> QED
        BY <3>1, <2>2, <1>10
    <2>4. CASE f[b] = f[a]
      <3>1. a = b
        BY <2>1, <2>4
      <3> QED
        BY <3>1, <2>2, <1>10
    <2> QED
      BY <2>2, <2>3, <2>4
  <1>11. Remaining(s, K) = [n \in 1..C |-> s[f[n]]]
    BY DEF Remaining
  <1> HIDE DEF f
  <1> QED
    BY <1>1, <1>8, <1>9, <1>10, <1>11 DEF Counts
(* If what is left is the beginning of a sequence, nothing has moved.      *)
LEMMA RemainingBeginning ==
  ASSUME NEW s, NEW p \in Nat
  PROVE  Remaining(s, 1..p) = [n \in 1..p |-> s[n]]
  <1>1. Cardinality(1..p) = p
    BY FS_Interval
  <1>2. ASSUME NEW i \in 1..p PROVE Cardinality({j \in 1..p : j <= i}) = i
    <2>1. {j \in 1..p : j <= i} = 1..i /\ i \in Int /\ i >= 1
      OBVIOUS
    <2>2. Cardinality(1..i) = i
      BY <2>1, FS_Interval
    <2> QED
      BY <2>1, <2>2
  <1> DEFINE C == Cardinality(1..p)
             f == [n \in 1..C |-> CHOOSE i \in 1..p :
                                    Cardinality({j \in 1..p : j <= i}) = n]
  <1>3. Remaining(s, 1..p) = [n \in 1..C |-> s[f[n]]]
    BY DEF Remaining
  <1>4. ASSUME NEW n \in 1..p PROVE f[n] = n
    <2>1. (CHOOSE i \in 1..p : Cardinality({j \in 1..p : j <= i}) = n) = n
      BY <1>2
    <2> QED
      BY <1>1, <2>1
  <1> HIDE DEF f
  <1> QED
    BY <1>1, <1>3, <1>4

(* What is left of a sequence is a sequence.                               *)
LEMMA RemainingSeq ==
  ASSUME NEW S, NEW s \in Seq(S), NEW K \in SUBSET DOMAIN s
  PROVE  /\ Remaining(s, K) \in Seq(S)
         /\ Len(Remaining(s, K)) = Cardinality(K)
         /\ Cardinality(K) \in Nat
         /\ \E f : Counts(f, K, s, Remaining(s, K))
  <1>1. K \in SUBSET (1..Len(s)) /\ Len(s) \in Nat
    OBVIOUS
  <1>2. PICK f : Counts(f, K, s, Remaining(s, K))
    BY <1>1, RemainingIs
  <1>3. Cardinality(K) \in Nat
    BY <1>1, RemainingIs
  <1>4. \A k \in K : s[k] \in S
    BY <1>1
  <1>5. Remaining(s, K) \in [1..Cardinality(K) -> S]
    BY <1>2, <1>4 DEF Counts
  <1>6. Remaining(s, K) \in Seq(S) /\ Len(Remaining(s, K)) = Cardinality(K)
    BY <1>3, <1>5
  <1> QED
    BY <1>2, <1>3, <1>6

-----------------------------------------------------------------------------
(* Lobbies are numbered upwards from 2, and no two are of one host.        *)
Numbered(s) ==
    /\ \A i \in DOMAIN s : s[i].index > StatusIndex
    /\ \A i, j \in DOMAIN s :
         i < j => s[i].index < s[j].index /\ s[i].host # s[j].host

(* Erasing lobbies leaves the others numbered.                             *)
LEMMA RemainingNumbered ==
  ASSUME NEW s \in Seq(Lobbies), NEW K \in SUBSET DOMAIN s, Numbered(s)
  PROVE  Numbered(Remaining(s, K))
  <1>1. PICK f : Counts(f, K, s, Remaining(s, K))
    BY RemainingSeq
  <1>2. \A n \in 1..Cardinality(K) : f[n] \in DOMAIN s
    BY <1>1 DEF Counts
  <1> QED
    BY <1>1, <1>2 DEF Counts, Numbered

(* There are no more numbered lobbies than hosts.                          *)
LEMMA NumberedBound ==
  ASSUME NEW s \in Seq(Lobbies), Numbered(s)
  PROVE  Len(s) <= Cardinality(Hosts)
  <1> DEFINE f == [i \in 1..Len(s) |-> s[i].host]
  <1>1. Len(s) \in Nat /\ DOMAIN s = 1..Len(s)
    OBVIOUS
  <1>2. \A i \in 1..Len(s) : s[i].host \in Hosts
    <2>1. \A i \in 1..Len(s) : s[i] \in Lobbies
      BY <1>1
    <2> QED
      BY <2>1 DEF Lobbies
  <1>3. ASSUME NEW i \in 1..Len(s), NEW j \in 1..Len(s), s[i].host = s[j].host
        PROVE  i = j
    BY <1>1, <1>3 DEF Numbered
  <1>4. f \in Injection(1..Len(s), Hosts)
    BY <1>2, <1>3 DEF Injection, IsInjective
  <1>5. Cardinality(1..Len(s)) <= Cardinality(Hosts)
    BY <1>4, FS_Injection, HostsAssumption
  <1> QED
    BY <1>1, <1>5, FS_Interval

(* An answer of the server names each host once.                           *)
LEMMA ListingHosts ==
  ASSUME NEW s \in Listings
  PROVE  /\ s \in Seq(Ads)
         /\ \A i, j \in DOMAIN s : i # j => s[i].host # s[j].host
  <1>1. Cardinality(Hosts) \in Nat
    BY HostsAssumption, FS_CardinalityType
  <1>2. PICK n \in 0..Cardinality(Hosts) :
          s \in [1..n -> Ads] /\ Cardinality(HostsOf(s)) = n
    BY DEF Listings
  <1>3. n \in Nat /\ DOMAIN s = 1..n
    BY <1>1, <1>2
  <1>4. s \in Seq(Ads)
    BY <1>2, <1>3
  <1> DEFINE f == [i \in 1..n |-> s[i].host]
  <1>5. f \in Surjection(1..n, HostsOf(s))
    BY <1>3 DEF Surjection, HostsOf
  <1>6. f \in Injection(1..n, HostsOf(s))
    BY <1>2, <1>3, <1>5, FS_Interval, FS_SurjSameCardinalityImpliesInj
  <1>7. \A i, j \in 1..n : s[i].host = s[j].host => i = j
    BY <1>6 DEF Injection, IsInjective
  <1> QED
    BY <1>3, <1>4, <1>7

-----------------------------------------------------------------------------
(* update_lobbies orders the hosts of the answer, each of them once: those *)
(* whose lobbies are known and those that are new are apart.               *)
LEMMA OrderIs ==
  ASSUME lobbies \in Seq(Lobbies), Numbered(lobbies), NEW incoming \in Listings
  PROVE  /\ Order(incoming) \in Seq(Hosts)
         /\ \A i \in DOMAIN Order(incoming) : Order(incoming)[i] \in HostsOf(incoming)
         /\ \A i, j \in DOMAIN Order(incoming) :
              i # j => Order(incoming)[i] # Order(incoming)[j]
  <1> DEFINE A == {i \in DOMAIN lobbies : lobbies[i].host \in HostsOf(incoming)}
             B == {i \in DOMAIN incoming : incoming[i].host \notin HostsOf(lobbies)}
             known == Remaining(lobbies, A)
             new == Remaining(incoming, B)
             k == Len(known)
             m == Len(new)
  <1>1. /\ incoming \in Seq(Ads)
        /\ \A i, j \in DOMAIN incoming : i # j => incoming[i].host # incoming[j].host
    BY ListingHosts
  <1>2. A \in SUBSET DOMAIN lobbies /\ B \in SUBSET DOMAIN incoming
    OBVIOUS
  <1>3. PICK f : Counts(f, A, lobbies, known)
    BY <1>2, RemainingSeq
  <1>4. PICK g : Counts(g, B, incoming, new)
    BY <1>1, <1>2, RemainingSeq
  <1>5. k = Cardinality(A) /\ m = Cardinality(B) /\ k \in Nat /\ m \in Nat
    BY <1>1, <1>2, RemainingSeq
  <1>6. \A i \in DOMAIN lobbies : lobbies[i].host \in HostsOf(lobbies)
    BY DEF HostsOf
  <1>7. \A i, j \in DOMAIN lobbies : i < j => lobbies[i].host # lobbies[j].host
    BY DEF Numbered
  <1>8. \A n \in 1..k : f[n] \in A /\ known[n] = lobbies[f[n]]
    BY <1>3, <1>5 DEF Counts
  <1>9. \A n \in 1..m : g[n] \in B /\ new[n] = incoming[g[n]]
    BY <1>4, <1>5 DEF Counts
  <1>10. \A n \in 1..k : known[n].host \in HostsOf(incoming) \cap HostsOf(lobbies)
    BY <1>6, <1>8
  <1>11. \A n \in 1..m : new[n].host \in HostsOf(incoming) \ HostsOf(lobbies)
    BY <1>9 DEF HostsOf
  <1>12. HostsOf(incoming) \subseteq Hosts
    <2>1. \A i \in DOMAIN incoming : incoming[i] \in Ads
      BY <1>1
    <2> QED
      BY <2>1 DEF HostsOf, Ads
  <1>13. \A a, b \in 1..k : a < b => known[a].host # known[b].host
    <2>1. \A a, b \in 1..k : a < b => f[a] < f[b]
      BY <1>3, <1>5 DEF Counts
    <2> QED
      BY <2>1, <1>7, <1>8
  <1>14. \A a, b \in 1..m : a < b => new[a].host # new[b].host
    <2>1. \A a, b \in 1..m : a < b => g[a] < g[b]
      BY <1>4, <1>5 DEF Counts
    <2>2. \A i \in DOMAIN incoming : i \in Int
      BY <1>1
    <2>3. \A a, b \in 1..m : a < b => g[a] # g[b]
      BY <2>1, <2>2, <1>9
    <2> QED
      BY <2>3, <1>1, <1>9
  <1>15. Order(incoming) = [i \in 1..(k + m) |->
                              IF i <= k THEN known[i].host ELSE new[i - k].host]
    BY DEF Order
  <1> HIDE DEF known, new, A, B, k, m
  <1>16. \A i \in 1..(k + m) : /\ i <= k => i \in 1..k
                               /\ ~(i <= k) => (i - k) \in 1..m
    BY <1>5
  <1> DEFINE o == Order(incoming)
  <1>17. DOMAIN o = 1..(k + m) /\ k + m \in Nat
    BY <1>5, <1>15
  <1>18. \A i \in 1..(k + m) : /\ i <= k => o[i] = known[i].host
                               /\ ~(i <= k) => o[i] = new[i - k].host
    BY <1>15
  <1> HIDE DEF o
  <1>19. \A i \in 1..(k + m) : o[i] \in HostsOf(incoming)
    BY <1>10, <1>11, <1>16, <1>18
  <1>20. ASSUME NEW i \in 1..(k + m), NEW j \in 1..(k + m), i < j PROVE o[i] # o[j]
    <2>1. CASE j <= k
      BY <1>20, <2>1, <1>13, <1>16, <1>18, <1>5
    <2>2. CASE i <= k /\ ~(j <= k)
      BY <2>2, <1>10, <1>11, <1>16, <1>18
    <2>3. CASE ~(i <= k) /\ ~(j <= k)
      <3>1. i - k < j - k /\ (i - k) \in 1..m /\ (j - k) \in 1..m
        BY <1>20, <2>3, <1>16, <1>5
      <3> QED
        BY <3>1, <2>3, <1>14, <1>18
    <2> QED
      BY <2>1, <2>2, <2>3, <1>20, <1>5
  <1>21. \A i, j \in 1..(k + m) : i # j => o[i] # o[j]
    <2> SUFFICES ASSUME NEW i \in 1..(k + m), NEW j \in 1..(k + m), i # j
                 PROVE  o[i] # o[j]
      OBVIOUS
    <2>1. i < j \/ j < i
      BY <1>17
    <2> QED
      BY <2>1, <1>20
  <1>22. o \in Seq(Hosts)
    <2>1. o = [i \in 1..(k + m) |-> o[i]]
      BY <1>15 DEF o
    <2> QED
      BY <2>1, <1>12, <1>17, <1>19
  <1> QED
    BY <1>17, <1>19, <1>21, <1>22 DEF o

-----------------------------------------------------------------------------
(* The lobbies are linked as lock_game_list links them.                    *)
LinkedList ==
    /\ \A i \in DOMAIN lobbies :
         lobbies[i].next = IF i < Len(lobbies) THEN i + 1 ELSE Null
    /\ statusNext = IF lobbies = <<>> THEN Null ELSE 1

(* Every set of naturals but the empty one has a least member.             *)
LEMMA Least ==
  ASSUME NEW T, T \subseteq Nat, T # {}
  PROVE  \E x \in T : \A y \in T : x <= y
  <1> DEFINE R == OpToRel(<, Nat)
  <1>1. IsWellFoundedOn(R, Nat)
    BY NatLessThanWellFounded
  <1>2. \A x, y \in Nat : y < x => <<y, x>> \in R
    BY DEF OpToRel
  <1> HIDE DEF R
  <1>3. PICK x \in T : \A y \in T : ~(<<y, x>> \in R)
    BY <1>1, WFMin
  <1>4. \A y \in T : ~(y < x)
    BY <1>2, <1>3
  <1> QED
    BY <1>3, <1>4

(* Two functions of 0..n are one if each value of either follows from the  *)
(* value before it in the same way.                                        *)
LEMMA RecursionUnique ==
  ASSUME NEW n \in Nat, NEW f, NEW g, f[0] = g[0],
         \A i \in 1..n : f[i - 1] = g[i - 1] => f[i] = g[i]
  PROVE  \A i \in 0..n : f[i] = g[i]
  <1> DEFINE T == {i \in 0..n : f[i] # g[i]}
  <1> SUFFICES ASSUME T # {} PROVE FALSE
    OBVIOUS
  <1>1. T \subseteq Nat
    OBVIOUS
  <1>2. PICK x \in T : \A y \in T : x <= y
    BY <1>1, Least
  <1>3. x \in 0..n /\ f[x] # g[x] /\ x # 0
    BY <1>2
  <1>4. x \in 1..n /\ x - 1 \in 0..n /\ ~(x <= x - 1)
    BY <1>3
  <1>5. f[x - 1] = g[x - 1]
    BY <1>2, <1>4
  <1> QED
    BY <1>3, <1>4, <1>5

(* What Storm reaches after n steps from the head at slot h.               *)
Steps(h, n) ==
    {i \in Int : h <= i /\ i <= h + n /\ i <= Len(lobbies)}
      \union {i \in {Null} : h + n > Len(lobbies)}

(* One more step along the pointers, from the status ad or the first       *)
(* lobby.                                                                  *)
LEMMA StepsNext ==
  ASSUME lobbies \in Seq(Lobbies), LinkedList, NEW h \in {0, 1},
         h <= Len(lobbies), NEW n \in 1..Len(lobbies)
  PROVE  Steps(h, n) = Steps(h, n - 1) \union
                         {Next1(s) : s \in Steps(h, n - 1) \ {Null}}
  <1> DEFINE L == Len(lobbies)
             old == Steps(h, n - 1)
  <1>1. L \in Nat /\ DOMAIN lobbies = 1..L /\ (lobbies = <<>> <=> L = 0) /\ n \in 1..L
    OBVIOUS
  <1>2. \A s \in 0..L : Next1(s) = IF s < L THEN s + 1 ELSE -1
    BY <1>1 DEF Next1, LinkedList, Null, StatusSlot
  <1>3. old \ {Null} = h..(h + n - 1)
    BY <1>1 DEF Steps, Null
  <1> QED
    BY <1>1, <1>2, <1>3 DEF Steps, Null

(* From either head Storm reaches all lobbies: the recursive function has  *)
(* a solution, and all solutions agree with it.                            *)
LEMMA ReachedIs ==
  ASSUME lobbies \in Seq(Lobbies), LinkedList, head \in {0, 1},
         head <= Len(lobbies)
  PROVE  Reached = DOMAIN lobbies
  <1> DEFINE L == Len(lobbies)
             step(S) == S \union {Next1(s) : s \in S \ {Null}}
             g == [n \in 0..L |-> Steps(head, n)]
             F(f) == [n \in 0..L |-> IF n = 0 THEN {head} ELSE step(f[n - 1])]
             r == CHOOSE f : f = [n \in 0..L |-> IF n = 0 THEN {head} ELSE
                           f[n - 1] \union {Next1(s) : s \in f[n - 1] \ {Null}}]
  <1>1. L \in Nat /\ DOMAIN lobbies = 1..L
    OBVIOUS
  <1>2. Steps(head, 0) = {head}
    BY <1>1 DEF Steps
  <1>3. \A n \in 1..L : Steps(head, n) = step(Steps(head, n - 1))
    BY StepsNext
  <1>4. \A n \in 1..L : (n - 1) \in 0..L
    BY <1>1
  <1>5. g = F(g)
    BY <1>2, <1>3, <1>4
  <1>6. r = F(r)
    <2>1. \E f : f = F(f)
      BY <1>5
    <2> QED
      BY <2>1
  <1>7. Reached = r[L] \ {Null, StatusSlot}
    BY DEF Reached
  <1> HIDE DEF r
  <1>8. r[0] = g[0] /\ \A n \in 1..L : r[n - 1] = g[n - 1] => r[n] = g[n]
    <2>1. r[0] = {head} /\ g[0] = {head}
      BY <1>1, <1>2, <1>6
    <2>2. \A n \in 1..L : r[n] = step(r[n - 1]) /\ g[n] = step(g[n - 1])
      <3>1. \A n \in 1..L : n \in 0..L /\ n # 0
        BY <1>1
      <3>2. \A n \in 1..L : r[n] = step(r[n - 1])
        <4> HIDE DEF step
        <4> QED BY <1>6, <3>1
      <3>3. \A n \in 1..L : g[n] = step(g[n - 1])
        <4> HIDE DEF step
        <4> QED BY <1>3, <1>4, <3>1
      <3> QED
        BY <3>2, <3>3
    <2> HIDE DEF g, step
    <2> QED
      BY <2>1, <2>2
  <1> HIDE DEF g
  <1>9. r[L] = g[L]
    <2> HIDE DEF L
    <2>1. \A i \in 0..L : r[i] = g[i]
      <3>1. L \in Nat
        BY <1>1
      <3>2. r[0] = g[0]
        BY <1>8
      <3>3. \A i \in 1..L : r[i - 1] = g[i - 1] => r[i] = g[i]
        BY <1>8
      <3> QED
        BY <3>1, <3>2, <3>3, RecursionUnique, Zenon
    <2> QED
      BY <2>1, <1>1
  <1>10. g[L] = Steps(head, L)
    BY <1>1 DEF g
  <1>11. Steps(head, L) \ {Null, StatusSlot} = 1..L
    BY <1>1 DEF Steps, Null, StatusSlot
  <1> QED
    BY <1>1, <1>7, <1>9, <1>10, <1>11

-----------------------------------------------------------------------------
(* Storm's thread has the mutex from lock_game_list to unlock_game_list,   *)
(* also when an earlier call has left it locked.                           *)
HeldWhileRead ==
    /\ held \in Nat
    /\ storm \in {"returning", "reading"} => held > 0

(* Storm begins without the mutex.                                         *)
LEMMA HeldInit == Init => HeldWhileRead
  BY DEF Init, HeldWhileRead

(* No step takes it from Storm between the two calls.                      *)
LEMMA HeldNext == HeldWhileRead /\ [Next]_vars => HeldWhileRead'
  <1> SUFFICES ASSUME HeldWhileRead, [Next]_vars PROVE HeldWhileRead'
    OBVIOUS
  <1> USE DEF HeldWhileRead, screen
  <1>1. CASE LockGameList
    BY <1>1 DEF LockGameList
  <1>2. CASE ReturnGameList \/ ReturnNothing
    BY <1>2 DEF ReturnGameList, ReturnNothing
  <1>3. CASE UnlockGameList
    <2>1. held > 0 /\ held' = held - 1 /\ storm' = "idle"
      BY <1>3 DEF UnlockGameList
    <2> QED
      BY <2>1
  <1>4. CASE \/ FindsNothing \/ CopyGameInfo \/ BackToList
             \/ \E row \in rows : GetAdByIndex(row)
    BY <1>4 DEF FindsNothing, CopyGameInfo, BackToList, GetAdByIndex
  <1>5. CASE \/ ServerAnswers \/ UpdateLobbies \/ IterateLobbyList
             \/ SetStatusLobby \/ ClockMoves
    BY <1>5 DEF ServerAnswers, UpdateLobbies, IterateLobbyList, SetStatusLobby,
                ClockMoves
  <1>6. CASE UNCHANGED vars
    BY <1>6 DEF vars
  <1> QED
    BY <1>1, <1>2, <1>3, <1>4, <1>5, <1>6 DEF Next, Storm

(* Neither the listener nor the front end changes the list that Storm is   *)
(* following.                                                              *)
THEOREM ListStable == Spec => ListIsStableWhileRead
  <1>1. HeldWhileRead /\ [Next]_vars
          => [storm = "reading" => UNCHANGED <<lobbies, statusNext>>]_vars
    <2> SUFFICES ASSUME HeldWhileRead, Next, storm = "reading"
                 PROVE  UNCHANGED <<lobbies, statusNext>>
      OBVIOUS
    <2>1. held # 0
      BY DEF HeldWhileRead
    <2>2. UnlockGameList \/ ServerAnswers \/ SetStatusLobby \/ ClockMoves
      BY <2>1 DEF Next, Storm, FindsNothing, LockGameList, ReturnGameList,
                  ReturnNothing, CopyGameInfo, BackToList, GetAdByIndex,
                  UpdateLobbies, IterateLobbyList
    <2> QED
      BY <2>2 DEF UnlockGameList, ServerAnswers, SetStatusLobby, ClockMoves, list
  <1> QED
    BY <1>1, HeldInit, HeldNext, PTL DEF Spec, ListIsStableWhileRead

-----------------------------------------------------------------------------
(* While the mutex is held for Storm, the lobbies are linked; while Storm  *)
(* reads, it has the head of that list.                                    *)
LinkedWhileRead ==
    /\ storm \in {"returning", "reading"} => LinkedList
    /\ storm = "reading" => head \in {StatusSlot, 1} /\ head <= Len(lobbies)

ListInv == TypeOK /\ Numbered(lobbies) /\ HeldWhileRead /\ LinkedWhileRead

(* update_lobbies leaves numbered lobbies.                                 *)
LEMMA UpdateIs ==
  ASSUME TypeOK, Numbered(lobbies), NEW incoming \in Listings
  PROVE  Update(incoming) \in Seq(Lobbies) /\ Numbered(Update(incoming))
  <1> DEFINE o == Order(incoming)
             u == Update(incoming)
  <1>1. /\ o \in Seq(Hosts)
        /\ \A i \in DOMAIN o : o[i] \in HostsOf(incoming)
        /\ \A i, j \in DOMAIN o : i # j => o[i] # o[j]
    BY OrderIs DEF TypeOK
  <1>2. u = [i \in DOMAIN o |-> Lobby(o[i], incoming, i)]
    BY DEF Update
  <1> HIDE DEF o, u
  <1>3. DOMAIN o = 1..Len(o) /\ Len(o) \in Nat /\ \A i \in DOMAIN o : o[i] \in Hosts
    BY <1>1
  <1>4. ASSUME NEW i \in DOMAIN o
        PROVE  /\ Lobby(o[i], incoming, i) \in Lobbies
               /\ Lobby(o[i], incoming, i).host = o[i]
               /\ Lobby(o[i], incoming, i).index = i + 1
    <2> DEFINE kind == (CHOOSE a \in {incoming[j] : j \in DOMAIN incoming} :
                          a.host = o[i]).kind
    <2>1. kind \in Kinds
      <3>1. \A j \in DOMAIN incoming : incoming[j] \in Ads
        BY ListingHosts
      <3>2. \E a \in {incoming[j] : j \in DOMAIN incoming} : a.host = o[i]
        BY <1>1 DEF HostsOf
      <3>3. (CHOOSE a \in {incoming[j] : j \in DOMAIN incoming} : a.host = o[i]) \in Ads
        BY <3>1, <3>2
      <3> QED
        BY <3>3 DEF Ads
    <2>2. Lobby(o[i], incoming, i) =
            [host |-> o[i], stamp |-> now, index |-> i + 1, extra |-> i,
             next |-> Null, kind |-> kind]
      BY DEF Lobby
    <2> HIDE DEF kind
    <2>3. i \in Nat /\ o[i] \in Hosts /\ now \in 0..MaxTime
      BY <1>3 DEF TypeOK
    <2> QED
      BY <2>1, <2>2, <2>3 DEF Lobbies, Null
  <1>5. u \in Seq(Lobbies)
    BY <1>2, <1>3, <1>4
  <1>6. Numbered(u)
    <2>1. /\ DOMAIN u = DOMAIN o
          /\ \A i \in DOMAIN o : u[i].host = o[i] /\ u[i].index = i + 1
      BY <1>2, <1>4
    <2> QED
      BY <2>1, <1>1, <1>3 DEF Numbered, StatusIndex
  <1> QED
    BY <1>5, <1>6 DEF u

(* So does the pruning.                                                    *)
LEMMA PruneIs ==
  ASSUME TypeOK, Numbered(lobbies), NEW seconds, NEW c
  PROVE  Prune(seconds, c) \in Seq(Lobbies) /\ Numbered(Prune(seconds, c))
  <1> DEFINE K == {i \in DOMAIN lobbies :
                     ~Older(lobbies[i], IF i <= c THEN now ELSE now + 1, seconds)}
  <1>1. K \in SUBSET DOMAIN lobbies /\ lobbies \in Seq(Lobbies)
    BY DEF TypeOK
  <1>2. Prune(seconds, c) = Remaining(lobbies, K)
    BY DEF Prune
  <1> HIDE DEF K
  <1> QED
    BY <1>1, <1>2, RemainingSeq, RemainingNumbered

(* Linking the lobbies changes nothing else of them.                       *)
LEMMA LinkedIs ==
  ASSUME NEW s \in Seq(Lobbies), Numbered(s)
  PROVE  /\ Linked(s) \in Seq(Lobbies) /\ Numbered(Linked(s))
         /\ Len(Linked(s)) = Len(s)
         /\ \A i \in DOMAIN s :
              /\ Linked(s)[i].next = IF i < Len(s) THEN i + 1 ELSE Null
              /\ Linked(s)[i].host = s[i].host
              /\ Linked(s)[i].kind = s[i].kind
              /\ Linked(s)[i].stamp = s[i].stamp
              /\ Linked(s)[i].extra = s[i].extra
  <1> DEFINE n(i) == IF i < Len(s) THEN i + 1 ELSE Null
  <1>1. /\ DOMAIN s = 1..Len(s) /\ Len(s) \in Nat
        /\ \A i \in DOMAIN s : s[i] \in Lobbies
    OBVIOUS
  <1>2. /\ DOMAIN Linked(s) = DOMAIN s
        /\ \A i \in DOMAIN s : Linked(s)[i] = [s[i] EXCEPT !.next = n(i)]
    BY DEF Linked
  <1>3. \A i \in DOMAIN s : n(i) \in Int
    BY <1>1 DEF Null
  <1> HIDE DEF n
  <1>4. \A i \in DOMAIN s : 
          /\ Linked(s)[i] \in Lobbies
          /\ Linked(s)[i].next = n(i)
          /\ Linked(s)[i].index = s[i].index
          /\ Linked(s)[i].host = s[i].host
          /\ Linked(s)[i].kind = s[i].kind
          /\ Linked(s)[i].stamp = s[i].stamp
          /\ Linked(s)[i].extra = s[i].extra
    BY <1>1, <1>2, <1>3 DEF Lobbies
  <1>5. Linked(s) = [i \in 1..Len(s) |-> Linked(s)[i]]
    BY <1>1 DEF Linked
  <1>6. Linked(s) \in Seq(Lobbies) /\ Len(Linked(s)) = Len(s)
    BY <1>1, <1>4, <1>5
  <1>7. Numbered(Linked(s))
    BY <1>2, <1>4 DEF Numbered
  <1> QED
    BY <1>4, <1>6, <1>7 DEF n

(* In the beginning there is no lobby.                                     *)
LEMMA ListInit == Init => ListInv
  <1> SUFFICES ASSUME Init PROVE ListInv
    OBVIOUS
  <1>1. Cardinality(Hosts) \in Nat
    BY HostsAssumption, FS_CardinalityType
  <1>2. TypeOK
    <2>1. lobbies \in Seq(Lobbies) /\ Len(lobbies) <= Cardinality(Hosts)
      BY <1>1 DEF Init
    <2>2. answers \in Seq(Listings) /\ Len(answers) <= 1
      BY DEF Init
    <2>3. joining \in [index : Nat, chosen : SUBSET Hosts, slot : Int,
                       got : SUBSET Hosts]
      BY DEF Init, NotJoining, Null
    <2>4. held \in 0..MaxHeld /\ now \in 0..MaxTime
      BY BoundsAssumption DEF Init
    <2>5. /\ statusUsed \in BOOLEAN /\ asked \in BOOLEAN /\ setBack \in BOOLEAN
          /\ rows = {} /\ contacted = {} /\ storm = "idle"
          /\ statusNext = Null /\ head = Null
      BY DEF Init
    <2>6. Null \in Int
      BY DEF Null
    <2> QED
      BY <2>1, <2>2, <2>3, <2>4, <2>5, <2>6 DEF TypeOK
  <1> QED
    BY <1>2, HeldInit DEF Init, ListInv, Numbered, LinkedWhileRead

(* While the lobbies are pruned the clock does not go back.                *)
LEMMA ClockStrikes ==
  ASSUME TypeOK, NEW c \in 0..Len(lobbies), Strikes(c)
  PROVE  After(c) \in now..MaxTime
  <1>1. now \in 0..MaxTime /\ MaxTime \in Nat /\ Len(lobbies) \in Nat
    BY BoundsAssumption DEF TypeOK
  <1> QED
    BY <1>1 DEF Strikes, After

(* Only hosts are contacted.                                               *)
LEMMA HostsWithHosts ==
  ASSUME NEW kinds, NEW s \in Seq(Lobbies)
  PROVE  HostsWith(kinds, s) \subseteq Hosts
  <1>1. \A i \in DOMAIN s : s[i] \in Lobbies
    OBVIOUS
  <1> QED
    BY <1>1 DEF HostsWith, Lobbies

(* lock_game_list leaves a linked list.                                    *)
LEMMA LockListInv == ASSUME ListInv, LockGameList PROVE ListInv'
  <1> PICK c \in 0..Len(lobbies) :
        /\ Strikes(c)
        /\ lobbies' = Linked(Prune(2, c))
        /\ now' = After(c)
    BY DEF LockGameList
  <1>1. TypeOK /\ Numbered(lobbies) /\ HeldWhileRead
    BY DEF ListInv
  <1>2. Prune(2, c) \in Seq(Lobbies) /\ Numbered(Prune(2, c))
    BY <1>1, PruneIs
  <1>3. /\ lobbies' \in Seq(Lobbies) /\ Numbered(lobbies')
        /\ Len(lobbies') = Len(Prune(2, c))
        /\ \A i \in DOMAIN Prune(2, c) :
             lobbies'[i].next = IF i < Len(Prune(2, c)) THEN i + 1 ELSE Null
    BY <1>2, LinkedIs
  <1>4. DOMAIN lobbies' = DOMAIN Prune(2, c)
    BY <1>2, <1>3
  <1>5. Len(lobbies') <= Cardinality(Hosts)
    BY <1>3, NumberedBound
  <1>6. LinkedList'
    BY <1>3, <1>4 DEF LinkedList, LockGameList
  <1>7. now' \in 0..MaxTime
    BY <1>1, ClockStrikes DEF TypeOK
  <1>8. contacted' \subseteq Hosts
    BY <1>1, <1>3, HostsWithHosts DEF TypeOK, LockGameList
  <1>9. statusNext' \in Int
    BY DEF LockGameList, Null
  <1>10. held \in 0..MaxHeld /\ held < MaxHeld /\ held' = held + 1 /\ MaxHeld \in Nat
    BY <1>1, BoundsAssumption DEF TypeOK, LockGameList
  <1>11. asked' \in BOOLEAN
    BY <1>1 DEF LockGameList, Request, TypeOK
  <1>12. TypeOK'
    BY <1>1, <1>3, <1>5, <1>7, <1>8, <1>9, <1>10, <1>11 DEF TypeOK, LockGameList
  <1>13. HeldWhileRead'
    BY <1>10 DEF HeldWhileRead
  <1>14. LinkedWhileRead'
    BY <1>6 DEF LinkedWhileRead, LockGameList
  <1> QED
    BY <1>3, <1>12, <1>13, <1>14 DEF ListInv

(* Its head is the status ad or, if there is one, the first lobby.         *)
LEMMA ReturnListInv ==
  ASSUME ListInv, ReturnGameList \/ ReturnNothing PROVE ListInv'
  <1> USE DEF ReturnGameList, ReturnNothing, list, clock
  <1>1. HeldWhileRead'
    BY HeldNext DEF ListInv, Next, Storm
  <1>2. TypeOK'
    BY DEF ListInv, TypeOK, Null, StatusSlot
  <1>3. LinkedWhileRead'
    <2>1. Len(lobbies) \in Nat /\ (lobbies # <<>> => 1 <= Len(lobbies))
      BY DEF ListInv, TypeOK
    <2>2. LinkedList' <=> LinkedList
      BY DEF LinkedList
    <2> QED
      BY <2>1, <2>2 DEF ListInv, LinkedWhileRead, StatusSlot
  <1> QED
    BY <1>1, <1>2, <1>3 DEF ListInv

(* So Storm reaches every lobby.                                           *)
LEMMA ReachesAll == ASSUME ListInv, storm = "reading" PROVE Reached = DOMAIN lobbies
  BY ReachedIs DEF ListInv, LinkedWhileRead, TypeOK, StatusSlot

(* What it copies are indices and hosts of lobbies.                        *)
LEMMA UnlockListInv == ASSUME ListInv, UnlockGameList PROVE ListInv'
  <1> USE DEF UnlockGameList, list, clock
  <1>1. HeldWhileRead'
    BY HeldNext DEF ListInv, Next, Storm
  <1>2. Reached = DOMAIN lobbies
    BY ReachesAll
  <1>3. \A i \in DOMAIN lobbies : lobbies[i] \in Lobbies
    BY DEF ListInv, TypeOK
  <1>4. rows' \subseteq [index : Nat, host : Hosts]
    BY <1>2, <1>3 DEF Lobbies
  <1>5. held' \in 0..MaxHeld
    BY BoundsAssumption DEF ListInv, TypeOK, HeldWhileRead
  <1>6. TypeOK'
    BY <1>4, <1>5 DEF ListInv, TypeOK
  <1>7. LinkedWhileRead'
    BY DEF LinkedWhileRead
  <1> QED
    BY <1>1, <1>6, <1>7 DEF ListInv

(* Storm's other steps leave the list alone.                               *)
LEMMA ShowListInv ==
  ASSUME ListInv, FindsNothing \/ CopyGameInfo \/ BackToList
                    \/ \E row \in rows : GetAdByIndex(row)
  PROVE  ListInv'
  <1> USE DEF list, clock
  <1>1. HeldWhileRead'
    BY HeldNext DEF ListInv, Next, Storm
  <1>2. \A i \in DOMAIN lobbies : lobbies[i].host \in Hosts
    <2>1. \A i \in DOMAIN lobbies : lobbies[i] \in Lobbies
      BY DEF ListInv, TypeOK
    <2> QED
      BY <2>1 DEF Lobbies
  <1>3. TypeOK' /\ storm' \notin {"returning", "reading"} /\ lobbies' = lobbies
    <2>1. CASE FindsNothing
      BY <2>1 DEF FindsNothing, ListInv, TypeOK, Request, screen
    <2>2. CASE BackToList
      BY <2>2 DEF BackToList, ListInv, TypeOK, NotJoining, Null
    <2>3. CASE CopyGameInfo
      <3>1. PICK h \in joining.got \union
                 {lobbies[s].host : s \in {joining.slot} \cap DOMAIN lobbies} :
              joining' = [joining EXCEPT !.got = {h}]
        BY <2>3 DEF CopyGameInfo
      <3>2. h \in Hosts
        BY <1>2 DEF ListInv, TypeOK
      <3>3. joining' \in [index : Nat, chosen : SUBSET Hosts, slot : Int,
                          got : SUBSET Hosts]
        BY <3>1, <3>2 DEF ListInv, TypeOK
      <3> QED
        BY <2>3, <3>3 DEF CopyGameInfo, ListInv, TypeOK
    <2>4. CASE \E row \in rows : GetAdByIndex(row)
      <3>1. PICK row \in rows : GetAdByIndex(row)
        BY <2>4
      <3>2. PICK s \in DOMAIN lobbies :
              joining' = [index |-> row.index, chosen |-> {row.host}, slot |-> s,
                          got |-> {lobbies[s].host}]
        BY <3>1 DEF GetAdByIndex
      <3>3. row.index \in Nat /\ row.host \in Hosts /\ s \in Int
            /\ lobbies[s].host \in Hosts
        BY <1>2 DEF ListInv, TypeOK
      <3>4. joining' \in [index : Nat, chosen : SUBSET Hosts, slot : Int,
                          got : SUBSET Hosts]
        BY <3>2, <3>3
      <3> QED
        BY <3>1, <3>4 DEF GetAdByIndex, ListInv, TypeOK
    <2> QED
      BY <2>1, <2>2, <2>3, <2>4
  <1> QED
    BY <1>1, <1>3 DEF ListInv, LinkedWhileRead, Numbered

(* So does the server.                                                     *)
LEMMA AnswerListInv == ASSUME ListInv, ServerAnswers PROVE ListInv'
  <1>1. HeldWhileRead'
    BY HeldNext DEF ListInv, Next
  <1>2. PICK listing \in Listings : answers' = <<listing>>
    BY DEF ServerAnswers
  <1>3. answers' \in Seq(Listings) /\ Len(answers') <= 1
    BY <1>2
  <1>4. UNCHANGED <<list, held, screen, clock, contacted>> /\ asked' = FALSE
    BY DEF ServerAnswers
  <1>5. TypeOK'
    BY <1>3, <1>4 DEF ListInv, TypeOK, list, screen, clock
  <1> QED
    BY <1>1, <1>4, <1>5 DEF ListInv, LinkedWhileRead, LinkedList, Numbered, list,
                            screen

(* The listener replaces the lobbies only when Storm does not follow them. *)
LEMMA UpdateListInv == ASSUME ListInv, UpdateLobbies PROVE ListInv'
  <1> USE DEF UpdateLobbies, screen, clock
  <1>1. HeldWhileRead'
    BY HeldNext DEF ListInv, Next
  <1>2. answers \in Seq(Listings) /\ answers # <<>> /\ Len(answers) <= 1
    BY DEF ListInv, TypeOK
  <1>3. /\ Head(answers) \in Listings
        /\ Tail(answers) \in Seq(Listings) /\ Len(Tail(answers)) <= 1
    BY <1>2
  <1>4. lobbies' \in Seq(Lobbies) /\ Numbered(lobbies')
    BY <1>3, UpdateIs DEF ListInv
  <1>5. Len(lobbies') <= Cardinality(Hosts)
    BY <1>4, NumberedBound
  <1>6. TypeOK'
    BY <1>3, <1>4, <1>5 DEF ListInv, TypeOK
  <1>7. storm \notin {"returning", "reading"}
    BY DEF ListInv, HeldWhileRead
  <1> QED
    BY <1>1, <1>4, <1>6, <1>7 DEF ListInv, LinkedWhileRead

(* So does the front end that prunes them.                                 *)
LEMMA IterateListInv == ASSUME ListInv, IterateLobbyList PROVE ListInv'
  <1> USE DEF IterateLobbyList, screen
  <1>1. HeldWhileRead'
    BY HeldNext DEF ListInv, Next
  <1>2. PICK c \in 0..Len(lobbies) :
          Strikes(c) /\ lobbies' = Prune(1, c) /\ now' = After(c)
    OBVIOUS
  <1>3. lobbies' \in Seq(Lobbies) /\ Numbered(lobbies')
    BY <1>2, PruneIs DEF ListInv
  <1>4. Len(lobbies') <= Cardinality(Hosts)
    BY <1>3, NumberedBound
  <1>5. now' \in 0..MaxTime
    BY <1>2, ClockStrikes DEF ListInv, TypeOK
  <1>6. contacted' \subseteq Hosts
    BY <1>3, HostsWithHosts DEF ListInv, TypeOK
  <1>7. TypeOK'
    BY <1>3, <1>4, <1>5, <1>6 DEF ListInv, TypeOK, Request
  <1>8. storm \notin {"returning", "reading"}
    BY DEF ListInv, HeldWhileRead
  <1> QED
    BY <1>1, <1>3, <1>7, <1>8 DEF ListInv, LinkedWhileRead

(* The status ad's switch and the clock leave the list alone.              *)
LEMMA WorldListInv == ASSUME ListInv, SetStatusLobby \/ ClockMoves PROVE ListInv'
  <1> USE DEF SetStatusLobby, ClockMoves, list, screen
  <1>1. HeldWhileRead'
    BY HeldNext DEF ListInv, Next
  <1>2. now' \in 0..MaxTime /\ setBack' \in BOOLEAN
    BY BoundsAssumption DEF ListInv, TypeOK, clock
  <1>3. TypeOK'
    BY <1>2 DEF ListInv, TypeOK
  <1> QED
    BY <1>1, <1>3 DEF ListInv, LinkedWhileRead, LinkedList, Numbered

(* ListInv is inductive.                                                   *)
LEMMA ListNext == ListInv /\ [Next]_vars => ListInv'
  <1> SUFFICES ASSUME ListInv, [Next]_vars PROVE ListInv'
    OBVIOUS
  <1>1. CASE UNCHANGED vars
    <2>1. HeldWhileRead'
      BY HeldNext DEF ListInv
    <2> QED
      BY <1>1, <2>1 DEF vars, list, screen, clock, ListInv, TypeOK,
                        LinkedWhileRead, LinkedList, Numbered
  <1> QED
    BY <1>1, LockListInv, ReturnListInv, UnlockListInv, ShowListInv, AnswerListInv,
       UpdateListInv, IterateListInv, WorldListInv DEF Next, Storm

(* The lobbies are always numbered, and linked while Storm follows them.   *)
THEOREM ListHolds == Spec => []ListInv
  BY ListInit, ListNext, PTL DEF Spec

(* Everything in the list of lobbies has its type; there are never more    *)
(* lobbies than hosts.                                                     *)
THEOREM ListTypes == Spec => []TypeOK
  <1>1. ListInv => TypeOK
    BY DEF ListInv
  <1> QED
    BY <1>1, ListHolds, PTL

(* What Storm follows is the whole list, it ends, and no two of its        *)
(* lobbies have one index or one host.                                     *)
THEOREM StormSeesAll == Spec => []StormReadsTheList
  <1>1. ListInv => StormReadsTheList
    <2> SUFFICES ASSUME ListInv, storm = "reading"
                 PROVE  /\ Reached = DOMAIN lobbies
                        /\ lobbies # <<>> => lobbies[Len(lobbies)].next = Null
                        /\ \A i, j \in DOMAIN lobbies :
                             /\ lobbies[i].index # StatusIndex
                             /\ i # j => /\ lobbies[i].index # lobbies[j].index
                                         /\ lobbies[i].host # lobbies[j].host
      BY DEF StormReadsTheList
    <2>1. Reached = DOMAIN lobbies
      BY ReachesAll
    <2>2. lobbies # <<>> => lobbies[Len(lobbies)].next = Null
      BY DEF ListInv, LinkedWhileRead, LinkedList, TypeOK
    <2>3. \A i \in DOMAIN lobbies : lobbies[i].index \in Nat /\ i \in Nat
      <3>1. \A i \in DOMAIN lobbies : lobbies[i] \in Lobbies /\ i \in Nat
        BY DEF ListInv, TypeOK
      <3> QED
        BY <3>1 DEF Lobbies
    <2>4. ASSUME NEW i \in DOMAIN lobbies, NEW j \in DOMAIN lobbies, i # j
          PROVE  /\ lobbies[i].index # lobbies[j].index
                 /\ lobbies[i].host # lobbies[j].host
      <3>1. i < j \/ j < i
        BY <2>3, <2>4
      <3> QED
        BY <3>1, <2>3 DEF ListInv, Numbered
    <2>5. \A i \in DOMAIN lobbies : lobbies[i].index # StatusIndex
      BY <2>3 DEF ListInv, Numbered, StatusIndex
    <2> QED
      BY <2>1, <2>2, <2>4, <2>5
  <1> QED
    BY <1>1, ListHolds, PTL

-----------------------------------------------------------------------------
(* All lobbies have been stamped at one time, which has come, and each     *)
(* has the extra bytes of its own slot.                                    *)
StampedTogether ==
    /\ \A i \in DOMAIN lobbies : lobbies[i].stamp <= now /\ lobbies[i].extra = i
    /\ \A i, j \in DOMAIN lobbies : lobbies[i].stamp = lobbies[j].stamp

(* Of lobbies stamped at one time, a clock that runs forward keeps all,    *)
(* none, or those that it was read for before it struck: the beginning of  *)
(* the list.                                                               *)
LEMMA PruneKeepsBeginning ==
  ASSUME TypeOK, StampedTogether, NEW seconds \in Nat, NEW c \in 0..Len(lobbies)
  PROVE  \E p \in 0..Len(lobbies) : Prune(seconds, c) = [n \in 1..p |-> lobbies[n]]
  <1> DEFINE L == Len(lobbies)
             K == {i \in DOMAIN lobbies :
                     ~Older(lobbies[i], IF i <= c THEN now ELSE now + 1, seconds)}
  <1>1. /\ L \in Nat /\ DOMAIN lobbies = 1..L /\ now \in Nat
        /\ \A i \in 1..L : lobbies[i].stamp \in Nat /\ lobbies[i].stamp <= now
    <2>1. \A i \in DOMAIN lobbies : lobbies[i] \in Lobbies
      BY DEF TypeOK
    <2>2. L \in Nat /\ DOMAIN lobbies = 1..L /\ now \in Nat
      BY DEF TypeOK
    <2>3. \A i \in DOMAIN lobbies : lobbies[i].stamp \in Nat
      BY <2>1 DEF Lobbies
    <2>4. \A i \in DOMAIN lobbies : lobbies[i].stamp <= now
      BY DEF StampedTogether
    <2> HIDE DEF L
    <2> QED
      BY <2>2, <2>3, <2>4
  <1>2. \E p \in 0..L : K = 1..p
    <2>1. CASE L = 0
      BY <1>1, <2>1
    <2>2. CASE L # 0
      <3> DEFINE t == lobbies[1].stamp
      <3>1. t \in Nat /\ t <= now /\ \A i \in 1..L : lobbies[i].stamp = t
        BY <1>1, <2>2 DEF StampedTogether
      <3> HIDE DEF t, L
      <3>2. \A i \in 1..L : i \in K <=> IF i <= c THEN now - t <= seconds
                                                  ELSE now + 1 - t <= seconds
        BY <1>1, <3>1 DEF Older
      <3>3. K \subseteq 1..L
        BY <1>1
      <3> HIDE DEF K
      <3>4. CASE ~(now - t <= seconds)
        <4>1. K = 1..0
          BY <3>1, <3>2, <3>3, <3>4, <1>1
        <4> QED
          BY <4>1, <1>1
      <3>5. CASE now - t <= seconds /\ ~(now + 1 - t <= seconds)
        <4>1. c \in 0..L
          BY DEF L
        <4>2. \A i \in 1..L : i \in K <=> i <= c
          BY <3>2, <3>5
        <4>3. K = 1..c
          <5>1. L \in Nat /\ 1..c \subseteq 1..L /\ c \in Nat
            BY <4>1, <1>1
          <5>2. \A i \in 1..L : i <= c <=> i \in 1..c
            BY <5>1
          <5> QED
            BY <5>1, <5>2, <4>2, <3>3
        <4> QED
          BY <4>1, <4>3
      <3>6. CASE now + 1 - t <= seconds
        <4>1. now - t <= seconds
          BY <3>1, <3>6, <1>1
        <4>2. \A i \in 1..L : i \in K
          BY <4>1, <3>2, <3>6
        <4>3. K = 1..L
          BY <4>2, <3>3
        <4>4. L \in 0..L
          BY <1>1
        <4> QED
          BY <4>3, <4>4
      <3> QED
        BY <3>4, <3>5, <3>6
    <2> QED
      BY <2>1, <2>2
  <1>3. PICK p \in 0..L : K = 1..p
    BY <1>2
  <1>4. Prune(seconds, c) = Remaining(lobbies, K)
    BY DEF Prune
  <1>5. Remaining(lobbies, K) = [n \in 1..p |-> lobbies[n]]
    <2> HIDE DEF K
    <2> QED
      BY <1>1, <1>3, RemainingBeginning
  <1> QED
    BY <1>1, <1>4, <1>5

(* So the pruning moves no lobby to another slot.                          *)
LEMMA StampedAfterPrune ==
  ASSUME TypeOK, Numbered(lobbies), StampedTogether, NEW seconds \in Nat,
         NEW c \in 0..Len(lobbies), Strikes(c), now' = After(c),
         lobbies' \in {Prune(seconds, c), Linked(Prune(seconds, c))}
  PROVE  StampedTogether'
  <1>1. PICK p \in 0..Len(lobbies) : Prune(seconds, c) = [n \in 1..p |-> lobbies[n]]
    BY PruneKeepsBeginning
  <1>2. /\ Len(lobbies) \in Nat /\ DOMAIN lobbies = 1..Len(lobbies) /\ now \in Nat
        /\ \A i \in DOMAIN lobbies : lobbies[i].stamp \in Nat
    <2>1. \A i \in DOMAIN lobbies : lobbies[i] \in Lobbies
      BY DEF TypeOK
    <2> QED
      BY <2>1 DEF TypeOK, Lobbies
  <1>3. now' \in Nat /\ now <= now'
    BY ClockStrikes, BoundsAssumption, <1>2
  <1>4. Prune(seconds, c) \in Seq(Lobbies) /\ Numbered(Prune(seconds, c))
    BY PruneIs
  <1>5. DOMAIN lobbies' = 1..p /\ 1..p \subseteq DOMAIN lobbies
    BY <1>1, <1>2, <1>4, LinkedIs DEF Linked
  <1>6. \A i \in 1..p : /\ lobbies'[i].stamp = lobbies[i].stamp
                        /\ lobbies'[i].extra = lobbies[i].extra
    <2>1. CASE lobbies' = Prune(seconds, c)
      BY <1>1, <2>1
    <2>2. CASE lobbies' = Linked(Prune(seconds, c))
      <3>1. \A i \in 1..p : Prune(seconds, c)[i] = lobbies[i]
        BY <1>1
      <3> QED
        BY <3>1, <1>1, <1>4, <2>2, LinkedIs
    <2> QED
      BY <2>1, <2>2
  <1> QED
    BY <1>2, <1>3, <1>5, <1>6 DEF StampedTogether

(* As long as the system clock has not been set back, pExtra of every      *)
(* lobby points to its own extra bytes.                                    *)
THEOREM ExtraStaysAtHome == Spec => []ExtraAtHome
  <1> DEFINE Together == ~setBack => StampedTogether
  <1>1. Init => Together
    BY DEF Init, StampedTogether
  <1>2. ListInv /\ Together /\ [Next]_vars => Together'
    <2> SUFFICES ASSUME ListInv, Together, [Next]_vars, ~setBack'
                 PROVE  StampedTogether'
      OBVIOUS
    <2>1. TypeOK /\ Numbered(lobbies)
      BY DEF ListInv
    <2>2. CASE LockGameList
      <3>1. PICK c \in 0..Len(lobbies) :
              Strikes(c) /\ lobbies' = Linked(Prune(2, c)) /\ now' = After(c)
        BY <2>2 DEF LockGameList
      <3>2. StampedTogether
        BY <2>2 DEF LockGameList
      <3> QED
        BY <3>1, <3>2, <2>1, StampedAfterPrune
    <2>3. CASE IterateLobbyList
      <3>1. PICK c \in 0..Len(lobbies) :
              Strikes(c) /\ lobbies' = Prune(1, c) /\ now' = After(c)
        BY <2>3 DEF IterateLobbyList
      <3>2. StampedTogether
        BY <2>3 DEF IterateLobbyList
      <3> QED
        BY <3>1, <3>2, <2>1, StampedAfterPrune
    <2>4. CASE UpdateLobbies
      <3> DEFINE o == Order(Head(answers))
      <3>1. lobbies' = [i \in DOMAIN o |-> Lobby(o[i], Head(answers), i)] /\ now' = now
        BY <2>4 DEF UpdateLobbies, Update, clock
      <3> HIDE DEF o
      <3>2. \A i \in DOMAIN lobbies' : lobbies'[i].stamp = now /\ lobbies'[i].extra = i
        BY <3>1 DEF Lobby
      <3>3. now <= now
        BY <2>1 DEF TypeOK
      <3> QED
        BY <3>1, <3>2, <3>3 DEF StampedTogether
    <2>5. CASE ClockMoves
      <3>1. StampedTogether /\ ~(now' < now) /\ now' \in 0..MaxTime /\ lobbies' = lobbies
        BY <2>5 DEF ClockMoves, list
      <3>2. /\ now \in Nat /\ now' \in Nat /\ now <= now'
            /\ \A i \in DOMAIN lobbies : lobbies[i].stamp \in Nat
        <4>1. \A i \in DOMAIN lobbies : lobbies[i] \in Lobbies
          BY <2>1 DEF TypeOK
        <4> QED
          BY <4>1, <3>1, <2>1, BoundsAssumption DEF TypeOK, Lobbies
      <3> QED
        BY <3>1, <3>2 DEF StampedTogether
    <2>6. CASE \/ FindsNothing \/ ReturnGameList \/ ReturnNothing \/ UnlockGameList
               \/ CopyGameInfo \/ BackToList \/ (\E row \in rows : GetAdByIndex(row))
               \/ ServerAnswers \/ SetStatusLobby \/ UNCHANGED vars
      <3>1. UNCHANGED <<lobbies, clock>>
        BY <2>6 DEF FindsNothing, ReturnGameList, ReturnNothing, UnlockGameList,
                    CopyGameInfo, BackToList, GetAdByIndex, ServerAnswers,
                    SetStatusLobby, vars, list
      <3> QED
        BY <3>1 DEF StampedTogether, clock
    <2> QED
      BY <2>2, <2>3, <2>4, <2>5, <2>6 DEF Next, Storm
  <1>3. Together => ExtraAtHome
    BY DEF StampedTogether, ExtraAtHome
  <1> QED
    BY <1>1, <1>2, <1>3, ListHolds, PTL DEF Spec

=============================================================================
