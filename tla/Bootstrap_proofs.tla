-------------------------- MODULE Bootstrap_proofs --------------------------
(***************************************************************************)
(* Proofs about the start of a cluster, for any number of hosts, crawlers, *)
(* arguments and failing calls.                                            *)
(***************************************************************************)
EXTENDS Bootstrap, TLAPS

Up == {"start", "elect", "spawn", "join", "crawl"}
Leading == {"spawn", "crawl"}

(* Who joined is past joining; nothing runs away from Home. *)
MembersInv == \A p \in members : at[p] \in Leading
HostInv == \A p \in Crawler : host[p] = Home

(* Only the first crawler is ever a coordinator, and nobody else exists    *)
(* before it leads.                                                        *)
ArgsInv ==
  /\ \A p \in Crawler : at[p] \in {"elect", "spawn"} => IsCoordinator(args[p])
  /\ \A c \in Child : at[c] # "none" => args[c] = 8 /\ at[First] \in Leading

(* What is in the capstore of Home, if no call has failed. *)
HttpInv == at[First] \in {"dial", "store"} \cup Up => Http \in caps[Home]
StoredInv == lost = 0 => \A p \in Crawler : at[p] \in Up => p \in caps[Home]

BootInv ==
  /\ TypeOK /\ MembersInv /\ HostInv /\ ArgsInv /\ HttpInv /\ StoredInv
  /\ ChildrenStart /\ NoNullPeer

-----------------------------------------------------------------------------
(* A crawler is not a child when it is the first, and no capstore loses    *)
(* keys.                                                                   *)
LEMMA Names == First \in Crawler /\ Child \subseteq Crawler /\ First \notin Child
  BY BootstrapAssumption DEF Crawler

LEMMA ArgsNumbers ==
  /\ \A n \in Nat : ChildArgs(n) \in Nat
  /\ \A n \in Nat : IsCoordinator(n) => ChildArgs(n) = 8
  /\ ~IsCoordinator(8) /\ 8 > RaftLink /\ 8 - 1 = RaftLink
  BY DEF ChildArgs, HasDbArgs, IsCoordinator, CoordArgs, CoordArgsNeo4j, RaftLink

LEMMA LoseNext ==
  ASSUME TypeOK, Lose
  PROVE  lost' \in 0 .. MaxLost /\ lost' # 0
  BY BootstrapAssumption DEF TypeOK, Lose

LEMMA BootInit == Init => BootInv
<1> SUFFICES ASSUME Init PROVE BootInv
  OBVIOUS
<1>1. TypeOK
  BY BootstrapAssumption DEF Init, TypeOK, Stage
<1>2. MembersInv /\ HostInv /\ HttpInv
  BY Names DEF Init, MembersInv, HostInv, HttpInv, Up
<1>3. ArgsInv /\ StoredInv /\ ChildrenStart
  BY Names DEF Init, ArgsInv, StoredInv, ChildrenStart, Up
<1>4. NoNullPeer
  BY DEF Init, NoNullPeer
<1>5. QED
  BY <1>1, <1>2, <1>3, <1>4 DEF BootInv

(* The provider only adds to capstores. *)
LEMMA ProviderKeeps ==
  ASSUME BootInv, Provide \/ \E h \in Host : Register(h) \/ Registered(h)
  PROVE  BootInv'
<1>1. /\ at' = at /\ args' = args /\ host' = host /\ members' = members
      /\ peers' = peers /\ nulls' = nulls
  BY DEF Provide, Register, Registered
<1>2. /\ caps' \in [Host -> SUBSET (Crawler \cup {Http})]
      /\ \A h \in Host : caps[h] \subseteq caps'[h]
  <2>1. caps' = caps \/ \E h \in Host : caps' = [caps EXCEPT ![h] = @ \cup {Http}]
    BY DEF Provide, Register, Registered
  <2>2. QED
    BY <2>1 DEF BootInv, TypeOK
<1>3. lost' = lost \/ (lost' \in 0 .. MaxLost /\ lost' # 0)
  BY LoseNext DEF Provide, Register, Registered, BootInv
<1>4. provider' \in [at : {"register", "provide", "panic"}, todo : SUBSET Host, sent : SUBSET Host]
  <2> DEFINE P == [at : {"register", "provide", "panic"}, todo : SUBSET Host, sent : SUBSET Host]
  <2>1. CASE Provide
    BY <2>1 DEF Provide, BootInv, TypeOK
  <2>2. ASSUME NEW h \in Host, Register(h) PROVE provider' \in P
    <3>1. CASE provider' = [provider EXCEPT !.todo = @ \ {h}, !.sent = @ \cup {h}]
      BY <3>1 DEF BootInv, TypeOK
    <3>2. CASE provider' = [provider EXCEPT !.at = "panic"]
      BY <3>2 DEF BootInv, TypeOK
    <3>3. QED
      BY <2>2, <3>1, <3>2 DEF Register
  <2>3. ASSUME NEW h \in Host, Registered(h) PROVE provider' \in P
    BY <2>3 DEF Registered, BootInv, TypeOK
  <2>4. QED
    BY <2>1, <2>2, <2>3
<1>5. TypeOK'
  BY <1>1, <1>2, <1>3, <1>4 DEF BootInv, TypeOK
<1>6. MembersInv' /\ HostInv' /\ ArgsInv'
  BY <1>1 DEF BootInv, MembersInv, HostInv, ArgsInv
<1>7. HttpInv' /\ StoredInv'
  BY <1>1, <1>2, <1>3, BootstrapAssumption DEF BootInv, HttpInv, StoredInv
<1>8. ChildrenStart' /\ NoNullPeer'
  BY <1>1, <1>3 DEF BootInv, ChildrenStart, NoNullPeer
<1>9. QED
  BY <1>5, <1>6, <1>7, <1>8 DEF BootInv

(* A step that only moves one crawler from one stage to another, and may   *)
(* store its capability.                                                   *)
Moves(p, from, to) ==
  /\ at[p] = from /\ Goto(p, to)
  /\ UNCHANGED <<provider, args, host, members, peers, nulls>>
  /\ caps' \in [Host -> SUBSET (Crawler \cup {Http})]
  /\ \A h \in Host : caps[h] \subseteq caps'[h]
  /\ lost' = lost \/ (lost' \in 0 .. MaxLost /\ lost' # 0)

(* Such a step keeps the invariant if the crawler has what the new stage   *)
(* needs.                                                                  *)
LEMMA MoveKeeps ==
  ASSUME BootInv, NEW p \in Crawler, NEW from \in Stage, NEW to \in Stage, Moves(p, from, to),
         from \notin {"none", "panic"}, to # "none",
         from \in Leading => to \in Leading,
         to \in {"elect", "spawn"} => IsCoordinator(args[p]),
         to \in {"dial", "store"} \cup Up => Http \in caps'[Home],
         lost' = 0 /\ to \in Up => p \in caps'[Home],
         lost' = 0 /\ p \in Child => to # "panic"
  PROVE  BootInv'
<1>1. /\ at' \in [Crawler -> Stage]
      /\ at'[p] = to
      /\ \A q \in Crawler \ {p} : at'[q] = at[q]
  BY DEF Moves, Goto, BootInv, TypeOK
<1>2. TypeOK'
  BY <1>1 DEF Moves, BootInv, TypeOK
<1>3. MembersInv' /\ HostInv'
  BY <1>1 DEF Moves, BootInv, TypeOK, MembersInv, HostInv
<1>4. ArgsInv'
  BY <1>1, Names DEF Moves, BootInv, ArgsInv
<1>5. HttpInv'
  BY <1>1, Names, BootstrapAssumption DEF Moves, BootInv, HttpInv
<1>6. StoredInv'
  BY <1>1, BootstrapAssumption DEF Moves, BootInv, StoredInv
<1>7. ChildrenStart' /\ NoNullPeer'
  BY <1>1, Names DEF Moves, BootInv, ChildrenStart, NoNullPeer
<1>8. QED
  BY <1>2, <1>3, <1>4, <1>5, <1>6, <1>7 DEF BootInv

(* Children find the HTTP capability where the first crawler found it.     *)
LEMMA ChildFinds ==
  ASSUME BootInv, NEW c \in Child, at[c] # "none"
  PROVE  /\ Http \in caps[Home] /\ args[c] = 8
         /\ lost = 0 => First \in caps[Home]
  BY Names DEF BootInv, ArgsInv, HttpInv, StoredInv, Leading, Up

LEMMA LoginKeeps ==
  ASSUME BootInv, NEW p \in Crawler, Login(p) \/ LoginFails(p)
  PROVE  BootInv'
<1>1. \E to \in {"exit", "panic", "dial"} :
        /\ Moves(p, "login", to)
        /\ to = "dial" => Http \in caps'[Home]
        /\ lost' = 0 /\ p \in Child => to # "panic"
  <2>1. CASE Login(p)
    <3>1. p \in Child => Http \in caps[host[p]]
      BY <2>1, ChildFinds DEF Login, BootInv, HostInv
    <3>2. host[p] = Home
      BY DEF BootInv, HostInv
    <3>3. QED
      BY <2>1, <3>1, <3>2 DEF Login, Moves, BootInv, TypeOK
  <2>2. CASE LoginFails(p)
    BY <2>2, LoseNext DEF LoginFails, Moves, BootInv, TypeOK
  <2>3. QED
    BY <2>1, <2>2
<1>2. QED
  BY <1>1, MoveKeeps DEF Stage, Leading, Up

LEMMA DialKeeps ==
  ASSUME BootInv, NEW p \in Crawler, Dial(p, "dial", "store") \/ StartRaftNode(p)
  PROVE  BootInv'
<1>1. PICK from \in {"dial", "start"}, to \in {"store", "elect", "join", "panic"} :
        /\ Moves(p, from, to) /\ caps' = caps
        /\ from = "dial" => to \in {"store", "panic"}
        /\ from = "start" => to # "store"
        /\ to = "elect" => IsCoordinator(args[p])
        /\ to = "panic" => lost' # 0
  BY LoseNext DEF Dial, StartRaftNode, Moves, BootInv, TypeOK
<1>2. Http \in caps[Home]
  <2>1. CASE p = First
    BY <1>1, <2>1 DEF Moves, BootInv, HttpInv, Up
  <2>2. CASE p \in Child
    BY <1>1, <2>2, ChildFinds DEF Moves
  <2>3. QED
    BY <2>1, <2>2 DEF Crawler
<1>3. lost' = 0 /\ to \in Up => p \in caps[Home]
  BY <1>1 DEF Moves, BootInv, StoredInv, Up
<1>4. QED
  BY <1>1, <1>2, <1>3, MoveKeeps DEF Stage, Leading, Up

LEMMA StoreKeeps ==
  ASSUME BootInv, NEW p \in Crawler, StoreCap(p)
  PROVE  BootInv'
<1>1. Moves(p, "store", "start")
  BY LoseNext DEF StoreCap, Moves, BootInv, TypeOK
<1>2. lost' = 0 => p \in caps'[Home]
  BY LoseNext, BootstrapAssumption DEF StoreCap, BootInv, TypeOK, HostInv
<1>3. Http \in caps[Home]
  <2>1. CASE p = First
    BY <1>1, <2>1 DEF Moves, BootInv, HttpInv
  <2>2. CASE p \in Child
    BY <1>1, <2>2, ChildFinds DEF Moves
  <2>3. QED
    BY <2>1, <2>2 DEF Crawler
<1>4. Http \in caps'[Home]
  BY <1>1, <1>3, BootstrapAssumption DEF Moves
<1>5. QED
  BY <1>1, <1>2, <1>4, MoveKeeps DEF Stage, Leading, Up

LEMMA LeadKeeps ==
  ASSUME BootInv, NEW p \in Crawler, Spawned(p) PROVE BootInv'
<1>1. Moves(p, "spawn", "crawl") /\ caps' = caps /\ lost' = lost
  BY DEF Spawned, Moves, BootInv, TypeOK
<1>2. IsCoordinator(args[p]) /\ p = First
  BY <1>1, ArgsNumbers DEF Moves, BootInv, ArgsInv, Crawler
<1>3. Http \in caps[Home] /\ (lost = 0 => p \in caps[Home])
  BY <1>1, <1>2 DEF Moves, BootInv, HttpInv, StoredInv, Up
<1>4. QED
  BY <1>1, <1>2, <1>3, MoveKeeps DEF Stage, Leading, Up

LEMMA ElectedKeeps ==
  ASSUME BootInv, NEW p \in Crawler, Elected(p) PROVE BootInv'
<1>1. /\ at[p] = "elect" /\ at' = [at EXCEPT ![p] = "spawn"] /\ members' = members \cup {p}
      /\ UNCHANGED <<caps, provider, args, host, peers, nulls, lost>>
  BY DEF Elected, Goto
<1>2. IsCoordinator(args[p]) /\ p = First
  BY <1>1, ArgsNumbers DEF BootInv, ArgsInv, Crawler
<1>3. TypeOK'
  BY <1>1 DEF BootInv, TypeOK, Stage
<1>4. MembersInv' /\ HostInv'
  BY <1>1 DEF BootInv, TypeOK, MembersInv, HostInv, Leading
<1>5. ArgsInv'
  BY <1>1, <1>2, Names DEF BootInv, TypeOK, ArgsInv, Leading
<1>6. HttpInv' /\ StoredInv'
  BY <1>1, <1>2, Names DEF BootInv, TypeOK, HttpInv, StoredInv, Up
<1>7. ChildrenStart' /\ NoNullPeer'
  BY <1>1, <1>2, Names DEF BootInv, TypeOK, ChildrenStart, NoNullPeer
<1>8. QED
  BY <1>3, <1>4, <1>5, <1>6, <1>7 DEF BootInv

LEMMA SpawnKeeps ==
  ASSUME BootInv, NEW p \in Crawler, NEW c \in Child, SpawnCrawler(p, c) PROVE BootInv'
<1>1. /\ at[p] = "spawn" /\ at[c] = "none"
      /\ args' = [args EXCEPT ![c] = ChildArgs(args[p])]
      /\ UNCHANGED <<caps, provider, members, peers, nulls>>
  BY DEF SpawnCrawler
<1>2. host' = host
  BY DEF SpawnCrawler, FetchClusterSessions, BootInv, TypeOK, HostInv
<1>3. PICK to \in {"login", "lost"} :
        /\ at' = [at EXCEPT ![c] = to]
        /\ lost' = lost \/ (lost' \in 0 .. MaxLost /\ lost' # 0)
  BY LoseNext DEF SpawnCrawler, Goto, BootInv
<1>4. p = First /\ ChildArgs(args[p]) = 8 /\ c \in Crawler /\ c # p
  BY <1>1, Names, ArgsNumbers DEF BootInv, TypeOK, ArgsInv, Crawler
<1>5. TypeOK'
  BY <1>1, <1>2, <1>3, <1>4 DEF BootInv, TypeOK, Stage
<1>6. MembersInv' /\ HostInv'
  BY <1>1, <1>2, <1>3, <1>4 DEF BootInv, TypeOK, MembersInv, HostInv, Leading
<1>7. ArgsInv'
  BY <1>1, <1>3, <1>4, Names DEF BootInv, TypeOK, ArgsInv, Leading
<1>8. HttpInv' /\ StoredInv'
  BY <1>1, <1>3, <1>4, Names DEF BootInv, TypeOK, HttpInv, StoredInv, Up
<1>9. ChildrenStart' /\ NoNullPeer'
  BY <1>1, <1>3, <1>4, Names DEF BootInv, TypeOK, ChildrenStart, NoNullPeer
<1>10. QED
  BY <1>5, <1>6, <1>7, <1>8, <1>9 DEF BootInv

LEMMA JoinKeeps ==
  ASSUME BootInv, NEW p \in Crawler, Join(p) PROVE BootInv'
<1>1. CASE /\ p \in Child /\ members' = members \cup {p} /\ Goto(p, "crawl")
           /\ peers' = [peers EXCEPT ![p] = members] /\ lost' = lost
  <2>1. /\ at[p] = "join" /\ at' = [at EXCEPT ![p] = "crawl"]
        /\ UNCHANGED <<caps, provider, args, host, nulls, lost>>
    BY <1>1 DEF Join, Goto
  <2>2. p \notin members
    BY <2>1 DEF BootInv, MembersInv, Leading
  <2>3. TypeOK'
    BY <1>1, <2>1, <2>2 DEF BootInv, TypeOK, Stage
  <2>4. MembersInv' /\ HostInv'
    BY <1>1, <2>1 DEF BootInv, TypeOK, MembersInv, HostInv, Leading
  <2>5. ArgsInv'
    BY <1>1, <2>1, Names DEF BootInv, TypeOK, ArgsInv, Leading
  <2>6. HttpInv' /\ StoredInv'
    BY <1>1, <2>1, Names DEF BootInv, TypeOK, HttpInv, StoredInv, Up
  <2>7. ChildrenStart' /\ NoNullPeer'
    BY <1>1, <2>1, Names DEF BootInv, TypeOK, ChildrenStart, NoNullPeer
  <2>8. QED
    BY <2>3, <2>4, <2>5, <2>6, <2>7 DEF BootInv
<1>2. CASE Goto(p, "panic") /\ UNCHANGED <<members, peers>>
  <2>1. p \in Child => args[p] = 8 /\ (lost = 0 => First \in caps[host[p]])
    BY ChildFinds DEF Join, BootInv, HostInv
  <2>2. lost' = 0 => p \notin Child
    BY <1>2, <2>1, LoseNext, ArgsNumbers, Names DEF Join, BootInv, TypeOK, Goto, Stage
  <2>3. Moves(p, "join", "panic")
    BY <1>2, LoseNext DEF Join, Moves, BootInv, TypeOK
  <2>4. QED
    BY <2>2, <2>3, MoveKeeps DEF Stage, Leading, Up
<1>3. QED
  BY <1>1, <1>2 DEF Join

LEMMA RetrieveKeeps ==
  ASSUME BootInv, NEW p \in Crawler, NEW q \in Crawler, RetrieveRaftNode(p, q) PROVE BootInv'
<1>1. /\ {p, q} \subseteq members /\ q # p
      /\ peers' = [peers EXCEPT ![p] = @ \cup {q}]
      /\ nulls' = IF q \in caps[host[p]] THEN nulls ELSE [nulls EXCEPT ![p] = @ \cup {q}]
      /\ UNCHANGED <<caps, provider, at, args, host, members, lost>>
  BY DEF RetrieveRaftNode
<1>2. TypeOK'
  BY <1>1 DEF BootInv, TypeOK
<1>3. lost = 0 => q \in caps[host[p]]
  BY <1>1 DEF BootInv, StoredInv, HostInv, MembersInv, Leading, Up
<1>4. NoNullPeer'
  BY <1>1, <1>3 DEF BootInv, NoNullPeer
<1>5. MembersInv' /\ HostInv' /\ ArgsInv' /\ HttpInv' /\ StoredInv' /\ ChildrenStart'
  BY <1>1 DEF BootInv, MembersInv, HostInv, ArgsInv, HttpInv, StoredInv, ChildrenStart
<1>6. QED
  BY <1>2, <1>4, <1>5 DEF BootInv

LEMMA BootNext == BootInv /\ [Next]_vars => BootInv'
<1> SUFFICES ASSUME BootInv, [Next]_vars PROVE BootInv'
  OBVIOUS
<1>1. CASE Provide \/ \E h \in Host : Register(h) \/ Registered(h)
  BY <1>1, ProviderKeeps
<1>2. ASSUME NEW p \in Crawler, Start(p) PROVE BootInv'
  BY <1>2, LoginKeeps, DialKeeps, StoreKeeps, LeadKeeps, ElectedKeeps, SpawnKeeps,
     JoinKeeps, RetrieveKeeps DEF Start
<1>3. CASE UNCHANGED vars
  BY <1>3 DEF vars, BootInv, TypeOK, MembersInv, HostInv, ArgsInv, HttpInv, StoredInv,
     ChildrenStart, NoNullPeer
<1>4. QED
  BY <1>1, <1>2, <1>3 DEF Next

-----------------------------------------------------------------------------
LEMMA BootCorrect == Spec => []BootInv
  BY BootInit, BootNext, PTL DEF Spec

(* Type correctness; no Raft node looks itself up.                         *)
THEOREM TypeCorrect == Spec => []TypeOK
<1>1. BootInv => TypeOK
  BY DEF BootInv
<1>2. QED
  BY <1>1, BootCorrect, PTL

(* Whatever arguments the user gives, no spawned crawler is taken for a    *)
(* coordinator, and its link is where it looks for it (main.go:16-31).     *)
THEOREM LinkIsInPlace == Spec => []LinkInPlace
<1>1. BootInv => LinkInPlace
  BY ArgsNumbers DEF BootInv, ArgsInv, LinkInPlace
<1>2. QED
  BY <1>1, BootCorrect, PTL

(* If no call to a host fails, every spawned crawler finds what it needs,  *)
(* because it runs where the first one looked for it and left it           *)
(* (crawler.go:171-215, 488-512).                                          *)
THEOREM ChildrenDoStart == Spec => []ChildrenStart
<1>1. BootInv => ChildrenStart
  BY DEF BootInv
<1>2. QED
  BY <1>1, BootCorrect, PTL

(* If no call to a host fails, no Raft node uses a null capability         *)
(* (crawler.go:86-92).                                                     *)
THEOREM PeersAreFound == Spec => []NoNullPeer
<1>1. BootInv => NoNullPeer
  BY DEF BootInv
<1>2. QED
  BY <1>1, BootCorrect, PTL
=============================================================================
