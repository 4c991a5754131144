------------------------------ MODULE Bootstrap ------------------------------
(***************************************************************************)
(* How a cluster of crawlers starts (run.sh, services/register_services.go,*)
(* crawler/main.go, crawler/crawler.go:150-255, 488-512).                  *)
(*                                                                         *)
(* The provider puts the HTTP capability in the capstore of every Wetware  *)
(* host, while the first crawler is already starting.  That one becomes    *)
(* the leader of a Raft cluster of one and spawns the others, which join   *)
(* it through the capability it left in the capstore.  A process that      *)
(* panics stays at "panic".                                                *)
(***************************************************************************)
EXTENDS Naturals

CONSTANTS
  Host,      \* Wetware hosts, each with its capstore
  Home,      \* the one the first crawler runs on
  First,     \* the crawler the user runs
  Child,     \* those it may spawn: NODES - 1
  Http,      \* key of the HTTP capability, ww.Args()[HTTP]
  Args,      \* how many arguments the user may give
  MaxLost    \* bound: calls to a host that fail

Crawler == {First} \cup Child

ASSUME BootstrapAssumption ==
  /\ Home \in Host
  /\ First \notin Child /\ Http \notin Crawler
  /\ Args \subseteq Nat /\ MaxLost \in Nat

VARIABLES
  caps,       \* caps[h]: keys in the capstore of h
  provider,   \* its stage, hosts to register at, hosts with a call underway
  at,         \* at[p]: how far crawler p is
  args,       \* args[p]: how many arguments it has
  host,       \* host[p]: where it runs
  members,    \* crawlers in the Raft cluster
  peers,      \* peers[p]: members whose capability p's Raft node looked up
  nulls,      \* nulls[p]: those it did not find, and treats as if it had
  lost        \* calls that failed so far

vars == <<caps, provider, at, args, host, members, peers, nulls, lost>>

Init ==
  /\ caps = [h \in Host |-> {}]
  /\ provider = [at |-> "register", todo |-> Host, sent |-> {}]
  /\ at = [p \in Crawler |-> IF p = First THEN "login" ELSE "none"]
  /\ args \in {[p \in Crawler |-> IF p = First THEN n ELSE 0] : n \in Args}
  /\ host = [p \in Crawler |-> Home]
  /\ members = {}
  /\ peers = [p \in Crawler |-> {}] /\ nulls = [p \in Crawler |-> {}]
  /\ lost = 0

Lose == lost < MaxLost /\ lost' = lost + 1

Goto(p, stage) == at' = [at EXCEPT ![p] = stage]

-----------------------------------------------------------------------------
(* The provider calls Set at every host of the view and does not wait for  *)
(* it; a host that cannot be dialed makes it panic.                        *)
Register(h) ==
  /\ provider.at = "register"
  /\ h \in provider.todo
  /\ \/ /\ provider' = [provider EXCEPT !.todo = @ \ {h}, !.sent = @ \cup {h}]
        /\ UNCHANGED lost
     \/ Lose /\ provider' = [provider EXCEPT !.at = "panic"]
  /\ UNCHANGED <<caps, at, args, host, members, peers, nulls>>

Registered(h) ==
  /\ h \in provider.sent
  /\ provider' = [provider EXCEPT !.sent = @ \ {h}]
  /\ \/ caps' = [caps EXCEPT ![h] = @ \cup {Http}] /\ UNCHANGED lost
     \/ Lose /\ UNCHANGED caps
  /\ UNCHANGED <<at, args, host, members, peers, nulls>>

Provide ==
  /\ provider.at = "register" /\ provider.todo = {}
  /\ provider' = [provider EXCEPT !.at = "provide"]
  /\ UNCHANGED <<caps, at, args, host, members, peers, nulls, lost>>

-----------------------------------------------------------------------------
(* Arguments: HTTP, PREFIX, NODES, URL, then three for Neo4j, then the ID  *)
(* of the coordinator for the crawlers it spawns.                          *)
CoordArgs == 4
CoordArgsNeo4j == 7
RaftLink == 7

IsCoordinator(n) == n \in {CoordArgs, CoordArgsNeo4j}
HasDbArgs(n) == n >= CoordArgsNeo4j

MutChildArgs(n) == n + 1

(* The coordinator's arguments, empty Neo4j ones if it has none, its ID.   *)
ChildArgs(n) == IF HasDbArgs(n) THEN n + 1 ELSE n + 4

(* main, up to the first call of fetchClusterSessions *)
Login(p) ==
  /\ at[p] = "login"
  /\ \/ args[p] < CoordArgs /\ Goto(p, "exit")
     \/ args[p] >= CoordArgs /\ Http \notin caps[host[p]] /\ Goto(p, "panic")
     \/ args[p] >= CoordArgs /\ Http \in caps[host[p]] /\ Goto(p, "dial")
  /\ UNCHANGED <<caps, provider, args, host, members, peers, nulls, lost>>

LoginFails(p) ==
  /\ at[p] = "login"
  /\ args[p] >= CoordArgs
  /\ Lose
  /\ Goto(p, "panic")
  /\ UNCHANGED <<caps, provider, args, host, members, peers, nulls>>

(* Every other host of the view is dialed, and the sessions are collected, *)
(* but fetchClusterSessions returns nil.                                   *)
FetchClusterSessions(h) == {}

Dial(p, stage, next) ==
  /\ at[p] = stage
  /\ \/ Goto(p, next) /\ UNCHANGED lost
     \/ Lose /\ Goto(p, "panic")
  /\ UNCHANGED <<caps, provider, args, host, members, peers, nulls>>

MutStoreCap(p) ==
  /\ at[p] = "store"
  /\ caps' = IF IsCoordinator(args[p])
             THEN [caps EXCEPT ![host[p]] = @ \cup {p}] ELSE caps
  /\ Goto(p, "start")
  /\ UNCHANGED <<provider, args, host, members, peers, nulls, lost>>

(* storeCap ignores the errors of Set. *)
StoreCap(p) ==
  /\ at[p] = "store"
  /\ \/ /\ caps' = [h \in Host |-> IF h \in {host[p]} \cup FetchClusterSessions(host[p])
                                   THEN caps[h] \cup {p} ELSE caps[h]]
        /\ UNCHANGED lost
     \/ Lose /\ UNCHANGED caps
  /\ Goto(p, "start")
  /\ UNCHANGED <<provider, args, host, members, peers, nulls>>

(* startRaftNode dials once more. *)
StartRaftNode(p) == Dial(p, "start", IF IsCoordinator(args[p]) THEN "elect" ELSE "join")

(* External: the only node of a new Raft cluster becomes its leader.       *)
Elected(p) ==
  /\ at[p] = "elect"
  /\ members' = members \cup {p}
  /\ Goto(p, "spawn")
  /\ UNCHANGED <<caps, provider, args, host, peers, nulls, lost>>

MutSpawnCrawler(p, c) ==
  /\ at[p] = "spawn" /\ at[c] = "none"
  /\ \E h \in Host : host' = [host EXCEPT ![c] = h]
  /\ args' = [args EXCEPT ![c] = ChildArgs(args[p])]
  /\ Goto(c, "login")
  /\ UNCHANGED <<caps, provider, members, peers, nulls, lost>>

(* ExecCached on one of the sessions.  What becomes of it is never asked.  *)
SpawnCrawler(p, c) ==
  /\ at[p] = "spawn" /\ at[c] = "none"
  /\ \E h \in {host[p]} \cup FetchClusterSessions(host[p]) : host' = [host EXCEPT ![c] = h]
  /\ args' = [args EXCEPT ![c] = ChildArgs(args[p])]
  /\ \/ Goto(c, "login") /\ UNCHANGED lost
     \/ Lose /\ Goto(c, "lost")
  /\ UNCHANGED <<caps, provider, members, peers, nulls>>

MutSpawned(p) ==
  /\ at[p] = "spawn"
  /\ \E c \in Child : at[c] # "none"
  /\ Goto(p, "crawl")
  /\ UNCHANGED <<caps, provider, args, host, members, peers, nulls, lost>>

Spawned(p) ==
  /\ at[p] = "spawn"
  /\ \A c \in Child : at[c] # "none"
  /\ Goto(p, "crawl")
  /\ UNCHANGED <<caps, provider, args, host, members, peers, nulls, lost>>

MutJoin(p) ==
  /\ at[p] = "join" /\ p \in Child
  /\ members' = members \cup {p}
  /\ peers' = [peers EXCEPT ![p] = members']
  /\ Goto(p, "crawl")
  /\ UNCHANGED <<caps, provider, args, host, nulls, lost>>

(* join panics when it has no link to the coordinator, or does not find it *)
(* in the capstore, or the coordinator's Add fails.  Otherwise it learns   *)
(* the members so far.  A user who gives five arguments or more (but not   *)
(* seven) starts a crawler that wants to join as well.                     *)
Join(p) ==
  /\ at[p] = "join"
  /\ \/ /\ args[p] > RaftLink /\ p \in Child /\ First \in caps[host[p]]
        /\ members' = members \cup {p}
        /\ peers' = [peers EXCEPT ![p] = members]
        /\ Goto(p, "crawl")
        /\ UNCHANGED lost
     \/ /\ args[p] <= RaftLink \/ p = First \/ First \notin caps[host[p]]
        /\ Goto(p, "panic")
        /\ UNCHANGED <<members, peers, lost>>
     \/ /\ Lose
        /\ Goto(p, "panic")
        /\ UNCHANGED <<members, peers>>
  /\ UNCHANGED <<caps, provider, args, host, nulls>>

(* A Raft node is told of a new member and asks retrieveRaftNode for it,   *)
(* which returns a null capability and no error if it finds nothing.       *)
RetrieveRaftNode(p, q) ==
  /\ {p, q} \subseteq members
  /\ q # p /\ q \notin peers[p]
  /\ peers' = [peers EXCEPT ![p] = @ \cup {q}]
  /\ nulls' = IF q \in caps[host[p]] THEN nulls ELSE [nulls EXCEPT ![p] = @ \cup {q}]
  /\ UNCHANGED <<caps, provider, at, args, host, members, lost>>

-----------------------------------------------------------------------------
Start(p) ==
  \/ Login(p) \/ LoginFails(p) \/ Dial(p, "dial", "store")
  \/ StoreCap(p) \/ StartRaftNode(p) \/ Elected(p) \/ Spawned(p) \/ Join(p)
  \/ \E c \in Child : SpawnCrawler(p, c)
  \/ \E q \in Crawler : RetrieveRaftNode(p, q)

Next ==
  \/ \E h \in Host : Register(h) \/ Registered(h)
  \/ Provide
  \/ \E p \in Crawler : Start(p)

Spec == Init /\ [][Next]_vars

(* Every process that can go on does, and the only candidate is elected.   *)
FairSpec == Spec /\ \A p \in Crawler : WF_vars(Start(p))

-----------------------------------------------------------------------------
Stage == {"none", "lost", "login", "exit", "panic", "dial", "store", "start",
          "elect", "spawn", "join", "crawl"}

(* Type invariant. *)
TypeOK ==
  /\ caps \in [Host -> SUBSET (Crawler \cup {Http})]
  /\ provider \in [at : {"register", "provide", "panic"}, todo : SUBSET Host, sent : SUBSET Host]
  /\ at \in [Crawler -> Stage]
  /\ args \in [Crawler -> Nat]
  /\ host \in [Crawler -> Host]
  /\ members \in SUBSET Crawler
  /\ peers \in [Crawler -> SUBSET Crawler] /\ nulls \in [Crawler -> SUBSET Crawler]
  /\ \A p \in Crawler : p \notin peers[p]
  /\ lost \in 0 .. MaxLost

(* A spawned crawler is not a coordinator, whatever arguments the first    *)
(* one had, and its last argument is where it looks for the coordinator's  *)
(* ID (main.go:16-31, 134-140, crawler.go:184-201).                        *)
LinkInPlace ==
  \A c \in Child :
    at[c] \notin {"none", "lost"} => ~IsCoordinator(args[c]) /\ args[c] - 1 = RaftLink

(* Once the first crawler is up, all others find what they need to start:  *)
(* the HTTP capability and the coordinator, although the provider may      *)
(* still be registering and nobody waits for anybody (main.go:57-61,       *)
(* 121-125, crawler.go:171-215).                                           *)
ChildrenStart == lost = 0 => \A c \in Child : at[c] # "panic"

(* No Raft node goes on with a null capability for a peer, although        *)
(* retrieveRaftNode swallows the error: every member has stored its own    *)
(* before it joins, where the others look (crawler.go:86-92, main.go:122). *)
NoNullPeer == lost = 0 => \A p \in Crawler : nulls[p] = {}

(* All crawlers end up in one Raft cluster, each knowing all others        *)
(* (crawler.go:154-169, 208-250).                                          *)
AllJoin ==
  at[First] = "spawn" ~>
    lost > 0 \/ \A p \in Crawler : at[p] = "crawl" /\ peers[p] = Crawler \ {p}
=============================================================================
