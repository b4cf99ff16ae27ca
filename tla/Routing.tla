------------------------------- MODULE Routing -------------------------------
(***************************************************************************)
(* How the controller picks a base station for each client                 *)
(* (wspace_controller.h/.cc): BSStatsTable, RoutingTable and the threads   *)
(* that change them.                                                       *)
(*                                                                         *)
(*   - RecvFromBS takes the throughput reports of the base stations, which *)
(*     come as datagrams: lost, repeated and out of order;                 *)
(*   - ComputeRoutes copies the table, makes routes of the copy, clears    *)
(*     the table and calls ComputeQuantum of each contention domain that   *)
(*     has a client.                                                       *)
(*                                                                         *)
(* BSStatsTable and RoutingTable hold their mutex from the first to the    *)
(* last line of each method and wait for nothing in between: a call is one *)
(* step.  ComputeRoutes makes several, and reports come in between.  Of    *)
(* the schedulers only what ComputeQuantum was last called with is kept:   *)
(* module PktScheduler has the rest.                                       *)
(***************************************************************************)
EXTENDS Integers, Sequences, Functions

CONSTANTS
  ClientList,     (* client_ids_, a sequence                               *)
  BSList,         (* bs_ids_, a sequence; its first is the default         *)
  Domains,        (* the contention ids                                    *)
  ConflictGraph,  (* conflict_graph_: the domain of each base station      *)
  Modes,          (* the scheduling modes considered                       *)
  MinThroughput,  (* MIN_THROUGHPUT                                        *)
  Rates,          (* the throughputs that reports carry                    *)
  NoRate,         (* no entry                                              *)
  NoBS,           (* -1 in the route file                                  *)
  NoRoute,        (* no entry in route_                                    *)
  MaxSeq,         (* bound: numbers of the reports of one link             *)
  MaxTotal,       (* bound: sum of the numbers last taken over all links   *)
  IndexMod        (* 2^32, where bs_index wraps                            *)

Clients == {ClientList[i] : i \in 1..Len(ClientList)}
BSs == {BSList[i] : i \in 1..Len(BSList)}
DefaultBS == BSList[1]

ASSUME RoutingAssumption ==
  /\ ClientList \in Seq(Clients) /\ ClientList # <<>>
  /\ BSList \in Seq(BSs) /\ BSList # <<>>
  /\ ConflictGraph \in [BSs -> Domains]
  /\ Domains = {ConflictGraph[b] : b \in BSs}
  /\ Modes \subseteq {"MaxThroughput", "Duplication", "Optimizer", "RoundRobin"}
  /\ MinThroughput \in Nat \ {0}
  /\ Rates \subseteq Nat /\ NoRate \notin Nat
  /\ NoBS \notin BSs /\ NoRoute \notin BSs /\ NoRoute # NoBS
  /\ MaxSeq \in Nat /\ MaxTotal \in Nat
  /\ IndexMod \in Nat \ {0}

VARIABLES
  mode,        (* scheduling_mode_                                         *)
  currentSeq,  (* current_seq: number of the last report taken             *)
  table,       (* bs_stats_tbl_.stats_                                     *)
  stats,       (* routing_tbl_.stats_: the copy                            *)
  route,       (* routing_tbl_.route_                                      *)
  throughputs, (* of ComputeRoutes                                         *)
  pc,          (* where ComputeRoutes is                                   *)
  todo,        (* the contention domains of packet_scheduler_tbl_ to come  *)
  given,       (* the last argument of each domain's ComputeQuantum        *)
  bsIndex,     (* bs_index of UpdateRoutesRoundRobin                       *)
  used         (* history: the report of each link in the last copy, or 0  *)

updateVars == <<stats, route, throughputs, pc, todo, given, bsIndex, used>>
vars == <<mode, currentSeq, table, updateVars>>

NoStats == [c \in Clients |-> [b \in BSs |-> NoRate]]

-----------------------------------------------------------------------------
(* RecvFromBS, BS_STATS *)

(* Mutant: a report is taken again. *)
AnyReport(b, c, seq) == TRUE

IsNewer(b, c, seq) == currentSeq[b][c] < seq

(* The bound MaxTotal. *)
InBounds(seqs) ==
  SumFunction([b \in BSs |-> SumFunction(seqs[b])]) <= MaxTotal

(* Reports about other base stations or clients change nothing. *)
RecvStats(b, c, seq, rate) ==
  /\ IsNewer(b, c, seq)
  /\ currentSeq' = [currentSeq EXCEPT ![b][c] = seq]
  /\ InBounds(currentSeq')
  /\ table' = [table EXCEPT ![c][b] = rate]
  /\ UNCHANGED <<mode, updateVars>>

-----------------------------------------------------------------------------
(* ComputeRoutes *)

(* GetStats, with which every mode of UpdateRoutes begins. *)
GetStats ==
  /\ pc = "update"
  /\ stats' = table
  /\ used' = [b \in BSs |-> [c \in Clients |->
                IF table[c][b] # NoRate THEN currentSeq[b][c] ELSE used[b][c]]]
  /\ pc' = "route"
  /\ UNCHANGED <<mode, currentSeq, table, route, throughputs, todo, given, bsIndex>>

Known(c) == {b \in BSs : stats[c][b] # NoRate}

(* Mutant: FindMaxThroughputBS keeps the first entry it meets. *)
AnyKnown(c) == Known(c)

(* FindMaxThroughputBS: any of the best, in the order of an unordered_map. *)
BestBSs(c) == {b \in Known(c) : \A b2 \in Known(c) : stats[c][b2] <= stats[c][b]}

(* Mutant: a rate of 0 is a rate. *)
HasAnyRoute(c) == Known(c) # {}

HasRoute(c) == \E b \in Known(c) : stats[c][b] > 0

(* kDuplication sends over all of them and takes the same routes. *)
UpdateRoutesMaxThroughput ==
  /\ pc = "route"
  /\ mode \in {"MaxThroughput", "Duplication"}
  /\ \E r \in [Clients -> BSs] :
       /\ \A c \in Clients :
            r[c] \in IF HasRoute(c) THEN BestBSs(c) ELSE {DefaultBS}
       /\ route' = r
       /\ throughputs' = [c \in Clients |->
                            IF HasRoute(c) THEN stats[c][r[c]] ELSE MinThroughput]
  /\ pc' = "clear"
  /\ UNCHANGED <<mode, currentSeq, table, stats, todo, given, bsIndex, used>>

(* Mutant: bs_index stays. *)
SameIndex == bsIndex

NextIndex == (bsIndex + 1) % IndexMod

(* One base station for every client. *)
UpdateRoutesRoundRobin ==
  LET b == BSList[(bsIndex % Len(BSList)) + 1] IN
  /\ pc = "route"
  /\ mode = "RoundRobin"
  /\ bsIndex' = NextIndex
  /\ route' = [c \in Clients |-> b]
  /\ throughputs' = [c \in Clients |->
                       IF b \in Known(c) /\ stats[c][b] >= MinThroughput
                       THEN stats[c][b] ELSE MinThroughput]
  /\ pc' = "clear"
  /\ UNCHANGED <<mode, currentSeq, table, stats, todo, given, used>>

(* What the optimizer, an R script, may leave in the route file: a line,   *)
(* with a base station or -1, for each of the first clients.  A script     *)
(* that fails leaves an earlier file or none.                              *)
RouteFiles ==
  UNION {[1..n -> BSs \cup {NoBS}] : n \in 0..Len(ClientList)}

Assigned(file, c) ==
  IF \E i \in DOMAIN file : ClientList[i] = c
  THEN file[CHOOSE i \in DOMAIN file : ClientList[i] = c]
  ELSE NoRoute

(* "Fill invalid entries." *)
Filled == [c \in Clients |-> [b \in BSs |->
             IF b \in Known(c) THEN stats[c][b] ELSE MinThroughput]]

(* Mutant: a client without a base station keeps the -1. *)
KeptNoBS(b) == b

RouteFor(b) == IF b = NoBS THEN DefaultBS ELSE b

(* The copy is filled and written out, the script run, its file parsed. *)
UpdateRoutesOptimizer(file) ==
  /\ pc = "route"
  /\ mode = "Optimizer"
  /\ stats' = Filled
  /\ route' = [c \in Clients |-> RouteFor(Assigned(file, c))]
  /\ throughputs' = [c \in Clients |->
                       CASE Assigned(file, c) = NoRoute -> NoRate
                         [] Assigned(file, c) = NoBS -> MinThroughput
                         [] OTHER -> Filled[c][Assigned(file, c)]]
  /\ pc' = "clear"
  /\ UNCHANGED <<mode, currentSeq, table, todo, given, bsIndex, used>>

UpdateRoutes ==
  \/ UpdateRoutesMaxThroughput
  \/ UpdateRoutesRoundRobin
  \/ \E file \in RouteFiles : UpdateRoutesOptimizer(file)

(* Mutant: the table is not cleared. *)
KeptTable == table

ClearedTable == NoStats

ClearTable ==
  /\ pc = "clear"
  /\ table' = ClearedTable
  /\ todo' = Domains
  /\ pc' = "quantum"
  /\ UNCHANGED <<mode, currentSeq, stats, route, throughputs, given, bsIndex, used>>

(* Mutant: splited_throughputs has every client in every domain. *)
Everyone(d) == {c \in Clients : throughputs[c] # NoRate}

(* The clients of splited_throughputs[d]. *)
ClientsOf(d) ==
  {c \in Clients : throughputs[c] # NoRate /\ ConflictGraph[route[c]] = d}

(* The loop over packet_scheduler_tbl_; a domain without a client is not   *)
(* told.                                                                   *)
ComputeQuantum(d) ==
  /\ pc = "quantum"
  /\ d \in todo
  /\ given' = IF ClientsOf(d) = {} THEN given
              ELSE [given EXCEPT ![d] = [c \in ClientsOf(d) |-> throughputs[c]]]
  /\ todo' = todo \ {d}
  /\ pc' = IF todo = {d} THEN "sleep" ELSE "quantum"
  /\ UNCHANGED <<mode, currentSeq, table, stats, route, throughputs, bsIndex, used>>

(* usleep(update_route_interval_) *)
Sleep ==
  /\ pc = "sleep"
  /\ pc' = "update"
  /\ UNCHANGED <<mode, currentSeq, table, stats, route, throughputs, todo, given,
                 bsIndex, used>>

-----------------------------------------------------------------------------

Init ==
  /\ mode \in Modes
  /\ currentSeq = [b \in BSs |-> [c \in Clients |-> 0]]
  /\ table = NoStats
  /\ stats = NoStats
  /\ route = [c \in Clients |-> NoRoute]
  /\ throughputs = [c \in Clients |-> NoRate]
  /\ pc = "update"
  /\ todo = {}
  /\ given = [d \in Domains |-> [c \in Clients |-> MinThroughput]]
  /\ bsIndex = 0
  /\ used = [b \in BSs |-> [c \in Clients |-> 0]]

ComputeRoutesStep ==
  \/ GetStats
  \/ UpdateRoutes
  \/ ClearTable
  \/ \E d \in Domains : ComputeQuantum(d)
  \/ Sleep

RecvFromBSStep ==
  \E b \in BSs, c \in Clients, seq \in 1..MaxSeq, rate \in Rates :
    RecvStats(b, c, seq, rate)

Next == RecvFromBSStep \/ ComputeRoutesStep

Spec == Init /\ [][Next]_vars

(* ComputeRoutes is a loop that waits only for its own sleep. *)
FairSpec == Spec /\ WF_vars(ComputeRoutesStep)

-----------------------------------------------------------------------------
(* Properties *)

Entry == Rates \cup {MinThroughput, NoRate}

TypeOK ==
  /\ mode \in Modes
  /\ currentSeq \in [BSs -> [Clients -> 0..MaxSeq]]
  /\ table \in [Clients -> [BSs -> Rates \cup {NoRate}]]
  /\ stats \in [Clients -> [BSs -> Entry]]
  /\ route \in [Clients -> BSs \cup {NoRoute}]
  /\ throughputs \in [Clients -> Entry]
  /\ pc \in {"update", "route", "clear", "quantum", "sleep"}
  /\ todo \in SUBSET Domains
  /\ pc = "quantum" <=> todo # {}
  /\ DOMAIN given = Domains
  /\ \A d \in Domains : given[d] \in UNION {[S -> Entry] : S \in SUBSET Clients}
  /\ bsIndex \in 0..IndexMod - 1
  /\ used \in [BSs -> [Clients -> 0..MaxSeq]]

(* A report counts in at most one update, and in none after a newer report *)
(* of the same link has counted, however the datagrams are repeated or     *)
(* reordered around the copy and the clearing of the table.                *)
FreshReports ==
  [][pc = "update" /\ pc' = "route" =>
       \A b \in BSs, c \in Clients :
         stats'[c][b] # NoRate => used'[b][c] > used[b][c]]_vars

(* When an update is over, the domain of a client's base station gives the *)
(* client time for the rate the update chose the base station by, and no   *)
(* other domain that has clients does: its packets are charged once.       *)
ServedByItsDomain ==
  pc = "sleep" =>
    \A c \in Clients : throughputs[c] # NoRate =>
      LET d == ConflictGraph[route[c]] IN
      /\ c \in DOMAIN given[d] /\ given[d][c] = throughputs[c]
      /\ \A d2 \in Domains \ {d} :
           c \in DOMAIN given[d2] =>
             ~\E c2 \in Clients : throughputs[c2] # NoRate /\ ConflictGraph[route[c2]] = d2

(* By maximal throughput, the time a client gets is for a rate no base     *)
(* station bettered in the copy the update was made of.                    *)
BestRate ==
  pc = "sleep" /\ mode \in {"MaxThroughput", "Duplication"} =>
    \A c \in Clients, b \in BSs :
      stats[c][b] # NoRate /\ stats[c][b] > 0 =>
        given[ConflictGraph[route[c]]][c] >= stats[c][b]

(* Dequeue divides by the rates ComputeQuantum gets: none is 0.  (The      *)
(* optimizer may choose a base station that reports 0.)                    *)
RatesPositive ==
  mode # "Optimizer" =>
    \A d \in Domains : \A c \in DOMAIN given[d] : given[d][c] > 0

(* In round robin every base station is everybody's again and again, also  *)
(* when bs_index wraps.                                                    *)
EveryBSHasTurns ==
  mode = "RoundRobin" =>
    \A b \in BSs : []<>(\A c \in Clients : route[c] = b)

(* "Only update existing values in stats_.": what GetStats says of the     *)
(* entries of its argument.                                                *)
OnlyUpdatesExisting ==
  [][pc = "update" /\ pc' = "route" =>
       \A c \in Clients, b \in BSs : (stats'[c][b] = NoRate) = (stats[c][b] = NoRate)]_vars

=============================================================================
