---------------------------- MODULE RoutingProofs ----------------------------
(***************************************************************************)
(* Proofs about Routing, for any clients, base stations, domains, rates    *)
(* and numbers of reports.                                                 *)
(*                                                                         *)
(* The invariant follows an update: what was copied and its numbers        *)
(* (SeqsOK), what was made of the copy (Chosen, Routed) and what the       *)
(* domains that have been told were told (ToldOK).                         *)
(***************************************************************************)
EXTENDS Routing, SequenceTheorems, TLAPS

-----------------------------------------------------------------------------
(* The inductive invariant *)

(* A report in the table is newer than the one last copied, from the time  *)
(* the table is cleared until it is copied again.                          *)
SeqsOK ==
  \A b \in BSs, c \in Clients :
    /\ used[b][c] <= currentSeq[b][c]
    /\ table[c][b] # NoRate /\ pc \notin {"route", "clear"} =>
         currentSeq[b][c] > used[b][c]

(* A client that gets time has a base station, and time for a rate that    *)
(* is not 0.                                                               *)
Routed ==
  \A c \in Clients : throughputs[c] # NoRate =>
    route[c] \in BSs /\ (mode # "Optimizer" => throughputs[c] > 0)

(* Until the next copy, the rates are the best of the last. *)
Chosen ==
  pc \in {"clear", "quantum", "sleep"} /\ mode \in {"MaxThroughput", "Duplication"} =>
    \A c \in Clients :
      /\ throughputs[c] # NoRate
      /\ \A b \in Known(c) : stats[c][b] > 0 => throughputs[c] >= stats[c][b]

(* A domain that has been told has the rates of its clients. *)
ToldOK ==
  pc \in {"quantum", "sleep"} =>
    \A d \in Domains \ todo :
      ClientsOf(d) # {} => given[d] = [c \in ClientsOf(d) |-> throughputs[c]]

IInv == TypeOK /\ SeqsOK /\ Routed /\ Chosen /\ ToldOK /\ RatesPositive

-----------------------------------------------------------------------------
(* Constants and operators *)

LEMMA BSFacts ==
  /\ Len(BSList) \in Nat \ {0}
  /\ \A i \in 1..Len(BSList) : BSList[i] \in BSs
  /\ DefaultBS \in BSs
  /\ Domains # {}
<1>1. Len(BSList) \in Nat \ {0}
  BY RoutingAssumption, LenProperties, EmptySeq
<1>2. \A i \in 1..Len(BSList) : BSList[i] \in BSs
  BY DEF BSs
<1>3. DefaultBS \in BSs
  BY <1>1, <1>2 DEF DefaultBS
<1> QED BY <1>1, <1>2, <1>3, RoutingAssumption

LEMMA EntryFacts ==
  /\ \A e \in Entry : e # NoRate => e \in Nat
  /\ MinThroughput \in Entry /\ MinThroughput # NoRate /\ MinThroughput > 0
  /\ NoRate \in Entry /\ Rates \subseteq Entry
  BY RoutingAssumption DEF Entry

(* What FindMaxThroughputBS finds. *)
LEMMA BestFacts ==
  ASSUME TypeOK, NEW c \in Clients, HasRoute(c), NEW b \in BestBSs(c)
  PROVE  /\ b \in BSs /\ stats[c][b] \in Entry /\ stats[c][b] # NoRate
         /\ stats[c][b] \in Nat /\ stats[c][b] > 0
         /\ \A b2 \in Known(c) : stats[c][b] >= stats[c][b2]
<1>1. \A x \in Known(c) : x \in BSs /\ stats[c][x] \in Entry /\ stats[c][x] # NoRate
                          /\ stats[c][x] \in Nat
  BY EntryFacts DEF TypeOK, Known
<1>2. PICK x \in Known(c) : stats[c][x] > 0
  BY DEF HasRoute
<1>3. b \in Known(c) /\ \A b2 \in Known(c) : stats[c][b2] <= stats[c][b]
  BY DEF BestBSs
<1>4. \A b2 \in Known(c) : stats[c][b] >= stats[c][b2]
  BY <1>1, <1>3
<1>5. stats[c][b] > 0
  <2>1. stats[c][x] \in Nat /\ stats[c][b] \in Nat /\ stats[c][x] <= stats[c][b]
    BY <1>1, <1>2, <1>3
  <2> QED BY <1>2, <2>1
<1> QED BY <1>1, <1>3, <1>4, <1>5

(* What the route file says of a client. *)
LEMMA AssignedFacts ==
  ASSUME TypeOK, NEW file \in RouteFiles, NEW c \in Clients
  PROVE  /\ Assigned(file, c) \in BSs \cup {NoBS, NoRoute}
         /\ RouteFor(Assigned(file, c)) \in BSs \cup {NoRoute}
         /\ Assigned(file, c) # NoRoute => RouteFor(Assigned(file, c)) \in BSs
<1>1. PICK n \in 0..Len(ClientList) : file \in [1..n -> BSs \cup {NoBS}]
  BY DEF RouteFiles
<1>2. \A i \in DOMAIN file : file[i] \in BSs \cup {NoBS}
  BY <1>1
<1>3. Assigned(file, c) \in BSs \cup {NoBS, NoRoute}
  BY <1>2, Zenon DEF Assigned
<1>4. NoBS # NoRoute /\ DefaultBS \in BSs
  BY RoutingAssumption, BSFacts
<1> QED BY <1>3, <1>4 DEF RouteFor

LEMMA FilledType ==
  ASSUME TypeOK
  PROVE  Filled \in [Clients -> [BSs -> Entry]]
         /\ \A c \in Clients, b \in BSs : Filled[c][b] # NoRate
  BY EntryFacts DEF Filled, Known, TypeOK

(* The rates of an update. *)
LEMMA MaxThroughputFacts ==
  ASSUME TypeOK, UpdateRoutesMaxThroughput, NEW c \in Clients
  PROVE  /\ route' \in [Clients -> BSs] /\ route'[c] \in BSs
         /\ DOMAIN throughputs' = Clients
         /\ throughputs'[c] \in Entry \ {NoRate} /\ throughputs'[c] > 0
         /\ \A b \in Known(c) : stats[c][b] > 0 => throughputs'[c] >= stats[c][b]
<1>1. PICK r \in [Clients -> BSs] :
        /\ \A e \in Clients : r[e] \in IF HasRoute(e) THEN BestBSs(e) ELSE {DefaultBS}
        /\ route' = r
        /\ throughputs' = [e \in Clients |->
                             IF HasRoute(e) THEN stats[e][r[e]] ELSE MinThroughput]
  BY DEF UpdateRoutesMaxThroughput
<1>2. CASE HasRoute(c)
  <2>1. r[c] \in BestBSs(c) /\ throughputs'[c] = stats[c][r[c]]
    BY <1>1, <1>2
  <2> QED BY <1>1, <1>2, <2>1, BestFacts
<1>3. CASE ~HasRoute(c)
  <2>1. throughputs'[c] = MinThroughput
    BY <1>1, <1>3
  <2>2. \A b \in Known(c) : ~(stats[c][b] > 0)
    BY <1>3 DEF HasRoute
  <2> QED BY <1>1, <2>1, <2>2, EntryFacts
<1> QED BY <1>2, <1>3

LEMMA RoundRobinFacts ==
  ASSUME TypeOK, UpdateRoutesRoundRobin, NEW c \in Clients
  PROVE  /\ route' \in [Clients -> BSs] /\ route'[c] \in BSs
         /\ DOMAIN throughputs' = Clients
         /\ throughputs'[c] \in Entry \ {NoRate} /\ throughputs'[c] > 0
<1> DEFINE b == BSList[(bsIndex % Len(BSList)) + 1]
<1>1. /\ route' = [e \in Clients |-> b]
      /\ throughputs' = [e \in Clients |->
                           IF b \in Known(e) /\ stats[e][b] >= MinThroughput
                           THEN stats[e][b] ELSE MinThroughput]
  BY DEF UpdateRoutesRoundRobin
<1>2. b \in BSs
  <2>1. bsIndex \in Nat /\ Len(BSList) \in Nat \ {0}
    BY BSFacts, RoutingAssumption DEF TypeOK
  <2>2. (bsIndex % Len(BSList)) + 1 \in 1..Len(BSList)
    BY <2>1
  <2> QED BY <2>2, BSFacts
<1> HIDE DEF b
<1>3. CASE b \in Known(c) /\ stats[c][b] >= MinThroughput
  <2>1. throughputs'[c] = stats[c][b]
    BY <1>1, <1>3
  <2>2. stats[c][b] \in Entry /\ stats[c][b] # NoRate
    BY <1>3 DEF Known, TypeOK
  <2>3. stats[c][b] > 0
    <3>1. stats[c][b] \in Nat /\ MinThroughput \in Nat \ {0}
      BY <2>2, EntryFacts, RoutingAssumption
    <3> QED BY <1>3, <3>1
  <2> QED BY <1>1, <1>2, <2>1, <2>2, <2>3
<1>4. CASE ~(b \in Known(c) /\ stats[c][b] >= MinThroughput)
  <2>1. throughputs'[c] = MinThroughput
    BY <1>1, <1>4
  <2> QED BY <1>1, <1>2, <2>1, EntryFacts
<1> QED BY <1>3, <1>4

LEMMA OptimizerFacts ==
  ASSUME TypeOK, NEW file \in RouteFiles, UpdateRoutesOptimizer(file), NEW c \in Clients
  PROVE  /\ route'[c] \in BSs \cup {NoRoute} /\ throughputs'[c] \in Entry
         /\ throughputs'[c] # NoRate => route'[c] \in BSs
<1> DEFINE b == Assigned(file, c)
<1>1. /\ route'[c] = RouteFor(b)
      /\ throughputs'[c] = CASE b = NoRoute -> NoRate
                             [] b = NoBS -> MinThroughput
                             [] OTHER -> Filled[c][b]
  BY DEF UpdateRoutesOptimizer
<1>2. /\ b \in BSs \cup {NoBS, NoRoute} /\ RouteFor(b) \in BSs \cup {NoRoute}
      /\ b # NoRoute => RouteFor(b) \in BSs
      /\ NoBS # NoRoute
  BY AssignedFacts, RoutingAssumption
<1> HIDE DEF b
<1>3. CASE b = NoRoute
  <2>1. throughputs'[c] = NoRate
    BY <1>1, <1>2, <1>3
  <2> QED BY <1>1, <1>2, <2>1, EntryFacts
<1>4. CASE b = NoBS
  <2>1. throughputs'[c] = MinThroughput
    BY <1>1, <1>2, <1>4
  <2> QED BY <1>1, <1>2, <1>4, <2>1, EntryFacts
<1>5. CASE b \in BSs /\ b # NoRoute /\ b # NoBS
  <2>1. throughputs'[c] = Filled[c][b]
    BY <1>1, <1>5
  <2> QED BY <1>1, <1>2, <1>5, <2>1, FilledType
<1> QED BY <1>2, <1>3, <1>4, <1>5


-----------------------------------------------------------------------------
(* The parts of the invariant after each step *)

LEMMA InvInit == Init => IInv
<1> SUFFICES ASSUME Init PROVE IInv
  OBVIOUS
<1>1. NoStats \in [Clients -> [BSs -> Rates \cup {NoRate}]]
      /\ NoStats \in [Clients -> [BSs -> Entry]]
  BY DEF NoStats, Entry
<1>2. given \in [Domains -> [Clients -> Entry]]
      /\ \A d \in Domains : \A c \in DOMAIN given[d] : given[d][c] > 0
  BY EntryFacts DEF Init
<1>3. 0 \in 0..IndexMod - 1 /\ 0 \in 0..MaxSeq
  BY RoutingAssumption
<1>4. TypeOK
  <2>1. DOMAIN given = Domains
        /\ \A d \in Domains : given[d] \in UNION {[S -> Entry] : S \in SUBSET Clients}
    BY <1>2
  <2> QED BY <1>1, <1>3, <2>1, EntryFacts DEF Init, TypeOK
<1>5. SeqsOK /\ Routed /\ Chosen /\ ToldOK
  <2>1. \A c \in Clients, b \in BSs : table[c][b] = NoRate /\ used[b][c] = 0 /\ currentSeq[b][c] = 0
    BY DEF Init, NoStats
  <2>2. \A c \in Clients : throughputs[c] = NoRate
    BY DEF Init
  <2> QED BY <2>1, <2>2 DEF Init, SeqsOK, Routed, Chosen, ToldOK
<1> QED BY <1>2, <1>4, <1>5 DEF IInv, RatesPositive

LEMMA TypeStep == TypeOK /\ Routed /\ [Next]_vars => TypeOK'
<1> SUFFICES ASSUME TypeOK, Routed, [Next]_vars PROVE TypeOK'
  OBVIOUS
<1>1. ASSUME NEW b \in BSs, NEW c \in Clients, NEW seq \in 1..MaxSeq, NEW rate \in Rates,
             RecvStats(b, c, seq, rate)
      PROVE  TypeOK'
  <2>1. seq \in 0..MaxSeq
    BY RoutingAssumption
  <2>2. currentSeq' \in [BSs -> [Clients -> 0..MaxSeq]]
    BY <1>1, <2>1 DEF RecvStats, TypeOK
  <2>3. table' \in [Clients -> [BSs -> Rates \cup {NoRate}]]
    BY <1>1 DEF RecvStats, TypeOK
  <2> QED BY <1>1, <2>2, <2>3 DEF RecvStats, TypeOK, updateVars
<1>2. ASSUME GetStats PROVE TypeOK'
  <2>1. table \in [Clients -> [BSs -> Entry]]
    BY DEF TypeOK, Entry
  <2>2. used' \in [BSs -> [Clients -> 0..MaxSeq]]
    <3>1. \A b \in BSs, c \in Clients : currentSeq[b][c] \in 0..MaxSeq /\ used[b][c] \in 0..MaxSeq
      BY DEF TypeOK
    <3> QED BY <1>2, <3>1, Zenon DEF GetStats
  <2> QED BY <1>2, <2>1, <2>2 DEF GetStats, TypeOK
<1>3. ASSUME UpdateRoutesMaxThroughput PROVE TypeOK'
  <2>1. \A c \in Clients : route'[c] \in BSs /\ throughputs'[c] \in Entry
    BY <1>3, MaxThroughputFacts
  <2>2. route' \in [Clients -> BSs \cup {NoRoute}] /\ throughputs' \in [Clients -> Entry]
    BY <1>3, <2>1 DEF UpdateRoutesMaxThroughput
  <2> QED BY <1>3, <2>2 DEF UpdateRoutesMaxThroughput, TypeOK
<1>4. ASSUME UpdateRoutesRoundRobin PROVE TypeOK'
  <2>1. \A c \in Clients : route'[c] \in BSs /\ throughputs'[c] \in Entry
    BY <1>4, RoundRobinFacts
  <2>2. route' \in [Clients -> BSs \cup {NoRoute}] /\ throughputs' \in [Clients -> Entry]
    BY <1>4, <2>1 DEF UpdateRoutesRoundRobin
  <2>3. bsIndex' \in 0..IndexMod - 1
    <3>1. bsIndex \in Nat /\ IndexMod \in Nat \ {0}
      BY RoutingAssumption DEF TypeOK
    <3> QED BY <1>4, <3>1 DEF UpdateRoutesRoundRobin, NextIndex
  <2> QED BY <1>4, <2>2, <2>3 DEF UpdateRoutesRoundRobin, TypeOK
<1>5. ASSUME NEW file \in RouteFiles, UpdateRoutesOptimizer(file) PROVE TypeOK'
  <2>1. \A c \in Clients : route'[c] \in BSs \cup {NoRoute} /\ throughputs'[c] \in Entry
    BY <1>5, OptimizerFacts
  <2>2. route' \in [Clients -> BSs \cup {NoRoute}] /\ throughputs' \in [Clients -> Entry]
    BY <1>5, <2>1 DEF UpdateRoutesOptimizer
  <2>3. stats' \in [Clients -> [BSs -> Entry]]
    BY <1>5, FilledType DEF UpdateRoutesOptimizer
  <2> QED BY <1>5, <2>2, <2>3 DEF UpdateRoutesOptimizer, TypeOK
<1>6. ASSUME ClearTable PROVE TypeOK'
  <2>1. table' \in [Clients -> [BSs -> Rates \cup {NoRate}]]
    BY <1>6 DEF ClearTable, ClearedTable, NoStats
  <2> QED BY <1>6, <2>1, BSFacts DEF ClearTable, TypeOK
<1>7. ASSUME NEW d \in Domains, ComputeQuantum(d) PROVE TypeOK'
  <2>1. [c \in ClientsOf(d) |-> throughputs[c]]
          \in UNION {[S -> Entry] : S \in SUBSET Clients}
    <3>1. ClientsOf(d) \in SUBSET Clients
      BY DEF ClientsOf
    <3>2. [c \in ClientsOf(d) |-> throughputs[c]] \in [ClientsOf(d) -> Entry]
      BY <3>1 DEF TypeOK
    <3> QED BY <3>1, <3>2
  <2>2. DOMAIN given' = Domains
        /\ \A x \in Domains : given'[x] \in UNION {[S -> Entry] : S \in SUBSET Clients}
    BY <1>7, <2>1 DEF ComputeQuantum, TypeOK
  <2>3. pc' = "quantum" <=> todo' # {}
    BY <1>7 DEF ComputeQuantum
  <2>4. pc' \in {"sleep", "quantum"} /\ todo' \subseteq Domains
    BY <1>7 DEF ComputeQuantum, TypeOK
  <2> QED BY <1>7, <2>2, <2>3, <2>4 DEF ComputeQuantum, TypeOK
<1>8. ASSUME Sleep PROVE TypeOK'
  BY <1>8 DEF Sleep, TypeOK
<1>9. CASE UNCHANGED vars
  BY <1>9 DEF vars, updateVars, TypeOK
<1> QED BY <1>1, <1>2, <1>3, <1>4, <1>5, <1>6, <1>7, <1>8, <1>9
  DEF Next, RecvFromBSStep, ComputeRoutesStep, UpdateRoutes

LEMMA SeqsStep == TypeOK /\ SeqsOK /\ [Next]_vars => SeqsOK'
<1> SUFFICES ASSUME TypeOK, SeqsOK, [Next]_vars PROVE SeqsOK'
  OBVIOUS
<1>0. \A b \in BSs, c \in Clients : currentSeq[b][c] \in Nat /\ used[b][c] \in Nat
  <2>1. \A x \in 0..MaxSeq : x \in Nat
    BY RoutingAssumption
  <2> QED BY <2>1 DEF TypeOK
<1>1. ASSUME NEW b \in BSs, NEW c \in Clients, NEW seq \in 1..MaxSeq, NEW rate \in Rates,
             RecvStats(b, c, seq, rate)
      PROVE  SeqsOK'
  <2>1. used' = used /\ pc' = pc
        /\ currentSeq' = [currentSeq EXCEPT ![b][c] = seq] /\ currentSeq[b][c] < seq
        /\ table' = [table EXCEPT ![c][b] = rate]
    BY <1>1 DEF RecvStats, IsNewer, updateVars
  <2> SUFFICES ASSUME NEW b2 \in BSs, NEW c2 \in Clients
               PROVE  /\ used[b2][c2] <= currentSeq'[b2][c2]
                      /\ table'[c2][b2] # NoRate /\ pc \notin {"route", "clear"} =>
                           currentSeq'[b2][c2] > used[b2][c2]
    BY <2>1 DEF SeqsOK
  <2>2. CASE b2 = b /\ c2 = c
    <3>1. currentSeq'[b2][c2] = seq
      BY <2>1, <2>2 DEF TypeOK
    <3>2. used[b2][c2] <= currentSeq[b2][c2] /\ currentSeq[b2][c2] < seq
      BY <2>1, <2>2 DEF SeqsOK
    <3>3. used[b2][c2] \in Nat /\ currentSeq[b2][c2] \in Nat /\ seq \in Nat
      BY <1>0
    <3> QED BY <3>1, <3>2, <3>3
  <2>3. CASE ~(b2 = b /\ c2 = c)
    <3>1. currentSeq'[b2][c2] = currentSeq[b2][c2] /\ table'[c2][b2] = table[c2][b2]
      BY <2>1, <2>3 DEF TypeOK
    <3> QED BY <3>1 DEF SeqsOK
  <2> QED BY <2>2, <2>3
<1>2. ASSUME GetStats PROVE SeqsOK'
  <2>1. \A b \in BSs, c \in Clients : used'[b][c] = currentSeq[b][c] \/ used'[b][c] = used[b][c]
    BY <1>2 DEF GetStats
  <2>2. currentSeq' = currentSeq /\ pc' = "route"
    BY <1>2 DEF GetStats
  <2>3. \A b \in BSs, c \in Clients : used'[b][c] <= currentSeq'[b][c]
    BY <1>0, <2>1, <2>2 DEF SeqsOK
  <2> QED BY <2>2, <2>3 DEF SeqsOK
<1>3. ASSUME pc' = "clear", used' = used, currentSeq' = currentSeq PROVE SeqsOK'
  BY <1>3 DEF SeqsOK
<1>4. ASSUME ClearTable PROVE SeqsOK'
  <2>1. \A b \in BSs, c \in Clients : table'[c][b] = NoRate
    BY <1>4 DEF ClearTable, ClearedTable, NoStats
  <2> QED BY <1>4, <2>1 DEF SeqsOK, ClearTable
<1>5. ASSUME pc \notin {"route", "clear"}, table' = table, used' = used, currentSeq' = currentSeq
      PROVE  SeqsOK'
  BY <1>5 DEF SeqsOK
<1>6. CASE UNCHANGED vars
  BY <1>6 DEF vars, updateVars, SeqsOK
<1> QED BY <1>1, <1>2, <1>3, <1>4, <1>5, <1>6
  DEF Next, RecvFromBSStep, ComputeRoutesStep, UpdateRoutes, UpdateRoutesMaxThroughput,
      UpdateRoutesRoundRobin, UpdateRoutesOptimizer, ComputeQuantum, Sleep

LEMMA RoutedStep == TypeOK /\ Routed /\ [Next]_vars => Routed'
<1> SUFFICES ASSUME TypeOK, Routed, [Next]_vars PROVE Routed'
  OBVIOUS
<1>1. ASSUME UpdateRoutesMaxThroughput PROVE Routed'
  BY <1>1, MaxThroughputFacts DEF Routed
<1>2. ASSUME UpdateRoutesRoundRobin PROVE Routed'
  BY <1>2, RoundRobinFacts DEF Routed
<1>3. ASSUME NEW file \in RouteFiles, UpdateRoutesOptimizer(file) PROVE Routed'
  <2>1. mode' = "Optimizer"
    BY <1>3 DEF UpdateRoutesOptimizer
  <2> QED BY <1>3, <2>1, OptimizerFacts DEF Routed
<1>4. ASSUME mode' = mode, route' = route, throughputs' = throughputs PROVE Routed'
  BY <1>4 DEF Routed
<1> QED BY <1>1, <1>2, <1>3, <1>4
  DEF Next, RecvFromBSStep, RecvStats, ComputeRoutesStep, UpdateRoutes, GetStats, ClearTable,
      ComputeQuantum, Sleep, vars, updateVars

LEMMA ChosenStep == TypeOK /\ Chosen /\ [Next]_vars => Chosen'
<1> SUFFICES ASSUME TypeOK, Chosen, [Next]_vars PROVE Chosen'
  OBVIOUS
<1>1. ASSUME UpdateRoutesMaxThroughput PROVE Chosen'
  <2>1. stats' = stats
    BY <1>1 DEF UpdateRoutesMaxThroughput
  <2>2. \A c \in Clients : Known(c)' = Known(c)
    BY <2>1 DEF Known
  <2> QED BY <1>1, <2>1, <2>2, MaxThroughputFacts DEF Chosen
<1>2. ASSUME mode' \notin {"MaxThroughput", "Duplication"} PROVE Chosen'
  BY <1>2 DEF Chosen
<1>3. ASSUME pc' \in {"update", "route"} PROVE Chosen'
  BY <1>3 DEF Chosen
<1>4. ASSUME mode' = mode, stats' = stats, throughputs' = throughputs,
             pc' \in {"clear", "quantum", "sleep"} => pc \in {"clear", "quantum", "sleep"}
      PROVE  Chosen'
  <2>1. \A c \in Clients : Known(c)' = Known(c)
    BY <1>4 DEF Known
  <2> QED BY <1>4, <2>1 DEF Chosen
<1> QED BY <1>1, <1>2, <1>3, <1>4
  DEF Next, RecvFromBSStep, RecvStats, ComputeRoutesStep, UpdateRoutes, GetStats, ClearTable,
      UpdateRoutesRoundRobin, UpdateRoutesOptimizer, ComputeQuantum, Sleep, vars, updateVars

LEMMA ToldStep == TypeOK /\ ToldOK /\ [Next]_vars => ToldOK'
<1> SUFFICES ASSUME TypeOK, ToldOK, [Next]_vars PROVE ToldOK'
  OBVIOUS
<1>1. ASSUME pc' \notin {"quantum", "sleep"} PROVE ToldOK'
  BY <1>1 DEF ToldOK
<1>2. ASSUME throughputs' = throughputs, route' = route
      PROVE  \A d : ClientsOf(d)' = ClientsOf(d)
  BY <1>2 DEF ClientsOf
<1>3. ASSUME ClearTable PROVE ToldOK'
  BY <1>3 DEF ClearTable, ToldOK
<1>4. ASSUME NEW d \in Domains, ComputeQuantum(d) PROVE ToldOK'
  <2>1. /\ pc = "quantum" /\ todo' = todo \ {d} /\ throughputs' = throughputs /\ route' = route
        /\ given' = IF ClientsOf(d) = {} THEN given
                    ELSE [given EXCEPT ![d] = [c \in ClientsOf(d) |-> throughputs[c]]]
    BY <1>4 DEF ComputeQuantum
  <2> SUFFICES ASSUME NEW x \in Domains \ todo', ClientsOf(x) # {}
               PROVE  given'[x] = [c \in ClientsOf(x) |-> throughputs[c]]
    BY <1>2, <2>1 DEF ToldOK
  <2>2. CASE x = d
    BY <2>1, <2>2 DEF TypeOK
  <2>3. CASE x # d
    <3>1. given'[x] = given[x] /\ x \in Domains \ todo
      BY <2>1, <2>3 DEF TypeOK
    <3> QED BY <2>1, <3>1 DEF ToldOK
  <2> QED BY <2>2, <2>3
<1>5. ASSUME pc' = pc, todo' = todo, throughputs' = throughputs, route' = route, given' = given
      PROVE  ToldOK'
  BY <1>2, <1>5 DEF ToldOK
<1> QED BY <1>1, <1>3, <1>4, <1>5
  DEF Next, RecvFromBSStep, RecvStats, ComputeRoutesStep, UpdateRoutes, UpdateRoutesMaxThroughput,
      UpdateRoutesRoundRobin, UpdateRoutesOptimizer, GetStats, Sleep, vars, updateVars

LEMMA RatesStep == TypeOK /\ Routed /\ RatesPositive /\ [Next]_vars => RatesPositive'
<1> SUFFICES ASSUME TypeOK, Routed, RatesPositive, [Next]_vars PROVE RatesPositive'
  OBVIOUS
<1>1. ASSUME NEW d \in Domains, ComputeQuantum(d) PROVE RatesPositive'
  <2>1. /\ mode' = mode
        /\ given' = IF ClientsOf(d) = {} THEN given
                    ELSE [given EXCEPT ![d] = [c \in ClientsOf(d) |-> throughputs[c]]]
    BY <1>1 DEF ComputeQuantum
  <2>2. \A x \in Domains : given'[x] = given[x]
                           \/ given'[x] = [c \in ClientsOf(d) |-> throughputs[c]]
    BY <2>1 DEF TypeOK
  <2>3. \A c \in ClientsOf(d) : mode # "Optimizer" => throughputs[c] > 0
    BY DEF ClientsOf, Routed
  <2> SUFFICES ASSUME mode # "Optimizer", NEW x \in Domains, NEW c \in DOMAIN given'[x]
               PROVE  given'[x][c] > 0
    BY <2>1 DEF RatesPositive
  <2>4. CASE given'[x] = given[x]
    BY <2>4 DEF RatesPositive
  <2>5. CASE given'[x] = [e \in ClientsOf(d) |-> throughputs[e]]
    BY <2>3, <2>5
  <2> QED BY <2>2, <2>4, <2>5
<1>2. ASSUME mode' = mode, given' = given PROVE RatesPositive'
  BY <1>2 DEF RatesPositive
<1> QED BY <1>1, <1>2
  DEF Next, RecvFromBSStep, RecvStats, ComputeRoutesStep, UpdateRoutes, UpdateRoutesMaxThroughput,
      UpdateRoutesRoundRobin, UpdateRoutesOptimizer, GetStats, ClearTable, Sleep, vars, updateVars

-----------------------------------------------------------------------------
(* Theorems *)

(* The parts hold together, whatever reports come between the steps of     *)
(* ComputeRoutes.                                                          *)
THEOREM Invariance == Spec => []IInv
<1>1. IInv /\ [Next]_vars => IInv'
  BY TypeStep, SeqsStep, RoutedStep, ChosenStep, ToldStep, RatesStep DEF IInv
<1> QED BY <1>1, InvInit, PTL DEF Spec

(* The types: every update leaves a rate and a base station, or neither,   *)
(* for each client, and pc and todo agree on when the domains are told.    *)
THEOREM TypeCorrect == Spec => []TypeOK
<1>1. IInv => TypeOK
  BY DEF IInv
<1> QED BY <1>1, Invariance, PTL

(* When ComputeRoutes sleeps, the domain of a client's base station, and   *)
(* no other that has clients, gives the client time for the rate chosen.   *)
THEOREM ServedByItsDomainHolds == Spec => []ServedByItsDomain
<1>1. IInv => ServedByItsDomain
  <2> SUFFICES ASSUME IInv, pc = "sleep", NEW c \in Clients, throughputs[c] # NoRate
               PROVE  LET d == ConflictGraph[route[c]] IN
                      /\ c \in DOMAIN given[d] /\ given[d][c] = throughputs[c]
                      /\ \A d2 \in Domains \ {d} :
                           c \in DOMAIN given[d2] =>
                             ~\E c2 \in Clients : throughputs[c2] # NoRate
                                                  /\ ConflictGraph[route[c2]] = d2
    BY DEF ServedByItsDomain
  <2> DEFINE d == ConflictGraph[route[c]]
  <2>1. \A x \in Domains : ClientsOf(x) # {} => given[x] = [e \in ClientsOf(x) |-> throughputs[e]]
    BY DEF IInv, ToldOK, TypeOK
  <2>2. d \in Domains /\ c \in ClientsOf(d)
    BY RoutingAssumption DEF IInv, Routed, ClientsOf
  <2>3. c \in DOMAIN given[d] /\ given[d][c] = throughputs[c]
    BY <2>1, <2>2
  <2>4. ASSUME NEW d2 \in Domains \ {d}, c \in DOMAIN given[d2],
               NEW c2 \in Clients, throughputs[c2] # NoRate, ConflictGraph[route[c2]] = d2
        PROVE  FALSE
    <3>1. c2 \in ClientsOf(d2)
      BY <2>4 DEF ClientsOf
    <3>2. c \in ClientsOf(d2)
      BY <2>1, <2>4, <3>1
    <3> QED BY <2>4, <3>2 DEF ClientsOf
  <2> QED BY <2>3, <2>4
<1> QED BY <1>1, Invariance, PTL

(* By maximal throughput, a client gets time for the best rate in the copy *)
(* its update was made of.                                                 *)
THEOREM BestRateHolds == Spec => []BestRate
<1>1. IInv => BestRate
  <2> SUFFICES ASSUME IInv, pc = "sleep", mode \in {"MaxThroughput", "Duplication"},
                      NEW c \in Clients, NEW b \in BSs, stats[c][b] # NoRate, stats[c][b] > 0
               PROVE  given[ConflictGraph[route[c]]][c] >= stats[c][b]
    BY DEF BestRate
  <2> DEFINE d == ConflictGraph[route[c]]
  <2>1. throughputs[c] # NoRate /\ throughputs[c] >= stats[c][b]
    BY DEF IInv, Chosen, Known
  <2>2. d \in Domains /\ c \in ClientsOf(d) /\ todo = {}
    BY <2>1, RoutingAssumption DEF IInv, Routed, ClientsOf, TypeOK
  <2>3. given[d] = [e \in ClientsOf(d) |-> throughputs[e]]
    BY <2>2 DEF IInv, ToldOK
  <2>4. given[d][c] = throughputs[c]
    BY <2>2, <2>3
  <2> QED BY <2>1, <2>4
<1> QED BY <1>1, Invariance, PTL

(* Except with the optimizer, ComputeQuantum is never given a rate of 0,   *)
(* which Dequeue would divide by.                                          *)
THEOREM RatesPositiveHolds == Spec => []RatesPositive
<1>1. IInv => RatesPositive
  BY DEF IInv
<1> QED BY <1>1, Invariance, PTL

(* Every report that is copied is newer than the one copied before it of   *)
(* the same link, however reports were lost, repeated and reordered.       *)
THEOREM FreshReportsHolds == Spec => FreshReports
<1>1. IInv /\ [Next]_vars =>
        [pc = "update" /\ pc' = "route" =>
           \A b \in BSs, c \in Clients :
             stats'[c][b] # NoRate => used'[b][c] > used[b][c]]_vars
  <2> SUFFICES ASSUME IInv, Next, pc = "update", pc' = "route",
                      NEW b \in BSs, NEW c \in Clients, stats'[c][b] # NoRate
               PROVE  used'[b][c] > used[b][c]
    OBVIOUS
  <2>1. GetStats
    BY DEF Next, RecvFromBSStep, RecvStats, ComputeRoutesStep, UpdateRoutes,
      UpdateRoutesMaxThroughput, UpdateRoutesRoundRobin, UpdateRoutesOptimizer, ClearTable,
      ComputeQuantum, Sleep, updateVars
  <2>2. table[c][b] # NoRate /\ used'[b][c] = currentSeq[b][c]
    BY <2>1 DEF GetStats
  <2> QED BY <2>2 DEF IInv, SeqsOK
<1> QED BY <1>1, Invariance, PTL DEF Spec, FreshReports

=============================================================================
