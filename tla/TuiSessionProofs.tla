---------------------------- MODULE TuiSessionProofs ----------------------------
(***************************************************************************)
(* Proofs about TuiSession, for every set of callers, sessions and scan    *)
(* results and any number of keys: the runs press one key, a user many.    *)
(***************************************************************************)
EXTENDS TuiSession, ReaderTransportProofs, WellFoundedInduction, SequenceTheorems

\* The next endpoint of a plan is inside it.
Inside(model) ==
    model.connectQueue # <<>> => model.connectAttempt < Len(model.connectQueue)

PlanInside == Inside(m)

TuiInv ==
    /\ TransportInv /\ TuiTypeOK
    /\ ScanIsRunning /\ ReadingTicks /\ PlanInside /\ ConnectingRuns

Reconnects(jobs) == \E c \in Callers : jobs[c] \in {"reconnect", "reconnecting"}

\* What a handler may return.
Result == [m : Model, cmds : SUBSET (Channels \cup Kinds \cup Sends),
           job : {"free", "reconnect", "disconnect"}]

\* A result after which the invariant holds, where so many scans and ticks go on,
\* and a reconnect runs or not.
Kept(r, scans, ticks, runs) ==
    /\ r \in Result /\ Inside(r.m)
    /\ scans + Count("scan" \in r.cmds) = Count(r.m.scanning)
    /\ r.m.pendingConnect => r.m.scanning
    /\ r.m.inventoryRunning => ticks > 0 \/ "tick" \in r.cmds
    /\ r.m.connecting => r.job = "reconnect" \/ runs

\* What plans and retries leave alone.
Untouched(next, model) ==
    /\ next.scanning = model.scanning /\ next.pendingConnect = model.pendingConnect
    /\ next.inventoryRunning = model.inventoryRunning

Spawned(r, model) ==
    /\ r \in Result /\ Inside(r.m) /\ Untouched(r.m, model)
    /\ r.job = "reconnect" /\ r.cmds = {}

-----------------------------------------------------------------------------
LEMMA TuiStart == TuiInit => TuiInv
<1> SUFFICES ASSUME TuiInit PROVE TuiInv
  OBVIOUS
<1>1. TransportInv /\ TypeOK
  BY TransportInit DEF TuiInit, TransportInv
<1>2. m \in Model
  BY ScanAssumption DEF TuiInit, NewModel, Model, Start
<1>3. TuiTypeOK
  <2>1. keys \in 0..MaxKeys
    BY KeysAssumption DEF TuiInit
  <2>2. QED
    BY <1>1, <1>2, <2>1 DEF TuiInit, TuiTypeOK, Kinds, Channels, Jobs
<1>4. ScanIsRunning /\ ReadingTicks /\ PlanInside /\ ConnectingRuns
  BY DEF TuiInit, NewModel, ScanIsRunning, ReadingTicks, PlanInside, Inside, ConnectingRuns,
         Count, Kinds
<1>5. QED
  BY <1>1, <1>3, <1>4 DEF TuiInv

-----------------------------------------------------------------------------
(***************************************************************************)
(* The connection plan, for every list of candidates: what holds of a list *)
(* that AppendNew grows, then of one that grows by candidates.             *)
(***************************************************************************)
NewFold == INSTANCE Folding WITH Op <- AppendNew
PlanFold == INSTANCE Folding WITH Op <- AppendEndpoints

LEMMA NewFolds == \A b, s : FoldLeft(AppendNew, b, s) = NewFold!Fold(b, s)
  BY Zenon DEF FoldLeft, MapThenFoldSet, Max, NewFold!Fold, NewFold!FoldLeft,
               NewFold!MapThenFoldSet, NewFold!Max

LEMMA PlanFolds == \A b, s : FoldLeft(AppendEndpoints, b, s) = PlanFold!Fold(b, s)
  BY Zenon DEF FoldLeft, MapThenFoldSet, Max, PlanFold!Fold, PlanFold!FoldLeft,
               PlanFold!MapThenFoldSet, PlanFold!Max

LEMMA LongerConcat ==
    ASSUME NEW S, NEW a \in Seq(S), NEW b \in Seq(S), a # <<>>
    PROVE  a \o b \in Seq(S) /\ a \o b # <<>>
<1> DEFINE c == a \o b
<1>1. Len(a) \in Nat /\ Len(a) # 0 /\ Len(b) \in Nat
  OBVIOUS
<1>2. c \in Seq(S) /\ Len(c) = Len(a) + Len(b)
  OBVIOUS
<1> HIDE DEF c
<1>3. c # <<>>
  BY <1>1, <1>2
<1>4. QED
  BY <1>2, <1>3 DEF c

\* Lists without repetition, and those that are not empty.
Lists(S) == {s \in Seq(S) : IsInjective(s)}
SomeLists(S) == Lists(S) \ {<<>>}

LEMMA AppendNewLists ==
    ASSUME NEW S, NEW out \in Lists(S), NEW x \in S
    PROVE  AppendNew(out, x) \in SomeLists(S)
<1>1. out \in Seq(S) /\ IsInjective(out) /\ Len(out) \in Nat
  BY DEF Lists
<1>2. CASE Contains(out, x)
  <2>1. out # <<>>
    BY <1>1, <1>2 DEF Contains
  <2>2. QED
    BY <1>2, <2>1 DEF AppendNew, SomeLists
<1>3. CASE ~Contains(out, x)
  <2> DEFINE new == Append(out, x)
  <2>1. /\ new \in Seq(S) /\ Len(new) = Len(out) + 1 /\ new # <<>>
        /\ \A i \in 1..Len(out) : new[i] = out[i]
        /\ new[Len(out) + 1] = x
    BY <1>1
  <2> HIDE DEF new
  <2>2. DOMAIN new = 1..(Len(out) + 1) /\ DOMAIN out = 1..Len(out)
    BY <1>1, <2>1
  <2>3. \A i \in 1..Len(out) : out[i] # x
    BY <1>3 DEF Contains
  <2>4. ASSUME NEW i \in DOMAIN new, NEW j \in DOMAIN new, new[i] = new[j] PROVE i = j
    <3>1. (i \in 1..Len(out) \/ i = Len(out) + 1) /\ (j \in 1..Len(out) \/ j = Len(out) + 1)
      BY <1>1, <2>2
    <3>2. QED
      BY <1>1, <2>1, <2>2, <2>3, <2>4, <3>1 DEF IsInjective
  <2>5. IsInjective(new)
    BY <2>4 DEF IsInjective
  <2>6. QED
    BY <1>3, <2>1, <2>5 DEF AppendNew, Lists, SomeLists, new
<1>4. QED
  BY <1>2, <1>3

\* The lists that Distinct and AppendEndpoints make have no element twice.
LEMMA NewLists ==
    ASSUME NEW S, NEW b \in Lists(S), NEW list \in Seq(S)
    PROVE  /\ FoldLeft(AppendNew, b, list) \in Lists(S)
           /\ list # <<>> => FoldLeft(AppendNew, b, list) \in SomeLists(S)
<1>1. \A out \in Lists(S), x \in S : AppendNew(out, x) \in SomeLists(S)
  BY AppendNewLists
<1>2. SomeLists(S) \in SUBSET Lists(S)
  BY DEF SomeLists
<1>3. NewFold!Fold(b, list) \in Lists(S)
  BY <1>1, <1>2, NewFold!FoldKeeps
<1>4. list # <<>> => NewFold!Fold(b, list) \in SomeLists(S)
  BY <1>1, <1>2, NewFold!FoldEnds
<1>5. QED
  BY <1>3, <1>4, NewFolds

LEMMA NoList == \A S : <<>> \in Lists(S)
  BY DEF Lists, IsInjective

\* AppendNew keeps what is in a list, where it is, and x is in it now.
LEMMA AppendNewKeeps ==
    ASSUME NEW S, NEW out \in Lists(S), NEW x \in S
    PROVE  LET new == AppendNew(out, x)
           IN /\ new \in Lists(S) /\ Contains(new, x)
              /\ \A y : Contains(out, y) => Contains(new, y)
              /\ new[1] = IF out = <<>> THEN x ELSE out[1]
<1> DEFINE new == AppendNew(out, x)
<1>1. out \in Seq(S) /\ Len(out) \in Nat /\ new \in Lists(S)
  BY AppendNewLists DEF Lists, SomeLists
<1>2. CASE Contains(out, x)
  <2>1. new = out
    BY <1>2 DEF AppendNew
  <2>2. out # <<>>
    BY <1>1, <1>2 DEF Contains
  <2> HIDE DEF new
  <2>3. QED
    BY <1>1, <1>2, <2>1, <2>2 DEF new
<1>3. CASE ~Contains(out, x)
  <2>1. new = Append(out, x)
    BY <1>3 DEF AppendNew
  <2>2. /\ Len(new) = Len(out) + 1 /\ \A i \in 1..Len(out) : new[i] = out[i]
        /\ new[Len(out) + 1] = x
    BY <1>1, <2>1
  <2> HIDE DEF new
  <2>3. Len(out) + 1 \in 1..Len(new) /\ \A i \in 1..Len(out) : i \in 1..Len(new)
    BY <1>1, <2>2
  <2>4. Contains(new, x) /\ \A y : Contains(out, y) => Contains(new, y)
    BY <2>2, <2>3 DEF Contains
  <2>5. new[1] = IF out = <<>> THEN x ELSE out[1]
    <3>1. CASE out = <<>>
      BY <2>2, <3>1
    <3>2. CASE out # <<>>
      <4>1. 1 \in 1..Len(out)
        BY <1>1, <3>2
      <4>2. QED
        BY <2>2, <3>2, <4>1
    <3>3. QED
      BY <3>1, <3>2
  <2>6. QED
    BY <1>1, <2>4, <2>5 DEF new
<1>4. QED
  BY <1>2, <1>3

LEMMA NewKeeps ==
    ASSUME NEW S, NEW b \in Lists(S), NEW list \in Seq(S)
    PROVE  LET all == FoldLeft(AppendNew, b, list)
           IN /\ \A y : Contains(b, y) => Contains(all, y)
              /\ \A k \in 1..Len(list) : Contains(all, list[k])
              /\ b # <<>> => all[1] = b[1]
              /\ b = <<>> /\ list # <<>> => all[1] = list[1]
<1> DEFINE all == NewFold!Fold(b, list)
           With(y) == {s \in Lists(S) : Contains(s, y)}
           From(y) == {s \in Lists(S) : s # <<>> /\ s[1] = y}
<1>1. \A out \in Lists(S), x \in S : AppendNew(out, x) \in Lists(S)
  BY AppendNewKeeps
<1>2. \A y : \A out \in With(y), x \in S : AppendNew(out, x) \in With(y)
  BY AppendNewKeeps
<1>3. \A y : \A out \in From(y), x \in S : AppendNew(out, x) \in From(y)
  BY AppendNewKeeps, AppendNewLists DEF SomeLists
<1>4. ASSUME NEW y, Contains(b, y) PROVE Contains(all, y)
  <2>1. b \in With(y)
    BY <1>4
  <2> DEFINE W == With(y)
  <2>2. b \in W /\ \A out \in W, x \in S : AppendNew(out, x) \in W
    BY <1>2, <2>1
  <2> HIDE DEF W
  <2>3. all \in W
    BY <2>2, NewFold!FoldKeeps
  <2>4. QED
    BY <2>3 DEF W
<1>5. ASSUME NEW k \in 1..Len(list) PROVE Contains(all, list[k])
  <2> DEFINE W == With(list[k])
  <2>1. list[k] \in S
    OBVIOUS
  <2>2. \A out \in Lists(S) : AppendNew(out, list[k]) \in W
    BY <2>1, AppendNewKeeps
  <2>3. \A out \in IF k = 1 THEN {b} ELSE Lists(S) : AppendNew(out, list[k]) \in W
    BY <2>2
  <2>4. \A out \in W, x \in S : AppendNew(out, x) \in W
    BY <1>2
  <2> HIDE DEF W
  <2>5. all \in W
    BY <1>1, <2>3, <2>4, NewFold!FoldFrom
  <2>6. QED
    BY <2>5 DEF W
<1>6. ASSUME b # <<>> PROVE all[1] = b[1]
  <2> DEFINE F == From(b[1])
  <2>1. b \in F /\ \A out \in F, x \in S : AppendNew(out, x) \in F
    BY <1>3, <1>6
  <2> HIDE DEF F
  <2>2. all \in F
    BY <2>1, NewFold!FoldKeeps
  <2>3. QED
    BY <2>2 DEF F
<1>7. ASSUME b = <<>>, list # <<>> PROVE all[1] = list[1]
  <2> DEFINE F == From(list[1])
  <2>1. 1 \in 1..Len(list) /\ list[1] \in S
    BY <1>7
  <2>2. AppendNew(b, list[1]) \in F
    BY <1>7, <2>1, AppendNewKeeps, AppendNewLists DEF SomeLists
  <2>3. \A out \in F, x \in S : AppendNew(out, x) \in F
    BY <1>3
  <2>4. \A out \in IF 1 = 1 THEN {b} ELSE Lists(S) : AppendNew(out, list[1]) \in F
    BY <2>2
  <2> HIDE DEF F
  <2>5. all \in F
    BY <1>1, <2>1, <2>3, <2>4, NewFold!FoldFrom
  <2>6. QED
    BY <2>5 DEF F
<1> HIDE DEF all
<1>8. FoldLeft(AppendNew, b, list) = all
  BY NewFolds DEF all
<1>9. QED
  BY <1>4, <1>5, <1>6, <1>7, <1>8

\* Distinct begins where the list does and has all that is in it.
LEMMA DistinctLists ==
    ASSUME NEW S, NEW list \in Seq(S), list # <<>>
    PROVE  /\ Distinct(list) \in SomeLists(S) /\ Distinct(list)[1] = list[1]
           /\ \A k \in 1..Len(list) : Contains(Distinct(list), list[k])
<1> DEFINE b == <<>>
<1>1. b \in Lists(S) /\ b = <<>>
  BY NoList
<1> HIDE DEF b
<1>2. FoldLeft(AppendNew, b, list) = Distinct(list)
  BY <1>1 DEF Distinct
<1> DEFINE all == FoldLeft(AppendNew, b, list)
<1>3. /\ \A k \in 1..Len(list) : Contains(all, list[k])
      /\ b = <<>> /\ list # <<>> => all[1] = list[1]
  BY <1>1, NewKeeps
<1>4. list # <<>> => all \in SomeLists(S)
  BY <1>1, NewLists
<1> HIDE DEF all
<1>5. QED
  BY <1>1, <1>2, <1>3, <1>4 DEF all

\* The preferred candidate comes first and none is forgotten.
LEMMA OrderHasAll ==
    ASSUME NEW n \in Nat, NEW preferred \in 1..n
    PROVE  LET order == CandidateConnectOrder(n, preferred)
           IN /\ order \in Seq(1..n) /\ order # <<>> /\ order[1] = preferred
              /\ \A i \in 1..n : Contains(order, i)
<1> DEFINE head == <<preferred>>
           all == [i \in 1..n |-> i]
           list == head \o all
           order == CandidateConnectOrder(n, preferred)
<1>1. /\ head \in Seq(1..n) /\ head # <<>> /\ Len(head) = 1 /\ head[1] = preferred
      /\ all \in Seq(1..n) /\ Len(all) = n /\ \A i \in 1..n : all[i] = i
  OBVIOUS
<1> HIDE DEF head, all
<1>2. list \in Seq(1..n) /\ list # <<>> /\ list[1] = preferred
  <2>1. list \in Seq(1..n) /\ list # <<>>
    BY <1>1, LongerConcat
  <2>2. QED
    BY <1>1, <2>1
<1>3. ASSUME NEW i \in 1..n PROVE \E q \in 1..Len(list) : list[q] = i
  <2>1. PICK q \in Nat : q = i + 1
    OBVIOUS
  <2>2. q > Len(head) /\ q <= Len(head) + Len(all) /\ q - Len(head) = i
    BY <1>1, <2>1
  <2>3. /\ Len(list) = Len(head) + Len(all)
        /\ \A k \in 1..(Len(head) + Len(all)) :
             list[k] = IF k <= Len(head) THEN head[k] ELSE all[k - Len(head)]
    <3>1. head \in Seq(1..n) /\ all \in Seq(1..n)
      BY <1>1
    <3>2. QED
      BY <3>1, ConcatProperties
  <2>4. list[q] = all[q - Len(head)]
    BY <1>1, <2>1, <2>2, <2>3
  <2>5. all[q - Len(head)] = i
    BY <1>1, <2>2
  <2>6. Len(list) = 1 + n
    BY <1>1, <2>3
  <2> HIDE DEF list
  <2>7. QED
    BY <2>1, <2>4, <2>5, <2>6
<1>4. order = Distinct(list)
  BY Zenon DEF CandidateConnectOrder, head, all
<1> HIDE DEF list, order
<1>5. order \in SomeLists(1..n)
  BY <1>2, <1>4, DistinctLists
<1>6. order[1] = preferred /\ \A k \in 1..Len(list) : Contains(order, list[k])
  BY <1>2, <1>4, DistinctLists
<1>7. \A i \in 1..n : Contains(order, i)
  BY <1>3, <1>6
<1>8. QED
  BY <1>5, <1>6, <1>7 DEF order, SomeLists, Lists

Endpoints(S) == {c.host : c \in S} \X Port
PortsOf(c) == <<c.port>> \o ScanPorts \o FallbackPorts

\* A candidate's endpoints begin with its own and have each of its ports.
LEMMA EndpointsHaveAll ==
    ASSUME NEW S, NEW c \in S, c.port \in Port
    PROVE  LET ends == EndpointsOf(c)
           IN /\ ends \in Seq(Endpoints(S)) /\ ends # <<>> /\ ends[1] = <<c.host, c.port>>
              /\ \A k \in 1..Len(PortsOf(c)) :
                   \E e \in 1..Len(ends) : ends[e] = <<c.host, PortsOf(c)[k]>>
<1> DEFINE head == <<c.port>>
           two == head \o ScanPorts
           list == PortsOf(c)
           ports == MergePortOrder(c.port)
           ends == EndpointsOf(c)
<1>1. /\ head \in Seq(Port) /\ head # <<>> /\ head[1] = c.port
      /\ ScanPorts \in Seq(Port) /\ FallbackPorts \in Seq(Port)
  BY ScanAssumption
<1> HIDE DEF head
<1>2. two \in Seq(Port) /\ two # <<>> /\ two[1] = c.port
  <2>1. two \in Seq(Port) /\ two # <<>>
    BY <1>1, LongerConcat
  <2>2. Len(head) \in Nat /\ Len(head) # 0
    BY <1>1
  <2>3. two[1] = head[1]
    BY <1>1, <2>2
  <2>4. QED
    BY <1>1, <2>1, <2>3
<1>3. list = two \o FallbackPorts
  BY Zenon DEF PortsOf, head
<1> HIDE DEF two, list
<1>4. list \in Seq(Port) /\ list # <<>> /\ list[1] = c.port
  <2>1. list \in Seq(Port) /\ list # <<>>
    BY <1>1, <1>2, <1>3, LongerConcat
  <2>2. Len(two) \in Nat /\ Len(two) # 0
    BY <1>2
  <2>3. list[1] = two[1]
    BY <1>1, <1>2, <1>3, <2>2
  <2>4. QED
    BY <1>2, <2>1, <2>3
<1>5. ports = Distinct(list)
  BY Zenon DEF MergePortOrder, list, PortsOf
<1> HIDE DEF ports
<1>6. ports \in Seq(Port) /\ ports # <<>> /\ ports[1] = c.port
  BY <1>4, <1>5, DistinctLists DEF SomeLists, Lists
<1>7. \A k \in 1..Len(list) : Contains(ports, list[k])
  BY <1>4, <1>5, DistinctLists
<1>8. Len(ports) \in Nat /\ Len(ports) # 0 /\ DOMAIN ports = 1..Len(ports)
  BY <1>6
<1>9. ends = [k \in 1..Len(ports) |-> <<c.host, ports[k]>>]
  BY <1>8, Zenon DEF EndpointsOf, ports
<1>10. \A k \in 1..Len(ports) : <<c.host, ports[k]>> \in Endpoints(S)
  BY <1>6 DEF Endpoints
<1> HIDE DEF ends
<1>11. /\ ends \in Seq(Endpoints(S)) /\ Len(ends) = Len(ports)
       /\ \A k \in 1..Len(ports) : ends[k] = <<c.host, ports[k]>>
  BY <1>8, <1>9, <1>10
<1>12. ends # <<>> /\ ends[1] = <<c.host, c.port>>
  <2>1. 1 \in 1..Len(ports)
    BY <1>8
  <2>2. QED
    BY <1>6, <1>8, <1>11, <2>1
<1>13. ASSUME NEW k \in 1..Len(list)
       PROVE \E e \in 1..Len(ends) : ends[e] = <<c.host, list[k]>>
  <2>1. PICK e \in 1..Len(ports) : ports[e] = list[k]
    BY <1>7, <1>8 DEF Contains
  <2>2. QED
    BY <1>11, <2>1
<1>14. QED
  BY <1>11, <1>12, <1>13 DEF ends, list

\* The candidates in the order in which a plan takes them.
LEMMA PlanCandidates ==
    ASSUME NEW S, NEW found \in Seq(S), NEW preferred \in DOMAIN found
    PROVE  \E cands \in Seq(S) :
             /\ cands # <<>> /\ cands[1] = found[preferred]
             /\ \A i \in DOMAIN found : \E j \in 1..Len(cands) : cands[j] = found[i]
             /\ BuildConnectPlan(found, preferred) = PlanFold!Fold(<<>>, cands)
<1> DEFINE n == Len(found)
           order == CandidateConnectOrder(n, preferred)
           cands == [i \in DOMAIN order |-> found[order[i]]]
<1>1. n \in Nat /\ DOMAIN found = 1..n
  OBVIOUS
<1>2. /\ order \in Seq(1..n) /\ order # <<>> /\ order[1] = preferred
      /\ \A i \in 1..n : Contains(order, i)
  BY <1>1, OrderHasAll
<1>3. BuildConnectPlan(found, preferred) = PlanFold!Fold(<<>>, cands)
  <2>1. BuildConnectPlan(found, preferred) = FoldLeft(AppendEndpoints, <<>>, cands)
    BY Zenon DEF BuildConnectPlan, cands
  <2>2. QED
    BY <2>1, PlanFolds
<1> HIDE DEF order
<1>4. Len(order) \in Nat /\ Len(order) # 0 /\ DOMAIN order = 1..Len(order)
  BY <1>2
<1>5. \A i \in 1..Len(order) : found[order[i]] \in S
  BY <1>1, <1>2
<1>6. cands \in [1..Len(order) -> S] /\ \A j \in 1..Len(order) : cands[j] = found[order[j]]
  BY <1>4, <1>5
<1> HIDE DEF cands
<1>7. cands \in Seq(S) /\ Len(cands) = Len(order)
  BY <1>4, <1>6
<1>8. cands # <<>> /\ cands[1] = found[preferred]
  <2>1. 1 \in 1..Len(order)
    BY <1>4
  <2>2. QED
    BY <1>2, <1>4, <1>6, <1>7, <2>1
<1>9. ASSUME NEW i \in DOMAIN found PROVE \E j \in 1..Len(cands) : cands[j] = found[i]
  <2>1. PICK j \in 1..Len(order) : order[j] = i
    BY <1>1, <1>2, <1>4 DEF Contains
  <2>2. QED
    BY <1>6, <1>7, <2>1
<1>10. QED
  BY <1>3, <1>7, <1>8, <1>9

LEMMA EndpointsJoin ==
    ASSUME NEW S, NEW plan \in Lists(Endpoints(S)), NEW c \in S, c.port \in Port
    PROVE  LET new == AppendEndpoints(plan, c)
           IN /\ new \in SomeLists(Endpoints(S))
              /\ \A y : Contains(plan, y) => Contains(new, y)
              /\ \A k \in 1..Len(PortsOf(c)) : Contains(new, <<c.host, PortsOf(c)[k]>>)
              /\ new[1] = IF plan = <<>> THEN <<c.host, c.port>> ELSE plan[1]
<1> DEFINE ends == EndpointsOf(c)
           E == Endpoints(S)
           new == AppendEndpoints(plan, c)
<1>1. /\ ends \in Seq(E) /\ ends # <<>> /\ ends[1] = <<c.host, c.port>>
      /\ \A k \in 1..Len(PortsOf(c)) :
           \E e \in 1..Len(ends) : ends[e] = <<c.host, PortsOf(c)[k]>>
  BY EndpointsHaveAll
<1>2. new = FoldLeft(AppendNew, plan, ends)
  BY DEF AppendEndpoints
<1> HIDE DEF ends, new, E
<1>3. new \in SomeLists(E)
  BY <1>1, <1>2, NewLists DEF E
<1>4. /\ \A y : Contains(plan, y) => Contains(new, y)
      /\ \A k \in 1..Len(ends) : Contains(new, ends[k])
      /\ plan # <<>> => new[1] = plan[1]
      /\ plan = <<>> => new[1] = ends[1]
  BY <1>1, <1>2, NewKeeps DEF E
<1>5. ASSUME NEW k \in 1..Len(PortsOf(c)) PROVE Contains(new, <<c.host, PortsOf(c)[k]>>)
  BY <1>1, <1>4
<1>6. QED
  BY <1>1, <1>3, <1>4, <1>5 DEF new, E

\* The plan for a list of candidates that were found (buildConnectPlan) has an
\* endpoint, and none twice.
THEOREM PlanHasNoEndpointTwice ==
    ASSUME NEW S, NEW found \in Seq(S), NEW preferred \in DOMAIN found,
           \A c \in S : c.port \in Port
    PROVE  BuildConnectPlan(found, preferred) \in SomeLists(Endpoints(S))
<1> DEFINE E == Endpoints(S)
<1>1. PICK cands \in Seq(S) :
        cands # <<>> /\ BuildConnectPlan(found, preferred) = PlanFold!Fold(<<>>, cands)
  BY PlanCandidates
<1>2. \A plan \in Lists(E), c \in S : AppendEndpoints(plan, c) \in SomeLists(E)
  BY EndpointsJoin
<1>3. SomeLists(E) \in SUBSET Lists(E) /\ <<>> \in Lists(E)
  BY NoList DEF SomeLists
<1> HIDE DEF E
<1>4. PlanFold!Fold(<<>>, cands) \in SomeLists(E)
  BY <1>1, <1>2, <1>3, PlanFold!FoldEnds
<1>5. QED
  BY <1>1, <1>4 DEF E

\* It tries the preferred candidate where it was found, and after that each of the
\* usual ports of every candidate that was found.
THEOREM PlanTriesAll ==
    ASSUME NEW S, NEW found \in Seq(S), NEW preferred \in DOMAIN found,
           \A c \in S : c.port \in Port
    PROVE  LET plan == BuildConnectPlan(found, preferred)
           IN /\ plan[1] = <<found[preferred].host, found[preferred].port>>
              /\ \A i \in DOMAIN found : \A k \in 1..Len(PortsOf(found[i])) :
                   Contains(plan, <<found[i].host, PortsOf(found[i])[k]>>)
<1> DEFINE E == Endpoints(S)
           plan == BuildConnectPlan(found, preferred)
           first == <<found[preferred].host, found[preferred].port>>
           From == {s \in Lists(E) : s # <<>> /\ s[1] = first}
<1>1. PICK cands \in Seq(S) :
        /\ cands # <<>> /\ cands[1] = found[preferred]
        /\ \A i \in DOMAIN found : \E j \in 1..Len(cands) : cands[j] = found[i]
        /\ plan = PlanFold!Fold(<<>>, cands)
  BY PlanCandidates
<1> HIDE DEF plan
<1>2. \A p \in Lists(E), c \in S : AppendEndpoints(p, c) \in Lists(E)
  BY EndpointsJoin DEF SomeLists
<1>3. <<>> \in Lists(E)
  BY NoList
<1>4. plan[1] = first
  <2>1. 1 \in 1..Len(cands) /\ cands[1] \in S
    BY <1>1
  <2>2. AppendEndpoints(<<>>, cands[1]) \in From
    <3> DEFINE new == AppendEndpoints(<<>>, cands[1])
    <3>1. new \in SomeLists(E) /\ new[1] = <<cands[1].host, cands[1].port>>
      BY <1>3, <2>1, EndpointsJoin
    <3>2. <<cands[1].host, cands[1].port>> = first
      BY <1>1
    <3> HIDE DEF new, first
    <3>3. QED
      BY <3>1, <3>2 DEF SomeLists, new
  <2>3. ASSUME NEW p \in From, NEW c \in S PROVE AppendEndpoints(p, c) \in From
    <3> DEFINE new == AppendEndpoints(p, c)
    <3>1. p \in Lists(E) /\ p # <<>> /\ p[1] = first
      OBVIOUS
    <3>2. new \in SomeLists(E) /\ new[1] = IF p = <<>> THEN <<c.host, c.port>> ELSE p[1]
      BY <3>1, EndpointsJoin
    <3> HIDE DEF new, first, E
    <3>3. QED
      BY <3>1, <3>2 DEF SomeLists, new
  <2>4. \A p \in IF 1 = 1 THEN {<<>>} ELSE Lists(E) : AppendEndpoints(p, cands[1]) \in From
    BY <2>2
  <2> HIDE DEF From, E
  <2>5. PlanFold!Fold(<<>>, cands) \in From
    BY <1>2, <1>3, <2>1, <2>3, <2>4, PlanFold!FoldFrom
  <2>6. QED
    BY <1>1, <2>5 DEF From
<1>5. ASSUME NEW i \in DOMAIN found, NEW k \in 1..Len(PortsOf(found[i]))
      PROVE  Contains(plan, <<found[i].host, PortsOf(found[i])[k]>>)
  <2> DEFINE y == <<found[i].host, PortsOf(found[i])[k]>>
             With == {s \in Lists(E) : Contains(s, y)}
  <2>1. PICK j \in 1..Len(cands) : cands[j] = found[i]
    BY <1>1
  <2>2. cands[j] \in S
    BY <2>1
  <2>3. \A p \in Lists(E) : AppendEndpoints(p, cands[j]) \in With
    BY <1>2, <2>1, <2>2, EndpointsJoin
  <2>4. \A p \in IF j = 1 THEN {<<>>} ELSE Lists(E) : AppendEndpoints(p, cands[j]) \in With
    BY <1>3, <2>3
  <2>5. \A p \in With, c \in S : AppendEndpoints(p, c) \in With
    BY <1>2, EndpointsJoin
  <2> HIDE DEF With, E
  <2>6. PlanFold!Fold(<<>>, cands) \in With
    BY <1>2, <1>3, <2>1, <2>4, <2>5, PlanFold!FoldFrom
  <2>7. QED
    BY <1>1, <2>6 DEF With
<1>6. QED
  BY <1>4, <1>5 DEF plan

-----------------------------------------------------------------------------
(***************************************************************************)
(* Candidates, plans and retries.                                          *)
(***************************************************************************)
LEMMA PlanFacts ==
    ASSUME NEW r \in ScanResults, NEW i \in DOMAIN r
    PROVE  LET plan == PlanOf[r][i]
           IN plan \in Plans /\ plan # <<>> /\ Len(plan) \in Nat \ {0} /\ IsInjective(plan)
<1> DEFINE plan == PlanOf[r][i]
<1>1. plan \in Plans
  BY DEF Plans
<1>2. plan = BuildConnectPlan(r, i)
  <2>1. PlanOf[r] = [k \in DOMAIN r |-> BuildConnectPlan(r, k)]
    BY Zenon DEF PlanOf
  <2>2. QED
    BY <2>1, Zenon
<1>3. r \in Seq(Found) /\ \A c \in Found : c.port \in Port
  BY ScanAssumption
<1>4. BuildConnectPlan(r, i) \in SomeLists(Endpoints(Found))
  BY <1>3, PlanHasNoEndpointTwice
<1> HIDE DEF plan
<1>5. plan \in Seq(Endpoints(Found)) /\ plan # <<>> /\ IsInjective(plan)
  BY <1>2, <1>4 DEF SomeLists, Lists
<1>6. Len(plan) \in Nat \ {0}
  BY <1>5
<1>7. QED
  BY <1>1, <1>5, <1>6 DEF plan

\* The preferred candidate is one of the list.
LEMMA PreferredIsFound ==
    ASSUME NEW r \in ScanResults, r # <<>>
    PROVE  PreferredCandidate(r) \in DOMAIN r
<1> DEFINE verified == {i \in DOMAIN r : r[i].verified}
<1>1. PICK S : r \in Seq(S)
  BY ScanAssumption
<1>2. Len(r) \in Nat /\ Len(r) > 0 /\ DOMAIN r = 1..Len(r)
  BY <1>1
<1>3. CASE verified = {}
  BY <1>2, <1>3 DEF PreferredCandidate
<1>4. CASE verified # {}
  <2>1. verified \subseteq Nat
    BY <1>2
  <2> DEFINE R == {p \in Nat \X Nat : p[1] < p[2]}
  <2>2. IsWellFoundedOn(R, Nat)
    BY NatLessThanWellFounded DEF OpToRel
  <2>3. \E i \in verified : \A k \in verified : i <= k
    <3>1. PICK i \in verified : \A k \in verified : <<k, i>> \notin R
      <4> HIDE DEF R, verified
      <4> QED
        BY <1>4, <2>1, <2>2, WFMin
    <3>2. ASSUME NEW k \in verified PROVE i <= k
      <4>1. i \in Nat /\ k \in Nat /\ <<k, i>> \notin R
        BY <2>1, <3>1
      <4>2. ~(k < i)
        BY <4>1
      <4>3. QED
        BY <4>1, <4>2
    <3>3. QED
      BY <3>2
  <2>4. PreferredCandidate(r) \in verified
    BY <1>4, <2>3 DEF PreferredCandidate
  <2>5. QED
    BY <2>4
<1>5. QED
  BY <1>3, <1>4

LEMMA PlanSpawns ==
    ASSUME NEW model \in Model, NEW i \in DOMAIN model.candidates
    PROVE  Spawned(BeginConnectPlan(model, i), model)
<1>1. model.candidates \in ScanResults
  BY DEF Model
<1> DEFINE plan == PlanOf[model.candidates][i]
<1>2. plan \in Plans /\ plan # <<>> /\ Len(plan) \in Nat \ {0}
  BY <1>1, PlanFacts
<1> DEFINE next == [model EXCEPT !.connectQueue = plan, !.connectAttempt = 0, !.connecting = TRUE]
<1>3. /\ next \in Model /\ next.connectQueue = plan /\ next.connectAttempt = 0
      /\ Untouched(next, model)
  BY <1>2 DEF Model, Untouched
<1>4. BeginConnectPlan(model, i) = [m |-> next, cmds |-> {}, job |-> "reconnect"]
  BY DEF BeginConnectPlan, Spawn
<1> HIDE DEF next, plan
<1>5. QED
  BY <1>2, <1>3, <1>4 DEF Spawned, Result, Inside

LEMMA RetrySpawns ==
    ASSUME NEW model \in Model, CanRetry(model)
    PROVE  Spawned(RetryNextConnect(model), model)
<1> DEFINE n == model.connectAttempt + 1
           next == [model EXCEPT !.connectAttempt = n, !.connecting = TRUE]
<1>0. n \in Nat
  BY DEF Model
<1>1. /\ next \in Model /\ next.connectQueue = model.connectQueue
      /\ next.connectAttempt = n /\ Untouched(next, model)
  <2> HIDE DEF n
  <2> QED
    BY <1>0 DEF Model, Untouched
<1>2. RetryNextConnect(model) = [m |-> next, cmds |-> {}, job |-> "reconnect"]
  BY DEF RetryNextConnect, Spawn
<1> HIDE DEF next
<1>3. QED
  BY <1>1, <1>2 DEF Spawned, Result, Inside, CanRetry

-----------------------------------------------------------------------------
\* A handler's result that is kept keeps the terminal's part of the invariant.
TuiPart ==
    /\ m \in Model
    /\ flight \in [Kinds -> Nat] /\ waits \in [Channels -> [Sessions \cup {None} -> Nat]]
    /\ job \in [Callers -> Jobs]
    /\ ScanIsRunning /\ ReadingTicks /\ PlanInside /\ ConnectingRuns

LEMMA ReturnedKeeps ==
    ASSUME TuiPart, NEW r, NEW handled \in SUBSET Kinds, NEW heard,
           NEW busy \in [Callers -> Jobs],
           \A k \in handled : flight[k] > 0,
           \A ch \in Channels, s \in Sessions \cup {None} : <<ch, s>> \in heard => waits[ch][s] > 0,
           Kept(r, flight["scan"] - Count("scan" \in handled),
                flight["tick"] - Count("tick" \in handled), Reconnects(busy)),
           Returned(r, handled, heard, busy)
    PROVE  TuiPart'
<1>1. m' = r.m /\ r \in Result /\ Inside(r.m) /\ m' \in Model
  BY DEF Returned, Kept, Result
<1>2. PICK written \in BOOLEAN :
        flight' = [k \in Kinds |-> flight[k] - Count(k \in handled)
                                     + Count(k \in Started(r.cmds, written))]
  BY DEF Returned
<1>3. flight' \in [Kinds -> Nat]
  <2>1. ASSUME NEW k \in Kinds
        PROVE  flight[k] - Count(k \in handled) + Count(k \in Started(r.cmds, written)) \in Nat
    BY DEF TuiPart, Count
  <2>2. QED
    BY <1>2, <2>1
<1>4. waits' \in [Channels -> [Sessions \cup {None} -> Nat]]
  <2>1. ASSUME NEW ch \in Channels, NEW s \in Sessions \cup {None}
        PROVE  waits[ch][s] - Count(<<ch, s>> \in heard) + Count(s = session /\ ch \in r.cmds) \in Nat
    BY DEF TuiPart, Count
  <2>2. waits' = [ch \in Channels |-> [s \in Sessions \cup {None} |->
                    waits[ch][s] - Count(<<ch, s>> \in heard)
                                 + Count(s = session /\ ch \in r.cmds)]]
    BY DEF Returned
  <2>3. QED
    BY <2>1, <2>2
<1>5. /\ job' \in [Callers -> Jobs]
      /\ r.job = "reconnect" \/ Reconnects(busy) => Reconnects(job')
  <2>1. r.job \in {"free", "reconnect", "disconnect"}
    BY <1>1 DEF Result
  <2>2. CASE r.job = "free"
    BY <2>2 DEF Returned, Reconnects
  <2>3. CASE r.job # "free"
    <3>1. PICK c \in Callers : busy[c] = "free" /\ job' = [busy EXCEPT ![c] = r.job]
      BY <2>3 DEF Returned
    <3>2. job' \in [Callers -> Jobs]
      BY <2>1, <3>1 DEF Jobs
    <3>3. r.job = "reconnect" => Reconnects(job')
      BY <3>1 DEF Reconnects
    <3>4. \A d \in Callers : d # c => job'[d] = busy[d]
      BY <3>1
    <3>5. Reconnects(busy) => Reconnects(job')
      BY <3>1, <3>4 DEF Reconnects
    <3>6. QED
      BY <3>2, <3>3, <3>5
  <2>4. QED
    BY <2>2, <2>3
<1>6. /\ "scan" \in Started(r.cmds, written) <=> "scan" \in r.cmds
      /\ "tick" \in Started(r.cmds, written) <=> "tick" \in r.cmds
  BY DEF Started, Sends
<1>7. flight'["scan"] = Count(r.m.scanning) /\ (r.m.pendingConnect => r.m.scanning)
  <2>1. "scan" \in Kinds
    BY DEF Kinds
  <2>2. flight'["scan"] = flight["scan"] - Count("scan" \in handled) + Count("scan" \in r.cmds)
    BY <1>2, <1>6, <2>1 DEF Count
  <2>3. QED
    BY <2>2 DEF Kept
<1>8. r.m.inventoryRunning => flight'["tick"] > 0
  <2>1. "tick" \in Kinds
    BY DEF Kinds
  <2>2. flight'["tick"] = flight["tick"] - Count("tick" \in handled) + Count("tick" \in r.cmds)
    BY <1>2, <1>6, <2>1 DEF Count
  <2>3. flight["tick"] - Count("tick" \in handled) \in Nat
    BY <2>1 DEF TuiPart, Count
  <2>4. QED
    BY <2>2, <2>3 DEF Kept, Count
<1>9. QED
  BY <1>1, <1>3, <1>4, <1>5, <1>7, <1>8
     DEF TuiPart, ScanIsRunning, ReadingTicks, PlanInside, ConnectingRuns, Reconnects, Kept, Inside

-----------------------------------------------------------------------------
(***************************************************************************)
(* Handlers return what is kept.                                           *)
(***************************************************************************)
LEMMA SpawnedIsKept ==
    ASSUME NEW model \in Model, NEW r, Spawned(r, model), NEW scans \in Nat, NEW ticks, NEW runs,
           scans = Count(model.scanning), model.pendingConnect => model.scanning,
           model.inventoryRunning => ticks > 0
    PROVE  Kept(r, scans, ticks, runs)
  BY DEF Spawned, Untouched, Kept, Count

\* A Model to which nothing happened but that flags went off.
Quieter(next, model) ==
    /\ next \in Model /\ Inside(next)
    /\ next.scanning = model.scanning
    /\ next.pendingConnect => model.pendingConnect
    /\ next.inventoryRunning => model.inventoryRunning
    /\ next.connecting => model.connecting

LEMMA QuieterIsKept ==
    ASSUME NEW model \in Model, NEW next, Quieter(next, model), NEW cmds, NEW j,
           cmds \in SUBSET (Channels \cup Kinds \cup Sends), "scan" \notin cmds,
           j \in {"free", "disconnect"}, NEW scans \in Nat, NEW ticks, NEW runs,
           scans = Count(model.scanning), model.pendingConnect => model.scanning,
           model.inventoryRunning => ticks > 0 \/ "tick" \in cmds,
           model.connecting => runs
    PROVE  Kept([m |-> next, cmds |-> cmds, job |-> j], scans, ticks, runs)
<1>1. [m |-> next, cmds |-> cmds, job |-> j] \in Result
  BY DEF Quieter, Result
<1>2. QED
  BY <1>1 DEF Quieter, Kept, Count

\* What the invariant says of the Model that a handler gets.
LEMMA PartFacts ==
    ASSUME TuiPart
    PROVE  /\ m \in Model /\ Inside(m)
           /\ flight["scan"] = Count(m.scanning) /\ flight["scan"] \in {0, 1}
           /\ m.pendingConnect => m.scanning
           /\ flight["tick"] \in Nat
           /\ m.inventoryRunning => flight["tick"] > 0
           /\ m.connecting => Reconnects(job)
<1>1. "scan" \in Kinds /\ "tick" \in Kinds
  BY DEF Kinds
<1>2. QED
  BY <1>1 DEF TuiPart, PlanInside, ScanIsRunning, ReadingTicks, ConnectingRuns, Reconnects, Count

LEMMA ScanFailedKept ==
    ASSUME TuiPart, NEW ticks, ticks = flight["tick"]
    PROVE  Kept(OnScanFailed(m), 0, ticks, Reconnects(job))
<1> DEFINE next == [m EXCEPT !.scanning = FALSE, !.pendingConnect = FALSE, !.connecting = FALSE]
<1>1. m \in Model /\ Inside(m) /\ (m.inventoryRunning => ticks > 0)
  BY PartFacts
<1>2. /\ next \in Model /\ Inside(next) /\ ~next.scanning /\ ~next.pendingConnect /\ ~next.connecting
      /\ next.inventoryRunning = m.inventoryRunning
  BY <1>1 DEF Model, Inside
<1>3. OnScanFailed(m) = [m |-> next, cmds |-> {}, job |-> "free"]
  BY DEF OnScanFailed, Return
<1> HIDE DEF next
<1>4. QED
  BY <1>1, <1>2, <1>3 DEF Kept, Result, Count

LEMMA ScanFinishedKept ==
    ASSUME TuiPart, NEW found \in ScanResults, NEW ticks, ticks = flight["tick"]
    PROVE  Kept(OnScanFinished(m, found), 0, ticks, Reconnects(job))
<1> DEFINE done == [m EXCEPT !.scanning = FALSE, !.pendingConnect = FALSE, !.candidates = found]
           none == [done EXCEPT !.pendingAction = NoPendingAction, !.connectQueue = <<>>,
                                !.connectAttempt = 0, !.connecting = FALSE]
<1>1. m \in Model /\ Inside(m) /\ (m.inventoryRunning => ticks > 0) /\ (m.connecting => Reconnects(job))
  BY PartFacts
<1>2. /\ done \in Model /\ Inside(done) /\ ~done.scanning /\ ~done.pendingConnect
      /\ done.connecting = m.connecting /\ done.candidates = found
      /\ done.inventoryRunning = m.inventoryRunning
  BY <1>1 DEF Model, Inside
<1>3. CASE found = <<>>
  <2>1. /\ none \in Model /\ none.connectQueue = <<>> /\ ~none.scanning /\ ~none.pendingConnect
        /\ ~none.connecting /\ none.inventoryRunning = m.inventoryRunning
    <3> HIDE DEF done
    <3>1. QED
      BY <1>2 DEF Model
  <2>2. OnScanFinished(m, found) = [m |-> none, cmds |-> {}, job |-> "free"]
    BY <1>3 DEF OnScanFinished, Return
  <2> HIDE DEF none
  <2>3. QED
    BY <1>1, <2>1, <2>2 DEF Kept, Result, Count, Inside
<1>4. CASE found # <<>> /\ m.pendingConnect
  <2>1. OnScanFinished(m, found) = BeginConnectPlan(done, PreferredCandidate(found))
    BY <1>4 DEF OnScanFinished
  <2> HIDE DEF done
  <2>2. Spawned(BeginConnectPlan(done, PreferredCandidate(found)), done)
    BY <1>2, <1>4, PlanSpawns, PreferredIsFound
  <2>3. QED
    BY <1>1, <1>2, <2>1, <2>2, SpawnedIsKept DEF Count
<1>5. CASE found # <<>> /\ ~m.pendingConnect
  <2>1. OnScanFinished(m, found) = [m |-> done, cmds |-> {}, job |-> "free"]
    BY <1>5 DEF OnScanFinished, Return
  <2> HIDE DEF done
  <2>2. QED
    BY <1>1, <1>2, <2>1 DEF Kept, Result, Count
<1>6. QED
  BY <1>3, <1>4, <1>5

LEMMA ConnectFailedKept ==
    ASSUME TuiPart, NEW runs
    PROVE  Kept(OnConnectFailed(m), flight["scan"], flight["tick"], runs)
<1> DEFINE off == [m EXCEPT !.connecting = FALSE]
           none == [off EXCEPT !.pendingAction = NoPendingAction]
<1>0. /\ m \in Model /\ Inside(m) /\ flight["scan"] = Count(m.scanning) /\ flight["scan"] \in Nat
      /\ (m.pendingConnect => m.scanning) /\ (m.inventoryRunning => flight["tick"] > 0)
  BY PartFacts
<1>1. /\ off \in Model /\ Inside(off) /\ ~off.connecting /\ off.scanning = m.scanning
      /\ off.pendingConnect = m.pendingConnect /\ off.inventoryRunning = m.inventoryRunning
  BY <1>0 DEF Model, Inside
<1>2. CASE CanRetry(off)
  <2>1. OnConnectFailed(m) = RetryNextConnect(off)
    BY <1>2 DEF OnConnectFailed
  <2> HIDE DEF off
  <2>2. Spawned(RetryNextConnect(off), off)
    BY <1>1, <1>2, RetrySpawns
  <2>3. QED
    BY <1>0, <1>1, <2>1, <2>2, SpawnedIsKept
<1>3. CASE ~CanRetry(off)
  <2>1. OnConnectFailed(m) = [m |-> none, cmds |-> {}, job |-> "free"]
    BY <1>3 DEF OnConnectFailed, Return
  <2>2. /\ none \in Model /\ Inside(none) /\ ~none.connecting /\ none.scanning = m.scanning
        /\ none.pendingConnect = m.pendingConnect /\ none.inventoryRunning = m.inventoryRunning
    <3> HIDE DEF off
    <3>1. QED
      BY <1>1 DEF Model, Inside
  <2> HIDE DEF none
  <2>3. QED
    BY <1>0, <2>1, <2>2 DEF Kept, Result, Count
<1>4. QED
  BY <1>2, <1>3

LEMMA ConnectedKept ==
    ASSUME TuiPart, NEW runs
    PROVE  Kept(OnConnected(m), flight["scan"], flight["tick"], runs)
<1> DEFINE reads == m.pendingAction = Start
           probes == m.pendingAction = NoPendingAction
           next == [m EXCEPT !.connecting = FALSE, !.connectQueue = <<>>, !.connectAttempt = 0,
                             !.inventoryRunning = reads, !.awaitingProbe = probes,
                             !.pendingAction = NoPendingAction]
           cmds == Channels \cup CASE m.pendingAction = Start -> {"tick"}
                                   [] m.pendingAction = Probe -> {"probe"}
                                   [] m.pendingAction = Raw   -> {}
                                   [] OTHER                   -> {"probe", "timer"}
<1>0. /\ m \in Model /\ flight["scan"] = Count(m.scanning) /\ flight["scan"] \in Nat
      /\ (m.pendingConnect => m.scanning)
  BY PartFacts
<1>1. reads \in BOOLEAN /\ probes \in BOOLEAN
  OBVIOUS
<1>2. /\ next \in Model /\ next.connectQueue = <<>> /\ ~next.connecting
      /\ next.scanning = m.scanning /\ next.pendingConnect = m.pendingConnect
      /\ next.inventoryRunning = reads
  <2> HIDE DEF reads, probes
  <2>1. QED
    BY <1>0, <1>1 DEF Model
<1>3. /\ cmds \in SUBSET (Channels \cup Kinds \cup Sends) /\ "scan" \notin cmds
      /\ reads => "tick" \in cmds
  <2>1. m.pendingAction \in {NoPendingAction, Start, Probe, Raw}
    BY <1>0 DEF Model
  <2>2. QED
    BY <2>1 DEF Channels, Kinds, Sends, NoPendingAction, Start, Probe, Raw
<1>4. OnConnected(m) = [m |-> next, cmds |-> cmds, job |-> "free"]
  BY DEF OnConnected, Return
<1> HIDE DEF next, cmds, reads
<1>5. QED
  BY <1>0, <1>2, <1>3, <1>4 DEF Kept, Result, Inside, Count

LEMMA DisconnectedKept ==
    ASSUME TuiPart, NEW runs
    PROVE  Kept(OnDisconnected(m), flight["scan"], flight["tick"], runs)
<1> DEFINE next == [m EXCEPT !.inventoryRunning = FALSE, !.awaitingProbe = FALSE,
                             !.connecting = FALSE, !.connectQueue = <<>>, !.connectAttempt = 0]
<1>0. /\ m \in Model /\ flight["scan"] = Count(m.scanning) /\ flight["scan"] \in Nat
      /\ (m.pendingConnect => m.scanning)
  BY PartFacts
<1>1. /\ next \in Model /\ next.connectQueue = <<>> /\ ~next.connecting /\ ~next.inventoryRunning
      /\ next.scanning = m.scanning /\ next.pendingConnect = m.pendingConnect
  BY <1>0 DEF Model
<1>2. OnDisconnected(m) = [m |-> next, cmds |-> {}, job |-> "free"]
  BY <1>0 DEF OnDisconnected, Return, NotReading, Model
<1> HIDE DEF next
<1>3. QED
  BY <1>0, <1>1, <1>2 DEF Kept, Result, Inside, Count

\* A Model as it is, or with reading or the probe off, and commands but no scan.
LEMMA OffIsQuieter ==
    ASSUME NEW model \in Model, Inside(model)
    PROVE  /\ Quieter(model, model) /\ Quieter(NotReading(model), model)
           /\ NotReading(model).inventoryRunning = FALSE
           /\ \A b \in BOOLEAN : Quieter([model EXCEPT !.awaitingProbe = b], model)
           /\ Quieter([NotReading(model) EXCEPT !.awaitingProbe = FALSE], model)
           /\ [NotReading(model) EXCEPT !.awaitingProbe = FALSE].inventoryRunning = FALSE
<1> USE DEF Quieter, Inside, Model
<1>1. Quieter(model, model)
  OBVIOUS
<1>2. Quieter(NotReading(model), model) /\ NotReading(model).inventoryRunning = FALSE
  BY DEF NotReading
<1>3. ASSUME NEW b \in BOOLEAN PROVE Quieter([model EXCEPT !.awaitingProbe = b], model)
  OBVIOUS
<1> DEFINE off == [model EXCEPT !.inventoryRunning = FALSE, !.awaitingProbe = FALSE]
<1>4. [NotReading(model) EXCEPT !.awaitingProbe = FALSE] = off
  BY DEF NotReading
<1>5. Quieter(off, model) /\ off.inventoryRunning = FALSE
  OBVIOUS
<1>6. QED
  BY <1>1, <1>2, <1>3, <1>4, <1>5

LEMMA TickKept ==
    ASSUME TuiPart, flight["tick"] > 0
    PROVE  Kept(OnTick(m), flight["scan"], flight["tick"] - 1, Reconnects(job))
<1>0. /\ m \in Model /\ Inside(m) /\ flight["scan"] = Count(m.scanning) /\ flight["scan"] \in Nat
      /\ (m.pendingConnect => m.scanning) /\ (m.connecting => Reconnects(job))
  BY PartFacts
<1>1. /\ Quieter(m, m) /\ Quieter(NotReading(m), m) /\ NotReading(m).inventoryRunning = FALSE
  BY <1>0, OffIsQuieter
<1>2. CASE ~m.inventoryRunning
  <2>1. OnTick(m) = [m |-> m, cmds |-> {}, job |-> "free"]
    BY <1>2 DEF OnTick, Return
  <2>2. QED
    BY <1>0, <1>1, <1>2, <2>1, QuieterIsKept
<1>3. CASE m.inventoryRunning /\ session = None
  <2>1. OnTick(m) = [m |-> NotReading(m), cmds |-> {}, job |-> "free"]
    BY <1>3 DEF OnTick, Return
  <2>2. QED
    BY <1>0, <1>1, <2>1 DEF Kept, Result, Quieter, Count
<1>4. CASE m.inventoryRunning /\ session # None
  <2>1. OnTick(m) = [m |-> m, cmds |-> {"inventory", "tick"}, job |-> "free"]
    BY <1>4 DEF OnTick, Return
  <2>2. {"inventory", "tick"} \in SUBSET (Channels \cup Kinds \cup Sends)
    BY DEF Kinds, Sends
  <2>3. QED
    BY <1>0, <1>1, <2>1, <2>2, QuieterIsKept
<1>5. QED
  BY <1>2, <1>3, <1>4

LEMMA ProbeTimeoutKept ==
    ASSUME TuiPart
    PROVE  Kept(OnProbeTimeout(m), flight["scan"], flight["tick"], Reconnects(job))
<1> DEFINE off == [m EXCEPT !.awaitingProbe = FALSE]
<1>0. /\ m \in Model /\ Inside(m) /\ flight["scan"] = Count(m.scanning) /\ flight["scan"] \in Nat
      /\ (m.pendingConnect => m.scanning) /\ (m.inventoryRunning => flight["tick"] > 0)
      /\ (m.connecting => Reconnects(job))
  BY PartFacts
<1>1. Quieter(m, m) /\ Quieter(off, m)
  BY <1>0, OffIsQuieter
<1>2. CASE ~m.awaitingProbe \/ m.inventoryRunning
  <2>1. OnProbeTimeout(m) = [m |-> m, cmds |-> {}, job |-> "free"]
    BY <1>2 DEF OnProbeTimeout, Return
  <2>2. QED
    BY <1>0, <1>1, <2>1, QuieterIsKept
<1>3. CASE ~(~m.awaitingProbe \/ m.inventoryRunning) /\ CanRetry(off)
  <2>1. OnProbeTimeout(m) = RetryNextConnect(off)
    BY <1>3 DEF OnProbeTimeout
  <2> HIDE DEF off
  <2>2. Spawned(RetryNextConnect(off), off) /\ off \in Model
    BY <1>1, <1>3, RetrySpawns DEF Quieter
  <2>3. QED
    BY <1>0, <1>1, <2>1, <2>2, SpawnedIsKept DEF Quieter
<1>4. CASE ~(~m.awaitingProbe \/ m.inventoryRunning) /\ ~CanRetry(off)
  <2>1. OnProbeTimeout(m) = [m |-> off, cmds |-> {}, job |-> "disconnect"]
    BY <1>4 DEF OnProbeTimeout, Spawn
  <2> HIDE DEF off
  <2>2. QED
    BY <1>0, <1>1, <2>1, QuieterIsKept
<1>5. QED
  BY <1>2, <1>3, <1>4

LEMMA ReaderErrKept ==
    ASSUME TuiPart
    PROVE  Kept(OnReaderErr(m), flight["scan"], flight["tick"], Reconnects(job))
<1> DEFINE off == [NotReading(m) EXCEPT !.awaitingProbe = FALSE]
           idle == [off EXCEPT !.connecting = FALSE]
<1>0. /\ m \in Model /\ Inside(m) /\ flight["scan"] = Count(m.scanning) /\ flight["scan"] \in Nat
      /\ (m.pendingConnect => m.scanning) /\ (m.inventoryRunning => flight["tick"] > 0)
      /\ (m.connecting => Reconnects(job))
  BY PartFacts
<1>1. Quieter(m, m) /\ Quieter(off, m)
  BY <1>0, OffIsQuieter
<1>2. {"errors"} \in SUBSET (Channels \cup Kinds \cup Sends)
  BY DEF Channels
<1>3. CASE session # None
  <2>1. OnReaderErr(m) = [m |-> m, cmds |-> {"errors"}, job |-> "free"]
    BY <1>3 DEF OnReaderErr, Return
  <2>2. QED
    BY <1>0, <1>1, <1>2, <2>1, QuieterIsKept
<1>4. CASE ~(session # None) /\ ~m.connecting /\ CanRetry(off)
  <2>1. OnReaderErr(m) = RetryNextConnect(off)
    BY <1>4 DEF OnReaderErr
  <2> HIDE DEF off
  <2>2. Spawned(RetryNextConnect(off), off) /\ off \in Model
    BY <1>1, <1>4, RetrySpawns DEF Quieter
  <2>3. QED
    BY <1>0, <1>1, <2>1, <2>2, SpawnedIsKept DEF Quieter
<1>5. CASE ~(session # None) /\ ~(~m.connecting /\ CanRetry(off))
  <2>1. OnReaderErr(m) = [m |-> idle, cmds |-> {"errors"}, job |-> "free"]
    BY <1>5 DEF OnReaderErr, Return
  <2>2. Quieter(idle, m)
    <3> HIDE DEF off
    <3>1. QED
      BY <1>1 DEF Quieter, Inside, Model
  <2> HIDE DEF idle, off
  <2>3. QED
    BY <1>0, <1>2, <2>1, <2>2, QuieterIsKept
<1>6. QED
  BY <1>3, <1>4, <1>5

\* The handlers that switch a flag off, or nothing, and ask for no scan.
LEMMA QuietKept ==
    ASSUME TuiPart, NEW next \in {m, NotReading(m)} \cup {[m EXCEPT !.awaitingProbe = b] : b \in BOOLEAN},
           NEW cmds \in SUBSET (Channels \cup Sends), NEW j \in {"free", "disconnect"}
    PROVE  Kept([m |-> next, cmds |-> cmds, job |-> j], flight["scan"], flight["tick"], Reconnects(job))
<1>0. /\ m \in Model /\ Inside(m) /\ flight["scan"] = Count(m.scanning) /\ flight["scan"] \in Nat
      /\ (m.pendingConnect => m.scanning) /\ (m.inventoryRunning => flight["tick"] > 0)
      /\ (m.connecting => Reconnects(job))
  BY PartFacts
<1>1. Quieter(next, m)
  BY <1>0, OffIsQuieter
<1>2. cmds \in SUBSET (Channels \cup Kinds \cup Sends) /\ "scan" \notin cmds
  BY DEF Channels, Kinds, Sends
<1>3. QED
  BY <1>0, <1>1, <1>2, QuieterIsKept

-----------------------------------------------------------------------------
(***************************************************************************)
(* What the keys return is kept.                                           *)
(***************************************************************************)
\* A Model that differs from the handler's in the plan or in what waits for a
\* connection.
Prepared(model) ==
    /\ model \in Model /\ Inside(model) /\ Untouched(model, m)
    /\ model.connecting = m.connecting /\ model.candidates = m.candidates

LEMMA RunScanKept ==
    ASSUME TuiPart, NEW model, Prepared(model), ~m.scanning
    PROVE  Kept(RunScan(model), flight["scan"], flight["tick"], Reconnects(job))
<1> DEFINE next == [model EXCEPT !.scanning = TRUE, !.pendingConnect = TRUE]
<1>1. /\ next \in Model /\ Inside(next) /\ next.scanning /\ next.connecting = model.connecting
      /\ next.inventoryRunning = model.inventoryRunning
  BY DEF Prepared, Model, Inside
<1>2. RunScan(model) = [m |-> next, cmds |-> {"scan"}, job |-> "free"]
  BY DEF RunScan, Return
<1> HIDE DEF next
<1>3. QED
  BY <1>1, <1>2, PartFacts DEF Prepared, Untouched, Kept, Result, Count, Kinds

LEMMA AwaitScanKept ==
    ASSUME TuiPart, NEW model, Prepared(model), m.scanning
    PROVE  Kept(AwaitScan(model), flight["scan"], flight["tick"], Reconnects(job))
<1> DEFINE next == [model EXCEPT !.pendingConnect = TRUE]
<1>1. /\ next \in Model /\ Inside(next) /\ next.scanning = m.scanning
      /\ next.connecting = model.connecting /\ next.inventoryRunning = model.inventoryRunning
  BY DEF Prepared, Model, Inside, Untouched
<1>2. AwaitScan(model) = [m |-> next, cmds |-> {}, job |-> "free"]
  BY DEF AwaitScan, Return
<1>3. /\ flight["scan"] = Count(m.scanning) /\ flight["scan"] \in {0, 1}
      /\ m.inventoryRunning => flight["tick"] > 0
      /\ m.connecting => Reconnects(job)
  BY PartFacts
<1>4. model.inventoryRunning = m.inventoryRunning /\ model.connecting = m.connecting
  BY DEF Prepared, Untouched
<1> HIDE DEF next
<1>5. AwaitScan(model) \in Result
  BY <1>1, <1>2 DEF Result
<1>6. flight["scan"] + Count("scan" \in {}) = Count(next.scanning)
  BY <1>1, <1>3 DEF Count
<1>7. next.pendingConnect => next.scanning
  BY <1>1
<1>8. AwaitScan(model).m = next /\ AwaitScan(model).cmds = {}
  BY <1>2
<1>9. QED
  BY <1>1, <1>3, <1>4, <1>5, <1>6, <1>7, <1>8 DEF Kept

LEMMA PlanKept ==
    ASSUME TuiPart, NEW model, Prepared(model), NEW i \in DOMAIN m.candidates
    PROVE  Kept(BeginConnectPlan(model, i), flight["scan"], flight["tick"], Reconnects(job))
<1>1. Spawned(BeginConnectPlan(model, i), model)
  BY PlanSpawns DEF Prepared
<1>2. QED
  BY <1>1, PartFacts, SpawnedIsKept DEF Prepared, Untouched

LEMMA PreferredKept ==
    ASSUME TuiPart, NEW model, Prepared(model), m.candidates # <<>>
    PROVE  Kept(BeginConnectPlan(model, PreferredCandidate(model.candidates)),
                flight["scan"], flight["tick"], Reconnects(job))
<1>1. model.candidates \in ScanResults /\ model.candidates = m.candidates
  BY DEF Prepared, Model
<1>2. PreferredCandidate(model.candidates) \in DOMAIN m.candidates
  BY <1>1, PreferredIsFound
<1>3. QED
  BY <1>2, PlanKept

LEMMA ConnectKeyKept ==
    ASSUME TuiPart, NEW action \in {NoPendingAction, Start, Probe, Raw}
    PROVE  /\ Kept(RequestConnectionForAction(m, action), flight["scan"], flight["tick"],
                   Reconnects(job))
           /\ Kept(RunQuickConnect(m), flight["scan"], flight["tick"], Reconnects(job))
<1> DEFINE wanted == [m EXCEPT !.pendingAction = action]
<1>0. m \in Model /\ Inside(m) /\ m.scanning \in BOOLEAN
  BY PartFacts DEF Model
<1>1. Prepared(m)
  BY <1>0 DEF Prepared, Untouched
<1>2. Prepared(wanted) /\ wanted.candidates = m.candidates /\ wanted.scanning = m.scanning
  BY <1>0 DEF Prepared, Untouched, Model, Inside
<1>3. Kept(RequestConnectionForAction(m, action), flight["scan"], flight["tick"], Reconnects(job))
  <2>1. RequestConnectionForAction(m, action) =
          IF m.candidates # <<>> THEN BeginConnectPlan(wanted, PreferredCandidate(m.candidates))
          ELSE IF m.scanning THEN AwaitScan(wanted) ELSE RunScan(wanted)
    BY DEF RequestConnectionForAction
  <2> HIDE DEF wanted
  <2>2. QED
    BY <1>0, <1>2, <2>1, PreferredKept, AwaitScanKept, RunScanKept
<1>4. Kept(RunQuickConnect(m), flight["scan"], flight["tick"], Reconnects(job))
  BY <1>0, <1>1, PreferredKept, AwaitScanKept, RunScanKept DEF RunQuickConnect
<1>5. QED
  BY <1>3, <1>4

LEMMA ScanKeysKept ==
    ASSUME TuiPart
    PROVE  /\ Kept(Rescan(m), flight["scan"], flight["tick"], Reconnects(job))
           /\ ~m.scanning =>
                Kept(ManualScan(m), flight["scan"], flight["tick"], Reconnects(job))
<1> DEFINE cleared == [m EXCEPT !.connectQueue = <<>>, !.connectAttempt = 0]
           next == [m EXCEPT !.scanning = TRUE, !.pendingConnect = FALSE,
                             !.connectQueue = <<>>, !.connectAttempt = 0]
<1>0. m \in Model /\ Inside(m) /\ m.scanning \in BOOLEAN
  BY PartFacts DEF Model
<1>1. Prepared(cleared) /\ cleared.scanning = m.scanning
  BY <1>0 DEF Prepared, Untouched, Model, Inside
<1>2. Kept(Rescan(m), flight["scan"], flight["tick"], Reconnects(job))
  <2>1. Rescan(m) = IF m.scanning THEN AwaitScan(cleared) ELSE RunScan(cleared)
    BY <1>1 DEF Rescan
  <2> HIDE DEF cleared
  <2>2. QED
    BY <1>0, <1>1, <2>1, AwaitScanKept, RunScanKept
<1>3. ASSUME ~m.scanning
      PROVE  Kept(ManualScan(m), flight["scan"], flight["tick"], Reconnects(job))
  <2>1. /\ next \in Model /\ Inside(next) /\ next.scanning /\ ~next.pendingConnect
        /\ next.connecting = m.connecting /\ next.inventoryRunning = m.inventoryRunning
    BY <1>0 DEF Model, Inside
  <2>2. ManualScan(m) = [m |-> next, cmds |-> {"scan"}, job |-> "free"]
    BY DEF ManualScan, Return
  <2> HIDE DEF next
  <2>3. QED
    BY <1>3, <2>1, <2>2, PartFacts DEF Kept, Result, Count, Kinds
<1>4. QED
  BY <1>2, <1>3

LEMMA ReadingKeysKept ==
    ASSUME TuiPart
    PROVE  /\ Kept(StartReading(m), flight["scan"], flight["tick"], Reconnects(job))
           /\ Kept(ProbeInfo(m), flight["scan"], flight["tick"], Reconnects(job))
<1> DEFINE next == [m EXCEPT !.inventoryRunning = TRUE]
<1>0. m \in Model /\ Inside(m)
  BY PartFacts
<1>1. CASE session = None
  BY <1>1, ConnectKeyKept DEF StartReading, ProbeInfo
<1>2. CASE session # None
  <2>1. /\ next \in Model /\ Inside(next) /\ next.scanning = m.scanning
        /\ next.pendingConnect = m.pendingConnect /\ next.connecting = m.connecting
    BY <1>0 DEF Model, Inside
  <2>2. StartReading(m) = [m |-> next, cmds |-> {"tick"}, job |-> "free"]
    BY <1>2 DEF StartReading, Return
  <2>3. Kept(StartReading(m), flight["scan"], flight["tick"], Reconnects(job))
    <3> HIDE DEF next
    <3>1. QED
      BY <2>1, <2>2, PartFacts DEF Kept, Result, Count, Kinds
  <2>4. ProbeInfo(m) = [m |-> m, cmds |-> {"probe"}, job |-> "free"]
    BY <1>2 DEF ProbeInfo, Return
  <2>5. QED
    BY <2>3, <2>4, QuietKept DEF Sends
<1>3. QED
  BY <1>1, <1>2

-----------------------------------------------------------------------------
(***************************************************************************)
(* Every step keeps the invariant.                                         *)
(***************************************************************************)
LEMMA Parts ==
    ASSUME TuiInv
    PROVE  TuiPart /\ errs \subseteq Sessions /\ keys \in 0..MaxKeys
  BY DEF TuiInv, TuiPart, TuiTypeOK

LEMMA Whole ==
    ASSUME TuiPart', TransportInv', (errs \subseteq Sessions)', (keys \in 0..MaxKeys)'
    PROVE  TuiInv'
  BY DEF TuiInv, TuiPart, TuiTypeOK, TransportInv

LEMMA TransportSame ==
    ASSUME TransportInv, UNCHANGED vars
    PROVE  TransportInv'
  BY TransportStep

\* What a message of some kind, or a key, or one that is heard on a channel keeps.
LEMMA MessageKeeps ==
    ASSUME TuiInv, NEW kind \in Kinds, NEW r, Message(kind, r),
           NEW scans, NEW ticks,
           scans = flight["scan"] - Count("scan" \in {kind}),
           ticks = flight["tick"] - Count("tick" \in {kind}),
           Kept(r, scans, ticks, Reconnects(job))
    PROVE  TuiInv'
<1>1. TuiPart /\ job \in [Callers -> Jobs] /\ flight[kind] > 0 /\ Returned(r, {kind}, {}, job)
  BY Parts DEF Message, TuiPart
<1>2. {kind} \in SUBSET Kinds /\ \A k \in {kind} : flight[k] > 0
  BY <1>1
<1>3. TuiPart'
  BY <1>1, <1>2, ReturnedKeeps
<1>4. UNCHANGED vars /\ errs' = errs /\ keys' = keys
  BY DEF Message
<1>5. TransportInv'
  BY <1>4, TransportSame DEF TuiInv
<1>6. QED
  BY <1>3, <1>4, <1>5, Parts, Whole

LEMMA KeyKeeps ==
    ASSUME TuiInv, NEW r, Key(r), Kept(r, flight["scan"], flight["tick"], Reconnects(job))
    PROVE  TuiInv'
<1>1. TuiPart /\ job \in [Callers -> Jobs] /\ Returned(r, {}, {}, job)
  BY Parts DEF Key, TuiPart
<1>2. flight["scan"] - Count("scan" \in {}) = flight["scan"]
      /\ flight["tick"] - Count("tick" \in {}) = flight["tick"]
  BY <1>1, PartFacts DEF Count
<1>3. TuiPart'
  BY <1>1, <1>2, ReturnedKeeps
<1>4. UNCHANGED vars /\ errs' = errs /\ keys' = keys + 1 /\ keys < MaxKeys
  BY DEF Key
<1>5. keys' \in 0..MaxKeys
  BY <1>4, Parts, KeysAssumption
<1>6. TransportInv'
  BY <1>4, TransportSame DEF TuiInv
<1>7. QED
  BY <1>3, <1>4, <1>5, <1>6, Parts, Whole

LEMMA HeardKeeps ==
    ASSUME TuiInv, NEW ch \in Channels, NEW s \in Sessions \cup {None}, NEW r, Heard(ch, s, r),
           Kept(r, flight["scan"], flight["tick"], Reconnects(job)),
           (errs \subseteq Sessions)'
    PROVE  TuiInv'
<1>1. /\ TuiPart /\ job \in [Callers -> Jobs] /\ waits[ch][s] > 0
      /\ Returned(r, {}, {<<ch, s>>}, job)
  BY Parts DEF Heard, TuiPart
<1>2. flight["scan"] - Count("scan" \in {}) = flight["scan"]
      /\ flight["tick"] - Count("tick" \in {}) = flight["tick"]
  BY <1>1, PartFacts DEF Count
<1>3. \A c \in Channels, x \in Sessions \cup {None} : <<c, x>> \in {<<ch, s>>} => waits[c][x] > 0
  BY <1>1
<1>4. TuiPart'
  BY <1>1, <1>2, <1>3, ReturnedKeeps
<1>5. UNCHANGED vars /\ keys' = keys
  BY DEF Heard
<1>6. TransportInv'
  BY <1>5, TransportSame DEF TuiInv
<1>7. QED
  BY <1>4, <1>5, <1>6, Parts, Whole

LEMMA MessageStepKeeps ==
    ASSUME TuiInv, MessageStep
    PROVE  TuiInv'
<1>0. /\ TuiPart /\ flight["scan"] \in {0, 1} /\ flight["tick"] \in Nat
      /\ errs \subseteq Sessions
  BY Parts, PartFacts
<1>1. {"scan", "tick", "timer", "inventoryErr", "probeSent"} = Kinds
  BY DEF Kinds
<1>2. /\ Count("scan" \in {"scan"}) = 1 /\ Count("tick" \in {"scan"}) = 0
      /\ Count("scan" \in {"tick"}) = 0 /\ Count("tick" \in {"tick"}) = 1
  BY DEF Count
<1>3. ASSUME NEW kind \in {"timer", "inventoryErr", "probeSent"}
      PROVE  Count("scan" \in {kind}) = 0 /\ Count("tick" \in {kind}) = 0
  BY DEF Count
<1>4. CASE ScanFails \/ ScanFinished
  <2>1. flight["scan"] > 0
    BY <1>4 DEF ScanFails, ScanFinished, Message
  <2>2. /\ flight["scan"] - Count("scan" \in {"scan"}) = 0
        /\ flight["tick"] - Count("tick" \in {"scan"}) = flight["tick"]
    BY <1>0, <1>2, <2>1
  <2>3. CASE ScanFails
    BY <1>0, <1>1, <2>2, <2>3, ScanFailedKept, MessageKeeps DEF ScanFails
  <2>4. ASSUME NEW found \in ScanResults, Message("scan", OnScanFinished(m, found)) PROVE TuiInv'
    BY <1>0, <1>1, <2>2, <2>4, ScanFinishedKept, MessageKeeps
  <2>5. QED
    BY <1>4, <2>3, <2>4 DEF ScanFinished
<1>5. CASE InventoryTick
  <2>1. flight["tick"] > 0
    BY <1>5 DEF InventoryTick, Message
  <2>2. /\ flight["scan"] - Count("scan" \in {"tick"}) = flight["scan"]
        /\ flight["tick"] - Count("tick" \in {"tick"}) = flight["tick"] - 1
    BY <1>0, <1>2
  <2>3. QED
    BY <1>0, <1>1, <1>5, <2>1, <2>2, TickKept, MessageKeeps DEF InventoryTick
<1>6. ASSUME NEW kind \in {"timer", "inventoryErr", "probeSent"}
      PROVE  /\ flight["scan"] = flight["scan"] - Count("scan" \in {kind})
             /\ flight["tick"] = flight["tick"] - Count("tick" \in {kind})
  BY <1>0, <1>3
<1>7. CASE ProbeTimeout
  BY <1>0, <1>1, <1>6, <1>7, ProbeTimeoutKept, MessageKeeps DEF ProbeTimeout
<1>8. CASE InventoryError
  <2>1. Kept(Return(NotReading(m), {}), flight["scan"], flight["tick"], Reconnects(job))
    BY <1>0, QuietKept DEF Return
  <2>2. QED
    BY <1>1, <1>6, <1>8, <2>1, MessageKeeps DEF InventoryError
<1>9. CASE ProbeSent
  <2>1. Kept(Return([m EXCEPT !.awaitingProbe = TRUE], {}), flight["scan"], flight["tick"],
             Reconnects(job))
    BY <1>0, QuietKept DEF Return
  <2>2. QED
    BY <1>1, <1>6, <1>9, <2>1, MessageKeeps DEF ProbeSent
<1>10. ASSUME NEW s \in Sessions, ReaderErr(s) PROVE TuiInv'
  <2>1. "errors" \in Channels /\ (errs \subseteq Sessions)' /\ Heard("errors", s, OnReaderErr(m))
    BY <1>0, <1>10 DEF ReaderErr, Channels
  <2>2. QED
    BY <1>0, <2>1, ReaderErrKept, HeardKeeps
<1>11. ASSUME NEW s \in Sessions, NEW frame \in BOOLEAN, Packet(s, frame) PROVE TuiInv'
  <2> DEFINE b == m.awaitingProbe /\ ~frame
             r == [m |-> [m EXCEPT !.awaitingProbe = b], cmds |-> {"packets"}, job |-> "free"]
  <2>1. b \in BOOLEAN /\ {"packets"} \in SUBSET (Channels \cup Sends) /\ "packets" \in Channels
    BY DEF Channels
  <2>2. Kept(r, flight["scan"], flight["tick"], Reconnects(job))
    <3> HIDE DEF b
    <3>1. QED
      BY <1>0, <2>1, QuietKept
  <2>3. Heard("packets", s, r) /\ (errs \subseteq Sessions)'
    <3>1. r = Return([m EXCEPT !.awaitingProbe = @ /\ ~frame], {"packets"})
      BY DEF Return
    <3> HIDE DEF r
    <3>2. QED
      BY <1>0, <1>11, <3>1 DEF Packet
  <2> HIDE DEF r
  <2>4. QED
    BY <2>1, <2>2, <2>3, HeardKeeps
<1>12. ASSUME NEW ch \in Channels, NEW s \in Sessions \cup {None}, ChannelClosed(ch, s) PROVE TuiInv'
  <2> DEFINE cmds == IF session = None THEN {} ELSE {ch}
             r == [m |-> m, cmds |-> cmds, job |-> "free"]
  <2>1. cmds \in SUBSET (Channels \cup Sends)
    OBVIOUS
  <2>2. Kept(r, flight["scan"], flight["tick"], Reconnects(job))
    <3> HIDE DEF cmds
    <3>1. QED
      BY <1>0, <2>1, QuietKept
  <2>3. Heard(ch, s, r) /\ (errs \subseteq Sessions)'
    BY <1>0, <1>12 DEF ChannelClosed, Return
  <2> HIDE DEF r
  <2>4. QED
    BY <2>2, <2>3, HeardKeeps
<1>13. QED
  BY <1>4, <1>5, <1>7, <1>8, <1>9, <1>10, <1>11, <1>12 DEF MessageStep

LEMMA KeyPressedKeeps ==
    ASSUME TuiInv, KeyPressed
    PROVE  TuiInv'
<1>0. TuiPart /\ m \in Model
  BY Parts, PartFacts
<1> DEFINE Fine(r) == Kept(r, flight["scan"], flight["tick"], Reconnects(job))
<1>1. /\ Fine(RunQuickConnect(m)) /\ Fine(RequestConnectionForAction(m, Raw))
  BY <1>0, ConnectKeyKept
<1>2. Fine(Rescan(m)) /\ (~m.scanning => Fine(ManualScan(m)))
  BY <1>0, ScanKeysKept
<1>3. Fine(StartReading(m)) /\ Fine(ProbeInfo(m))
  BY <1>0, ReadingKeysKept
<1>4. Prepared(m)
  BY <1>0, PartFacts DEF Prepared, Untouched
<1>5. \A i \in DOMAIN m.candidates : Fine(BeginConnectPlan(m, i))
  BY <1>0, <1>4, PlanKept
<1>6. Fine(Return(NotReading(m), {})) /\ Fine(Spawn(m, "disconnect"))
  BY <1>0, QuietKept DEF Return, Spawn
<1>7. \A r : Key(r) /\ Fine(r) => TuiInv'
  BY KeyKeeps
<1> HIDE DEF Fine
<1>8. QED
  BY <1>1, <1>2, <1>3, <1>5, <1>6, <1>7 DEF KeyPressed

LEMMA JobEndedKeeps ==
    ASSUME TuiInv, NEW c \in Callers, NEW j, NEW r, JobEnded(c, j, r),
           Kept(r, flight["scan"], flight["tick"], Reconnects([job EXCEPT ![c] = "free"]))
    PROVE  TuiInv'
<1> DEFINE busy == [job EXCEPT ![c] = "free"]
<1>1. TuiPart /\ busy \in [Callers -> Jobs] /\ Returned(r, {}, {}, busy)
  BY Parts DEF JobEnded, TuiPart, Jobs
<1>2. flight["scan"] - Count("scan" \in {}) = flight["scan"]
      /\ flight["tick"] - Count("tick" \in {}) = flight["tick"]
  BY <1>1, PartFacts DEF Count
<1>3. TuiPart'
  <2> HIDE DEF busy
  <2>1. Kept(r, flight["scan"], flight["tick"], Reconnects(busy))
    BY DEF busy
  <2>2. QED
    BY <1>1, <1>2, <2>1, ReturnedKeeps
<1>4. UNCHANGED <<session, conn, loop, pc, held, errs, keys>>
  BY DEF JobEnded, sessionVars
<1>5. TransportInv'
  <2>1. TransportInv
    BY DEF TuiInv
  <2>2. answer' = [answer EXCEPT ![c] = "none"] /\ again' = [again EXCEPT ![c] = FALSE]
    BY DEF JobEnded, Answer
  <2>3. TypeOK'
    BY <1>4, <2>1, <2>2 DEF TransportInv, TypeOK
  <2>4. SessionExact' /\ HoldsSession'
    BY <1>4, <2>1 DEF TransportInv, SessionExact, HoldsSession, Unregistered
  <2>5. QED
    BY <2>3, <2>4 DEF TransportInv
<1>6. QED
  BY <1>3, <1>4, <1>5, Parts, Whole

LEMMA JobMessageKeeps ==
    ASSUME TuiInv, NEW c \in Callers, Connected(c) \/ ConnectFails(c) \/ Disconnected(c)
    PROVE  TuiInv'
<1>0. TuiPart
  BY Parts
<1>1. CASE Connected(c)
  BY <1>0, <1>1, ConnectedKept, JobEndedKeeps DEF Connected
<1>2. CASE ConnectFails(c)
  BY <1>0, <1>2, ConnectFailedKept, JobEndedKeeps DEF ConnectFails
<1>3. CASE Disconnected(c) /\ answer[c] # "close error"
  BY <1>0, <1>3, DisconnectedKept, JobEndedKeeps DEF Disconnected
<1>4. CASE Disconnected(c) /\ answer[c] = "close error"
  <2> DEFINE busy == [job EXCEPT ![c] = "free"]
             r == [m |-> m, cmds |-> {}, job |-> "free"]
  <2>1. JobEnded(c, "disconnecting", r)
    BY <1>4 DEF Disconnected, Return
  <2>2. job[c] = "disconnecting" /\ job \in [Callers -> Jobs]
    BY <1>0, <2>1 DEF JobEnded, TuiPart
  <2>3. Reconnects(job) => Reconnects(busy)
    BY <2>2 DEF Reconnects
  <2> HIDE DEF busy
  <2>4. Kept(r, flight["scan"], flight["tick"], Reconnects(busy))
    <3>1. /\ m \in Model /\ Inside(m)
          /\ flight["scan"] = Count(m.scanning) /\ flight["scan"] \in Nat
          /\ (m.pendingConnect => m.scanning) /\ (m.inventoryRunning => flight["tick"] > 0)
      BY <1>0, PartFacts
    <3>2. m.connecting => Reconnects(busy)
      BY <1>0, <2>3, PartFacts
    <3>3. Quieter(m, m)
      BY <3>1, OffIsQuieter
    <3>4. QED
      BY <3>1, <3>2, <3>3, QuieterIsKept
  <2> HIDE DEF r
  <2>5. QED
    BY <2>1, <2>4, JobEndedKeeps DEF busy
<1>5. QED
  BY <1>1, <1>2, <1>3, <1>4

\* Steps of the transport leave the Model alone.
LEMMA ModelSame ==
    ASSUME TuiInv, TransportInv', UNCHANGED <<m, flight, waits, keys>>,
           (errs \subseteq Sessions)', job' \in [Callers -> Jobs],
           Reconnects(job) => Reconnects(job')
    PROVE  TuiInv'
<1>1. TuiPart'
  BY Parts DEF TuiPart, ScanIsRunning, ReadingTicks, PlanInside, Inside, ConnectingRuns, Reconnects
<1>2. QED
  BY <1>1, Parts, Whole

LEMMA CallerStepKeeps ==
    ASSUME TuiInv, NEW c \in Callers, CallerStep(c)
    PROVE  TuiInv'
<1>0. TransportInv /\ errs \subseteq Sessions /\ job \in [Callers -> Jobs]
  BY Parts DEF TuiInv, TuiPart
<1>1. CASE Connected(c) \/ ConnectFails(c) \/ Disconnected(c)
  BY <1>1, JobMessageKeeps
<1>2. CASE JobBegins(c)
  <2>1. PICK reconnect \in BOOLEAN : Disconnect(c, reconnect)
    BY <1>2 DEF JobBegins
  <2>2. TransportInv'
    BY <1>0, <2>1, TransportStep DEF Next
  <2>3. PICK j \in {"reconnecting", "disconnecting"} :
          /\ job' = [job EXCEPT ![c] = j]
          /\ job[c] = "reconnect" => j = "reconnecting"
          /\ job[c] \in {"reconnect", "disconnect"}
    BY <1>2 DEF JobBegins
  <2>4. job' \in [Callers -> Jobs] /\ (Reconnects(job) => Reconnects(job'))
    BY <1>0, <2>3 DEF Reconnects, Jobs
  <2>5. UNCHANGED <<m, flight, waits, errs, keys>>
    BY <1>2 DEF JobBegins
  <2>6. QED
    BY <1>0, <2>2, <2>4, <2>5, ModelSame
<1>3. CASE JobStep(c)
  <2>1. CallStep(c)
    BY <1>3 DEF JobStep, JobDials, CallStep
  <2>2. TransportInv'
    BY <1>0, <2>1, TransportStep DEF Next
  <2>3. UNCHANGED <<m, flight, waits, job, keys>> /\ (errs \subseteq Sessions)'
    BY <1>0, <1>3 DEF JobStep, JobDials, tuiVars
  <2>4. QED
    BY <1>0, <2>2, <2>3, ModelSame DEF Reconnects
<1>4. QED
  BY <1>1, <1>2, <1>3 DEF CallerStep

LEMMA SessionStepKeeps ==
    ASSUME TuiInv, NEW s \in Sessions, SessionStep(s)
    PROVE  TuiInv'
<1>0. TransportInv /\ errs \subseteq Sessions /\ job \in [Callers -> Jobs]
  BY Parts DEF TuiInv, TuiPart
<1>1. LoopStep(s)
  BY DEF SessionStep, LoopStep
<1>2. TransportInv'
  BY <1>0, <1>1, TransportStep DEF Next
<1>3. UNCHANGED <<m, flight, waits, job, keys>> /\ (errs \subseteq Sessions)'
  BY <1>0 DEF SessionStep, tuiVars
<1>4. QED
  BY <1>0, <1>2, <1>3, ModelSame DEF Reconnects

LEMMA TuiStep == TuiInv /\ [TuiNext]_allVars => TuiInv'
<1> SUFFICES ASSUME TuiInv, [TuiNext]_allVars PROVE TuiInv'
  OBVIOUS
<1>1. CASE UNCHANGED allVars
  <2>1. UNCHANGED vars /\ UNCHANGED <<m, flight, waits, job, errs, keys>>
    BY <1>1 DEF allVars, tuiVars
  <2>2. TransportInv'
    BY <2>1, TransportSame DEF TuiInv
  <2>3. QED
    BY <2>1, <2>2, ModelSame, Parts DEF TuiPart, Reconnects
<1>2. CASE KeyPressed \/ MessageStep
  BY <1>2, KeyPressedKeeps, MessageStepKeeps
<1>3. ASSUME NEW c \in Callers, CallerStep(c) PROVE TuiInv'
  BY <1>3, CallerStepKeeps
<1>4. ASSUME NEW s \in Sessions, SessionStep(s) PROVE TuiInv'
  BY <1>4, SessionStepKeeps
<1>5. QED
  BY <1>1, <1>2, <1>3, <1>4 DEF TuiNext

LEMMA TuiInvariant == TuiSpec => []TuiInv
  BY TuiStart, TuiStep, PTL DEF TuiSpec

-----------------------------------------------------------------------------
\* Update, its commands and the client keep their types, and no more messages are
\* handled than were sent.
THEOREM TuiTypeCorrect == TuiSpec => []TuiTypeOK
<1>1. TuiInv => TuiTypeOK
  BY DEF TuiInv
<1>2. QED
  BY <1>1, TuiInvariant, PTL

\* One scan runs while the screen says so, and none otherwise: rescans, quick
\* connects and the scan that an action asks for never start a second one, and a
\* connect never waits for a scan that is over.
THEOREM ScansAreRunning == TuiSpec => []ScanIsRunning
<1>1. TuiInv => ScanIsRunning
  BY DEF TuiInv
<1>2. QED
  BY <1>1, TuiInvariant, PTL

\* Whatever switched reading on, a start key or a connect that an action waited
\* for, the tick that sends the inventory command is never lost.
THEOREM ReadingHasTick == TuiSpec => []ReadingTicks
<1>1. TuiInv => ReadingTicks
  BY DEF TuiInv
<1>2. QED
  BY <1>1, TuiInvariant, PTL

\* The screen shows a connect only as long as a reconnect command has yet to give
\* its message: errors and probe timeouts that belong to an earlier session, and
\* disconnects, do not leave it on.
THEOREM ConnectingIsRunning == TuiSpec => []ConnectingRuns
<1>1. TuiInv => ConnectingRuns
  BY DEF TuiInv
<1>2. QED
  BY <1>1, TuiInvariant, PTL

\* reconnectCmd is never given an endpoint past the end of the plan, however many
\* failures, probe timeouts and reader errors each move the plan on.
THEOREM PlanStaysInside == TuiSpec => []PlanInside
<1>1. TuiInv => PlanInside
  BY DEF TuiInv
<1>2. QED
  BY <1>1, TuiInvariant, PTL

\* The plan that a terminal works through has its next endpoint inside and no
\* endpoint twice: a reader that refused is not asked again by the same plan.
THEOREM PlanIsSound == TuiSpec => []PlanSound
<1>1. TuiInv => PlanSound
  <2> SUFFICES ASSUME TuiInv, m.connectQueue # <<>>
               PROVE  /\ m.connectAttempt < Len(m.connectQueue)
                      /\ IsInjective(m.connectQueue)
    BY DEF PlanSound
  <2>1. m.connectQueue \in Plans
    BY DEF TuiInv, TuiTypeOK, Model
  <2>2. PICK r \in ScanResults : \E i \in DOMAIN r : m.connectQueue = PlanOf[r][i]
    BY <2>1 DEF Plans
  <2>3. QED
    BY <2>2, PlanFacts DEF TuiInv, PlanInside, Inside
<1>2. QED
  BY <1>1, TuiInvariant, PTL

\* The commands of the terminal program overlap: any number of connects and
\* disconnects run at once, and still the client's session is the one that is read.
THEOREM TuiReadsOneSession == TuiSpec => []SessionExact
<1>1. TuiInv => SessionExact
  BY DEF TuiInv, TransportInv
<1>2. QED
  BY <1>1, TuiInvariant, PTL

-----------------------------------------------------------------------------
(***************************************************************************)
(* Who waits for the packets.  A caller that connects runs a reconnect     *)
(* command, so its message, whose handler waits, is still to come when it  *)
(* has registered a session.                                               *)
(***************************************************************************)
JobInv ==
    \A c \in Callers :
      /\ again[c] => job[c] = "reconnecting"
      /\ pc[c] \in {"check", "dial", "register"} => again[c]
      /\ pc[c] # "idle" => job[c] \in {"reconnecting", "disconnecting"}

\* The caller whose message says that it connected.
Connects(c) == job[c] = "reconnecting" /\ pc[c] = "idle" /\ answer[c] = "ok"

\* The command that waits for a session which is not read is told so and waits again.
Waiting(s) ==
    \E x \in Sessions \cup {None} :
      waits["packets"][x] > 0 /\ (x \in Sessions \ {s} => loop[x] # "reading")

LEMMA WatchedIs ==
    SessionWatched <=> \A s \in Sessions : session = s /\ loop[s] = "reading" =>
                         Waiting(s) \/ \E c \in Callers : Connects(c)
  BY DEF SessionWatched, Waiting, Connects

WatchInv == JobInv /\ SessionWatched

LEMMA WatchStart == TuiInit => WatchInv
  BY DEF TuiInit, Init, WatchInv, JobInv, SessionWatched

\* What JobInv says of a caller that runs this command.
Runs(c, command, reconnect) ==
    /\ reconnect => command = "reconnecting"
    /\ pc[c] \in {"check", "dial", "register"} => reconnect
    /\ pc[c] # "idle" => command \in {"reconnecting", "disconnecting"}

\* A handler's result gives a command to a caller that has none.
LEMMA JobsReturned ==
    ASSUME NEW busy \in [Callers -> Jobs], \A c \in Callers : Runs(c, busy[c], again'[c]),
           pc' = pc, NEW r, NEW handled, NEW heard, Returned(r, handled, heard, busy)
    PROVE  JobInv'
<1>1. CASE job' = busy
  BY <1>1 DEF JobInv, Runs
<1>2. ASSUME NEW c \in Callers, busy[c] = "free", job' = [busy EXCEPT ![c] = r.job]
      PROVE  JobInv'
  <2>1. ~again'[c] /\ pc[c] = "idle"
    BY <1>2 DEF Runs
  <2>2. \A d \in Callers : d # c => job'[d] = busy[d]
    BY <1>2
  <2>3. QED
    BY <2>1, <2>2 DEF JobInv, Runs
<1>3. QED
  BY <1>1, <1>2 DEF Returned

\* What was waited for still is, where each packet command that was heard is
\* started again.
LEMMA WatchReturned ==
    ASSUME TuiInv, SessionWatched, NEW r, NEW handled, NEW heard, NEW busy,
           Returned(r, handled, heard, busy), session' = session, loop' = loop,
           \A x \in Sessions \cup {None} :
             <<"packets", x>> \in heard => waits["packets"][x] > 0 /\ (session # None => "packets" \in r.cmds),
           \/ "packets" \in r.cmds
           \/ \A c \in Callers : Connects(c) => busy[c] = job[c] /\ pc'[c] = pc[c] /\ answer'[c] = answer[c],
           busy \in [Callers -> Jobs]
    PROVE  SessionWatched'
<1> SUFFICES ASSUME NEW s \in Sessions, session = s, loop[s] = "reading"
             PROVE  Waiting(s)' \/ \E c \in Callers : Connects(c)'
  BY DEF SessionWatched, Waiting, Connects
<1>0. /\ waits \in [Channels -> [Sessions \cup {None} -> Nat]] /\ "packets" \in Channels
      /\ s # None
  BY NoneAssumption DEF TuiInv, TuiTypeOK, Channels
<1>1. \A x \in Sessions \cup {None} :
        waits'["packets"][x] = waits["packets"][x] - Count(<<"packets", x>> \in heard)
                                                   + Count(x = s /\ "packets" \in r.cmds)
  BY <1>0 DEF Returned
<1>2. CASE "packets" \in r.cmds
  <2>1. waits["packets"][s] - Count(<<"packets", s>> \in heard) \in Nat
    BY <1>0 DEF Count
  <2>2. waits'["packets"][s] > 0
    BY <1>1, <1>2, <2>1 DEF Count
  <2>3. QED
    BY <2>2 DEF Waiting
<1>3. CASE "packets" \notin r.cmds
  <2>1. ASSUME NEW x \in Sessions \cup {None} PROVE waits'["packets"][x] = waits["packets"][x]
    <3>1. <<"packets", x>> \notin heard
      BY <1>0, <1>3
    <3>2. waits["packets"][x] \in Nat
      BY <1>0
    <3>3. Count(<<"packets", x>> \in heard) = 0 /\ Count(x = s /\ "packets" \in r.cmds) = 0
      BY <1>3, <3>1 DEF Count
    <3>4. QED
      BY <1>1, <3>2, <3>3
  <2>2. ASSUME Waiting(s) PROVE Waiting(s)'
    BY <2>1, <2>2 DEF Waiting
  <2>3. ASSUME NEW c \in Callers, Connects(c) PROVE Connects(c)'
    <3>1. busy[c] = "reconnecting" /\ pc'[c] = "idle" /\ answer'[c] = "ok"
      BY <1>3, <2>3 DEF Connects
    <3>2. job'[c] = busy[c]
      BY <3>1 DEF Returned
    <3>3. QED
      BY <3>1, <3>2 DEF Connects
  <2>4. QED
    BY <2>2, <2>3, WatchedIs
<1>4. QED
  BY <1>2, <1>3

\* A message, a key, or what is heard on a channel.
LEMMA HandledWatches ==
    ASSUME TuiInv, WatchInv, NEW r, NEW handled, NEW heard, Returned(r, handled, heard, job),
           UNCHANGED vars,
           \A x \in Sessions \cup {None} :
             <<"packets", x>> \in heard => waits["packets"][x] > 0 /\ (session # None => "packets" \in r.cmds)
    PROVE  WatchInv'
<1>1. /\ job \in [Callers -> Jobs] /\ again \in [Callers -> BOOLEAN]
      /\ UNCHANGED <<session, loop, pc, again, answer>>
  BY DEF TuiInv, TuiTypeOK, TypeOK, vars, sessionVars, callerVars
<1>2. SessionWatched'
  BY <1>1, WatchReturned DEF WatchInv
<1>3. JobInv'
  <2>1. \A c \in Callers : Runs(c, job[c], again'[c])
    BY <1>1 DEF WatchInv, JobInv, Runs
  <2>2. QED
    BY <1>1, <2>1, JobsReturned
<1>4. QED
  BY <1>2, <1>3 DEF WatchInv

LEMMA MessageStepWatches ==
    ASSUME TuiInv, WatchInv, MessageStep
    PROVE  WatchInv'
<1>1. ASSUME NEW kind, NEW r, Message(kind, r) PROVE WatchInv'
  BY <1>1, HandledWatches DEF Message
<1>2. CASE ScanFails \/ ScanFinished \/ InventoryTick \/ ProbeTimeout \/ InventoryError \/ ProbeSent
  BY <1>1, <1>2 DEF ScanFails, ScanFinished, InventoryTick, ProbeTimeout, InventoryError, ProbeSent
<1>3. ASSUME NEW s \in Sessions, ReaderErr(s) PROVE WatchInv'
  <2>1. Returned(OnReaderErr(m), {}, {<<"errors", s>>}, job) /\ UNCHANGED vars
    BY <1>3 DEF ReaderErr, Heard
  <2>2. \A x \in Sessions \cup {None} : <<"packets", x>> \notin {<<"errors", s>>}
    OBVIOUS
  <2>3. QED
    BY <2>1, <2>2, HandledWatches
<1>4. ASSUME NEW s \in Sessions, NEW frame \in BOOLEAN, Packet(s, frame) PROVE WatchInv'
  <2> DEFINE r == Return([m EXCEPT !.awaitingProbe = @ /\ ~frame], {"packets"})
  <2>1. /\ Returned(r, {}, {<<"packets", s>>}, job) /\ UNCHANGED vars
        /\ waits["packets"][s] > 0
    BY <1>4 DEF Packet, Heard
  <2>2. "packets" \in r.cmds
    BY DEF Return
  <2> HIDE DEF r
  <2>3. \A x \in Sessions \cup {None} : <<"packets", x>> \in {<<"packets", s>>} =>
          waits["packets"][x] > 0 /\ "packets" \in r.cmds
    BY <2>1, <2>2
  <2>4. QED
    BY <2>1, <2>3, HandledWatches
<1>5. ASSUME NEW ch \in Channels, NEW s \in Sessions \cup {None}, ChannelClosed(ch, s) PROVE WatchInv'
  <2> DEFINE r == Return(m, IF session = None THEN {} ELSE {ch})
  <2>1. /\ Returned(r, {}, {<<ch, s>>}, job) /\ UNCHANGED vars
        /\ waits[ch][s] > 0
    BY <1>5 DEF ChannelClosed, Heard
  <2>2. session # None => ch \in r.cmds
    BY DEF Return
  <2> HIDE DEF r
  <2>3. \A x \in Sessions \cup {None} : <<"packets", x>> \in {<<ch, s>>} =>
          waits["packets"][x] > 0 /\ (session # None => "packets" \in r.cmds)
    BY <2>1, <2>2
  <2>4. QED
    BY <2>1, <2>3, HandledWatches
<1>6. QED
  BY <1>2, <1>3, <1>4, <1>5 DEF MessageStep

LEMMA KeyPressedWatches ==
    ASSUME TuiInv, WatchInv, KeyPressed
    PROVE  WatchInv'
<1>1. PICK r : Key(r)
  BY DEF KeyPressed
<1>2. QED
  BY <1>1, HandledWatches DEF Key

\* The message of a connect waits; that of another command is not the one that a
\* session is waiting for.
LEMMA JobMessageWatches ==
    ASSUME TuiInv, WatchInv, NEW c \in Callers, Connected(c) \/ ConnectFails(c) \/ Disconnected(c)
    PROVE  WatchInv'
<1>1. PICK r, j : /\ JobEnded(c, j, r)
                  /\ "packets" \in r.cmds \/ ~Connects(c)
  <2>1. CASE Connected(c)
    <3>1. "packets" \in OnConnected(m).cmds
      BY DEF OnConnected, Return, Channels
    <3>2. QED
      BY <2>1, <3>1 DEF Connected
  <2>2. CASE ConnectFails(c)
    BY <2>2 DEF ConnectFails, Connects
  <2>3. CASE Disconnected(c)
    <3>1. PICK r : JobEnded(c, "disconnecting", r)
      BY <2>3 DEF Disconnected
    <3>2. ~Connects(c)
      BY <3>1 DEF JobEnded, Connects
    <3>3. QED
      BY <3>1, <3>2
  <2>4. QED
    BY <2>1, <2>2, <2>3
<1> DEFINE busy == [job EXCEPT ![c] = "free"]
<1>2. /\ job \in [Callers -> Jobs] /\ again \in [Callers -> BOOLEAN]
      /\ answer \in [Callers -> {"none", "ok", "dial error", "already connected", "close error"}]
  BY DEF TuiInv, TuiTypeOK, TypeOK
<1>3. /\ pc[c] = "idle" /\ Returned(r, {}, {}, busy)
      /\ answer' = [answer EXCEPT ![c] = "none"] /\ again' = [again EXCEPT ![c] = FALSE]
      /\ UNCHANGED <<session, loop, pc>>
  BY <1>1 DEF JobEnded, Answer, sessionVars
<1>4. /\ busy \in [Callers -> Jobs]
      /\ \A d \in Callers : d # c => busy[d] = job[d] /\ answer'[d] = answer[d]
  BY <1>2, <1>3 DEF Jobs
<1>5. JobInv'
  <2>1. ASSUME NEW d \in Callers PROVE Runs(d, busy[d], again'[d])
    <3>1. CASE d = c
      BY <1>2, <1>3, <3>1 DEF Runs
    <3>2. CASE d # c
      BY <1>2, <1>3, <3>2 DEF WatchInv, JobInv, Runs
    <3>3. QED
      BY <3>1, <3>2
  <2> HIDE DEF busy
  <2>2. QED
    BY <1>3, <1>4, <2>1, JobsReturned
<1> HIDE DEF busy
<1>6. SessionWatched'
  <2>1. \/ "packets" \in r.cmds
        \/ \A d \in Callers : Connects(d) =>
             busy[d] = job[d] /\ pc'[d] = pc[d] /\ answer'[d] = answer[d]
    BY <1>1, <1>3, <1>4
  <2>2. \A x \in Sessions \cup {None} : <<"packets", x>> \notin {}
    OBVIOUS
  <2>3. QED
    BY <1>3, <1>4, <2>1, <2>2, WatchReturned DEF WatchInv
<1>7. QED
  BY <1>5, <1>6 DEF WatchInv

\* Steps that leave the commands, the session and the loops alone, of a caller
\* that is busy.
LEMMA CallWatches ==
    ASSUME SessionWatched, NEW c \in Callers, ~Connects(c), UNCHANGED <<session, loop, waits>>,
           \A d \in Callers : d # c => job'[d] = job[d] /\ pc'[d] = pc[d] /\ answer'[d] = answer[d]
    PROVE  SessionWatched'
<1> SUFFICES ASSUME NEW s \in Sessions, session = s, loop[s] = "reading"
             PROVE  Waiting(s)' \/ \E d \in Callers : Connects(d)'
  BY DEF SessionWatched, Waiting, Connects
<1>1. Waiting(s) => Waiting(s)'
  BY DEF Waiting
<1>2. ASSUME NEW d \in Callers, Connects(d) PROVE Connects(d)'
  BY <1>2 DEF Connects
<1>3. QED
  BY <1>1, <1>2, WatchedIs

LEMMA JobBeginsWatches ==
    ASSUME TuiInv, WatchInv, NEW c \in Callers, JobBegins(c)
    PROVE  WatchInv'
<1>1. /\ job \in [Callers -> Jobs] /\ again \in [Callers -> BOOLEAN] /\ pc \in [Callers -> CallerPc]
      /\ answer \in [Callers -> {"none", "ok", "dial error", "already connected", "close error"}]
  BY DEF TuiInv, TuiTypeOK, TypeOK
<1>2. PICK reconnect \in BOOLEAN :
        /\ Disconnect(c, reconnect)
        /\ job' = [job EXCEPT ![c] = IF reconnect THEN "reconnecting" ELSE "disconnecting"]
        /\ job[c] \in {"reconnect", "disconnect"}
  BY DEF JobBegins
<1>3. /\ again' = [again EXCEPT ![c] = reconnect]
      /\ pc' = [pc EXCEPT ![c] = IF session # None THEN "close" ELSE IF reconnect THEN "check" ELSE "idle"]
      /\ answer' = [answer EXCEPT ![c] = "none"]
      /\ UNCHANGED <<session, loop>>
  BY <1>2 DEF Disconnect, Goto, Answer, sessionVars
<1>4. \A d \in Callers : d # c => /\ job'[d] = job[d] /\ pc'[d] = pc[d]
                                  /\ answer'[d] = answer[d] /\ again'[d] = again[d]
  BY <1>1, <1>2, <1>3
<1>5. JobInv'
  <2>1. /\ again'[c] = reconnect /\ job'[c] = IF reconnect THEN "reconnecting" ELSE "disconnecting"
        /\ pc'[c] \in {"close", "idle"} \/ (pc'[c] = "check" /\ reconnect)
    BY <1>1, <1>2, <1>3
  <2>2. QED
    BY <1>4, <2>1 DEF WatchInv, JobInv
<1>6. SessionWatched'
  BY <1>2, <1>3, <1>4, CallWatches DEF WatchInv, Connects, JobBegins
<1>7. QED
  BY <1>5, <1>6 DEF WatchInv

LEMMA JobStepWatches ==
    ASSUME TuiInv, WatchInv, NEW c \in Callers, JobStep(c)
    PROVE  WatchInv'
<1>1. /\ job \in [Callers -> Jobs] /\ again \in [Callers -> BOOLEAN] /\ pc \in [Callers -> CallerPc]
      /\ held \in [Callers -> Sessions \cup {None}] /\ loop \in [Sessions -> LoopPc]
      /\ answer \in [Callers -> {"none", "ok", "dial error", "already connected", "close error"}]
  BY DEF TuiInv, TuiTypeOK, TypeOK
<1>2. UNCHANGED <<job, waits, again>>
  BY DEF JobStep, JobDials, tuiVars, CheckSession, DialFails, Register, CloseConn, Waited, Dialed, Leave
<1>3. PICK from \in CallerPc \ {"idle"}, to \in CallerPc :
        /\ Goto(c, from, to)
        /\ to \in {"dial", "register"} => from \in {"check", "dial"}
        /\ to = "check" => again[c]
  <2> USE DEF CallerPc
  <2>1. CASE CheckSession(c)
    BY <2>1 DEF CheckSession
  <2>2. CASE DialFails(c)
    BY <2>2 DEF DialFails
  <2>3. CASE Register(c)
    BY <2>3 DEF Register
  <2>4. CASE CloseConn(c)
    BY <2>4 DEF CloseConn, Leave, AfterDisconnect
  <2>5. CASE Waited(c)
    BY <2>5 DEF Waited, Leave, AfterDisconnect
  <2>6. ASSUME NEW s \in Sessions, JobDials(c, s) PROVE Goto(c, "dial", "register")
    BY <2>6 DEF JobDials, Dialed
  <2>7. QED
    BY <2>1, <2>2, <2>3, <2>4, <2>5, <2>6 DEF JobStep
<1>4. /\ pc[c] = from /\ pc'[c] = to /\ from # "idle"
      /\ \A d \in Callers : d # c => pc'[d] = pc[d]
  BY <1>1, <1>3 DEF Goto
<1>5. JobInv'
  BY <1>2, <1>3, <1>4 DEF WatchInv, JobInv
<1>6. \A d \in Callers : d # c => answer'[d] = answer[d]
  <2>1. answer' = answer \/ \E a : answer' = [answer EXCEPT ![c] = a]
    BY DEF JobStep, JobDials, CheckSession, DialFails, Register, CloseConn, Waited, Dialed, Answer
  <2>2. QED
    BY <1>1, <2>1
<1>7. SessionWatched'
  <2>1. CASE Register(c) /\ session = None
    <3>1. /\ session' = held[c] /\ answer' = [answer EXCEPT ![c] = "ok"] /\ pc' = [pc EXCEPT ![c] = "idle"]
          /\ pc[c] = "register"
      BY <2>1 DEF Register, Answer, Goto
    <3>2. job[c] = "reconnecting"
      BY <3>1 DEF WatchInv, JobInv
    <3>3. Connects(c)'
      BY <1>1, <1>2, <3>1, <3>2 DEF Connects
    <3>4. QED
      BY <3>3 DEF SessionWatched, Connects
  <2>2. CASE ~(Register(c) /\ session = None)
    <3>1. UNCHANGED <<session, loop>>
      BY <2>2 DEF JobStep, JobDials, CheckSession, DialFails, Register, CloseConn, Waited, Dialed,
                  sessionVars
    <3>2. QED
      BY <1>2, <1>4, <1>6, <3>1, CallWatches DEF WatchInv, Connects
  <2>3. QED
    BY <2>1, <2>2
<1>8. QED
  BY <1>5, <1>7 DEF WatchInv

LEMMA SessionStepWatches ==
    ASSUME TuiInv, WatchInv, NEW s \in Sessions, SessionStep(s)
    PROVE  WatchInv'
<1>1. loop \in [Sessions -> LoopPc]
  BY DEF TuiInv, TuiTypeOK, TypeOK
<1>2. /\ UNCHANGED <<job, waits, pc, answer, again>>
      /\ session' \in {session, None}
  BY DEF SessionStep, tuiVars, ReadFails, CloseChannels, Unregister, callerVars
<1>3. \A x \in Sessions : loop'[x] = "reading" => loop[x] = "reading"
  <2>1. PICK to \in LoopPc \ {"reading"} : loop' = [loop EXCEPT ![s] = to]
    BY DEF SessionStep, ReadFails, CloseChannels, Unregister, LGoto, LoopPc
  <2>2. QED
    BY <1>1, <2>1
<1>4. JobInv'
  BY <1>2 DEF WatchInv, JobInv
<1>5. SessionWatched'
  <2> SUFFICES ASSUME NEW x \in Sessions, session' = x, loop'[x] = "reading"
               PROVE  Waiting(x)' \/ \E c \in Callers : Connects(c)'
    BY DEF SessionWatched, Waiting, Connects
  <2>1. session = x /\ loop[x] = "reading"
    BY <1>2, <1>3, NoneAssumption
  <2>2. Waiting(x) => Waiting(x)'
    BY <1>2, <1>3 DEF Waiting
  <2>3. \A c \in Callers : Connects(c) => Connects(c)'
    BY <1>2 DEF Connects
  <2>4. QED
    BY <2>1, <2>2, <2>3, WatchedIs DEF WatchInv
<1>6. QED
  BY <1>4, <1>5 DEF WatchInv

LEMMA WatchStep == TuiInv /\ WatchInv /\ [TuiNext]_allVars => WatchInv'
<1> SUFFICES ASSUME TuiInv, WatchInv, [TuiNext]_allVars PROVE WatchInv'
  OBVIOUS
<1>1. CASE UNCHANGED allVars
  BY <1>1 DEF allVars, vars, sessionVars, callerVars, tuiVars, WatchInv, JobInv, SessionWatched
<1>2. CASE KeyPressed \/ MessageStep
  BY <1>2, KeyPressedWatches, MessageStepWatches
<1>3. ASSUME NEW c \in Callers, CallerStep(c) PROVE WatchInv'
  BY <1>3, JobMessageWatches, JobBeginsWatches, JobStepWatches DEF CallerStep
<1>4. ASSUME NEW s \in Sessions, SessionStep(s) PROVE WatchInv'
  BY <1>4, SessionStepWatches
<1>5. QED
  BY <1>1, <1>2, <1>3, <1>4 DEF TuiNext

\* The reader's packets are not left unread: while a session is read, a command
\* waits for its packets, or one waits for a session that is over and will be told
\* so, or the message of the connect that made it is still to be handled.
THEOREM SessionIsWatched == TuiSpec => []SessionWatched
<1>1. TuiSpec => []WatchInv
  BY WatchStart, WatchStep, TuiInvariant, PTL DEF TuiSpec
<1>2. WatchInv => SessionWatched
  BY DEF WatchInv
<1>3. QED
  BY <1>1, <1>2, PTL
=============================================================================
