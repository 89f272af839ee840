---------------------------- MODULE DiscoveryProofs ----------------------------
(***************************************************************************)
(* Proofs about Discovery, for every network, every list of ports and      *)
(* every number of workers, with a context that may end at any moment.     *)
(***************************************************************************)
EXTENDS Discovery, TLAPS

\* What answers among the targets.
Answering == ToSet(Targets) \cap DOMAIN Found

\* A worker with a target in hand took it from the producer.
InHand ==
    \A w \in Workers :
      /\ wpc[w] \in {"probe", "result"} => at[w] \in 1..sent
      /\ wpc[w] = "result" => Targets[at[w]] \in DOMAIN Found

\* Why a goroutine has ended.
Ended ==
    /\ jobsClosed => sent = Len(Targets) \/ ctxDone
    /\ \A w \in Workers : wpc[w] = "done" => jobsClosed \/ ctxDone
    /\ answer # "none" => resultsClosed

\* No endpoint is collected twice.
ListedOnce == IsInjective(candidates)

\* Only what answers is ever reported.
OnlyAnswering == ToSet(results) \cup ToSet(candidates) \subseteq Answering

\* Target i is accounted for: nothing answers there, or it is on its way to the list.
Accounted(i) ==
    \/ Targets[i] \notin DOMAIN Found
    \/ \E w \in Workers : at[w] = i /\ wpc[w] \in {"probe", "result"}
    \/ \E k \in DOMAIN results : results[k] = Targets[i]
    \/ \E k \in DOMAIN candidates : candidates[k] = Targets[i]

PoolInv ==
    /\ TypeOK /\ ClosedIsQuiet /\ ListedOnce /\ InHand /\ Ended /\ OnlyAnswering
    /\ answer = "none" /\ ~ctxDone => \A i \in 1..sent : Accounted(i)
    /\ ScanComplete

PoolStep == \/ \E w \in Workers : WorkerStep(w)
            \/ CloseJobs \/ CloseResults \/ Collect \/ Return \/ Cancel

LEMMA TargetsLen == Len(Targets) \in Nat /\ DOMAIN Targets = 1..Len(Targets)
  BY TargetsAssumption

LEMMA PoolInit == Init => PoolInv
<1> SUFFICES ASSUME Init PROVE PoolInv
  OBVIOUS
<1>1. TypeOK
  <2>1. <<>> \in Seq(DOMAIN Found) /\ Len(<<>>) = 0
    OBVIOUS
  <2>2. 0 \in 0..Len(Targets) /\ 0 <= Capacity
    BY TargetsLen, CapacityAssumption
  <2>3. QED
    BY <2>1, <2>2, Zenon DEF Init, TypeOK
<1>2. ClosedIsQuiet /\ ListedOnce /\ InHand /\ Ended /\ ScanComplete
  BY DEF Init, ClosedIsQuiet, ListedOnce, InHand, Ended, ScanComplete, IsInjective
<1>3. OnlyAnswering /\ \A i \in 1..sent : Accounted(i)
  BY DEF Init, OnlyAnswering, ToSet
<1>4. QED
  BY <1>1, <1>2, <1>3 DEF PoolInv

\* The channel of results.
LEMMA AppendSeq ==
    ASSUME NEW S, NEW s \in Seq(S), NEW x \in S
    PROVE  /\ Append(s, x) \in Seq(S)
           /\ DOMAIN Append(s, x) = 1..(Len(s) + 1)
           /\ \A k \in DOMAIN s : k \in DOMAIN Append(s, x) /\ Append(s, x)[k] = s[k]
           /\ Append(s, x)[Len(s) + 1] = x
           /\ ToSet(Append(s, x)) = ToSet(s) \cup {x}
  BY DEF ToSet

LEMMA SameLength ==
    ASSUME NEW S, NEW s \in Seq(S), NEW t, DOMAIN t = DOMAIN s,
           \A i \in DOMAIN s : t[i] \in S, t = [i \in DOMAIN s |-> t[i]]
    PROVE  t \in Seq(S)
<1>1. DOMAIN s = 1..Len(s) /\ Len(s) \in Nat
  OBVIOUS
<1>2. t \in [1..Len(s) -> S]
  BY <1>1
<1>3. QED
  BY <1>1, <1>2

LEMMA TailSeq ==
    ASSUME NEW S, NEW s \in Seq(S), s # <<>>
    PROVE  /\ Tail(s) \in Seq(S) /\ Head(s) \in S /\ Len(Tail(s)) = Len(s) - 1
           /\ Head(s) = s[1]
           /\ \A k \in DOMAIN s : k # 1 => k - 1 \in DOMAIN Tail(s) /\ Tail(s)[k - 1] = s[k]
           /\ ToSet(Tail(s)) \subseteq ToSet(s) /\ Head(s) \in ToSet(s)
<1>1. /\ Tail(s) \in Seq(S) /\ Len(Tail(s)) = Len(s) - 1 /\ Len(s) \in Nat \ {0}
      /\ \A k \in 1..(Len(s) - 1) : Tail(s)[k] = s[k + 1]
      /\ Head(s) = s[1] /\ DOMAIN s = 1..Len(s)
  OBVIOUS
<1>2. s[1] \in S
  BY <1>1
<1>3. QED
  BY <1>1, <1>2 DEF ToSet

\* The producer and the workers keep the types.
LEMMA PoolTypes ==
    ASSUME PoolInv, PoolStep PROVE TypeOK'
<1> USE DEF PoolInv, TypeOK, InHand, WGoto, poolVars
<1>1. ASSUME NEW w \in Workers, WorkerStep(w) PROVE TypeOK'
  <2>1. CASE SendJob(w)
    BY <2>1, TargetsLen DEF SendJob
  <2>2. CASE ProbeFails(w) \/ ProbeSucceeds(w) \/ GiveUp(w) \/ WorkerEnds(w)
    BY <2>2 DEF ProbeFails, ProbeSucceeds, GiveUp, WorkerEnds
  <2>3. CASE SendResult(w)
    <3>1. Targets[at[w]] \in DOMAIN Found
      BY <2>3 DEF SendResult
    <3>2. results' \in Seq(DOMAIN Found) /\ Len(results') <= Capacity
      BY <2>3, <3>1, CapacityAssumption DEF SendResult
    <3>3. QED
      BY <2>3, <3>2 DEF SendResult
  <2>4. QED
    BY <1>1, <2>1, <2>2, <2>3 DEF WorkerStep
<1>2. CASE CloseJobs \/ CloseResults \/ Cancel
  BY <1>2 DEF CloseJobs, CloseResults, Cancel
<1>3. CASE Collect
  <2>1. /\ results' \in Seq(DOMAIN Found) /\ Len(results') = Len(results) - 1
        /\ Head(results) \in DOMAIN Found
    BY <1>3, TailSeq DEF Collect
  <2>2. candidates' \in Seq(DOMAIN Found)
    <3>1. CASE Contains(candidates, Head(results))
      BY <1>3, <3>1 DEF Collect
    <3>2. CASE ~Contains(candidates, Head(results))
      BY <1>3, <2>1, <3>2, AppendSeq DEF Collect
    <3>3. QED
      BY <3>1, <3>2
  <2>3. QED
    BY <1>3, <2>1, <2>2, CapacityAssumption DEF Collect
<1>4. CASE Return
  <2>0. candidates \in Seq(DOMAIN Found)
    OBVIOUS
  <2>1. candidates' \in Seq(DOMAIN Found)
    <3>1. PICK order \in Bijection(DOMAIN candidates, DOMAIN candidates) :
            candidates' = [i \in DOMAIN candidates |-> candidates[order[i]]]
      BY <1>4 DEF Return
    <3>2. \A i \in DOMAIN candidates : order[i] \in DOMAIN candidates
      BY <3>1 DEF Bijection, Injection
    <3>3. \A i \in DOMAIN candidates : candidates'[i] \in DOMAIN Found
      BY <2>0, <3>1, <3>2
    <3>4. QED
      BY <2>0, <3>1, <3>3, SameLength
  <2>2. QED
    BY <1>4, <2>1 DEF Return
<1>5. QED
  BY <1>1, <1>2, <1>3, <1>4 DEF PoolStep

\* The workers and the two channels end in order.
LEMMA PoolEnds ==
    ASSUME PoolInv, PoolStep PROVE ClosedIsQuiet' /\ InHand' /\ Ended'
<1> USE DEF PoolInv, TypeOK, ClosedIsQuiet, InHand, Ended, WGoto, poolVars
<1>1. ASSUME NEW w \in Workers, WorkerStep(w) PROVE ClosedIsQuiet' /\ InHand' /\ Ended'
  <2>1. CASE SendJob(w)
    <3>1. /\ sent \in Nat /\ sent' = sent + 1 /\ ~jobsClosed /\ wpc[w] = "range"
          /\ wpc' = [wpc EXCEPT ![w] = "probe"] /\ at' = [at EXCEPT ![w] = sent + 1]
          /\ UNCHANGED <<ctxDone, jobsClosed, resultsClosed, answer>>
      BY <2>1, TargetsLen DEF SendJob
    <3>2. ClosedIsQuiet' /\ Ended'
      BY <3>1
    <3>3. ASSUME NEW v \in Workers
          PROVE  /\ wpc'[v] \in {"probe", "result"} => at'[v] \in 1..sent'
                 /\ wpc'[v] = "result" => Targets[at'[v]] \in DOMAIN Found
      <4>1. CASE v = w
        BY <3>1, <4>1
      <4>2. CASE v # w
        BY <3>1, <4>2
      <4>3. QED
        BY <4>1, <4>2
    <3>4. QED
      BY <3>2, <3>3
  <2>2. CASE ProbeFails(w) \/ ProbeSucceeds(w)
    BY <2>2 DEF ProbeFails, ProbeSucceeds
  <2>3. CASE SendResult(w)
    BY <2>3 DEF SendResult
  <2>4. CASE GiveUp(w) \/ WorkerEnds(w)
    <3>1. /\ wpc' = [wpc EXCEPT ![w] = "done"] /\ (jobsClosed \/ ctxDone)
          /\ UNCHANGED <<sent, at, ctxDone, jobsClosed, resultsClosed, answer>>
      BY <2>4 DEF GiveUp, WorkerEnds
    <3>2. QED
      BY <3>1
  <2>5. QED
    BY <1>1, <2>1, <2>2, <2>3, <2>4 DEF WorkerStep
<1>2. CASE CloseJobs \/ CloseResults \/ Cancel
  BY <1>2 DEF CloseJobs, CloseResults, Cancel
<1>3. CASE Collect \/ Return
  BY <1>3 DEF Collect, Return
<1>4. QED
  BY <1>1, <1>2, <1>3 DEF PoolStep

\* The list that is returned is the one that was collected, in another order.
LEMMA Reordered ==
    ASSUME NEW S, NEW s \in Seq(S), NEW p \in Bijection(DOMAIN s, DOMAIN s),
           NEW t, t = [i \in DOMAIN s |-> s[p[i]]]
    PROVE  ToSet(t) = ToSet(s) /\ (IsInjective(s) => IsInjective(t))
<1>1. /\ \A i \in DOMAIN s : p[i] \in DOMAIN s
      /\ \A i, k \in DOMAIN s : p[i] = p[k] => i = k
      /\ \A k \in DOMAIN s : \E i \in DOMAIN s : p[i] = k
  BY DEF Bijection, Injection, Surjection, IsInjective
<1>2. QED
  <2>1. DOMAIN t = DOMAIN s /\ \A i \in DOMAIN s : t[i] = s[p[i]]
    OBVIOUS
  <2>2. ASSUME NEW x PROVE x \in ToSet(t) <=> x \in ToSet(s)
    <3>1. ASSUME NEW i \in DOMAIN s, x = t[i] PROVE \E k \in DOMAIN s : x = s[k]
      BY <1>1, <2>1, <3>1, Zenon
    <3>2. ASSUME NEW k \in DOMAIN s, x = s[k] PROVE \E i \in DOMAIN s : x = t[i]
      <4>1. PICK i \in DOMAIN s : p[i] = k
        BY <1>1, Zenon
      <4>2. QED
        BY <2>1, <3>2, <4>1, Zenon
    <3>3. QED
      BY <2>1, <3>1, <3>2, Zenon DEF ToSet
  <2>3. ASSUME IsInjective(s), NEW i \in DOMAIN s, NEW k \in DOMAIN s, t[i] = t[k]
        PROVE  i = k
    <3>1. s[p[i]] = s[p[k]] /\ p[i] \in DOMAIN s /\ p[k] \in DOMAIN s
      BY <1>1, <2>1, <2>3, Zenon
    <3>2. p[i] = p[k]
      BY <2>3, <3>1, Zenon DEF IsInjective
    <3>3. QED
      BY <1>1, <3>2, Zenon
  <2>4. IsInjective(s) => IsInjective(t)
    BY <2>1, <2>3, Zenon DEF IsInjective
  <2>5. QED
    BY <2>2, <2>4

\* What is found is listed once, and nothing else is.
LEMMA PoolLists ==
    ASSUME PoolInv, PoolStep PROVE ListedOnce' /\ OnlyAnswering'
<1> USE DEF PoolInv, poolVars
<1>0. /\ results \in Seq(DOMAIN Found) /\ candidates \in Seq(DOMAIN Found)
      /\ DOMAIN candidates = 1..Len(candidates)
  BY DEF TypeOK
<1>1. ASSUME NEW w \in Workers, SendResult(w) PROVE ListedOnce' /\ OnlyAnswering'
  <2>1. /\ Targets[at[w]] \in DOMAIN Found /\ at[w] \in DOMAIN Targets
    BY <1>1, TargetsLen DEF SendResult, WGoto, InHand, TypeOK
  <2>2. Targets[at[w]] \in Answering
    BY <2>1 DEF Answering, ToSet
  <2>3. ToSet(results') = ToSet(results) \cup {Targets[at[w]]}
    BY <1>0, <1>1, <2>1, AppendSeq DEF SendResult
  <2>4. QED
    BY <1>1, <2>2, <2>3 DEF SendResult, ListedOnce, OnlyAnswering
<1>2. CASE Collect
  <2>1. /\ ToSet(results') \subseteq ToSet(results)
        /\ Head(results) \in ToSet(results) /\ Head(results) \in DOMAIN Found
    BY <1>0, <1>2, TailSeq DEF Collect
  <2>2. CASE Contains(candidates, Head(results))
    BY <1>2, <2>1, <2>2 DEF Collect, ListedOnce, OnlyAnswering
  <2>3. CASE ~Contains(candidates, Head(results))
    <3>1. candidates' = Append(candidates, Head(results))
      BY <1>2, <2>3 DEF Collect
    <3>2. ToSet(candidates') = ToSet(candidates) \cup {Head(results)}
      BY <1>0, <2>1, <3>1, AppendSeq
    <3>3. \A k \in DOMAIN candidates : candidates[k] # Head(results)
      BY <1>0, <2>3 DEF Contains
    <3>4. IsInjective(candidates')
      BY <1>0, <2>1, <3>1, <3>3 DEF IsInjective, ListedOnce
    <3>5. QED
      BY <2>1, <3>2, <3>4 DEF ListedOnce, OnlyAnswering
  <2>4. QED
    BY <2>2, <2>3
<1>3. CASE Return
  <2>1. ToSet(candidates') = ToSet(candidates) /\ IsInjective(candidates')
    BY <1>0, <1>3, Reordered DEF Return, ListedOnce
  <2>2. QED
    BY <1>3, <2>1 DEF Return, ListedOnce, OnlyAnswering
<1>4. CASE UNCHANGED <<results, candidates>>
  BY <1>4 DEF ListedOnce, OnlyAnswering
<1>5. QED
  BY <1>1, <1>2, <1>3, <1>4 DEF PoolStep, WorkerStep, SendJob, ProbeFails, ProbeSucceeds,
     GiveUp, WorkerEnds, CloseJobs, CloseResults, Cancel

\* Until the scan returns or the context ends, no target is lost.
LEMMA PoolAccounts ==
    ASSUME PoolInv, PoolStep, answer' = "none", ~ctxDone', NEW i \in 1..sent'
    PROVE  Accounted(i)'
<1> USE DEF PoolInv, poolVars
<1>0. /\ results \in Seq(DOMAIN Found) /\ candidates \in Seq(DOMAIN Found)
      /\ wpc \in [Workers -> {"range", "probe", "result", "done"}]
      /\ at \in [Workers -> 0..Len(Targets)] /\ sent \in 0..Len(Targets)
  BY DEF TypeOK
<1>1. answer = "none" /\ ~ctxDone
  BY <1>0 DEF PoolStep, WorkerStep, SendJob, ProbeFails, ProbeSucceeds, SendResult,
     GiveUp, WorkerEnds, CloseJobs, CloseResults, Collect, Return, Cancel
<1>2. ASSUME NEW w \in Workers, SendJob(w) PROVE Accounted(i)'
  <2>1. CASE i = sent + 1
    BY <1>0, <1>2, <2>1 DEF SendJob, WGoto, Accounted
  <2>2. CASE i # sent + 1
    <3>1. Accounted(i)
      BY <1>0, <1>1, <1>2, <2>2, TargetsLen DEF SendJob
    <3>2. QED
      BY <1>0, <1>2, <3>1 DEF SendJob, WGoto, Accounted
  <2>3. QED
    BY <2>1, <2>2
<1>3. ASSUME NEW w \in Workers,
             ProbeFails(w) \/ ProbeSucceeds(w) \/ GiveUp(w) \/ WorkerEnds(w)
      PROVE  Accounted(i)'
  <2>1. Accounted(i)
    BY <1>1, <1>3 DEF ProbeFails, ProbeSucceeds, GiveUp, WorkerEnds
  <2>2. QED
    BY <1>0, <1>1, <1>3, <2>1 DEF ProbeFails, ProbeSucceeds, GiveUp, WorkerEnds, WGoto, Accounted
<1>4. ASSUME NEW w \in Workers, SendResult(w) PROVE Accounted(i)'
  <2>1. Accounted(i)
    BY <1>1, <1>4 DEF SendResult
  <2>2. Targets[at[w]] \in DOMAIN Found
    BY <1>4 DEF SendResult, WGoto, InHand
  <2>3. /\ \A k \in DOMAIN results : k \in DOMAIN results' /\ results'[k] = results[k]
        /\ \E k \in DOMAIN results' : results'[k] = Targets[at[w]]
    BY <1>0, <1>4, <2>2, AppendSeq DEF SendResult
  <2>4. \A v \in Workers : v # w => wpc'[v] = wpc[v]
    BY <1>0, <1>4 DEF SendResult, WGoto
  <2>5. QED
    BY <1>4, <2>1, <2>3, <2>4 DEF SendResult, Accounted
<1>5. CASE CloseJobs \/ CloseResults \/ Cancel
  <2>1. Accounted(i)
    BY <1>1, <1>5 DEF CloseJobs, CloseResults, Cancel
  <2>2. QED
    BY <1>5, <2>1 DEF CloseJobs, CloseResults, Cancel, Accounted
<1>6. CASE Collect
  <2>1. Accounted(i)
    BY <1>1, <1>6 DEF Collect
  <2>2. /\ Head(results) = results[1] /\ Head(results) \in DOMAIN Found
        /\ \A k \in DOMAIN results :
             k # 1 => k - 1 \in DOMAIN results' /\ results'[k - 1] = results[k]
    BY <1>0, <1>6, TailSeq DEF Collect
  <2>3. /\ \A k \in DOMAIN candidates : k \in DOMAIN candidates' /\ candidates'[k] = candidates[k]
        /\ \E k \in DOMAIN candidates' : candidates'[k] = Head(results)
    <3>1. CASE Contains(candidates, Head(results))
      BY <1>0, <1>6, <3>1 DEF Collect, Contains
    <3>2. CASE ~Contains(candidates, Head(results))
      BY <1>0, <1>6, <2>2, <3>2, AppendSeq DEF Collect
    <3>3. QED
      BY <3>1, <3>2
  <2>4. UNCHANGED <<at, wpc>> /\ results # <<>>
    BY <1>6 DEF Collect
  <2>5. ASSUME NEW k \in DOMAIN results, results[k] = Targets[i] PROVE Accounted(i)'
    <3>1. CASE k = 1
      BY <2>2, <2>3, <2>5, <3>1 DEF Accounted
    <3>2. CASE k # 1
      BY <2>2, <2>5, <3>2 DEF Accounted
    <3>3. QED
      BY <3>1, <3>2
  <2>6. QED
    BY <2>1, <2>3, <2>4, <2>5 DEF Accounted
<1>7. CASE Return
  BY <1>7 DEF Return
<1>8. QED
  BY <1>2, <1>3, <1>4, <1>5, <1>6, <1>7 DEF PoolStep, WorkerStep

\* When the results are closed and read to the end, every target is in the list.
LEMMA PoolComplete ==
    ASSUME PoolInv, PoolStep, ListedOnce', OnlyAnswering' PROVE ScanComplete'
<1> USE DEF PoolInv, poolVars
<1>0. /\ results \in Seq(DOMAIN Found) /\ candidates \in Seq(DOMAIN Found)
      /\ wpc \in [Workers -> {"range", "probe", "result", "done"}]
  BY DEF TypeOK
<1>1. CASE Return /\ ~ctxDone
  <2>1. PICK w \in Workers : TRUE
    BY WorkersAssumption
  <2>2. \A v \in Workers : wpc[v] = "done"
    BY <1>1 DEF Return, ClosedIsQuiet
  <2>3. sent = Len(Targets)
    BY <1>1, <2>1, <2>2 DEF Ended
  <2>4. ASSUME NEW i \in DOMAIN Targets, Targets[i] \in DOMAIN Found
        PROVE  Targets[i] \in ToSet(candidates)
    <3>1. Accounted(i)
      BY <1>1, <2>3, TargetsLen DEF Return
    <3>2. DOMAIN results = {}
      BY <1>1 DEF Return
    <3>3. QED
      BY <2>2, <2>4, <3>1, <3>2 DEF Accounted, ToSet
  <2>5. ToSet(candidates') = ToSet(candidates)
    BY <1>0, <1>1, Reordered DEF Return
  <2>6. Answering \subseteq ToSet(candidates')
    BY <2>4, <2>5 DEF Answering, ToSet
  <2>7. QED
    BY <2>6 DEF ListedOnce, OnlyAnswering, Answering, ScanComplete
<1>2. CASE Return /\ ctxDone
  BY <1>2 DEF Return, ScanComplete
<1>3. CASE UNCHANGED answer /\ (Collect \/ UNCHANGED candidates)
  BY <1>3 DEF Collect, ScanComplete
<1>4. QED
  BY <1>1, <1>2, <1>3 DEF PoolStep, WorkerStep, SendJob, ProbeFails, ProbeSucceeds,
     SendResult, GiveUp, WorkerEnds, CloseJobs, CloseResults, Collect, Cancel

LEMMA PoolInvariant == Spec => []PoolInv
<1>1. Init => PoolInv
  BY PoolInit
<1>2. PoolInv /\ [Next]_vars => PoolInv'
  <2>1. CASE PoolInv /\ PoolStep
    BY <2>1, PoolTypes, PoolEnds, PoolLists, PoolAccounts, PoolComplete DEF PoolInv
  <2>2. CASE PoolInv /\ UNCHANGED vars
    BY <2>2 DEF vars, poolVars, PoolInv, TypeOK, ClosedIsQuiet, ListedOnce, InHand, Ended,
       OnlyAnswering, Accounted, ScanComplete
  <2>3. QED
    BY <2>1, <2>2 DEF Next, PoolStep
<1>3. QED
  BY <1>1, <1>2, PTL DEF Spec

\* The state of the pool keeps its types; in particular the results channel never
\* holds more than its capacity.
THEOREM DiscoveryTypes == Spec => []TypeOK
  BY PoolInvariant, PTL DEF PoolInv

\* No worker of the pool ever sends on the closed results channel (scanner.go:129-165).
THEOREM DiscoveryQuiet == Spec => []ClosedIsQuiet
  BY PoolInvariant, PTL DEF PoolInv

\* A scan that returns without an error lists what answers among the targets, all of it,
\* once, and nothing else, with any number of workers.
THEOREM DiscoveryComplete == Spec => []ScanComplete
  BY PoolInvariant, PTL DEF PoolInv

-----------------------------------------------------------------------------
\* The order of the scores puts verified endpoints first: a port weighs at most 55
\* and six keywords 108, a protocol answer 160.
LEMMA VerifiedWeighsMore ==
    ASSUME NEW e \in DOMAIN Found, NEW u \in DOMAIN Found,
           ProbeReaderProtocol(e), ~ProbeReaderProtocol(u)
    PROVE  Score(e) > Score(u)
<1>1. \A port : PortScore(port) \in 10..55
  BY DEF PortScore
<1>2. Found[u].keywords \in 0..6
  BY KeywordsAssumption
<1>3. Score(e) = PortScore(e[2]) + 160 /\ Score(u) = PortScore(u[2]) + 18 * Found[u].keywords
  BY Zenon DEF Score
<1>4. QED
  BY <1>1, <1>2, <1>3

LEMMA PoolOrders ==
    ASSUME PoolInv, VerifiedFirst, PoolStep PROVE VerifiedFirst'
<1>1. CASE Return
  <2>1. candidates \in Seq(DOMAIN Found) /\ ToSet(candidates') = ToSet(candidates)
    BY <1>1, Reordered DEF Return, PoolInv, ListedOnce, TypeOK
  <2>2. \A i \in DOMAIN candidates' : candidates'[i] \in DOMAIN Found
    <3>1. ToSet(candidates) \subseteq DOMAIN Found
      BY <2>1 DEF ToSet
    <3>2. \A i \in DOMAIN candidates' : candidates'[i] \in ToSet(candidates')
      BY DEF ToSet
    <3>3. QED
      BY <2>1, <3>1, <3>2
  <2>3. PICK order \in Bijection(DOMAIN candidates, DOMAIN candidates) :
          /\ \A i, k \in DOMAIN candidates :
               i < k => Score(candidates[order[i]]) >= Score(candidates[order[k]])
          /\ candidates' = [i \in DOMAIN candidates |-> candidates[order[i]]]
    BY <1>1 DEF Return
  <2>4. \A i, k \in DOMAIN candidates' :
          i < k => Score(candidates'[i]) >= Score(candidates'[k])
    BY <2>3
  <2>5. ASSUME NEW i \in DOMAIN candidates', NEW k \in DOMAIN candidates', i < k,
               ProbeReaderProtocol(candidates'[k]), ~ProbeReaderProtocol(candidates'[i])
        PROVE  FALSE
    <3>1. Score(candidates'[k]) > Score(candidates'[i])
      BY <2>2, <2>5, VerifiedWeighsMore
    <3>2. Score(candidates'[i]) >= Score(candidates'[k])
      BY <2>4, <2>5
    <3>3. Score(candidates'[i]) \in Int /\ Score(candidates'[k]) \in Int
      BY <2>2, KeywordsAssumption DEF Score, PortScore
    <3>4. QED
      BY <3>1, <3>2, <3>3
  <2>6. QED
    BY <2>5 DEF VerifiedFirst
<1>2. CASE answer = "none" /\ UNCHANGED answer
  BY <1>2 DEF VerifiedFirst
<1>3. CASE UNCHANGED <<answer, candidates>>
  BY <1>3 DEF VerifiedFirst
<1>4. QED
  BY <1>1, <1>2, <1>3 DEF PoolStep, WorkerStep, SendJob, ProbeFails, ProbeSucceeds, SendResult,
     GiveUp, WorkerEnds, CloseJobs, CloseResults, Collect, Cancel

\* The list that is returned begins with the verified readers, whatever the banners
\* of other endpoints say (scanner.go:204-217).
THEOREM DiscoveryVerifiedFirst == Spec => []VerifiedFirst
<1>1. Init => VerifiedFirst
  BY DEF Init, VerifiedFirst
<1>2. PoolInv /\ VerifiedFirst /\ [Next]_vars => VerifiedFirst'
  <2>1. CASE PoolInv /\ VerifiedFirst /\ PoolStep
    BY <2>1, PoolOrders
  <2>2. CASE VerifiedFirst /\ UNCHANGED vars
    BY <2>2 DEF vars, VerifiedFirst
  <2>3. QED
    BY <2>1, <2>2 DEF Next, PoolStep
<1>3. QED
  BY <1>1, <1>2, PoolInvariant, PTL DEF Spec
=============================================================================
