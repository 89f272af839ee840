------------------------------- MODULE Discovery -------------------------------
(***************************************************************************)
(* The scan of the LAN for readers (internal/discovery): a producer hands  *)
(* every address and port to a pool of workers, each worker dials and      *)
(* probes its target and sends what it found to the scan, which returns    *)
(* the list when all the workers have ended; a context may end it early.   *)
(*                                                                         *)
(* The network is external: Found says what answers where.  An address is  *)
(* a tuple of four octets.  Left out: the options' defaults, the text of a *)
(* banner but for the keywords in it, the order of the targets, and the    *)
(* order of candidates with the same score.                                *)
(***************************************************************************)
EXTENDS Integers, SequencesExt

CONSTANTS
    Locals,     \* the addresses of this host: [ip, ones], the bits of the mask
    Neighbors,  \* addresses in the ARP table
    Ports,      \* opts.Ports, a list
    HostLimit,  \* opts.HostLimitPerInterface
    Workers,    \* goroutines of the pool: opts.Concurrency of them
    Capacity,   \* of the results channel: opts.Concurrency
    Found,      \* what is found at an endpoint: [endpoints -> answers to the probes
                \* and keywords in the banner]
    CanCancel   \* the context may end

ASSUME WorkersAssumption == Workers # {}
ASSUME CapacityAssumption == Capacity \in Nat \ {0}

-----------------------------------------------------------------------------
(***************************************************************************)
(* The targets.                                                            *)
(***************************************************************************)
LocalIPs == {l.ip : l \in Locals}

\* localPrefixes: at most 256 addresses around each local one.
ScanBits(l) == IF l.ones < 24 THEN 24 ELSE l.ones
LocalPrefixes ==
    {[net |-> SubSeq(l.ip, 1, 3), base |-> l.ip[4] - (l.ip[4] % 2^(32 - ScanBits(l))),
      bits |-> ScanBits(l)] : l \in {k \in Locals : k.ones > 0}}

HostsFromPrefix(p) ==
    IF p.bits >= 31 THEN {}
    ELSE LET usable == 2^(32 - p.bits) - 2
         IN {Append(p.net, p.base + k) : k \in 1..(IF HostLimit < usable THEN HostLimit ELSE usable)}

StaticSeeds ==
    {Append(net, d) : net \in {<<192, 168, 0>>, <<192, 168, 1>>, <<10, 0, 0>>, <<10, 10, 10>>},
                      d \in {10, 20, 100, 200}}

DefaultCandidateIPs ==
    StaticSeeds
      \cup {Append(SubSeq(ip, 1, 3), d) : ip \in LocalIPs, d \in {2, 10, 20, 50, 100, 150, 200, 250}}
      \cup {<<ip[1], ip[2], c, 10>> : ip \in LocalIPs, c \in 0..2}

Hosts ==
    ((UNION {HostsFromPrefix(p) : p \in LocalPrefixes}) \cup Neighbors \cup DefaultCandidateIPs)
      \ LocalIPs

Targets ==
    FoldSet(LAMBDA host, list : list \o [k \in DOMAIN Ports |-> <<host, Ports[k]>>], <<>>, Hosts)

ASSUME TargetsAssumption == Targets \in Seq(Hosts \X ToSet(Ports))

-----------------------------------------------------------------------------
(***************************************************************************)
(* What a probe finds.                                                     *)
(***************************************************************************)
\* The probes, in order, by the command that must be answered: get-info, inventory-g2
\* and inventory-legacy, each to the default address and to all.
Expected == <<33, 33, 1, 1, 1, 1>>

\* Some probe is answered with its command.  A late answer counts for the next probe.
ProbeReaderProtocol(e) == \E i \in DOMAIN Expected : Expected[i] \in Found[e].answers[i]

PortScore(port) ==
    CASE port \in {2022, 27011, 4001, 5000, 6000, 7000, 10001} -> 55
      [] port = 23 -> 30
      [] port \in {80, 443, 8080} -> 20
      [] OTHER -> 10

\* Fault: a verified reader that weighs less than a talkative banner.
ScoreLight(e) ==
    PortScore(e[2]) + (IF ProbeReaderProtocol(e) THEN 100 ELSE 18 * Found[e].keywords)

\* keywordScore has six keywords.
ASSUME KeywordsAssumption == \A e \in DOMAIN Found : Found[e].keywords \in 0..6

Score(e) ==
    PortScore(e[2]) + (IF ProbeReaderProtocol(e) THEN 160 ELSE 18 * Found[e].keywords)

-----------------------------------------------------------------------------
VARIABLES
    ctxDone,      \* ctx.Done() is closed
    sent,         \* how many targets the producer has handed over
    jobsClosed,   \* the producer has ended
    wpc, at,      \* per worker: where it is, and the number of its target
    results,      \* the results channel
    resultsClosed,
    candidates,   \* what the scan has collected
    answer        \* "none" until the scan returns, then whether with an error

poolVars == <<sent, jobsClosed, wpc, at>>
vars == <<ctxDone, poolVars, results, resultsClosed, candidates, answer>>

TypeOK ==
    /\ ctxDone \in BOOLEAN /\ jobsClosed \in BOOLEAN /\ resultsClosed \in BOOLEAN
    /\ sent \in 0..Len(Targets)
    /\ wpc \in [Workers -> {"range", "probe", "result", "done"}]
    /\ at \in [Workers -> 0..Len(Targets)]
    /\ results \in Seq(DOMAIN Found) /\ Len(results) <= Capacity
    /\ candidates \in Seq(DOMAIN Found)
    /\ answer \in {"none", "ok", "error"}

\* Without an interface the scan returns at once.
Init ==
    /\ ctxDone = FALSE /\ sent = 0 /\ jobsClosed = FALSE
    /\ wpc = [w \in Workers |-> "range"] /\ at = [w \in Workers |-> 0]
    /\ results = <<>> /\ resultsClosed = FALSE /\ candidates = <<>>
    /\ answer = "none" /\ LocalPrefixes # {}

WGoto(w, from, to) == wpc[w] = from /\ wpc' = [wpc EXCEPT ![w] = to]

-----------------------------------------------------------------------------
(***************************************************************************)
(* The producer.                                                           *)
(***************************************************************************)
\* The jobs channel has no buffer: a worker takes what is sent.
SendJob(w) ==
    /\ ~jobsClosed /\ sent < Len(Targets)
    /\ WGoto(w, "range", "probe")
    /\ sent' = sent + 1 /\ at' = [at EXCEPT ![w] = sent + 1]
    /\ UNCHANGED <<ctxDone, jobsClosed, results, resultsClosed, candidates, answer>>

CloseJobs ==
    /\ ~jobsClosed /\ (sent = Len(Targets) \/ ctxDone)
    /\ jobsClosed' = TRUE
    /\ UNCHANGED <<ctxDone, sent, wpc, at, results, resultsClosed, candidates, answer>>

-----------------------------------------------------------------------------
(***************************************************************************)
(* A worker.                                                               *)
(***************************************************************************)
\* Nothing answers at the target, or the dial is given up with the context.
ProbeFails(w) ==
    /\ WGoto(w, "probe", "range")
    /\ ctxDone \/ Targets[at[w]] \notin DOMAIN Found
    /\ UNCHANGED <<ctxDone, sent, jobsClosed, at, results, resultsClosed, candidates, answer>>

\* Once the dial has succeeded the context is not asked again.
ProbeSucceeds(w) ==
    /\ WGoto(w, "probe", "result")
    /\ Targets[at[w]] \in DOMAIN Found
    /\ UNCHANGED <<ctxDone, sent, jobsClosed, at, results, resultsClosed, candidates, answer>>

\* Fault: a result that finds the channel full is dropped.
SendResultOrDrop(w) ==
    /\ WGoto(w, "result", "range")
    /\ results' = IF Len(results) < Capacity THEN Append(results, Targets[at[w]]) ELSE results
    /\ UNCHANGED <<ctxDone, sent, jobsClosed, at, resultsClosed, candidates, answer>>

SendResult(w) ==
    /\ Len(results) < Capacity
    /\ WGoto(w, "result", "range")
    /\ results' = Append(results, Targets[at[w]])
    /\ UNCHANGED <<ctxDone, sent, jobsClosed, at, resultsClosed, candidates, answer>>

\* Fault: a worker that leaves without wg.Done.
GiveUpUndone(w) ==
    /\ ctxDone /\ WGoto(w, "result", "gone")
    /\ UNCHANGED <<ctxDone, sent, jobsClosed, at, results, resultsClosed, candidates, answer>>

GiveUp(w) ==
    /\ ctxDone /\ WGoto(w, "result", "done")
    /\ UNCHANGED <<ctxDone, sent, jobsClosed, at, results, resultsClosed, candidates, answer>>

WorkerEnds(w) ==
    /\ jobsClosed /\ WGoto(w, "range", "done")
    /\ UNCHANGED <<ctxDone, sent, jobsClosed, at, results, resultsClosed, candidates, answer>>

-----------------------------------------------------------------------------
(***************************************************************************)
(* The end of the pool, and Scan.                                          *)
(***************************************************************************)
\* Fault: a results channel that is closed with the jobs channel.
CloseResultsEarly ==
    /\ ~resultsClosed /\ jobsClosed
    /\ resultsClosed' = TRUE
    /\ UNCHANGED <<ctxDone, poolVars, results, candidates, answer>>

\* wg.Wait returns.
CloseResults ==
    /\ ~resultsClosed /\ \A w \in Workers : wpc[w] = "done"
    /\ resultsClosed' = TRUE
    /\ UNCHANGED <<ctxDone, poolVars, results, candidates, answer>>

Collect ==
    /\ answer = "none" /\ results # <<>>
    /\ results' = Tail(results)
    /\ candidates' = IF Contains(candidates, Head(results)) THEN candidates
                     ELSE Append(candidates, Head(results))
    /\ UNCHANGED <<ctxDone, poolVars, resultsClosed, answer>>

\* The list is sorted by score.  It is returned with the context's error, if any.
Return ==
    /\ answer = "none" /\ results = <<>> /\ resultsClosed
    /\ \E order \in Bijection(DOMAIN candidates, DOMAIN candidates) :
         /\ \A i, k \in DOMAIN candidates :
              i < k => Score(candidates[order[i]]) >= Score(candidates[order[k]])
         /\ candidates' = [i \in DOMAIN candidates |-> candidates[order[i]]]
    /\ answer' = IF ctxDone THEN "error" ELSE "ok"
    /\ UNCHANGED <<ctxDone, poolVars, results, resultsClosed>>

Cancel ==
    /\ CanCancel /\ ~ctxDone /\ ctxDone' = TRUE
    /\ UNCHANGED <<poolVars, results, resultsClosed, candidates, answer>>

WorkerStep(w) ==
    \/ SendJob(w) \/ ProbeFails(w) \/ ProbeSucceeds(w) \/ SendResult(w) \/ GiveUp(w)
    \/ WorkerEnds(w)

Next == (\E w \in Workers : WorkerStep(w)) \/ CloseJobs \/ CloseResults \/ Collect \/ Return \/ Cancel

Spec == Init /\ [][Next]_vars

\* The scheduler runs every goroutine that can go on; dials and reads have deadlines.
FairSpec ==
    /\ Spec
    /\ \A w \in Workers : WF_vars(WorkerStep(w))
    /\ WF_vars(CloseJobs) /\ WF_vars(CloseResults) /\ WF_vars(Collect \/ Return)

-----------------------------------------------------------------------------
\* No worker sends on the closed results channel, with the context or without.
ClosedIsQuiet == resultsClosed => \A w \in Workers : wpc[w] = "done"

\* A scan that returns without an error lists every endpoint that answers once, although
\* a port may be given twice, and nothing else, however the workers race for results and
\* for the end of the pool.
ScanComplete ==
    answer = "ok" =>
      IsInjective(candidates) /\ ToSet(candidates) = ToSet(Targets) \cap DOMAIN Found

\* In the list that is returned no unverified endpoint, whatever its banner says,
\* comes before a verified one.
VerifiedFirst ==
    answer # "none" =>
      \A i, k \in DOMAIN candidates :
        i < k /\ ProbeReaderProtocol(candidates[k]) => ProbeReaderProtocol(candidates[i])

\* The scan returns, also when the context ends while results wait in the channel.
ScanReturns == <>(answer # "none")
=============================================================================
