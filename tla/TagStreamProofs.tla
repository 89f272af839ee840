---------------------------- MODULE TagStreamProofs ----------------------------
(***************************************************************************)
(* What TagStream promises, for every stream of bytes, all read sizes, all *)
(* configurations and any number of steps: however reads cut the stream,   *)
(* the frames are the same; tags are counted once; the target turns; the   *)
(* antennas rotate.                                                        *)
(*                                                                         *)
(* The parser is a recursive function on sequences and the handlers are    *)
(* folds.  Induction over both is by sets: what holds of a buffer when it  *)
(* holds of all shorter ones (LengthInduct), and Folding for the loops.    *)
(***************************************************************************)
EXTENDS TagStream, SequenceTheorems, FiniteSetTheorems, WellFoundedInduction, TLAPS

\* The folds of the code over the operators of the model.
G2 == INSTANCE Folding WITH Op <- NextG2Tag
Record == INSTANCE Folding WITH Op <- RecordTag
Frames == INSTANCE Folding WITH Op <- HandleFrame

Frame == [address : Byte, command : Byte, status : Byte, data : Seq(Byte), raw : Seq(Byte)]

LEMMA G2Folds == \A b, s : FoldLeft(NextG2Tag, b, s) = G2!Fold(b, s)
  BY Zenon DEF FoldLeft, MapThenFoldSet, Max, G2!Fold, G2!FoldLeft, G2!MapThenFoldSet, G2!Max

LEMMA RecordFolds == \A b, s : FoldLeft(RecordTag, b, s) = Record!Fold(b, s)
  BY Zenon DEF FoldLeft, MapThenFoldSet, Max, Record!Fold, Record!FoldLeft,
               Record!MapThenFoldSet, Record!Max

LEMMA FramesFold == \A b, s : FoldLeft(HandleFrame, b, s) = Frames!Fold(b, s)
  BY Zenon DEF FoldLeft, MapThenFoldSet, Max, Frames!Fold, Frames!FoldLeft,
               Frames!MapThenFoldSet, Frames!Max

-----------------------------------------------------------------------------
LEMMA ByteIs == \A x : x \in Byte <=> x \in Nat /\ x <= 255
  BY DEF Byte

LEMMA SliceType ==
    ASSUME NEW S, NEW s \in Seq(S), NEW i \in Nat \ {0}, NEW j \in Int, j <= Len(s)
    PROVE  SubSeq(s, i, j) \in Seq(S) /\ Len(SubSeq(s, i, j)) = IF i <= j THEN j - i + 1 ELSE 0
<1>1. CASE i <= j
  BY <1>1, SubSeqProperties
<1>2. CASE j < i
  BY <1>2
<1>3. QED
  BY <1>1, <1>2

\* The payload of an inventory gives a list of EPCs, whatever its bytes are.
LEMMA TagsOfPayload ==
    ASSUME NEW f \in Frame
    PROVE  LET found == ParseInventoryG2Tags(f)
           IN found.ok \in BOOLEAN /\ found.epcs \in Seq(Seq(Byte))
<1> DEFINE data == f.data
           Acc == [data : {data}, ok : BOOLEAN, cursor : Nat \ {0}, epcs : Seq(Seq(Byte))]
           begin == [data |-> data, ok |-> TRUE, cursor |-> 3, epcs |-> <<>>]
           all == FoldLeft(NextG2Tag, begin, [i \in 1..data[2] |-> i])
<1>1. data \in Seq(Byte)
  BY DEF Frame
<1>2. begin \in Acc
  OBVIOUS
<1>3. ASSUME NEW acc \in Acc, NEW i \in Nat PROVE NextG2Tag(acc, i) \in Acc
  <2> DEFINE c == acc.cursor
             last == c + data[c]
             epc == SubSeq(data, c + 1, last)
  <2>1. acc.data = data /\ c \in Nat \ {0} /\ acc.epcs \in Seq(Seq(Byte))
    OBVIOUS
  <2>2. CASE ~acc.ok \/ c > Len(data) \/ data[c] = 0 \/ last + 1 > Len(data)
    <3>1. NextG2Tag(acc, i) = [acc EXCEPT !.ok = FALSE]
      BY <2>1, <2>2 DEF NextG2Tag
    <3>2. QED
      BY <3>1
  <2>3. CASE ~(~acc.ok \/ c > Len(data) \/ data[c] = 0 \/ last + 1 > Len(data))
    <3>1. data[c] \in Nat /\ last \in Nat /\ last <= Len(data)
      BY <1>1, <2>1, <2>3, ByteIs, SMTT(30)
    <3>2. epc \in Seq(Byte)
      BY <1>1, <2>1, <3>1, SliceType, SMTT(30)
    <3>3. NextG2Tag(acc, i) = [acc EXCEPT !.cursor = last + 2, !.epcs = Append(acc.epcs, epc)]
      BY <2>1, <2>3 DEF NextG2Tag
    <3>4. Append(acc.epcs, epc) \in Seq(Seq(Byte)) /\ last + 2 \in Nat \ {0}
      BY <2>1, <3>1, <3>2, SMTT(30)
    <3> DEFINE end == last + 2
               list == Append(acc.epcs, epc)
    <3> HIDE DEF epc, last, end, list
    <3>5. [acc EXCEPT !.cursor = end, !.epcs = list] \in Acc
      BY <3>4 DEF end, list
    <3>6. QED
      BY <3>3, <3>5 DEF end, list
  <2>4. QED
    BY <2>2, <2>3
<1>4. CASE Len(data) < 2 \/ data[2] = 0
  BY <1>4 DEF ParseInventoryG2Tags
<1>5. CASE ~(Len(data) < 2 \/ data[2] = 0)
  <2>1. data[2] \in Nat
    BY <1>1, <1>5, ByteIs
  <2>2. [i \in 1..data[2] |-> i] \in Seq(Nat)
    BY <2>1
  <2>3. all = G2!Fold(begin, [i \in 1..data[2] |-> i])
    BY G2Folds
  <2>4. all \in Acc
    <3> HIDE DEF Acc, begin
    <3>1. QED
      BY <1>2, <1>3, <2>2, <2>3, G2!FoldKeeps
  <2>5. ParseInventoryG2Tags(f) = IF all.ok THEN [ok |-> TRUE, epcs |-> all.epcs]
                                  ELSE [ok |-> FALSE, epcs |-> <<>>]
    BY <1>5 DEF ParseInventoryG2Tags
  <2> HIDE DEF all
  <2>6. QED
    BY <2>4, <2>5
<1>6. QED
  BY <1>4, <1>5

LEMMA SingleTagOfPayload ==
    ASSUME NEW f \in Frame
    PROVE  ParseSingleInventoryResult(f).epc \in Seq(Byte)
<1> DEFINE data == f.data
           ok == /\ f.status \in {StatusNoTag, StatusSuccess}
                 /\ Len(data) >= 3 /\ Len(data) >= 3 + data[3]
<1>1. data \in Seq(Byte)
  BY DEF Frame
<1>2. CASE ok
  <2>1. data[3] \in Nat /\ 3 + data[3] <= Len(data)
    BY <1>1, <1>2, ByteIs
  <2>2. SubSeq(data, 4, 3 + data[3]) \in Seq(Byte)
    BY <1>1, <2>1, SliceType
  <2>3. QED
    BY <1>2, <2>2 DEF ParseSingleInventoryResult
<1>3. CASE ~ok
  BY <1>3 DEF ParseSingleInventoryResult
<1>4. QED
  BY <1>2, <1>3

-----------------------------------------------------------------------------
(***************************************************************************)
(* The counters.  The rounds in a row without a tag are never more than    *)
(* the answers without one that are counted, which also has what single    *)
(* answers and rounds before a new configuration add.                      *)
(***************************************************************************)
Tags == [seen : SUBSET Seq(Byte), uniqueTags : Nat, noTagHit : Nat, target : {0, 1}, quiet : Nat]

Switches == cfg.session > 1 /\ cfg.noTagABSwitch > 0

\* The counters that the invariant allows.
Counted ==
    {t \in Tags : /\ IsFiniteSet(t.seen) /\ t.uniqueTags = Cardinality(t.seen)
                  /\ t.quiet <= t.noTagHit
                  /\ Switches => t.quiet < cfg.noTagABSwitch}

LEMMA Counters ==
    \A t : t \in Counted <=>
             /\ t \in Tags /\ IsFiniteSet(t.seen) /\ t.uniqueTags = Cardinality(t.seen)
             /\ t.quiet <= t.noTagHit
             /\ Switches => t.quiet < cfg.noTagABSwitch
  BY Zenon DEF Counted

LEMMA NoTagsCounted ==
    ASSUME cfg \in Configs, NEW target \in {0, 1}
    PROVE  NoTags(target) \in Counted
<1> DEFINE t == NoTags(target)
<1>1. t \in Tags /\ t.seen = {} /\ t.uniqueTags = 0 /\ t.quiet = 0 /\ t.noTagHit = 0
  BY DEF NoTags, Tags
<1> HIDE DEF t
<1>2. IsFiniteSet(t.seen) /\ t.uniqueTags = Cardinality(t.seen) /\ t.quiet <= t.noTagHit
  BY <1>1, FS_EmptySet
<1>3. Switches => t.quiet < cfg.noTagABSwitch
  BY <1>1, ConfigsAssumption DEF Switches
<1>4. QED
  BY <1>1, <1>2, <1>3, Counters DEF t

\* A tag makes quiet and noTagHit zero.
LEMMA TagCounted ==
    ASSUME cfg \in Configs, NEW t \in Counted, NEW epc \in Seq(Byte)
    PROVE  /\ [t EXCEPT !.noTagHit = 0, !.quiet = 0, !.seen = @ \cup {epc},
                        !.uniqueTags = IF epc \in t.seen THEN @ ELSE @ + 1] \in Counted
           /\ RecordTag(t, epc) \in Counted /\ RecordTag(t, epc).target = t.target
<1> DEFINE n == IF epc \in t.seen THEN t.uniqueTags ELSE t.uniqueTags + 1
           all == t.seen \cup {epc}
           next == [t EXCEPT !.noTagHit = 0, !.quiet = 0, !.seen = all, !.uniqueTags = n]
<1>1. /\ t \in Tags /\ IsFiniteSet(t.seen) /\ t.uniqueTags = Cardinality(t.seen)
  BY Counters
<1>2. IsFiniteSet(all) /\ Cardinality(all) = n
  BY <1>1, FS_AddElement
<1>3. n \in Nat /\ all \in SUBSET Seq(Byte)
  BY <1>1 DEF Tags
<1>4. next \in Tags /\ next.target = t.target /\ next.seen = all /\ next.uniqueTags = n
      /\ next.quiet = 0 /\ next.noTagHit = 0
  <2> HIDE DEF n, all
  <2>1. QED
    BY <1>1, <1>3 DEF Tags
<1>5. RecordTag(t, epc) = IF epc = <<>> THEN t ELSE next
  BY DEF RecordTag
<1>6. next = [t EXCEPT !.noTagHit = 0, !.quiet = 0, !.seen = @ \cup {epc},
                      !.uniqueTags = IF epc \in t.seen THEN @ ELSE @ + 1]
  OBVIOUS
<1> HIDE DEF next, n, all
<1>7. Switches => next.quiet < cfg.noTagABSwitch
  BY <1>4, ConfigsAssumption DEF Switches
<1>8. next \in Counted
  BY <1>2, <1>4, <1>7, Counters
<1>9. QED
  BY <1>4, <1>5, <1>6, <1>8

\* An answer without a tag: counted, or the target is turned.
LEMMA NoTagCounted ==
    ASSUME cfg \in Configs, NEW t \in Counted
    PROVE  LET next == NoTagHit(t)
           IN \/ /\ next.target # t.target
                 /\ [next EXCEPT !.quiet = 0] \in Counted
              \/ /\ next.target = t.target /\ next \in Counted
                 /\ [next EXCEPT !.quiet = @ + 1] \in Counted
<1>1. /\ t \in Tags /\ t.quiet <= t.noTagHit /\ IsFiniteSet(t.seen)
      /\ t.uniqueTags = Cardinality(t.seen) /\ (Switches => t.quiet < cfg.noTagABSwitch)
      /\ cfg.noTagABSwitch \in Nat /\ t.quiet \in Nat /\ t.noTagHit \in Nat
  <2>1. t \in Tags
    BY Counters
  <2>2. QED
    BY <2>1, ConfigsAssumption, Counters DEF Tags
<1>2. CASE Switches /\ t.noTagHit + 1 >= cfg.noTagABSwitch
  <2> DEFINE turned == 1 - t.target
             next == [t EXCEPT !.noTagHit = 0, !.target = turned]
             calm == [next EXCEPT !.quiet = 0]
  <2>1. turned \in {0, 1} /\ turned # t.target
    BY <1>1 DEF Tags
  <2>2. NoTagHit(t) = next
    BY <1>2 DEF NoTagHit, Switches
  <2>3. /\ next.target # t.target /\ calm \in Tags /\ calm.quiet = 0 /\ calm.noTagHit = 0
        /\ calm.seen = t.seen /\ calm.uniqueTags = t.uniqueTags
    <3> HIDE DEF turned
    <3>1. QED
      BY <1>1, <2>1 DEF Tags
  <2>4. calm \in Counted
    <3> HIDE DEF calm
    <3>1. Switches => calm.quiet < cfg.noTagABSwitch
      BY <1>1, <2>3 DEF Switches
    <3>2. QED
      BY <1>1, <2>3, <3>1, Counters
  <2> HIDE DEF next
  <2>5. QED
    BY <2>2, <2>3, <2>4
<1>3. CASE ~(Switches /\ t.noTagHit + 1 >= cfg.noTagABSwitch)
  <2> DEFINE n == t.noTagHit + 1
             next == [t EXCEPT !.noTagHit = n]
             more == [next EXCEPT !.quiet = @ + 1]
  <2>1. NoTagHit(t) = next
    BY <1>3 DEF NoTagHit, Switches
  <2>2. /\ n \in Nat /\ t.quiet <= n /\ t.quiet + 1 <= n /\ t.quiet + 1 \in Nat
        /\ Switches => t.quiet + 1 < cfg.noTagABSwitch
    BY <1>1, <1>3
  <2>3. /\ next.target = t.target /\ next \in Tags /\ next.seen = t.seen
        /\ next.uniqueTags = t.uniqueTags /\ next.quiet = t.quiet /\ next.noTagHit = n
    <3> HIDE DEF n
    <3>1. QED
      BY <1>1, <2>2 DEF Tags
  <2> HIDE DEF next, n
  <2>4. /\ more \in Tags /\ more.seen = t.seen
        /\ more.uniqueTags = t.uniqueTags /\ more.quiet = t.quiet + 1 /\ more.noTagHit = n
    BY <2>2, <2>3 DEF Tags
  <2>5. next \in Counted
    BY <1>1, <2>2, <2>3, Counters
  <2>6. more \in Counted
    <3> HIDE DEF more
    <3>1. QED
      BY <1>1, <2>2, <2>4, Counters
  <2>7. QED
    BY <2>1, <2>3, <2>5, <2>6
<1>4. QED
  BY <1>2, <1>3

\* What a handler gives, and what the history makes of it.
Outcome(before, after) ==
    \/ after \in Counted /\ after.target = before.target
    \/ after = NoTagHit(before)

LEMMA QuietCounted ==
    ASSUME cfg \in Configs, NEW t \in Counted, NEW after, NEW f, Outcome(t, after),
           f.command = CmdInventory /\ f.status \in NoTagStatuses /\ f.data = <<>> /\ on
             => after = NoTagHit(t)
    PROVE  Quiet(t, after, f) \in Counted
<1> DEFINE round == f.command = CmdInventory /\ f.status \in NoTagStatuses /\ f.data = <<>> /\ on
<1>1. CASE after = NoTagHit(t)
  BY <1>1, NoTagCounted DEF Quiet
<1>2. CASE after # NoTagHit(t)
  BY <1>2 DEF Quiet, Outcome
<1>3. QED
  BY <1>1, <1>2

LEMMA TagsRecorded ==
    ASSUME cfg \in Configs, NEW t \in Counted, NEW epcs \in Seq(Seq(Byte))
    PROVE  Outcome(t, FoldLeft(RecordTag, t, epcs))
<1> DEFINE S == {u \in Counted : u.target = t.target}
<1>1. t \in S
  OBVIOUS
<1>2. \A u \in S, epc \in Seq(Byte) : RecordTag(u, epc) \in S
  BY TagCounted
<1>3. FoldLeft(RecordTag, t, epcs) \in S
  <2> HIDE DEF S
  <2>1. Record!Fold(t, epcs) \in S
    BY <1>1, <1>2, Record!FoldKeeps
  <2>2. QED
    BY <2>1, RecordFolds
<1>4. QED
  BY <1>3 DEF Outcome

LEMMA InventoryFrameOutcome ==
    ASSUME cfg \in Configs, NEW t \in Counted, NEW f \in Frame
    PROVE  /\ Outcome(t, HandleInventoryFrame(t, f))
           /\ f.status \in NoTagStatuses /\ f.data = <<>> /\ on
                => HandleInventoryFrame(t, f) = NoTagHit(t)
<1> DEFINE found == ParseInventoryG2Tags(f)
<1>1. found.epcs \in Seq(Seq(Byte))
  BY TagsOfPayload
<1>2. Outcome(t, FoldLeft(RecordTag, t, found.epcs)) /\ Outcome(t, t)
  BY <1>1, TagsRecorded DEF Outcome
<1>3. Outcome(t, ObserveNoTag(t, f.status))
  BY <1>2 DEF ObserveNoTag, Outcome
<1>4. HandleInventoryFrame(t, f) =
        IF ~found.ok THEN t
        ELSE IF found.epcs # <<>> THEN FoldLeft(RecordTag, t, found.epcs)
        ELSE IF f.status = StatusSuccess THEN t ELSE ObserveNoTag(t, f.status)
  BY DEF HandleInventoryFrame
<1>5. ASSUME f.status \in NoTagStatuses, f.data = <<>>, on
      PROVE  HandleInventoryFrame(t, f) = NoTagHit(t)
  <2>1. found = [ok |-> TRUE, epcs |-> <<>>]
    BY <1>5 DEF ParseInventoryG2Tags
  <2>2. f.status # StatusSuccess /\ ObserveNoTag(t, f.status) = NoTagHit(t)
    BY <1>5 DEF NoTagStatuses, StatusNoTag, StatusNoTagOrTimeout, StatusSuccess, ObserveNoTag
  <2> HIDE DEF found
  <2>3. QED
    BY <1>4, <2>1, <2>2
<1> HIDE DEF found
<1>6. QED
  BY <1>2, <1>3, <1>4, <1>5

LEMMA SingleFrameOutcome ==
    ASSUME cfg \in Configs, NEW t \in Counted, NEW f \in Frame
    PROVE  Outcome(t, HandleInventorySingleFrame(t, f))
<1> DEFINE result == ParseSingleInventoryResult(f)
           tagged == result.ok /\ result.count > 0 /\ result.epc # <<>>
           empty == [t EXCEPT !.noTagHit = 0, !.quiet = 0, !.seen = @ \cup {<<>>},
                              !.uniqueTags = IF <<>> \in t.seen THEN @ ELSE @ + 1]
<1>1. result.epc \in Seq(Byte)
  BY SingleTagOfPayload
<1>2. Outcome(t, RecordTag(t, result.epc)) /\ Outcome(t, t)
  BY <1>1, TagCounted DEF Outcome
<1>3. Outcome(t, ObserveNoTag(t, f.status))
  BY <1>2 DEF ObserveNoTag, Outcome
<1>4. Outcome(t, empty)
  <2>1. <<>> \in Seq(Byte) /\ t \in Tags
    BY Counters
  <2>2. empty \in Counted
    BY <2>1, TagCounted
  <2>3. empty.target = t.target
    BY <2>1 DEF Tags
  <2>4. QED
    BY <2>2, <2>3 DEF Outcome
<1>5. HandleInventorySingleFrame(t, f) \in
        {t, RecordTag(t, result.epc), ObserveNoTag(t, f.status), empty}
  <2> HIDE DEF result
  <2>1. QED
    BY DEF HandleInventorySingleFrame, result
<1> HIDE DEF empty, result
<1>6. QED
  BY <1>2, <1>3, <1>4, <1>5

LEMMA FrameCounted ==
    ASSUME cfg \in Configs, NEW t \in Counted, NEW f \in Frame
    PROVE  HandleFrame(t, f) \in Counted
<1>0. CmdInventory # CmdInventorySingle
  BY DEF CmdInventory, CmdInventorySingle
<1>1. CASE f.command = CmdInventory
  <2>1. Quiet(t, HandleInventoryFrame(t, f), f) \in Counted
    BY <1>1, InventoryFrameOutcome, QuietCounted
  <2>2. QED
    BY <1>0, <1>1, <2>1 DEF HandleFrame
<1>2. CASE f.command = CmdInventorySingle
  <2>1. f.command # CmdInventory
    BY <1>0, <1>2
  <2>2. Quiet(t, HandleInventorySingleFrame(t, f), f) \in Counted
    BY <2>1, SingleFrameOutcome, QuietCounted
  <2>3. QED
    BY <1>2, <2>1, <2>2 DEF HandleFrame
<1>3. CASE f.command \notin {CmdInventory, CmdInventorySingle}
  BY <1>3 DEF HandleFrame
<1>4. QED
  BY <1>1, <1>2, <1>3

\* The frames of a packet are handled one after the other.
LEMMA FramesCounted ==
    ASSUME cfg \in Configs, NEW t \in Counted, NEW frames \in Seq(Frame)
    PROVE  FoldLeft(HandleFrame, t, frames) \in Counted
<1>1. \A u \in Counted, f \in Frame : HandleFrame(u, f) \in Counted
  BY FrameCounted
<1>2. Frames!Fold(t, frames) \in Counted
  BY <1>1, Frames!FoldKeeps
<1>3. QED
  BY <1>2, FramesFold

-----------------------------------------------------------------------------
LEMMA NatInduct ==
    ASSUME NEW S, 0 \in S, \A n \in S \cap Nat : n + 1 \in S
    PROVE  Nat \subseteq S
  BY G2!NatInduct

\* A set of naturals that is not empty has a smallest.
LEMMA Smallest ==
    ASSUME NEW K \in SUBSET Nat, K # {}
    PROVE  \E i \in K : \A k \in K : i <= k
<1> DEFINE R == {p \in Nat \X Nat : p[1] < p[2]}
<1>1. IsWellFoundedOn(R, Nat)
  BY NatLessThanWellFounded DEF OpToRel
<1>2. PICK i \in K : \A k \in K : <<k, i>> \notin R
  <2> HIDE DEF R
  <2> QED
    BY <1>1, WFMin
<1>3. \A k \in K : i <= k
  <2>1. ASSUME NEW k \in K PROVE i <= k
    <3>1. i \in Nat /\ k \in Nat /\ <<k, i>> \notin R
      BY <1>2
    <3>2. ~(k < i)
      BY <3>1
    <3>3. QED
      BY <3>1, <3>2
  <2>2. QED
    BY <2>1
<1>4. QED
  BY <1>3

\* Induction on the length: what holds of a sequence when it holds of the shorter
\* ones holds of all.
LEMMA LengthInduct ==
    ASSUME NEW S, NEW Good,
           \A s \in Seq(S) : (\A r \in Seq(S) : Len(r) < Len(s) => r \in Good) => s \in Good
    PROVE  Seq(S) \subseteq Good
<1> SUFFICES ASSUME NEW bad \in Seq(S), bad \notin Good PROVE FALSE
  OBVIOUS
<1> DEFINE K == {n \in Nat : \E s \in Seq(S) \ Good : n = Len(s)}
<1>1. K \in SUBSET Nat /\ K # {}
  <2>1. Len(bad) \in Nat
    OBVIOUS
  <2>2. Len(bad) \in K
    BY <2>1, Zenon
  <2>3. QED
    BY <2>2
<1>2. PICK n \in K : \A k \in K : n <= k
  <2> HIDE DEF K
  <2> QED
    BY <1>1, Smallest
<1>3. PICK s \in Seq(S) \ Good : n = Len(s)
  BY <1>2
<1>4. ASSUME NEW r \in Seq(S), Len(r) < Len(s), r \notin Good PROVE FALSE
  <2>1. Len(r) \in Nat
    OBVIOUS
  <2>2. Len(r) \in K
    BY <1>4, <2>1, Zenon
  <2> HIDE DEF K
  <2>3. n <= Len(r)
    BY <1>2, <2>2
  <2>4. QED
    BY <1>3, <1>4, <2>1, <2>3
<1>5. QED
  BY <1>3, <1>4

-----------------------------------------------------------------------------
(***************************************************************************)
(* ParseFrames is the function that its definition says: there is one,     *)
(* because what it asks of itself are shorter buffers.                     *)
(***************************************************************************)
Total(buf) == buf[1] + 1
Takes(buf) == Total(buf) >= 6 /\ VerifyPacket(SubSeq(buf, 1, Total(buf)))
Rest(buf) == SubSeq(buf, Total(buf) + 1, Len(buf))

Step(f, buf) ==
    IF Waits(buf) THEN [frames |-> <<>>, remaining |-> buf]
    ELSE IF Takes(buf)
         THEN [frames |-> <<FrameOf(SubSeq(buf, 1, Total(buf)))>> \o f[Rest(buf)].frames,
               remaining |-> f[Rest(buf)].remaining]
    ELSE f[Tail(buf)]

Short(n) == {buf \in Seq(Byte) : Len(buf) <= n}
Parses(f, dom) == f = [buf \in dom |-> Step(f, buf)]

LEMMA Shorter ==
    ASSUME NEW buf \in Seq(Byte), ~Waits(buf)
    PROVE  /\ Len(buf) >= 6 /\ buf[1] \in Byte
           /\ Tail(buf) \in Seq(Byte) /\ Len(Tail(buf)) = Len(buf) - 1
           /\ Takes(buf) => /\ Total(buf) \in 6..Len(buf)
                            /\ SubSeq(buf, 1, Total(buf)) \in Seq(Byte)
                            /\ Rest(buf) \in Seq(Byte) /\ Len(Rest(buf)) = Len(buf) - Total(buf)
<1>1. Len(buf) >= 6 /\ buf[1] \in Byte /\ Len(buf) \in Nat
  BY DEF Waits
<1>2. Tail(buf) \in Seq(Byte) /\ Len(Tail(buf)) = Len(buf) - 1
  BY <1>1
<1>3. ASSUME Takes(buf)
      PROVE  /\ Total(buf) \in 6..Len(buf)
             /\ SubSeq(buf, 1, Total(buf)) \in Seq(Byte)
             /\ Rest(buf) \in Seq(Byte) /\ Len(Rest(buf)) = Len(buf) - Total(buf)
  <2>1. Total(buf) \in 6..Len(buf)
    BY <1>1, <1>3, ByteIs DEF Takes, Total, Waits
  <2>2. SubSeq(buf, 1, Total(buf)) \in Seq(Byte)
    BY <1>1, <2>1, SliceType
  <2>3. Rest(buf) \in Seq(Byte) /\ Len(Rest(buf)) = Len(buf) - Total(buf)
    BY <1>1, <2>1, SliceType DEF Rest
  <2>4. QED
    BY <2>1, <2>2, <2>3
<1>4. QED
  BY <1>1, <1>2, <1>3

LEMMA StepCongruence ==
    ASSUME NEW f, NEW g, NEW buf \in Seq(Byte),
           \A b \in Seq(Byte) : Len(b) < Len(buf) => f[b] = g[b]
    PROVE  Step(f, buf) = Step(g, buf)
<1>1. CASE Waits(buf)
  BY <1>1 DEF Step
<1>2. CASE ~Waits(buf) /\ Takes(buf)
  <2>1. Rest(buf) \in Seq(Byte) /\ Len(Rest(buf)) < Len(buf)
    BY <1>2, Shorter
  <2>2. f[Rest(buf)] = g[Rest(buf)]
    BY <2>1
  <2>3. QED
    BY <1>2, <2>2, Zenon DEF Step
<1>3. CASE ~Waits(buf) /\ ~Takes(buf)
  <2>1. Tail(buf) \in Seq(Byte) /\ Len(Tail(buf)) < Len(buf)
    BY <1>3, Shorter
  <2>2. f[Tail(buf)] = g[Tail(buf)]
    BY <2>1
  <2>3. QED
    BY <1>3, <2>2 DEF Step
<1>4. QED
  BY <1>1, <1>2, <1>3

LEMMA ParsesAt ==
    ASSUME NEW f, NEW dom, Parses(f, dom), NEW buf \in dom
    PROVE  f[buf] = Step(f, buf)
<1>1. f[buf] = [b \in dom |-> Step(f, b)][buf]
  BY Zenon DEF Parses
<1>2. QED
  BY <1>1, Zenon

LEMMA ParsesUnique ==
    ASSUME NEW n \in Nat, NEW k \in Nat, NEW f, NEW g, Parses(f, Short(n)), Parses(g, Short(k)),
           NEW buf \in Seq(Byte), Len(buf) <= n, Len(buf) <= k
    PROVE  f[buf] = g[buf]
<1> DEFINE Same == {b \in Seq(Byte) : Len(b) <= n /\ Len(b) <= k => f[b] = g[b]}
<1>1. ASSUME NEW s \in Seq(Byte), \A r \in Seq(Byte) : Len(r) < Len(s) => r \in Same
      PROVE  s \in Same
  <2> SUFFICES ASSUME Len(s) <= n, Len(s) <= k PROVE f[s] = g[s]
    OBVIOUS
  <2>1. ASSUME NEW b \in Seq(Byte), Len(b) < Len(s) PROVE f[b] = g[b]
    <3>1. b \in Same /\ Len(b) <= n /\ Len(b) <= k
      BY <1>1, <2>1
    <3>2. QED
      BY <3>1
  <2>2. s \in Short(n) /\ s \in Short(k)
    BY DEF Short
  <2>3. f[s] = Step(f, s) /\ g[s] = Step(g, s)
    BY <2>2, ParsesAt
  <2>4. QED
    BY <2>1, <2>3, StepCongruence
<1>2. Seq(Byte) \subseteq Same
  <2> HIDE DEF Same
  <2> QED
    BY <1>1, LengthInduct
<1>3. QED
  BY <1>2

LEMMA ParsesShort == \A n \in Nat : \E f : Parses(f, Short(n))
<1> DEFINE K == {n \in Nat : \E f : Parses(f, Short(n))}
<1>1. 0 \in K
  <2> DEFINE f == [buf \in Short(0) |-> [frames |-> <<>>, remaining |-> buf]]
  <2>1. ASSUME NEW buf \in Short(0) PROVE f[buf] = Step(f, buf)
    <3>1. Waits(buf)
      BY DEF Waits, Short
    <3>2. QED
      BY <3>1 DEF Step
  <2>2. f = [buf \in Short(0) |-> f[buf]]
    OBVIOUS
  <2> HIDE DEF f
  <2>3. f = [buf \in Short(0) |-> Step(f, buf)]
    BY <2>1, <2>2, Zenon
  <2>4. Parses(f, Short(0))
    BY <2>3, Zenon DEF Parses
  <2>5. QED
    BY <2>4
<1>2. ASSUME NEW n \in K \cap Nat PROVE n + 1 \in K
  <2>1. PICK g : Parses(g, Short(n))
    OBVIOUS
  <2> DEFINE f == [buf \in Short(n + 1) |-> Step(g, buf)]
  <2>2. ASSUME NEW buf \in Short(n + 1) PROVE f[buf] = Step(f, buf)
    <3>1. f[buf] = Step(g, buf)
      BY Zenon
    <3>2. ASSUME NEW b \in Seq(Byte), Len(b) < Len(buf) PROVE f[b] = g[b]
      <4>1. b \in Short(n) /\ b \in Short(n + 1)
        BY <3>2 DEF Short
      <4>2. f[b] = Step(g, b)
        BY <4>1, Zenon
      <4>3. g[b] = Step(g, b)
        BY <2>1, <4>1, ParsesAt
      <4> HIDE DEF f
      <4>4. QED
        BY <4>2, <4>3
    <3>3. buf \in Seq(Byte)
      BY DEF Short
    <3> HIDE DEF f
    <3>4. QED
      BY <3>1, <3>2, <3>3, StepCongruence
  <2>3. f = [buf \in Short(n + 1) |-> f[buf]]
    BY Zenon
  <2> HIDE DEF f
  <2>4. f = [buf \in Short(n + 1) |-> Step(f, buf)]
    BY <2>2, <2>3, Zenon
  <2>5. Parses(f, Short(n + 1))
    BY <2>4, Zenon DEF Parses
  <2>6. QED
    BY <2>5
<1>3. Nat \subseteq K
  <2> HIDE DEF K
  <2> QED
    BY <1>1, <1>2, NatInduct
<1>4. QED
  BY <1>3

LEMMA ParsesAll == \E f : Parses(f, Seq(Byte))
<1> DEFINE p(n) == CHOOSE f : Parses(f, Short(n))
           f == [buf \in Seq(Byte) |-> p(Len(buf))[buf]]
<1>1. \A n \in Nat : Parses(p(n), Short(n))
  BY ParsesShort
<1> HIDE DEF p
<1>2. ASSUME NEW buf \in Seq(Byte) PROVE f[buf] = Step(f, buf)
  <2>1. Len(buf) \in Nat /\ buf \in Short(Len(buf))
    BY DEF Short
  <2>2. f[buf] = p(Len(buf))[buf]
    BY Zenon
  <2>3. p(Len(buf))[buf] = Step(p(Len(buf)), buf)
    BY <1>1, <2>1, ParsesAt
  <2>4. ASSUME NEW b \in Seq(Byte), Len(b) < Len(buf) PROVE p(Len(buf))[b] = f[b]
    <3>1. f[b] = p(Len(b))[b]
      BY Zenon
    <3>2. Len(b) \in Nat /\ Len(b) <= Len(b) /\ Len(b) <= Len(buf)
      BY <2>1, <2>4
    <3>3. p(Len(buf))[b] = p(Len(b))[b]
      BY <1>1, <2>1, <3>2, ParsesUnique
    <3> HIDE DEF f
    <3>4. QED
      BY <3>1, <3>3
  <2> HIDE DEF f
  <2>5. QED
    BY <2>2, <2>3, <2>4, StepCongruence
<1>3. f = [buf \in Seq(Byte) |-> f[buf]]
  BY Zenon
<1> HIDE DEF f
<1>4. f = [buf \in Seq(Byte) |-> Step(f, buf)]
  BY <1>2, <1>3, Zenon
<1>5. Parses(f, Seq(Byte))
  BY <1>4, Zenon DEF Parses
<1>6. QED
  BY <1>5

LEMMA ParserIs == Parses(ParseFrames, Seq(Byte))
  BY ParsesAll, Zenon DEF ParseFrames, Parses, Step, Takes, Total, Rest

\* The three ways to go on.
LEMMA ParseSteps ==
    ASSUME NEW buf \in Seq(Byte)
    PROVE  /\ Waits(buf) => ParseFrames[buf] = [frames |-> <<>>, remaining |-> buf]
           /\ ~Waits(buf) /\ Takes(buf) =>
                ParseFrames[buf] =
                  [frames |-> <<FrameOf(SubSeq(buf, 1, Total(buf)))>> \o ParseFrames[Rest(buf)].frames,
                   remaining |-> ParseFrames[Rest(buf)].remaining]
           /\ ~Waits(buf) /\ ~Takes(buf) => ParseFrames[buf] = ParseFrames[Tail(buf)]
<1>1. ParseFrames[buf] = Step(ParseFrames, buf)
  BY ParserIs, ParsesAt
<1>2. QED
  BY <1>1, Zenon DEF Step

-----------------------------------------------------------------------------
\* A frame is what a verified packet says.
Verified == {f \in Frame : VerifyPacket(f.raw) /\ f = FrameOf(f.raw)}
Parsed == [frames : Seq(Verified), remaining : {buf \in Seq(Byte) : Waits(buf)}]

LEMMA FrameVerified ==
    ASSUME NEW raw \in Seq(Byte), VerifyPacket(raw)
    PROVE  FrameOf(raw) \in Verified
<1>1. Len(raw) >= 6 /\ Len(raw) \in Nat
  BY DEF VerifyPacket
<1>2. raw[2] \in Byte /\ raw[3] \in Byte /\ raw[4] \in Byte
  BY <1>1
<1>3. SubSeq(raw, 5, Len(raw) - 2) \in Seq(Byte)
  BY <1>1, SliceType
<1>4. FrameOf(raw) \in Frame /\ FrameOf(raw).raw = raw
  BY <1>2, <1>3 DEF FrameOf, Frame
<1>5. QED
  BY <1>4 DEF Verified

LEMMA ParsedBy ==
    ASSUME NEW frames \in Seq(Verified), NEW buf \in Seq(Byte), Waits(buf)
    PROVE  [frames |-> frames, remaining |-> buf] \in Parsed
<1> DEFINE Kept == {b \in Seq(Byte) : Waits(b)}
<1>1. buf \in Kept
  OBVIOUS
<1> HIDE DEF Kept
<1>2. [frames |-> frames, remaining |-> buf] \in [frames : Seq(Verified), remaining : Kept]
  BY <1>1
<1>3. QED
  BY <1>2, Zenon DEF Parsed, Kept

\* Whatever the bytes are, the parser ends, what it takes for frames are verified
\* packets, and what it keeps waits for more.
THEOREM ParseFramesType ==
    ASSUME NEW buf \in Seq(Byte)
    PROVE  ParseFrames[buf] \in Parsed
<1> DEFINE Good == {b \in Seq(Byte) : ParseFrames[b] \in Parsed}
<1>1. ASSUME NEW b \in Seq(Byte), \A r \in Seq(Byte) : Len(r) < Len(b) => r \in Good
      PROVE  b \in Good
  <2>1. CASE Waits(b)
    <3>1. ParseFrames[b] = [frames |-> <<>>, remaining |-> b]
      BY <2>1, ParseSteps
    <3>2. <<>> \in Seq(Verified)
      OBVIOUS
    <3>3. [frames |-> <<>>, remaining |-> b] \in Parsed
      BY <2>1, <3>2, ParsedBy
    <3>4. QED
      BY <3>1, <3>3
  <2>2. CASE ~Waits(b) /\ Takes(b)
    <3> DEFINE raw == SubSeq(b, 1, Total(b))
               rest == ParseFrames[Rest(b)]
    <3>1. raw \in Seq(Byte) /\ Rest(b) \in Seq(Byte) /\ Len(Rest(b)) < Len(b)
      BY <2>2, Shorter
    <3>2. FrameOf(raw) \in Verified
      BY <2>2, <3>1, FrameVerified DEF Takes
    <3>3. rest \in Parsed
      BY <1>1, <3>1
    <3>4. ParseFrames[b] = [frames |-> <<FrameOf(raw)>> \o rest.frames, remaining |-> rest.remaining]
      BY <2>2, ParseSteps
    <3> HIDE DEF raw, rest
    <3> DEFINE one == FrameOf(raw)
    <3>5. rest.frames \in Seq(Verified) /\ rest.remaining \in {buffer \in Seq(Byte) : Waits(buffer)}
      BY <3>3 DEF Parsed
    <3>6. one \in Verified
      BY <3>2
    <3>7. <<one>> \o rest.frames \in Seq(Verified)
      <4> HIDE DEF one
      <4> QED
        BY <3>5, <3>6
    <3>8. [frames |-> <<one>> \o rest.frames, remaining |-> rest.remaining] \in Parsed
      BY <3>5, <3>7, ParsedBy
    <3>9. QED
      BY <3>4, <3>8
  <2>3. CASE ~Waits(b) /\ ~Takes(b)
    <3>1. Tail(b) \in Seq(Byte) /\ Len(Tail(b)) < Len(b)
      BY <2>3, Shorter
    <3>2. QED
      BY <1>1, <2>3, <3>1, ParseSteps
  <2>4. QED
    BY <2>1, <2>2, <2>3
<1>2. Seq(Byte) \subseteq Good
  <2> HIDE DEF Good
  <2> QED
    BY <1>1, LengthInduct
<1>3. QED
  BY <1>2

LEMMA ParsedIs ==
    ASSUME NEW buf \in Seq(Byte)
    PROVE  /\ ParseFrames[buf].frames \in Seq(Verified) /\ ParseFrames[buf].frames \in Seq(Frame)
           /\ ParseFrames[buf].remaining \in Seq(Byte) /\ Waits(ParseFrames[buf].remaining)
           /\ ParseFrames[buf] = [frames |-> ParseFrames[buf].frames,
                                  remaining |-> ParseFrames[buf].remaining]
<1>1. ParseFrames[buf] \in Parsed
  BY ParseFramesType
<1>2. Verified \subseteq Frame
  BY DEF Verified
<1> DEFINE p == ParseFrames[buf]
<1> HIDE DEF p
<1>3. p \in Parsed
  BY <1>1 DEF p
<1>4. p.frames \in Seq(Verified) /\ p.remaining \in {b \in Seq(Byte) : Waits(b)}
      /\ p = [frames |-> p.frames, remaining |-> p.remaining]
  BY <1>3 DEF Parsed
<1>5. p.frames \in Seq(Frame)
  BY <1>2, <1>4
<1>6. QED
  BY <1>4, <1>5 DEF p

\* What the parser keeps is shorter than the longest frame.
LEMMA WaitsShort ==
    ASSUME NEW buf \in Seq(Byte), Waits(buf)
    PROVE  Len(buf) <= 255
<1>1. CASE Len(buf) < 6
  BY <1>1
<1>2. CASE Len(buf) >= 6
  <2>1. buf[1] \in Nat /\ buf[1] <= 255
    BY <1>2, ByteIs
  <2>2. QED
    BY <1>2, <2>1 DEF Waits
<1>3. QED
  BY <1>1, <1>2

-----------------------------------------------------------------------------
LEMMA BehindSame ==
    ASSUME NEW S, NEW a \in Seq(S), NEW b \in Seq(S), NEW t \in 1..Len(a)
    PROVE  SubSeq(a \o b, t + 1, Len(a \o b)) = SubSeq(a, t + 1, Len(a)) \o b
<1> DEFINE c == a \o b
           left == SubSeq(c, t + 1, Len(c))
           tail == SubSeq(a, t + 1, Len(a))
           right == tail \o b
<1>1. Len(a) \in Nat /\ Len(b) \in Nat /\ t \in Nat /\ t <= Len(a)
  OBVIOUS
<1>2. c \in Seq(S) /\ Len(c) = Len(a) + Len(b)
      /\ \A i \in 1..(Len(a) + Len(b)) : c[i] = IF i <= Len(a) THEN a[i] ELSE b[i - Len(a)]
  BY ConcatProperties
<1> HIDE DEF c
<1>3. /\ left \in Seq(S) /\ Len(left) = Len(a) + Len(b) - t
      /\ \A i \in 1..(Len(c) - t) : left[i] = c[t + i]
  <2>1. \A i \in (t + 1)..Len(c) : c[i] \in S
    BY <1>1, <1>2
  <2>2. /\ left \in Seq(S)
        /\ Len(left) = IF t + 1 <= Len(c) THEN Len(c) - (t + 1) + 1 ELSE 0
        /\ \A i \in 1..(Len(c) - (t + 1) + 1) : left[i] = c[(t + 1) + i - 1]
    BY <1>1, <1>2, <2>1, SubSeqProperties
  <2> HIDE DEF left
  <2>3. \A i \in 1..(Len(c) - t) : i \in 1..(Len(c) - (t + 1) + 1) /\ (t + 1) + i - 1 = t + i
    BY <1>1, <1>2
  <2>4. \A i \in 1..(Len(c) - t) : left[i] = c[t + i]
    BY <2>2, <2>3
  <2>5. QED
    BY <1>1, <1>2, <2>2, <2>4
<1>4. /\ tail \in Seq(S) /\ Len(tail) = Len(a) - t
      /\ \A i \in 1..(Len(a) - t) : tail[i] = a[t + i]
  <2>1. \A i \in (t + 1)..Len(a) : a[i] \in S
    BY <1>1
  <2>2. /\ tail \in Seq(S)
        /\ Len(tail) = IF t + 1 <= Len(a) THEN Len(a) - (t + 1) + 1 ELSE 0
        /\ \A i \in 1..(Len(a) - (t + 1) + 1) : tail[i] = a[(t + 1) + i - 1]
    BY <1>1, <2>1, SubSeqProperties
  <2> HIDE DEF tail
  <2>3. \A i \in 1..(Len(a) - t) : i \in 1..(Len(a) - (t + 1) + 1) /\ (t + 1) + i - 1 = t + i
    BY <1>1
  <2>4. \A i \in 1..(Len(a) - t) : tail[i] = a[t + i]
    BY <2>2, <2>3
  <2>5. QED
    BY <1>1, <2>2, <2>4
<1> HIDE DEF left, tail
<1>5. /\ right \in Seq(S) /\ Len(right) = Len(a) - t + Len(b)
      /\ \A i \in 1..(Len(a) - t + Len(b)) :
           right[i] = IF i <= Len(a) - t THEN tail[i] ELSE b[i - (Len(a) - t)]
  <2>1. /\ right \in Seq(S) /\ Len(right) = Len(tail) + Len(b)
        /\ \A i \in 1..(Len(tail) + Len(b)) :
             right[i] = IF i <= Len(tail) THEN tail[i] ELSE b[i - Len(tail)]
    BY <1>4, ConcatProperties, Zenon
  <2> HIDE DEF right
  <2>2. QED
    BY <1>4, <2>1
<1> HIDE DEF right
<1>6. ASSUME NEW i \in 1..Len(left) PROVE left[i] = right[i]
  <2>1. /\ i \in 1..(Len(c) - t) /\ t + i \in 1..(Len(a) + Len(b))
        /\ i \in 1..(Len(a) - t + Len(b)) /\ i \in Nat
    BY <1>1, <1>2, <1>3
  <2>2. CASE i <= Len(a) - t
    <3>1. i \in 1..(Len(a) - t) /\ t + i <= Len(a)
      BY <1>1, <2>1, <2>2
    <3>2. QED
      BY <1>2, <1>3, <1>4, <1>5, <2>1, <2>2, <3>1
  <2>3. CASE ~(i <= Len(a) - t)
    <3>1. ~(t + i <= Len(a)) /\ (t + i) - Len(a) = i - (Len(a) - t)
      BY <1>1, <2>1, <2>3
    <3>2. QED
      BY <1>2, <1>3, <1>5, <2>1, <2>3, <3>1
  <2>4. QED
    BY <2>2, <2>3
<1>7. Len(left) = Len(right)
  BY <1>1, <1>3, <1>5
<1>8. left = right
  BY <1>3, <1>5, <1>6, <1>7, SeqEqual
<1>9. QED
  BY <1>8 DEF left, right, tail, c

\* What is cut off the front does not depend on what comes behind.
LEMMA FrontSame ==
    ASSUME NEW a \in Seq(Byte), NEW b \in Seq(Byte), ~Waits(a)
    PROVE  /\ a \o b \in Seq(Byte) /\ ~Waits(a \o b) /\ Total(a \o b) = Total(a)
           /\ Takes(a \o b) <=> Takes(a)
           /\ Takes(a) => /\ SubSeq(a \o b, 1, Total(a)) = SubSeq(a, 1, Total(a))
                          /\ Rest(a \o b) = Rest(a) \o b
           /\ Tail(a \o b) = Tail(a) \o b
<1> DEFINE c == a \o b
<1>1. Len(a) >= 6 /\ a[1] \in Nat /\ Len(a) \in Nat /\ Len(b) \in Nat
  BY Shorter, ByteIs
<1>2. c \in Seq(Byte) /\ Len(c) = Len(a) + Len(b) /\ \A i \in 1..Len(a) : c[i] = a[i]
  OBVIOUS
<1>3. \A i \in 1..Len(b) : c[Len(a) + i] = b[i]
  OBVIOUS
<1>4. c[1] = a[1]
  BY <1>1, <1>2
<1>5. ~Waits(c) /\ Total(c) = Total(a)
  BY <1>1, <1>2, <1>4 DEF Waits, Total
<1>6. Tail(c) = Tail(a) \o b
  BY <1>1, <1>2
<1>7. ASSUME Total(a) >= 6 PROVE SubSeq(c, 1, Total(a)) = SubSeq(a, 1, Total(a))
  <2>1. Total(a) \in 6..Len(a)
    BY <1>1, <1>7 DEF Total, Waits
  <2>2. QED
    BY <1>1, <1>2, <2>1
<1>8. Takes(c) <=> Takes(a)
  BY <1>5, <1>7 DEF Takes
<1>9. ASSUME Takes(a) PROVE Rest(c) = Rest(a) \o b
  <2>1. Total(a) \in 6..Len(a) /\ Total(a) >= 6
    BY <1>9, Shorter
  <2>2. SubSeq(c, Total(a) + 1, Len(c)) = SubSeq(a, Total(a) + 1, Len(a)) \o b
    <3>1. Total(a) \in 1..Len(a)
      BY <1>1, <2>1
    <3>2. QED
      BY <3>1, BehindSame, Zenon
  <2>3. QED
    BY <1>5, <2>2 DEF Rest
<1>10. QED
  BY <1>2, <1>5, <1>6, <1>7, <1>8, <1>9 DEF Takes

\* However a stream is cut into packets, the frames are the same: those of the first
\* piece, then those of what the parser kept of it with the next.
THEOREM CutsDoNotMatter ==
    ASSUME NEW a \in Seq(Byte), NEW b \in Seq(Byte)
    PROVE  LET first == ParseFrames[a]
               next == ParseFrames[first.remaining \o b]
           IN ParseFrames[a \o b] = [frames |-> first.frames \o next.frames,
                                     remaining |-> next.remaining]
<1> DEFINE Joined(x) ==
             LET first == ParseFrames[x]
                 next == ParseFrames[first.remaining \o b]
             IN [frames |-> first.frames \o next.frames, remaining |-> next.remaining]
           Good == {x \in Seq(Byte) : ParseFrames[x \o b] = Joined(x)}
<1>1. ASSUME NEW x \in Seq(Byte), \A r \in Seq(Byte) : Len(r) < Len(x) => r \in Good
      PROVE  x \in Good
  <2>1. CASE Waits(x)
    <3> DEFINE p == ParseFrames[x \o b]
    <3>1. ParseFrames[x] = [frames |-> <<>>, remaining |-> x]
      BY <2>1, ParseSteps
    <3>2. x \o b \in Seq(Byte)
      OBVIOUS
    <3>3. p.frames \in Seq(Verified) /\ p = [frames |-> p.frames, remaining |-> p.remaining]
      BY <3>2, ParsedIs
    <3>4. Joined(x) = [frames |-> <<>> \o p.frames, remaining |-> p.remaining]
      BY <3>1
    <3> HIDE DEF p, Joined
    <3>5. <<>> \o p.frames = p.frames
      BY <3>3
    <3>6. p = Joined(x)
      BY <3>3, <3>4, <3>5
    <3>7. QED
      BY <3>6 DEF p
  <2>2. CASE ~Waits(x) /\ Takes(x)
    <3> DEFINE one == FrameOf(SubSeq(x, 1, Total(x)))
               rest == ParseFrames[Rest(x)]
               next == ParseFrames[rest.remaining \o b]
    <3>1. Rest(x) \in Seq(Byte) /\ Len(Rest(x)) < Len(x)
      BY <2>2, Shorter
    <3>2. ParseFrames[x] = [frames |-> <<one>> \o rest.frames, remaining |-> rest.remaining]
      BY <2>2, ParseSteps
    <3>3. ParseFrames[x \o b] = [frames |-> <<one>> \o ParseFrames[Rest(x) \o b].frames,
                                 remaining |-> ParseFrames[Rest(x) \o b].remaining]
      <4>1. x \o b \in Seq(Byte) /\ ~Waits(x \o b) /\ Takes(x \o b) /\ Total(x \o b) = Total(x)
            /\ SubSeq(x \o b, 1, Total(x)) = SubSeq(x, 1, Total(x)) /\ Rest(x \o b) = Rest(x) \o b
        BY <2>2, FrontSame
      <4> DEFINE c == x \o b
      <4> HIDE DEF c
      <4>2. c \in Seq(Byte) /\ ~Waits(c) /\ Takes(c) /\ Total(c) = Total(x)
            /\ SubSeq(c, 1, Total(x)) = SubSeq(x, 1, Total(x)) /\ Rest(c) = Rest(x) \o b
        BY <4>1 DEF c
      <4>3. ParseFrames[c] = [frames |-> <<FrameOf(SubSeq(c, 1, Total(c)))>> \o ParseFrames[Rest(c)].frames,
                              remaining |-> ParseFrames[Rest(c)].remaining]
        BY <4>2, ParseSteps, Zenon
      <4> HIDE DEF Joined, rest, next
      <4>4. QED
        BY <4>2, <4>3 DEF c
    <3>4. ParseFrames[Rest(x) \o b] = [frames |-> rest.frames \o next.frames, remaining |-> next.remaining]
      BY <1>1, <3>1
    <3>5. Joined(x) = [frames |-> (<<one>> \o rest.frames) \o next.frames, remaining |-> next.remaining]
      BY <3>2
    <3>6. rest.frames \in Seq(Verified) /\ next.frames \in Seq(Verified)
      <4>1. rest.frames \in Seq(Verified) /\ rest.remaining \in Seq(Byte)
        BY <3>1, ParsedIs
      <4>2. rest.remaining \o b \in Seq(Byte)
        BY <4>1
      <4>3. QED
        BY <4>1, <4>2, ParsedIs
    <3> HIDE DEF one, rest, next, Joined
    <3>7. (<<one>> \o rest.frames) \o next.frames = <<one>> \o (rest.frames \o next.frames)
      <4> DEFINE X == Verified \cup {one}
                 head == <<one>>
                 fs == rest.frames
                 ns == next.frames
      <4>1. head \in Seq(X) /\ fs \in Seq(X) /\ ns \in Seq(X)
        BY <3>6
      <4> HIDE DEF X, head, fs, ns
      <4>2. (head \o fs) \o ns = head \o (fs \o ns)
        BY <4>1, ConcatAssociative, SMTT(30)
      <4>3. QED
        BY <4>2 DEF head, fs, ns
    <3> DEFINE tail == ParseFrames[Rest(x) \o b]
               both == rest.frames \o next.frames
               kept == next.remaining
    <3>8. tail.frames = rest.frames \o next.frames /\ tail.remaining = next.remaining
      <4>1. tail = [frames |-> both, remaining |-> kept]
        BY <3>4
      <4> HIDE DEF tail, both, kept
      <4>2. tail.frames = both /\ tail.remaining = kept
        BY <4>1
      <4>3. QED
        BY <4>2 DEF both, kept
    <3> HIDE DEF tail
    <3>9. ParseFrames[x \o b] = [frames |-> <<one>> \o tail.frames, remaining |-> tail.remaining]
      BY <3>3 DEF tail
    <3>10. ParseFrames[x \o b] = Joined(x)
      BY <3>5, <3>7, <3>8, <3>9
    <3>11. QED
      BY <3>10
  <2>3. CASE ~Waits(x) /\ ~Takes(x)
    <3>1. Tail(x) \in Seq(Byte) /\ Len(Tail(x)) < Len(x)
      BY <2>3, Shorter
    <3>2. Tail(x) \in Good
      BY <1>1, <3>1
    <3>3. ParseFrames[x] = ParseFrames[Tail(x)]
      BY <2>3, ParseSteps
    <3>4. ParseFrames[x \o b] = ParseFrames[Tail(x) \o b]
      BY <2>3, FrontSame, ParseSteps
    <3>5. Joined(x) = Joined(Tail(x))
      BY <3>3
    <3> HIDE DEF Joined
    <3>6. QED
      BY <3>2, <3>4, <3>5
  <2>4. QED
    BY <2>1, <2>2, <2>3
<1>2. Seq(Byte) \subseteq Good
  <2> HIDE DEF Good
  <2> QED
    BY <1>1, LengthInduct
<1>3. QED
  BY <1>2

-----------------------------------------------------------------------------
\* Every mask has a port.
LEMMA MaskHasPort ==
    ASSUME NEW mask \in Byte
    PROVE  PortsOf(mask) # {} /\ PortsOf(mask) \subseteq 0..7
<1> DEFINE n == IF mask = 0 THEN 1 ELSE mask
<1>1. n \in 1..255
  BY ByteIs
<1>2. /\ 2^0 = 1 /\ 2^1 = 2 /\ 2^2 = 4 /\ 2^3 = 8 
      /\ 2^4 = 16 /\ 2^5 = 32 /\ 2^6 = 64 /\ 2^7 = 128
  OBVIOUS
<1> HIDE DEF n
<1>3. \E i \in 0..7 : Bit(n, i) = 1
  <2> SUFFICES ASSUME \A i \in 0..7 : Bit(n, i) # 1 PROVE FALSE
    OBVIOUS
  <2>1. /\ Bit(n, 0) # 1 /\ Bit(n, 1) # 1 /\ Bit(n, 2) # 1 /\ Bit(n, 3) # 1
        /\ Bit(n, 4) # 1 /\ Bit(n, 5) # 1 /\ Bit(n, 6) # 1 /\ Bit(n, 7) # 1
    OBVIOUS
  <2>2. /\ Bit(n, 0) = n % 2 /\ Bit(n, 1) = (n \div 2) % 2
        /\ Bit(n, 2) = (n \div 4) % 2 /\ Bit(n, 3) = (n \div 8) % 2
    BY <1>1, <1>2 DEF Bit
  <2>3. /\ Bit(n, 4) = (n \div 16) % 2 /\ Bit(n, 5) = (n \div 32) % 2
        /\ Bit(n, 6) = (n \div 64) % 2 /\ Bit(n, 7) = (n \div 128) % 2
    BY <1>1, <1>2 DEF Bit
  <2>4. QED
    BY <1>1, <2>1, <2>2, <2>3
<1>4. QED
  BY <1>3 DEF PortsOf, n

\* Port b is the next one of ports after port a.
Follows(ports, a, b) ==
    \E far \in 0..7 :
      /\ b = (a + 1 + far) % 8 /\ b \in ports
      /\ \A j \in 0..(far - 1) : (a + 1 + j) % 8 \notin ports

LEMMA AddMod ==
    ASSUME NEW a \in Nat, NEW c \in Nat
    PROVE  ((a % 8) + c) % 8 = (a + c) % 8
  OBVIOUS

LEMMA NextFollows ==
    ASSUME NEW mask \in Byte, NEW a \in 0..7
    PROVE  LET next == NextInventoryAntenna(mask, (a + 1) % 8)
           IN \E b \in PortsOf(mask) : /\ Follows(PortsOf(mask), a, b)
                                       /\ next.antenna = 128 + b /\ next.next = (b + 1) % 8
<1> DEFINE ports == PortsOf(mask)
           start == (a + 1) % 8
           K == {k \in 0..7 : (start + k) % 8 \in ports}
           Nearest(k) == /\ (start + k) % 8 \in ports
                         /\ \A j \in 0..(k - 1) : (start + j) % 8 \notin ports
           far == CHOOSE k \in 0..7 : Nearest(k)
<1>1. ports # {} /\ ports \subseteq 0..7 /\ start \in 0..7
  BY MaskHasPort
<1>2. K # {} /\ K \in SUBSET Nat
  <2>1. PICK p \in ports : p \in 0..7
    BY <1>1
  <2> DEFINE k == (p - start + 8) % 8
  <2>2. k \in 0..7 /\ (start + k) % 8 = p
    BY <1>1, <2>1
  <2> HIDE DEF k, start, ports
  <2>3. k \in K
    BY <2>1, <2>2
  <2>4. QED
    BY <2>3
<1>3. \E k \in 0..7 : Nearest(k)
  <2>1. PICK k \in K : \A l \in K : k <= l
    <3> HIDE DEF K
    <3> QED
      BY <1>2, Smallest
  <2>2. ASSUME NEW j \in 0..(k - 1) PROVE (start + j) % 8 \notin ports
    <3>1. j \in 0..7 /\ ~(k <= j)
      BY <2>1
    <3>2. j \notin K
      BY <2>1, <3>1
    <3> HIDE DEF start, ports
    <3>3. QED
      BY <3>1, <3>2
  <2>3. QED
    BY <2>1, <2>2
<1>4. far \in 0..7 /\ Nearest(far)
  <2> HIDE DEF Nearest
  <2> QED
    BY <1>3
<1> DEFINE b == (start + far) % 8
<1>5. NextInventoryAntenna(mask, start) = [antenna |-> 128 + b, next |-> (b + 1) % 8]
  BY Zenon DEF NextInventoryAntenna
<1> HIDE DEF far, ports
<1>6. b = (a + 1 + far) % 8 /\ \A j \in 0..(far - 1) : (a + 1 + j) % 8 \notin ports
  <2>1. \A j \in Nat : (start + j) % 8 = (a + 1 + j) % 8
    BY AddMod
  <2>2. QED
    BY <1>4, <2>1
<1> HIDE DEF start, b
<1>7. Follows(ports, a, b) /\ b \in ports
  BY <1>4, <1>6 DEF Follows, b
<1>8. QED
  BY <1>5, <1>7 DEF ports, start, b

\* Ports that have the next one of each among them are all.
LEMMA ClosedIsAll ==
    ASSUME NEW ports \in SUBSET (0..7), NEW some \in SUBSET ports, some # {},
           \A a \in some : \E b \in some : Follows(ports, a, b)
    PROVE  some = ports
<1> SUFFICES ASSUME NEW x \in ports, x \notin some PROVE FALSE
  OBVIOUS
<1> DEFINE K == {d \in 1..7 : \E w \in some : (w + d) % 8 = x}
<1>1. K # {} /\ K \in SUBSET Nat
  <2>1. PICK w \in some : w \in 0..7 /\ w # x
    OBVIOUS
  <2> DEFINE d == (x - w + 8) % 8
  <2>2. d \in 1..7 /\ (w + d) % 8 = x
    BY <2>1
  <2> HIDE DEF d
  <2>3. d \in K
    BY <2>2
  <2>4. K \subseteq 1..7
    BY Zenon
  <2> HIDE DEF K
  <2>5. QED
    BY <2>3, <2>4
<1>2. PICK d \in K : \A k \in K : d <= k
  <2> HIDE DEF K
  <2> QED
    BY <1>1, Smallest
<1>3. PICK w \in some : (w + d) % 8 = x
  BY <1>2
<1>4. PICK b \in some : Follows(ports, w, b)
  OBVIOUS
<1>5. PICK far \in 0..7 : /\ b = (w + 1 + far) % 8
                          /\ \A j \in 0..(far - 1) : (w + 1 + j) % 8 \notin ports
  BY <1>4 DEF Follows
<1>6. far < d
  <2> SUFFICES ASSUME ~(far < d) PROVE FALSE
    OBVIOUS
  <2>1. d - 1 \in 0..(far - 1) /\ w + 1 + (d - 1) = w + d
    BY <1>2
  <2>2. QED
    BY <1>3, <1>5, <2>1
<1>7. far + 1 # d
  BY <1>3, <1>5
<1>8. d - far - 1 \in 1..7 /\ (b + (d - far - 1)) % 8 = x
  <2>1. d \in 1..7
    BY <1>2
  <2>2. d - far - 1 \in 1..7
    BY <1>6, <1>7, <2>1
  <2>3. (b + (d - far - 1)) % 8 = ((w + 1 + far) + (d - far - 1)) % 8
    BY <1>5, <2>2, AddMod
  <2>4. (w + 1 + far) + (d - far - 1) = w + d
    BY <2>1
  <2>5. QED
    BY <1>3, <2>2, <2>3, <2>4
<1> DEFINE e == d - far - 1
<1>9. e \in K /\ e \in Int /\ e < d /\ d \in Int
  BY <1>2, <1>8
<1> HIDE DEF K, e
<1>10. d <= e
  BY <1>2, <1>9
<1>11. QED
  BY <1>9, <1>10

\* Any n asked in a row, where each follows the one before, are the n ports.
Antennas(ports) == {128 + i : i \in ports}

Asks(list, ports) ==
    /\ list \in Seq(Antennas(ports))
    /\ \A k \in 1..(Len(list) - 1) : Follows(ports, list[k] - 128, list[k + 1] - 128)

LEMMA UpTo ==
    ASSUME NEW n \in Nat
    PROVE  Cardinality(1..n) = n
<1>1. Cardinality(1..n) = IF 1 > n THEN 0 ELSE n - 1 + 1
  BY FS_Interval
<1>2. QED
  BY <1>1

LEMMA RotationCovers ==
    ASSUME NEW ports \in SUBSET (0..7), NEW list, Asks(list, ports),
           NEW n, n = Cardinality(Antennas(ports)), NEW k \in 0..(Len(list) - n)
    PROVE  {list[k + i] : i \in 1..n} = Antennas(ports)
<1> DEFINE antennas == Antennas(ports)
           f == [i \in 1..n |-> list[k + i]]
<1>0. IsFiniteSet(antennas) /\ n \in Nat
  <2>1. antennas \in SUBSET Nat /\ \A a \in antennas : a <= 135
    BY DEF Antennas
  <2>2. IsFiniteSet(antennas)
    <3> HIDE DEF antennas
    <3> QED
      BY <2>1, FS_BoundedSetOfNaturals
  <2>3. QED
    BY <2>2, FS_CardinalityType
<1>1. Len(list) \in Nat /\ k \in Nat /\ k + n <= Len(list) /\ list \in Seq(antennas)
  BY <1>0 DEF Asks
<1>2. f \in [1..n -> antennas]
  <2>1. ASSUME NEW i \in 1..n PROVE list[k + i] \in antennas
    <3>1. k + i \in 1..Len(list)
      BY <1>0, <1>1
    <3>2. QED
      BY <1>1, <3>1
  <2>2. QED
    BY <2>1
<1>3. ASSUME NEW i \in 1..n, NEW j \in 1..n, i < j, f[i] = f[j] PROVE FALSE
  <2> DEFINE some == {p \in ports : \E l \in i..(j - 1) : list[k + l] = 128 + p}
             g == [l \in i..(j - 1) |-> list[k + l]]
  <2>1. ASSUME NEW l \in i..(j - 1)
        PROVE  \E p \in some : list[k + l] = 128 + p
    <3>1. k + l \in 1..Len(list)
      BY <1>0, <1>1
    <3>2. list[k + l] \in antennas
      BY <1>1, <3>1
    <3>3. PICK p \in ports : list[k + l] = 128 + p
      BY <3>2 DEF Antennas
    <3>4. QED
      BY <3>3
  <2>2. some # {}
    <3>1. i \in i..(j - 1)
      BY <1>0, <1>3
    <3>2. QED
      BY <2>1, <3>1
  <2>3. ASSUME NEW a \in some PROVE \E b \in some : Follows(ports, a, b)
    <3>1. PICK l \in i..(j - 1) : list[k + l] = 128 + a
      OBVIOUS
    <3>2. /\ k + l \in 1..(Len(list) - 1) /\ a \in 0..7
          /\ k + l + 1 = k + (l + 1) /\ l \in Int
      BY <1>0, <1>1
    <3>3. Follows(ports, list[k + l] - 128, list[k + l + 1] - 128)
      BY <3>2 DEF Asks
    <3>4. list[k + l] - 128 = a
      BY <3>1, <3>2
    <3>5. \E b \in some : list[k + l + 1] = 128 + b
      <4>1. CASE l < j - 1
        <5>1. l + 1 \in i..(j - 1)
          BY <1>0, <3>2, <4>1
        <5> HIDE DEF some
        <5>2. PICK b \in some : list[k + (l + 1)] = 128 + b
          BY <2>1, <5>1
        <5>3. QED
          BY <3>2, <5>2
      <4>2. CASE l = j - 1
        <5>1. l + 1 = j /\ i \in i..(j - 1)
          BY <1>0, <1>3, <3>2, <4>2
        <5>2. list[k + l + 1] = list[k + i]
          BY <1>3, <3>2, <5>1
        <5> HIDE DEF some
        <5>3. QED
          BY <2>1, <5>1, <5>2, SMTT(30)
      <4>3. QED
        BY <1>0, <3>2, <4>1, <4>2
    <3>6. PICK b \in some : list[k + l + 1] = 128 + b
      BY <3>5
    <3>7. list[k + l + 1] - 128 = b
      <4>1. b \in Int
        OBVIOUS
      <4> HIDE DEF some
      <4>2. QED
        BY <3>6, <4>1
    <3>8. QED
      BY <3>3, <3>4, <3>7
  <2>4. some = ports
    <3>1. some \in SUBSET ports
      BY Zenon
    <3> HIDE DEF some
    <3>2. QED
      BY <2>2, <2>3, <3>1, ClosedIsAll
  <2>5. g \in Surjection(i..(j - 1), antennas)
    <3>1. \A x \in antennas : \E l \in i..(j - 1) : g[l] = x
      BY <2>4 DEF Antennas
    <3>2. g \in [i..(j - 1) -> antennas]
      BY <2>1 DEF Antennas
    <3>3. QED
      BY <3>1, <3>2 DEF Surjection
  <2>6. IsFiniteSet(i..(j - 1)) /\ Cardinality(i..(j - 1)) < n
    <3>1. i \in Int /\ j - 1 \in Int /\ (j - 1) - i + 1 < n /\ 0 < n
      BY <1>0
    <3>2. QED
      BY <3>1, FS_Interval
  <2> HIDE DEF g
  <2>7. n <= Cardinality(i..(j - 1)) /\ Cardinality(i..(j - 1)) \in Nat
    BY <2>5, <2>6, FS_Surjection, FS_CardinalityType
  <2>8. QED
    BY <1>0, <2>6, <2>7
<1>4. f \in Injection(1..n, antennas)
  <2>1. \A i, j \in 1..n : f[i] = f[j] => i = j
    <3>1. ASSUME NEW i \in 1..n, NEW j \in 1..n, f[i] = f[j] PROVE i = j
      <4>1. ~(i < j) /\ ~(j < i)
        <5> HIDE DEF f
        <5> QED
          BY <1>3, <3>1
      <4>2. QED
        BY <1>0, <4>1
    <3>2. QED
      BY <3>1
  <2> HIDE DEF f
  <2>2. QED
    BY <1>2, <2>1 DEF Injection, IsInjective
<1>5. f \in Surjection(1..n, antennas)
  <2>1. Cardinality(1..n) = n
    BY <1>0, UpTo
  <2> HIDE DEF f
  <2>2. QED
    BY <1>0, <1>4, <2>1, FS_Injection
<1>6. \A x \in antennas : \E i \in 1..n : f[i] = x
  <2> HIDE DEF f
  <2> QED
    BY <1>5 DEF Surjection
<1>7. QED
  BY <1>2, <1>6

-----------------------------------------------------------------------------
\* What is recorded of frames, besides the counters.
LEMMA SeenOfTags ==
    ASSUME cfg \in Configs, NEW t \in Counted, NEW epcs \in Seq(Seq(Byte))
    PROVE  FoldLeft(RecordTag, t, epcs).seen = t.seen \cup (ToSet(epcs) \ {<<>>})
<1>1. PICK run : /\ run[0] = t /\ run[Len(epcs)] = Record!Fold(t, epcs)
                 /\ \A k \in 1..Len(epcs) : run[k] = RecordTag(run[k - 1], epcs[k])
  BY Record!FoldRuns
<1> DEFINE Upto(k) == {epcs[j] : j \in 1..k} \ {<<>>}
           K == {k \in Nat : k <= Len(epcs) => run[k] \in Counted /\ run[k].seen = t.seen \cup Upto(k)}
<1>2. 0 \in K
  <2>1. Upto(0) = {}
    OBVIOUS
  <2> HIDE DEF Upto
  <2>2. QED
    BY <1>1, <2>1
<1>3. ASSUME NEW k \in K \cap Nat PROVE k + 1 \in K
  <2> SUFFICES ASSUME k + 1 <= Len(epcs)
               PROVE  run[k + 1] \in Counted /\ run[k + 1].seen = t.seen \cup Upto(k + 1)
    OBVIOUS
  <2> DEFINE epc == epcs[k + 1]
             before == run[k]
  <2>1. k + 1 \in 1..Len(epcs) /\ (k + 1) - 1 = k /\ k <= Len(epcs) /\ epc \in Seq(Byte)
    OBVIOUS
  <2>2. before \in Counted /\ before.seen = t.seen \cup Upto(k)
    BY <2>1
  <2>3. run[k + 1] = RecordTag(before, epc)
    BY <1>1, <2>1
  <2>4. Upto(k + 1) = Upto(k) \cup ({epc} \ {<<>>})
    <3>1. 1..(k + 1) = (1..k) \cup {k + 1}
      OBVIOUS
    <3>2. QED
      BY <3>1
  <2> HIDE DEF epc, before, Upto
  <2>5. run[k + 1] \in Counted
    BY <2>1, <2>2, <2>3, TagCounted
  <2>6. RecordTag(before, epc).seen = before.seen \cup ({epc} \ {<<>>})
    <3>1. before \in Tags
      BY <2>2, Counters
    <3>2. CASE epc = <<>>
      BY <3>2 DEF RecordTag
    <3>3. CASE epc # <<>>
      BY <3>1, <3>3 DEF RecordTag, Tags
    <3>4. QED
      BY <3>2, <3>3
  <2>7. QED
    BY <2>2, <2>3, <2>4, <2>5, <2>6
<1>4. Len(epcs) \in K
  <2> HIDE DEF K
  <2>1. Len(epcs) \in Nat
    OBVIOUS
  <2>2. QED
    BY <1>2, <1>3, <2>1, NatInduct
<1>5. Record!Fold(t, epcs).seen = t.seen \cup Upto(Len(epcs))
  BY <1>1, <1>4
<1>6. Upto(Len(epcs)) = ToSet(epcs) \ {<<>>}
  BY DEF ToSet
<1> HIDE DEF Upto
<1>7. QED
  BY <1>5, <1>6, RecordFolds

LEMMA SeenWithoutTag ==
    ASSUME NEW t \in Counted
    PROVE  NoTagHit(t).seen = t.seen /\ \A status : ObserveNoTag(t, status).seen = t.seen
<1>1. t \in Tags
  BY Counters
<1>2. NoTagHit(t).seen = t.seen
  BY <1>1 DEF NoTagHit, Tags
<1>3. QED
  BY <1>2 DEF ObserveNoTag

LEMMA SeenOfInventoryFrame ==
    ASSUME cfg \in Configs, NEW t \in Counted, NEW f \in Frame
    PROVE  HandleInventoryFrame(t, f).seen
             = t.seen \cup (ToSet(ParseInventoryG2Tags(f).epcs) \ {<<>>})
<1> DEFINE found == ParseInventoryG2Tags(f)
<1>1. found.epcs \in Seq(Seq(Byte)) /\ (~found.ok => found.epcs = <<>>)
  <2>1. ~found.ok => found.epcs = <<>>
    BY DEF ParseInventoryG2Tags
  <2>2. QED
    BY <2>1, TagsOfPayload
<1>2. HandleInventoryFrame(t, f) =
        IF ~found.ok THEN t
        ELSE IF found.epcs # <<>> THEN FoldLeft(RecordTag, t, found.epcs)
        ELSE IF f.status = StatusSuccess THEN t ELSE ObserveNoTag(t, f.status)
  BY DEF HandleInventoryFrame
<1>3. found.epcs = <<>> => ToSet(found.epcs) = {}
  BY DEF ToSet
<1>4. FoldLeft(RecordTag, t, found.epcs).seen = t.seen \cup (ToSet(found.epcs) \ {<<>>})
  BY <1>1, SeenOfTags
<1>5. ObserveNoTag(t, f.status).seen = t.seen
  BY SeenWithoutTag
<1> HIDE DEF found
<1>6. HandleInventoryFrame(t, f).seen = t.seen \cup (ToSet(found.epcs) \ {<<>>})
  BY <1>1, <1>2, <1>3, <1>4, <1>5
<1>7. QED
  BY <1>6 DEF found

LEMMA SeenOfSingleFrame ==
    ASSUME NEW t \in Counted, NEW f \in Frame, f.command = CmdInventorySingle
    PROVE  HandleInventorySingleFrame(t, f).seen = t.seen \cup ReportsTo(client, f)
<1> DEFINE result == ParseSingleInventoryResult(f)
           tagged == result.ok /\ result.count > 0 /\ result.epc # <<>>
           some == result.ok /\ result.count > 0
           empty == [t EXCEPT !.noTagHit = 0, !.quiet = 0, !.seen = @ \cup {<<>>},
                              !.uniqueTags = IF <<>> \in t.seen THEN @ ELSE @ + 1]
<1>1. t \in Tags
  BY Counters
<1>2. ReportsTo(client, f) =
        IF some /\ (client = "sdk" \/ f.status = StatusNoTag)
        THEN IF client = "sdk" THEN {result.epc} \ {<<>>} ELSE {result.epc}
        ELSE {}
  BY DEF ReportsTo, CmdInventory, CmdInventorySingle
<1>3. /\ ObserveNoTag(t, f.status).seen = t.seen
      /\ RecordTag(t, result.epc).seen = t.seen \cup ({result.epc} \ {<<>>})
      /\ empty.seen = t.seen \cup {<<>>}
  <2>1. ObserveNoTag(t, f.status).seen = t.seen
    BY SeenWithoutTag
  <2>2. RecordTag(t, result.epc).seen = t.seen \cup ({result.epc} \ {<<>>})
    <3> HIDE DEF result
    <3>1. CASE result.epc = <<>>
      BY <3>1 DEF RecordTag
    <3>2. CASE result.epc # <<>>
      BY <1>1, <3>2 DEF RecordTag, Tags
    <3>3. QED
      BY <3>1, <3>2
  <2>3. empty.seen = t.seen \cup {<<>>}
    BY <1>1 DEF Tags
  <2>4. QED
    BY <2>1, <2>2, <2>3
<1>4. result.count \in Int /\ (result.count = 0 \/ result.count > 0)
  <2>1. f.data \in Seq(Byte)
    BY DEF Frame
  <2>2. ASSUME result.ok PROVE result.count \in Byte
    BY <2>1, <2>2 DEF ParseSingleInventoryResult
  <2>3. ~result.ok => result.count = 0
    BY DEF ParseSingleInventoryResult
  <2>4. result.ok \in BOOLEAN
    BY DEF ParseSingleInventoryResult
  <2> HIDE DEF result
  <2>5. QED
    BY <2>2, <2>3, <2>4, ByteIs
<1>5. HandleInventorySingleFrame(t, f) =
        IF client = "sdk"
        THEN IF tagged THEN RecordTag(t, result.epc)
             ELSE IF result.ok THEN ObserveNoTag(t, f.status) ELSE t
        ELSE IF f.status = StatusNoTagOrTimeout THEN ObserveNoTag(t, f.status)
             ELSE IF f.status # StatusNoTag \/ ~result.ok THEN t
             ELSE IF tagged THEN RecordTag(t, result.epc)
             ELSE IF result.count = 0 THEN ObserveNoTag(t, f.status) ELSE empty
  BY DEF HandleInventorySingleFrame
<1>6. StatusNoTag # StatusNoTagOrTimeout
  BY DEF StatusNoTag, StatusNoTagOrTimeout
<1> HIDE DEF result, empty
<1>7. CASE client = "sdk"
  BY <1>2, <1>3, <1>4, <1>5, <1>7
<1>8. CASE client # "sdk"
  BY <1>2, <1>3, <1>4, <1>5, <1>6, <1>8
<1>9. QED
  BY <1>7, <1>8

\* A frame adds to the EPCs seen those that it reports, and a history does not.
LEMMA SeenOfFrame ==
    ASSUME cfg \in Configs, NEW t \in Counted, NEW f \in Frame
    PROVE  HandleFrame(t, f).seen = t.seen \cup ReportsTo(client, f)
<1>0. CmdInventory # CmdInventorySingle
  BY DEF CmdInventory, CmdInventorySingle
<1>1. ASSUME NEW after, Outcome(t, after) PROVE Quiet(t, after, f).seen = after.seen
  <2> DEFINE calm == [after EXCEPT !.quiet = 0]
             more == [after EXCEPT !.quiet = @ + 1]
  <2>1. t \in Tags /\ (after \in Tags \/ after = NoTagHit(t))
    BY <1>1, Counters DEF Outcome
  <2>2. calm.seen = after.seen /\ more.seen = after.seen
    BY <2>1 DEF NoTagHit, Tags
  <2>3. Quiet(t, after, f) \in {calm, more, after}
    BY Zenon DEF Quiet
  <2> HIDE DEF calm, more
  <2>4. QED
    BY <2>2, <2>3
<1>2. CASE f.command = CmdInventory
  <2> DEFINE after == HandleInventoryFrame(t, f)
  <2>1. HandleFrame(t, f) = Quiet(t, after, f)
    BY <1>0, <1>2 DEF HandleFrame
  <2>2. Outcome(t, after)
    BY InventoryFrameOutcome
  <2>3. ReportsTo(client, f) = ToSet(ParseInventoryG2Tags(f).epcs) \ {<<>>}
    BY <1>0, <1>2 DEF ReportsTo
  <2>4. after.seen = t.seen \cup ReportsTo(client, f)
    BY <2>3, SeenOfInventoryFrame
  <2> HIDE DEF after
  <2>5. QED
    BY <1>1, <2>1, <2>2, <2>4
<1>3. CASE f.command = CmdInventorySingle
  <2> DEFINE after == HandleInventorySingleFrame(t, f)
  <2>1. HandleFrame(t, f) = Quiet(t, after, f)
    BY <1>0, <1>3 DEF HandleFrame
  <2>2. Outcome(t, after)
    BY SingleFrameOutcome
  <2>3. after.seen = t.seen \cup ReportsTo(client, f)
    BY <1>3, SeenOfSingleFrame
  <2> HIDE DEF after
  <2>4. QED
    BY <1>1, <2>1, <2>2, <2>3
<1>4. CASE f.command \notin {CmdInventory, CmdInventorySingle}
  BY <1>4 DEF HandleFrame, ReportsTo
<1>5. QED
  BY <1>2, <1>3, <1>4

LEMMA SeenOfFrames ==
    ASSUME cfg \in Configs, NEW t \in Counted, NEW frames \in Seq(Frame)
    PROVE  FoldLeft(HandleFrame, t, frames).seen
             = t.seen \cup UNION {ReportsTo(client, f) : f \in ToSet(frames)}
<1>1. PICK run : /\ run[0] = t /\ run[Len(frames)] = Frames!Fold(t, frames)
                 /\ \A k \in 1..Len(frames) : run[k] = HandleFrame(run[k - 1], frames[k])
  BY Frames!FoldRuns
<1> DEFINE Upto(k) == UNION {ReportsTo(client, frames[j]) : j \in 1..k}
           K == {k \in Nat : k <= Len(frames) =>
                               run[k] \in Counted /\ run[k].seen = t.seen \cup Upto(k)}
<1>2. 0 \in K
  <2>1. Upto(0) = {}
    OBVIOUS
  <2> HIDE DEF Upto
  <2>2. QED
    BY <1>1, <2>1
<1>3. ASSUME NEW k \in K \cap Nat PROVE k + 1 \in K
  <2> SUFFICES ASSUME k + 1 <= Len(frames)
               PROVE  run[k + 1] \in Counted /\ run[k + 1].seen = t.seen \cup Upto(k + 1)
    OBVIOUS
  <2> DEFINE f == frames[k + 1]
             before == run[k]
             reports == ReportsTo(client, f)
  <2>1. k + 1 \in 1..Len(frames) /\ (k + 1) - 1 = k /\ k <= Len(frames) /\ f \in Frame
    OBVIOUS
  <2>2. before \in Counted /\ before.seen = t.seen \cup Upto(k)
    BY <2>1
  <2>3. run[k + 1] = HandleFrame(before, f)
    BY <1>1, <2>1
  <2>4. Upto(k + 1) = Upto(k) \cup reports
    <3>1. 1..(k + 1) = (1..k) \cup {k + 1}
      OBVIOUS
    <3>2. QED
      BY <3>1
  <2> HIDE DEF f, before, Upto
  <2>5. run[k + 1] \in Counted
    BY <2>1, <2>2, <2>3, FrameCounted
  <2>6. HandleFrame(before, f).seen = before.seen \cup reports
    BY <2>1, <2>2, SeenOfFrame
  <2> HIDE DEF reports
  <2>7. QED
    BY <2>2, <2>3, <2>4, <2>5, <2>6
<1>4. Len(frames) \in K
  <2> HIDE DEF K
  <2>1. Len(frames) \in Nat
    OBVIOUS
  <2>2. QED
    BY <1>2, <1>3, <2>1, NatInduct
<1>5. Frames!Fold(t, frames).seen = t.seen \cup Upto(Len(frames))
  BY <1>1, <1>4
<1>6. Upto(Len(frames)) = UNION {ReportsTo(client, f) : f \in ToSet(frames)}
  BY DEF ToSet
<1> HIDE DEF Upto
<1>7. QED
  BY <1>5, <1>6, FramesFold

-----------------------------------------------------------------------------
\* The two parts of a concatenation.
LEMMA Parts ==
    ASSUME NEW S, NEW a \in Seq(S), NEW b \in Seq(S)
    PROVE  LET c == a \o b
           IN /\ c \in Seq(S) /\ Len(c) = Len(a) + Len(b)
              /\ \A i \in 1..Len(a) : c[i] = a[i]
              /\ SubSeq(c, 1, Len(a)) = a /\ SubSeq(c, Len(a) + 1, Len(c)) = b
<1> DEFINE c == a \o b
           front == SubSeq(c, 1, Len(a))
           back == SubSeq(c, Len(a) + 1, Len(c))
<1>1. /\ c \in Seq(S) /\ Len(c) = Len(a) + Len(b) /\ Len(a) \in Nat /\ Len(b) \in Nat
      /\ \A i \in 1..(Len(a) + Len(b)) : c[i] = IF i <= Len(a) THEN a[i] ELSE b[i - Len(a)]
  BY ConcatProperties
<1> HIDE DEF c
<1>2. \A i \in 1..Len(c) : c[i] \in S
  BY <1>1
<1>3. front = a
  <2>1. /\ front \in Seq(S) /\ Len(front) = Len(a)
        /\ \A i \in 1..Len(a) : front[i] = c[i]
    <3>1. \A i \in 1..Len(a) : c[i] \in S
      BY <1>1, <1>2
    <3>2. /\ front \in Seq(S)
          /\ Len(front) = IF 1 <= Len(a) THEN Len(a) - 1 + 1 ELSE 0
          /\ \A i \in 1..(Len(a) - 1 + 1) : front[i] = c[1 + i - 1]
      BY <1>1, <3>1, SubSeqProperties
    <3> HIDE DEF front
    <3>3. QED
      BY <1>1, <3>2
  <2> HIDE DEF front
  <2>2. \A i \in 1..Len(a) : front[i] = a[i]
    BY <1>1, <2>1
  <2>3. QED
    BY <2>1, <2>2, SeqEqual
<1>4. back = b
  <2>1. /\ back \in Seq(S) /\ Len(back) = Len(b)
        /\ \A i \in 1..Len(b) : back[i] = c[Len(a) + i]
    <3>1. \A i \in (Len(a) + 1)..Len(c) : c[i] \in S
      BY <1>1, <1>2
    <3>2. /\ back \in Seq(S)
          /\ Len(back) = IF Len(a) + 1 <= Len(c) THEN Len(c) - (Len(a) + 1) + 1 ELSE 0
          /\ \A i \in 1..(Len(c) - (Len(a) + 1) + 1) : back[i] = c[(Len(a) + 1) + i - 1]
      BY <1>1, <3>1, SubSeqProperties
    <3> HIDE DEF back
    <3>3. \A i \in 1..Len(b) : /\ i \in 1..(Len(c) - (Len(a) + 1) + 1)
                               /\ (Len(a) + 1) + i - 1 = Len(a) + i
      BY <1>1
    <3>4. \A i \in 1..Len(b) : back[i] = c[Len(a) + i]
      BY <3>2, <3>3
    <3>5. QED
      BY <1>1, <3>2, <3>4
  <2> HIDE DEF back
  <2>2. ASSUME NEW i \in 1..Len(b) PROVE back[i] = b[i]
    <3>1. /\ Len(a) + i \in 1..(Len(a) + Len(b)) /\ ~(Len(a) + i <= Len(a))
          /\ Len(a) + i - Len(a) = i
      BY <1>1
    <3>2. QED
      BY <1>1, <2>1, <3>1
  <2>3. QED
    BY <2>1, <2>2, SeqEqual
<1>5. \A i \in 1..Len(a) : c[i] = a[i]
  BY <1>1
<1>6. QED
  BY <1>1, <1>3, <1>4, <1>5 DEF c, front, back

\* A packet that verifies is taken whole from the front of any bytes, and the parser
\* goes on behind it.
THEOREM VerifiedIsTaken ==
    ASSUME NEW raw \in Seq(Byte), VerifyPacket(raw), NEW rest \in Seq(Byte)
    PROVE  ParseFrames[raw \o rest] = [frames |-> <<FrameOf(raw)>> \o ParseFrames[rest].frames,
                                       remaining |-> ParseFrames[rest].remaining]
<1> DEFINE c == raw \o rest
<1>1. Len(raw) \in Nat /\ Len(raw) >= 6 /\ raw[1] + 1 = Len(raw) /\ Len(rest) \in Nat
  BY DEF VerifyPacket
<1>2. /\ c \in Seq(Byte) /\ Len(c) = Len(raw) + Len(rest)
      /\ \A i \in 1..Len(raw) : c[i] = raw[i]
      /\ SubSeq(c, 1, Len(raw)) = raw /\ SubSeq(c, Len(raw) + 1, Len(c)) = rest
  BY Parts
<1> HIDE DEF c
<1>3. Total(c) = Len(raw) /\ ~Waits(c)
  BY <1>1, <1>2 DEF Total, Waits
<1>6. Takes(c) /\ Rest(c) = rest
  BY <1>1, <1>2, <1>3 DEF Takes, Rest
<1>7. ParseFrames[c] = [frames |-> <<FrameOf(SubSeq(c, 1, Total(c)))>> \o ParseFrames[Rest(c)].frames,
                        remaining |-> ParseFrames[Rest(c)].remaining]
  BY <1>2, <1>3, <1>6, ParseSteps, Zenon
<1>8. QED
  BY <1>2, <1>3, <1>6, <1>7 DEF c

\* What BuildCommand makes of a payload of 1 to 251 bytes verifies: a longer one wraps
\* the length byte, an empty one is shorter than the smallest packet that is read.
THEOREM BuiltVerifies ==
    ASSUME NEW address \in Byte, NEW command \in Byte, NEW payload \in Seq(Byte),
           Len(payload) \in 1..251
    PROVE  VerifyPacket(BuildCommand(address, command, payload))
<1> DEFINE n == Len(payload)
           size == ToByte(n + 4)
           head == <<size, address, command>>
           bytes == head \o payload
           crc == <<ToByte(Crc16(bytes)), Crc16(bytes) \div 256>>
           packet == bytes \o crc
           S == Nat \cup {ToByte(Crc16(bytes)), Crc16(bytes) \div 256}
<1>0. n \in Nat /\ n >= 1 /\ n <= 251
  <2>1. n \in 1..251
    BY Zenon
  <2> HIDE DEF n
  <2>2. QED
    BY <2>1
<1> HIDE DEF n
<1>1. size = n + 4 /\ n \in Nat /\ n >= 1
  BY <1>0 DEF ToByte
<1>2. Len(bytes) = n + 3 /\ bytes[1] = size /\ bytes \in Seq(S)
  <2>0. Len(payload) = n
    BY DEF n
  <2>1. head \in Seq(Nat) /\ payload \in Seq(Nat) /\ Len(head) = 3 /\ head[1] = size
    BY <1>1, ByteIs
  <2> HIDE DEF head, size, S
  <2>2. bytes \in Seq(Nat) /\ Len(bytes) = 3 + n /\ bytes[1] = head[1]
    <3>1. 1 \in 1..Len(head)
      BY ONLY <2>1
    <3>2. /\ bytes \in Seq(Nat) /\ Len(bytes) = Len(head) + Len(payload)
          /\ \A i \in 1..Len(head) : bytes[i] = head[i]
      BY <2>1, Parts, Zenon
    <3> HIDE DEF bytes
    <3>3. QED
      BY <2>0, <2>1, <3>1, <3>2
  <2>3. Nat \subseteq S
    BY DEF S
  <2> HIDE DEF bytes
  <2>4. QED
    BY <1>1, <2>1, <2>2, <2>3, SMTT(30)
<1>3. crc \in Seq(S) /\ Len(crc) = 2
  OBVIOUS
<1>4. BuildCommand(address, command, payload) = packet /\ WithCrc(bytes) = packet
  <2>1. BuildCommand(address, command, payload) = WithCrc(bytes)
    BY Zenon DEF BuildCommand, n
  <2>2. WithCrc(bytes) = packet
    BY Zenon DEF WithCrc
  <2>3. QED
    BY <2>1, <2>2
<1> HIDE DEF size, head, bytes, crc, S, n
<1>5. Len(packet) = n + 5 /\ packet[1] = size /\ SubSeq(packet, 1, n + 3) = bytes
  <2>1. n \in Nat /\ Len(bytes) = n + 3 /\ Len(crc) = 2 /\ bytes[1] = size
    BY <1>1, <1>2, <1>3, Zenon
  <2>2. bytes \in Seq(S) /\ crc \in Seq(S)
    BY <1>2, <1>3, Zenon
  <2>3. /\ Len(bytes \o crc) = Len(bytes) + Len(crc)
        /\ \A i \in 1..Len(bytes) : (bytes \o crc)[i] = bytes[i]
        /\ SubSeq(bytes \o crc, 1, Len(bytes)) = bytes
    BY ONLY <2>2, Parts, SMTT(30)
  <2>4. /\ Len(packet) = Len(bytes) + Len(crc) /\ \A i \in 1..Len(bytes) : packet[i] = bytes[i]
        /\ SubSeq(packet, 1, Len(bytes)) = bytes
    BY <2>3, Zenon
  <2> HIDE DEF packet
  <2>5. 1 \in 1..(n + 3) /\ (n + 3) + 2 = n + 5
    BY ONLY <2>1
  <2>6. QED
    BY ONLY <2>1, <2>4, <2>5, Zenon
<1> HIDE DEF packet
<1>6. Len(packet) >= 6 /\ packet[1] + 1 = Len(packet) /\ Len(packet) - 2 = n + 3
  <2>1. n \in Nat /\ n >= 1 /\ size = n + 4 /\ Len(packet) = n + 5 /\ packet[1] = size
    BY <1>1, <1>5, Zenon
  <2>2. QED
    BY ONLY <2>1
<1>7. VerifyPacket(packet)
  BY <1>4, <1>5, <1>6 DEF VerifyPacket
<1>8. QED
  BY <1>4, <1>7

-----------------------------------------------------------------------------
(***************************************************************************)
(* How a transcript is laid out.                                           *)
(***************************************************************************)
Laying == INSTANCE Folding WITH Op <- Lay

LEMMA LayingFolds == \A b, s : FoldLeft(Lay, b, s) = Laying!Fold(b, s)
  BY Zenon DEF FoldLeft, MapThenFoldSet, Max, Laying!Fold, Laying!FoldLeft,
               Laying!MapThenFoldSet, Laying!Max

Placed == [raw : Seq(Byte), epcs : SUBSET Seq(Byte), first : Nat \ {0}, last : Nat]

\* A frame is where its place says, and no two share a byte.
AtPlace(f, bytes) ==
    /\ f \in Placed /\ f.first <= f.last + 1 /\ f.last <= Len(bytes)
    /\ f.raw = SubSeq(bytes, f.first, f.last)
Apart(f, g) == f.last < g.first \/ g.last < f.first

WellLaid(bytes, sent) ==
    /\ bytes \in Seq(Byte)
    /\ \A f \in sent : AtPlace(f, bytes)
    /\ \A f, g \in sent : f = g \/ Apart(f, g)

\* A slice of the front of a longer sequence.
LEMMA FrontSlice ==
    ASSUME NEW S, NEW a \in Seq(S), NEW b \in Seq(S), NEW lo \in Nat \ {0}, NEW hi \in Nat,
           hi <= Len(a)
    PROVE  SubSeq(a \o b, lo, hi) = SubSeq(a, lo, hi)
<1> DEFINE c == a \o b
           left == SubSeq(c, lo, hi)
           right == SubSeq(a, lo, hi)
<1>1. /\ c \in Seq(S) /\ Len(c) = Len(a) + Len(b) /\ Len(a) \in Nat /\ Len(b) \in Nat
      /\ \A i \in 1..Len(a) : c[i] = a[i]
  BY Parts
<1> HIDE DEF c
<1>2. \A i \in lo..hi : c[i] = a[i] /\ a[i] \in S
  BY <1>1
<1>3. /\ left \in Seq(S) /\ Len(left) = IF lo <= hi THEN hi - lo + 1 ELSE 0
      /\ \A i \in 1..(hi - lo + 1) : left[i] = c[lo + i - 1]
  <2>1. lo \in Int /\ hi \in Int /\ \A i \in lo..hi : c[i] \in S
    BY <1>2
  <2>2. QED
    BY ONLY <2>1, SubSeqProperties
<1>4. /\ right \in Seq(S) /\ Len(right) = IF lo <= hi THEN hi - lo + 1 ELSE 0
      /\ \A i \in 1..(hi - lo + 1) : right[i] = a[lo + i - 1]
  BY <1>2, SubSeqProperties
<1> HIDE DEF left, right
<1>5. ASSUME NEW i \in 1..Len(left) PROVE left[i] = right[i]
  <2>1. i \in 1..(hi - lo + 1) /\ lo + i - 1 \in lo..hi
    BY <1>3
  <2>2. QED
    BY <1>2, <1>3, <1>4, <2>1
<1>6. left = right
  BY <1>3, <1>4, <1>5, SeqEqual
<1>7. QED
  BY <1>6 DEF left, right, c

LEMMA LayStep ==
    ASSUME NEW bytes, NEW sent, WellLaid(bytes, sent), NEW segment \in Segment
    PROVE  LET next == Lay([bytes |-> bytes, sent |-> sent], segment)
           IN /\ next = [bytes |-> next.bytes, sent |-> next.sent]
              /\ WellLaid(next.bytes, next.sent)
<1> DEFINE more == segment.bytes
           all == bytes \o more
           frame == [raw |-> more, epcs |-> segment.epcs, first |-> Len(bytes) + 1,
                     last |-> Len(bytes) + Len(more)]
           frames == IF segment.frame THEN sent \cup {frame} ELSE sent
<1>1. bytes \in Seq(Byte) /\ more \in Seq(Byte) /\ segment.epcs \in SUBSET Seq(Byte)
  BY DEF WellLaid, Segment
<1>2. /\ all \in Seq(Byte) /\ Len(all) = Len(bytes) + Len(more)
      /\ Len(bytes) \in Nat /\ Len(more) \in Nat
      /\ SubSeq(all, Len(bytes) + 1, Len(all)) = more
  BY <1>1, Parts
<1>3. ASSUME NEW f \in sent PROVE AtPlace(f, all) /\ f.last < frame.first
  <2>1. /\ f \in Placed /\ f.first \in Nat \ {0} /\ f.last \in Nat /\ f.first <= f.last + 1
        /\ f.last <= Len(bytes) /\ f.raw = SubSeq(bytes, f.first, f.last)
    BY DEF WellLaid, AtPlace, Placed
  <2>2. SubSeq(all, f.first, f.last) = SubSeq(bytes, f.first, f.last)
    <3>1. /\ bytes \in Seq(Byte) /\ more \in Seq(Byte) /\ f.first \in Nat \ {0}
          /\ f.last \in Nat /\ f.last <= Len(bytes)
      BY <1>1, <2>1
    <3> HIDE DEF more
    <3>2. QED
      BY ONLY <3>1, FrontSlice, SMTT(30)
  <2>3. f.last <= Len(all) /\ f.last < frame.first
    BY <1>2, <2>1
  <2> HIDE DEF all, frame
  <2>4. QED
    BY <2>1, <2>2, <2>3 DEF AtPlace
<1>4. AtPlace(frame, all)
  <2>1. frame \in Placed
    BY <1>1, <1>2 DEF Placed
  <2>2. frame.first <= frame.last + 1 /\ frame.last = Len(all) /\ frame.first = Len(bytes) + 1
        /\ frame.raw = more
    BY <1>2
  <2> HIDE DEF frame, all
  <2>3. QED
    BY <1>2, <2>1, <2>2 DEF AtPlace
<1>5. Lay([bytes |-> bytes, sent |-> sent], segment) = [bytes |-> all, sent |-> frames]
  BY DEF Lay
<1> HIDE DEF frame, all, more
<1>6. \A f \in frames : AtPlace(f, all)
  BY <1>3, <1>4
<1>7. \A f, g \in frames : f = g \/ Apart(f, g)
  <2>1. \A f, g \in sent : f = g \/ Apart(f, g)
    BY DEF WellLaid
  <2>2. \A f \in sent : Apart(f, frame) /\ Apart(frame, f)
    BY <1>3, Zenon DEF Apart
  <2>3. QED
    BY <2>1, <2>2
<1> HIDE DEF frames
<1>8. WellLaid(all, frames)
  BY <1>2, <1>6, <1>7 DEF WellLaid
<1>9. QED
  BY <1>5, <1>8

LEMMA LaidOut ==
    ASSUME NEW t \in DOMAIN Transcripts
    PROVE  WellLaid(StreamOf[t], SentFrames[t])
<1> DEFINE Good == {acc \in [bytes : Seq(Byte), sent : SUBSET Placed] : WellLaid(acc.bytes, acc.sent)}
           empty == [bytes |-> <<>>, sent |-> {}]
           script == Transcripts[t]
<1>1. empty \in Good
  <2>1. empty.bytes \in Seq(Byte) /\ empty.sent = {}
    OBVIOUS
  <2>2. empty \in [bytes : Seq(Byte), sent : SUBSET Placed]
    OBVIOUS
  <2> HIDE DEF empty
  <2>3. WellLaid(empty.bytes, empty.sent)
    BY <2>1 DEF WellLaid
  <2>4. QED
    BY <2>2, <2>3
<1>2. ASSUME NEW acc \in Good, NEW segment \in Segment
      PROVE  Lay(acc, segment) \in Good
  <2> DEFINE next == Lay(acc, segment)
  <2>1. acc = [bytes |-> acc.bytes, sent |-> acc.sent] /\ WellLaid(acc.bytes, acc.sent)
    OBVIOUS
  <2>2. next = [bytes |-> next.bytes, sent |-> next.sent] /\ WellLaid(next.bytes, next.sent)
    BY <2>1, LayStep, ZenonT(60)
  <2> HIDE DEF next
  <2>3. next.bytes \in Seq(Byte) /\ next.sent \in SUBSET Placed
    BY <2>2 DEF WellLaid, AtPlace
  <2>4. next \in Good
    BY <2>2, <2>3
  <2>5. QED
    BY <2>4 DEF next
<1>3. script \in Seq(Segment)
  BY StreamAssumption
<1> HIDE DEF Good, empty, script
<1>4. Laying!Fold(empty, script) \in Good
  BY <1>1, <1>2, <1>3, Laying!FoldKeeps
<1>5. Laid[t] \in Good
  <2>1. Laid[t] = FoldLeft(Lay, empty, script)
    BY DEF Laid, empty, script
  <2>2. QED
    BY <1>4, <2>1, LayingFolds
<1>6. StreamOf[t] = Laid[t].bytes /\ SentFrames[t] = Laid[t].sent
  BY DEF StreamOf, SentFrames
<1>7. QED
  BY <1>5, <1>6 DEF Good

LEMMA StreamIsBytes == \A t \in DOMAIN Transcripts : StreamOf[t] \in Seq(Byte)
  BY LaidOut DEF WellLaid

-----------------------------------------------------------------------------
(***************************************************************************)
(* The inductive invariant.                                                *)
(***************************************************************************)
Stream == StreamOf[transcript]

\* A piece of what was read, behind what was consumed, and not longer than the buffer
\* leaves room for.
Piece(p, upto, got) ==
    /\ p \in Nat \X Nat /\ 1 <= p[1] /\ p[1] <= p[2] /\ p[2] <= upto
    /\ p[2] - p[1] + 1 + 255 <= MaxBuffer
    /\ \A i \in got : i < p[1]

Before(p, q) == p[2] < q[1]

PacketsInv ==
    /\ packets \in Seq(Nat \X Nat) /\ Len(packets) <= ChannelCap
    /\ \A k \in 1..Len(packets) : Piece(packets[k], read, received)
    /\ \A j, k \in 1..Len(packets) : j < k => Before(packets[j], packets[k])

TypeInv ==
    /\ client \in Clients /\ transcript \in DOMAIN Transcripts /\ cfg \in Configs
    /\ read \in 0..Len(Stream) /\ received \subseteq 1..read
    /\ on \in BOOLEAN /\ antIdx \in 0..7 /\ rounds \in 0..MaxRounds
    /\ parserBuffer \in Seq(Byte) /\ Waits(parserBuffer)

\* The next antenna is the one behind the last one asked.
AskedInv ==
    /\ Asks(asked, PortsOf(cfg.antennaMask))
    /\ asked # <<>> => antIdx = (asked[Len(asked)] - 128 + 1) % 8

VerifiedRaw == {raw \in Seq(Byte) : VerifyPacket(raw)}

\* Every frame that was handled is a verified packet, and the tags are those that the
\* frames report.
HandledInv ==
    /\ handled \in Seq(VerifiedRaw)
    /\ tags.seen = UNION {ReportsTo(client, FrameOf(raw)) : raw \in ToSet(handled)}

Raws(frames) == [k \in DOMAIN frames |-> frames[k].raw]

\* Bytes lo to hi were consumed, and nothing else: it is as if they were parsed at once.
AtOnce(lo, hi) ==
    LET whole == ParseFrames[SubSeq(Stream, lo, hi)]
    IN handled = Raws(whole.frames) /\ parserBuffer = whole.remaining

ParseInv ==
    /\ received = {} => handled = <<>> /\ parserBuffer = <<>>
    /\ \A lo \in Nat \ {0}, hi \in Nat : lo <= hi /\ received = lo..hi => AtOnce(lo, hi)

StreamInv == TypeInv /\ PacketsInv /\ tags \in Counted /\ AskedInv /\ HandledInv /\ ParseInv

-----------------------------------------------------------------------------
LEMMA NothingAsked == \A ports : Asks(<<>>, ports)
  BY DEF Asks

LEMMA NothingWaits == <<>> \in Seq(Byte) /\ Waits(<<>>)
  BY DEF Waits

LEMMA InitInv == Init => StreamInv
<1> SUFFICES ASSUME Init PROVE StreamInv
  OBVIOUS
<1> USE DEF Init
<1>1. TypeInv
  <2>1. StreamOf[transcript] \in Seq(Byte)
    BY StreamIsBytes
  <2>2. Len(Stream) \in Nat
    BY <2>1 DEF Stream
  <2>3. parserBuffer \in Seq(Byte) /\ Waits(parserBuffer)
    BY NothingWaits
  <2>4. read = 0 /\ received = {} /\ antIdx = 0 /\ rounds = 0 /\ on = FALSE /\ MaxRounds \in Nat
    BY SizesAssumption
  <2>5. read \in 0..Len(Stream) /\ antIdx \in 0..7 /\ rounds \in 0..MaxRounds
    BY ONLY <2>2, <2>4
  <2>6. QED
    BY <2>3, <2>4, <2>5 DEF TypeInv
<1>2. PacketsInv
  BY SizesAssumption DEF PacketsInv
<1>3. tags \in Counted
  <2>1. cfg.target \in {0, 1}
    BY ConfigsAssumption
  <2>2. QED
    BY <2>1, NoTagsCounted
<1>4. AskedInv
  BY NothingAsked DEF AskedInv
<1>5. HandledInv
  <2>1. ToSet(handled) = {}
    BY DEF ToSet
  <2>2. QED
    BY <2>1 DEF HandledInv, NoTags
<1>6. ParseInv
  BY DEF ParseInv
<1>7. QED
  BY <1>1, <1>2, <1>3, <1>4, <1>5, <1>6 DEF StreamInv

LEMMA ReadStep ==
    ASSUME StreamInv, NEW n \in ReadSizes, Read(n)
    PROVE  StreamInv'
<1> USE DEF Read, roundVars
<1>1. n \in Nat \ {0} /\ n + 255 <= MaxBuffer /\ MaxBuffer \in Nat
  BY SizesAssumption
<1>2. Len(Stream) \in Nat /\ Stream' = Stream
  BY StreamIsBytes DEF StreamInv, TypeInv, Stream
<1>3. read \in Nat /\ read' = read + n /\ read' <= Len(Stream)
  BY <1>2 DEF StreamInv, TypeInv, Stream
<1>4. TypeInv'
  BY <1>1, <1>2, <1>3 DEF StreamInv, TypeInv
<1>5. PacketsInv'
  <2>1. /\ packets \in Seq(Nat \X Nat) /\ Len(packets) \in Nat /\ Len(packets) <= ChannelCap
        /\ \A k \in 1..Len(packets) : Piece(packets[k], read, received)
        /\ \A j, k \in 1..Len(packets) : j < k => Before(packets[j], packets[k])
        /\ received' = received /\ \A i \in received : i < read + 1
    BY <1>3 DEF StreamInv, TypeInv, PacketsInv
  <2>2. \A k \in 1..Len(packets) : Piece(packets[k], read', received)
    <3>1. ASSUME NEW p, Piece(p, read, received) PROVE Piece(p, read', received)
      <4>1. read <= read' /\ p \in Nat \X Nat /\ read' \in Nat
        BY <1>1, <1>3, <3>1 DEF Piece
      <4>2. QED
        BY <1>3, <3>1, <4>1 DEF Piece
    <3>2. QED
      BY <2>1, <3>1
  <2>3. CASE packets' = packets
    BY <2>1, <2>2, <2>3 DEF PacketsInv
  <2>4. CASE Len(packets) < ChannelCap /\ packets' = Append(packets, <<read + 1, read + n>>)
    <3> DEFINE new == <<read + 1, read + n>>
    <3>1. new \in Nat \X Nat /\ new[1] = read + 1 /\ new[2] = read + n
      BY <1>1, <1>3
    <3> HIDE DEF new
    <3>2. /\ packets' \in Seq(Nat \X Nat) /\ Len(packets') = Len(packets) + 1
          /\ \A k \in 1..Len(packets) : packets'[k] = packets[k]
          /\ packets'[Len(packets) + 1] = new
      BY <2>1, <2>4, <3>1 DEF new
    <3>3. Piece(new, read', received)
      <4>1. /\ 1 <= new[1] /\ new[1] <= new[2] /\ new[2] <= read'
            /\ new[2] - new[1] + 1 + 255 <= MaxBuffer
        BY <1>1, <1>3, <3>1
      <4>2. \A i \in received : i < new[1]
        BY <2>1, <3>1
      <4>3. QED
        BY <3>1, <4>1, <4>2, Zenon DEF Piece
    <3>4. \A j \in 1..Len(packets) : Before(packets[j], new)
      <4>1. \A j \in 1..Len(packets) : packets[j] \in Nat \X Nat /\ packets[j][2] <= read
        BY <2>1 DEF Piece
      <4>2. QED
        BY <1>3, <3>1, <4>1 DEF Before
    <3>5. Len(packets') <= ChannelCap
      BY <2>1, <2>4, <3>2, SizesAssumption
    <3>6. \A k \in 1..Len(packets') : k \in 1..Len(packets) \/ k = Len(packets) + 1
      BY <2>1, <3>2
    <3>7. \A k \in 1..Len(packets') : Piece(packets'[k], read', received')
      BY <2>1, <2>2, <3>2, <3>3, <3>6
    <3>8. ASSUME NEW j \in 1..Len(packets'), NEW k \in 1..Len(packets'), j < k
          PROVE  Before(packets'[j], packets'[k])
      <4>1. j \in 1..Len(packets)
        BY <2>1, <3>2, <3>8
      <4>2. QED
        BY <2>1, <3>2, <3>4, <3>6, <3>8, <4>1
    <3>9. QED
      BY <3>2, <3>5, <3>7, <3>8 DEF PacketsInv
  <2>5. QED
    BY <2>3, <2>4
<1>6. (tags \in Counted)' /\ AskedInv' /\ HandledInv' /\ ParseInv'
  BY <1>2 DEF StreamInv, Counted, Switches, AskedInv, HandledInv, ParseInv, AtOnce
<1>7. QED
  BY <1>4, <1>5, <1>6 DEF StreamInv

-----------------------------------------------------------------------------
LEMMA RawsType ==
    ASSUME NEW frames \in Seq(Verified)
    PROVE  /\ Raws(frames) \in Seq(VerifiedRaw) /\ Len(Raws(frames)) = Len(frames)
           /\ \A k \in 1..Len(frames) : /\ Raws(frames)[k] = frames[k].raw
                                        /\ frames[k] = FrameOf(frames[k].raw)
<1>1. \A f \in Verified : f.raw \in VerifiedRaw /\ f = FrameOf(f.raw)
  BY DEF Verified, VerifiedRaw, Frame
<1>2. \A k \in 1..Len(frames) : frames[k].raw \in VerifiedRaw /\ frames[k] = FrameOf(frames[k].raw)
  BY <1>1
<1>3. QED
  BY <1>2 DEF Raws

LEMMA RawsConcat ==
    ASSUME NEW fs \in Seq(Verified), NEW gs \in Seq(Verified)
    PROVE  Raws(fs \o gs) = Raws(fs) \o Raws(gs)
<1> DEFINE c == fs \o gs
           left == Raws(c)
           rf == Raws(fs)
           rg == Raws(gs)
           right == rf \o rg
<1>1. /\ c \in Seq(Verified) /\ Len(c) = Len(fs) + Len(gs) /\ Len(fs) \in Nat /\ Len(gs) \in Nat
      /\ \A i \in 1..(Len(fs) + Len(gs)) : c[i] = IF i <= Len(fs) THEN fs[i] ELSE gs[i - Len(fs)]
  BY ConcatProperties
<1> HIDE DEF c
<1>2. left \in Seq(VerifiedRaw) /\ Len(left) = Len(c) /\ \A k \in 1..Len(c) : left[k] = c[k].raw
  BY <1>1, RawsType
<1>3. rf \in Seq(VerifiedRaw) /\ Len(rf) = Len(fs) /\ \A k \in 1..Len(fs) : rf[k] = fs[k].raw
  BY RawsType
<1>4. rg \in Seq(VerifiedRaw) /\ Len(rg) = Len(gs) /\ \A k \in 1..Len(gs) : rg[k] = gs[k].raw
  BY RawsType
<1> HIDE DEF left, rf, rg
<1>5. /\ right \in Seq(VerifiedRaw) /\ Len(right) = Len(rf) + Len(rg)
      /\ \A i \in 1..(Len(rf) + Len(rg)) : right[i] = IF i <= Len(rf) THEN rf[i] ELSE rg[i - Len(rf)]
  <2>1. rf \in Seq(VerifiedRaw) /\ rg \in Seq(VerifiedRaw)
    BY <1>3, <1>4
  <2>2. QED
    BY <2>1, ConcatProperties
<1> HIDE DEF right
<1>6. ASSUME NEW i \in 1..Len(left) PROVE left[i] = right[i]
  <2>1. i \in 1..(Len(fs) + Len(gs)) /\ left[i] = c[i].raw
    BY <1>1, <1>2
  <2>2. CASE i <= Len(fs)
    <3>1. i \in 1..Len(fs)
      BY <1>1, <2>1, <2>2
    <3>2. QED
      BY <1>1, <1>3, <1>4, <1>5, <2>1, <2>2, <3>1
  <2>3. CASE ~(i <= Len(fs))
    <3>1. i - Len(fs) \in 1..Len(gs)
      BY <1>1, <2>1, <2>3
    <3>2. QED
      BY <1>1, <1>3, <1>4, <1>5, <2>1, <2>3, <3>1
  <2>4. QED
    BY <2>2, <2>3
<1>7. left = right
  BY <1>1, <1>2, <1>3, <1>4, <1>5, <1>6, SeqEqual
<1>8. QED
  BY <1>7 DEF left, right, c, rf, rg

LEMMA ConcatSet ==
    ASSUME NEW S, NEW a \in Seq(S), NEW b \in Seq(S)
    PROVE  ToSet(a \o b) = ToSet(a) \cup ToSet(b)
<1> DEFINE c == a \o b
<1>1. /\ c \in Seq(S) /\ Len(c) = Len(a) + Len(b) /\ Len(a) \in Nat /\ Len(b) \in Nat
      /\ \A i \in 1..(Len(a) + Len(b)) : c[i] = IF i <= Len(a) THEN a[i] ELSE b[i - Len(a)]
  BY ConcatProperties
<1> HIDE DEF c
<1>2. ASSUME NEW x \in ToSet(c) PROVE x \in ToSet(a) \cup ToSet(b)
  <2>1. PICK i \in 1..(Len(a) + Len(b)) : x = c[i]
    BY <1>1 DEF ToSet
  <2>2. CASE i <= Len(a)
    BY <1>1, <2>1, <2>2 DEF ToSet
  <2>3. CASE ~(i <= Len(a))
    <3>1. i - Len(a) \in 1..Len(b) /\ x = b[i - Len(a)]
      BY <1>1, <2>1, <2>3
    <3>2. QED
      BY <3>1 DEF ToSet
  <2>4. QED
    BY <2>2, <2>3
<1>3. ASSUME NEW x \in ToSet(a) PROVE x \in ToSet(c)
  <2>1. PICK i \in 1..Len(a) : x = a[i]
    BY DEF ToSet
  <2>2. i \in 1..Len(c) /\ x = c[i]
    BY <1>1, <2>1
  <2>3. QED
    BY <1>1, <2>2 DEF ToSet
<1>4. ASSUME NEW x \in ToSet(b) PROVE x \in ToSet(c)
  <2>1. PICK i \in 1..Len(b) : x = b[i]
    BY DEF ToSet
  <2>2. /\ Len(a) + i \in 1..(Len(a) + Len(b)) /\ ~(Len(a) + i <= Len(a))
        /\ Len(a) + i - Len(a) = i
    BY <1>1
  <2>3. \E k \in 1..Len(c) : c[k] = x
    BY <1>1, <2>1, <2>2, SMTT(30)
  <2>4. DOMAIN c = 1..Len(c)
    BY <1>1
  <2>5. QED
    BY <2>3, <2>4, Zenon DEF ToSet
<1>5. QED
  BY <1>2, <1>3, <1>4 DEF c

\* A slice that goes on where another ends.
LEMMA SliceGrows ==
    ASSUME NEW S, NEW s \in Seq(S), NEW lo \in Nat \ {0}, NEW mid \in Nat, NEW hi \in Nat,
           lo <= mid, mid < hi, hi <= Len(s)
    PROVE  SubSeq(s, lo, hi) = SubSeq(s, lo, mid) \o SubSeq(s, mid + 1, hi)
<1> DEFINE all == SubSeq(s, lo, hi)
           a == SubSeq(s, lo, mid)
           b == SubSeq(s, mid + 1, hi)
           c == a \o b
<1>0. Len(s) \in Nat /\ \A i \in 1..Len(s) : s[i] \in S
  OBVIOUS
<1>1. /\ all \in Seq(S) /\ Len(all) = hi - lo + 1
      /\ \A i \in 1..(hi - lo + 1) : all[i] = s[lo + i - 1]
  <2>1. \A i \in lo..hi : s[i] \in S
    BY <1>0
  <2>2. QED
    BY <2>1, SubSeqProperties
<1>2. /\ a \in Seq(S) /\ Len(a) = mid - lo + 1
      /\ \A i \in 1..(mid - lo + 1) : a[i] = s[lo + i - 1]
  <2>1. \A i \in lo..mid : s[i] \in S
    BY <1>0
  <2>2. QED
    BY <2>1, SubSeqProperties
<1>3. /\ b \in Seq(S) /\ Len(b) = hi - mid
      /\ \A i \in 1..(hi - mid) : b[i] = s[mid + i]
  <2>1. \A i \in (mid + 1)..hi : s[i] \in S
    BY <1>0
  <2>2. /\ b \in Seq(S) /\ Len(b) = IF mid + 1 <= hi THEN hi - (mid + 1) + 1 ELSE 0
        /\ \A i \in 1..(hi - (mid + 1) + 1) : b[i] = s[mid + 1 + i - 1]
    BY <2>1, SubSeqProperties
  <2> HIDE DEF b
  <2>3. hi - (mid + 1) + 1 = hi - mid /\ mid + 1 <= hi
    OBVIOUS
  <2>4. \A i \in 1..(hi - mid) : mid + 1 + i - 1 = mid + i
    OBVIOUS
  <2>5. QED
    BY <2>2, <2>3, <2>4
<1> HIDE DEF all, a, b
<1>4. /\ c \in Seq(S) /\ Len(c) = Len(a) + Len(b)
      /\ \A i \in 1..(Len(a) + Len(b)) : c[i] = IF i <= Len(a) THEN a[i] ELSE b[i - Len(a)]
  BY <1>2, <1>3, ConcatProperties, Zenon
<1> HIDE DEF c
<1>5. ASSUME NEW i \in 1..Len(all) PROVE all[i] = c[i]
  <2>1. i \in 1..(hi - lo + 1) /\ i \in 1..(Len(a) + Len(b)) /\ all[i] = s[lo + i - 1]
    BY <1>1, <1>2, <1>3
  <2>2. CASE i <= Len(a)
    <3>1. i \in 1..(mid - lo + 1)
      BY <1>2, <2>1, <2>2
    <3>2. QED
      BY <1>2, <1>4, <2>1, <2>2, <3>1
  <2>3. CASE ~(i <= Len(a))
    <3>1. i - Len(a) \in 1..(hi - mid) /\ mid + (i - Len(a)) = lo + i - 1
      BY <1>2, <2>1, <2>3
    <3>2. c[i] = b[i - Len(a)]
      BY <1>4, <2>1, <2>3
    <3>3. b[i - Len(a)] = s[mid + (i - Len(a))]
      BY <1>3, <3>1
    <3>4. QED
      BY <2>1, <3>1, <3>2, <3>3
  <2>4. QED
    BY <2>2, <2>3
<1>6. Len(all) = Len(c)
  BY <1>1, <1>2, <1>3, <1>4
<1>7. all = c
  BY <1>1, <1>4, <1>5, <1>6, SeqEqual
<1>8. QED
  BY <1>7 DEF all, a, b, c

-----------------------------------------------------------------------------
\* The packet at the head of the channel.
LEMMA HeadPacket ==
    ASSUME StreamInv, packets # <<>>
    PROVE  LET first == Head(packets)[1]
               last == Head(packets)[2]
               data == SubSeq(Stream, first, last)
           IN /\ first \in Nat \ {0} /\ last \in Nat /\ first <= last
              /\ last <= read /\ last <= Len(Stream) /\ read \in Nat /\ Len(Stream) \in Nat
              /\ \A i \in received : i \in Nat /\ 1 <= i /\ i < first
              /\ data \in Seq(Byte) /\ parserBuffer \in Seq(Byte)
              /\ Buffered(data) = parserBuffer \o data /\ parserBuffer \o data \in Seq(Byte)
<1> DEFINE first == Head(packets)[1]
           last == Head(packets)[2]
           data == SubSeq(Stream, first, last)
<1>1. Stream \in Seq(Byte) /\ Len(Stream) \in Nat
  BY StreamIsBytes DEF StreamInv, TypeInv, Stream
<1>2. /\ read \in Nat /\ read <= Len(Stream) /\ \A i \in received : i \in Nat /\ 1 <= i
      /\ parserBuffer \in Seq(Byte) /\ Waits(parserBuffer)
  BY <1>1 DEF StreamInv, TypeInv
<1>3. packets \in Seq(Nat \X Nat) /\ 1 \in 1..Len(packets) /\ Head(packets) = packets[1]
  BY DEF StreamInv, PacketsInv
<1>4. Piece(Head(packets), read, received)
  BY <1>3 DEF StreamInv, PacketsInv
<1>5. /\ first \in Nat /\ last \in Nat /\ 1 <= first /\ first <= last /\ last <= read
      /\ last - first + 1 + 255 <= MaxBuffer /\ \A i \in received : i < first
  BY <1>4 DEF Piece
<1> HIDE DEF first, last
<1>6. data \in Seq(Byte) /\ Len(data) = last - first + 1
  <2>1. last <= Len(Stream) /\ first \in Nat \ {0} /\ last \in Int
    BY <1>1, <1>2, <1>5
  <2>2. QED
    BY <1>1, <1>5, <2>1, SliceType
<1>7. Len(parserBuffer) <= 255
  BY <1>2, WaitsShort
<1> HIDE DEF data
<1> DEFINE buf == parserBuffer \o data
<1>8. buf \in Seq(Byte) /\ Len(buf) = Len(parserBuffer) + Len(data)
  BY <1>2, <1>6
<1>9. ~(Len(buf) > MaxBuffer)
  BY <1>2, <1>5, <1>6, <1>7, <1>8, SizesAssumption
<1>10. Buffered(data) = buf
  <2>1. Cut(buf) = buf
    <3> HIDE DEF buf
    <3> QED
      BY <1>9 DEF Cut
  <2>2. QED
    BY <2>1, Zenon DEF Buffered
<1>11. first \in Nat \ {0} /\ last <= Len(Stream)
  BY <1>1, <1>2, <1>5
<1>12. QED
  BY <1>1, <1>2, <1>5, <1>6, <1>8, <1>10, <1>11 DEF first, last, data

LEMMA ConsumeStep ==
    ASSUME StreamInv, ConsumePacket
    PROVE  StreamInv'
<1> DEFINE first == Head(packets)[1]
           last == Head(packets)[2]
           data == SubSeq(Stream, first, last)
           buf == parserBuffer \o data
           parsed == ParseFrames[buf]
           frames == parsed.frames
           raws == Raws(frames)
<1>0. packets # <<>>
  BY DEF ConsumePacket
<1>1. /\ first \in Nat \ {0} /\ last \in Nat /\ first <= last
      /\ last <= read /\ last <= Len(Stream) /\ read \in Nat /\ Len(Stream) \in Nat
      /\ \A i \in received : i \in Nat /\ 1 <= i /\ i < first
      /\ data \in Seq(Byte) /\ parserBuffer \in Seq(Byte) /\ buf \in Seq(Byte)
      /\ Buffered(data) = buf
  BY <1>0, HeadPacket, Zenon
<1>2. /\ frames \in Seq(Verified) /\ frames \in Seq(Frame)
      /\ parsed.remaining \in Seq(Byte) /\ Waits(parsed.remaining)
  BY <1>1, ParsedIs
<1>3. /\ packets' = Tail(packets) /\ parserBuffer' = parsed.remaining
      /\ received' = received \cup (first..last) /\ handled' = handled \o raws
      /\ tags' = FoldLeft(HandleFrame, tags, frames)
  BY <1>1, Zenon DEF ConsumePacket, Raws, Stream
<1>4. /\ client' = client /\ transcript' = transcript /\ read' = read /\ cfg' = cfg /\ on' = on
      /\ antIdx' = antIdx /\ rounds' = rounds /\ asked' = asked /\ Stream' = Stream
  BY DEF ConsumePacket, roundVars, Stream
<1>5. raws \in Seq(VerifiedRaw) /\ Len(raws) = Len(frames)
      /\ \A k \in 1..Len(frames) : raws[k] = frames[k].raw /\ frames[k] = FrameOf(frames[k].raw)
  BY <1>2, RawsType
<1> HIDE DEF first, last, data, parsed, frames, raws
<1>6. TypeInv'
  <2>1. received' \subseteq 1..read'
    <3>1. \A i \in first..last : i \in 1..read
      BY <1>1
    <3>2. received \subseteq 1..read
      BY DEF StreamInv, TypeInv
    <3>3. QED
      BY <1>3, <1>4, <3>1, <3>2
  <2>2. QED
    BY <1>2, <1>3, <1>4, <2>1 DEF StreamInv, TypeInv
<1>7. PacketsInv'
  <2>1. /\ packets \in Seq(Nat \X Nat) /\ Len(packets) \in Nat /\ Len(packets) <= ChannelCap
        /\ \A k \in 1..Len(packets) : Piece(packets[k], read, received)
        /\ \A j, k \in 1..Len(packets) : j < k => Before(packets[j], packets[k])
        /\ packets[1][2] = last /\ 1 \in 1..Len(packets)
    BY <1>0 DEF StreamInv, PacketsInv, last
  <2>2. /\ packets' \in Seq(Nat \X Nat) /\ Len(packets') = Len(packets) - 1
        /\ \A k \in 1..Len(packets') : packets'[k] = packets[k + 1] /\ k + 1 \in 1..Len(packets) /\ 1 < k + 1
    BY <1>0, <1>3, <2>1
  <2>3. ASSUME NEW k \in 1..Len(packets') PROVE Piece(packets'[k], read', received')
    <3> DEFINE p == packets[k + 1]
    <3>1. Piece(p, read, received) /\ Before(packets[1], p)
      BY <2>1, <2>2
    <3> HIDE DEF p
    <3>2. p \in Nat \X Nat /\ last < p[1] /\ \A i \in received : i < p[1]
      BY <2>1, <3>1 DEF Piece, Before
    <3>3. \A i \in first..last : i < p[1]
      BY <1>1, <3>2
    <3>4. \A i \in received' : i < p[1]
      BY <1>3, <3>2, <3>3
    <3>5. Piece(p, read, received')
      BY <3>1, <3>4, Zenon DEF Piece
    <3>6. QED
      BY <1>4, <2>2, <3>5 DEF p
  <2>4. ASSUME NEW j \in 1..Len(packets'), NEW k \in 1..Len(packets'), j < k
        PROVE  Before(packets'[j], packets'[k])
    <3>1. j + 1 < k + 1 /\ j + 1 \in 1..Len(packets) /\ k + 1 \in 1..Len(packets)
      BY <2>2, <2>4
    <3>2. QED
      BY <2>1, <2>2, <3>1
  <2>5. Len(packets') <= ChannelCap
    BY <2>1, <2>2, SizesAssumption
  <2>6. QED
    BY <2>2, <2>3, <2>4, <2>5 DEF PacketsInv
<1>8. tags' \in Counted /\ Counted' = Counted
  <2>1. cfg \in Configs /\ tags \in Counted
    BY DEF StreamInv, TypeInv
  <2>2. tags' \in Counted
    BY <1>2, <1>3, <2>1, FramesCounted
  <2>3. QED
    BY <1>4, <2>2 DEF Counted, Switches
<1>9. AskedInv'
  BY <1>4 DEF StreamInv, AskedInv
<1>10. HandledInv'
  <2>1. cfg \in Configs /\ tags \in Counted /\ handled \in Seq(VerifiedRaw)
        /\ tags.seen = UNION {ReportsTo(client, FrameOf(raw)) : raw \in ToSet(handled)}
    BY DEF StreamInv, TypeInv, HandledInv
  <2>2. tags'.seen = tags.seen \cup UNION {ReportsTo(client, f) : f \in ToSet(frames)}
    BY <1>2, <1>3, <2>1, SeenOfFrames
  <2>3. handled' \in Seq(VerifiedRaw) /\ ToSet(handled') = ToSet(handled) \cup ToSet(raws)
    BY <1>3, <1>5, <2>1, ConcatSet
  <2>4. {ReportsTo(client, f) : f \in ToSet(frames)}
          = {ReportsTo(client, FrameOf(raw)) : raw \in ToSet(raws)}
    <3>1. ToSet(frames) = {frames[k] : k \in 1..Len(frames)}
      BY <1>2 DEF ToSet
    <3>2. ToSet(raws) = {raws[k] : k \in 1..Len(frames)}
      BY <1>5 DEF ToSet
    <3>3. \A k \in 1..Len(frames) : frames[k] = FrameOf(raws[k])
      BY <1>5
    <3>4. QED
      BY <3>1, <3>2, <3>3
  <2>5. tags'.seen = UNION {ReportsTo(client, FrameOf(raw)) : raw \in ToSet(handled')}
    BY <2>1, <2>2, <2>3, <2>4
  <2>6. QED
    BY <1>4, <2>3, <2>5 DEF HandledInv
<1>11. ParseInv'
  <2>1. received' # {}
    <3>1. first \in first..last
      BY <1>1
    <3>2. QED
      BY <1>3, <3>1
  <2>2. ASSUME NEW lo \in Nat \ {0}, NEW hi \in Nat, lo <= hi, received' = lo..hi
        PROVE  AtOnce(lo, hi)'
    <3> DEFINE whole == ParseFrames[SubSeq(Stream, lo, hi)]
    <3>1. hi = last
      <4>1. hi \in lo..hi /\ last \in first..last
        BY <1>1, <2>2
      <4>2. hi \in received \/ hi \in first..last
        BY <1>3, <2>2, <4>1
      <4>3. last \in lo..hi
        BY <1>3, <2>2, <4>1
      <4>4. hi <= last /\ last <= hi
        BY <1>1, <4>2, <4>3
      <4>5. QED
        BY <1>1, <4>4
    <3>2. CASE received = {}
      <4>1. lo = first
        <5>1. lo..hi = first..last
          BY <1>3, <2>2, <3>2
        <5>2. lo \in lo..hi /\ first \in first..last
          BY <1>1, <2>2
        <5>3. lo \in first..last /\ first \in lo..hi
          BY <5>1, <5>2
        <5>4. QED
          BY <1>1, <5>3
      <4>2. handled = <<>> /\ parserBuffer = <<>>
        BY <3>2 DEF StreamInv, ParseInv
      <4>3. buf = data
        BY <1>1, <4>2
      <4>4. whole = parsed
        BY <3>1, <4>1, <4>3 DEF data, parsed
      <4>5. handled' = raws
        BY <1>3, <1>5, <4>2
      <4> HIDE DEF whole
      <4>6. handled' = Raws(whole.frames) /\ parserBuffer' = whole.remaining
        BY <1>3, <4>4, <4>5 DEF raws, frames
      <4>7. QED
        BY <1>4, <4>6 DEF AtOnce, whole
    <3>3. CASE received # {}
      <4> DEFINE mid == first - 1
                 before == SubSeq(Stream, lo, mid)
                 seen == ParseFrames[before]
      <4>1. mid \in Nat /\ lo <= mid /\ mid < hi /\ first = mid + 1 /\ hi <= Len(Stream)
        <5>1. PICK i \in received : i \in Nat /\ i < first
          BY <1>1, <3>3
        <5>2. i \in lo..hi
          BY <1>3, <2>2
        <5>3. QED
          BY <1>1, <2>2, <3>1, <5>1, <5>2
      <4>2. received = lo..mid
        <5>1. \A i \in received : i \in lo..hi /\ i < first /\ i \in Nat
          BY <1>1, <1>3, <2>2
        <5>2. received \subseteq lo..mid
          BY <1>1, <4>1, <5>1
        <5>3. ASSUME NEW i \in lo..mid PROVE i \in received
          <6>1. i \in lo..hi /\ i \notin first..last
            BY <1>1, <2>2, <4>1
          <6>2. QED
            BY <1>3, <2>2, <6>1
        <5>4. QED
          BY <5>2, <5>3
      <4>3. AtOnce(lo, mid)
        BY <2>2, <4>1, <4>2 DEF StreamInv, ParseInv
      <4>4. handled = Raws(seen.frames) /\ parserBuffer = seen.remaining
        BY <4>3, Zenon DEF AtOnce
      <4>5. Stream \in Seq(Byte)
        BY StreamIsBytes DEF StreamInv, TypeInv, Stream
      <4>6. before \in Seq(Byte)
        <5>1. mid <= Len(Stream) /\ mid \in Int
          BY <1>1, <4>1
        <5> HIDE DEF mid
        <5>2. QED
          BY <4>5, <5>1, SliceType
      <4>7. SubSeq(Stream, lo, hi) = before \o data
        <5> HIDE DEF mid
        <5>1. data = SubSeq(Stream, mid + 1, hi)
          BY <3>1, <4>1 DEF data
        <5>2. QED
          BY <4>1, <4>5, <5>1, SliceGrows
      <4> HIDE DEF mid, before
      <4>8. whole = [frames |-> seen.frames \o frames, remaining |-> parsed.remaining]
        <5>1. ParseFrames[before \o data]
                = [frames |-> seen.frames \o ParseFrames[seen.remaining \o data].frames,
                   remaining |-> ParseFrames[seen.remaining \o data].remaining]
          BY <1>1, <4>6, CutsDoNotMatter, Zenon
        <5>2. ParseFrames[seen.remaining \o data] = parsed
          BY <4>4 DEF parsed
        <5>3. QED
          BY <4>7, <5>1, <5>2 DEF frames
      <4>9. seen.frames \in Seq(Verified)
        BY <4>6, ParsedIs
      <4> DEFINE all == seen.frames \o frames
                 kept == parsed.remaining
      <4>10. whole = [frames |-> all, remaining |-> kept]
        BY <4>8
      <4> HIDE DEF whole, all, kept
      <4>11. whole.frames = all /\ whole.remaining = kept
        BY <4>10
      <4>12. Raws(all) = handled \o raws
        BY <1>2, <4>4, <4>9, RawsConcat DEF all, raws
      <4>13. handled' = Raws(whole.frames) /\ parserBuffer' = whole.remaining
        BY <1>3, <4>11, <4>12 DEF kept
      <4>14. QED
        BY <1>4, <4>13 DEF AtOnce, whole
    <3>4. QED
      BY <3>2, <3>3
  <2>3. QED
    BY <2>1, <2>2 DEF ParseInv
<1>12. QED
  BY <1>6, <1>7, <1>8, <1>9, <1>10, <1>11 DEF StreamInv

-----------------------------------------------------------------------------
\* What an action that leaves the wire alone cannot break.
LEMMA WireSame ==
    ASSUME StreamInv, UNCHANGED wireVars, received' \in {received, {}}
    PROVE  PacketsInv' /\ Stream' = Stream /\ received' \subseteq 1..read'
           /\ client' \in Clients /\ transcript' \in DOMAIN Transcripts
           /\ read' \in 0..Len(Stream') /\ client' = client
<1> USE DEF wireVars
<1>1. Stream' = Stream
  BY DEF Stream
<1>2. \A k \in 1..Len(packets) : Piece(packets[k], read, received)
                                  => Piece(packets[k], read, {})
  BY DEF Piece
<1>3. CASE received' = received
  BY <1>1, <1>3 DEF StreamInv, TypeInv, PacketsInv
<1>4. CASE received' = {}
  BY <1>1, <1>2, <1>4 DEF StreamInv, TypeInv, PacketsInv
<1>5. QED
  BY <1>3, <1>4

LEMMA StartStep ==
    ASSUME StreamInv, StartInventory
    PROVE  StreamInv'
<1> DEFINE target == IF client = "sdk" THEN cfg.target ELSE tags.target
<1>1. /\ UNCHANGED wireVars /\ received' = {} /\ cfg' = cfg /\ on' = TRUE /\ parserBuffer' = <<>>
      /\ tags' = NoTags(target) /\ rounds' = 0 /\ antIdx' = 0 /\ asked' = <<>> /\ handled' = <<>>
  BY DEF StartInventory
<1>2. cfg \in Configs /\ cfg.target \in {0, 1} /\ tags.target \in {0, 1}
  <2>1. cfg \in Configs /\ tags \in Tags
    BY Counters DEF StreamInv, TypeInv
  <2>2. QED
    BY <2>1, ConfigsAssumption DEF Tags
<1>3. target \in {0, 1}
  BY <1>2
<1> HIDE DEF target
<1>4. /\ PacketsInv' /\ Stream' = Stream /\ received' \subseteq 1..read'
      /\ client' \in Clients /\ transcript' \in DOMAIN Transcripts /\ read' \in 0..Len(Stream')
  BY <1>1, WireSame
<1>5. rounds' \in 0..MaxRounds
  BY <1>1, SizesAssumption
<1>6. TypeInv'
  <2>1. parserBuffer' \in Seq(Byte) /\ Waits(parserBuffer')
    BY <1>1, NothingWaits
  <2>2. antIdx' \in 0..7 /\ on' \in BOOLEAN /\ cfg' \in Configs
    BY <1>1, <1>2
  <2>3. QED
    BY <1>4, <1>5, <2>1, <2>2 DEF TypeInv
<1>7. tags' \in Counted /\ Counted' = Counted
  <2>1. tags' \in Counted
    BY <1>1, <1>2, <1>3, NoTagsCounted
  <2>2. QED
    BY <1>1, <2>1 DEF Counted, Switches
<1>8. AskedInv'
  BY <1>1, NothingAsked DEF AskedInv
<1>9. HandledInv'
  <2>1. ToSet(handled') = {}
    BY <1>1 DEF ToSet
  <2>2. tags'.seen = {}
    BY <1>1 DEF NoTags
  <2>3. handled' \in Seq(VerifiedRaw)
    BY <1>1
  <2>4. QED
    BY <2>1, <2>2, <2>3 DEF HandledInv
<1>10. ParseInv'
  <2>1. \A lo \in Nat \ {0}, hi \in Nat : lo <= hi => lo \in lo..hi
    OBVIOUS
  <2>2. QED
    BY <1>1, <2>1 DEF ParseInv
<1>11. QED
  BY <1>4, <1>6, <1>7, <1>8, <1>9, <1>10 DEF StreamInv

LEMMA StopStep ==
    ASSUME StreamInv, StopInventory
    PROVE  StreamInv'
<1>1. /\ UNCHANGED wireVars /\ received' = received /\ cfg' = cfg /\ on' = FALSE
      /\ parserBuffer' = parserBuffer /\ tags' = tags /\ UNCHANGED roundVars /\ handled' = handled
  BY DEF StopInventory
<1>2. /\ PacketsInv' /\ Stream' = Stream /\ received' \subseteq 1..read' /\ client' = client
      /\ client' \in Clients /\ transcript' \in DOMAIN Transcripts /\ read' \in 0..Len(Stream')
  BY <1>1, WireSame
<1>3. TypeInv'
  BY <1>1, <1>2 DEF StreamInv, TypeInv, roundVars
<1>4. (tags \in Counted)' /\ AskedInv' /\ HandledInv' /\ ParseInv'
  BY <1>1, <1>2 DEF StreamInv, Counted, Switches, AskedInv, HandledInv, ParseInv, AtOnce, roundVars
<1>5. QED
  BY <1>2, <1>3, <1>4 DEF StreamInv

LEMMA CommandStep ==
    ASSUME StreamInv, NextInventoryCommand
    PROVE  StreamInv'
<1> DEFINE mask == cfg.antennaMask
           ports == PortsOf(mask)
           next == NextInventoryAntenna(mask, antIdx)
<1>1. /\ UNCHANGED wireVars /\ received' = received /\ cfg' = cfg /\ on' = on
      /\ rounds < MaxRounds /\ rounds' = rounds + 1 /\ antIdx' = next.next
      /\ asked' = Append(asked, next.antenna)
      /\ parserBuffer' = parserBuffer /\ tags' = tags /\ handled' = handled
  BY DEF NextInventoryCommand
<1>2. /\ PacketsInv' /\ Stream' = Stream /\ received' \subseteq 1..read' /\ client' = client
      /\ client' \in Clients /\ transcript' \in DOMAIN Transcripts /\ read' \in 0..Len(Stream')
  BY <1>1, WireSame
<1>3. mask \in Byte
  BY ConfigsAssumption DEF StreamInv, TypeInv
<1>4. ports \subseteq 0..7
  BY <1>3, MaskHasPort
<1>5. Asks(asked, ports) /\ (asked # <<>> => antIdx = (asked[Len(asked)] - 128 + 1) % 8)
      /\ antIdx \in 0..7
  BY DEF StreamInv, TypeInv, AskedInv
<1> HIDE DEF ports, mask
<1>6. /\ asked \in Seq(Antennas(ports)) /\ Len(asked) \in Nat
      /\ \A k \in 1..(Len(asked) - 1) : Follows(ports, asked[k] - 128, asked[k + 1] - 128)
  BY <1>5 DEF Asks
<1> DEFINE from == IF asked = <<>> THEN (antIdx + 7) % 8 ELSE asked[Len(asked)] - 128
<1>7. from \in 0..7 /\ antIdx = (from + 1) % 8
  <2>1. CASE asked = <<>>
    BY <1>5, <2>1
  <2>2. CASE asked # <<>>
    <3>1. asked[Len(asked)] \in Antennas(ports)
      BY <1>6, <2>2
    <3>2. PICK p \in 0..7 : asked[Len(asked)] = 128 + p
      BY <1>4, <3>1 DEF Antennas
    <3>3. asked[Len(asked)] - 128 = p
      BY <3>2
    <3>4. QED
      BY <1>5, <2>2, <3>3
  <2>3. QED
    BY <2>1, <2>2
<1> HIDE DEF from
<1>8. PICK b \in ports : Follows(ports, from, b) /\ next.antenna = 128 + b /\ next.next = (b + 1) % 8
  BY <1>3, <1>7, NextFollows DEF ports
<1> HIDE DEF next
<1> DEFINE antenna == next.antenna
<1>9. antenna \in Antennas(ports) /\ antenna - 128 = b /\ b \in 0..7
  BY <1>4, <1>8 DEF Antennas
<1> HIDE DEF antenna
<1>10. /\ asked' \in Seq(Antennas(ports)) /\ Len(asked') = Len(asked) + 1
       /\ \A k \in 1..Len(asked) : asked'[k] = asked[k]
       /\ asked'[Len(asked) + 1] = antenna
  BY <1>1, <1>6, <1>9 DEF antenna
<1>11. ASSUME NEW k \in 1..(Len(asked') - 1)
       PROVE  Follows(ports, asked'[k] - 128, asked'[k + 1] - 128)
  <2>1. k \in 1..Len(asked) /\ asked'[k] = asked[k]
    BY <1>6, <1>10
  <2>2. CASE k < Len(asked)
    <3>1. k \in 1..(Len(asked) - 1) /\ k + 1 \in 1..Len(asked)
      BY <1>6, <2>1, <2>2
    <3>2. QED
      BY <1>6, <1>10, <2>1, <3>1
  <2>3. CASE k = Len(asked)
    <3>1. asked # <<>> /\ from = asked[k] - 128
      BY <1>6, <2>1, <2>3 DEF from
    <3>2. QED
      BY <1>8, <1>9, <1>10, <2>1, <2>3, <3>1
  <2>4. QED
    BY <1>6, <2>1, <2>2, <2>3
<1>12. antIdx' = (asked'[Len(asked')] - 128 + 1) % 8 /\ antIdx' \in 0..7
  BY <1>1, <1>6, <1>8, <1>9, <1>10
<1>13. AskedInv'
  <2>1. PortsOf(cfg'.antennaMask) = ports
    BY <1>1 DEF ports, mask
  <2>2. Asks(asked', ports)
    BY <1>10, <1>11 DEF Asks
  <2>3. QED
    BY <1>12, <2>1, <2>2 DEF AskedInv
<1>14. TypeInv'
  <2>1. rounds' \in 0..MaxRounds
    BY <1>1, SizesAssumption DEF StreamInv, TypeInv
  <2>2. QED
    BY <1>1, <1>2, <1>12, <2>1 DEF StreamInv, TypeInv
<1>15. (tags \in Counted)' /\ HandledInv' /\ ParseInv'
  BY <1>1, <1>2 DEF StreamInv, Counted, Switches, HandledInv, ParseInv, AtOnce
<1>16. QED
  BY <1>2, <1>13, <1>14, <1>15 DEF StreamInv

LEMMA MaskStep ==
    ASSUME StreamInv, ScanMask
    PROVE  StreamInv'
<1>1. /\ UNCHANGED wireVars /\ received' = received /\ cfg' = cfg /\ on' = on
      /\ parserBuffer' = parserBuffer /\ tags' = tags /\ handled' = handled
      /\ antIdx' = 0 /\ asked' = <<>> /\ rounds' = rounds
  BY DEF ScanMask
<1>2. /\ PacketsInv' /\ Stream' = Stream /\ received' \subseteq 1..read' /\ client' = client
      /\ client' \in Clients /\ transcript' \in DOMAIN Transcripts /\ read' \in 0..Len(Stream')
  BY <1>1, WireSame
<1>3. TypeInv'
  BY <1>1, <1>2 DEF StreamInv, TypeInv
<1>4. (tags \in Counted)' /\ HandledInv' /\ ParseInv'
  BY <1>1, <1>2 DEF StreamInv, Counted, Switches, HandledInv, ParseInv, AtOnce
<1>5. AskedInv'
  BY <1>1, NothingAsked DEF AskedInv
<1>6. QED
  BY <1>2, <1>3, <1>4, <1>5 DEF StreamInv

\* New limits count from now on; a new mask begins a new rotation.
LEMMA ConfigureStep ==
    ASSUME StreamInv, NEW new \in Configs, Configure(new)
    PROVE  StreamInv'
<1> DEFINE target == IF client = "tui" THEN new.target ELSE tags.target
           after == [tags EXCEPT !.quiet = 0, !.target = target]
<1>1. /\ UNCHANGED wireVars /\ received' = received /\ cfg' = new /\ on' = on
      /\ parserBuffer' = parserBuffer /\ handled' = handled /\ antIdx' = antIdx /\ rounds' = rounds
      /\ asked' = IF new.antennaMask = cfg.antennaMask THEN asked ELSE <<>>
      /\ tags' = [tags EXCEPT !.quiet = 0, !.target = IF client = "tui" THEN new.target ELSE @]
  BY DEF Configure
<1>2. /\ PacketsInv' /\ Stream' = Stream /\ received' \subseteq 1..read' /\ client' = client
      /\ client' \in Clients /\ transcript' \in DOMAIN Transcripts /\ read' \in 0..Len(Stream')
  BY <1>1, WireSame
<1>3. TypeInv'
  BY <1>1, <1>2 DEF StreamInv, TypeInv
<1>4. tags \in Tags /\ IsFiniteSet(tags.seen) /\ tags.uniqueTags = Cardinality(tags.seen)
      /\ tags.quiet <= tags.noTagHit /\ new.target \in {0, 1} /\ new.noTagABSwitch \in Nat
  <2>1. tags \in Counted
    BY DEF StreamInv
  <2>2. QED
    BY <2>1, Counters, ConfigsAssumption
<1>5. target \in {0, 1}
  BY <1>4 DEF Tags
<1>6. tags' = after
  BY <1>1, <1>4 DEF Tags
<1> HIDE DEF target
<1>7. /\ after \in Tags /\ after.seen = tags.seen /\ after.uniqueTags = tags.uniqueTags
      /\ after.quiet = 0 /\ after.noTagHit = tags.noTagHit /\ after.noTagHit \in Nat
  BY <1>4, <1>5 DEF Tags
<1> HIDE DEF after
<1>8. (tags \in Counted)'
  <2>1. tags'.quiet <= tags'.noTagHit
    BY <1>6, <1>7
  <2>2. Switches' => tags'.quiet < cfg'.noTagABSwitch
    BY <1>1, <1>4, <1>6, <1>7 DEF Switches
  <2>3. QED
    BY <1>4, <1>6, <1>7, <2>1, <2>2 DEF Counted
<1>9. HandledInv'
  BY <1>1, <1>2, <1>6, <1>7 DEF StreamInv, HandledInv
<1>10. AskedInv'
  BY <1>1, NothingAsked DEF StreamInv, AskedInv
<1>11. ParseInv'
  BY <1>1, <1>2 DEF StreamInv, ParseInv, AtOnce
<1>12. QED
  BY <1>2, <1>3, <1>8, <1>9, <1>10, <1>11 DEF StreamInv

LEMMA NextInv == StreamInv /\ [Next]_vars => StreamInv'
<1> SUFFICES ASSUME StreamInv, [Next]_vars PROVE StreamInv'
  OBVIOUS
<1>1. CASE \E n \in ReadSizes : Read(n)
  BY <1>1, ReadStep
<1>2. CASE ConsumePacket
  BY <1>2, ConsumeStep
<1>3. CASE StartInventory
  BY <1>3, StartStep
<1>4. CASE StopInventory
  BY <1>4, StopStep
<1>5. CASE NextInventoryCommand
  BY <1>5, CommandStep
<1>6. CASE ScanMask
  BY <1>6, MaskStep
<1>7. CASE \E new \in Configs : Configure(new)
  BY <1>7, ConfigureStep
<1>8. CASE UNCHANGED vars
  BY <1>8 DEF vars, wireVars, roundVars, StreamInv, TypeInv, Stream, PacketsInv, Counted, Switches,
              AskedInv, HandledInv, ParseInv, AtOnce
<1>9. QED
  BY <1>1, <1>2, <1>3, <1>4, <1>5, <1>6, <1>7, <1>8 DEF Next

\* The invariant holds of every reachable state.
THEOREM StreamInvariant == Spec => []StreamInv
<1>1. Init => StreamInv
  BY InitInv
<1>2. StreamInv /\ [Next]_vars => StreamInv'
  BY NextInv
<1>3. QED
  BY <1>1, <1>2, PTL DEF Spec

\* The states are well formed, and no packet waits beyond the channel's capacity.
THEOREM TagStreamTypeOK == Spec => []TypeOK
<1>1. StreamInv => TypeOK
  BY DEF StreamInv, TypeInv, PacketsInv, TypeOK, Stream
<1>2. QED
  BY <1>1, StreamInvariant, PTL

\* An inventory in session 2 or 3 turns its target before as many rounds in a row as the
\* configuration says found no tag, whatever frames come and however the keys or the
\* SDK's caller change the configuration in between.
THEOREM TargetTurnsAlways == Spec => []TargetTurns
<1>1. StreamInv => TargetTurns
  BY Counters DEF StreamInv, TargetTurns, Switches
<1>2. QED
  BY <1>1, StreamInvariant, PTL

\* For each of the 256 masks, any n rounds in a row ask all n antennas of the mask.
THEOREM RotationIsFair == Spec => []RotationFair
<1>1. StreamInv => RotationFair
  <2> SUFFICES ASSUME StreamInv PROVE RotationFair
    OBVIOUS
  <2> DEFINE ports == PortsOf(cfg.antennaMask)
             n == Cardinality(Antennas(ports))
  <2>1. cfg.antennaMask \in Byte /\ Asks(asked, ports)
    BY ConfigsAssumption DEF StreamInv, TypeInv, AskedInv
  <2>2. ports \in SUBSET (0..7)
    BY <2>1, MaskHasPort
  <2> HIDE DEF ports
  <2>3. \A k \in 0..(Len(asked) - n) : {asked[k + i] : i \in 1..n} = Antennas(ports)
    BY <2>1, <2>2, RotationCovers
  <2>4. QED
    BY <2>3, Zenon DEF RotationFair, Antennas, ports
<1>2. QED
  BY <1>1, StreamInvariant, PTL

\* As long as no packet of an inventory was dropped, its frames are those of all its
\* bytes in one piece: neither the sizes of the reads nor when the packets are consumed
\* makes a difference, and the cut of the buffer never takes anything.
THEOREM ParsedAtOnceAlways == Spec => []ParsedAtOnce
<1>1. StreamInv => ParsedAtOnce
  <2> SUFFICES ASSUME StreamInv PROVE ParsedAtOnce
    OBVIOUS
  <2>1. received \subseteq 1..read /\ read \in Nat /\ ParseInv
    <3>1. Len(Stream) \in Nat
      BY StreamIsBytes DEF StreamInv, TypeInv, Stream
    <3>2. QED
      BY <3>1 DEF StreamInv, TypeInv
  <2>2. Cardinality(received) \in Nat
    <3>1. IsFiniteSet(1..read)
      BY <2>1, FS_Interval
    <3>2. QED
      BY <2>1, <3>1, FS_Subset, FS_CardinalityType
  <2> DEFINE n == Cardinality(received)
  <2>3. ASSUME NEW lo \in received, received = lo..(lo + n - 1)
        PROVE  AtOnce(lo, lo + n - 1)
    <3> DEFINE hi == lo + n - 1
    <3>1. lo \in Nat \ {0} /\ hi \in Int
      BY <2>1, <2>2
    <3>2. lo <= hi /\ hi \in Nat
      BY <2>3, <3>1
    <3> HIDE DEF n, hi
    <3>3. received = lo..hi
      BY <2>3 DEF hi
    <3>4. AtOnce(lo, hi)
      BY <2>1, <3>1, <3>2, <3>3 DEF ParseInv
    <3>5. QED
      BY <3>4 DEF hi
  <2>4. received = {} => handled = <<>> /\ parserBuffer = <<>>
    BY <2>1 DEF ParseInv
  <2>5. QED
    BY <2>3, <2>4, Zenon DEF ParsedAtOnce, AtOnce, Raws, Stream
<1>2. QED
  BY <1>1, StreamInvariant, PTL

\* As long as everything that was handled was sent, the tags of an inventory are those
\* that its frames report, each counted once, whatever the reader sends.
THEOREM TagsAreExact == Spec => [](HandledSent => TagsExact)
<1>1. StreamInv => (HandledSent => TagsExact)
  <2> SUFFICES ASSUME StreamInv, HandledSent PROVE TagsExact
    OBVIOUS
  <2> DEFINE sent == SentFrames[transcript]
             taken == {g \in sent : g.raw \in ToSet(handled)}
             reports(raw) == ReportsTo(client, FrameOf(raw))
  <2>1. /\ client \in Clients /\ transcript \in DOMAIN Transcripts
        /\ tags.seen = UNION {reports(raw) : raw \in ToSet(handled)}
        /\ handled \in Seq(VerifiedRaw) /\ tags.uniqueTags = Cardinality(tags.seen)
    <3>1. tags \in Counted
      BY DEF StreamInv
    <3>2. QED
      BY <3>1, Counters DEF StreamInv, TypeInv, HandledInv
  <2>2. \A f \in sent : f.epcs = reports(f.raw)
    BY <2>1, LabelsAssumption
  <2>3. \A raw \in ToSet(handled) : \E f \in sent : f.raw = raw
    BY <2>1 DEF HandledSent, ToSet
  <2> HIDE DEF sent, reports
  <2>4. UNION {reports(raw) : raw \in ToSet(handled)} = UNION {f.epcs : f \in taken}
    <3>1. ASSUME NEW x, NEW raw \in ToSet(handled), x \in reports(raw)
          PROVE  \E f \in taken : x \in f.epcs
      <4>1. PICK f \in sent : f.raw = raw
        BY <2>3
      <4>2. f \in taken /\ f.epcs = reports(raw)
        BY <2>2, <4>1
      <4>3. QED
        BY <3>1, <4>2
    <3>2. ASSUME NEW x, NEW f \in taken, x \in f.epcs
          PROVE  \E raw \in ToSet(handled) : x \in reports(raw)
      BY <2>2, <3>2
    <3>3. QED
      BY <3>1, <3>2
  <2>5. tags.seen = UNION {f.epcs : f \in taken}
    BY <2>1, <2>4
  <2>6. QED
    BY <2>1, <2>5, Zenon DEF TagsExact, sent
<1>2. QED
  BY <1>1, StreamInvariant, PTL
-----------------------------------------------------------------------------
(***************************************************************************)
(* A stream in which nothing but its frames looks like a packet.           *)
(***************************************************************************)
\* A slice of a slice.
LEMMA SliceOfSlice ==
    ASSUME NEW S, NEW s \in Seq(S), NEW lo \in Nat \ {0}, NEW hi \in Nat, hi <= Len(s), lo <= hi + 1,
           NEW a \in Nat \ {0}, NEW b \in Nat, b <= hi - lo + 1
    PROVE  SubSeq(SubSeq(s, lo, hi), a, b) = SubSeq(s, lo + a - 1, lo + b - 1)
<1> DEFINE buf == SubSeq(s, lo, hi)
           left == SubSeq(buf, a, b)
           first == lo + a - 1
           last == lo + b - 1
           right == SubSeq(s, first, last)
<1>0. Len(s) \in Nat /\ \A i \in 1..Len(s) : s[i] \in S
  OBVIOUS
<1>1. /\ buf \in Seq(S) /\ Len(buf) = hi - lo + 1
      /\ \A i \in 1..(hi - lo + 1) : buf[i] = s[lo + i - 1]
  <2>1. \A i \in lo..hi : s[i] \in S
    BY <1>0
  <2>2. /\ buf \in Seq(S) /\ Len(buf) = IF lo <= hi THEN hi - lo + 1 ELSE 0
        /\ \A i \in 1..(hi - lo + 1) : buf[i] = s[lo + i - 1]
    BY <2>1, SubSeqProperties
  <2> HIDE DEF buf
  <2>3. QED
    BY <2>2
<1> HIDE DEF buf
<1>2. /\ left \in Seq(S) /\ Len(left) = IF a <= b THEN b - a + 1 ELSE 0
      /\ \A i \in 1..(b - a + 1) : left[i] = buf[a + i - 1]
  <2>1. \A i \in a..b : buf[i] \in S
    BY <1>0, <1>1
  <2>2. QED
    BY <2>1, SubSeqProperties
<1>3. /\ right \in Seq(S) /\ Len(right) = IF first <= last THEN last - first + 1 ELSE 0
      /\ \A i \in 1..(last - first + 1) : right[i] = s[first + i - 1]
  <2>1. first \in Int /\ last \in Int /\ first >= 1 /\ last <= Len(s)
    BY <1>0
  <2> HIDE DEF first, last
  <2>2. \A i \in first..last : s[i] \in S
    BY <1>0, <2>1
  <2>3. QED
    BY <2>1, <2>2, SubSeqProperties
<1>4. last - first + 1 = b - a + 1 /\ (first <= last <=> a <= b)
  OBVIOUS
<1> HIDE DEF left, right
<1>5. ASSUME NEW i \in 1..Len(left) PROVE left[i] = right[i]
  <2>1. i \in 1..(b - a + 1) /\ i \in 1..(last - first + 1) /\ a + i - 1 \in 1..(hi - lo + 1)
        /\ lo + (a + i - 1) - 1 = first + i - 1
    BY <1>2
  <2> HIDE DEF first, last
  <2>2. QED
    BY <1>1, <1>2, <1>3, <2>1
<1>6. Len(left) = Len(right)
  <2> HIDE DEF first, last
  <2> QED
    BY <1>2, <1>3, <1>4
<1>7. left = right
  <2> HIDE DEF first, last
  <2> QED
    BY <1>2, <1>3, <1>5, <1>6, SeqEqual
<1>8. QED
  BY <1>7 DEF left, right, buf

LEMMA FirstOfSlice ==
    ASSUME NEW S, NEW s \in Seq(S), NEW n \in 1..Len(s)
    PROVE  SubSeq(s, 1, n)[1] = s[1]
<1>1. n \in Int /\ 1 <= n /\ \A i \in 1..n : s[i] \in S
  OBVIOUS
<1>2. \A i \in 1..(n - 1 + 1) : SubSeq(s, 1, n)[i] = s[1 + i - 1]
  BY <1>1, SubSeqProperties
<1>3. QED
  BY <1>1, <1>2

LEMMA TailIsSlice ==
    ASSUME NEW S, NEW s \in Seq(S), s # <<>>
    PROVE  Tail(s) = SubSeq(s, 2, Len(s))
<1> DEFINE left == Tail(s)
           right == SubSeq(s, 2, Len(s))
<1>1. Len(s) \in Nat \ {0} /\ \A i \in 1..Len(s) : s[i] \in S
  OBVIOUS
<1>2. left \in Seq(S) /\ Len(left) = Len(s) - 1 /\ \A i \in 1..(Len(s) - 1) : left[i] = s[i + 1]
  OBVIOUS
<1>3. /\ right \in Seq(S) /\ Len(right) = Len(s) - 1
      /\ \A i \in 1..(Len(s) - 1) : right[i] = s[i + 1]
  <2>1. \A i \in 2..Len(s) : s[i] \in S
    BY <1>1
  <2>2. /\ right \in Seq(S) /\ Len(right) = IF 2 <= Len(s) THEN Len(s) - 2 + 1 ELSE 0
        /\ \A i \in 1..(Len(s) - 2 + 1) : right[i] = s[2 + i - 1]
    BY <1>1, <2>1, SubSeqProperties
  <2> DEFINE len == Len(s)
             n == len - 2 + 1
  <2> HIDE DEF right, len
  <2>3. n = len - 1 /\ Len(right) = n
    <3>1. len \in Nat \ {0}
      BY <1>1 DEF len
    <3>2. Len(right) = IF 2 <= len THEN len - 2 + 1 ELSE 0
      BY <2>2 DEF len
    <3> HIDE DEF right
    <3>3. QED
      BY <3>1, <3>2
  <2>4. \A i \in 1..n : right[i] = s[2 + i - 1] /\ 2 + i - 1 = i + 1
    BY <2>2 DEF len
  <2> HIDE DEF n
  <2>5. QED
    BY <2>2, <2>3, <2>4 DEF len
<1> HIDE DEF left, right
<1>4. left = right
  BY <1>1, <1>2, <1>3, SeqEqual
<1>5. QED
  BY <1>4 DEF left, right

\* What the parser finds in bytes lo to hi: the frames that lie there and not behind the
\* first of the bytes it keeps, in their order.
Finds(sent, lo, hi, parsed) ==
    LET front == hi - Len(parsed.remaining) + 1
    IN \E places \in Seq(sent) :
         /\ Len(places) = Len(parsed.frames)
         /\ \A k \in 1..Len(places) : parsed.frames[k].raw = places[k].raw
         /\ \A j, k \in 1..Len(places) : j < k => places[j].first < places[k].first
         /\ \A f \in sent : (\E k \in 1..Len(places) : places[k] = f)
                              <=> lo <= f.first /\ f.last <= hi /\ f.first <= front

LEMMA RemainingShort ==
    ASSUME NEW buf \in Seq(Byte)
    PROVE  Len(ParseFrames[buf].remaining) <= Len(buf)
<1> DEFINE Good == {b \in Seq(Byte) : Len(ParseFrames[b].remaining) <= Len(b)}
<1>1. ASSUME NEW b \in Seq(Byte), \A r \in Seq(Byte) : Len(r) < Len(b) => r \in Good
      PROVE  b \in Good
  <2>1. CASE Waits(b)
    <3>1. ParseFrames[b].remaining = b /\ Len(b) \in Nat
      <4>1. ParseFrames[b] = [frames |-> <<>>, remaining |-> b]
        BY <2>1, ParseSteps, Zenon
      <4>2. QED
        BY <4>1
    <3>2. QED
      BY <3>1
  <2>2. CASE ~Waits(b) /\ Takes(b)
    <3>1. /\ Rest(b) \in Seq(Byte) /\ Len(Rest(b)) < Len(b)
          /\ Len(Rest(b)) \in Nat /\ Len(b) \in Nat
      BY <2>2, Shorter
    <3>2. Rest(b) \in Good
      BY <1>1, <3>1
    <3>3. ParseFrames[b].remaining = ParseFrames[Rest(b)].remaining
      <4> DEFINE frames == <<FrameOf(SubSeq(b, 1, Total(b)))>> \o ParseFrames[Rest(b)].frames
      <4>1. ParseFrames[b] = [frames |-> frames, remaining |-> ParseFrames[Rest(b)].remaining]
        BY <2>2, ParseSteps
      <4> HIDE DEF frames
      <4>2. QED
        BY <4>1
    <3>4. ParseFrames[Rest(b)].remaining \in Seq(Byte)
      BY <3>1, ParsedIs
    <3>5. Len(ParseFrames[Rest(b)].remaining) \in Nat
      BY <3>4
    <3>6. QED
      BY <3>1, <3>2, <3>3, <3>5
  <2>3. CASE ~Waits(b) /\ ~Takes(b)
    <3>1. Tail(b) \in Seq(Byte) /\ Len(Tail(b)) < Len(b) /\ Len(Tail(b)) \in Nat /\ Len(b) \in Nat
      BY <2>3, Shorter
    <3>2. Tail(b) \in Good
      BY <1>1, <3>1
    <3>3. ParseFrames[b].remaining = ParseFrames[Tail(b)].remaining
      BY <2>3, ParseSteps
    <3>4. ParseFrames[Tail(b)].remaining \in Seq(Byte)
      BY <3>1, ParsedIs
    <3>5. Len(ParseFrames[Tail(b)].remaining) \in Nat
      BY <3>4
    <3>6. QED
      BY <3>1, <3>2, <3>3, <3>5
  <2>4. QED
    BY <2>1, <2>2, <2>3
<1>2. Seq(Byte) \subseteq Good
  <2> HIDE DEF Good
  <2> QED
    BY <1>1, LengthInduct
<1>3. QED
  BY <1>2
LEMMA SentIs ==
    ASSUME NEW t \in DOMAIN Transcripts, Unmistakable(t)
    PROVE  LET s == StreamOf[t]
           IN /\ s \in Seq(Byte)
              /\ \A f \in SentFrames[t] :
                   /\ f.first \in Nat \ {0} /\ f.last \in Nat /\ f.first <= f.last /\ f.last <= Len(s)
                   /\ f.raw \in Seq(Byte) /\ f.raw = SubSeq(s, f.first, f.last)
                   /\ VerifyPacket(f.raw) /\ Len(f.raw) = f.last - f.first + 1
              /\ \A f, g \in SentFrames[t] : f = g \/ Apart(f, g)
<1> DEFINE s == StreamOf[t]
<1>1. WellLaid(s, SentFrames[t])
  BY LaidOut
<1>2. s \in Seq(Byte) /\ Len(s) \in Nat
  BY <1>1 DEF WellLaid
<1> HIDE DEF s
<1>3. ASSUME NEW f \in SentFrames[t]
      PROVE  /\ f.first \in Nat \ {0} /\ f.last \in Nat /\ f.first <= f.last /\ f.last <= Len(s)
             /\ f.raw \in Seq(Byte) /\ f.raw = SubSeq(s, f.first, f.last)
             /\ VerifyPacket(f.raw) /\ Len(f.raw) = f.last - f.first + 1
  <2>1. /\ f.first \in Nat \ {0} /\ f.last \in Nat /\ f.first <= f.last + 1 /\ f.last <= Len(s)
        /\ f.raw \in Seq(Byte) /\ f.raw = SubSeq(s, f.first, f.last)
    BY <1>1 DEF WellLaid, AtPlace, Placed
  <2>2. VerifyPacket(f.raw)
    BY DEF Unmistakable
  <2>3. Len(f.raw) >= 6
    BY <2>2 DEF VerifyPacket
  <2>4. Len(f.raw) = IF f.first <= f.last THEN f.last - f.first + 1 ELSE 0
    BY <1>2, <2>1, SliceType
  <2>5. f.first <= f.last
    BY <2>1, <2>3, <2>4
  <2>6. QED
    BY <2>1, <2>2, <2>4, <2>5
<1>4. \A f, g \in SentFrames[t] : f = g \/ Apart(f, g)
  BY <1>1 DEF WellLaid
<1>5. QED
  BY <1>2, <1>3, <1>4 DEF s

LEMMA FindsFrames ==
    ASSUME NEW t \in DOMAIN Transcripts, Unmistakable(t),
           NEW hi \in Nat, hi <= Len(StreamOf[t]), NEW from \in Nat \ {0}, from <= hi + 1
    PROVE  Finds(SentFrames[t], from, hi, ParseFrames[SubSeq(StreamOf[t], from, hi)])
<1> DEFINE s == StreamOf[t]
           sent == SentFrames[t]
           Slice(lo) == SubSeq(s, lo, hi)
           Good == {b \in Seq(Byte) : \A lo \in 1..(hi + 1) :
                                        b = Slice(lo) => Finds(sent, lo, hi, ParseFrames[b])}
<1>1. /\ s \in Seq(Byte) /\ Len(s) \in Nat /\ hi <= Len(s)
      /\ \A f \in sent :
           /\ f.first \in Nat \ {0} /\ f.last \in Nat /\ f.first <= f.last /\ f.last <= Len(s)
           /\ f.raw \in Seq(Byte) /\ f.raw = SubSeq(s, f.first, f.last)
           /\ VerifyPacket(f.raw) /\ Len(f.raw) = f.last - f.first + 1
      /\ \A f, g \in sent : f = g \/ Apart(f, g)
      /\ \A first, last \in 1..Len(s) : VerifyPacket(SubSeq(s, first, last))
                                          => \E f \in sent : f.first = first /\ f.last = last
  BY SentIs DEF Unmistakable
<1> HIDE DEF s, sent
<1>2. ASSUME NEW lo \in 1..(hi + 1)
      PROVE  Slice(lo) \in Seq(Byte) /\ Len(Slice(lo)) = hi - lo + 1
  <2>1. Slice(lo) \in Seq(Byte) /\ Len(Slice(lo)) = IF lo <= hi THEN hi - lo + 1 ELSE 0
    BY <1>1, SliceType
  <2>2. QED
    BY <2>1
<1>3. ASSUME NEW b \in Seq(Byte), \A r \in Seq(Byte) : Len(r) < Len(b) => r \in Good
      PROVE  b \in Good
  <2> SUFFICES ASSUME NEW lo \in 1..(hi + 1), b = Slice(lo)
               PROVE  Finds(sent, lo, hi, ParseFrames[b])
    OBVIOUS
  <2>1. Len(b) = hi - lo + 1 /\ lo \in Nat \ {0} /\ lo <= hi + 1
    BY <1>2
  <2>2. ASSUME NEW f \in sent, f.first = lo, f.last <= hi PROVE ~Waits(b) /\ Takes(b)
    <3> DEFINE n == Len(f.raw)
    <3>1. /\ VerifyPacket(f.raw) /\ f.raw = SubSeq(s, lo, f.last) /\ n = f.last - lo + 1
          /\ f.last \in Nat /\ lo <= f.last
      BY <1>1, <2>2
    <3>2. n >= 6 /\ f.raw[1] + 1 = n /\ n \in Nat
      BY <3>1 DEF VerifyPacket
    <3>3. f.raw = SubSeq(b, 1, n)
      <4>1. n \in Nat /\ n <= hi - lo + 1
        BY <2>1, <2>2, <3>1
      <4> HIDE DEF n
      <4>2. SubSeq(Slice(lo), 1, n) = SubSeq(s, lo + 1 - 1, lo + n - 1)
        BY <1>1, <2>1, <4>1, SliceOfSlice
      <4>3. lo + 1 - 1 = lo /\ lo + n - 1 = f.last
        BY <2>1, <3>1
      <4>4. QED
        BY <3>1, <4>2, <4>3
    <3>4. f.raw[1] = b[1]
      <4>1. n <= Len(b) /\ 1 <= n
        BY <2>1, <2>2, <3>1, <3>2
      <4>2. n \in 1..Len(b)
        BY <2>1, <3>2, <4>1
      <4> HIDE DEF n
      <4>3. SubSeq(b, 1, n)[1] = b[1]
        BY <4>2, FirstOfSlice
      <4>4. QED
        BY <3>3, <4>3
    <3>5. Total(b) = n /\ Total(b) >= 6
      BY <3>2, <3>4 DEF Total
    <3>6. Takes(b)
      BY <3>1, <3>3, <3>5 DEF Takes
    <3>7. Len(b) >= n /\ Len(b) \in Nat
      BY <2>1, <2>2, <3>1
    <3>8. ~Waits(b)
      BY <3>2, <3>4, <3>7 DEF Waits
    <3>9. QED
      BY <3>6, <3>8
  <2>3. CASE Waits(b)
    <3>1. ParseFrames[b] = [frames |-> <<>>, remaining |-> b]
      BY <2>3, ParseSteps
    <3> DEFINE places == <<>>
               parsed == ParseFrames[b]
    <3>2. places \in Seq(sent) /\ Len(places) = 0 /\ Len(parsed.frames) = 0 /\ parsed.remaining = b
      BY <3>1
    <3>3. ~\E f \in sent : lo <= f.first /\ f.last <= hi /\ f.first <= hi - Len(b) + 1
      BY <1>1, <2>2, <2>1, <2>3
    <3> HIDE DEF places, parsed
    <3>4. ~\E k \in 1..Len(places) : TRUE
      BY <3>2
    <3>5. Finds(sent, lo, hi, parsed)
      BY <3>2, <3>3, <3>4 DEF Finds
    <3>6. QED
      BY <3>5 DEF parsed
  <2>4. CASE ~Waits(b) /\ Takes(b)
    <3> DEFINE n == Total(b)
               raw == SubSeq(b, 1, n)
               rest == ParseFrames[Rest(b)]
               last == lo + n - 1
    <3>1. /\ n \in 6..Len(b) /\ raw \in Seq(Byte) /\ Rest(b) \in Seq(Byte)
          /\ Len(Rest(b)) = Len(b) - n
      BY <2>4, Shorter
    <3>2. ParseFrames[b] = [frames |-> <<FrameOf(raw)>> \o rest.frames, remaining |-> rest.remaining]
      BY <2>4, ParseSteps
    <3>3. n \in Nat \ {0} /\ n <= hi - lo + 1 /\ last \in Nat /\ last <= hi /\ lo <= last
      BY <2>1, <3>1
    <3>4. raw = SubSeq(s, lo, last)
      <4> DEFINE one == 1
      <4>1. n \in Nat /\ n <= hi - lo + 1 /\ one \in Nat \ {0} /\ lo + one - 1 = lo
        BY <2>1, <3>3
      <4> HIDE DEF n, one
      <4>2. SubSeq(Slice(lo), one, n) = SubSeq(s, lo + one - 1, lo + n - 1)
        BY <1>1, <2>1, <4>1, SliceOfSlice
      <4>3. QED
        BY <4>1, <4>2 DEF one, n
    <3>5. Rest(b) = Slice(last + 1)
      <4> DEFINE len == Len(b)
                 next == n + 1
      <4>1. len \in Nat /\ next \in Nat \ {0} /\ len <= hi - lo + 1
        BY <2>1, <3>1
      <4>2. lo + next - 1 = last + 1 /\ lo + len - 1 = hi
        BY <2>1, <3>3
      <4> HIDE DEF len, next, n
      <4>3. SubSeq(Slice(lo), next, len) = SubSeq(s, lo + next - 1, lo + len - 1)
        BY <1>1, <2>1, <4>1, SliceOfSlice
      <4>4. QED
        BY <4>2, <4>3 DEF Rest, len, next, n
    <3>6. PICK f \in sent : f.first = lo /\ f.last = last
      <4>1. VerifyPacket(SubSeq(s, lo, last))
        BY <2>4, <3>4 DEF Takes
      <4>2. lo \in 1..Len(s) /\ last \in 1..Len(s)
        BY <1>1, <2>1, <3>3
      <4>3. QED
        BY <1>1, <4>1, <4>2
    <3>7. f.raw = raw
      BY <1>1, <3>4, <3>6, ZenonT(60)
    <3>8. Finds(sent, last + 1, hi, rest)
      <4>1. Len(Rest(b)) < Len(b)
        BY <3>1
      <4>2. Rest(b) \in Good
        BY <1>3, <3>1, <4>1
      <4>3. last + 1 \in 1..(hi + 1)
        BY <3>3
      <4>4. QED
        BY <3>5, <4>2, <4>3
    <3>9. /\ rest.frames \in Seq(Frame) /\ rest.remaining \in Seq(Byte)
          /\ Len(rest.remaining) <= hi - last /\ Len(rest.remaining) \in Nat
      <4>1. rest.frames \in Seq(Frame) /\ rest.remaining \in Seq(Byte)
        BY <3>1, ParsedIs
      <4>2. Len(rest.remaining) <= Len(Rest(b))
        BY <3>1, RemainingShort
      <4>3. Len(b) - n = hi - last
        BY <2>1, <3>3
      <4>4. QED
        BY <3>1, <4>1, <4>2, <4>3
    <3> DEFINE one == FrameOf(raw)
               frames == <<one>> \o rest.frames
    <3>10. one.raw = raw
      BY DEF FrameOf
    <3> HIDE DEF n, raw, rest, last, one
    <3> DEFINE kept == Len(rest.remaining)
    <3>21. kept \in Nat /\ kept <= hi - last /\ hi \in Nat /\ last \in Nat
      BY <1>1, <2>1, <3>3, <3>9
    <3> DEFINE front == hi - kept + 1
    <3>22. front \in Int /\ last < front
      <4> HIDE DEF kept
      <4>1. QED
        BY <3>21
    <3>11. PICK later \in Seq(sent) :
             /\ Len(later) = Len(rest.frames)
             /\ \A k \in 1..Len(later) : rest.frames[k].raw = later[k].raw
             /\ \A j, k \in 1..Len(later) : j < k => later[j].first < later[k].first
             /\ \A g \in sent : (\E k \in 1..Len(later) : later[k] = g)
                                  <=> last + 1 <= g.first /\ g.last <= hi /\ g.first <= front
      BY <3>8 DEF Finds
    <3> HIDE DEF kept, front
    <3> DEFINE places == <<f>> \o later
    <3>12. /\ places \in Seq(sent) /\ Len(places) = Len(later) + 1 /\ Len(later) \in Nat
           /\ places[1] = f /\ \A k \in 1..Len(later) : places[k + 1] = later[k]
      BY <3>11
    <3>13. /\ Len(frames) = Len(rest.frames) + 1 /\ frames[1] = one
           /\ \A k \in 1..Len(rest.frames) : frames[k + 1] = rest.frames[k]
      BY <3>9
    <3> HIDE DEF places, frames
    <3>14. \A k \in 1..Len(places) : k = 1 \/ \E i \in 1..Len(later) : k = i + 1
      <4>1. ASSUME NEW k \in 1..Len(places), k # 1 PROVE k - 1 \in 1..Len(later) /\ k = (k - 1) + 1
        BY <3>12, <4>1
      <4>2. QED
        BY <4>1
    <3>15. ASSUME NEW k \in 1..Len(places) PROVE frames[k].raw = places[k].raw
      <4>1. CASE k = 1
        BY <3>7, <3>10, <3>12, <3>13, <4>1
      <4>2. CASE k # 1
        <5>1. PICK i \in 1..Len(later) : k = i + 1
          BY <3>14, <4>2
        <5>2. frames[k] = rest.frames[i] /\ places[k] = later[i] /\ rest.frames[i].raw = later[i].raw
          BY <3>11, <3>12, <3>13, <5>1
        <5>3. QED
          BY <5>2
      <4>3. QED
        BY <4>1, <4>2
    <3>16. ASSUME NEW j \in 1..Len(places), NEW k \in 1..Len(places), j < k
           PROVE  places[j].first < places[k].first
      <4>1. PICK m \in 1..Len(later) : k = m + 1
        BY <3>12, <3>14, <3>16
      <4>2. later[m] \in sent /\ last + 1 <= later[m].first /\ later[m].first \in Nat
        <5> DEFINE g == later[m]
        <5>1. g \in sent
          BY <3>11, <4>1
        <5>2. \E i \in 1..Len(later) : later[i] = g
          OBVIOUS
        <5> HIDE DEF g
        <5>3. last + 1 <= g.first
          BY <3>11, <5>1, <5>2, Zenon
        <5>4. g.first \in Nat
          BY <1>1, <5>1
        <5>5. QED
          BY <5>1, <5>3, <5>4 DEF g
      <4>3. CASE j = 1
        BY <3>3, <3>6, <3>12, <4>1, <4>2, <4>3
      <4>4. CASE j # 1
        <5>1. PICK i \in 1..Len(later) : j = i + 1
          BY <3>14, <4>4
        <5>2. i < m
          BY <3>16, <4>1, <5>1
        <5>3. QED
          BY <3>11, <3>12, <4>1, <5>1, <5>2
      <4>5. QED
        BY <4>3, <4>4
    <3>17. ASSUME NEW g \in sent
           PROVE  (\E k \in 1..Len(places) : places[k] = g)
                    <=> lo <= g.first /\ g.last <= hi /\ g.first <= front
      <4>1. (\E k \in 1..Len(places) : places[k] = g)
              <=> g = f \/ \E k \in 1..Len(later) : later[k] = g
        <5>1. 1 \in 1..Len(places) /\ \A k \in 1..Len(later) : k + 1 \in 1..Len(places)
          BY <3>12
        <5>2. ASSUME NEW k \in 1..Len(places), places[k] = g
              PROVE  g = f \/ \E i \in 1..Len(later) : later[i] = g
          <6>1. CASE k = 1
            BY <3>12, <5>2, <6>1
          <6>2. CASE k # 1
            <7>1. PICK i \in 1..Len(later) : k = i + 1
              BY <3>14, <6>2
            <7>2. later[i] = g
              BY <3>12, <5>2, <7>1
            <7>3. QED
              BY <7>2
          <6>3. QED
            BY <6>1, <6>2
        <5>3. QED
          BY <3>12, <5>1, <5>2
      <4>2. /\ g.first \in Nat /\ g.last \in Nat /\ g.first <= g.last
            /\ f.first \in Nat /\ f.last \in Nat /\ f.first <= f.last
            /\ (g = f \/ g.last < f.first \/ f.last < g.first)
        BY <1>1 DEF Apart
      <4>3. f.first = lo /\ f.last = last /\ last <= hi /\ lo <= last /\ last < front
        BY <3>3, <3>6, <3>22
      <4>4. CASE g = f
        <5>1. lo <= f.first /\ f.last <= hi /\ f.first <= front
          BY <1>1, <2>1, <3>21, <3>22, <4>2, <4>3
        <5>2. QED
          BY <4>1, <4>4, <5>1
      <4>5. CASE g # f
        <5>1. lo <= g.first <=> last + 1 <= g.first
          BY <2>1, <3>3, <4>2, <4>3, <4>5
        <5>2. QED
          BY <3>11, <4>1, <4>5, <5>1
      <4>6. QED
        BY <4>4, <4>5
    <3>18. Finds(sent, lo, hi, [frames |-> frames, remaining |-> rest.remaining])
      <4>1. Len(places) = Len(frames)
        BY <3>11, <3>12, <3>13
      <4>2. QED
        BY <3>12, <3>15, <3>16, <3>17, <4>1 DEF Finds, kept, front
    <3>19. ParseFrames[b] = [frames |-> frames, remaining |-> rest.remaining]
      BY <3>2 DEF frames, one, raw, rest, n
    <3>20. QED
      BY <3>18, <3>19
  <2>5. CASE ~Waits(b) /\ ~Takes(b)
    <3>1. /\ Tail(b) \in Seq(Byte) /\ Len(Tail(b)) = Len(b) - 1 /\ Len(b) >= 6 /\ Len(b) \in Nat
          /\ Len(Tail(b)) < Len(b) /\ b # <<>>
      <4>1. Tail(b) \in Seq(Byte) /\ Len(Tail(b)) = Len(b) - 1 /\ Len(b) >= 6
        BY <2>5, Shorter, Zenon
      <4>2. Len(b) \in Nat /\ b # <<>>
        BY <4>1
      <4> DEFINE tail == Tail(b)
                 len == Len(b)
      <4>3. Len(tail) = len - 1 /\ len \in Nat
        BY <4>1, <4>2
      <4> HIDE DEF tail, len
      <4>4. Len(tail) < len
        BY <4>3
      <4>5. QED
        BY <4>1, <4>2, <4>4, Zenon DEF tail, len
    <3>2. Tail(b) = Slice(lo + 1)
      <4> DEFINE len == Len(b)
      <4>1. len \in Nat /\ len <= hi - lo + 1 /\ len = hi - lo + 1
        BY <2>1, <3>1
      <4>2. Tail(b) = SubSeq(b, 2, len)
        BY <3>1, TailIsSlice
      <4> HIDE DEF len
      <4>3. SubSeq(Slice(lo), 2, len) = SubSeq(s, lo + 2 - 1, lo + len - 1)
        BY <1>1, <2>1, <4>1, SliceOfSlice
      <4>4. lo + 2 - 1 = lo + 1 /\ lo + len - 1 = hi
        BY <2>1, <4>1
      <4>5. QED
        BY <4>2, <4>3, <4>4
    <3>3. Finds(sent, lo + 1, hi, ParseFrames[Tail(b)])
      <4>1. Tail(b) \in Good
        BY <1>3, <3>1
      <4>2. lo + 1 \in 1..(hi + 1)
        BY <2>1, <3>1
      <4>3. QED
        BY <3>2, <4>1, <4>2
    <3>4. \A f \in sent : lo + 1 <= f.first /\ f.last <= hi <=> lo <= f.first /\ f.last <= hi
      <4>1. ASSUME NEW f \in sent, f.last <= hi PROVE lo + 1 <= f.first <=> lo <= f.first
        BY <1>1, <2>2, <2>1, <2>5, <4>1
      <4>2. QED
        BY <4>1
    <3>5. ParseFrames[b] = ParseFrames[Tail(b)]
      BY <2>5, ParseSteps
    <3>6. QED
      BY <3>3, <3>4, <3>5, ZenonT(60) DEF Finds
  <2>6. QED
    BY <2>3, <2>4, <2>5
<1>4. Seq(Byte) \subseteq Good
  <2> HIDE DEF Good
  <2> QED
    BY <1>3, LengthInduct
<1>5. QED
  <2>1. from \in 1..(hi + 1)
    OBVIOUS
  <2>2. QED
    BY <1>2, <1>4, <2>1 DEF s, sent
-----------------------------------------------------------------------------
Finding == INSTANCE Folding WITH Op <- Found

LEMMA FindingFolds == \A b, s : FoldLeft(Found, b, s) = Finding!Fold(b, s)
  BY Zenon DEF FoldLeft, MapThenFoldSet, Max, Finding!Fold, Finding!FoldLeft,
               Finding!MapThenFoldSet, Finding!Max

\* The first of the frames is found, and only it.
LEMMA FoundFirst ==
    ASSUME NEW left, NEW f \in left, f.first \in Nat,
           \A g \in left : g.first \in Nat /\ (g # f => f.first < g.first)
    PROVE  Found(left, f.raw) = left \ {f}
<1> DEFINE next == CHOOSE h \in left : \A g \in left : h.first <= g.first
<1>1. \A g \in left : f.first <= g.first
  <2>1. ASSUME NEW g \in left PROVE f.first <= g.first
    <3>1. CASE g = f
      BY <3>1
    <3>2. CASE g # f
      BY <3>2
    <3>3. QED
      BY <3>1, <3>2
  <2>2. QED
    BY <2>1
<1>2. next \in left /\ \A g \in left : next.first <= g.first
  BY <1>1, Zenon
<1> HIDE DEF next
<1>3. next = f
  <2> SUFFICES ASSUME next # f PROVE FALSE
    OBVIOUS
  <2>1. f.first < next.first /\ next.first <= f.first /\ next.first \in Nat
    BY <1>2
  <2>2. QED
    BY <2>1
<1>4. left # {}
  OBVIOUS
<1>5. QED
  BY <1>3, <1>4, Zenon DEF Found, next

\* Handled one after the other, the frames strike each other out.
LEMMA StrikesOut ==
    ASSUME NEW sent, NEW places \in Seq(sent), \A f \in sent : f.first \in Nat,
           \A j, k \in 1..Len(places) : j < k => places[j].first < places[k].first,
           NEW S, NEW raws \in Seq(S), Len(raws) = Len(places),
           \A k \in 1..Len(places) : raws[k] = places[k].raw
    PROVE  FoldLeft(Found, {places[k] : k \in 1..Len(places)}, raws) = {}
<1> DEFINE n == Len(places)
           Left(k) == {places[i] : i \in (k + 1)..n}
           all == {places[k] : k \in 1..n}
<1>1. n \in Nat /\ \A k \in 1..n : places[k] \in sent /\ places[k].first \in Nat
  OBVIOUS
<1>2. PICK run : /\ run[0] = all /\ run[Len(raws)] = Finding!Fold(all, raws)
                 /\ \A k \in 1..Len(raws) : run[k] = Found(run[k - 1], raws[k])
  <2> HIDE DEF all
  <2> QED
    BY Finding!FoldRuns
<1> HIDE DEF all, Left
<1> DEFINE K == {k \in Nat : k <= n => run[k] = Left(k)}
<1>3. 0 \in K
  <2>1. Left(0) = all
    BY DEF Left, all
  <2>2. QED
    BY <1>2, <2>1
<1>4. ASSUME NEW k \in K \cap Nat PROVE k + 1 \in K
  <2> SUFFICES ASSUME k + 1 <= n PROVE run[k + 1] = Left(k + 1)
    OBVIOUS
  <2> DEFINE f == places[k + 1]
  <2>1. k + 1 \in 1..n /\ (k + 1) - 1 = k /\ k <= n /\ k + 1 \in (k + 1)..n
    BY <1>1
  <2>2. run[k] = Left(k) /\ run[k + 1] = Found(run[k], raws[k + 1]) /\ raws[k + 1] = f.raw
    BY <1>2, <2>1
  <2>3. f \in Left(k) /\ f.first \in Nat
    BY <1>1, <2>1 DEF Left
  <2>4. ASSUME NEW i \in (k + 1)..n
        PROVE  places[i].first \in Nat /\ (i = k + 1 \/ (i \in (k + 2)..n /\ f.first < places[i].first))
    <3>1. i \in 1..n /\ (i = k + 1 \/ k + 1 < i)
      BY <1>1
    <3>2. QED
      BY <1>1, <2>1, <3>1
  <2>5. \A g \in Left(k) : g.first \in Nat /\ (g # f => f.first < g.first)
    BY <2>4 DEF Left
  <2>6. Left(k + 1) = Left(k) \ {f}
    <3>1. (k + 1) + 1 = k + 2
      OBVIOUS
    <3>2. ASSUME NEW i \in (k + 2)..n PROVE i \in (k + 1)..n /\ places[i] # f
      <4>1. i \in (k + 1)..n /\ i # k + 1
        BY <1>1
      <4>2. f.first < places[i].first
        BY <2>4, <4>1
      <4>3. QED
        BY <2>3, <4>1, <4>2
    <3>3. \A i \in (k + 1)..n : places[i] # f => i \in (k + 2)..n
      BY <2>4
    <3> HIDE DEF f
    <3>4. QED
      BY <3>1, <3>2, <3>3 DEF Left
  <2> HIDE DEF f
  <2>7. Found(Left(k), f.raw) = Left(k) \ {f}
    BY <2>3, <2>5, FoundFirst
  <2>8. QED
    BY <2>2, <2>6, <2>7
<1> HIDE DEF K
<1>5. n \in K
  BY <1>1, <1>3, <1>4, NatInduct
<1>6. run[n] = {}
  <2>1. Left(n) = {}
    BY <1>1 DEF Left
  <2>2. QED
    BY <1>1, <1>5, <2>1 DEF K
<1>7. Finding!Fold(all, raws) = {}
  BY <1>2, <1>6
<1>8. QED
  BY <1>7, FindingFolds DEF all

LEMMA NothingToFind ==
    ASSUME NEW left, NEW S, NEW raws \in Seq(S), Len(raws) = 0
    PROVE  FoldLeft(Found, left, raws) = left
<1>1. PICK run : /\ run[0] = left /\ run[Len(raws)] = Finding!Fold(left, raws)
                 /\ \A k \in 1..Len(raws) : run[k] = Found(run[k - 1], raws[k])
  BY ONLY raws \in Seq(S), Finding!FoldRuns
<1>2. QED
  BY <1>1, FindingFolds

\* Which frames have passed, when what was consumed has no gap.
LEMMA PassedIs ==
    ASSUME NEW lo \in Nat \ {0}, NEW hi \in Nat, lo <= hi, received = lo..hi,
           parserBuffer \in Seq(Byte),
           NEW f, f.first \in Nat, f.last \in Nat, f.first <= f.last
    PROVE  Passed(f) <=> lo <= f.first /\ f.last <= hi /\ f.first <= hi - Len(parserBuffer) + 1
<1> DEFINE a == f.first
           b == f.last
           kept == Len(parserBuffer)
           before == {i \in received : i < a}
<1>1. a \in Nat /\ b \in Nat /\ a <= b /\ kept \in Nat
  OBVIOUS
<1> HIDE DEF a, b, kept
<1>2. a..b \subseteq received <=> lo <= a /\ b <= hi
  <2>1. ASSUME a..b \subseteq received PROVE lo <= a /\ b <= hi
    <3>1. a \in a..b /\ b \in a..b
      BY <1>1
    <3>2. a \in lo..hi /\ b \in lo..hi
      BY <2>1, <3>1
    <3>3. QED
      BY <1>1, <3>2
  <2>2. ASSUME lo <= a, b <= hi PROVE a..b \subseteq received
    BY <1>1, <2>2
  <2>3. QED
    BY <2>1, <2>2
<1>3. Cardinality(received) = hi - lo + 1
  BY FS_Interval
<1>4. ASSUME lo <= a, b <= hi PROVE Cardinality(before) = a - lo
  <2> DEFINE last == a - 1
  <2>1. before = lo..last
    BY <1>1, <1>4
  <2>2. last \in Int /\ (lo > last => a - lo = 0) /\ last - lo + 1 = a - lo
    BY <1>1, <1>4
  <2> HIDE DEF before, last
  <2>3. Cardinality(lo..last) = IF lo > last THEN 0 ELSE last - lo + 1
    BY <2>2, FS_Interval
  <2>4. Cardinality(lo..last) = a - lo
    BY <2>2, <2>3
  <2>5. QED
    BY <2>1, <2>4
<1> HIDE DEF before
<1>5. Passed(f) <=> a..b \subseteq received /\ Cardinality(before) <= Cardinality(received) - kept
  BY Zenon DEF Passed, a, b, kept, before
<1>6. CASE lo <= a /\ b <= hi
  BY <1>1, <1>2, <1>3, <1>4, <1>5, <1>6 DEF a, b, kept
<1>7. CASE ~(lo <= a /\ b <= hi)
  BY <1>2, <1>5, <1>7 DEF a, b, kept
<1>8. QED
  BY <1>6, <1>7

LEMMA FramesFound ==
    ASSUME StreamInv, Unmistakable(transcript), Gapless
    PROVE  FramesExact
<1> DEFINE sent == SentFrames[transcript]
           passed == {f \in sent : Passed(f)}
<1>1. /\ transcript \in DOMAIN Transcripts /\ received \subseteq 1..read /\ read \in Nat
      /\ read <= Len(Stream) /\ parserBuffer \in Seq(Byte) /\ handled \in Seq(VerifiedRaw)
  <2>1. transcript \in DOMAIN Transcripts /\ Len(Stream) \in Nat
    BY StreamIsBytes DEF StreamInv, TypeInv, Stream
  <2>2. QED
    BY <2>1 DEF StreamInv, TypeInv, HandledInv
<1>2. \A f \in sent : f.first \in Nat /\ f.last \in Nat /\ f.first <= f.last
  BY <1>1, SentIs
<1> HIDE DEF sent
<1>3. CASE received = {}
  <2>1. handled = <<>>
    BY <1>3 DEF StreamInv, ParseInv
  <2>2. passed = {}
    <3>1. ASSUME NEW f \in sent, Passed(f) PROVE FALSE
      <4>1. f.first \in f.first..f.last
        BY <1>2
      <4>2. f.first..f.last \subseteq received
        BY <3>1 DEF Passed
      <4>3. QED
        BY <1>3, <4>1, <4>2
    <3>2. QED
      BY <3>1
  <2> HIDE DEF passed
  <2> DEFINE raws == handled
  <2>3. raws \in Seq(VerifiedRaw) /\ Len(raws) = 0
    BY <1>1, <2>1
  <2> HIDE DEF raws
  <2>4. FoldLeft(Found, passed, raws) = passed
    BY <2>3, NothingToFind
  <2>5. FoldLeft(Found, passed, handled) = {}
    BY <2>2, <2>4 DEF raws
  <2>6. HandledSent
    BY <2>1 DEF HandledSent
  <2>7. QED
    BY <2>5, <2>6 DEF FramesExact, passed, sent
<1>4. CASE received # {}
  <2>1. PICK lo \in received, hi \in received : received = lo..hi
    BY <1>4 DEF Gapless
  <2>2. lo \in Nat \ {0} /\ hi \in Nat /\ lo <= hi /\ hi <= Len(Stream) /\ Len(Stream) \in Nat
    <3>1. Len(Stream) \in Nat
      BY <1>1, StreamIsBytes DEF Stream
    <3>2. lo \in 1..read /\ hi \in 1..read /\ hi \in lo..hi
      BY <1>1, <2>1
    <3>3. QED
      BY <1>1, <3>1, <3>2
  <2> DEFINE whole == ParseFrames[SubSeq(Stream, lo, hi)]
             frames == whole.frames
  <2>3. handled = Raws(frames) /\ parserBuffer = whole.remaining
    BY <2>1, <2>2 DEF StreamInv, ParseInv, AtOnce
  <2>4. Finds(sent, lo, hi, whole)
    BY <1>1, <2>2, FindsFrames DEF sent, Stream
  <2>5. frames \in Seq(Verified)
    <3>1. SubSeq(Stream, lo, hi) \in Seq(Byte)
      BY <1>1, <2>2, StreamIsBytes, SliceType DEF Stream
    <3>2. QED
      BY <3>1, ParsedIs
  <2>6. PICK places \in Seq(sent) :
           /\ Len(places) = Len(frames)
           /\ \A k \in 1..Len(places) : frames[k].raw = places[k].raw
           /\ \A j, k \in 1..Len(places) : j < k => places[j].first < places[k].first
           /\ \A f \in sent : (\E k \in 1..Len(places) : places[k] = f)
                 <=> /\ lo <= f.first /\ f.last <= hi
                     /\ f.first <= hi - Len(parserBuffer) + 1
    BY <2>3, <2>4 DEF Finds
  <2> HIDE DEF frames
  <2>7. /\ Len(handled) = Len(places)
        /\ \A k \in 1..Len(places) : handled[k] = places[k].raw /\ places[k] \in sent
    <3>1. Len(handled) = Len(frames) /\ \A k \in 1..Len(frames) : handled[k] = frames[k].raw
      BY <2>3, <2>5, RawsType
    <3>2. \A k \in 1..Len(places) : places[k] \in sent
      OBVIOUS
    <3>3. QED
      BY <2>6, <3>1, <3>2
  <2>8. passed = {places[k] : k \in 1..Len(places)}
    <3>1. \A f \in sent : Passed(f) <=> \E k \in 1..Len(places) : places[k] = f
      BY <1>1, <1>2, <2>1, <2>2, <2>6, PassedIs
    <3>2. QED
      BY <2>7, <3>1
  <2>9. FoldLeft(Found, passed, handled) = {}
    <3>1. \A f \in sent : f.first \in Nat
      BY <1>2
    <3>2. \A j, k \in 1..Len(places) : j < k => places[j].first < places[k].first
      BY <2>6
    <3>3. /\ handled \in Seq(VerifiedRaw) /\ Len(handled) = Len(places)
          /\ \A k \in 1..Len(places) : handled[k] = places[k].raw
      BY <1>1, <2>7
    <3>4. FoldLeft(Found, {places[k] : k \in 1..Len(places)}, handled) = {}
      BY ONLY places \in Seq(sent), <3>1, <3>2, <3>3, StrikesOut
    <3>5. QED
      BY <2>8, <3>4
  <2>10. HandledSent
    <3>1. DOMAIN handled = 1..Len(places)
      BY <1>1, <2>7
    <3>2. QED
      BY <2>7, <3>1 DEF HandledSent, sent
  <2>11. QED
    BY <2>9, <2>10 DEF FramesExact, sent
<1>5. QED
  BY <1>3, <1>4

\* As long as no packet of the inventory was dropped, in a stream in which nothing but
\* the frames looks like one, every frame that arrived whole is handled, in order, and
\* its tags are counted once: whatever noise lies between the frames, wherever the
\* inventory began and however reads cut the stream.
THEOREM FramesAreExact ==
    Spec => [](Unmistakable(transcript) /\ Gapless => FramesExact /\ TagsExact)
<1>1. StreamInv /\ (HandledSent => TagsExact)
        => (Unmistakable(transcript) /\ Gapless => FramesExact /\ TagsExact)
  BY FramesFound, Zenon DEF FramesExact
<1>2. QED
  BY <1>1, StreamInvariant, TagsAreExact, PTL
=============================================================================
