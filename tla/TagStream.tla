------------------------------- MODULE TagStream -------------------------------
(***************************************************************************)
(* From the bytes of a session to the tags of an inventory: the read loop  *)
(* puts what each Read returns into the packet channel, or drops it when   *)
(* the channel is full; the client that consumes the channel (the SDK's    *)
(* consumePacket, or Update of the TUI) joins packets, takes the frames    *)
(* out and counts tags and answers without a tag; its transmitter rotates  *)
(* the antennas and asks with the target that the counting has chosen.     *)
(*                                                                         *)
(* The reader is external: it sends one of a set of transcripts.  Left     *)
(* out: the addresses, the last tag shown, status texts, reported errors,  *)
(* what the TUI cuts off an EPC of more than 96 bytes; how a run begins    *)
(* and ends is InventorySession's and TuiSession's.                        *)
(***************************************************************************)
EXTENDS ReaderProtocol, FiniteSets

CONSTANTS
    Clients,      \* who consumes: "sdk", "tui"
    Transcripts,  \* a list of what a reader may send: segments, each a frame with the
                  \* EPCs it reports, or noise
    Configs,      \* inventory configurations that are tried
    ReadSizes,    \* how many bytes a Read returns; at most the size of its buffer
    ChannelCap,   \* capacity of s.packets
    MaxBuffer,    \* a parser buffer longer than this is cut ...
    KeepBuffer,   \* ... to its last bytes
    MaxRounds,    \* bound: inventory commands sent in an inventory
    MaxStarts,    \* bound: inventories
    MaxDrops      \* bound: packets that find the channel full

VARIABLES
    client, transcript,   \* chosen at the start
    read, drops,          \* bytes that Read has returned, packets dropped
    packets,              \* s.packets: each the first and last position of its bytes
    cfg,                  \* the configuration
    on,                   \* the SDK's run has not ended; m.inventoryRunning
    parserBuffer,         \* c.parserBuffer, m.protocolBuffer
    tags,                 \* the counters of tags and of answers without one
    rounds, antIdx,       \* the transmitter's
    starts,
    received, handled,    \* history, since the start: positions consumed, frames handled
    asked                 \* history: antennas asked since the start or a new mask

wireVars == <<client, transcript, read, drops, packets>>
roundVars == <<rounds, antIdx, asked>>
vars == <<wireVars, cfg, on, parserBuffer, tags, roundVars, starts, received, handled>>

Segment == [frame : BOOLEAN, bytes : Seq(Byte), epcs : SUBSET Seq(Byte)]

ASSUME StreamAssumption == \A t \in DOMAIN Transcripts : Transcripts[t] \in Seq(Segment)

\* A transcript laid out: its bytes, and its frames with their places among them.
Lay(acc, segment) ==
    LET first == Len(acc.bytes) + 1
        frame == [raw |-> segment.bytes, epcs |-> segment.epcs,
                  first |-> first, last |-> Len(acc.bytes) + Len(segment.bytes)]
    IN [bytes |-> acc.bytes \o segment.bytes,
        sent |-> IF segment.frame THEN acc.sent \cup {frame} ELSE acc.sent]

Laid == [t \in DOMAIN Transcripts |-> FoldLeft(Lay, [bytes |-> <<>>, sent |-> {}], Transcripts[t])]
StreamOf == [t \in DOMAIN Transcripts |-> Laid[t].bytes]
SentFrames == [t \in DOMAIN Transcripts |-> Laid[t].sent]

\* The buffer of readLoop has 4096 bytes, the parser's 8192.
ASSUME SizesAssumption ==
    /\ ChannelCap \in Nat /\ MaxRounds \in Nat /\ MaxBuffer \in Nat
    /\ \A n \in ReadSizes : n \in Nat \ {0} /\ n + 255 <= MaxBuffer

ASSUME ConfigsAssumption ==
    \A c \in Configs : /\ c.session \in Nat /\ c.noTagABSwitch \in Nat
                       /\ c.antennaMask \in Byte /\ c.target \in {0, 1}

\* The code's counters, and quiet, the rounds without a tag in a row.
NoTags(target) ==
    [seen |-> {}, uniqueTags |-> 0, noTagHit |-> 0, target |-> target,
     quiet |-> 0]

Init ==
    /\ client \in Clients /\ transcript \in DOMAIN Transcripts
    /\ read = 0 /\ drops = 0 /\ packets = <<>>
    /\ cfg \in Configs /\ on = FALSE
    /\ parserBuffer = <<>> /\ tags = NoTags(cfg.target)
    /\ rounds = 0 /\ antIdx = 0 /\ starts = 0
    /\ received = {} /\ handled = <<>> /\ asked = <<>>

-----------------------------------------------------------------------------
(***************************************************************************)
(* readLoop.                                                               *)
(***************************************************************************)
Read(n) ==
    /\ read + n <= Len(StreamOf[transcript]) /\ read' = read + n
    /\ IF Len(packets) < ChannelCap
       THEN packets' = Append(packets, <<read + 1, read + n>>) /\ UNCHANGED drops
       ELSE drops < MaxDrops /\ drops' = drops + 1 /\ UNCHANGED packets
    /\ UNCHANGED <<client, transcript, cfg, on, parserBuffer, tags, roundVars, starts,
                   received, handled>>

-----------------------------------------------------------------------------
(***************************************************************************)
(* Tags and answers without a tag.                                         *)
(***************************************************************************)
\* Fault: a tag that is recorded without a look at those that were seen.
RecordTagAgain(t, epc) ==
    IF epc = <<>> THEN t
    ELSE [t EXCEPT !.noTagHit = 0, !.quiet = 0, !.seen = @ \cup {epc},
                   !.uniqueTags = @ + 1]

RecordTag(t, epc) ==
    IF epc = <<>> THEN t
    ELSE [t EXCEPT !.noTagHit = 0, !.quiet = 0, !.seen = @ \cup {epc},
                   !.uniqueTags = IF epc \in t.seen THEN @ ELSE @ + 1]

\* Fault: a switch at the limit alone, which a count that is past it never meets.
NoTagHitEqual(t) ==
    IF cfg.session > 1 /\ cfg.noTagABSwitch > 0 /\ t.noTagHit + 1 = cfg.noTagABSwitch
    THEN [t EXCEPT !.noTagHit = 0, !.target = 1 - @]
    ELSE [t EXCEPT !.noTagHit = @ + 1]

NoTagHit(t) ==
    IF cfg.session > 1 /\ cfg.noTagABSwitch > 0 /\ t.noTagHit + 1 >= cfg.noTagABSwitch
    THEN [t EXCEPT !.noTagHit = 0, !.target = 1 - @]
    ELSE [t EXCEPT !.noTagHit = @ + 1]

\* The TUI counts while it reads; the SDK consumes only then.
ObserveNoTag(t, status) ==
    IF status \in NoTagStatuses /\ on THEN NoTagHit(t) ELSE t

HandleInventoryFrame(t, f) ==
    LET found == ParseInventoryG2Tags(f)
    IN IF ~found.ok THEN t
       ELSE IF found.epcs # <<>>
            THEN FoldLeft(RecordTag, t, found.epcs)
       ELSE IF f.status = StatusSuccess THEN t
       ELSE ObserveNoTag(t, f.status)

\* The SDK asks for a payload it can parse, the TUI for a status.
HandleInventorySingleFrame(t, f) ==
    LET result == ParseSingleInventoryResult(f)
        tagged == result.ok /\ result.count > 0 /\ result.epc # <<>>
    IN IF client = "sdk"
       THEN IF tagged THEN RecordTag(t, result.epc)
            ELSE IF result.ok THEN ObserveNoTag(t, f.status) ELSE t
       ELSE IF f.status = StatusNoTagOrTimeout THEN ObserveNoTag(t, f.status)
            ELSE IF f.status # StatusNoTag \/ ~result.ok THEN t
            ELSE IF tagged THEN RecordTag(t, result.epc)
            ELSE IF result.count = 0 THEN ObserveNoTag(t, f.status)
            ELSE [t EXCEPT !.noTagHit = 0, !.quiet = 0, !.seen = @ \cup {<<>>},
                           !.uniqueTags = IF <<>> \in t.seen THEN @ ELSE @ + 1]

\* History: rounds that answered that there is no tag, since the last tag or switch.
Quiet(before, after, f) ==
    IF after.target # before.target THEN [after EXCEPT !.quiet = 0]
    ELSE IF f.command = CmdInventory /\ f.status \in NoTagStatuses /\ f.data = <<>> /\ on
         THEN [after EXCEPT !.quiet = @ + 1] ELSE after

HandleFrame(t, f) ==
    CASE f.command = CmdInventory -> Quiet(t, HandleInventoryFrame(t, f), f)
      [] f.command = CmdInventorySingle -> Quiet(t, HandleInventorySingleFrame(t, f), f)
      [] OTHER -> t

-----------------------------------------------------------------------------
(***************************************************************************)
(* consumePacket and consumeFrame, or Update with a packetMsg.             *)
(***************************************************************************)
Cut(buf) == IF Len(buf) > MaxBuffer THEN SubSeq(buf, Len(buf) - KeepBuffer + 1, Len(buf)) ELSE buf

\* Fault: a packet that is parsed without the bytes that were kept before it.
BufferedAlone(data) == Cut(data)

Buffered(data) == Cut(parserBuffer \o data)

ConsumePacket ==
    /\ packets # <<>> /\ (client = "tui" \/ on)
    /\ packets' = Tail(packets)
    /\ LET first == Head(packets)[1]
           last == Head(packets)[2]
           data == SubSeq(StreamOf[transcript], first, last)
           parsed == ParseFrames[Buffered(data)]
       IN /\ parserBuffer' = parsed.remaining
          /\ received' = received \cup (first..last)
          /\ handled' = handled \o [k \in DOMAIN parsed.frames |-> parsed.frames[k].raw]
          /\ tags' = FoldLeft(HandleFrame, tags, parsed.frames)
    /\ UNCHANGED <<client, transcript, read, drops, cfg, on, roundVars, starts>>

-----------------------------------------------------------------------------
(***************************************************************************)
(* The inventory.                                                          *)
(***************************************************************************)
\* The packets that wait in the channel stay there; the TUI keeps its target.
StartInventory ==
    /\ ~on /\ starts < MaxStarts
    /\ on' = TRUE /\ starts' = starts + 1
    /\ parserBuffer' = <<>>
    /\ tags' = NoTags(IF client = "sdk" THEN cfg.target ELSE tags.target)
    /\ rounds' = 0 /\ antIdx' = 0 /\ asked' = <<>>
    /\ received' = {} /\ handled' = <<>>
    /\ UNCHANGED <<wireVars, cfg>>

StopInventory ==
    /\ on /\ on' = FALSE
    /\ UNCHANGED <<wireVars, cfg, parserBuffer, tags, roundVars, starts, received, handled>>

\* nextInventoryCommand, or Update with an inventoryTickMsg.
NextInventoryCommand ==
    /\ on /\ rounds < MaxRounds
    /\ rounds' = rounds + 1
    /\ LET next == NextInventoryAntenna(cfg.antennaMask, antIdx)
       IN antIdx' = next.next /\ asked' = Append(asked, next.antenna)
    /\ UNCHANGED <<wireVars, cfg, on, parserBuffer, tags, starts, received, handled>>

\* SetInventoryConfig, or the keys of the TUI's tuning screen, where the target is
\* part of the configuration.
Configure(new) ==
    /\ cfg # new /\ cfg' = new
    /\ tags' = [tags EXCEPT !.quiet = 0,
                            !.target = IF client = "tui" THEN new.target ELSE @]
    /\ asked' = IF new.antennaMask = cfg.antennaMask THEN asked ELSE <<>>
    /\ UNCHANGED <<wireVars, on, parserBuffer, rounds, antIdx, starts, received, handled>>

\* The TUI's key that sets the antenna mask of a connected reader.
ScanMask ==
    /\ client = "tui" /\ antIdx' = 0 /\ asked' = <<>>
    /\ UNCHANGED <<wireVars, cfg, on, parserBuffer, tags, rounds, starts, received, handled>>

Next ==
    \/ \E n \in ReadSizes : Read(n)
    \/ ConsumePacket
    \/ StartInventory \/ StopInventory \/ NextInventoryCommand \/ ScanMask
    \/ \E new \in Configs : Configure(new)

Spec == Init /\ [][Next]_vars

-----------------------------------------------------------------------------
TypeOK ==
    /\ client \in Clients /\ transcript \in DOMAIN Transcripts /\ cfg \in Configs
    /\ read \in 0..Len(StreamOf[transcript]) /\ Len(packets) <= ChannelCap
    /\ on \in BOOLEAN /\ antIdx \in 0..7 /\ rounds \in 0..MaxRounds
    /\ parserBuffer \in Seq(Byte) /\ received \subseteq 1..read

\* The EPCs that a frame reports to a client.
ReportsTo(who, f) ==
    LET result == ParseSingleInventoryResult(f)
    IN CASE f.command = CmdInventory -> ToSet(ParseInventoryG2Tags(f).epcs) \ {<<>>}
         [] f.command = CmdInventorySingle /\ result.ok /\ result.count > 0
              /\ (who = "sdk" \/ f.status = StatusNoTag) ->
              IF who = "sdk" THEN {result.epc} \ {<<>>} ELSE {result.epc}
         [] OTHER -> {}

\* The transcripts say of each frame what it reports.
ASSUME LabelsAssumption ==
    \A t \in DOMAIN Transcripts : \A f \in SentFrames[t], who \in Clients :
      f.epcs = ReportsTo(who, FrameOf(f.raw))

\* The sent frame f arrived whole, and not behind other bytes that are kept for later.
Passed(f) ==
    /\ f.first..f.last \subseteq received
    /\ Cardinality({i \in received : i < f.first}) <= Cardinality(received) - Len(parserBuffer)

\* Nothing is handled that was not sent.
HandledSent == \A k \in DOMAIN handled : \E f \in SentFrames[transcript] : f.raw = handled[k]

\* A handled packet strikes out the first frame that is still to be found, if it is it.
Found(left, raw) ==
    LET next == CHOOSE f \in left : \A g \in left : f.first <= g.first
    IN IF left # {} /\ next.raw = raw THEN left \ {next} ELSE left

\* However the stream is cut into packets, whatever packets are dropped and wherever
\* noise lies: each frame that arrived whole since the start is handled, in order,
\* unless the parser still keeps bytes before it, and nothing is handled that was not
\* sent.
FramesExact ==
    /\ FoldLeft(Found, {f \in SentFrames[transcript] : Passed(f)}, handled) = {}
    /\ HandledSent

\* The bytes of the stream make a packet where a frame was sent and nowhere else.
Unmistakable(t) ==
    /\ \A f \in SentFrames[t] : VerifyPacket(f.raw)
    /\ \A first, last \in 1..Len(StreamOf[t]) :
         VerifyPacket(SubSeq(StreamOf[t], first, last))
           => \E f \in SentFrames[t] : f.first = first /\ f.last = last

\* No packet was dropped among those of the inventory.
Gapless == received = {} \/ \E lo, hi \in received : received = lo..hi

\* As long as no packet was dropped among those of an inventory, the frames handled
\* and the bytes kept are those of the same bytes parsed at once.
ParsedAtOnce ==
    /\ received = {} => handled = <<>> /\ parserBuffer = <<>>
    /\ \A lo \in received :
         LET hi == lo + Cardinality(received) - 1
             whole == ParseFrames[SubSeq(StreamOf[transcript], lo, hi)]
         IN received = lo..hi =>
              /\ handled = [k \in DOMAIN whole.frames |-> whole.frames[k].raw]
              /\ parserBuffer = whole.remaining

\* The tags of an inventory are those that the frames handled since its start
\* report, each counted once.
TagsExact ==
    /\ tags.seen = UNION {f.epcs : f \in {g \in SentFrames[transcript] : g.raw \in ToSet(handled)}}
    /\ tags.uniqueTags = Cardinality(tags.seen)

\* An inventory in session 2 or 3 does not stay with a target that finds nothing.
TargetTurns ==
    cfg.session > 1 /\ cfg.noTagABSwitch > 0 => tags.quiet < cfg.noTagABSwitch

\* Any n rounds in a row ask each of the n antennas of the mask.
RotationFair ==
    LET ports == {128 + i : i \in PortsOf(cfg.antennaMask)}
        n == Cardinality(ports)
    IN \A k \in 0..(Len(asked) - n) : {asked[k + i] : i \in 1..n} = ports
=============================================================================
