------------------------------ MODULE MCTagStream ------------------------------
(***************************************************************************)
(* Transcripts and configurations for TagStream: short EPCs, several       *)
(* frames, noise with false length bytes and a payload that is cut short.  *)
(***************************************************************************)
EXTENDS TagStream

Response(command, status, data, epcs) ==
    [frame |-> TRUE, bytes |-> BuildCommand(0, command, <<status>> \o data), epcs |-> epcs]
Noise(bytes) == [frame |-> FALSE, bytes |-> bytes, epcs |-> {}]

TagA == <<10>>
TagB == <<11, 5>>

TwoTags == Response(CmdInventory, StatusNoTag, <<1, 2, 1, 10, 60, 2, 11, 5, 61>>, {TagA, TagB})
CutShort == Response(CmdInventory, StatusNoTag, <<1, 2, 1, 12, 60>>, {})
SingleTag == Response(CmdInventorySingle, StatusNoTag, <<1, 1, 2, 11, 5>>, {TagB})
SingleNone == Response(CmdInventorySingle, StatusNoTagOrTimeout, <<>>, {})
NoTag == Response(CmdInventory, StatusNoTagOrTimeout, <<>>, {})
CountOnly == Response(CmdInventory, StatusSuccess, <<1>>, {})

MCTranscripts ==
    <<<<TwoTags, Noise(<<0, 7>>), CutShort, SingleTag>>,
     <<NoTag, Noise(<<9>>), SingleNone, NoTag, NoTag, Noise(<<7, 7>>)>>>>

\* The noise of these transcripts holds no packet.
ASSUME UnmistakableAssumption == \A t \in DOMAIN Transcripts : Unmistakable(t)

MCConfigs ==
    {[session |-> 2, noTagABSwitch |-> 2, antennaMask |-> 137, target |-> 0],
     [session |-> 1, noTagABSwitch |-> 3, antennaMask |-> 0, target |-> 1]}

MCReadSizes == {5, 12}
=============================================================================
