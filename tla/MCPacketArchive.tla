--------------------------- MODULE MCPacketArchive ---------------------------
EXTENDS PacketArchive

P(length, magic, version, valid, type) ==
    [length |-> length, magic |-> magic, version |-> version, valid |-> valid, frame_type |-> type]

\* One payload of every way through decode_any.
MCPayload ==
    {P(2, TRUE, 2, FALSE, "config"), P(3, FALSE, 2, FALSE, "config"), P(60, TRUE, 9, FALSE, "config"),
     P(48, TRUE, 1, FALSE, "config"), P(47, TRUE, 1, FALSE, "config"), P(90, TRUE, 2, FALSE, "config"),
     P(231, TRUE, 2, TRUE, "config"), P(102, TRUE, 2, TRUE, "health"), P(231, TRUE, 2, TRUE, "fragment")}

=============================================================================
