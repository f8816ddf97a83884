--------------------------- MODULE MCConfigStore ----------------------------
(* Three line slots, the pins of the board and the legacy pin of line 3.    *)
EXTENDS ConfigStore

MCDefaultPins == [l \in Slots |-> CASE l = 0 -> 2 [] l = 1 -> 3 [] l = 2 -> 10]
OldPins == [MCDefaultPins EXCEPT ![2] = 4]
Swapped == [MCDefaultPins EXCEPT ![0] = 3, ![1] = 2]
OnTen == [OldPins EXCEPT ![0] = 10]

\* A configuration of an earlier firmware, active low or high.
Old(schema, count, pin, high) ==
    [schema |-> schema, mode |-> "zigbee", router |-> schema >= 5,
     device |-> AutoDevice, settings |-> "own", count |-> count, pin |-> pin,
     activeHigh |-> [l \in Slots |-> high]]

Blob(c) == [layout |-> c.schema, sound |-> TRUE, config |-> c]

\* Blobs of schema 5 and 6, with and without the legacy pin; the pins of the
\* last one collide after the migration.
MCOldBlobs ==
    {Blob(Old(5, 3, OldPins, FALSE)), Blob(Old(5, 2, MCDefaultPins, FALSE)),
     Blob(Old(6, 3, OldPins, TRUE)), Blob(Old(6, 2, MCDefaultPins, FALSE)),
     Blob(Old(5, 3, OnTen, TRUE))}

\* Blobs of schema 3 and 4 with the pins of today.
MCOlderBlobs ==
    {Blob(Old(3, 3, MCDefaultPins, TRUE)), Blob(Old(4, 3, MCDefaultPins, TRUE))}

\* Bytes that read as each of the schemas.
MCGarbage == {Old(schema, 2, Swapped, TRUE) : schema \in 3 .. 6}

MCPinForms == {Swapped, OldPins}
=============================================================================
