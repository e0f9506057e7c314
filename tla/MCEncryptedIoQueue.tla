------------------------- MODULE MCEncryptedIoQueue -------------------------
(* Small instances of the encrypted I/O queue for TLC. *)
EXTENDS EncryptedIoQueue

Request(op, off, len) == [op |-> op, off |-> off, len |-> len, mis |-> "no"]

(* The system drive: unit 0 is the boot volume header, the area is 1 .. 3. *)
HeaderUnits == {0}
HoldRequests == {Request("read", 1, 1), Request("read", 2, 1), Request("write", 1, 2)}
LiveRequests == {Request("read", 1, 1)}
OddRequests ==
    {Request("read", 1, 2), Request("write", 0, 1), Request("write", 2, 1), Request("other", 0, 0),
     [op |-> "read", off |-> 1, len |-> 1, mis |-> "offset"],
     [op |-> "write", off |-> 1, len |-> 1, mis |-> "length"]}

(* A volume that offers 3 units from unit 1 of its host; the last one is the
   hidden volume. *)
HiddenUnits == {3}
VolumeRequests ==
    {Request("read", 0, 2), Request("read", 2, 1), Request("write", 0, 2), Request("write", 1, 1),
     Request("write", 1, 2)}

(* A hidden system: unit 0 is the boot loader, 1 the boot volume header, 7 lies past
   the end of the drive; units 2 and 3 of the decoy partition are remapped to 5 and 6. *)
LoaderHeader == {1}
LoaderUnits == {0, 7}
RemapRequests == {Request("write", 3, 2), Request("read", 2, 3)}
=============================================================================
