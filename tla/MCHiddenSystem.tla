-------------------------- MODULE MCHiddenSystem --------------------------
(***************************************************************************)
(* How the units of a volume and its headers are stored, side by side: the *)
(* queue of a hidden system, which redirects accesses to the hidden        *)
(* volume, the boot loader's accesses to the same disk, the data units as  *)
(* each program writes them, the headers, the search for a header key and  *)
(* the random pool keys come from.  "active" is the component that runs,   *)
(* so that the numbers of their states add up.                             *)
(***************************************************************************)
EXTENDS EncryptedIoQueue, BootDisk, DataUnits, VolumeHeaders, HeaderKeys, RandomPool

VARIABLE active

(* A hidden system: unit 0 is the boot loader, 1 the boot volume header, 7 lies past
   the end of the drive; units 2 and 3 of the decoy partition are remapped to 5 and 6. *)
LoaderHeader == {1}
LoaderUnits == {0, 7}
Access(op, off, len) == [op |-> op, off |-> off, len |-> len, mis |-> "no"]
HiddenSystemRequests ==
    {Access("write", 1, 2), Access("write", 7, 1), Access("write", 3, 2), Access("read", 1, 2),
     Access("read", 3, 2)}

\* The components that do not run are in one of their initial states.
StoredInit ==
    /\ active \in {"queue", "loader", "data", "headers", "search", "random"}
    /\ Init /\ HInit /\ KeyInit /\ RndInit /\ (active # "random" => program = "windows")
    /\ DuInit /\ (active # "data" => duVol = NoDuVolume /\ duWhite = {})
    /\ BdInit /\ (active # "loader" => bdJob = "chs" /\ bdIn = CHOOSE i \in ChsInputs : TRUE)

StoredNext ==
    /\ UNCHANGED active
    /\ \/ active = "queue" /\ Next /\ UNCHANGED <<bdVars, duVars, hVars, keyVars, rndVars>>
       \/ active = "loader" /\ BdNext /\ UNCHANGED <<vars, duVars, hVars, keyVars, rndVars>>
       \/ active = "data" /\ DuNext /\ UNCHANGED <<vars, bdVars, hVars, keyVars, rndVars>>
       \/ active = "headers" /\ HNext /\ UNCHANGED <<vars, bdVars, duVars, keyVars, rndVars>>
       \/ active = "search" /\ KeyNext /\ UNCHANGED <<vars, bdVars, duVars, hVars, rndVars>>
       \/ active = "random" /\ RndNext /\ UNCHANGED <<vars, bdVars, duVars, hVars, keyVars>>

StoredSpec == StoredInit /\ [][StoredNext]_<<active, vars, bdVars, duVars, hVars, keyVars, rndVars>>

(* What the boot loader, the data units, the headers and the random pool promise of what
   is stored; a component that does not run stays as it was initially. *)
StoredSound ==
    /\ active = "loader" => BootIoSound
    /\ active = "data" => EncryptionAgrees
    /\ active = "headers" => HeadersSound
    /\ active = "random" => PoolSound

(* Rewriting the headers of one volume never touches those of the other, and the
   events of the random pool cover it before one is overwritten. *)
StoredSteps == KindsApart /\ EventsCoverPool
=============================================================================
