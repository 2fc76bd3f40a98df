------------------------------ MODULE MCReaders ------------------------------
(***************************************************************************)
(* The readers below the catalog: the directory's chain of sectors, and    *)
(* where a sector lies.  The two share nothing, so an initial state picks  *)
(* one and the variables of the other rest.                                *)
(*                                                                         *)
(* Directories: every way to link three sectors, of which the reader       *)
(* follows two.  Sectors in use: the borders of the four zones, the        *)
(* directory track and the pairs that share a place.                       *)
(***************************************************************************)
EXTENDS DirectoryChain

CONSTANTS Places, Payload, Zeroes

VARIABLES machine, image, last, answer

Disk == INSTANCE D64Geometry

ASSUME PlacesAssumption == Disk!GeometryAssumption

MCPlaces ==
    {<<1, 0>>, <<17, 20>>, <<18, 0>>, <<24, 18>>, <<25, 0>>, <<31, 0>>, <<35, 16>>}

geometryvars == <<image, last, answer>>

GeometryRests == image = <<>> /\ last = <<>> /\ answer = Disk!NoAnswer

\* An empty directory, loaded.
DirectoryRests ==
    /\ dir = [s \in Sectors |-> Unlinked] /\ before = dir /\ call = [kind |-> "load"]
    /\ walk = "done" /\ at = End /\ seen = <<First>> /\ listed = <<>> /\ outcome = "ok"

MCInit ==
    \/ machine = "geometry" /\ Disk!Init /\ DirectoryRests
    \/ machine = "directory" /\ Init /\ GeometryRests

DirectoryStep ==
    /\ machine = "directory"
    /\ Next
    /\ UNCHANGED <<machine, geometryvars>>

GeometryStep ==
    /\ machine = "geometry"
    /\ Disk!Next
    /\ UNCHANGED <<machine, vars>>

mcvars == <<machine, vars, geometryvars>>

\* A call of the editor or of Load runs until it returns.
MCSpec == MCInit /\ [][DirectoryStep \/ GeometryStep]_mcvars /\ WF_mcvars(DirectoryStep)

-----------------------------------------------------------------------------
\* ReadSector returns what was last written to the sector, or to the other
\* one of a pair that shares a place in the image file.
ReadsReturnLastWrite == Disk!ReadsReturnLastWrite
=============================================================================
