---------------------------- MODULE D64Geometry ----------------------------
(***************************************************************************)
(* Where a sector lies in the image file.  D64Reader looks the start of a  *)
(* track up in a table, the editor writes through the same table, and the  *)
(* image generator of the tests adds up the sectors of the tracks before.  *)
(*                                                                         *)
(* Positions in the file are counted in sectors of 256 bytes.  The image   *)
(* is one of those Open accepts: 683 sectors, with or without the error    *)
(* bytes after them.                                                       *)
(***************************************************************************)
EXTENDS Integers

CONSTANTS
    Places,     \* the <<track, sector>> pairs in use
    Payload,    \* what a sector may hold
    Zeroes      \* a sector that was never written

Bytes == 0..255
Tracks == 1..35
ImageSectors == 683

\* kTrackStart, from track 1.
TrackStart ==
    <<0, 21, 42, 63, 84, 105, 126, 147, 168, 189, 210, 231, 252, 273, 294, 315,
      336, 357, 376, 395, 414, 433, 452, 471, 489, 507, 525, 543, 561, 579,
      596, 613, 630, 647, 664>>

\* Track 0 falls into the second case; every caller excludes it before.
SectorsPerTrack(t) ==
    IF t \in 1..17 THEN 21
    ELSE IF t =< 24 THEN 19
    ELSE IF t =< 30 THEN 18
    ELSE IF t =< 35 THEN 17
    ELSE 0

IsValid(t, s) == t \in Tracks /\ s < SectorsPerTrack(t)
Address == {p \in Bytes \X Bytes : IsValid(p[1], p[2])}

\* Mutant: the table has the last sector of track 17 twice.
LowOffset(t, s) ==
    IF t \in Tracks THEN TrackStart[t] + s - (IF t >= 18 THEN 1 ELSE 0) ELSE 0

TrackSectorToOffset(t, s) == IF t \in Tracks THEN TrackStart[t] + s ELSE 0

\* The layout of the test images: the sectors of all tracks before.
CorpusOffset(t, s) ==
    LET before[u \in Tracks] ==
            IF u = 1 THEN 0 ELSE before[u - 1] + SectorsPerTrack(u - 1)
    IN  before[t] + s

GeometryAssumption == Places \subseteq Address /\ Zeroes \notin Payload

-----------------------------------------------------------------------------
VARIABLES
    image,    \* the sectors of the image file
    last,     \* history: what was last written to each place
    answer    \* the last ReadSector: its arguments and what it returned

vars == <<image, last, answer>>

Stored == Payload \cup {Zeroes}
NoAnswer == [at |-> <<0, 0>>, ok |-> FALSE, data |-> Zeroes]

Init ==
    /\ image = [o \in 0..(ImageSectors - 1) |-> Zeroes]
    /\ last = [p \in Places |-> Zeroes]
    /\ answer = NoAnswer

\* D64ImageEditor::WriteSector: callers have checked the address.
WriteSector(p, data) ==
    /\ image' = [image EXCEPT ![TrackSectorToOffset(p[1], p[2])] = data]
    /\ last' = [last EXCEPT ![p] = data]
    /\ answer' = NoAnswer

\* D64Reader::ReadSector, without a sector cache.
ReadSector(t, s) ==
    /\ \/ /\ IsValid(t, s)
          /\ TrackSectorToOffset(t, s) + 1 =< ImageSectors
          /\ answer' = [at |-> <<t, s>>, ok |-> TRUE,
                        data |-> image[TrackSectorToOffset(t, s)]]
       \/ /\ ~ IsValid(t, s) \/ TrackSectorToOffset(t, s) + 1 > ImageSectors
          /\ answer' = [at |-> <<t, s>>, ok |-> FALSE, data |-> Zeroes]
    /\ UNCHANGED <<image, last>>

\* The addresses asked for: those in use, and some that are no sectors.
Asked == Places \cup {<<0, 0>>, <<36, 0>>, <<17, 21>>, <<24, 19>>, <<35, 17>>}

Read == \E p \in Asked : ReadSector(p[1], p[2])

Next == Read \/ \E p \in Places, data \in Payload : WriteSector(p, data)

Spec == Init /\ [][Next]_vars

\* An image the tests have written, which the program only reads.
CorpusInit ==
    /\ last \in [Places -> Payload]
    /\ image = [o \in 0..(ImageSectors - 1) |->
                  IF \E p \in Places : CorpusOffset(p[1], p[2]) = o
                  THEN last[CHOOSE p \in Places : CorpusOffset(p[1], p[2]) = o]
                  ELSE Zeroes]
    /\ answer = NoAnswer

CorpusSpec == CorpusInit /\ [][Read]_vars

-----------------------------------------------------------------------------
TypeOK ==
    /\ image \in [0..(ImageSectors - 1) -> Stored]
    /\ last \in [Places -> Stored]
    /\ answer \in [at : Bytes \X Bytes, ok : BOOLEAN, data : Stored]

\* Two pairs of sectors have one place in the image file: the last sector of
\* track 24 and the first of track 25, of track 30 and of track 31.
Twins(p, q) ==
    \/ p = <<24, 18>> /\ q = <<25, 0>>
    \/ p = <<30, 17>> /\ q = <<31, 0>>
Share(p, q) == p = q \/ Twins(p, q) \/ Twins(q, p)

\* A sector holds what was last written to it, unless it is one of a pair
\* and the other one was written since: WriteSector through the table damages
\* no other sector of the disk.
OverwrittenOnlyByTwin ==
    \A p \in Places :
        \E q \in Places :
            Share(p, q) /\ image[TrackSectorToOffset(p[1], p[2])] = last[q]

\* ReadSector succeeds for the sectors of the disk and no other address, so
\* no track lies outside of the image file, and returns what was last
\* written there or to the other sector of the pair.
ReadsReturnLastWrite ==
    /\ answer.ok <=> answer.at \in Address
    /\ answer.ok =>
          \E q \in Places : Share(answer.at, q) /\ answer.data = last[q]

\* Every sector the program reads from a test image is the one the tests'
\* generator wrote there (d64_test_utils.cpp:95-101).
CorpusIsRead ==
    answer.ok => answer.data = last[answer.at]
=============================================================================
