---------------------------- MODULE ReadersProofs ----------------------------
(***************************************************************************)
(* The readers below the catalog.  First, which sectors of a disk share a  *)
(* place in the image file, for every address, and what a disk therefore   *)
(* keeps, for every set of addresses in use and every payload.  Then what  *)
(* the walks along the directory find, for every directory of any size,    *)
(* whatever its links, names and types.                                    *)
(***************************************************************************)
EXTENDS MCReaders, FiniteSetTheorems, FunctionTheorems, TLAPS

-----------------------------------------------------------------------------
(* The geometry of the disk.                                               *)

\* The addresses in use are addresses.
LEMMA GeometryAssumption == Places \subseteq Disk!Address /\ Zeroes \notin Payload
  BY PlacesAssumption DEF Disk!GeometryAssumption

\* kTrackStart is linear within each of the four zones.
LEMMA TrackStartIsLinear ==
    \A t \in Disk!Tracks :
        Disk!TrackStart[t] = IF t =< 17 THEN 21 * (t - 1)
                        ELSE IF t =< 24 THEN 357 + 19 * (t - 18)
                        ELSE IF t =< 30 THEN 489 + 18 * (t - 25)
                        ELSE 596 + 17 * (t - 31)
  <1> SUFFICES ASSUME NEW t \in Disk!Tracks
               PROVE  Disk!TrackStart[t] = IF t =< 17 THEN 21 * (t - 1)
                        ELSE IF t =< 24 THEN 357 + 19 * (t - 18)
                        ELSE IF t =< 30 THEN 489 + 18 * (t - 25)
                        ELSE 596 + 17 * (t - 31)
    OBVIOUS
  <1>1. CASE t \in 1..9
    BY <1>1, SMTT(60) DEF Disk!TrackStart
  <1>2. CASE t \in 10..17
    BY <1>2, SMTT(60) DEF Disk!TrackStart
  <1>3. CASE t \in 18..24
    BY <1>3, SMTT(60) DEF Disk!TrackStart
  <1>4. CASE t \in 25..30
    BY <1>4, SMTT(60) DEF Disk!TrackStart
  <1>5. CASE t \in 31..35
    BY <1>5, SMTT(60) DEF Disk!TrackStart
  <1>6. QED
    BY <1>1, <1>2, <1>3, <1>4, <1>5 DEF Disk!Tracks

\* What IsValid says of an address, zone by zone.
LEMMA AddressIsBounded ==
    ASSUME NEW p \in Disk!Address
    PROVE  /\ p[1] \in Disk!Tracks /\ p[2] \in Nat /\ p = <<p[1], p[2]>>
           /\ p[2] < IF p[1] =< 17 THEN 21
                     ELSE IF p[1] =< 24 THEN 19
                     ELSE IF p[1] =< 30 THEN 18 ELSE 17
  <1>1. p \in Disk!Bytes \X Disk!Bytes /\ Disk!IsValid(p[1], p[2])
    BY DEF Disk!Address
  <1>2. p = <<p[1], p[2]>> /\ p[1] \in Disk!Tracks /\ p[2] \in Nat
        /\ p[2] < Disk!SectorsPerTrack(p[1])
    BY <1>1 DEF Disk!IsValid, Disk!Bytes
  <1>3. Disk!SectorsPerTrack(p[1]) =
            IF p[1] =< 17 THEN 21
            ELSE IF p[1] =< 24 THEN 19
            ELSE IF p[1] =< 30 THEN 18 ELSE 17
    BY <1>2 DEF Disk!SectorsPerTrack, Disk!Tracks
  <1>4. QED
    BY <1>2, <1>3

\* The place of an address, and that it lies inside of the image file.
LEMMA OffsetInImage ==
    ASSUME NEW p \in Disk!Address
    PROVE  /\ Disk!TrackSectorToOffset(p[1], p[2]) \in 0..(Disk!ImageSectors - 1)
           /\ Disk!TrackSectorToOffset(p[1], p[2]) = Disk!TrackStart[p[1]] + p[2]
  BY AddressIsBounded, TrackStartIsLinear
     DEF Disk!TrackSectorToOffset, Disk!ImageSectors, Disk!Tracks

\* Two addresses with one place are one address or one of two pairs: the
\* table starts tracks 25 and 31 one sector early (d64_reader.cpp:36,42).
THEOREM OnlyTwinsShareAPlace ==
    ASSUME NEW p \in Disk!Address, NEW q \in Disk!Address,
           Disk!TrackSectorToOffset(p[1], p[2]) = Disk!TrackSectorToOffset(q[1], q[2])
    PROVE  Disk!Share(p, q)
  <1>1. Disk!TrackStart[p[1]] + p[2] = Disk!TrackStart[q[1]] + q[2]
    BY OffsetInImage
  <1>2. /\ p[1] \in 1..35 /\ p[2] \in Nat /\ q[1] \in 1..35 /\ q[2] \in Nat
        /\ p = <<p[1], p[2]>> /\ q = <<q[1], q[2]>>
    BY AddressIsBounded DEF Disk!Tracks
  <1>3. \/ p[1] = q[1] /\ p[2] = q[2]
        \/ p[1] = 24 /\ p[2] = 18 /\ q[1] = 25 /\ q[2] = 0
        \/ q[1] = 24 /\ q[2] = 18 /\ p[1] = 25 /\ p[2] = 0
        \/ p[1] = 30 /\ p[2] = 17 /\ q[1] = 31 /\ q[2] = 0
        \/ q[1] = 30 /\ q[2] = 17 /\ p[1] = 31 /\ p[2] = 0
    BY <1>1, <1>2, AddressIsBounded, TrackStartIsLinear, SMTT(60) DEF Disk!Tracks
  <1>4. QED
    BY <1>2, <1>3 DEF Disk!Share, Disk!Twins

\* Conversely, two addresses related so have one place.
LEMMA SharedPlace ==
    ASSUME NEW p \in Disk!Address, NEW q \in Disk!Address, Disk!Share(p, q)
    PROVE  Disk!TrackSectorToOffset(p[1], p[2]) = Disk!TrackSectorToOffset(q[1], q[2])
  <1>1. CASE p = q
    BY <1>1
  <1>2. CASE Disk!Twins(p, q)
    BY <1>2 DEF Disk!Twins, Disk!TrackSectorToOffset, Disk!TrackStart, Disk!Tracks
  <1>3. CASE Disk!Twins(q, p)
    BY <1>3 DEF Disk!Twins, Disk!TrackSectorToOffset, Disk!TrackStart, Disk!Tracks
  <1>4. QED
    BY <1>1, <1>2, <1>3 DEF Disk!Share

-----------------------------------------------------------------------------
\* The state: the parts of TypeOK the steps need, and both invariants.
GeometryInv == Disk!TypeOK /\ Disk!OverwrittenOnlyByTwin /\ Disk!ReadsReturnLastWrite

LEMMA GeometryInitInv == Disk!Init => GeometryInv
  <1> SUFFICES ASSUME Disk!Init PROVE GeometryInv
    OBVIOUS
  <1>1. Disk!TypeOK
    BY DEF Disk!Init, Disk!TypeOK, Disk!NoAnswer, Disk!Stored, Disk!Bytes
  <1>2. Disk!OverwrittenOnlyByTwin
    <2> SUFFICES ASSUME NEW p \in Places
                 PROVE  image[Disk!TrackSectorToOffset(p[1], p[2])] = last[p]
      BY DEF Disk!OverwrittenOnlyByTwin, Disk!Share
    <2> QED
      BY OffsetInImage, GeometryAssumption DEF Disk!Init
  <1>3. Disk!ReadsReturnLastWrite
    <2>1. answer.at = <<0, 0>> /\ answer.ok = FALSE
      BY DEF Disk!Init, Disk!NoAnswer
    <2>2. <<0, 0>> \notin Disk!Address
      BY DEF Disk!Address, Disk!IsValid, Disk!Tracks
    <2>3. QED
      BY <2>1, <2>2 DEF Disk!ReadsReturnLastWrite
  <1>4. QED
    BY <1>1, <1>2, <1>3 DEF GeometryInv

LEMMA WriteKeepsInv ==
    ASSUME GeometryInv, NEW p \in Places, NEW data \in Payload, Disk!WriteSector(p, data)
    PROVE  GeometryInv'
  <1> DEFINE place == Disk!TrackSectorToOffset(p[1], p[2])
  <1>1. p \in Disk!Address /\ place \in 0..(Disk!ImageSectors - 1)
    BY OffsetInImage, GeometryAssumption
  <1>2. /\ image' = [image EXCEPT ![place] = data]
        /\ last' = [last EXCEPT ![p] = data]
        /\ answer' = Disk!NoAnswer
    BY DEF Disk!WriteSector
  <1>3. Disk!TypeOK'
    BY <1>1, <1>2 DEF GeometryInv, Disk!TypeOK, Disk!NoAnswer, Disk!Stored, Disk!Bytes
  <1>4. Disk!OverwrittenOnlyByTwin'
    <2> SUFFICES ASSUME NEW q \in Places
                 PROVE  \E r \in Places :
                            /\ Disk!Share(q, r)
                            /\ image'[Disk!TrackSectorToOffset(q[1], q[2])] = last'[r]
      BY DEF Disk!OverwrittenOnlyByTwin
    <2>1. q \in Disk!Address /\ Disk!TrackSectorToOffset(q[1], q[2]) \in 0..(Disk!ImageSectors - 1)
      BY OffsetInImage, GeometryAssumption
    <2>2. CASE Disk!TrackSectorToOffset(q[1], q[2]) = place
      <3>1. Disk!Share(q, p)
        BY <1>1, <2>1, <2>2, OnlyTwinsShareAPlace
      <3>2. image'[Disk!TrackSectorToOffset(q[1], q[2])] = last'[p]
        BY <1>1, <1>2, <2>2 DEF GeometryInv, Disk!TypeOK
      <3>3. QED
        BY <3>1, <3>2
    <2>3. CASE Disk!TrackSectorToOffset(q[1], q[2]) # place
      <3>1. PICK r \in Places :
                Disk!Share(q, r) /\ image[Disk!TrackSectorToOffset(q[1], q[2])] = last[r]
        BY DEF GeometryInv, Disk!OverwrittenOnlyByTwin
      <3>2. image'[Disk!TrackSectorToOffset(q[1], q[2])] = image[Disk!TrackSectorToOffset(q[1], q[2])]
        BY <1>1, <1>2, <2>1, <2>3 DEF GeometryInv, Disk!TypeOK
      <3>3. r # p
        <4>1. SUFFICES ASSUME r = p PROVE FALSE
          OBVIOUS
        <4>2. Disk!Share(q, p)
          BY <3>1, <4>1
        <4>3. Disk!TrackSectorToOffset(q[1], q[2]) = place
          BY <4>2, SharedPlace, <1>1, <2>1
        <4>4. QED
          BY <4>3, <2>3
      <3>4. last'[r] = last[r]
        BY <1>2, <3>3 DEF GeometryInv, Disk!TypeOK
      <3>5. QED
        BY <3>1, <3>2, <3>4
    <2>4. QED
      BY <2>2, <2>3
  <1>5. Disk!ReadsReturnLastWrite'
    BY <1>2, AddressIsBounded DEF Disk!ReadsReturnLastWrite, Disk!NoAnswer, Disk!Tracks
  <1>6. QED
    BY <1>3, <1>4, <1>5 DEF GeometryInv

LEMMA ReadKeepsInv ==
    ASSUME GeometryInv, NEW t \in Disk!Bytes, NEW s \in Disk!Bytes, Disk!ReadSector(t, s),
           <<t, s>> \in Places \/ <<t, s>> \notin Disk!Address
    PROVE  GeometryInv'
  <1>1. image' = image /\ last' = last
    BY DEF Disk!ReadSector
  <1>2. CASE <<t, s>> \in Disk!Address
    <2>1. Disk!IsValid(t, s)
      BY <1>2 DEF Disk!Address
    <2>2. Disk!TrackSectorToOffset(t, s) \in 0..(Disk!ImageSectors - 1)
      BY <1>2, OffsetInImage
    <2>3. answer' = [at |-> <<t, s>>, ok |-> TRUE,
                     data |-> image[Disk!TrackSectorToOffset(t, s)]]
      BY <2>1, <2>2 DEF Disk!ReadSector, Disk!ImageSectors
    <2>4. PICK q \in Places :
              Disk!Share(<<t, s>>, q) /\ image[Disk!TrackSectorToOffset(t, s)] = last[q]
      BY <1>2 DEF GeometryInv, Disk!OverwrittenOnlyByTwin
    <2>5. Disk!TypeOK'
      BY <1>1, <2>2, <2>3 DEF GeometryInv, Disk!TypeOK
    <2>6. QED
      BY <1>1, <1>2, <2>3, <2>4, <2>5
         DEF GeometryInv, Disk!OverwrittenOnlyByTwin, Disk!ReadsReturnLastWrite
  <1>3. CASE <<t, s>> \notin Disk!Address
    <2>1. ~ Disk!IsValid(t, s)
      BY <1>3 DEF Disk!Address
    <2>2. answer' = [at |-> <<t, s>>, ok |-> FALSE, data |-> Zeroes]
      BY <2>1 DEF Disk!ReadSector
    <2>3. Disk!TypeOK'
      BY <1>1, <2>2 DEF GeometryInv, Disk!TypeOK, Disk!Stored
    <2>4. QED
      BY <1>1, <1>3, <2>2, <2>3
         DEF GeometryInv, Disk!OverwrittenOnlyByTwin, Disk!ReadsReturnLastWrite
  <1>4. QED
    BY <1>2, <1>3

LEMMA GeometryStepInv == GeometryInv /\ [Disk!Next]_(Disk!vars) => GeometryInv'
  <1> SUFFICES ASSUME GeometryInv, [Disk!Next]_(Disk!vars) PROVE GeometryInv'
    OBVIOUS
  <1>1. CASE UNCHANGED Disk!vars
    BY <1>1 DEF Disk!vars, GeometryInv, Disk!TypeOK,
           Disk!OverwrittenOnlyByTwin, Disk!ReadsReturnLastWrite
  <1>2. CASE Disk!Read
    <2>1. PICK p \in Disk!Asked : Disk!ReadSector(p[1], p[2])
      BY <1>2 DEF Disk!Read
    <2>2. p \in Disk!Bytes \X Disk!Bytes /\ (p \in Places \/ p \notin Disk!Address)
      <3>1. CASE p \in Places
        BY <3>1, GeometryAssumption DEF Disk!Address
      <3>2. CASE p \in Disk!Asked \ Places
        BY <3>2 DEF Disk!Asked, Disk!Address, Disk!IsValid,
               Disk!SectorsPerTrack, Disk!Tracks, Disk!Bytes
      <3>3. QED
        BY <3>1, <3>2
    <2>3. p = <<p[1], p[2]>> /\ p[1] \in Disk!Bytes /\ p[2] \in Disk!Bytes
      BY <2>2
    <2>4. QED
      BY <2>1, <2>2, <2>3, ReadKeepsInv
  <1>3. CASE \E p \in Places, data \in Payload : Disk!WriteSector(p, data)
    BY <1>3, WriteKeepsInv
  <1>4. QED
    BY <1>1, <1>2, <1>3 DEF Disk!Next

\* Whatever addresses are in use, WriteSector damages no sector but the other
\* one of a pair.
THEOREM SectorsKeepTheirData == Disk!Spec => []Disk!OverwrittenOnlyByTwin
  <1>1. GeometryInv => Disk!OverwrittenOnlyByTwin
    BY DEF GeometryInv
  <1>2. QED
    BY <1>1, GeometryInitInv, GeometryStepInv, PTL DEF Disk!Spec

\* Whatever addresses are in use, ReadSector refuses the others and returns
\* what was last written to the sector or to the other one of its pair.
THEOREM ReadsAreRight == Disk!Spec => []ReadsReturnLastWrite
  <1>1. GeometryInv => ReadsReturnLastWrite
    BY DEF GeometryInv, ReadsReturnLastWrite
  <1>2. QED
    BY <1>1, GeometryInitInv, GeometryStepInv, PTL DEF Disk!Spec

-----------------------------------------------------------------------------
(* The chain of directory sectors.                                         *)

\* It has the first sector and follows every link.
LEMMA ChainFollowsLinks ==
    ASSUME NEW d
    PROVE  /\ First \in Chain(d) /\ Chain(d) \subseteq Sectors
           /\ \A s \in Chain(d) : d[s].next \in Sectors => d[s].next \in Chain(d)
  BY ChainAssumption DEF Chain

\* It is the least such set.
LEMMA ChainIsLeast ==
    ASSUME NEW d, NEW S \in SUBSET Sectors, First \in S,
           \A s \in S : d[s].next \in Sectors => d[s].next \in S
    PROVE  Chain(d) \subseteq S
  BY DEF Chain

\* It depends on the links alone, and so does where it ends.
LEMMA LinksMakeTheChain ==
    ASSUME NEW d, NEW e, \A s \in Sectors : d[s].next = e[s].next
    PROVE  Chain(d) = Chain(e) /\ (Ends(d) <=> Ends(e))
<1>1. Chain(d) = Chain(e)
    <2>1. Chain(e) \subseteq Chain(d)
        BY ChainFollowsLinks, ChainIsLeast
    <2>2. Chain(d) \subseteq Chain(e)
        BY ChainFollowsLinks, ChainIsLeast
    <2> QED
        BY <2>1, <2>2
<1> QED
    BY <1>1, ChainFollowsLinks DEF Ends

-----------------------------------------------------------------------------
(* Walks.                                                                  *)

Visited == {seen[i] : i \in 1..Len(seen)}

\* Where a walk has been, and where it goes next.
Walked ==
    /\ seen \in Seq(Sectors) /\ at \in Links
    /\ Visited \subseteq Chain(dir)
    /\ at \in Sectors => at \in Chain(dir)
    /\ First \in Visited \cup {at}
    /\ \A s \in Visited : dir[s].next \in Visited \cup {at}
    /\ at = First \/ \E s \in Visited : dir[s].next = at

\* A walk that cannot go on to a new sector has been to all of them, and has
\* come to the end if there is one.
LEMMA WalkedAll ==
    ASSUME Walked, at \notin Sectors \/ at \in Visited
    PROVE  Visited = Chain(dir) /\ (Ends(dir) <=> at = End)
<1>1. Visited \subseteq Sectors /\ First \in Sectors
    BY ChainAssumption, ChainFollowsLinks DEF Walked
<1>2. First \in Visited
    BY <1>1 DEF Walked
<1>3. \A s \in Visited : dir[s].next \in Sectors => dir[s].next \in Visited
    BY DEF Walked
<1>4. Visited = Chain(dir)
    BY <1>1, <1>2, <1>3, ChainIsLeast DEF Walked
<1>5. ASSUME at = End PROVE Ends(dir)
    <2>1. at # First
        BY <1>1, <1>5, ChainAssumption
    <2> QED
        BY <1>4, <1>5, <2>1 DEF Walked, Ends
<1>6. ASSUME Ends(dir) PROVE at = End
    <2>1. PICK s \in Visited : dir[s].next = End
        BY <1>4, <1>6 DEF Ends
    <2>2. End \notin Visited
        BY <1>1, ChainAssumption
    <2> QED
        BY <2>1, <2>2 DEF Walked
<1> QED
    BY <1>4, <1>5, <1>6

LEMMA EmptyWalk ==
    ASSUME at = First, seen = <<>>
    PROVE  Walked /\ Visited = {}
<1>1. Visited = {}
    BY DEF Visited
<1>2. First \in Sectors /\ First \in Chain(dir)
    BY ChainAssumption, ChainFollowsLinks
<1> QED
    BY <1>1, <1>2 DEF Walked, Links

\* One sector more.
LEMMA WalkOn ==
    ASSUME Walked, at \in Sectors, at' = Link(at), seen' = NowRead(at), dir' = dir,
           dir \in [Sectors -> [type : 0..255, base : Bases, next : Links]]
    PROVE  /\ Walked' /\ Visited' = Visited \cup {at}
           /\ Len(seen') = Len(seen) + 1
<1>1. seen \in Seq(Sectors) /\ seen' = Append(seen, at)
    BY DEF Walked, NowRead
<1>2. /\ seen' \in Seq(Sectors) /\ Len(seen') = Len(seen) + 1
      /\ seen'[Len(seen) + 1] = at /\ \A i \in 1..Len(seen) : seen'[i] = seen[i]
      /\ Len(seen) \in Nat
    BY <1>1
<1>3. Visited' = Visited \cup {at}
    <2>1. 1..Len(seen') = 1..Len(seen) \cup {Len(seen) + 1}
        BY <1>2
    <2>2. Visited' = {seen'[i] : i \in 1..Len(seen')}
        BY DEF Visited
    <2>3. Visited' = {seen'[i] : i \in 1..Len(seen)} \cup {seen'[Len(seen) + 1]}
        BY <2>1, <2>2
    <2>4. {seen'[i] : i \in 1..Len(seen)} = Visited
        BY <1>2 DEF Visited
    <2> QED
        BY <1>2, <2>3, <2>4
<1>4. at' = dir[at].next /\ at' \in Links
    BY DEF Link
<1>5. at \in Chain(dir) /\ (at' \in Sectors => at' \in Chain(dir))
    BY <1>4, ChainFollowsLinks DEF Walked
<1> QED
    BY <1>2, <1>3, <1>4, <1>5 DEF Walked

-----------------------------------------------------------------------------
(* The walks of the editor.                                                *)

Directory == [Sectors -> [type : 0..255, base : Bases, next : Links]]

\* A call, the walks it makes, and what no walk changes.
WalkTypes ==
    /\ dir \in Directory /\ before \in Directory /\ call \in Calls
    /\ \A s \in Sectors : dir[s].next = before[s].next
    /\ walk \in {"load", "findNew", "find", "free"} \/ call.kind = "load" => dir = before
    /\ walk = "load" => call.kind = "load"
    /\ walk = "findNew" => /\ call.kind \in {"add", "rename"}
                           /\ call.kind = "rename" => call.base # call.new
    /\ walk = "find" => call.kind \in {"delete", "rename"}
    /\ walk = "free" => call.kind = "add"
    /\ walk = "scan" => call.kind \in {"add", "delete"}
    /\ walk \in {"load", "findNew", "find", "free", "scan", "done"}

\* The directory ends, and no file has the name.
NewName(base) ==
    Ends(before) /\ \A s \in LiveIn(before) : before[s].base # base

\* What the walks before have found.
Looked ==
    /\ walk = "find" /\ call.kind = "rename" /\ call.base # call.new =>
          NewName(call.new)
    /\ walk = "free" => NewName(call.base)
    /\ walk \in {"findNew", "find"} => \A s \in Visited : ~ Matches(s)

\* The one entry that a call has changed.
Deleted ==
    /\ call.kind = "delete"
    /\ \E c \in LiveIn(before) :
          before[c].base = call.base /\ dir = [before EXCEPT ![c].type = 0]

Added ==
    /\ call.kind = "add" /\ NewName(call.base)
    /\ \E c \in Chain(before) :
          /\ IsFree(before[c].type)
          /\ dir = [before EXCEPT ![c].type = ProgramType, ![c].base = call.base]

Renamed ==
    /\ call.kind = "rename"
    /\ call.base # call.new => NewName(call.new)
    /\ \E c \in LiveIn(before) :
          /\ before[c].base = call.base
          /\ dir = [before EXCEPT ![c].type = RenamedType(@), ![c].base = call.new]

\* There was nothing to delete or to rename, or the new name was taken, or
\* the directory has no end.
NothingToDo ==
    call.kind \in {"delete", "rename"} /\ Ends(before) =>
        \/ \A s \in LiveIn(before) : before[s].base # call.base
        \/ call.kind = "rename" /\ \E s \in LiveIn(before) : before[s].base = call.new

Returned ==
    \/ outcome = "failed" /\ dir = before /\ NothingToDo
    \/ outcome = "ok" /\ Ends(dir) /\ (Deleted \/ Added)
    \/ outcome = "ok" /\ Renamed

\* The invariant of the editor's walks.
WalkInv ==
    /\ WalkTypes
    /\ walk # "done" => Walked
    /\ Looked
    /\ walk = "scan" => Deleted \/ Added
    /\ walk = "done" /\ call.kind # "load" => Returned

LEMMA FirstWalkType ==
    ASSUME NEW c \in Calls
    PROVE  /\ FirstWalk(c) \in {"load", "findNew", "find"}
           /\ FirstWalk(c) = "load" <=> c.kind = "load"
           /\ FirstWalk(c) = "findNew" => /\ c.kind \in {"add", "rename"}
                                          /\ c.kind = "rename" => c.base # c.new
           /\ FirstWalk(c) = "find" => /\ c.kind \in {"delete", "rename"}
                                       /\ c.kind = "rename" => c.base = c.new
<1>1. c.kind \in {"load", "add", "delete", "rename"}
    BY DEF Calls
<1> QED
    BY <1>1 DEF FirstWalk

LEMMA InitWalkInv == Init => WalkInv
<1> SUFFICES ASSUME Init PROVE WalkInv
    OBVIOUS
<1>1. dir \in Directory /\ before = dir /\ call \in Calls /\ walk = FirstWalk(call)
    BY ChainAssumption DEF Init, Directories, Directory, Links
<1>2. Walked /\ Visited = {}
    BY EmptyWalk DEF Init
<1>3. WalkTypes
    BY <1>1, FirstWalkType DEF WalkTypes
<1>4. Looked
    BY <1>1, <1>2, FirstWalkType DEF Looked
<1>5. walk \notin {"scan", "done"}
    BY <1>1, FirstWalkType
<1> QED
    BY <1>2, <1>3, <1>4, <1>5 DEF WalkInv

\* What Matches says of the whole chain.
LEMMA NoMatch ==
    ASSUME Walked, WalkTypes, Looked, walk \in {"find", "findNew"},
           at \notin Sectors \/ at \in Visited
    PROVE  \A s \in LiveIn(before) : before[s].base # Sought
<1>1. Visited = Chain(before) /\ dir = before
    BY WalkedAll DEF WalkTypes
<1> QED
    BY <1>1 DEF Looked, Matches, IsLive, LiveIn, WalkTypes

\* A call that fails on the way leaves the directory as it was.
LEMMA FailureKeeps ==
    ASSUME WalkInv, walk # "load", Fails, NothingToDo
    PROVE  WalkInv'
<1>1. /\ walk' = "done" /\ outcome' = "failed" /\ dir' = before
      /\ UNCHANGED <<before, call, at, seen, listed>>
    BY DEF Fails, Return, Restored
<1>2. WalkTypes'
    BY <1>1 DEF WalkInv, WalkTypes
<1>3. Looked'
    BY <1>1 DEF Looked
<1>4. Returned'
    BY <1>1 DEF Returned, NothingToDo, Ends, Chain, LiveIn
<1> QED
    BY <1>1, <1>2, <1>3, <1>4 DEF WalkInv

LEMMA NewWalk ==
    ASSUME at' = First, seen' = <<>>
    PROVE  Walked' /\ Visited' = {}
<1>1. Visited' = {}
    BY DEF Visited
<1>2. First \in Sectors /\ (First \in Chain(dir))'
    BY ChainAssumption, ChainFollowsLinks
<1> QED
    BY <1>1, <1>2 DEF Walked, Links

\* A walk that reads on and sees nothing it looks for.
LEMMA ReadOnKeeps ==
    ASSUME WalkInv, at \in Sectors, at' = Link(at), seen' = NowRead(at),
           UNCHANGED <<dir, before, call, walk, outcome>>,
           walk \in {"find", "findNew"} => ~ Matches(at), walk # "done"
    PROVE  WalkInv'
<1>1. Walked' /\ Visited' = Visited \cup {at}
    BY WalkOn DEF WalkInv, WalkTypes, Directory
<1>2. WalkTypes'
    BY DEF WalkInv, WalkTypes
<1>3. Looked'
    <2>1. \A s : Matches(s)' <=> Matches(s)
        BY DEF Matches, Sought
    <2>2. \A base : NewName(base)' <=> NewName(base)
        BY DEF NewName, LiveIn, Ends, Chain
    <2> QED
        BY <1>1, <2>1, <2>2 DEF WalkInv, Looked
<1>4. walk = "scan" => (Deleted \/ Added)'
    BY DEF WalkInv, Deleted, Added, NewName, LiveIn, Ends, Chain
<1> QED
    BY <1>1, <1>2, <1>3, <1>4 DEF WalkInv

\* The entry under the walk is in the chain.
LEMMA ReadsInChain ==
    ASSUME WalkInv, NEW w \in {"find", "findNew", "free", "scan"}, Reads(w)
    PROVE  /\ walk = w /\ at \in Sectors /\ at \in Chain(dir)
           /\ w # "scan" => dir = before
  BY DEF WalkInv, WalkTypes, Walked, Reads

LEMMA SteppingKeeps ==
    ASSUME WalkInv, FindNext \/ FreeNext \/ ScanNext
    PROVE  WalkInv'
  BY ReadOnKeeps, ReadsInChain DEF FindNext, FreeNext, ScanNext, ReadOn

LEMMA NameTakenKeeps ==
    ASSUME WalkInv, NameTaken
    PROVE  WalkInv'
<1>1. walk = "findNew" /\ at \in Chain(before) /\ dir = before /\ Matches(at)
    BY ReadsInChain DEF NameTaken
<1>2. call.kind \in {"add", "rename"}
    BY <1>1 DEF WalkInv, WalkTypes
<1>3. NothingToDo
    BY <1>1, <1>2 DEF NothingToDo, Matches, Sought, IsLive, LiveIn
<1> QED
    BY <1>1, <1>3, FailureKeeps DEF NameTaken

LEMMA NameIsNewKeeps ==
    ASSUME WalkInv, NameIsNew
    PROVE  WalkInv'
<1>1. /\ walk = "findNew" /\ at = End
      /\ walk' = (IF call.kind = "add" THEN "free" ELSE "find")
      /\ at' = First /\ seen' = <<>>
      /\ UNCHANGED <<dir, before, call, listed, outcome>>
    BY DEF NameIsNew, NotFound, Goto
<1>2. dir = before /\ call.kind \in {"add", "rename"}
    BY <1>1 DEF WalkInv, WalkTypes
<1>3. NewName(Sought)
    <2>1. Ends(before)
        BY <1>1, <1>2, ChainAssumption, WalkedAll DEF WalkInv
    <2>2. \A s \in LiveIn(before) : before[s].base # Sought
        BY <1>1, ChainAssumption, NoMatch DEF WalkInv
    <2> QED
        BY <2>1, <2>2 DEF NewName
<1>4. Walked' /\ Visited' = {}
    BY <1>1, NewWalk
<1>5. WalkTypes'
    BY <1>1, <1>2 DEF WalkInv, WalkTypes
<1>6. Looked'
    <2>1. \A base : NewName(base)' <=> NewName(base)
        BY <1>1 DEF NewName, LiveIn, Ends, Chain
    <2> QED
        BY <1>1, <1>2, <1>3, <1>4, <2>1 DEF Looked, Sought
<1> QED
    BY <1>1, <1>4, <1>5, <1>6 DEF WalkInv

Changed(d, s, t, b) == [d EXCEPT ![s].type = t, ![s].base = b]

DiffersAt(d, e, s, t, b) ==
    /\ \A u \in Sectors : u # s => e[u] = d[u]
    /\ e[s].type = t /\ e[s].base = b

SameLinks(d, e) == \A s \in Sectors : e[s].next = d[s].next

\* Changing an entry's type and name leaves a directory with the same links.
LEMMA EntryChanged ==
    ASSUME NEW d \in Directory, NEW s \in Sectors, NEW t \in 0..255, NEW b \in Bases
    PROVE  /\ Changed(d, s, t, b) \in Directory
           /\ SameLinks(d, Changed(d, s, t, b))
           /\ DiffersAt(d, Changed(d, s, t, b), s, t, b)
<1> DEFINE e == Changed(d, s, t, b)
<1> DEFINE entry == [[d[s] EXCEPT !.type = t] EXCEPT !.base = b]
<1>1. d[s] \in [type : 0..255, base : Bases, next : Links]
    BY DEF Directory
<1>2. /\ entry \in [type : 0..255, base : Bases, next : Links]
      /\ entry.type = t /\ entry.base = b /\ entry.next = d[s].next
    <2>1. [d[s] EXCEPT !.type = t] \in [type : 0..255, base : Bases, next : Links]
        BY <1>1
    <2>2. entry \in [type : 0..255, base : Bases, next : Links]
        BY <2>1
    <2> QED
        BY <1>1, <2>1, <2>2
<1>3. e = [u \in Sectors |-> IF u = s THEN entry ELSE d[u]]
    <2>1. e = [[d EXCEPT ![s] = [d[s] EXCEPT !.type = t]]
                  EXCEPT ![s] = [[d EXCEPT ![s] = [d[s] EXCEPT !.type = t]][s] EXCEPT !.base = b]]
        BY DEF Changed
    <2>2. [d EXCEPT ![s] = [d[s] EXCEPT !.type = t]][s] = [d[s] EXCEPT !.type = t]
        BY DEF Directory
    <2> QED
        BY <2>1, <2>2 DEF Directory
<1> HIDE DEF entry, e
<1>4. \A u \in Sectors : e[u] = IF u = s THEN entry ELSE d[u]
    BY <1>3
<1>5. \A u \in Sectors : e[u] \in [type : 0..255, base : Bases, next : Links]
    BY <1>2, <1>4 DEF Directory
<1>6. e \in Directory
    BY <1>3, <1>5 DEF Directory
<1> QED
    BY <1>2, <1>4, <1>6 DEF e, SameLinks, DiffersAt

LEMMA EntryFoundKeeps ==
    ASSUME WalkInv, EntryFound
    PROVE  WalkInv'
<1>1. /\ walk = "find" /\ at \in Sectors /\ at \in Chain(before) /\ dir = before
      /\ Matches(at)
    BY ReadsInChain DEF EntryFound
<1>2. /\ at \in LiveIn(before) /\ before[at].base = call.base
      /\ before \in Directory /\ call \in Calls
    BY <1>1 DEF Matches, Sought, IsLive, LiveIn, WalkInv, WalkTypes
<1>3. CASE /\ call.kind = "delete"
           /\ dir' = [dir EXCEPT ![at].type = 0]
           /\ Goto("scan")
           /\ UNCHANGED <<before, call, listed, outcome>>
    <2>1. Walked'
        BY <1>3, NewWalk DEF Goto
    <2>2. /\ dir' \in Directory
          /\ \A s \in Sectors : dir'[s].next = before[s].next
        BY <1>1, <1>2, <1>3 DEF Directory
    <2>3. WalkTypes'
        BY <1>3, <2>2 DEF WalkInv, WalkTypes, Goto
    <2>4. Deleted'
        BY <1>1, <1>2, <1>3 DEF Deleted, LiveIn, Chain
    <2> QED
        BY <1>3, <2>1, <2>3, <2>4 DEF WalkInv, Looked, Goto
<1>4. CASE /\ call.kind = "rename"
           /\ dir' = [dir EXCEPT ![at].type = RenamedType(@), ![at].base = call.new]
           /\ Return("ok")
    <2>1. call.new \in Bases
        BY <1>2, <1>4 DEF Calls
    <2>2. RenamedType(before[at].type) \in 0..255
        BY <1>1, <1>2 DEF RenamedType, Directory
    <2>3. /\ dir' \in Directory
          /\ \A s \in Sectors : dir'[s].next = before[s].next
        <3>1. dir' = Changed(before, at, RenamedType(before[at].type), call.new)
            BY <1>1, <1>4 DEF Changed
        <3>2. dir' \in Directory /\ SameLinks(before, dir')
            BY <1>1, <1>2, <2>1, <2>2, <3>1, EntryChanged
        <3> QED
            BY <3>2 DEF SameLinks
    <2>4. WalkTypes'
        BY <1>4, <2>3 DEF WalkInv, WalkTypes, Return
    <2>5. Renamed'
        <3>1. call.base # call.new => NewName(call.new)
            BY <1>1, <1>4 DEF WalkInv, Looked
        <3> QED
            BY <1>1, <1>2, <1>4, <3>1 DEF Renamed, Return, NewName, LiveIn, Ends, Chain
    <2> QED
        BY <1>4, <2>4, <2>5 DEF WalkInv, Looked, Returned, Return
<1> QED
    BY <1>3, <1>4 DEF EntryFound

LEMMA FreeFoundKeeps ==
    ASSUME WalkInv, FreeFound
    PROVE  WalkInv'
<1>1. /\ walk = "free" /\ at \in Sectors /\ at \in Chain(before) /\ dir = before
      /\ IsFree(before[at].type) /\ NewName(call.base)
      /\ before \in Directory /\ call \in Calls /\ call.kind = "add"
    BY ReadsInChain DEF FreeFound, WalkInv, WalkTypes, Looked
<1>2. /\ dir' = [dir EXCEPT ![at].type = ProgramType, ![at].base = call.base]
      /\ walk' = "scan" /\ at' = First /\ seen' = <<>>
      /\ UNCHANGED <<before, call, listed, outcome>>
    BY DEF FreeFound, Goto
<1>3. call.base \in Bases /\ ProgramType \in 0..255
    BY <1>1 DEF Calls, ProgramType
<1>4. /\ dir' \in Directory
      /\ \A s \in Sectors : dir'[s].next = before[s].next
    <2>1. dir' = Changed(before, at, ProgramType, call.base)
        BY <1>1, <1>2 DEF Changed
    <2> QED
        <3>1. dir' \in Directory /\ SameLinks(before, dir')
            BY <1>1, <1>3, <2>1, EntryChanged
        <3> QED
            BY <3>1 DEF SameLinks
<1>5. WalkTypes'
    BY <1>1, <1>2, <1>4 DEF WalkInv, WalkTypes
<1>6. Added'
    BY <1>1, <1>2 DEF Added, NewName, LiveIn, Ends, Chain
<1>7. Walked'
    BY <1>2, NewWalk
<1> QED
    BY <1>2, <1>5, <1>6, <1>7 DEF WalkInv, Looked

LEMMA NothingFoundKeeps ==
    ASSUME WalkInv, NothingFound
    PROVE  WalkInv'
<1>1. walk \in {"find", "free"} /\ at = End /\ Fails
    BY DEF NothingFound
<1>2. NothingToDo
    <2>1. CASE walk = "free"
        BY <2>1 DEF NothingToDo, WalkInv, WalkTypes
    <2>2. CASE walk = "find"
        <3>1. \A s \in LiveIn(before) : before[s].base # Sought
            BY <1>1, <2>2, ChainAssumption, NoMatch DEF WalkInv
        <3> QED
            BY <2>2, <3>1 DEF NothingToDo, Sought
    <2> QED
        BY <1>1, <2>1, <2>2
<1> QED
    BY <1>1, <1>2, FailureKeeps

\* Where no walk goes on, the directory has no end.
LEMMA WalkFailsKeeps ==
    ASSUME WalkInv, WalkFails
    PROVE  WalkInv'
<1>1. walk \in {"find", "findNew", "free", "scan"} /\ Stuck /\ Fails
    BY DEF WalkFails
<1>2. (at \notin Sectors \/ at \in Visited) /\ at # End
    BY <1>1, ChainAssumption DEF Stuck, AlreadyRead, Visited, WalkInv, Walked
<1>3. ~ Ends(dir)
    BY <1>1, <1>2, WalkedAll DEF WalkInv
<1>4. ~ Ends(before)
    BY <1>3, LinksMakeTheChain DEF WalkInv, WalkTypes
<1> QED
    BY <1>1, <1>4, FailureKeeps DEF NothingToDo

LEMMA ScanEndsKeeps ==
    ASSUME WalkInv, ScanEnds
    PROVE  WalkInv'
<1>1. /\ walk = "scan" /\ at = End /\ walk' = "done" /\ outcome' = "ok"
      /\ UNCHANGED <<dir, before, call, at, seen, listed>>
    BY DEF ScanEnds, Return
<1>2. Ends(dir)
    BY <1>1, ChainAssumption, WalkedAll DEF WalkInv
<1>3. Returned'
    BY <1>1, <1>2 DEF WalkInv, Returned, Deleted, Added, NewName, LiveIn, Ends, Chain
<1>4. WalkTypes'
    BY <1>1 DEF WalkInv, WalkTypes
<1> QED
    BY <1>1, <1>3, <1>4 DEF WalkInv, Looked

LEMMA LoadKeepsWalks ==
    ASSUME WalkInv, LoadNext \/ LoadEnds \/ LoadFails
    PROVE  WalkInv'
<1>1. CASE LoadNext
    BY <1>1, ReadOnKeeps DEF LoadNext
<1>2. CASE LoadEnds \/ LoadFails
    <2>1. /\ walk = "load" /\ walk' = "done"
          /\ UNCHANGED <<dir, before, call, at, seen, listed>>
        BY <1>2 DEF LoadEnds, LoadFails, Return
    <2>2. WalkTypes' /\ call'.kind = "load"
        BY <2>1 DEF WalkInv, WalkTypes
    <2> QED
        BY <2>1, <2>2 DEF WalkInv, Looked
<1> QED
    BY <1>1, <1>2

LEMMA StepWalkInv == WalkInv /\ [Next]_vars => WalkInv'
<1> SUFFICES ASSUME WalkInv, [Next]_vars PROVE WalkInv'
    OBVIOUS
<1>1. CASE UNCHANGED vars
    <2>1. WalkTypes' /\ Walked' = Walked /\ Looked' = Looked
        BY <1>1 DEF vars, WalkInv, WalkTypes, Walked, Visited, Looked, Matches, Sought,
                    NewName, LiveIn, Ends, Chain
    <2>2. Deleted' = Deleted /\ Added' = Added /\ Renamed' = Renamed
        BY <1>1 DEF vars, Deleted, Added, Renamed, NewName, LiveIn, Ends, Chain
    <2>3. Returned' = Returned
        BY <1>1, <2>2 DEF vars, Returned, NothingToDo, LiveIn, Ends, Chain
    <2> QED
        BY <1>1, <2>1, <2>2, <2>3 DEF vars, WalkInv
<1> QED
    BY <1>1, SteppingKeeps, NameTakenKeeps, NameIsNewKeeps, EntryFoundKeeps,
       FreeFoundKeeps, NothingFoundKeeps, WalkFailsKeeps, ScanEndsKeeps, LoadKeepsWalks
       DEF Next

LEMMA WalksAlways == Spec => []WalkInv
  BY InitWalkInv, StepWalkInv, PTL DEF Spec

-----------------------------------------------------------------------------
(* What a finished call has done.                                          *)

OnlyAt(c) == \A s \in Sectors : s # c => dir[s] = before[s]

LEMMA ChainStays ==
    ASSUME WalkTypes
    PROVE  Chain(dir) = Chain(before) /\ (Ends(dir) <=> Ends(before))
  BY LinksMakeTheChain DEF WalkTypes

LEMMA DeletedEntry ==
    ASSUME WalkTypes, Deleted
    PROVE  \E c \in LiveIn(before) :
               before[c].base = call.base /\ dir[c].type = 0 /\ OnlyAt(c)
<1>1. PICK c \in LiveIn(before) :
          before[c].base = call.base /\ dir = [before EXCEPT ![c].type = 0]
    BY DEF Deleted
<1>2. c \in Sectors /\ before \in Directory
    BY ChainFollowsLinks DEF LiveIn, WalkTypes
<1>3. dir[c].type = 0
    BY <1>1, <1>2 DEF Directory
<1>4. OnlyAt(c)
    BY <1>1, <1>2 DEF Directory, OnlyAt
<1> QED
    BY <1>1, <1>3, <1>4

LEMMA AddedEntry ==
    ASSUME WalkTypes, Added
    PROVE  \E c \in Chain(before) :
               /\ before[c].type % 8 = 0
               /\ dir[c].type = ProgramType /\ dir[c].base = call.base
               /\ OnlyAt(c)
<1>1. PICK c \in Chain(before) :
          /\ IsFree(before[c].type)
          /\ dir = Changed(before, c, ProgramType, call.base)
    BY DEF Added, Changed
<1>2. c \in Sectors /\ before \in Directory /\ ProgramType \in 0..255 /\ call.base \in Bases
    BY ChainFollowsLinks DEF Added, WalkTypes, Calls, ProgramType
<1>3. DiffersAt(before, dir, c, ProgramType, call.base)
    BY <1>1, <1>2, EntryChanged
<1> QED
    BY <1>1, <1>3 DEF IsFree, OnlyAt, DiffersAt

LEMMA RenamedIsLive == \A type \in 0..255 : RenamedType(type) \in 0..255 /\ RenamedType(type) % 8 # 0
  BY DEF RenamedType

LEMMA RenamedEntry ==
    ASSUME WalkTypes, Renamed
    PROVE  \E c \in LiveIn(before) :
               /\ before[c].base = call.base
               /\ dir[c].type % 8 # 0 /\ dir[c].base = call.new
               /\ OnlyAt(c)
<1>1. PICK c \in LiveIn(before) :
          /\ before[c].base = call.base
          /\ dir = Changed(before, c, RenamedType(before[c].type), call.new)
    BY DEF Renamed, Changed
<1>2. c \in Sectors /\ before \in Directory /\ call.new \in Bases
    BY ChainFollowsLinks DEF Renamed, WalkTypes, Calls, LiveIn
<1>3. before[c].type \in 0..255
    BY <1>2 DEF Directory
<1>4. RenamedType(before[c].type) \in 0..255 /\ RenamedType(before[c].type) % 8 # 0
    BY <1>3, RenamedIsLive
<1> DEFINE type == RenamedType(before[c].type)
<1> HIDE DEF type
<1>5. type \in 0..255 /\ type % 8 # 0 /\ dir = Changed(before, c, type, call.new)
    BY <1>1, <1>4 DEF type
<1>6. DiffersAt(before, dir, c, type, call.new)
    BY <1>2, <1>5, EntryChanged
<1> QED
    BY <1>1, <1>5, <1>6 DEF OnlyAt, DiffersAt

\* Two live entries of one name after a call were two of one name before it.
LEMMA UniqueAfter ==
    ASSUME WalkInv, walk = "done", Unique(before)
    PROVE  Unique(dir)
<1> USE DEF WalkInv
<1>1. Chain(dir) = Chain(before) /\ Chain(before) \subseteq Sectors
    BY ChainStays, ChainFollowsLinks
<1>2. CASE dir = before
    BY <1>2
<1>3. CASE Deleted
    <2>1. PICK c \in LiveIn(before) : dir[c].type = 0 /\ OnlyAt(c)
        BY <1>3, DeletedEntry
    <2>2. \A s \in LiveIn(dir) : s # c /\ s \in LiveIn(before) /\ dir[s] = before[s]
        BY <1>1, <2>1 DEF LiveIn, OnlyAt
    <2> QED
        BY <2>2 DEF Unique
<1>4. CASE Added
    <2>1. PICK c \in Chain(before) : dir[c].base = call.base /\ OnlyAt(c)
        BY <1>4, AddedEntry
    <2>2. \A s \in LiveIn(dir) : s # c => s \in LiveIn(before) /\ dir[s] = before[s]
        BY <1>1, <2>1 DEF LiveIn, OnlyAt
    <2>3. \A s \in LiveIn(before) : before[s].base # call.base
        BY <1>4 DEF Added, NewName
    <2> QED
        BY <2>1, <2>2, <2>3 DEF Unique
<1>5. CASE Renamed
    <2>1. PICK c \in LiveIn(before) :
              before[c].base = call.base /\ dir[c].base = call.new /\ OnlyAt(c)
        BY <1>5, RenamedEntry
    <2>2. \A s \in LiveIn(dir) : s # c => s \in LiveIn(before) /\ dir[s] = before[s]
        BY <1>1, <2>1 DEF LiveIn, OnlyAt
    <2>3. \A s \in LiveIn(before) : s # c => before[s].base # call.new
        BY <1>5, <2>1 DEF Renamed, NewName, Unique
    <2> QED
        BY <2>1, <2>2, <2>3 DEF Unique
<1> QED
    BY <1>2, <1>3, <1>4, <1>5 DEF Returned, WalkTypes

LEMMA BrokenStays == WalkInv => BrokenIsKept
<1> SUFFICES ASSUME WalkInv, walk = "done", ~ Ends(before), dir # before
             PROVE  Succeeded({"rename"}) /\ call.base = call.new
    BY DEF BrokenIsKept
<1>1. ~ Ends(dir)
    BY ChainStays DEF WalkInv
<1>2. outcome = "ok" /\ Renamed
    BY <1>1 DEF WalkInv, WalkTypes, Returned
<1> QED
    BY <1>2 DEF Renamed, NewName, Succeeded, Finished

\* No call gives two files one name, on damaged directories too, and on a
\* directory without an end none changes more than the type of a file renamed
\* to itself: AddFile and RenameFile take a name for new only when the look-up
\* has come to the end.  For every number of sectors, every way to link them
\* and every type byte.
THEOREM LookupsStayRight == Spec => []LookupsAreRight
<1>1. WalkInv => LookupsAreRight
    BY UniqueAfter, BrokenStays DEF LookupsAreRight, NamesStayUnique
<1> QED
    BY <1>1, WalksAlways, PTL

LEMMA AddedIsThere == WalkInv => AddedIsListed
<1> SUFFICES ASSUME WalkInv, walk = "done", call.kind = "add", outcome = "ok"
             PROVE  Ends(dir) /\ \E s \in Listed(dir) : dir[s].base = call.base
    BY DEF AddedIsListed, Succeeded, Finished
<1>1. WalkTypes /\ Added
    BY DEF WalkInv, Returned, Deleted, Renamed
<1>2. PICK c \in Chain(before) : dir[c].type = ProgramType /\ dir[c].base = call.base
    BY <1>1, AddedEntry
<1>3. c \in Chain(dir) /\ Ends(dir)
    BY <1>1, <1>2, ChainStays DEF Added, NewName
<1>4. IsListed(ProgramType)
    BY DEF IsListed, ProgramType
<1> QED
    BY <1>2, <1>3, <1>4 DEF Listed

LEMMA ListedIsThere == WalkInv => ListedIsFound
<1> SUFFICES ASSUME WalkInv, walk = "done", call.kind \in {"delete", "rename"},
                    outcome = "failed", Ends(before)
             PROVE  \/ \A s \in Listed(before) :
                           before[s].type % 8 # 0 => before[s].base # call.base
                    \/ call.kind = "rename" /\ \E s \in LiveIn(before) : before[s].base = call.new
    BY DEF ListedIsFound, Finished
<1>1. NothingToDo
    BY DEF WalkInv, Returned
<1> QED
    BY <1>1 DEF NothingToDo, LiveIn, Listed

LEMMA OthersStay == WalkInv => OthersStayListed
<1> SUFFICES ASSUME WalkInv, walk = "done", NEW s \in Listed(before), dir[s] # before[s]
             PROVE  \/ before[s].type % 8 # 0 /\ before[s].base = call.base
                    \/ before[s].type % 8 = 0 /\ call.kind = "add"
    BY DEF OthersStayListed
<1>1. WalkTypes /\ s \in Sectors /\ (Deleted \/ Added \/ Renamed)
    BY ChainFollowsLinks DEF WalkInv, WalkTypes, Returned, Listed
<1>2. CASE Deleted
    <2>1. PICK c \in LiveIn(before) : before[c].base = call.base /\ OnlyAt(c)
        BY <1>1, <1>2, DeletedEntry
    <2> QED
        BY <1>1, <2>1 DEF OnlyAt, LiveIn
<1>3. CASE Added
    <2>1. PICK c \in Chain(before) : before[c].type % 8 = 0 /\ OnlyAt(c)
        BY <1>1, <1>3, AddedEntry
    <2> QED
        BY <1>1, <1>3, <2>1 DEF OnlyAt, Added
<1>4. CASE Renamed
    <2>1. PICK c \in LiveIn(before) : before[c].base = call.base /\ OnlyAt(c)
        BY <1>1, <1>4, RenamedEntry
    <2> QED
        BY <1>1, <2>1 DEF OnlyAt, LiveIn
<1> QED
    BY <1>1, <1>2, <1>3, <1>4

\* What AddFile reports as added the reader lists; what the reader lists the
\* editor finds, but for entries of kind DEL; and no call touches another file,
\* but for an entry of kind DEL that AddFile takes for a free one.
THEOREM EditorAgreesWithReader == Spec => []ReaderAndEditorAgree
<1>1. WalkInv => ReaderAndEditorAgree
    BY AddedIsThere, ListedIsThere, OthersStay DEF ReaderAndEditorAgree
<1> QED
    BY <1>1, WalksAlways, PTL

-----------------------------------------------------------------------------
(* The reader's walk, which does not remember where it has been.           *)

EachOnce(s) == \A i, j \in 1..Len(s) : s[i] = s[j] => i = j

Entries == {listed[i] : i \in 1..Len(listed)}

\* Until the chain comes back to a sector the walk has read each sector once;
\* from there on it goes where it has been.
LoadInv ==
    /\ walk = "load" =>
          /\ Len(seen) =< Guard
          /\ listed \in Seq(Sectors)
          /\ Entries = {s \in Visited : IsListed(dir[s].type)}
          /\ at \notin Visited => EachOnce(seen)
          /\ EachOnce(seen) => EachOnce(listed)
    /\ walk = "done" => LoadIsRight

\* A sequence without repetitions has as many elements as places.
LEMMA CountOnce ==
    ASSUME NEW S, NEW s \in Seq(S), EachOnce(s)
    PROVE  LET T == {s[i] : i \in 1..Len(s)}
           IN  IsFiniteSet(T) /\ Cardinality(T) = Len(s)
<1> DEFINE T == {s[i] : i \in 1..Len(s)}
<1> DEFINE f == [i \in 1..Len(s) |-> s[i]]
<1>1. Len(s) \in Nat
    OBVIOUS
<1>2. f \in Bijection(1..Len(s), T)
    <2>1. f \in [1..Len(s) -> T] /\ \A i \in 1..Len(s) : f[i] = s[i]
        OBVIOUS
    <2>2. \A i, j \in 1..Len(s) : f[i] = f[j] => i = j
        BY <2>1 DEF EachOnce
    <2>3. \A t \in T : \E i \in 1..Len(s) : f[i] = t
        BY <2>1
    <2> HIDE DEF f, T
    <2> QED
        BY <2>1, <2>2, <2>3, Fun_IsBij
<1>3. ExistsBijection(1..Len(s), T)
    BY <1>2, Fun_ExistsBij
<1>4. IsFiniteSet(1..Len(s)) /\ Cardinality(1..Len(s)) = Len(s)
    BY <1>1, FS_Interval
<1> HIDE DEF T
<1>5. IsFiniteSet(T) /\ Cardinality(T) = Cardinality(1..Len(s))
    BY <1>3, <1>4, FS_Bijection
<1> QED
    BY <1>4, <1>5 DEF T

\* One element more.
LEMMA OnceMore ==
    ASSUME NEW S, NEW s \in Seq(S), NEW x \in S
    PROVE  EachOnce(Append(s, x)) <=>
              EachOnce(s) /\ x \notin {s[i] : i \in 1..Len(s)}
<1> DEFINE t == Append(s, x)
           n == Len(s)
<1>1. /\ n \in Nat /\ Len(t) = n + 1 /\ t[n + 1] = x
      /\ \A i \in 1..n : t[i] = s[i]
    OBVIOUS
<1>2. 1..Len(t) = 1..n \cup {n + 1} /\ n + 1 \notin 1..n
    BY <1>1
<1> HIDE DEF t
<1> QED
    BY <1>1, <1>2 DEF EachOnce, t

LEMMA AppendedSet ==
    ASSUME NEW S, NEW s \in Seq(S), NEW x \in S
    PROVE  /\ Append(s, x) \in Seq(S)
           /\ {Append(s, x)[i] : i \in 1..Len(Append(s, x))}
                 = {s[i] : i \in 1..Len(s)} \cup {x}
<1> DEFINE t == Append(s, x)
<1>1. /\ Len(s) \in Nat /\ Len(t) = Len(s) + 1 /\ t[Len(s) + 1] = x
      /\ \A i \in 1..Len(s) : t[i] = s[i]
    OBVIOUS
<1>2. 1..Len(t) = 1..Len(s) \cup {Len(s) + 1}
    BY <1>1
<1> HIDE DEF t
<1>3. {t[i] : i \in 1..Len(t)} = {t[i] : i \in 1..Len(s)} \cup {t[Len(s) + 1]}
    BY <1>2
<1>4. {t[i] : i \in 1..Len(s)} = {s[i] : i \in 1..Len(s)}
    BY <1>1
<1> QED
    BY <1>1, <1>3, <1>4 DEF t

LEMMA InitLoadInv == Init => LoadInv
<1> SUFFICES ASSUME Init PROVE LoadInv
    OBVIOUS
<1>1. Len(seen) = 0 /\ Len(listed) = 0 /\ Visited = {} /\ Entries = {}
    BY DEF Init, Visited, Entries
<1>2. EachOnce(seen) /\ EachOnce(listed)
    BY <1>1 DEF EachOnce
<1>3. walk # "done" /\ listed \in Seq(Sectors)
    BY FirstWalkType DEF Init
<1> QED
    BY <1>1, <1>2, <1>3, ChainAssumption DEF LoadInv

LEMMA LoadNextKeeps ==
    ASSUME WalkInv, LoadInv, LoadNext
    PROVE  LoadInv'
<1>1. /\ walk = "load" /\ walk' = "load" /\ at \in Sectors /\ dir' = dir
      /\ Len(seen) + 1 =< Guard
      /\ at' = Link(at) /\ seen' = NowRead(at)
      /\ listed' = IF IsListed(dir[at].type) THEN Append(listed, at) ELSE listed
    BY ChainAssumption DEF LoadNext, TooLong, WalkInv, Walked
<1>2. Walked /\ Walked' /\ Visited' = Visited \cup {at} /\ Len(seen') = Len(seen) + 1
    BY <1>1, WalkOn DEF WalkInv, WalkTypes, Directory
<1>3. seen \in Seq(Sectors) /\ listed \in Seq(Sectors)
    BY <1>1, <1>2 DEF LoadInv, Walked
<1>4. EachOnce(seen') <=> EachOnce(seen) /\ at \notin Visited
    BY <1>1, <1>3, OnceMore DEF NowRead, Visited
<1>5. at' \notin Visited' => EachOnce(seen')
    <2>1. SUFFICES ASSUME at' \notin Visited', at \in Visited PROVE FALSE
        BY <1>1, <1>4 DEF LoadInv
    <2>2. dir[at].next \in Visited \cup {at}
        BY <1>2, <2>1 DEF Walked
    <2> QED
        BY <1>1, <1>2, <2>1, <2>2 DEF Link
<1>6. CASE IsListed(dir[at].type)
    <2>1. listed' = Append(listed, at)
        BY <1>1, <1>6
    <2>2. listed' \in Seq(Sectors) /\ Entries' = Entries \cup {at}
        BY <1>1, <1>3, <2>1, AppendedSet DEF Entries
    <2>3. Entries' = {s \in Visited' : IsListed(dir'[s].type)}
        BY <1>1, <1>2, <1>6, <2>2 DEF LoadInv
    <2>4. EachOnce(seen') => EachOnce(listed')
        <3>1. EachOnce(listed') <=> EachOnce(listed) /\ at \notin Entries
            BY <1>1, <1>3, <2>1, OnceMore DEF Entries
        <3> QED
            BY <1>1, <1>4, <3>1 DEF LoadInv
    <2> QED
        BY <1>1, <1>2, <1>5, <2>2, <2>3, <2>4 DEF LoadInv
<1>7. CASE ~ IsListed(dir[at].type)
    <2>1. listed' = listed /\ Entries' = Entries
        BY <1>1, <1>7 DEF Entries
    <2>2. Entries' = {s \in Visited' : IsListed(dir'[s].type)}
        BY <1>1, <1>2, <1>7, <2>1 DEF LoadInv
    <2>3. EachOnce(seen') => EachOnce(listed')
        BY <1>1, <1>4, <2>1 DEF LoadInv
    <2> QED
        BY <1>1, <1>2, <1>3, <1>5, <2>1, <2>2, <2>3 DEF LoadInv
<1> QED
    BY <1>6, <1>7

LEMMA LoadEndsKeeps ==
    ASSUME WalkInv, LoadInv, LoadEnds
    PROVE  LoadInv'
<1>1. /\ walk = "load" /\ at = End /\ walk' = "done" /\ outcome' = "ok"
      /\ UNCHANGED <<dir, before, call, at, seen, listed>>
    BY DEF LoadEnds, Return
<1>2. Visited \subseteq Sectors /\ Walked /\ seen \in Seq(Sectors)
    BY <1>1, ChainFollowsLinks DEF WalkInv, Walked
<1>3. Visited = Chain(dir) /\ Ends(dir) /\ at \notin Visited
    BY <1>1, <1>2, ChainAssumption, WalkedAll
<1>4. EachOnce(seen) /\ EachOnce(listed) /\ listed \in Seq(Sectors)
    BY <1>1, <1>3 DEF LoadInv
<1>5. Cardinality(Chain(dir)) = Len(seen)
    BY <1>2, <1>3, <1>4, CountOnce DEF Visited
<1>6. Entries = Listed(dir) /\ Len(listed) = Cardinality(Listed(dir))
    <2>1. Entries = Listed(dir)
        BY <1>1, <1>3 DEF LoadInv, Listed
    <2> QED
        BY <1>4, <2>1, CountOnce DEF Entries
<1>7. {listed[i] : i \in DOMAIN listed} = Listed(dir)
    BY <1>4, <1>6 DEF Entries
<1>8. LoadIsRight'
    <2>1. Cardinality(Chain(dir)) =< Guard
        BY <1>1, <1>5 DEF LoadInv
    <2>2. Ends(dir') /\ Cardinality(Chain(dir')) =< Guard
        BY <1>1, <1>3, <2>1
    <2>3. /\ {listed'[i] : i \in DOMAIN listed'} = Listed(dir')
          /\ Len(listed') = Cardinality(Listed(dir'))
        BY <1>1, <1>6, <1>7
    <2> QED
        BY <1>1, <2>2, <2>3 DEF LoadIsRight
<1> QED
    BY <1>1, <1>8 DEF LoadInv

LEMMA LoadFailsKeeps ==
    ASSUME WalkInv, LoadInv, LoadFails
    PROVE  LoadInv'
<1>1. /\ walk = "load" /\ walk' = "done" /\ outcome' = "failed"
      /\ at = Bad \/ (at \in Sectors /\ Len(seen) + 1 > Guard)
      /\ UNCHANGED <<dir, before, call, at, seen, listed>>
    BY DEF LoadFails, Return, TooLong
<1>2. Visited \subseteq Sectors /\ Walked /\ seen \in Seq(Sectors)
    BY <1>1, ChainFollowsLinks DEF WalkInv, Walked
<1>3. ASSUME Ends(dir) PROVE Cardinality(Chain(dir)) > Guard
    <2>1. at \in Sectors /\ at \notin Visited /\ Len(seen) + 1 > Guard
        BY <1>1, <1>2, <1>3, ChainAssumption, WalkedAll
    <2>2. IsFiniteSet(Visited) /\ Cardinality(Visited) = Len(seen)
        BY <1>1, <1>2, <2>1, CountOnce DEF LoadInv, Visited
    <2>3. IsFiniteSet(Visited \cup {at}) /\ Cardinality(Visited \cup {at}) = Len(seen) + 1
        BY <2>1, <2>2, FS_AddElement
    <2>4. Visited \cup {at} \subseteq Chain(dir)
        BY <1>2, <2>1 DEF Walked
    <2>5. IsFiniteSet(Chain(dir))
        BY ChainFollowsLinks, ChainAssumption, FS_Subset
    <2>6. Cardinality(Visited \cup {at}) =< Cardinality(Chain(dir)) /\ Cardinality(Chain(dir)) \in Nat
        BY <2>4, <2>5, FS_Subset, FS_CardinalityType
    <2> QED
        BY <1>2, <2>1, <2>3, <2>6, ChainAssumption
<1>4. ~ (Ends(dir) /\ Cardinality(Chain(dir)) =< Guard)
    <2>1. Cardinality(Chain(dir)) \in Nat
        BY ChainFollowsLinks, ChainAssumption, FS_Subset, FS_CardinalityType
    <2> QED
        BY <1>3, <2>1, ChainAssumption
<1>5. LoadIsRight'
    BY <1>1, <1>4 DEF LoadIsRight, Ends, Chain
<1> QED
    BY <1>1, <1>5 DEF LoadInv

\* The editor's steps return from no load.
LEMMA EditorKeepsLoad ==
    ASSUME WalkInv, LoadInv, Next, walk # "load"
    PROVE  LoadInv'
<1>1. walk \in {"findNew", "find", "free", "scan"} /\ call' = call /\ walk' # "load"
    BY DEF Next, FindNext, NameTaken, NameIsNew, EntryFound, FreeNext, FreeFound,
           NothingFound, ScanNext, ScanEnds, WalkFails, LoadNext, LoadEnds, LoadFails,
           Reads, ReadOn, Fails, Return, Goto
<1>2. call.kind # "load"
    BY <1>1 DEF WalkInv, WalkTypes
<1> QED
    BY <1>1, <1>2 DEF LoadInv, LoadIsRight, Finished

LEMMA StepLoadInv == WalkInv /\ LoadInv /\ [Next]_vars => LoadInv'
<1> SUFFICES ASSUME WalkInv, LoadInv, [Next]_vars PROVE LoadInv'
    OBVIOUS
<1>1. CASE UNCHANGED vars
    BY <1>1 DEF vars, LoadInv, Visited, Entries, EachOnce, LoadIsRight, Finished, Ends,
                Chain, Listed
<1>2. CASE Next /\ walk = "load"
    <2>1. LoadNext \/ LoadEnds \/ LoadFails
        BY <1>2 DEF Next, FindNext, NameTaken, NameIsNew, EntryFound, FreeNext, FreeFound,
                    NothingFound, ScanNext, ScanEnds, WalkFails, Reads
    <2> QED
        BY <2>1, LoadNextKeeps, LoadEndsKeeps, LoadFailsKeeps
<1> QED
    BY <1>1, <1>2, EditorKeepsLoad

\* Load takes the directories whose chain ends within its limit and refuses
\* all others, those with a loop too, though it counts the sectors it reads
\* and does not remember them; and it lists each file once.
THEOREM LoadStaysRight == Spec => []LoadIsRight
<1>1. WalkInv /\ LoadInv => LoadIsRight
    BY DEF LoadInv, LoadIsRight, Finished
<1> QED
    BY <1>1, WalksAlways, InitLoadInv, StepLoadInv, PTL DEF Spec
=============================================================================
