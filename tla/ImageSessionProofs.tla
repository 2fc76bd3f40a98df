------------------------- MODULE ImageSessionProofs -------------------------
(***************************************************************************)
(* What the two caches and the session do, for every image and every       *)
(* capacity of the caches.  The mounted volume, the kernel file system and *)
(* extract use one session each and rest on these lemmas.                  *)
(***************************************************************************)
EXTENDS ImageSession, FiniteSetTheorems, WellFoundedInduction, TLAPS

-----------------------------------------------------------------------------
(* The list of a cache.                                                    *)

\* Where a key is, and what stands there.
LEMMA CachedIsThere ==
    ASSUME NEW E, NEW lru \in Seq(E), NEW key \in Keys(lru)
    PROVE  /\ Position(lru, key) \in 1..Len(lru)
           /\ Cached(lru, key) = lru[Position(lru, key)]
           /\ Cached(lru, key) \in E
           /\ Cached(lru, key).key = key
<1>1. \E i \in DOMAIN lru : lru[i].key = key
    BY DEF Keys
<1>2. Position(lru, key) \in DOMAIN lru /\ lru[Position(lru, key)].key = key
    BY <1>1 DEF Position
<1> QED
    BY <1>2 DEF Cached

\* Erasing the entry of a key leaves a list without it.
LEMMA WithoutKey ==
    ASSUME NEW E, NEW lru \in Seq(E), NEW key, Distinct(lru)
    PROVE  /\ Without(lru, key) \in Seq(E)
           /\ Distinct(Without(lru, key))
           /\ \A i \in DOMAIN Without(lru, key) : Without(lru, key)[i].key # key
           /\ Len(Without(lru, key)) = Len(lru) - (IF key \in Keys(lru) THEN 1 ELSE 0)
<1>1. CASE key \notin Keys(lru)
    BY <1>1 DEF Without, Keys
<1>2. CASE key \in Keys(lru)
    <2> DEFINE p == Position(lru, key)
               rest == Without(lru, key)
    <2>1. p \in 1..Len(lru) /\ lru[p].key = key
        BY <1>2, CachedIsThere
    <2>2. rest = SubSeq(lru, 1, p - 1) \o SubSeq(lru, p + 1, Len(lru))
        BY <1>2 DEF Without
    <2> HIDE DEF p, rest
    <2>3. /\ rest \in Seq(E) /\ Len(rest) = Len(lru) - 1
          /\ \A i \in 1..(Len(lru) - 1) :
                rest[i] = IF i < p THEN lru[i] ELSE lru[i + 1]
        <3> DEFINE left == SubSeq(lru, 1, p - 1)
                   right == SubSeq(lru, p + 1, Len(lru))
        <3>1. /\ left \in Seq(E) /\ Len(left) = p - 1
              /\ \A i \in 1..(p - 1) : left[i] = lru[i]
            BY <2>1
        <3>2. /\ right \in Seq(E) /\ Len(right) = Len(lru) - p
              /\ \A i \in 1..(Len(lru) - p) : right[i] = lru[p + i]
            BY <2>1
        <3>3. rest = left \o right
            BY <2>2
        <3> HIDE DEF left, right
        <3>4. rest \in Seq(E) /\ Len(rest) = Len(lru) - 1
            <4>1. left \in Seq(E) /\ right \in Seq(E)
                BY <3>1, <3>2
            <4>2. rest \in Seq(E)
                BY <3>3, <4>1
            <4>3. Len(rest) = Len(left) + Len(right)
                BY <3>3, <4>1
            <4>4. Len(lru) \in Nat
                OBVIOUS
            <4> QED
                BY <2>1, <3>1, <3>2, <4>2, <4>3, <4>4
        <3>5. ASSUME NEW i \in 1..(Len(lru) - 1)
              PROVE  rest[i] = IF i < p THEN lru[i] ELSE lru[i + 1]
            <4>1. CASE i < p
                BY <2>1, <3>1, <3>2, <3>3, <4>1
            <4>2. CASE ~ (i < p)
                <5>1. rest[i] = right[i - (p - 1)]
                    BY <2>1, <3>1, <3>2, <3>3, <4>2
                <5> QED
                    BY <2>1, <3>2, <4>2, <5>1
            <4> QED
                BY <4>1, <4>2
        <3> QED
            BY <3>4, <3>5
    <2>4. \A i, j \in 1..Len(lru) : lru[i].key = lru[j].key => i = j
        BY DEF Distinct
    <2>5. \A i \in DOMAIN rest : rest[i].key # key
        BY <2>1, <2>3, <2>4
    <2>6. Distinct(rest)
        <3> SUFFICES ASSUME NEW i \in DOMAIN rest, NEW j \in DOMAIN rest,
                            rest[i].key = rest[j].key
                     PROVE  i = j
            BY DEF Distinct
        <3>1. i \in 1..(Len(lru) - 1) /\ j \in 1..(Len(lru) - 1)
            BY <2>3
        <3> DEFINE a == IF i < p THEN i ELSE i + 1
                   b == IF j < p THEN j ELSE j + 1
        <3>2. rest[i] = lru[a] /\ rest[j] = lru[b] /\ a \in 1..Len(lru) /\ b \in 1..Len(lru)
            BY <2>1, <2>3, <3>1
        <3>3. a = b
            BY <2>4, <3>2
        <3> QED
            BY <2>1, <3>1, <3>3
    <2> QED
        BY <1>2, <2>3, <2>5, <2>6 DEF rest
<1> QED
    BY <1>1, <1>2

\* A list with a new entry in front of those of other keys.
LEMMA InFront ==
    ASSUME NEW E, NEW rest \in Seq(E), NEW e \in E, Distinct(rest),
           \A i \in DOMAIN rest : rest[i].key # e.key
    PROVE  /\ <<e>> \o rest \in Seq(E)
           /\ Distinct(<<e>> \o rest)
           /\ Len(<<e>> \o rest) = Len(rest) + 1
<1> DEFINE lru == <<e>> \o rest
<1>1. /\ lru \in Seq(E) /\ Len(lru) = Len(rest) + 1 /\ lru[1] = e
      /\ \A i \in 2..Len(lru) : lru[i] = rest[i - 1] /\ i - 1 \in DOMAIN rest
    OBVIOUS
<1> HIDE DEF lru
<1>2. ASSUME NEW i \in DOMAIN lru, NEW j \in DOMAIN lru, lru[i].key = lru[j].key
      PROVE  i = j
    <2>1. i \in 1..Len(lru) /\ j \in 1..Len(lru)
        BY <1>1
    <2>2. CASE i = 1 /\ j = 1
        BY <2>2
    <2>3. CASE i = 1 /\ j # 1
        BY <1>1, <1>2, <2>1, <2>3
    <2>4. CASE i # 1 /\ j = 1
        BY <1>1, <1>2, <2>1, <2>4
    <2>5. CASE i # 1 /\ j # 1
        BY <1>1, <1>2, <2>1, <2>5 DEF Distinct
    <2> QED
        BY <2>2, <2>3, <2>4, <2>5
<1> QED
    BY <1>1, <1>2 DEF Distinct, lru

\* The first entries of a list.
LEMMA TruncateKeeps ==
    ASSUME NEW E, NEW lru \in Seq(E), NEW n \in Nat
    PROVE  /\ Truncate(lru, n) \in Seq(E)
           /\ Len(Truncate(lru, n)) =< n /\ Len(Truncate(lru, n)) =< Len(lru)
           /\ Distinct(lru) => Distinct(Truncate(lru, n))
  BY DEF Truncate, Distinct

\* A hit moves an entry to the front.
LEMMA TouchKeeps ==
    ASSUME NEW E, NEW lru \in Seq(E), Distinct(lru), NEW key \in Keys(lru)
    PROVE  /\ Touch(lru, key) \in Seq(E)
           /\ Distinct(Touch(lru, key))
           /\ Len(Touch(lru, key)) = Len(lru)
<1>1. Cached(lru, key) \in E /\ Cached(lru, key).key = key
    BY CachedIsThere
<1>2. /\ Without(lru, key) \in Seq(E) /\ Distinct(Without(lru, key))
      /\ \A i \in DOMAIN Without(lru, key) : Without(lru, key)[i].key # key
      /\ Len(Without(lru, key)) = Len(lru) - 1
    BY WithoutKey
<1> QED
    BY <1>1, <1>2, InFront DEF Touch

\* Put never lets a cache grow over its capacity, nor hold a key twice.
LEMMA PutKeeps ==
    ASSUME NEW E, NEW lru \in Seq(E), Distinct(lru), NEW n \in Nat,
           NEW key, NEW data, [key |-> key, data |-> data] \in E
    PROVE  /\ Put(lru, key, data, n) \in Seq(E)
           /\ Distinct(Put(lru, key, data, n))
           /\ Len(Put(lru, key, data, n)) =< n
<1> DEFINE e == [key |-> key, data |-> data]
           all == <<e>> \o Without(lru, key)
<1>1. /\ Without(lru, key) \in Seq(E) /\ Distinct(Without(lru, key))
      /\ \A i \in DOMAIN Without(lru, key) : Without(lru, key)[i].key # e.key
    BY WithoutKey
<1>2. all \in Seq(E) /\ Distinct(all)
    BY <1>1, InFront
<1>3. Put(lru, key, data, n) = Truncate(all, n)
    BY DEF Put
<1> HIDE DEF all
<1> QED
    BY <1>2, <1>3, TruncateKeeps

\* Shrinking a cache drops its oldest entries.
LEMMA SetCapacityKeeps ==
    ASSUME NEW E, NEW lru \in Seq(E), Distinct(lru), NEW n \in Nat
    PROVE  /\ Capacity(n) \in Nat
           /\ SetCapacity(lru, n) \in Seq(E)
           /\ Distinct(SetCapacity(lru, n))
           /\ Len(SetCapacity(lru, n)) =< Capacity(n)
<1>1. Capacity(n) \in Nat
    BY DEF Capacity
<1> QED
    BY <1>1, TruncateKeeps DEF SetCapacity

-----------------------------------------------------------------------------
(* The loop of ReadFile.                                                   *)

LEMMA LeastExists ==
    ASSUME NEW S \in SUBSET Nat, S # {}
    PROVE  \E x \in S : \A y \in S : x =< y
<1>1. PICK x \in S : \A y \in S : <<y, x>> \notin OpToRel(<, Nat)
    BY NatLessThanWellFounded, WFMin
<1>2. ASSUME NEW y \in S PROVE x =< y
    <2>1. x \in Nat /\ y \in Nat
        OBVIOUS
    <2>2. ~ (y < x)
        BY <1>1, <2>1 DEF OpToRel
    <2> QED
        BY <2>1, <2>2
<1> QED
    BY <1>2

\* A set of numbers that has 0 and is closed under successor up to a bound
\* has every number up to the bound.
LEMMA UpTo ==
    ASSUME NEW M \in Nat, NEW S, 0 \in S,
           \A k \in 0..M : k \in S /\ k < M => k + 1 \in S
    PROVE  \A k \in 0..M : k \in S
<1> DEFINE missing == {k \in 0..M : k \notin S}
<1>1. SUFFICES ASSUME missing # {} PROVE FALSE
    OBVIOUS
<1>2. missing \in SUBSET Nat
    OBVIOUS
<1>3. PICK k \in missing : \A j \in missing : k =< j
    BY <1>1, <1>2, LeastExists
<1>4. k \in 0..M /\ k # 0
    OBVIOUS
<1>5. k - 1 \in 0..M /\ k - 1 \notin missing
    BY <1>3, <1>4
<1>6. k - 1 \in S /\ k - 1 < M
    BY <1>4, <1>5
<1> QED
    BY <1>4, <1>5, <1>6

BeforeLoop(s, start) ==
    [ses |-> s, at |-> start, visited |-> {}, data |-> <<>>]

\* The turns of the loop exist, each made from the one before.
LEMMA TurnsExist ==
    ASSUME NEW w0, NEW img, NEW M \in Nat
    PROVE  \E f : f = [k \in 0..M |-> IF k = 0 THEN w0 ELSE ReadOn(f[k - 1], img)]
<1> DEFINE IsWalk(n, f) ==
               f = [k \in 0..n |-> IF k = 0 THEN w0 ELSE ReadOn(f[k - 1], img)]
           S == {n \in 0..M : \E f : IsWalk(n, f)}
<1>1. 0 \in S
    <2>1. IsWalk(0, [k \in 0..0 |-> w0])
        OBVIOUS
    <2> HIDE DEF IsWalk
    <2> QED
        BY <2>1
<1>2. ASSUME NEW n \in 0..M, n \in S, n < M
      PROVE  n + 1 \in S
    <2>1. PICK f : IsWalk(n, f)
        BY <1>2
    <2> DEFINE g == [k \in 0..(n + 1) |->
                        IF k = n + 1 THEN ReadOn(f[n], img) ELSE f[k]]
    <2>2. ASSUME NEW k \in 0..(n + 1)
          PROVE  g[k] = IF k = 0 THEN w0 ELSE ReadOn(g[k - 1], img)
        <3>1. CASE k = n + 1
            BY <3>1
        <3>2. CASE k # n + 1
            BY <2>1, <3>2
        <3> QED
            BY <3>1, <3>2
    <2>3. IsWalk(n + 1, g)
        BY <2>2
    <2> HIDE DEF IsWalk, g
    <2> QED
        BY <1>2, <2>3
<1> HIDE DEF S
<1>3. M \in S
    BY <1>1, <1>2, UpTo
<1> QED
    BY <1>3 DEF S

Turns == Cardinality(DataBlocks) + 1

LEMMA TurnsAreCounted ==
    Turns \in Nat \ {0} /\ IsFiniteSet(DataBlocks)
  BY SessionAssumption, FS_CardinalityType DEF Turns

LEMMA ReadChainUnfolds ==
    ASSUME NEW s, NEW img, NEW start
    PROVE  \E walk :
              /\ walk[0] = BeforeLoop(s, start)
              /\ \A k \in 1..Turns : walk[k] = ReadOn(walk[k - 1], img)
              /\ ReadChain(s, img, start) =
                    [ses  |-> [s EXCEPT !.sectors = walk[Turns].ses.sectors],
                     at   |-> walk[Turns].at,
                     data |-> walk[Turns].data]
<1> DEFINE IsWalk(f) ==
               f = [k \in 0..Turns |->
                       IF k = 0 THEN BeforeLoop(s, start) ELSE ReadOn(f[k - 1], img)]
           walk == CHOOSE f : IsWalk(f)
<1>1. IsWalk(walk)
    BY TurnsExist, TurnsAreCounted
<1>2. ReadChain(s, img, start) =
          [ses  |-> [s EXCEPT !.sectors = walk[Turns].ses.sectors],
           at   |-> walk[Turns].at,
           data |-> walk[Turns].data]
    BY DEF ReadChain, Turns, BeforeLoop
<1> HIDE DEF walk
<1>3. /\ walk[0] = BeforeLoop(s, start)
      /\ \A k \in 1..Turns : walk[k] = ReadOn(walk[k - 1], img)
    BY <1>1, TurnsAreCounted
<1> QED
    BY <1>2, <1>3

-----------------------------------------------------------------------------
(* A session that has read from the images I, and no others.               *)

Readable(img) == {b \in DataBlocks : img[b] # Unreadable}
Bodies(img) == {img[b].body : b \in Readable(img)}
AllBodies(I) == UNION {Bodies(img) : img \in I}

\* A cached sector is one of theirs.
SectorEntry(I) ==
    {e \in {[key |-> b, data |-> img[b]] : b \in Blocks, img \in I} :
        e.data # Unreadable}

\* What a client may find in the file cache is its own matter: F.
Session(s, I, F) ==
    [open : {s.open}, free : {s.free}, catalog : Seq(CatalogFile),
     sectors : Seq(SectorEntry(I)), files : Seq(F),
     sectorCap : Nat, fileCap : Nat, maxItem : Nat]

Well(s, I, F) == s \in Session(s, I, F) /\ CachesWellFormed(s)

\* A session that differs from another one in its sector cache alone.
SectorsOnly(t, s) == t = [s EXCEPT !.sectors = t.sectors]

\* More images, more that the caches may hold.
LEMMA MoreImages ==
    ASSUME NEW I, NEW J, I \subseteq J, NEW F, NEW G, F \subseteq G,
           NEW s, Well(s, I, F)
    PROVE  Well(s, J, G)
<1>1. SectorEntry(I) \subseteq SectorEntry(J)
    BY DEF SectorEntry
<1>2. s.sectors \in Seq(SectorEntry(J)) /\ s.files \in Seq(G) /\ s \in Session(s, I, F)
    BY <1>1 DEF Well, Session
<1> QED
    BY <1>2 DEF Well, Session

\* A new sector cache, in order, in a session.
LEMMA NewSectors ==
    ASSUME NEW I, NEW F, NEW s, Well(s, I, F), NEW lru \in Seq(SectorEntry(I)),
           Distinct(lru), Len(lru) =< s.sectorCap
    PROVE  LET t == [s EXCEPT !.sectors = lru]
           IN  Well(t, I, F) /\ SectorsOnly(t, s) /\ t.sectors = lru
  BY DEF Well, Session, CachesWellFormed, SectorsOnly

\* ReadSector answers from an image the session has seen; if there is only
\* one, with its sector.
LEMMA ReadSectorIsRight ==
    ASSUME NEW I, \A g \in I : IsImage(g), NEW F, NEW s, Well(s, I, F), NEW img \in I,
           NEW b \in Blocks
    PROVE  LET r == ReadSector(s, img, b)
           IN  /\ r = [ses |-> r.ses, data |-> r.data]
               /\ Well(r.ses, I, F) /\ SectorsOnly(r.ses, s)
               /\ r.data = Unreadable \/ \E g \in I : r.data = g[b]
               /\ I = {img} => r.data = img[b]
<1>1. /\ s.sectors \in Seq(SectorEntry(I)) /\ Distinct(s.sectors)
      /\ Len(s.sectors) =< s.sectorCap /\ s.sectorCap \in Nat
      /\ s = [s EXCEPT !.sectors = s.sectors]
    BY DEF Well, Session, CachesWellFormed
<1>2. CASE b \in Keys(s.sectors)
    <2> DEFINE e == Cached(s.sectors, b)
               t == [s EXCEPT !.sectors = Touch(s.sectors, b)]
    <2>1. e \in SectorEntry(I) /\ e.key = b
        BY <1>1, <1>2, CachedIsThere
    <2>2. \E g \in I : e.data = g[b]
        <3> HIDE DEF e
        <3>1. PICK c \in Blocks, g \in I : e = [key |-> c, data |-> g[c]]
            BY <2>1 DEF SectorEntry
        <3>2. c = b /\ e.data = g[c]
            BY <2>1, <3>1
        <3> QED
            BY <3>2
    <2>3. Well(t, I, F) /\ SectorsOnly(t, s)
        BY <1>1, <1>2, TouchKeeps, NewSectors
    <2>4. ReadSector(s, img, b) = [ses |-> t, data |-> e.data]
        BY <1>2 DEF ReadSector
    <2> HIDE DEF e, t
    <2> QED
        BY <2>2, <2>3, <2>4
<1>3. CASE b \notin Keys(s.sectors) /\ img[b] = Unreadable
    BY <1>1, <1>3 DEF ReadSector, SectorsOnly
<1>4. CASE b \notin Keys(s.sectors) /\ img[b] # Unreadable
    <2> DEFINE lru == Put(s.sectors, b, img[b], s.sectorCap)
               t == [s EXCEPT !.sectors = lru]
    <2>1. [key |-> b, data |-> img[b]] \in SectorEntry(I)
        BY <1>4 DEF SectorEntry
    <2>2. lru \in Seq(SectorEntry(I)) /\ Distinct(lru) /\ Len(lru) =< s.sectorCap
        BY <1>1, <2>1, PutKeeps
    <2>3. Well(t, I, F) /\ SectorsOnly(t, s)
        BY <2>2, NewSectors
    <2>4. ReadSector(s, img, b) = [ses |-> t, data |-> img[b]]
        BY <1>4 DEF ReadSector
    <2> HIDE DEF lru, t
    <2> QED
        BY <2>3, <2>4
<1> QED
    BY <1>2, <1>3, <1>4

-----------------------------------------------------------------------------
(* Reading a file.                                                         *)

\* A path of the reference definition, as a sequence.
LEMMA ChainsAreSequences ==
    ASSUME NEW img, NEW start, NEW q \in ChainsFrom(img, start)
    PROVE  /\ q \in Seq(DataBlocks) /\ Len(q) \in 1..Cardinality(DataBlocks)
           /\ q[1] = start
           /\ \A i, j \in 1..Len(q) : q[i] = q[j] => i = j
           /\ \A i \in 1..Len(q) : img[q[i]] # Unreadable
           /\ \A i \in 1..Len(q) :
                 img[q[i]].next = IF i = Len(q) THEN End ELSE q[i + 1]
<1>1. PICK k \in 1..Cardinality(DataBlocks) : q \in [1..k -> DataBlocks]
    BY DEF ChainsFrom
<1>2. k \in Nat
    BY <1>1, TurnsAreCounted, FS_CardinalityType
<1>3. q \in Seq(DataBlocks) /\ Len(q) = k /\ DOMAIN q = 1..k
    BY <1>1, <1>2
<1> HIDE DEF ChainsFrom
<1> QED
    BY <1>1, <1>3 DEF ChainsFrom

\* After a turn: a path p of what has been read, and how every path of the
\* reference definition continues it.
Along(p, q, at) ==
    /\ Len(p) =< Len(q)
    /\ \A i \in 1..Len(p) : q[i] = p[i]
    /\ at = End => Len(q) = Len(p)
    /\ at # End => Len(p) < Len(q) /\ q[Len(p) + 1] = at

Path(p, w, img, start) ==
    /\ p \in Seq(Readable(img))
    /\ \A i, j \in 1..Len(p) : p[i] = p[j] => i = j
    /\ w.visited = {p[i] : i \in 1..Len(p)}
    /\ w.data = [i \in 1..Len(p) |-> img[p[i]].body]
    /\ w.at \in DataBlocks \cup {End}
    /\ w.at = IF Len(p) = 0 THEN start ELSE img[p[Len(p)]].next
    /\ Len(p) # 0 => p[1] = start
    /\ \A i \in 1..(Len(p) - 1) : img[p[i]].next = p[i + 1]
    /\ \A q \in ChainsFrom(img, start) : start # End => Along(p, q, w.at)

NoPathAt(w, img, start) ==
    w.at = Unreadable /\ start # End /\ ChainsFrom(img, start) = {}

Exact(w, img, start) ==
    NoPathAt(w, img, start) \/ \E p : Path(p, w, img, start)

\* What holds after k turns.
AfterTurn(k, w, s, I, F, img, start) ==
    /\ w = [ses |-> w.ses, at |-> w.at, visited |-> w.visited, data |-> w.data]
    /\ Well(w.ses, I, F) /\ SectorsOnly(w.ses, s)
    /\ w.at \in DataBlocks \cup {End, Unreadable}
    /\ w.visited \subseteq DataBlocks
    /\ w.data \in Seq(AllBodies(I))
    /\ w.at \in DataBlocks => Cardinality(w.visited) = k
    /\ I = {img} => Exact(w, img, start)

\* Nothing is read yet.
LEMMA BeforeTheLoop ==
    ASSUME NEW I, \A g \in I : IsImage(g), NEW F, NEW s, Well(s, I, F), NEW img \in I,
           NEW start \in DataBlocks \cup {End}
    PROVE  AfterTurn(0, BeforeLoop(s, start), s, I, F, img, start)
<1> DEFINE w == BeforeLoop(s, start)
<1>1. /\ w = [ses |-> w.ses, at |-> w.at, visited |-> w.visited, data |-> w.data]
      /\ w.ses = s /\ w.at = start /\ w.visited = {} /\ w.data = <<>>
    BY DEF BeforeLoop
<1> HIDE DEF w
<1>2. SectorsOnly(s, s)
    BY DEF SectorsOnly, Well, Session
<1>3. Path(<<>>, w, img, start)
    <2>1. \A q \in ChainsFrom(img, start) : start # End => Along(<<>>, q, w.at)
        BY <1>1, ChainsAreSequences DEF Along
    <2> QED
        BY <1>1, <2>1 DEF Path
<1>4. Cardinality(w.visited) = 0
    BY <1>1, FS_EmptySet
<1> QED
    BY <1>1, <1>2, <1>3, <1>4 DEF AfterTurn, Exact, w

\* The path is one sector longer.
LEMMA PathGrows ==
    ASSUME NEW img, IsImage(img), NEW start \in DataBlocks \cup {End},
           NEW w, NEW p, Path(p, w, img, start),
           w.at \in Readable(img), w.at \notin w.visited, img[w.at].next # Unreadable,
           NEW t, t.at = img[w.at].next, t.visited = w.visited \cup {w.at},
           t.data = Append(w.data, img[w.at].body)
    PROVE  Path(Append(p, w.at), t, img, start)
<1> DEFINE m == Len(p)
           n == Append(p, w.at)
<1>1. p \in Seq(Readable(img)) /\ m \in Nat
    BY DEF Path
<1>2. /\ n \in Seq(Readable(img)) /\ Len(n) = m + 1 /\ n[m + 1] = w.at
      /\ \A i \in 1..m : n[i] = p[i]
    BY <1>1
<1> HIDE DEF n
<1>3. \A i \in 1..m : p[i] # w.at
    BY DEF Path
<1>4. \A i, j \in 1..Len(n) : n[i] = n[j] => i = j
    <2> SUFFICES ASSUME NEW i \in 1..(m + 1), NEW j \in 1..(m + 1), n[i] = n[j]
                 PROVE  i = j
        BY <1>2
    <2>1. CASE i = m + 1 /\ j # m + 1
        BY <1>1, <1>2, <1>3, <2>1
    <2>2. CASE i # m + 1 /\ j = m + 1
        BY <1>1, <1>2, <1>3, <2>2
    <2>3. CASE i # m + 1 /\ j # m + 1
        BY <1>1, <1>2, <2>3 DEF Path
    <2> QED
        BY <2>1, <2>2, <2>3
<1>5. t.visited = {n[i] : i \in 1..Len(n)}
    <2>1. w.visited = {p[i] : i \in 1..m}
        BY DEF Path
    <2>2. {n[i] : i \in 1..(m + 1)} = {n[i] : i \in 1..m} \cup {n[m + 1]}
        <3>1. 1..(m + 1) = 1..m \cup {m + 1}
            BY <1>1
        <3> QED
            BY <3>1
    <2>3. {n[i] : i \in 1..m} = {p[i] : i \in 1..m}
        BY <1>2
    <2> QED
        BY <1>2, <2>1, <2>2, <2>3
<1>6. t.data = [i \in 1..Len(n) |-> img[n[i]].body]
    <2>1. w.data = [i \in 1..m |-> img[p[i]].body]
        BY DEF Path
    <2>2. \A i \in 1..m : img[p[i]].body \in Bodies(img)
        BY <1>1 DEF Bodies
    <2>3. w.data \in Seq(Bodies(img)) /\ Len(w.data) = m
        BY <1>1, <2>1, <2>2
    <2>4. t.data \in Seq(Bodies(img)) /\ Len(t.data) = m + 1
        BY <2>3 DEF Bodies
    <2>5. \A i \in 1..(m + 1) : t.data[i] = img[n[i]].body
        BY <1>1, <1>2, <2>1, <2>3
    <2> QED
        BY <1>2, <2>4, <2>5
<1>7. t.at \in DataBlocks \cup {End}
    BY DEF IsImage, Readable
<1>8. /\ t.at = IF Len(n) = 0 THEN start ELSE img[n[Len(n)]].next
      /\ n[1] = start
    BY <1>1, <1>2 DEF Path
<1>9. \A i \in 1..(Len(n) - 1) : img[n[i]].next = n[i + 1]
    <2> SUFFICES ASSUME NEW i \in 1..m PROVE img[n[i]].next = n[i + 1]
        BY <1>1, <1>2
    <2>1. CASE i = m
        BY <1>1, <1>2, <2>1 DEF Path
    <2>2. CASE i # m
        BY <1>1, <1>2, <2>2 DEF Path
    <2> QED
        BY <2>1, <2>2
<1>10. ASSUME NEW q \in ChainsFrom(img, start), start # End
       PROVE  Along(n, q, t.at)
    <2>1. Along(p, q, w.at)
        BY <1>10 DEF Path
    <2>2. w.at # End
        BY SessionAssumption DEF Readable
    <2>3. m < Len(q) /\ q[m + 1] = w.at /\ \A i \in 1..m : q[i] = p[i]
        BY <2>1, <2>2 DEF Along
    <2>4. /\ q \in Seq(DataBlocks) /\ Len(q) \in Nat
          /\ img[q[m + 1]].next = IF m + 1 = Len(q) THEN End ELSE q[m + 1 + 1]
        BY <1>1, <2>3, ChainsAreSequences
    <2>5. t.at = IF m + 1 = Len(q) THEN End ELSE q[m + 1 + 1]
        BY <2>3, <2>4
    <2>6. m + 1 # Len(q) => q[m + 1 + 1] # End
        BY <1>1, <2>3, <2>4, SessionAssumption
    <2> QED
        BY <1>1, <1>2, <2>3, <2>4, <2>5, <2>6 DEF Along
<1> QED
    BY <1>2, <1>4, <1>5, <1>6, <1>7, <1>8, <1>9, <1>10 DEF Path, n

\* No path of the reference definition passes a sector that is read twice,
\* cannot be read or has a bad link.
LEMMA PathEnds ==
    ASSUME NEW img, NEW start \in DataBlocks \cup {End},
           NEW w, NEW p, Path(p, w, img, start), w.at # End,
           \/ w.at \in w.visited
           \/ img[w.at] = Unreadable
           \/ img[w.at].next = Unreadable,
           NEW t, t.at = Unreadable
    PROVE  NoPathAt(t, img, start)
<1>1. start # End
    <2>1. CASE Len(p) = 0
        BY <2>1 DEF Path
    <2>2. CASE Len(p) # 0
        <3>1. p[1] = start /\ p \in Seq(Readable(img))
            BY <2>2 DEF Path
        <3>2. start \in Readable(img)
            BY <2>2, <3>1
        <3> QED
            BY <3>2, SessionAssumption DEF Readable
    <2> QED
        BY <2>1, <2>2
<1>2. ASSUME NEW q \in ChainsFrom(img, start)
      PROVE  FALSE
    <2>1. Along(p, q, w.at)
        BY <1>1, <1>2 DEF Path
    <2>2. /\ q \in Seq(DataBlocks) /\ p \in Seq(Readable(img))
          /\ \A i, j \in 1..Len(q) : q[i] = q[j] => i = j
          /\ \A i \in 1..Len(q) : img[q[i]] # Unreadable
        BY <1>2, ChainsAreSequences DEF Path
    <2>3. /\ Len(p) + 1 \in 1..Len(q) /\ q[Len(p) + 1] = w.at
          /\ \A i \in 1..Len(p) : q[i] = p[i]
        BY <2>1, <2>2 DEF Along
    <2>4. img[w.at] # Unreadable
        BY <2>2, <2>3
    <2>7. img[w.at].next # Unreadable
        <3>1. img[w.at].next = IF Len(p) + 1 = Len(q) THEN End ELSE q[Len(p) + 1 + 1]
            BY <1>2, <2>3, ChainsAreSequences
        <3>2. Len(p) + 1 # Len(q) => q[Len(p) + 1 + 1] \in DataBlocks
            BY <2>2, <2>3
        <3> QED
            BY <3>1, <3>2, SessionAssumption
    <2>5. PICK i \in 1..Len(p) : w.at = p[i]
        BY <2>4, <2>7 DEF Path
    <2>6. i \in 1..Len(q) /\ q[i] = q[Len(p) + 1] /\ i # Len(p) + 1
        BY <2>2, <2>3, <2>5
    <2> QED
        BY <2>2, <2>3, <2>6
<1> QED
    BY <1>1, <1>2 DEF NoPathAt

\* One turn of the loop.
LEMMA OneTurn ==
    ASSUME NEW I, \A g \in I : IsImage(g), NEW F, NEW s, NEW img \in I,
           NEW start \in DataBlocks \cup {End}, NEW k \in Nat,
           NEW w, AfterTurn(k, w, s, I, F, img, start)
    PROVE  AfterTurn(k + 1, ReadOn(w, img), s, I, F, img, start)
<1> DEFINE t == ReadOn(w, img)
           r == ReadSector(w.ses, img, w.at)
<1>1. /\ w = [ses |-> w.ses, at |-> w.at, visited |-> w.visited, data |-> w.data]
      /\ Well(w.ses, I, F) /\ SectorsOnly(w.ses, s)
      /\ w.at \in DataBlocks \cup {End, Unreadable}
      /\ w.visited \subseteq DataBlocks
      /\ w.data \in Seq(AllBodies(I))
      /\ w.at \in DataBlocks => Cardinality(w.visited) = k
      /\ I = {img} => Exact(w, img, start)
    BY DEF AfterTurn
<1>2. End \notin DataBlocks /\ Unreadable \notin DataBlocks /\ End # Unreadable
    BY SessionAssumption
<1>3. CASE w.at \in {End, Unreadable}
    <2>1. t = w
        BY <1>3 DEF ReadOn
    <2> HIDE DEF t
    <2> QED
        BY <1>1, <1>2, <1>3, <2>1 DEF AfterTurn, t
<1>4. CASE w.at \in DataBlocks
    <2>1. w.at \in Blocks
        BY <1>4 DEF Blocks
    <2>2. /\ r = [ses |-> r.ses, data |-> r.data]
          /\ Well(r.ses, I, F) /\ SectorsOnly(r.ses, w.ses)
          /\ r.data = Unreadable \/ \E g \in I : r.data = g[w.at]
          /\ I = {img} => r.data = img[w.at]
        BY <1>1, <2>1, ReadSectorIsRight
    <2>3. I = {img} => \E p : Path(p, w, img, start)
        BY <1>1, <1>2, <1>4 DEF Exact, NoPathAt
    <2>4. CASE w.at \in w.visited \/ r.data = Unreadable
        <3>1. t = [w EXCEPT !.at = Unreadable]
            BY <1>2, <1>4, <2>4 DEF ReadOn
        <3> HIDE DEF t, r
        <3>2. /\ t = [ses |-> w.ses, at |-> Unreadable,
                      visited |-> w.visited, data |-> w.data]
            BY <1>1, <3>1
        <3>3. I = {img} => NoPathAt(t, img, start)
            BY <1>2, <1>4, <2>2, <2>3, <2>4, <3>2, PathEnds
        <3> QED
            BY <1>1, <1>2, <3>2, <3>3 DEF AfterTurn, Exact, t
    <2>5. CASE ~ (w.at \in w.visited \/ r.data = Unreadable)
        <3>1. t = [ses     |-> r.ses,
                   at      |-> r.data.next,
                   visited |-> w.visited \cup {w.at},
                   data    |-> Append(w.data, r.data.body)]
            BY <1>2, <1>4, <2>5 DEF ReadOn
        <3> HIDE DEF t, r
        <3>2. PICK g \in I : r.data = g[w.at] /\ w.at \in Readable(g)
            BY <1>4, <2>2, <2>5 DEF Readable
        <3>3. r.data.next \in DataBlocks \cup {End, Unreadable}
            BY <3>2 DEF IsImage, Readable
        <3>4. r.data.body \in AllBodies(I)
            BY <3>2 DEF AllBodies, Bodies
        <3>5. SectorsOnly(r.ses, s)
            BY <1>1, <2>2 DEF SectorsOnly, Well, Session
        <3>6. Cardinality(w.visited \cup {w.at}) = k + 1
            <4>1. IsFiniteSet(w.visited)
                BY <1>1, TurnsAreCounted, FS_Subset
            <4> QED
                BY <1>1, <1>4, <2>5, <4>1, FS_AddElement
        <3>7. ASSUME I = {img} PROVE Exact(t, img, start)
            <4>1. PICK p : Path(p, w, img, start)
                BY <2>3, <3>7
            <4>2. r.data = img[w.at] /\ w.at \in Readable(img)
                BY <1>4, <2>2, <2>5, <3>7 DEF Readable
            <4>3. CASE img[w.at].next # Unreadable
                <5>1. Path(Append(p, w.at), t, img, start)
                    BY <2>5, <3>1, <4>1, <4>2, <4>3, PathGrows
                <5> QED
                    BY <5>1 DEF Exact
            <4>4. CASE img[w.at].next = Unreadable
                <5>1. t.at = Unreadable
                    BY <3>1, <4>2, <4>4
                <5>2. NoPathAt(t, img, start)
                    BY <1>2, <1>4, <4>1, <4>4, <5>1, PathEnds
                <5> QED
                    BY <5>2 DEF Exact
            <4> QED
                BY <4>3, <4>4
        <3>8. /\ t.ses = r.ses /\ t.at = r.data.next
              /\ t.visited = w.visited \cup {w.at}
              /\ t.data = Append(w.data, r.data.body)
              /\ t = [ses |-> t.ses, at |-> t.at, visited |-> t.visited, data |-> t.data]
            BY <3>1
        <3>9. t.data \in Seq(AllBodies(I))
            BY <1>1, <3>4, <3>8
        <3>10. I = {img} => Exact(t, img, start)
            BY <3>7
        <3> QED
            BY <1>1, <1>4, <2>2, <3>3, <3>5, <3>6, <3>8, <3>9, <3>10
               DEF AfterTurn, t
    <2> QED
        BY <2>4, <2>5
<1> QED
    BY <1>1, <1>3, <1>4

\* A path that has come to the end is all that the file holds.
LEMMA WholePath ==
    ASSUME NEW img, IsImage(img), NEW start \in DataBlocks \cup {End},
           NEW w, NEW p, Path(p, w, img, start), w.at = End, w.visited \subseteq DataBlocks
    PROVE  w.data = Contents(img, start) /\ w.data \in Seq(Bodies(img))
<1> DEFINE m == Len(p)
<1>1. p \in Seq(Readable(img)) /\ m \in Nat
    BY DEF Path
<1>2. w.data = [i \in 1..m |-> img[p[i]].body]
    BY DEF Path
<1>3. w.data \in Seq(Bodies(img))
    BY <1>1, <1>2 DEF Bodies
<1>4. CASE m = 0
    <2>1. start = End
        BY <1>4 DEF Path
    <2>2. w.data = <<>>
        BY <1>2, <1>3, <1>4
    <2> QED
        BY <1>3, <2>1, <2>2 DEF Contents
<1>5. CASE m # 0
    <2>1. 1 \in 1..m /\ p[1] = start /\ start \in DataBlocks /\ start # End
        BY <1>1, <1>5, SessionAssumption DEF Path, Readable
    <2>2. m =< Cardinality(DataBlocks) /\ Cardinality(DataBlocks) \in Nat
        <3>1. p \in Injection(1..m, DataBlocks)
            BY <1>1 DEF Path, Injection, IsInjective, Readable
        <3> QED
            BY <1>1, <3>1, FS_Injection, FS_Interval, TurnsAreCounted, FS_CardinalityType
    <2>3. p \in ChainsFrom(img, start)
        <3>1. p \in [1..m -> DataBlocks] /\ DOMAIN p = 1..m
            BY <1>1 DEF Readable
        <3>2. m \in 1..Cardinality(DataBlocks)
            BY <1>1, <1>5, <2>2
        <3>3. \A i \in 1..m : img[p[i]] # Unreadable
            BY <1>1 DEF Readable
        <3>4. \A i \in 1..m : img[p[i]].next = IF i = m THEN End ELSE p[i + 1]
            BY <1>1, <1>5 DEF Path
        <3>5. \A i, j \in 1..m : p[i] = p[j] => i = j
            BY DEF Path
        <3> QED
            BY <2>1, <3>1, <3>2, <3>3, <3>4, <3>5 DEF ChainsFrom
    <2> DEFINE q == CHOOSE c \in ChainsFrom(img, start) : TRUE
    <2>4. q \in ChainsFrom(img, start)
        BY <2>3
    <2>5. Contents(img, start) = [i \in DOMAIN q |-> img[q[i]].body]
        BY <2>1, <2>3 DEF Contents
    <2> HIDE DEF q
    <2>6. Along(p, q, End)
        BY <2>1, <2>4 DEF Path
    <2>7. q \in Seq(DataBlocks)
        BY <2>4, ChainsAreSequences
    <2>8. DOMAIN q = 1..m /\ \A i \in 1..m : q[i] = p[i]
        BY <2>6, <2>7 DEF Along
    <2> QED
        BY <1>2, <1>3, <2>5, <2>8
<1> QED
    BY <1>1, <1>4, <1>5

\* ReadFile reads what the reference definition says, whatever was cached.
LEMMA ReadChainIsRight ==
    ASSUME NEW I, \A g \in I : IsImage(g), NEW F, NEW s, Well(s, I, F), NEW img \in I,
           NEW start \in DataBlocks \cup {End}
    PROVE  LET r == ReadChain(s, img, start)
           IN  /\ Well(r.ses, I, F) /\ SectorsOnly(r.ses, s)
               /\ r.data \in Seq(AllBodies(I))
               /\ I = {img} /\ r.at = Unreadable => Contents(img, start) = Unreadable
               /\ I = {img} /\ r.at # Unreadable =>
                     r.data = Contents(img, start) /\ r.data # Unreadable
<1> DEFINE r == ReadChain(s, img, start)
<1>1. PICK walk :
          /\ walk[0] = BeforeLoop(s, start)
          /\ \A k \in 1..Turns : walk[k] = ReadOn(walk[k - 1], img)
          /\ r = [ses  |-> [s EXCEPT !.sectors = walk[Turns].ses.sectors],
                  at   |-> walk[Turns].at,
                  data |-> walk[Turns].data]
    BY ReadChainUnfolds
<1> DEFINE Good(k) == AfterTurn(k, walk[k], s, I, F, img, start)
           S == {k \in 0..Turns : Good(k)}
           w == walk[Turns]
<1>2. Turns \in Nat
    BY TurnsAreCounted
<1>3. 0 \in S
    BY <1>1, <1>2, BeforeTheLoop
<1>4. ASSUME NEW k \in 0..Turns, k \in S, k < Turns
      PROVE  k + 1 \in S
    <2>1. k \in Nat /\ k + 1 \in 1..Turns /\ k + 1 - 1 = k
        BY <1>2, <1>4
    <2>2. walk[k + 1] = ReadOn(walk[k], img)
        BY <1>1, <2>1
    <2>3. AfterTurn(k, walk[k], s, I, F, img, start)
        BY <1>4
    <2>4. Good(k + 1)
        BY <2>1, <2>2, <2>3, OneTurn
    <2> HIDE DEF Good
    <2> QED
        BY <2>1, <2>4
<1> HIDE DEF S
<1>5. Turns \in S
    BY <1>2, <1>3, <1>4, UpTo
<1>6. AfterTurn(Turns, w, s, I, F, img, start)
    BY <1>5 DEF S
<1> HIDE DEF Good, w, r
<1>7. /\ r.ses = [s EXCEPT !.sectors = w.ses.sectors]
      /\ r.at = w.at /\ r.data = w.data
    BY <1>1 DEF w
<1>8. r.ses = w.ses /\ Well(w.ses, I, F) /\ SectorsOnly(w.ses, s)
    BY <1>6, <1>7 DEF AfterTurn, SectorsOnly
<1>9. w.at \in {End, Unreadable}
    <2>1. SUFFICES ASSUME w.at \in DataBlocks PROVE FALSE
        BY <1>6 DEF AfterTurn
    <2>2. Cardinality(w.visited) = Cardinality(DataBlocks) + 1 /\ w.visited \subseteq DataBlocks
        BY <1>6, <2>1 DEF AfterTurn, Turns
    <2> QED
        BY <2>2, TurnsAreCounted, FS_Subset, FS_CardinalityType
<1>10. ASSUME I = {img}, w.at = Unreadable
       PROVE  Contents(img, start) = Unreadable
    <2>1. NoPathAt(w, img, start)
        BY <1>6, <1>10, SessionAssumption DEF AfterTurn, Exact, Path
    <2> QED
        BY <2>1 DEF NoPathAt, Contents
<1>11. ASSUME I = {img}, w.at # Unreadable
       PROVE  w.data = Contents(img, start) /\ w.data # Unreadable
    <2>1. PICK p : Path(p, w, img, start)
        BY <1>6, <1>11 DEF AfterTurn, Exact, NoPathAt
    <2>2. w.data = Contents(img, start) /\ w.data \in Seq(Bodies(img))
        BY <1>6, <1>9, <1>11, <2>1, WholePath DEF AfterTurn
    <2>3. Unreadable \notin Seq(Bodies(img))
        BY DEF IsImage, Bodies, Readable
    <2> QED
        BY <2>2, <2>3
<1> QED
    BY <1>6, <1>7, <1>8, <1>10, <1>11 DEF AfterTurn, r

-----------------------------------------------------------------------------
(* Names.                                                                  *)

\* A name means one file at most, and its other spellings the same one.
LEMMA NamesMeanOneFile ==
    ASSUME NEW catalog \in Seq(CatalogFile), NEW name \in Spellings,
           NEW f \in FindByWindowsName(catalog, name)
    PROVE  /\ f \in CatalogFile
           /\ FindByWindowsName(catalog, name) = {f}
           /\ FindByWindowsName(catalog, f.name) = {f}
<1> DEFINE Hits(n) == {i \in DOMAIN catalog : Upper[catalog[i].name] = Upper[n]}
           Last(n) == {j \in Hits(n) : \A k \in Hits(n) : k =< j}
<1>1. \A n : FindByWindowsName(catalog, n) = {catalog[i] : i \in Last(n)}
    BY DEF FindByWindowsName
<1>2. PICK i \in Last(name) : f = catalog[i]
    BY <1>1
<1>3. i \in DOMAIN catalog /\ Upper[f.name] = Upper[name]
    BY <1>2
<1>4. Hits(f.name) = Hits(name)
    BY <1>3
<1>5. \A j \in Last(name) : j = i
    BY <1>2
<1> HIDE DEF Last
<1>6. Last(name) = {i}
    BY <1>2, <1>5
<1>7. Last(f.name) = Last(name)
    BY <1>4 DEF Last
<1> QED
    BY <1>1, <1>2, <1>3, <1>6, <1>7

-----------------------------------------------------------------------------
(* The file cache.                                                         *)

\* What reads leave alone: the open image, its catalog and its free count.
SameVolume(t, s) == t.open = s.open /\ t.catalog = s.catalog /\ t.free = s.free

\* A new file cache, in order, in a session.
LEMMA NewFiles ==
    ASSUME NEW I, NEW F, NEW s, Well(s, I, F), NEW lru \in Seq(F),
           Distinct(lru), Len(lru) =< s.fileCap
    PROVE  LET t == [s EXCEPT !.files = lru]
           IN  Well(t, I, F) /\ SameVolume(t, s)
  BY DEF Well, Session, CachesWellFormed, SameVolume

\* A hit answers with what is cached under the name.
FromCache(r, F, name) ==
    r.status = "success" /\ \E e \in F : e.key = name /\ e.data = r.data

LEMMA HitIsRight ==
    ASSUME NEW I, NEW F, NEW s, Well(s, I, F), NEW name \in Keys(s.files)
    PROVE  LET r == CacheHit(s, name)
           IN  Well(r.ses, I, F) /\ SameVolume(r.ses, s) /\ FromCache(r, F, name)
<1>1. /\ s.files \in Seq(F) /\ Distinct(s.files)
      /\ Len(s.files) =< s.fileCap
    BY DEF Well, Session, CachesWellFormed
<1> DEFINE e == Cached(s.files, name)
           t == [s EXCEPT !.files = Touch(s.files, name)]
<1>2. e \in F /\ e.key = name
    BY <1>1, CachedIsThere
<1>3. Well(t, I, F) /\ SameVolume(t, s)
    BY <1>1, TouchKeeps, NewFiles
<1>4. CacheHit(s, name) = [ses |-> t, status |-> "success", data |-> e.data]
    BY DEF CacheHit
<1> HIDE DEF e, t
<1> QED
    BY <1>2, <1>3, <1>4 DEF FromCache

\* What is cached is whole, and only if it is not too long.
LEMMA CacheFileIsRight ==
    ASSUME NEW I, NEW F, NEW s, Well(s, I, F), NEW f, NEW data,
           [key |-> f.name, data |-> data] \in F
    PROVE  LET t == CacheFile(s, f, data)
           IN  Well(t, I, F) /\ SameVolume(t, s)
<1>1. /\ s.files \in Seq(F) /\ Distinct(s.files)
      /\ s.fileCap \in Nat
    BY DEF Well, Session, CachesWellFormed
<1> DEFINE lru == Put(s.files, f.name, data, s.fileCap)
<1>2. lru \in Seq(F) /\ Distinct(lru) /\ Len(lru) =< s.fileCap
    BY <1>1, PutKeeps
<1> HIDE DEF lru
<1>3. Well([s EXCEPT !.files = lru], I, F) /\ SameVolume([s EXCEPT !.files = lru], s)
    BY <1>2, NewFiles
<1> QED
    BY <1>3 DEF CacheFile, SameVolume, lru

\* What a chain may have been read as.
ReadAs(data, I, img, start) ==
    /\ data \in Seq(AllBodies(I))
    /\ I = {img} => data = Contents(img, start) /\ data # Unreadable

\* A client says what it finds in the file cache: all that it lets in.
Cacheable(f, I, F, img) ==
    \A data : ReadAs(data, I, img, f.start) => [key |-> f.name, data |-> data] \in F

\* A file comes from the cache, or its chain is read.
LEMMA ReadFileIsRight ==
    ASSUME NEW I, \A g \in I : IsImage(g), NEW F, NEW s, Well(s, I, F),
           NEW img \in I, NEW f \in CatalogFile, Cacheable(f, I, F, img)
    PROVE  LET r == ReadFileByCatalogFile(s, img, f)
           IN  /\ Well(r.ses, I, F) /\ SameVolume(r.ses, s)
               /\ \/ FromCache(r, F, f.name)
                  \/ r.status = "success" /\ ReadAs(r.data, I, img, f.start)
                  \/ /\ r.status = "ioError"
                     /\ I = {img} => Contents(img, f.start) = Unreadable
<1> DEFINE r == ReadFileByCatalogFile(s, img, f)
           read == ReadChain(s, img, f.start)
<1>1. f.start \in DataBlocks \cup {End}
    BY DEF CatalogFile
<1>2. CASE f.name \in Keys(s.files)
    <2>1. r = CacheHit(s, f.name)
        BY <1>2 DEF ReadFileByCatalogFile
    <2> HIDE DEF r
    <2>2. Well(r.ses, I, F) /\ SameVolume(r.ses, s) /\ FromCache(r, F, f.name)
        BY <1>2, <2>1, HitIsRight
    <2> QED
        BY <2>2 DEF r
<1>3. CASE f.name \notin Keys(s.files)
    <2>1. /\ Well(read.ses, I, F) /\ SectorsOnly(read.ses, s)
          /\ read.data \in Seq(AllBodies(I))
          /\ I = {img} /\ read.at = Unreadable => Contents(img, f.start) = Unreadable
          /\ I = {img} /\ read.at # Unreadable =>
                read.data = Contents(img, f.start) /\ read.data # Unreadable
        BY <1>1, ReadChainIsRight
    <2>2. r = IF read.at = Unreadable
              THEN [ses |-> read.ses, status |-> "ioError", data |-> <<>>]
              ELSE [ses    |-> CacheFile(read.ses, f, read.data),
                    status |-> "success",
                    data   |-> read.data]
        BY <1>3 DEF ReadFileByCatalogFile
    <2> HIDE DEF r, read
    <2>3. SameVolume(read.ses, s)
        BY <2>1 DEF SectorsOnly, SameVolume, Well, Session
    <2>4. CASE read.at = Unreadable
        <3>1. /\ Well(r.ses, I, F) /\ SameVolume(r.ses, s) /\ r.status = "ioError"
              /\ I = {img} => Contents(img, f.start) = Unreadable
            BY <2>1, <2>2, <2>3, <2>4
        <3> QED
            BY <3>1 DEF r
    <2>5. CASE read.at # Unreadable
        <3>1. ReadAs(read.data, I, img, f.start)
            BY <2>1, <2>5 DEF ReadAs
        <3>2. [key |-> f.name, data |-> read.data] \in F
            BY <3>1 DEF Cacheable
        <3>3. /\ Well(CacheFile(read.ses, f, read.data), I, F)
              /\ SameVolume(CacheFile(read.ses, f, read.data), read.ses)
            BY <2>1, <3>2, CacheFileIsRight
        <3>4. /\ Well(r.ses, I, F) /\ SameVolume(r.ses, s)
              /\ r.status = "success" /\ ReadAs(r.data, I, img, f.start)
            BY <2>2, <2>3, <2>5, <3>1, <3>3 DEF SameVolume
        <3> QED
            BY <3>4 DEF r
    <2> QED
        BY <2>4, <2>5
<1> QED
    BY <1>2, <1>3

-----------------------------------------------------------------------------
(* Opening an image, and configuring the caches.                           *)

\* The catalog is the directory of an image the session has seen.
CatalogSeen(s, I) == \E g \in I : s.catalog = g["dir"]

FreeSeen(s, I) == \E g \in I : s.free = g["bam"]

LEMMA NewSessionIsRight ==
    ASSUME NEW I, NEW F, NEW a \in Nat, NEW b \in Nat, NEW c \in Nat
    PROVE  LET s == NewSession(a, b, c)
           IN  Well(s, I, F) /\ s.open = NoPath
  BY DEF NewSession, Well, Session, CachesWellFormed, Distinct

\* An image that opens lists what the session has seen.
LEMMA OpenIsRight ==
    ASSUME NEW I, \A g \in I : IsImage(g), NEW F, NEW s, Well(s, I, F),
           NEW img \in I, img # Unusable, NEW p
    PROVE  LET r == Open(s, p, img)
           IN  /\ Well(r.ses, I, F) /\ r.ok \in BOOLEAN /\ r.ses.open = p
               /\ r.ok => CatalogSeen(r.ses, I) /\ FreeSeen(r.ses, I)
<1> DEFINE s1 == [s EXCEPT !.open = p]
           bam == ReadSector(s1, img, "bam")
           s2 == [bam.ses EXCEPT !.free = bam.data]
           dir == ReadSector(s2, img, "dir")
           r == Open(s, p, img)
<1>1. img # Unusable /\ "bam" \in Blocks /\ "dir" \in Blocks
    BY DEF Blocks
<1>2. Well(s1, I, F) /\ s1.open = p
    BY DEF Well, Session, CachesWellFormed
<1> HIDE DEF s1
<1>3. /\ Well(bam.ses, I, F) /\ SectorsOnly(bam.ses, s1)
      /\ bam.data = Unreadable \/ \E g \in I : bam.data = g["bam"]
    BY <1>1, <1>2, ReadSectorIsRight
<1> HIDE DEF bam
<1>4. bam.ses.open = p
    BY <1>2, <1>3 DEF SectorsOnly, Well, Session
<1>5. r = IF bam.data = Unreadable
          THEN [ses |-> bam.ses, ok |-> FALSE]
          ELSE IF dir.data = Unreadable
          THEN [ses |-> CatalogBuilt(dir.ses, <<>>), ok |-> FALSE]
          ELSE [ses |-> CatalogBuilt(dir.ses, dir.data), ok |-> TRUE]
    BY <1>1 DEF Open, bam, s1
<1>6. CASE bam.data = Unreadable
    <2>1. r = [ses |-> bam.ses, ok |-> FALSE]
        BY <1>5, <1>6
    <2> HIDE DEF r
    <2>2. Well(r.ses, I, F) /\ r.ok = FALSE /\ r.ses.open = p
        BY <1>3, <1>4, <2>1
    <2> QED
        BY <2>2 DEF r
<1>7. CASE bam.data # Unreadable
    <2>1. PICK g \in I : bam.data = g["bam"]
        BY <1>3, <1>7
    <2>2. Well(s2, I, F) /\ s2.open = p /\ s2.free = g["bam"]
        BY <1>3, <1>4, <2>1 DEF Well, Session, CachesWellFormed
    <2> HIDE DEF s2
    <2>3. /\ Well(dir.ses, I, F) /\ SectorsOnly(dir.ses, s2)
          /\ dir.data = Unreadable \/ \E h \in I : dir.data = h["dir"]
        BY <1>1, <2>2, ReadSectorIsRight
    <2> HIDE DEF dir
    <2>4. dir.ses.open = p /\ dir.ses.free = g["bam"]
        BY <2>2, <2>3 DEF SectorsOnly, Well, Session
    <2>5. ASSUME NEW catalog \in Seq(CatalogFile)
          PROVE  /\ Well(CatalogBuilt(dir.ses, catalog), I, F)
                 /\ CatalogBuilt(dir.ses, catalog).open = p
                 /\ CatalogBuilt(dir.ses, catalog).free = g["bam"]
                 /\ CatalogBuilt(dir.ses, catalog).catalog = catalog
        BY <2>3, <2>4 DEF CatalogBuilt, Well, Session, CachesWellFormed
    <2>6. CASE dir.data = Unreadable
        <3>1. r = [ses |-> CatalogBuilt(dir.ses, <<>>), ok |-> FALSE]
            BY <1>5, <1>7, <2>6
        <3> HIDE DEF r
        <3>2. <<>> \in Seq(CatalogFile)
            OBVIOUS
        <3>3. Well(r.ses, I, F) /\ r.ok = FALSE /\ r.ses.open = p
            BY <2>5, <3>1, <3>2
        <3> QED
            BY <3>3 DEF r
    <2>7. CASE dir.data # Unreadable
        <3>1. r = [ses |-> CatalogBuilt(dir.ses, dir.data), ok |-> TRUE]
            BY <1>5, <1>7, <2>7
        <3> HIDE DEF r
        <3>2. PICK h \in I : dir.data = h["dir"]
            BY <2>3, <2>7
        <3>3. dir.data \in Seq(CatalogFile)
            BY <2>7, <3>2 DEF IsImage
        <3>4. /\ Well(r.ses, I, F) /\ r.ok = TRUE /\ r.ses.open = p
              /\ r.ses.free = g["bam"] /\ r.ses.catalog = h["dir"]
            BY <2>5, <3>1, <3>2, <3>3
        <3>5. CatalogSeen(r.ses, I) /\ FreeSeen(r.ses, I)
            BY <3>2, <3>4 DEF CatalogSeen, FreeSeen
        <3> QED
            BY <3>4, <3>5 DEF r
    <2> QED
        BY <2>6, <2>7
<1> QED
    BY <1>6, <1>7

\* Smaller caches hold less of the same.
LEMMA ConfigureIsRight ==
    ASSUME NEW I, NEW F, NEW s, Well(s, I, F), NEW a \in Nat, NEW b \in Nat, NEW c \in Nat
    PROVE  LET t == ConfigureCaches(s, a, b, c)
           IN  Well(t, I, F) /\ SameVolume(t, s)
<1>1. /\ Capacity(a) \in Nat /\ SetCapacity(s.sectors, a) \in Seq(SectorEntry(I))
      /\ Distinct(SetCapacity(s.sectors, a))
      /\ Len(SetCapacity(s.sectors, a)) =< Capacity(a)
    BY SetCapacityKeeps DEF Well, Session, CachesWellFormed
<1>2. /\ Capacity(b) \in Nat /\ SetCapacity(s.files, b) \in Seq(F)
      /\ Distinct(SetCapacity(s.files, b))
      /\ Len(SetCapacity(s.files, b)) =< Capacity(b)
    BY SetCapacityKeeps DEF Well, Session, CachesWellFormed
<1> QED
    BY <1>1, <1>2 DEF ConfigureCaches, SameVolume, Well, Session, CachesWellFormed

=============================================================================
