--------------------------- MODULE DirectoryChain ---------------------------
(***************************************************************************)
(* The directory as a chain of sectors that may be damaged, and the walks  *)
(* along it: DirectoryReader::Load on the read side, which counts the      *)
(* sectors it has read, and the editor's FindEntryByName,                  *)
(* FindFreeDirectoryEntry and ScanUsedSectorsFromDirectory, which remember *)
(* them.  The operations are the sequences of walks that AddFile,          *)
(* DeleteFile and RenameFile make, one sector a step; what they do to file *)
(* sectors and BAM is D64ImageEditor's, and no read or write fails here.   *)
(* One entry stands for the seven of a sector.  Names differ in their base *)
(* alone: callers and entries have PRG names.                              *)
(***************************************************************************)
EXTENDS Integers, Sequences, FiniteSets

CONSTANTS
    Sectors,    \* sectors that directory links lead to
    First,      \* (18,1)
    End,        \* the link of the last sector: track 0
    Bad,        \* a link that is the address of no sector
    Guard,      \* sectors the reader follows: 64 in the code
    Bases,      \* base names
    Types       \* type bytes found in entries

ASSUME ChainAssumption ==
    /\ First \in Sectors /\ IsFiniteSet(Sectors) /\ Bases # {}
    /\ Guard \in Nat \ {0} /\ Types \subseteq 0..255
    /\ {End, Bad} \cap Sectors = {} /\ End # Bad

VARIABLES
    dir,      \* the directory sectors: each one's entry and link
    before,   \* history: the directory when the operation began
    call,     \* the operation
    walk,     \* the walk being made, or "done"
    at,       \* current_track, current_sector: where it is
    seen,     \* visited: the sectors it has read; the reader keeps a count
    listed,   \* the reader's entries_
    outcome   \* what the operation returned

vars == <<dir, before, call, walk, at, seen, listed, outcome>>

Links == Sectors \cup {End, Bad}
Directories == [Sectors -> [type : Types, base : Bases, next : Links]]

Calls ==
    [kind : {"load"}] \cup [kind : {"add", "delete"}, base : Bases]
        \cup [kind : {"rename"}, base : Bases, new : Bases]

TypeOK ==
    /\ dir \in [Sectors -> [type : 0..255, base : Bases, next : Links]]
    /\ before \in Directories
    /\ call \in Calls
    /\ walk \in {"load", "findNew", "find", "free", "scan", "done"}
    /\ at \in Links
    /\ seen \in Seq(Sectors) /\ Len(seen) =< Guard + Cardinality(Sectors)
    /\ listed \in Seq(Sectors)
    /\ outcome \in {"none", "ok", "failed"}

\* The walk an operation begins with: a new name that is the old one is not
\* looked up.
FirstWalk(c) ==
    CASE c.kind = "load" -> "load"
      [] c.kind = "rename" /\ c.base # c.new -> "findNew"
      [] c.kind = "add" -> "findNew"
      [] OTHER -> "find"

\* What the chain is, without walking along it: the least set closed under links.
Chain(d) ==
    LET closed == {S \in SUBSET Sectors :
                      First \in S /\ \A s \in S : d[s].next \in Sectors => d[s].next \in S}
    IN  {s \in Sectors : \A S \in closed : s \in S}

\* What a sector holds that no link leads to is never read: one value will do.
Unlinked == [type |-> 0, base |-> CHOOSE b \in Bases : TRUE, next |-> End]

Init ==
    /\ dir \in Directories
    /\ \A s \in Sectors \ Chain(dir) : dir[s] = Unlinked
    /\ before = dir
    /\ call \in Calls
    /\ walk = FirstWalk(call)
    /\ at = First
    /\ seen = <<>>
    /\ listed = <<>>
    /\ outcome = "none"

-----------------------------------------------------------------------------
(* Entries, as the editor and the reader take them.                        *)

IsLive(type) == type % 8 # 0

IsListed(type) == type % 16 # 0 /\ type >= 128 /\ type % 8 =< 4

\* Mutant: any entry will do.
AnyEntry(type) == TRUE

IsFree(type) == type % 8 = 0

ProgramType == 130

\* (type & 0xF8) | 2 | 0x80
RenamedType(type) ==
    (IF type >= 128 THEN type ELSE type + 128) - (type % 8) + 2

-----------------------------------------------------------------------------
(* Walks.                                                                  *)

Goto(w) == walk' = w /\ at' = First /\ seen' = <<>>

Return(result) ==
    /\ walk' = "done" /\ outcome' = result
    /\ UNCHANGED <<before, call, at, seen, listed>>

Restored == before

Fails == Return("failed") /\ dir' = Restored

\* Mutant: only the last sector is remembered.
LastRead(s) == <<s>>

NowRead(s) == Append(seen, s)

AlreadyRead(s) == \E i \in DOMAIN seen : seen[i] = s

\* Where no walk of the editor goes on: the chain has a loop, or a link that
\* is no address, which ReadSector refuses.  (The limit of 4096 sectors is
\* more than an image has.)
Stuck ==
    \/ at = Bad
    \/ at \in Sectors /\ AlreadyRead(at)

Reads(w) == walk = w /\ at \in Sectors /\ ~ AlreadyRead(at)

Link(s) == dir[s].next

ReadOn ==
    /\ at' = Link(at)
    /\ seen' = NowRead(at)
    /\ UNCHANGED <<dir, before, call, walk, listed, outcome>>

\* FindEntryByName stops at the first entry of the name.
Sought == IF walk = "findNew" /\ call.kind = "rename" THEN call.new ELSE call.base
Matches(s) == IsLive(dir[s].type) /\ dir[s].base = Sought

FindNext ==
    /\ Reads("find") \/ Reads("findNew")
    /\ ~ Matches(at)
    /\ ReadOn

\* A name that must be new is there: AddFile and RenameFile give up.
NameTaken ==
    /\ Reads("findNew") /\ Matches(at)
    /\ Fails

\* Mutant: any failed look-up says that the name is new.
NotFoundOrStuck == at \notin Sectors \/ AlreadyRead(at)

\* The look-up's error is "File not found", and no other.
NotFound == at = End

NameIsNew ==
    /\ walk = "findNew" /\ NotFound
    /\ Goto(IF call.kind = "add" THEN "free" ELSE "find")
    /\ UNCHANGED <<dir, before, call, listed, outcome>>

\* The entry is cleared, and the directory scanned; or renamed, and that is all.
EntryFound ==
    /\ Reads("find") /\ Matches(at)
    /\ \/ /\ call.kind = "delete"
          /\ dir' = [dir EXCEPT ![at].type = 0]
          /\ Goto("scan")
          /\ UNCHANGED <<before, call, listed, outcome>>
       \/ /\ call.kind = "rename"
          /\ dir' = [dir EXCEPT ![at].type = RenamedType(@), ![at].base = call.new]
          /\ Return("ok")

FreeNext ==
    /\ Reads("free") /\ ~ IsFree(dir[at].type)
    /\ ReadOn

FreeFound ==
    /\ Reads("free") /\ IsFree(dir[at].type)
    /\ dir' = [dir EXCEPT ![at].type = ProgramType, ![at].base = call.base]
    /\ Goto("scan")
    /\ UNCHANGED <<before, call, listed, outcome>>

\* No such file, or no entry left.
NothingFound ==
    /\ walk \in {"find", "free"} /\ at = End
    /\ Fails

ScanNext == Reads("scan") /\ ReadOn

ScanEnds ==
    /\ walk = "scan" /\ at = End
    /\ Return("ok") /\ UNCHANGED dir

WalkFails ==
    /\ walk \in {"find", "findNew", "free", "scan"} /\ Stuck
    /\ ~ (walk = "findNew" /\ NotFound)
    /\ Fails

\* Mutant: the last sector allowed is refused.
GuardReached == Len(seen) + 1 >= Guard

TooLong == Len(seen) + 1 > Guard

\* The reader goes round a loop until its count ends it.
LoadNext ==
    /\ walk = "load" /\ at \in Sectors /\ ~ TooLong
    /\ listed' = IF IsListed(dir[at].type) THEN Append(listed, at) ELSE listed
    /\ at' = Link(at)
    /\ seen' = NowRead(at)
    /\ UNCHANGED <<dir, before, call, walk, outcome>>

LoadEnds ==
    /\ walk = "load" /\ at = End
    /\ Return("ok") /\ UNCHANGED dir

LoadFails ==
    /\ walk = "load"
    /\ at = Bad \/ (at \in Sectors /\ TooLong)
    /\ Return("failed") /\ UNCHANGED dir

Next ==
    \/ FindNext \/ NameTaken \/ NameIsNew \/ EntryFound
    \/ FreeNext \/ FreeFound \/ NothingFound
    \/ ScanNext \/ ScanEnds \/ WalkFails
    \/ LoadNext \/ LoadEnds \/ LoadFails

\* A call runs until it returns.
Spec == Init /\ [][Next]_vars /\ WF_vars(Next)

-----------------------------------------------------------------------------
(* What the directory holds, without walking along it.                     *)

Ends(d) == \E s \in Chain(d) : d[s].next = End

Listed(d) == {s \in Chain(d) : IsListed(d[s].type)}
LiveIn(d) == {s \in Chain(d) : d[s].type % 8 # 0}
Unique(d) == \A s, t \in LiveIn(d) : s # t => d[s].base # d[t].base

Finished(kinds) == walk = "done" /\ call.kind \in kinds
Succeeded(kinds) == Finished(kinds) /\ outcome = "ok"

\* The reader loads the directories whose chain ends within its limit, though
\* it does not remember where it has been, and then lists each file once.
LoadIsRight ==
    Finished({"load"}) =>
        /\ outcome = "ok" <=> Ends(dir) /\ Cardinality(Chain(dir)) =< Guard
        /\ outcome = "ok" =>
              /\ {listed[i] : i \in DOMAIN listed} = Listed(dir)
              /\ Len(listed) = Cardinality(Listed(dir))

\* A file that AddFile reports as added is one the reader lists, in a
\* directory that it can load if it is not too long.
AddedIsListed ==
    Succeeded({"add"}) =>
        Ends(dir) /\ \E s \in Listed(dir) : dir[s].base = call.base

\* No operation gives two files one name, on damaged directories too: a walk
\* that gets stuck has read every entry there is.
NamesStayUnique == walk = "done" /\ Unique(before) => Unique(dir)

\* On a directory whose chain does not end nothing is changed, except that a
\* file may be renamed to itself.
BrokenIsKept ==
    walk = "done" /\ ~ Ends(before) =>
        \/ dir = before
        \/ Succeeded({"rename"}) /\ call.base = call.new

\* Only a look-up that reached the end of the directory says that a name is
\* new: one that got stuck half-way changes nothing, and no operation gives two
\* files one name.
LookupsAreRight == NamesStayUnique /\ BrokenIsKept

\* What the reader lists can be deleted and renamed, unless it is of kind DEL.
ListedIsFound ==
    Finished({"delete", "rename"}) /\ outcome = "failed" /\ Ends(before) =>
        \/ \A s \in Listed(before) : before[s].type % 8 # 0 => before[s].base # call.base
        \/ call.kind = "rename" /\ \E s \in LiveIn(before) : before[s].base = call.new

\* An operation leaves every other file the reader lists as it was, but one of
\* kind DEL: the editor takes its entry for a free one.
OthersStayListed ==
    walk = "done" =>
        \A s \in Listed(before) :
            \/ dir[s] = before[s]
            \/ before[s].type % 8 # 0 /\ before[s].base = call.base
            \/ before[s].type % 8 = 0 /\ call.kind = "add"

\* Reader and editor agree on which entries are files, with the one exception
\* of kind DEL that the parts name.
ReaderAndEditorAgree == AddedIsListed /\ ListedIsFound /\ OthersStayListed

\* Every operation and every load ends, whatever the links.
CallsEnd == <>(walk = "done")
=============================================================================
