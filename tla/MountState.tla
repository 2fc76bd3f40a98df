----------------------------- MODULE MountState -----------------------------
(***************************************************************************)
(* The mount-state file of one drive letter, shared without a lock by      *)
(* every jdrive64 process: mount writes X.state.tmp and renames it to      *)
(* X.state, unmount reads X.state and removes it, mounts and the -mounted  *)
(* commands read.  A process may be killed between any two steps.  Each    *)
(* letter has files of its own, so one is modelled; a mount's backend is   *)
(* the process's own and leaves nothing behind it.                         *)
(***************************************************************************)
EXTENDS Integers, Sequences, FiniteSets

CONSTANTS
    Procs,        \* jdrive64 processes
    Mounters,     \* those that run mount,
    Unmounters,   \* unmount,
    Readers,      \* mounts, dir-mounted and the like
    Images,       \* the images that may be mounted
    Hole,         \* bytes skipped over by a writer
    None,         \* no such file
    Chunks,       \* writes of an image's state: the header first, files last
    Faults        \* which of "crash", "write", "flush" may happen

ASSUME MountStateAssumption ==
    /\ Mounters \cup Unmounters \cup Readers \subseteq Procs
    /\ IsFiniteSet(Procs)
    /\ Hole \notin Images
    /\ None \notin Nat
    /\ Chunks \in [Images -> Nat \ {0}]
    /\ Faults \subseteq {"crash", "write", "flush"}

VARIABLES
    posix,   \* whether an open file can be renamed, replaced and removed
    dir,     \* the files "state" and "tmp" of the letter
    file,    \* the contents of the files, those without a name included
    proc,    \* what each process is about to do, and what it holds
    overtaken  \* history: those that unmount a state another has unmounted

vars == <<posix, dir, file, proc, overtaken>>

Names == {"state", "tmp"}

\* A file more than the processes can hold open and the directory can name.
Files == 1..(Cardinality(Procs) + 2)

Idle == [at |-> "idle"]

Holds(p) == IF proc[p].at \in {"writing", "loading", "listing"} THEN {proc[p].f} ELSE {}
HeldBy(ps) == UNION {Holds(p) : p \in ps}
Free == {f \in Files : f \notin HeldBy(Procs) /\ \A n \in Names : dir[n] # f}

Contents ==
    {<<>>} \cup UNION {[1..k -> Images \cup {Hole}] : k \in UNION {1..Chunks[i] : i \in Images}}

TypeOK ==
    /\ posix \in BOOLEAN
    /\ dir \in [Names -> Files \cup {None}]
    /\ file \in [Files -> Contents]
    /\ \A p \in Procs : proc[p].at = "writing" => proc[p].k =< Chunks[proc[p].img]
    /\ \A p \in Procs : proc[p] \in
          [at : {"idle"}] \cup [at : {"creating", "renaming"}, img : Images]
             \cup [at : {"writing"}, img : Images, f : Files, k : Nat]
             \cup [at : {"loading", "listing"}, f : Files]
             \cup [at : {"removing"}, got : Contents]
    /\ overtaken \subseteq Procs

Init ==
    /\ posix \in BOOLEAN
    /\ dir = [n \in Names |-> None]
    /\ file = [f \in Files |-> <<>>]
    /\ proc = [p \in Procs |-> Idle]
    /\ overtaken = {}

Go(p, s) == proc' = [proc EXCEPT ![p] = s]

\* LoadMountState takes a file whose header is whole.
Loads(c) == c # <<>> /\ c[1] # Hole

\* Everything one mount of one image writes.
Whole(c) == \E img \in Images : c = [k \in 1..Chunks[img] |-> img]

-----------------------------------------------------------------------------
(* mount                                                                   *)

\* Mutant: a state file that is there is not looked at.
NeverMounted == TRUE

\* CmdMountWithBackend's test, before the backend is mounted.
NotMounted == dir["state"] = None

MountCheck(p, img) ==
    /\ p \in Mounters /\ proc[p].at = "idle" /\ NotMounted
    /\ Go(p, [at |-> "creating", img |-> img])
    /\ UNCHANGED <<posix, dir, file>>

\* The name SaveMountState writes to before it renames.
TempName == "tmp"

\* Mutant: the stream is opened without truncating.
Kept(c) == c

Emptied(c) == <<>>

\* The stream is opened, which empties a file that is there.
Create(p) ==
    /\ proc[p].at = "creating"
    /\ UNCHANGED posix
    /\ \E f \in IF dir[TempName] = None THEN Free ELSE {dir[TempName]} :
          /\ dir' = [dir EXCEPT ![TempName] = f]
          /\ file' = [file EXCEPT ![f] = IF dir[TempName] = None THEN <<>> ELSE Emptied(@)]
          /\ Go(p, [at |-> "writing", img |-> proc[p].img, f |-> f, k |-> 1])

\* The file with one more chunk written at its place.
Written(c, k, img) ==
    [j \in 1..(IF Len(c) > k THEN Len(c) ELSE k) |->
        IF j = k THEN img ELSE IF j =< Len(c) THEN c[j] ELSE Hole]

\* A chunk is written; with the last, the stream is closed.
Write(p) ==
    /\ proc[p].at = "writing"
    /\ file' = [file EXCEPT ![proc[p].f] = Written(@, proc[p].k, proc[p].img)]
    /\ Go(p, IF proc[p].k < Chunks[proc[p].img] THEN [proc[p] EXCEPT !.k = @ + 1]
             ELSE [at |-> "renaming", img |-> proc[p].img])
    /\ UNCHANGED <<posix, dir>>

\* A chunk cannot be written.  The stream's state is tested before the last
\* chunk is flushed: that failure goes unnoticed, the others end the mount
\* and leave the file.
WriteFails(p) ==
    /\ proc[p].at = "writing"
    /\ UNCHANGED <<posix, dir, file>>
    /\ IF proc[p].k < Chunks[proc[p].img]
       THEN "write" \in Faults /\ Go(p, Idle)
       ELSE "flush" \in Faults /\ Go(p, [at |-> "renaming", img |-> proc[p].img])

\* Whether nobody else's open file keeps name n from being moved or removed.
Movable(p, n) == posix \/ dir[n] \notin HeldBy(Procs \ {p})

CanRename(p) ==
    dir["tmp"] # None /\ Movable(p, "tmp") /\ Movable(p, "state")

\* The mount succeeds.
Rename(p) ==
    /\ proc[p].at = "renaming" /\ CanRename(p)
    /\ dir' = [state |-> dir["tmp"], tmp |-> None]
    /\ Go(p, Idle)
    /\ UNCHANGED <<posix, file>>

\* The mount fails, and removes its file if it can.
RenameFails(p) ==
    /\ proc[p].at = "renaming" /\ ~ CanRename(p)
    /\ dir' = IF Movable(p, "tmp") THEN [dir EXCEPT !["tmp"] = None] ELSE dir
    /\ Go(p, Idle)
    /\ UNCHANGED <<posix, file>>

-----------------------------------------------------------------------------
(* unmount, and the commands that only read                                *)

UnmountOpen(p) ==
    /\ p \in Unmounters /\ proc[p].at = "idle" /\ dir["state"] # None
    /\ Go(p, [at |-> "loading", f |-> dir["state"]])
    /\ UNCHANGED <<posix, dir, file>>

\* LoadMountState reads to the end and closes; what does not load ends it.
UnmountLoad(p) ==
    /\ proc[p].at = "loading"
    /\ Go(p, IF Loads(file[proc[p].f]) THEN [at |-> "removing", got |-> file[proc[p].f]]
             ELSE Idle)
    /\ UNCHANGED <<posix, dir, file>>

\* A file that is gone by now counts as removed.
UnmountRemove(p) ==
    /\ proc[p].at = "removing"
    /\ dir' = IF Movable(p, "state") THEN [dir EXCEPT !["state"] = None] ELSE dir
    /\ Go(p, Idle)
    /\ UNCHANGED <<posix, file>>

\* mounts opens every file of the directory, the others the state alone.
ListOpen(p, n) ==
    /\ p \in Readers /\ proc[p].at = "idle" /\ dir[n] # None
    /\ Go(p, [at |-> "listing", f |-> dir[n]])
    /\ UNCHANGED <<posix, dir, file>>

ListRead(p) ==
    /\ proc[p].at = "listing"
    /\ Go(p, Idle)
    /\ UNCHANGED <<posix, dir, file>>

Crash(p) ==
    /\ "crash" \in Faults /\ proc[p].at # "idle"
    /\ Go(p, Idle)
    /\ UNCHANGED <<posix, dir, file>>

\* Those in the middle of an unmount when the state is removed are overtaken
\* until they are done.
Overtake ==
    overtaken' = {p \in Procs :
        /\ proc'[p].at \in {"loading", "removing"}
        /\ p \in overtaken \/ (dir["state"] # None /\ dir'["state"] = None)}

Next ==
    /\ \E p \in Procs :
        \/ \E img \in Images : MountCheck(p, img)
        \/ Create(p) \/ Write(p) \/ WriteFails(p) \/ Rename(p) \/ RenameFails(p)
        \/ UnmountOpen(p) \/ UnmountLoad(p) \/ UnmountRemove(p)
        \/ \E n \in Names : ListOpen(p, n)
        \/ ListRead(p) \/ Crash(p)
    /\ Overtake

Spec == Init /\ [][Next]_vars

-----------------------------------------------------------------------------
\* The state file is never half a state, nor parts of two: with one mount at
\* a time, neither a crash nor a failed write of it shows in the file that
\* unmount, mounts and the next mount go by.
StateComplete == dir["state"] # None => Whole(file[dir["state"]])

\* Whatever a command has read from the state file, or is about to read, is
\* one whole state, also when the file is unmounted and mounted meanwhile.
ReadersSeeWholeStates ==
    \A p \in Procs :
        /\ proc[p].at = "loading" => Whole(file[proc[p].f])
        /\ proc[p].at = "removing" => Whole(proc[p].got)

\* unmount removes the very state it loaded and validated, with one mount at
\* a time and any number of unmounts, unless another unmount has removed that
\* state before: one so overtaken removes whatever has been mounted since,
\* for nothing locks the file between the load and the removal.
RemovesWhatItRead ==
    [][\A p \in Procs :
          proc[p].at = "removing" /\ dir["state"] # None /\ dir'["state"] = None
             /\ proc'[p] # proc[p] /\ p \notin overtaken =>
             file[dir["state"]] = proc[p].got]_vars

\* A mount that succeeds takes the place of no other: it fails when the
\* letter is already mounted.
MountExclusive ==
    [][\A p \in Procs :
          proc[p].at = "renaming" /\ dir'["tmp"] = None /\ dir'["state"] = dir["tmp"]
             /\ dir["tmp"] # None => dir["state"] = None]_vars
=============================================================================
