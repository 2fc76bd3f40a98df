------------------------- MODULE CommandLineProofs -------------------------
(***************************************************************************)
(* Proofs about the command line.                                          *)
(*                                                                         *)
(* The mount-state files (MountState), for any number of processes, images *)
(* and chunks: with a single process that mounts, and every write failure  *)
(* noticed, whatever else crashes, unmounts or reads, on either platform.  *)
(*                                                                         *)
(* The name of a file (FileNames), for names of any length up to NameBytes *)
(* over any characters below 256, and the text of a WHERE predicate and of *)
(* a telemetry line (WhereText), for texts of any length.                  *)
(*                                                                         *)
(* ParseWhereExpression and EvaluateWhereExpression (WhereParser), for     *)
(* expressions of any length over any predicates: every entry of the stack *)
(* is a token that still waits for its right operand, and everything       *)
(* between two of them is an operand that the grammar gives one meaning.   *)
(***************************************************************************)
EXTENDS MountState, FileNames, WhereText, WhereParser, FiniteSetTheorems,
        SequenceTheorems, WellFoundedInduction, TLAPS

-----------------------------------------------------------------------------
(* Mount-state files.                                                      *)

\* One process mounts, and its last write does not fail unnoticed.
OneMounter ==
    /\ \A p, q \in Mounters : p = q
    /\ "flush" \notin Faults

\* A state of an image, as far as its first k chunks.
Built(img, k) == [j \in 1..k |-> img]

\* What holds of a process's record, whatever it is doing.
WellPlaced(p) ==
    LET s == proc[p]
    IN  /\ s.at \in {"creating", "writing", "renaming"} => p \in Mounters
        /\ s.at \in {"creating", "writing", "renaming"} => s.img \in Images
        /\ s.at = "writing" =>
              /\ s.k \in 1..Chunks[s.img]
              /\ s.f \in Files /\ dir["tmp"] = s.f
              /\ file[s.f] = Built(s.img, s.k - 1)
        /\ s.at = "renaming" =>
              dir["tmp"] # None /\ file[dir["tmp"]] = Built(s.img, Chunks[s.img])
        /\ s.at = "loading" =>
              s.f \in Files /\ s.f # dir["tmp"] /\ Whole(file[s.f])
        /\ s.at = "removing" => Whole(s.got)

Invariant ==
    /\ dir \in [Names -> Files \cup {None}]
    /\ DOMAIN file = Files
    /\ DOMAIN proc = Procs
    /\ dir["state"] # None => dir["state"] # dir["tmp"] /\ Whole(file[dir["state"]])
    /\ \A p \in Procs : WellPlaced(p)

\* A state written to its end is whole.
LEMMA BuiltIsWhole ==
    ASSUME NEW img \in Images
    PROVE  Whole(Built(img, Chunks[img]))
BY DEF Whole, Built

\* Writing chunk k after the first k - 1 gives the first k.
LEMMA WrittenIsBuilt ==
    ASSUME NEW img, NEW k \in Nat \ {0}
    PROVE  Written(Built(img, k - 1), k, img) = Built(img, k)
<1> DEFINE c == Built(img, k - 1)
<1>1. c \in Seq({img}) /\ Len(c) = k - 1
    BY DEF Built
<1>2. \A j \in 1..(k - 1) : c[j] = img
    BY DEF Built
<1> QED
    BY <1>1, <1>2 DEF Written, Built

-----------------------------------------------------------------------------
LEMMA Start ==
    Init => Invariant
BY MountStateAssumption DEF Init, Invariant, WellPlaced, Idle, Names

\* Each step of the mounting process keeps the invariant.
LEMMA MountStep ==
    ASSUME OneMounter, Invariant, NEW p \in Procs,
           \/ \E img \in Images : MountCheck(p, img)
           \/ Create(p) \/ Write(p) \/ WriteFails(p) \/ Rename(p) \/ RenameFails(p)
    PROVE  Invariant'
<1> USE DEF Go
<1>0. None \notin Files
    BY MountStateAssumption DEF Files
<1>1. \A q \in Procs : q # p /\ p \in Mounters =>
          proc[q].at \notin {"creating", "writing", "renaming"}
    BY DEF Invariant, WellPlaced, OneMounter
<1>2. ASSUME NEW img \in Images, MountCheck(p, img)
      PROVE  Invariant'
    BY <1>2 DEF MountCheck, Invariant, WellPlaced, Whole, Built
<1>3. CASE Create(p)
    <2>1. PICK f \in IF dir["tmp"] = None THEN Free ELSE {dir["tmp"]} :
              /\ dir' = [dir EXCEPT !["tmp"] = f]
              /\ file' = [file EXCEPT ![f] = <<>>]
              /\ proc' = [proc EXCEPT ![p] =
                    [at |-> "writing", img |-> proc[p].img, f |-> f, k |-> 1]]
        BY <1>3 DEF Create, TempName, Emptied
    <2>2. f \in Files /\ f # dir["state"]
        BY <2>1, <1>0 DEF Free, Invariant, Names
    <2>3. \A q \in Procs : q # p /\ proc[q].at = "loading" => proc[q].f # f
        BY <2>1 DEF Free, HeldBy, Holds, Invariant, WellPlaced
    <2>4. p \in Mounters /\ proc[p].img \in Images /\ proc[p].at = "creating"
        BY <1>3 DEF Create, Invariant, WellPlaced
    <2>5. <<>> = Built(proc[p].img, 0)
        BY DEF Built
    <2>6. 1 \in 1..Chunks[proc[p].img]
        BY <2>4, MountStateAssumption
    <2>7. WellPlaced(p)'
        BY <2>1, <2>2, <2>4, <2>5, <2>6 DEF WellPlaced, Invariant, Names
    <2>8. ASSUME NEW q \in Procs, q # p
          PROVE  WellPlaced(q)'
        BY <2>1, <2>2, <2>3, <2>4, <2>8, <1>1 DEF WellPlaced, Invariant, Names, Whole
    <2>9. dir'["state"] # None =>
              dir'["state"] # dir'["tmp"] /\ Whole(file[dir["state"]])'
        BY <2>1, <2>2 DEF Invariant, Names, Whole
    <2> QED
        BY <2>1, <2>2, <2>7, <2>8, <2>9 DEF Invariant, Names
<1>4. CASE Write(p)
    <2> DEFINE s == proc[p]
    <2>1. /\ p \in Mounters /\ s.at = "writing" /\ s.img \in Images
          /\ s.k \in 1..Chunks[s.img] /\ s.f \in Files /\ dir["tmp"] = s.f
          /\ file[s.f] = Built(s.img, s.k - 1)
        BY <1>4 DEF Write, Invariant, WellPlaced
    <2>2. Chunks[s.img] \in Nat \ {0}
        BY <2>1, MountStateAssumption
    <2>3. file'[s.f] = Built(s.img, s.k)
        BY <1>4, <2>1, <2>2, WrittenIsBuilt DEF Write, Invariant
    <2>4. \A f \in Files : f # dir["tmp"] => file'[f] = file[f]
        BY <1>4, <2>1 DEF Write, Invariant
    <2>5. dir' = dir
        BY <1>4 DEF Write
    <2>6. WellPlaced(p)'
        <3>1. CASE s.k < Chunks[s.img]
            <4>1. proc'[p] = [s EXCEPT !.k = @ + 1]
                BY <1>4, <3>1 DEF Write, Invariant
            <4>2. /\ proc'[p].at = "writing" /\ proc'[p].img = s.img
                  /\ proc'[p].f = s.f /\ proc'[p].k = s.k + 1
                BY <4>1, <2>1
            <4> QED
                BY <4>2, <3>1, <2>1, <2>2, <2>3, <2>5 DEF WellPlaced
        <3>2. CASE ~ (s.k < Chunks[s.img])
            <4>1. proc'[p] = [at |-> "renaming", img |-> s.img]
                BY <1>4, <3>2 DEF Write, Invariant
            <4>2. s.k = Chunks[s.img]
                BY <2>1, <2>2, <3>2
            <4> QED
                BY <4>1, <4>2, <2>1, <2>3, <2>5, <1>0 DEF WellPlaced
        <3> QED
            BY <3>1, <3>2
    <2>7. ASSUME NEW q \in Procs, q # p
          PROVE  WellPlaced(q)'
        <3>1. proc'[q] = proc[q]
            BY <1>4, <2>7 DEF Write, Invariant
        <3> QED
            BY <3>1, <2>1, <2>4, <2>5, <2>7, <1>1 DEF WellPlaced, Invariant, Whole
    <2>8. dir["state"] # None =>
              dir["state"] # dir["tmp"] /\ Whole(file'[dir["state"]])
        BY <2>4 DEF Invariant, Names
    <2> QED
        BY <1>4, <2>5, <2>6, <2>7, <2>8 DEF Invariant, Write, Whole
<1>5. CASE WriteFails(p)
    <2>1. UNCHANGED <<dir, file>> /\ proc' = [proc EXCEPT ![p] = Idle]
        BY <1>5 DEF WriteFails, OneMounter
    <2>2. ASSUME NEW q \in Procs
          PROVE  WellPlaced(q)'
        BY <2>1, <2>2 DEF Invariant, WellPlaced, Whole, Idle
    <2> QED
        BY <2>1, <2>2 DEF Invariant, Whole
<1>6. CASE Rename(p)
    <2>1. /\ p \in Mounters /\ proc[p].img \in Images
          /\ dir["tmp"] # None /\ dir["tmp"] \in Files
          /\ Whole(file[dir["tmp"]])
        BY <1>6, BuiltIsWhole DEF Rename, CanRename, Invariant, WellPlaced, Names
    <2>2. /\ dir' = [state |-> dir["tmp"], tmp |-> None]
          /\ file' = file
          /\ proc' = [proc EXCEPT ![p] = Idle]
        BY <1>6 DEF Rename
    <2>3. WellPlaced(p)'
        BY <2>2 DEF WellPlaced, Invariant, Idle
    <2>4. ASSUME NEW q \in Procs, q # p
          PROVE  WellPlaced(q)'
        BY <2>1, <2>2, <2>4, <1>0, <1>1 DEF WellPlaced, Invariant, Whole
    <2>5. dir' \in [Names -> Files \cup {None}]
        BY <2>1, <2>2 DEF Names
    <2> QED
        BY <2>1, <2>2, <2>3, <2>4, <2>5 DEF Invariant, Whole
<1>7. CASE RenameFails(p)
    <2>1. p \in Mounters
        BY <1>7 DEF RenameFails, Invariant, WellPlaced
    <2>2. /\ dir' = dir \/ dir' = [dir EXCEPT !["tmp"] = None]
          /\ file' = file
          /\ proc' = [proc EXCEPT ![p] = Idle]
        BY <1>7 DEF RenameFails
    <2>3. WellPlaced(p)'
        BY <2>2 DEF WellPlaced, Invariant, Idle
    <2>4. ASSUME NEW q \in Procs, q # p
          PROVE  WellPlaced(q)'
        BY <2>1, <2>2, <2>4, <1>0, <1>1 DEF WellPlaced, Invariant, Whole, Names
    <2> QED
        BY <2>2, <2>3, <2>4 DEF Invariant, Whole, Names
<1> QED
    BY <1>2, <1>3, <1>4, <1>5, <1>6, <1>7

\* The other processes' steps, and crashes, keep it too.
LEMMA OtherStep ==
    ASSUME Invariant, NEW p \in Procs,
           \/ UnmountOpen(p) \/ UnmountLoad(p) \/ UnmountRemove(p)
           \/ \E n \in Names : ListOpen(p, n)
           \/ ListRead(p) \/ Crash(p)
    PROVE  Invariant'
<1> USE DEF Go
<1>0. None \notin Files
    BY MountStateAssumption DEF Files
<1>1. CASE UnmountOpen(p)
    BY <1>1 DEF UnmountOpen, Invariant, WellPlaced, Whole, Built, Names
<1>2. CASE UnmountLoad(p)
    BY <1>2 DEF UnmountLoad, Invariant, WellPlaced, Whole, Built, Idle
<1>3. CASE UnmountRemove(p)
    BY <1>3, <1>0 DEF UnmountRemove, Invariant, WellPlaced, Whole, Built, Idle, Names
<1>4. ASSUME NEW n \in Names, ListOpen(p, n)
      PROVE  Invariant'
    BY <1>4 DEF ListOpen, Invariant, WellPlaced, Whole, Built
<1>5. CASE ListRead(p) \/ Crash(p)
    BY <1>5 DEF ListRead, Crash, Invariant, WellPlaced, Whole, Built, Idle
<1> QED
    BY <1>1, <1>2, <1>3, <1>4, <1>5

LEMMA Step ==
    OneMounter /\ Invariant /\ [Next]_vars => Invariant'
<1> SUFFICES ASSUME OneMounter, Invariant, [Next]_vars
             PROVE  Invariant'
    OBVIOUS
<1>1. CASE Next
    BY <1>1, MountStep, OtherStep DEF Next
<1>2. CASE UNCHANGED vars
    BY <1>2 DEF vars, Invariant, WellPlaced, Whole, Built
<1> QED
    BY <1>1, <1>2

-----------------------------------------------------------------------------
LEMMA Always ==
    ASSUME OneMounter
    PROVE  Spec => []Invariant
<1>1. Invariant /\ [Next]_vars => Invariant'
    BY Step
<1> QED
    BY Start, <1>1, PTL DEF Spec

\* With one mount at a time and no flush that fails unnoticed, the state file
\* is one whole state, whatever else fails, crashes, unmounts or reads.
THEOREM WholeStates ==
    ASSUME OneMounter
    PROVE  Spec => []StateComplete
<1>1. Invariant => StateComplete
    BY DEF Invariant, StateComplete
<1> QED
    BY Always, <1>1, PTL

\* And so is what unmount has read of it, or is about to read.
THEOREM WholeReads ==
    ASSUME OneMounter
    PROVE  Spec => []ReadersSeeWholeStates
<1>1. Invariant => ReadersSeeWholeStates
    BY DEF Invariant, WellPlaced, ReadersSeeWholeStates
<1> QED
    BY Always, <1>1, PTL

-----------------------------------------------------------------------------
(* Types, with any number of mounts and whatever fails.                    *)

Record ==
    [at : {"idle"}] \cup [at : {"creating", "renaming"}, img : Images]
        \cup [at : {"writing"}, img : Images, f : Files, k : Nat]
        \cup [at : {"loading", "listing"}, f : Files]
        \cup [at : {"removing"}, got : Contents]

WellTyped(r) ==
    /\ r \in Record
    /\ r.at = "writing" => r.k \in 1..Chunks[r.img]

TypeInv ==
    /\ posix \in BOOLEAN
    /\ dir \in [Names -> Files \cup {None}]
    /\ file \in [Files -> Contents]
    /\ DOMAIN proc = Procs
    /\ \A p \in Procs : WellTyped(proc[p])

LEMMA ContentsAre ==
    /\ <<>> \in Contents
    /\ \A i \in Images : \A k \in 1..Chunks[i] :
           [1..k -> Images \cup {Hole}] \subseteq Contents
    /\ \A c \in Contents :
           c = <<>> \/ \E i \in Images : \E k \in 1..Chunks[i] :
                           c \in [1..k -> Images \cup {Hole}]
BY DEF Contents

\* A chunk written at its place leaves contents of a state file.
LEMMA WrittenType ==
    ASSUME NEW c \in Contents, NEW img \in Images, NEW k \in 1..Chunks[img]
    PROVE  Written(c, k, img) \in Contents
<1>1. k \in Nat \ {0} /\ Chunks[img] \in Nat \ {0}
    BY MountStateAssumption
<1>2. CASE c = <<>>
    <2>1. Len(c) = 0
        BY <1>2
    <2>2. Written(c, k, img) \in [1..k -> Images \cup {Hole}]
        BY <1>1, <2>1 DEF Written
    <2> QED
        BY <2>2, ContentsAre
<1>3. CASE c # <<>>
    <2>1. PICK i \in Images : \E n \in 1..Chunks[i] : c \in [1..n -> Images \cup {Hole}]
        BY <1>3, ContentsAre
    <2>2. PICK n \in 1..Chunks[i] : c \in [1..n -> Images \cup {Hole}]
        BY <2>1
    <2>3. n \in Nat \ {0} /\ Chunks[i] \in Nat \ {0}
        BY <2>2, MountStateAssumption
    <2>4. c \in Seq(Images \cup {Hole}) /\ Len(c) = n
        BY <2>2, <2>3
    <2>5. \A j \in 1..n : c[j] \in Images \cup {Hole}
        BY <2>2
    <2>6. CASE n > k
        <3>1. Written(c, k, img) \in [1..n -> Images \cup {Hole}]
            BY <1>1, <2>3, <2>4, <2>5, <2>6 DEF Written
        <3> QED
            BY <2>2, <3>1, ContentsAre
    <2>7. CASE ~ (n > k)
        <3>1. Written(c, k, img) \in [1..k -> Images \cup {Hole}]
            BY <1>1, <2>3, <2>4, <2>5, <2>7 DEF Written
        <3> QED
            BY <3>1, ContentsAre
    <2> QED
        BY <2>6, <2>7
<1> QED
    BY <1>2, <1>3

\* What a record is, by what its process does.
LEMMA RecordIs ==
    ASSUME NEW r \in Record
    PROVE  /\ r.at \in {"creating", "writing", "renaming"} => r.img \in Images
           /\ r.at \in {"writing", "loading", "listing"} => r.f \in Files
BY DEF Record

LEMMA TypeStep == TypeInv /\ [Next]_vars => TypeInv'
<1> SUFFICES ASSUME TypeInv, [Next]_vars PROVE TypeInv'
    OBVIOUS
<1>1. ASSUME NEW p \in Procs, NEW r, WellTyped(r), Go(p, r), posix' = posix,
             dir' \in [Names -> Files \cup {None}], file' \in [Files -> Contents]
      PROVE  TypeInv'
    BY <1>1 DEF Go, TypeInv
<1>2. WellTyped(Idle)
    BY DEF WellTyped, Record, Idle
<1>3. Free \subseteq Files
    BY DEF Free
<1>4. ASSUME NEW p \in Procs, NEW img \in Images, MountCheck(p, img)
      PROVE  TypeInv'
    <2>1. WellTyped([at |-> "creating", img |-> img])
        BY DEF WellTyped, Record
    <2> QED
        BY <1>1, <1>4, <2>1 DEF MountCheck, TypeInv
<1>5. ASSUME NEW p \in Procs, Create(p)
      PROVE  TypeInv'
    <2>1. PICK f \in IF dir["tmp"] = None THEN Free ELSE {dir["tmp"]} :
              /\ dir' = [dir EXCEPT !["tmp"] = f]
              /\ file' = [file EXCEPT ![f] = <<>>]
              /\ Go(p, [at |-> "writing", img |-> proc[p].img, f |-> f, k |-> 1])
        BY <1>5 DEF Create, TempName, Emptied
    <2>2. f \in Files
        BY <1>3, <2>1 DEF TypeInv, Names
    <2>3. proc[p].img \in Images
        BY <1>5, RecordIs DEF Create, TypeInv, WellTyped
    <2>4. 1 \in Nat /\ 1 \in 1..Chunks[proc[p].img]
        BY <2>3, MountStateAssumption
    <2>5. WellTyped([at |-> "writing", img |-> proc[p].img, f |-> f, k |-> 1])
        BY <2>2, <2>3, <2>4 DEF WellTyped, Record
    <2>6. dir' \in [Names -> Files \cup {None}] /\ file' \in [Files -> Contents]
        BY <2>1, <2>2, ContentsAre DEF TypeInv
    <2> QED
        BY <1>1, <1>5, <2>1, <2>5, <2>6 DEF Create
<1>6. ASSUME NEW p \in Procs, Write(p) \/ WriteFails(p)
      PROVE  TypeInv'
    <2> DEFINE s == proc[p]
               next == [s EXCEPT !.k = @ + 1]
               done == [at |-> "renaming", img |-> s.img]
    <2>1. s.at = "writing" /\ WellTyped(s)
        BY <1>6 DEF Write, WriteFails, TypeInv
    <2>2. s \in [at : {"writing"}, img : Images, f : Files, k : Nat]
        BY <2>1 DEF WellTyped, Record
    <2>3. s.k \in 1..Chunks[s.img] /\ s.k \in Nat /\ Chunks[s.img] \in Nat
        BY <2>1, <2>2, MountStateAssumption DEF WellTyped
    <2>4. WellTyped(done)
        BY <2>2 DEF WellTyped, Record
    <2>5. s.k < Chunks[s.img] => WellTyped(next)
        <3> SUFFICES ASSUME s.k < Chunks[s.img] PROVE WellTyped(next)
            OBVIOUS
        <3>1. next \in [at : {"writing"}, img : Images, f : Files, k : Nat]
            BY <2>2
        <3>2. next.k = s.k + 1 /\ next.img = s.img
            BY <2>2
        <3>3. next.k \in 1..Chunks[next.img]
            BY <2>3, <3>2
        <3> QED
            BY <3>1, <3>3 DEF WellTyped, Record
    <2>6. Written(file[s.f], s.k, s.img) \in Contents
        BY <2>2, <2>3, WrittenType DEF TypeInv
    <2>7. CASE Write(p)
        <3>1. file' \in [Files -> Contents]
            BY <2>2, <2>6, <2>7 DEF Write, TypeInv
        <3>2. Go(p, IF s.k < Chunks[s.img] THEN next ELSE done)
            BY <2>7 DEF Write
        <3>3. dir' \in [Names -> Files \cup {None}] /\ posix' = posix
            BY <2>7 DEF Write, TypeInv
        <3> HIDE DEF next, done, s
        <3> QED
            BY <1>1, <2>4, <2>5, <3>1, <3>2, <3>3
    <2>8. CASE WriteFails(p)
        <3>1. Go(p, Idle) \/ Go(p, done)
            BY <2>8 DEF WriteFails
        <3>2. /\ dir' \in [Names -> Files \cup {None}] /\ posix' = posix
              /\ file' \in [Files -> Contents]
            BY <2>8 DEF WriteFails, TypeInv
        <3> HIDE DEF done
        <3> QED
            BY <1>1, <1>2, <2>4, <3>1, <3>2
    <2> QED
        BY <1>6, <2>7, <2>8
<1>7. ASSUME NEW p \in Procs, Rename(p) \/ RenameFails(p) \/ UnmountRemove(p)
      PROVE  TypeInv'
    <2>1. dir' \in [Names -> Files \cup {None}]
        BY <1>7 DEF Rename, RenameFails, UnmountRemove, TypeInv, Names
    <2>2. Go(p, Idle) /\ posix' = posix /\ file' \in [Files -> Contents]
        BY <1>7 DEF Rename, RenameFails, UnmountRemove, TypeInv
    <2> QED
        BY <1>1, <1>2, <2>1, <2>2
<1>8. ASSUME NEW p \in Procs, UnmountLoad(p)
      PROVE  TypeInv'
    <2>1. proc[p].f \in Files
        BY <1>8, RecordIs DEF UnmountLoad, TypeInv, WellTyped
    <2>2. WellTyped([at |-> "removing", got |-> file[proc[p].f]])
        BY <2>1 DEF WellTyped, Record, TypeInv
    <2>3. dir' \in [Names -> Files \cup {None}] /\ posix' = posix /\ file' \in [Files -> Contents]
        BY <1>8 DEF UnmountLoad, TypeInv
    <2> QED
        BY <1>1, <1>2, <1>8, <2>2, <2>3 DEF UnmountLoad
<1>9. ASSUME NEW p \in Procs, UnmountOpen(p) \/ \E n \in Names : ListOpen(p, n)
      PROVE  TypeInv'
    <2>1. PICK n \in Names, at \in {"loading", "listing"} :
              dir[n] # None /\ Go(p, [at |-> at, f |-> dir[n]])
        BY <1>9 DEF UnmountOpen, ListOpen, Names
    <2>2. WellTyped([at |-> at, f |-> dir[n]])
        BY <2>1 DEF WellTyped, Record, TypeInv
    <2>3. dir' \in [Names -> Files \cup {None}] /\ posix' = posix /\ file' \in [Files -> Contents]
        BY <1>9 DEF UnmountOpen, ListOpen, TypeInv
    <2> QED
        BY <1>1, <2>1, <2>2, <2>3
<1>10. ASSUME NEW p \in Procs, ListRead(p) \/ Crash(p)
       PROVE  TypeInv'
    BY <1>1, <1>2, <1>10 DEF ListRead, Crash, TypeInv
<1>11. CASE UNCHANGED vars
    BY <1>11 DEF vars, TypeInv, WellTyped
<1> QED
    BY <1>4, <1>5, <1>6, <1>7, <1>8, <1>9, <1>10, <1>11 DEF Next

LEMMA TypesAlways == Spec => []TypeInv
<1>1. Init => TypeInv
    BY ContentsAre DEF Init, TypeInv, WellTyped, Record, Idle
<1> QED
    BY <1>1, TypeStep, PTL DEF Spec

\* Types hold with any number of mounts, and whatever fails.
THEOREM TypesAreKept == Spec => []TypeOK
<1>1. ASSUME NEW p \in Procs, WellTyped(proc[p]), proc[p].at = "writing"
      PROVE  proc[p].k =< Chunks[proc[p].img]
    <2>1. proc[p].img \in Images
        BY <1>1, RecordIs DEF WellTyped
    <2> QED
        BY <1>1, <2>1, MountStateAssumption DEF WellTyped
<1> DEFINE Listed == overtaken \subseteq Procs
<1>2. TypeInv /\ Listed => TypeOK
    BY <1>1 DEF TypeInv, TypeOK, WellTyped, Record
<1>3. Init => Listed
    BY DEF Init
<1>4. Listed /\ [Next]_vars => Listed'
    BY DEF Next, Overtake, vars
<1> HIDE DEF Listed
<1> QED
    BY TypesAlways, <1>2, <1>3, <1>4, PTL DEF Spec

-----------------------------------------------------------------------------
(* What unmount removes, where one process mounts and any number unmount:  *)
(* writes and flushes may fail, and any process be killed.                 *)

SingleMounter == \A p, q \in Mounters : p = q

\* While a mount is under way the letter has no state, and the state that an
\* unmount has opened or read stays where it is until another unmount removes
\* it: only these could move it.
InPlace ==
    \A p \in Procs :
        LET s == proc[p]
        IN  /\ s.at \in {"creating", "writing", "renaming"} =>
                  p \in Mounters /\ dir["state"] = None
            /\ p \notin overtaken =>
                  /\ s.at = "loading" => dir["state"] = s.f
                  /\ s.at = "removing" => dir["state"] # None /\ file[dir["state"]] = s.got

\* Who is in the middle of an unmount, and not overtaken, was not before.
LEMMA NotOvertakenBefore ==
    ASSUME Overtake, NEW q \in Procs, q \notin overtaken',
           proc'[q].at \in {"loading", "removing"}
    PROVE  q \notin overtaken /\ (dir["state"] = None \/ dir'["state"] # None)
    BY DEF Overtake

LEMMA InPlaceStep ==
    ASSUME SingleMounter, TypeInv, InPlace, [Next]_vars
    PROVE  InPlace'
<1> USE DEF Go
<1>0. None \notin Files
    BY MountStateAssumption DEF Files
<1>a. DOMAIN proc = Procs
    BY DEF TypeInv
\* While one mounts, only overtaken unmounts have anything open or read.
<1>b. ASSUME NEW q \in Procs, dir["state"] = None, q \notin overtaken
      PROVE  proc[q].at \notin {"loading", "removing"}
    BY <1>b, <1>0, RecordIs DEF InPlace, TypeInv, WellTyped
<1>1. ASSUME NEW p \in Procs, NEW img \in Images, MountCheck(p, img), Overtake
      PROVE  InPlace'
    BY <1>1, <1>a, NotOvertakenBefore DEF MountCheck, NotMounted, InPlace
<1>2. ASSUME NEW p \in Procs, Create(p), Overtake
      PROVE  InPlace'
    <2>1. PICK f \in IF dir["tmp"] = None THEN Free ELSE {dir["tmp"]} :
              /\ dir' = [dir EXCEPT !["tmp"] = f]
              /\ proc' = [proc EXCEPT ![p] =
                    [at |-> "writing", img |-> proc[p].img, f |-> f, k |-> 1]]
        BY <1>2 DEF Create, TempName
    <2>2. dir["state"] = None /\ p \in Mounters
        BY <1>2 DEF Create, InPlace
    <2>3. dir'["state"] = None
        BY <2>1, <2>2 DEF TypeInv, Names
    <2> QED
        BY <1>2, <2>1, <2>2, <2>3, <1>a, <1>b, NotOvertakenBefore DEF InPlace
<1>3. ASSUME NEW p \in Procs, Write(p) \/ WriteFails(p), Overtake
      PROVE  InPlace'
    <2> DEFINE s == proc[p]
    <2>1. s.at = "writing" /\ p \in Mounters /\ dir["state"] = None /\ dir' = dir
        BY <1>3 DEF Write, WriteFails, InPlace
    <2>2. s \in [at : {"writing"}, img : Images, f : Files, k : Nat]
        BY <2>1 DEF TypeInv, WellTyped, Record
    <2>3. [s EXCEPT !.k = @ + 1].at = "writing"
        BY <2>2
    <2> DEFINE next == [s EXCEPT !.k = @ + 1]
               done == [at |-> "renaming", img |-> s.img]
    <2>4. \/ proc' = [proc EXCEPT ![p] = next]
          \/ proc' = [proc EXCEPT ![p] = done]
          \/ proc' = [proc EXCEPT ![p] = Idle]
        BY <1>3 DEF Write, WriteFails
    <2>5. next.at = "writing" /\ done.at = "renaming" /\ Idle.at = "idle"
        BY <2>3 DEF Idle
    <2> HIDE DEF next, done
    <2>6. proc'[p].at \in {"writing", "renaming", "idle"}
        BY <2>4, <2>5, <1>a
    <2>7. \A q \in Procs : q # p => proc'[q] = proc[q]
        BY <2>4, <1>a
    <2> QED
        BY <1>3, <2>1, <2>6, <2>7, <1>b, NotOvertakenBefore DEF InPlace
<1>4. ASSUME NEW p \in Procs, Rename(p) \/ RenameFails(p), Overtake
      PROVE  InPlace'
    <2>1. /\ proc[p].at = "renaming" /\ dir["state"] = None /\ p \in Mounters
          /\ proc' = [proc EXCEPT ![p] = Idle]
        BY <1>4 DEF Rename, RenameFails, InPlace
    <2>2. \A q \in Procs : q # p => proc[q].at \notin {"creating", "writing", "renaming"}
        BY <2>1 DEF InPlace, SingleMounter
    <2> QED
        BY <1>4, <2>1, <2>2, <1>a, <1>b, NotOvertakenBefore DEF InPlace, Idle
<1>5. ASSUME NEW p \in Procs, UnmountOpen(p), Overtake
      PROVE  InPlace'
    BY <1>5, <1>a, NotOvertakenBefore DEF UnmountOpen, InPlace
<1>6. ASSUME NEW p \in Procs, UnmountLoad(p), Overtake
      PROVE  InPlace'
    <2>1. proc[p].at = "loading" /\ proc[p].f \in Files
        BY <1>6, RecordIs DEF UnmountLoad, TypeInv, WellTyped
    <2>2. p \notin overtaken => dir["state"] = proc[p].f
        BY <2>1 DEF InPlace
    <2> QED
        BY <1>6, <2>1, <2>2, <1>0, <1>a, NotOvertakenBefore DEF UnmountLoad, InPlace, Idle
<1>7. ASSUME NEW p \in Procs, UnmountRemove(p), Overtake
      PROVE  InPlace'
    <2>1. /\ proc[p].at = "removing"
          /\ proc' = [proc EXCEPT ![p] = Idle] /\ file' = file
          /\ dir' = dir \/ dir' = [dir EXCEPT !["state"] = None]
        BY <1>7 DEF UnmountRemove
    <2>2. dir'["state"] = None \/ dir'["state"] = dir["state"]
        BY <2>1 DEF TypeInv, Names
    <2>3. ASSUME NEW q \in Procs
          PROVE  /\ proc'[q].at \in {"creating", "writing", "renaming"} =>
                        q \in Mounters /\ dir'["state"] = None
                 /\ q \notin overtaken' =>
                        /\ proc'[q].at = "loading" => dir'["state"] = proc'[q].f
                        /\ proc'[q].at = "removing" =>
                              dir'["state"] # None /\ file'[dir'["state"]] = proc'[q].got
        <3>1. CASE q = p
            BY <2>1, <3>1, <1>a DEF Idle
        <3>2. CASE q # p
            <4>1. proc'[q] = proc[q]
                BY <2>1, <3>2, <1>a
            <4>2. CASE dir["state"] = None \/ dir'["state"] # None
                BY <1>7, <2>1, <2>2, <4>1, <4>2, NotOvertakenBefore DEF InPlace
            <4>3. CASE dir["state"] # None /\ dir'["state"] = None
                BY <1>7, <4>1, <4>3, NotOvertakenBefore DEF InPlace
            <4> QED
                BY <4>2, <4>3
        <3> QED
            BY <3>1, <3>2
    <2> QED
        BY <2>3 DEF InPlace
<1>8. ASSUME NEW p \in Procs, (\E n \in Names : ListOpen(p, n)) \/ ListRead(p) \/ Crash(p),
             Overtake
      PROVE  InPlace'
    BY <1>8, <1>a, NotOvertakenBefore DEF ListOpen, ListRead, Crash, InPlace, Idle
<1>9. CASE UNCHANGED vars
    BY <1>9 DEF vars, InPlace
<1> QED
    BY <1>1, <1>2, <1>3, <1>4, <1>5, <1>6, <1>7, <1>8, <1>9 DEF Next

\* With one mount at a time, and any number of unmounts, an unmount removes the
\* very state it has loaded and validated, unless another unmount has removed
\* that before; neither the mount nor a failure puts another in its place.
THEOREM RemovesItsOwn ==
    ASSUME SingleMounter
    PROVE  Spec => RemovesWhatItRead
<1>1. Init => InPlace
    BY DEF Init, InPlace, Idle
<1>2. TypeInv /\ InPlace /\ [Next]_vars => InPlace'
    BY InPlaceStep
<1>3. InPlace =>
        [\A p \in Procs :
            proc[p].at = "removing" /\ dir["state"] # None /\ dir'["state"] = None
               /\ proc'[p] # proc[p] /\ p \notin overtaken =>
            file[dir["state"]] = proc[p].got]_vars
    BY DEF InPlace
<1> QED
    BY TypesAlways, TypeStep, <1>1, <1>2, <1>3, PTL DEF Spec, RemovesWhatItRead

-----------------------------------------------------------------------------
(* The largest and the least of a set, and induction with a set for the    *)
(* claim.                                                                  *)

LEMMA MaxIs ==
    ASSUME NEW S \in SUBSET Int, NEW m \in S, \A y \in S : m >= y
    PROVE  Max(S) = m
<1> DEFINE IsIt(x) == x \in S /\ \A y \in S : x >= y
<1>1. Max(S) = CHOOSE x : IsIt(x)
    BY DEF Max
<1>2. IsIt(m)
    OBVIOUS
<1>3. \A x : IsIt(x) => x = m
    OBVIOUS
<1> HIDE DEF IsIt
<1> QED
    BY <1>1, <1>2, <1>3

LEMMA MinIs ==
    ASSUME NEW S \in SUBSET Int, NEW m \in S, \A y \in S : m =< y
    PROVE  Min(S) = m
<1> DEFINE IsIt(x) == x \in S /\ \A y \in S : x =< y
<1>1. Min(S) = CHOOSE x : IsIt(x)
    BY DEF Min
<1>2. IsIt(m)
    OBVIOUS
<1>3. \A x : IsIt(x) => x = m
    OBVIOUS
<1> HIDE DEF IsIt
<1> QED
    BY <1>1, <1>2, <1>3

LEMMA LeastOf ==
    ASSUME NEW S \in SUBSET Nat, S # {}
    PROVE  \E x \in S : \A y \in S : x =< y
<1>1. PICK x \in S : \A y \in S : <<y, x>> \notin OpToRel(<, Nat)
    BY NatLessThanWellFounded, WFMin
<1>2. ASSUME NEW y \in S PROVE x =< y
    <2>1. x \in Nat /\ y \in Nat
        OBVIOUS
    <2>2. ~ (y < x)
        BY <1>1, <2>1 DEF OpToRel
    <2> QED
        BY <2>1, <2>2
<1> QED
    BY <1>2

LEMMA MaxExists ==
    ASSUME NEW n \in Nat, NEW S \in SUBSET 0..n, S # {}
    PROVE  Max(S) \in S /\ \A y \in S : Max(S) >= y
<1> DEFINE below == {k \in 0..n : n - k \in S}
<1>1. below \in SUBSET Nat /\ below # {}
    <2>1. PICK y \in S : TRUE
        OBVIOUS
    <2>2. y \in 0..n /\ n - y \in 0..n /\ n - (n - y) = y
        OBVIOUS
    <2>3. n - y \in below
        BY <2>2
    <2>4. 0..n \in SUBSET Nat
        OBVIOUS
    <2>5. below \in SUBSET 0..n
        OBVIOUS
    <2> HIDE DEF below
    <2> QED
        BY <2>3, <2>4, <2>5
<1>2. PICK k \in below : \A j \in below : k =< j
    BY <1>1, LeastOf
<1>3. ASSUME NEW y \in S PROVE n - k >= y
    <2>1. n - y \in below
        OBVIOUS
    <2> QED
        BY <1>2, <2>1
<1>4. n - k \in S
    BY <1>2
<1> QED
    BY <1>3, <1>4, MaxIs

LEMMA AllNumbers ==
    ASSUME NEW S, 0 \in S, \A k \in Nat : k \in S => k + 1 \in S
    PROVE  \A k \in Nat : k \in S
<1> DEFINE missing == {k \in Nat : k \notin S}
<1>1. SUFFICES ASSUME missing # {} PROVE FALSE
    OBVIOUS
<1>2. PICK k \in missing : \A j \in missing : k =< j
    <2>1. missing \in SUBSET Nat
        OBVIOUS
    <2> QED
        BY <1>1, <2>1, LeastOf
<1>3. k \in Nat /\ k # 0
    OBVIOUS
<1>4. k - 1 \in Nat /\ k - 1 \notin missing
    BY <1>2, <1>3
<1>5. k - 1 \in S /\ (k - 1) + 1 = k
    BY <1>3, <1>4
<1> QED
    BY <1>4, <1>5

LEMMA AllSequences ==
    ASSUME NEW T, NEW S, <<>> \in S,
           \A s \in Seq(T), e \in T : s \in S => Append(s, e) \in S
    PROVE  \A s \in Seq(T) : s \in S
<1> DEFINE N == {n \in Nat : \A s \in Seq(T) : Len(s) = n => s \in S}
<1>1. 0 \in N
    BY EmptySeq
<1>2. ASSUME NEW n \in Nat, n \in N PROVE n + 1 \in N
    <2>1. ASSUME NEW s \in Seq(T), Len(s) = n + 1 PROVE s \in S
        <3>1. s # <<>>
            BY <2>1
        <3>2. PICK t \in Seq(T), e \in T : s = Append(t, e)
            BY <3>1, SequenceEmptyOrAppend
        <3>3. Len(t) = n
            BY <2>1, <3>2, AppendProperties
        <3> QED
            BY <1>2, <3>2, <3>3
    <2> QED
        BY <2>1
<1>3. \A n \in Nat : n \in N
    <2> HIDE DEF N
    <2> QED
        BY <1>1, <1>2, AllNumbers
<1> QED
    BY <1>3

-----------------------------------------------------------------------------
(* The names of files.                                                     *)

Codes == 0..255
LowCodes == 0..127
Printable == 32..126

\* What NormalChar makes of any character.
Normal == Letters \cup Digits \cup {Underscore, 45, 43, 46}

\* A text that ends in spaces from its k-th character on ends there.
LEMMA TrailingSpaces ==
    ASSUME NEW s \in Seq(Int), NEW k \in 0..Len(s),
           k > 0 => s[k] # Space,
           \A i \in (k + 1)..Len(s) : s[i] = Space
    PROVE  WithoutTrailingSpaces(s) = SubSeq(s, 1, k)
<1> DEFINE S == {0} \cup {i \in DOMAIN s : s[i] # Space}
<1>1. S \in SUBSET Int /\ k \in S
    OBVIOUS
<1>2. \A y \in S : k >= y
    OBVIOUS
<1> QED
    BY <1>1, <1>2, MaxIs DEF WithoutTrailingSpaces

LEMMA FirstBytesAre ==
    ASSUME NEW s \in Seq(Codes)
    PROVE  /\ FirstBytes(s) \in Seq(Codes)
           /\ Len(FirstBytes(s)) = IF Len(s) =< NameBytes THEN Len(s) ELSE NameBytes
           /\ \A i \in 1..Len(FirstBytes(s)) : FirstBytes(s)[i] = s[i]
<1> DEFINE m == IF Len(s) =< NameBytes THEN Len(s) ELSE NameBytes
<1>1. m \in {Len(s), NameBytes} /\ {Len(s), NameBytes} \in SUBSET Int
    BY NamesAssumption
<1>2. Min({Len(s), NameBytes}) = m
    <2>1. \A y \in {Len(s), NameBytes} : m =< y
        BY NamesAssumption
    <2> QED
        BY <1>1, <2>1, MinIs
<1>3. m \in 0..Len(s)
    BY NamesAssumption
<1>4. FirstBytes(s) = SubSeq(s, 1, m)
    BY <1>2 DEF FirstBytes
<1> HIDE DEF m
<1>5. \A i \in 1..m : s[i] \in Codes
    BY <1>3
<1>6. /\ SubSeq(s, 1, m) \in Seq(Codes) /\ Len(SubSeq(s, 1, m)) = m
      /\ \A i \in 1..m : SubSeq(s, 1, m)[i] = s[i]
    BY <1>3, <1>5, SubSeqProperties
<1> QED
    BY <1>3, <1>4, <1>6 DEF m

-----------------------------------------------------------------------------
(* Characters.                                                             *)

LEMMA NormalChars ==
    ASSUME NEW c \in Codes
    PROVE  NormalChar(c) \in Normal
  BY DEF NormalChar, Normal, Letters, Digits, LowerCase, Underscore, Codes

LEMMA NormalStays ==
    ASSUME NEW c \in Normal
    PROVE  /\ c \in Codes /\ c # Space /\ c # Pad
           /\ MapPetscii(c) = c /\ WindowsChar(c) = c /\ HostChar(c) = c
           /\ EditorChar(c) = c /\ NormalChar(c) = c
<1> USE DEF Normal, Letters, Digits, LowerCase, Underscore, Space, Pad, Codes
<1>1. c \in Codes /\ c # Space /\ c # Pad
    OBVIOUS
<1>2. MapPetscii(c) = c
    BY DEF MapPetscii
<1>3. WindowsChar(c) = c /\ HostChar(c) = c
    BY DEF WindowsChar, HostChar, Invalid
<1>4. EditorChar(c) = c
    BY DEF EditorChar
<1>5. NormalChar(c) = c
    BY DEF NormalChar
<1> QED
    BY <1>1, <1>2, <1>3, <1>4, <1>5

LEMMA PadIsASpace == MapPetscii(Pad) = Space /\ EditorChar(Pad) = Space
  BY DEF MapPetscii, EditorChar, Pad, Space, LowerCase, Letters, Digits

LEMMA CharTypes ==
    ASSUME NEW c \in Codes
    PROVE  /\ MapPetscii(c) \in LowCodes
           /\ WindowsChar(c) \in Codes /\ HostChar(c) \in Codes
           /\ EditorChar(c) \in Printable
  BY DEF Codes, LowCodes, Printable, MapPetscii, WindowsChar, HostChar, EditorChar, Space, Pad, LowerCase,
         Letters, Digits, Underscore, Invalid

\* The two conversions differ above 127 only, where PETSCII is mapped to nothing.
LEMMA SignsDoNotMatter ==
    ASSUME NEW c \in LowCodes
    PROVE  HostChar(c) = WindowsChar(c)
  BY DEF HostChar, WindowsChar, LowCodes

-----------------------------------------------------------------------------
(* Names.                                                                  *)

LEMMA UnnamedIsNormal == Unnamed \in Seq(Normal) /\ Unnamed # <<>>
<1>1. Letters \subseteq Normal
    BY DEF Normal
<1> QED
    BY <1>1, NamesAssumption, SeqMonotonic, EmptySeq

LEMMA NormalizedIsNormal ==
    ASSUME NEW s \in Seq(Codes)
    PROVE  NormalizeBaseName(s) \in Seq(Normal) /\ NormalizeBaseName(s) # <<>>
<1> DEFINE e == [i \in DOMAIN s |-> NormalChar(s[i])]
<1>1. NormalizeBaseName(s) = OrUnnamed(e)
    BY DEF NormalizeBaseName, Each
<1>2. e \in Seq(Normal)
    BY NormalChars
<1> QED
    BY <1>1, <1>2, UnnamedIsNormal DEF OrUnnamed

LEMMA NormalIsNormalized ==
    ASSUME NEW s \in Seq(Normal), s # <<>>
    PROVE  NormalizeBaseName(s) = s
<1> DEFINE e == [i \in DOMAIN s |-> NormalChar(s[i])]
<1>1. NormalizeBaseName(s) = OrUnnamed(e)
    BY DEF NormalizeBaseName, Each
<1>2. e = s
    BY NormalStays
<1> QED
    BY <1>1, <1>2 DEF OrUnnamed

\* The name in an entry ends where its padding begins, whichever of the two
\* conversions takes the padding for spaces.
LEMMA PaddingIsCut ==
    ASSUME NEW n \in Seq(Normal), n # <<>>
    PROVE  /\ PetsciiToUtf8(Padded(n)) = FirstBytes(n)
           /\ WithoutTrailingSpaces(Each(EditorChar, Padded(n))) = FirstBytes(n)
           /\ FirstBytes(n) \in Seq(Normal) /\ FirstBytes(n) # <<>>
<1> DEFINE first == FirstBytes(n)
           m == Len(first)
           e == [i \in 1..NameBytes |-> IF i =< Len(n) THEN n[i] ELSE Space]
<1>1. n \in Seq(Codes) /\ Len(n) \in Nat \ {0} /\ \A i \in 1..Len(n) : n[i] \in Normal
    BY NormalStays, SeqMonotonic
<1>2. /\ first \in Seq(Codes)
      /\ m = IF Len(n) =< NameBytes THEN Len(n) ELSE NameBytes
      /\ \A i \in 1..m : first[i] = n[i]
    BY <1>1, FirstBytesAre
<1> HIDE DEF first
<1>3. m \in 1..NameBytes /\ m =< Len(n)
    BY <1>1, <1>2, NamesAssumption
<1>4. e \in Seq(Int) /\ Len(e) = NameBytes
    <2>1. ASSUME NEW i \in 1..NameBytes PROVE e[i] \in Int
        <3>1. i =< Len(n) => n[i] \in Codes
            BY <1>1, NormalStays, NamesAssumption
        <3>2. e[i] = IF i =< Len(n) THEN n[i] ELSE Space
            OBVIOUS
        <3> HIDE DEF e
        <3> QED
            BY <3>1, <3>2 DEF Codes, Space
    <2> QED
        BY <2>1, NamesAssumption
<1>5. e[m] # Space /\ \A i \in (m + 1)..NameBytes : e[i] = Space
    BY <1>1, <1>2, <1>3, NormalStays, NamesAssumption
<1>6. WithoutTrailingSpaces(e) = SubSeq(e, 1, m)
    <2> HIDE DEF e, m
    <2> QED BY <1>3, <1>4, <1>5, TrailingSpaces, NamesAssumption
<1>7. SubSeq(e, 1, m) = first
    <2>1. \A i \in 1..m : e[i] = first[i]
        BY <1>2, <1>3, NamesAssumption
    <2> HIDE DEF e
    <2> QED
        BY <1>2, <1>3, <1>4, <2>1, NamesAssumption, SubSeqProperties, SeqEqual
<1>8. Each(MapPetscii, Padded(n)) = e
    BY <1>1, NormalStays, PadIsASpace, NamesAssumption DEF Each, Padded
<1>9. Each(EditorChar, Padded(n)) = e
    BY <1>1, NormalStays, PadIsASpace, NamesAssumption DEF Each, Padded
<1>10. first \in Seq(Normal) /\ first # <<>>
    BY <1>1, <1>2, <1>3, EmptySeq
<1> QED
    BY <1>6, <1>7, <1>8, <1>9, <1>10 DEF PetsciiToUtf8, first

LEMMA PaddedIsBytes ==
    ASSUME NEW s \in Seq(Codes)
    PROVE  Padded(s) \in Seq(Codes)
<1>1. ASSUME NEW i \in 1..NameBytes
      PROVE  (IF i =< Len(s) THEN s[i] ELSE Pad) \in Codes
    <2>1. Pad \in Codes /\ i \in Nat \ {0}
        BY NamesAssumption DEF Codes, Pad
    <2> QED
        BY <2>1
<1> QED
    BY <1>1, NamesAssumption DEF Padded

\* What is cut off a text leaves a text.
LEMMA CutIsText ==
    ASSUME NEW T \in SUBSET Int, NEW s \in Seq(T)
    PROVE  WithoutTrailingSpaces(s) \in Seq(T)
<1> DEFINE S == {0} \cup {i \in DOMAIN s : s[i] # Space}
<1>1. Len(s) \in Nat /\ S \in SUBSET 0..Len(s) /\ S # {}
    OBVIOUS
<1>2. Max(S) \in 0..Len(s)
    BY <1>1, MaxExists
<1> DEFINE m == Max(S)
<1>3. WithoutTrailingSpaces(s) = SubSeq(s, 1, m)
    BY DEF WithoutTrailingSpaces
<1> HIDE DEF m
<1>4. m \in 0..Len(s)
    BY <1>2 DEF m
<1>5. \A i \in 1..m : s[i] \in T
    BY <1>4
<1> QED
    BY <1>3, <1>4, <1>5, SubSeqProperties

\* extract and the mounts never differ, whatever the bytes are.
LEMMA HostIsWindows ==
    ASSUME NEW f \in Seq(Codes)
    PROVE  HostBase(f) = WindowsBase(f)
<1> DEFINE t == PetsciiToUtf8(f)
<1>1. Each(MapPetscii, f) \in Seq(LowCodes)
    BY CharTypes DEF Each
<1>2. t \in Seq(LowCodes)
    BY <1>1, CutIsText DEF PetsciiToUtf8, LowCodes
<1> HIDE DEF t
<1>3. [i \in DOMAIN t |-> HostChar(t[i])] = [i \in DOMAIN t |-> WindowsChar(t[i])]
    BY <1>2, SignsDoNotMatter
<1> QED
    BY <1>3 DEF HostBase, WindowsBase, Each, t

LEMMA EditorBaseIsText ==
    ASSUME NEW f \in Seq(Codes)
    PROVE  EditorBase(f) \in Seq(Codes)
<1>1. Each(EditorChar, f) \in Seq(Printable)
    BY CharTypes DEF Each
<1>2. WithoutTrailingSpaces(Each(EditorChar, f)) \in Seq(Printable)
    BY <1>1, CutIsText DEF Printable
<1>3. WithoutTrailingSpaces(Each(EditorChar, f)) \in Seq(Codes)
    BY <1>2, SeqMonotonic DEF Codes, Printable
<1>4. EditorBase(f) \in Seq(Normal)
    BY <1>3, NormalizedIsNormal DEF EditorBase
<1>5. Normal \subseteq Codes
    BY NormalStays
<1> QED
    BY <1>4, <1>5, SeqMonotonic

\* What the editor stores has one name.
LEMMA StoredHasOneName ==
    ASSUME NEW s \in Seq(Codes)
    PROVE  /\ WindowsBase(Stored(s)) = FirstBytes(NormalizeBaseName(s))
           /\ EditorBase(Stored(s)) = FirstBytes(NormalizeBaseName(s))
           /\ Stored(s) \in Seq(Codes)
<1> DEFINE n == NormalizeBaseName(s)
           first == FirstBytes(n)
<1>1. n \in Seq(Normal) /\ n # <<>>
    BY NormalizedIsNormal
<1>2. n \in Seq(Codes)
    BY <1>1, NormalStays, SeqMonotonic
<1>3. Stored(s) = Padded(n)
    BY DEF Stored
<1> HIDE DEF n
<1>4. /\ PetsciiToUtf8(Padded(n)) = first
      /\ WithoutTrailingSpaces(Each(EditorChar, Padded(n))) = first
      /\ first \in Seq(Normal) /\ first # <<>>
    BY <1>1, PaddingIsCut
<1> HIDE DEF first
<1>5. Each(WindowsChar, first) = first
    BY <1>4, NormalStays DEF Each
<1>6. WindowsBase(Stored(s)) = first
    BY <1>3, <1>4, <1>5 DEF WindowsBase, OrUnnamed
<1>7. EditorBase(Stored(s)) = first
    BY <1>3, <1>4, NormalIsNormalized DEF EditorBase
<1> QED
    BY <1>2, <1>3, <1>6, <1>7, PaddedIsBytes DEF n, first

-----------------------------------------------------------------------------
\* What the bytes of the entry are made of.
NamesInv ==
    /\ text \in Seq(Codes)
    /\ maker = "editor" => field = Stored(text)
    /\ maker = "commodore" => field = Padded(text)
    /\ maker \in {"nobody", "editor", "commodore"}

LEMMA NamesInvInit == NamesInit => NamesInv
  BY DEF NamesInit, NamesInv

LEMMA NamesInvNext == NamesInv /\ [NamesNext]_namesvars => NamesInv'
<1> SUFFICES ASSUME NamesInv, [NamesNext]_namesvars PROVE NamesInv'
    OBVIOUS
<1> USE DEF NamesInv
<1>1. ASSUME NEW c \in Typed, Type(c) PROVE NamesInv'
    <2>1. c \in Codes
        BY NamesAssumption DEF Codes
    <2> QED
        BY <1>1, <2>1 DEF Type
<1>2. CASE Import
    BY <1>2 DEF Import
<1>3. CASE Found
    BY <1>3 DEF Found
<1>4. CASE RenameToItself
    <2>1. field \in Seq(Codes)
        BY <1>4, PaddedIsBytes DEF RenameToItself
    <2>2. text' \in Seq(Codes)
        BY <1>4, <2>1, EditorBaseIsText DEF RenameToItself
    <2> QED
        BY <1>4, <2>2 DEF RenameToItself
<1>5. CASE UNCHANGED namesvars
    BY <1>5 DEF namesvars
<1> QED
    BY <1>1, <1>2, <1>3, <1>4, <1>5 DEF NamesNext

LEMMA NamesInvAgrees == NamesInv => NamesAgree
<1> SUFFICES ASSUME NamesInv PROVE NamesAgree
    OBVIOUS
<1> USE DEF NamesInv
<1>1. CASE maker = "nobody"
    BY <1>1 DEF NamesAgree, ImportedHasOneName, ExtractNamesAsMounted
<1>2. CASE maker = "editor"
    <2>1. /\ WindowsBase(field) = FirstBytes(NormalizeBaseName(text))
          /\ EditorBase(field) = FirstBytes(NormalizeBaseName(text))
          /\ field \in Seq(Codes)
        BY <1>2, StoredHasOneName
    <2>2. HostBase(field) = WindowsBase(field)
        BY <2>1, HostIsWindows
    <2> QED
        BY <2>1, <2>2 DEF NamesAgree, ImportedHasOneName, ExtractNamesAsMounted, Finds
<1>3. CASE maker = "commodore"
    <2>1. HostBase(field) = WindowsBase(field)
        BY <1>3, PaddedIsBytes, HostIsWindows
    <2> QED
        BY <1>3, <2>1 DEF NamesAgree, ImportedHasOneName, ExtractNamesAsMounted
<1> QED
    BY <1>1, <1>2, <1>3

\* Whatever is typed, for entries of any length and any name of the nameless:
\* mounts, extract and the editor spell a name alike that the editor wrote, and
\* mounts and extract any name.
THEOREM NamesAreOne == NamesSpec => []NamesAgree
<1>1. NamesSpec => []NamesInv
    BY NamesInvInit, NamesInvNext, PTL DEF NamesSpec
<1> QED
    BY <1>1, NamesInvAgrees, PTL

-----------------------------------------------------------------------------
(* Short texts, and texts that grow.                                       *)

LEMMA AppendParts ==
    ASSUME NEW T, NEW s \in Seq(T), NEW c \in T, NEW n, n = Len(s)
    PROVE  /\ n \in Nat /\ Append(s, c) \in Seq(T) /\ Append(s, c) # <<>>
           /\ Len(Append(s, c)) = n + 1 /\ Append(s, c)[n + 1] = c
           /\ \A i \in 1..n : Append(s, c)[i] = s[i]
BY AppendProperties

\* A text that starts like e, cut where e ends, is e.
LEMMA PrefixIs ==
    ASSUME NEW T, NEW r \in Seq(T), NEW e \in Seq(T), NEW n, n = Len(e),
           n =< Len(r), \A i \in 1..n : r[i] = e[i]
    PROVE  SubSeq(r, 1, n) = e
<1>1. n \in Nat
    OBVIOUS
<1>2. \A i \in 1..n : r[i] \in T
    BY <1>1
<1>3. /\ SubSeq(r, 1, n) \in Seq(T) /\ Len(SubSeq(r, 1, n)) = n
      /\ \A i \in 1..n : SubSeq(r, 1, n)[i] = r[i]
    BY <1>1, <1>2, SubSeqProperties
<1> DEFINE f == SubSeq(r, 1, n)
<1> HIDE DEF f
<1>4. f \in Seq(T) /\ Len(f) = Len(e) /\ \A i \in 1..n : f[i] = e[i]
    BY <1>3 DEF f
<1>5. f = e
    BY <1>1, <1>4, SeqEqual
<1> QED
    BY <1>5 DEF f

LEMMA AppendOne ==
    ASSUME NEW T, NEW s \in Seq(T), NEW t \in Seq(T), NEW c \in T, NEW d \in T
    PROVE  /\ s \o Append(t, c) = Append(s \o t, c)
           /\ s \o <<c, d>> = Append(Append(s, c), d)
           /\ s \o <<c>> = Append(s, c)
<1>1. s \o Append(t, c) = Append(s \o t, c)
    OBVIOUS
<1>2. s \o <<c, d>> = Append(Append(s, c), d)
    OBVIOUS
<1>3. s \o <<c>> = Append(s, c)
    OBVIOUS
<1> QED
    BY <1>1, <1>2, <1>3

LEMMA ShortSequences ==
    ASSUME NEW T, NEW c \in T, NEW d \in T
    PROVE  /\ <<>> \in Seq(T) /\ <<c>> \in Seq(T) /\ <<c, d>> \in Seq(T)
           /\ Append(<<>>, c) = <<c>> /\ Append(<<c>>, d) = <<c, d>>
           /\ <<c, d>> \o <<>> = <<c, d>> /\ <<c>> \o <<>> = <<c>>
<1>1. <<>> \in Seq(T) /\ <<c>> \in Seq(T) /\ <<c, d>> \in Seq(T)
    OBVIOUS
<1>2. Append(<<>>, c) = <<c>>
    OBVIOUS
<1>3. Append(<<c>>, d) = <<c, d>>
    <2> DEFINE u == Append(<<c>>, d)
               v == <<c, d>>
    <2>1. u \in Seq(T) /\ Len(u) = 2 /\ u[1] = c /\ u[2] = d
        <3>1. Len(<<c>>) = 1 /\ <<c>>[1] = c
            OBVIOUS
        <3> QED
            BY <1>1, <3>1, AppendProperties
    <2>2. v \in Seq(T) /\ Len(v) = 2 /\ v[1] = c /\ v[2] = d
        OBVIOUS
    <2> HIDE DEF u, v
    <2>3. \A i \in 1..Len(u) : u[i] = v[i]
        BY <2>1, <2>2
    <2>4. u = v
        BY <2>1, <2>2, <2>3, SeqEqual
    <2> QED
        BY <2>4 DEF u, v
<1>4. <<c, d>> \o <<>> = <<c, d>> /\ <<c>> \o <<>> = <<c>>
    BY <1>1, ConcatEmptySeq
<1> QED
    BY <1>1, <1>2, <1>3, <1>4

-----------------------------------------------------------------------------
(* The loops over characters and over postfix tokens: each is the fold of  *)
(* a step of its own.                                                      *)

EscapeStep(S, out, c) ==
    IF c \in S THEN out \o <<Backslash, Sign(c)>> ELSE Append(out, c)

StepOf(loop, r, c) ==
    CASE loop[1] = "tokens" -> ScanChar(r, c)
      [] loop[1] = "value" -> UnquoteChar(r, c)
      [] loop[1] = "evaluate" -> EvalToken(r, c, loop[2])
      [] loop[1] = "decode" -> DecodeChar(r, c)
      [] OTHER -> EscapeStep(loop[2], r, c)

\* The results of a loop for every set of places that it may have passed.
IsRun(loop, b, s, n, run) ==
    run = [S \in SUBSET (1..n) |->
              IF S = {} THEN b ELSE StepOf(loop, run[S \ {Max(S)}], s[Max(S)])]

LEMMA MaxOfPlaces ==
    ASSUME NEW n \in Nat, NEW S \in SUBSET (1..n), S # {}
    PROVE  Max(S) \in S
<1>1. S \in SUBSET 0..n
    OBVIOUS
<1> QED
    BY <1>1, MaxExists

LEMMA RunExists ==
    ASSUME NEW loop, NEW b, NEW s
    PROVE  \A n \in Nat : \E run : IsRun(loop, b, s, n, run)
<1> DEFINE N == {n \in Nat : \E run : IsRun(loop, b, s, n, run)}
<1>1. 0 \in N
    <2> DEFINE run == [S \in SUBSET (1..0) |-> b]
    <2>1. \A S \in SUBSET (1..0) : S = {}
        OBVIOUS
    <2>2. IsRun(loop, b, s, 0, run)
        BY <2>1 DEF IsRun
    <2> QED
        BY <2>2
<1>2. ASSUME NEW n \in Nat, n \in N PROVE n + 1 \in N
    <2>1. PICK run : IsRun(loop, b, s, n, run)
        BY <1>2
    <2> DEFINE run2 == [S \in SUBSET (1..(n + 1)) |->
                           IF n + 1 \in S
                           THEN StepOf(loop, run[S \ {n + 1}], s[n + 1])
                           ELSE run[S]]
               next == [S \in SUBSET (1..(n + 1)) |->
                           IF S = {} THEN b
                           ELSE StepOf(loop, run2[S \ {Max(S)}], s[Max(S)])]
    <2>2. ASSUME NEW S \in SUBSET (1..(n + 1)), n + 1 \in S PROVE run2[S] = next[S]
        <3>1. Max(S) = n + 1
            BY <2>2, MaxIs
        <3>2. S \ {n + 1} \in SUBSET (1..(n + 1)) /\ n + 1 \notin S \ {n + 1}
            OBVIOUS
        <3>3. run2[S \ {n + 1}] = run[S \ {n + 1}]
            BY <3>2
        <3> QED
            BY <2>2, <3>1, <3>3
    <2>3. ASSUME NEW S \in SUBSET (1..(n + 1)), n + 1 \notin S, S # {}
          PROVE  run2[S] = next[S]
        <3>1. S \in SUBSET (1..n)
            BY <2>3
        <3>2. Max(S) \in S
            BY <2>3, <3>1, MaxOfPlaces
        <3>3. /\ S \ {Max(S)} \in SUBSET (1..(n + 1))
              /\ n + 1 \notin S \ {Max(S)}
            BY <2>3
        <3>4. run2[S \ {Max(S)}] = run[S \ {Max(S)}]
            BY <3>3
        <3>5. run[S] = StepOf(loop, run[S \ {Max(S)}], s[Max(S)])
            BY <2>1, <2>3, <3>1 DEF IsRun
        <3>6. run2[S] = run[S]
            BY <2>3
        <3> QED
            BY <2>3, <3>4, <3>5, <3>6
    <2>4. run2[{}] = next[{}]
        <3>1. {} \in SUBSET (1..n) /\ {} \in SUBSET (1..(n + 1)) /\ n + 1 \notin {}
            OBVIOUS
        <3>2. run[{}] = b
            BY <2>1, <3>1 DEF IsRun
        <3> QED
            BY <3>1, <3>2
    <2>5. \A S \in SUBSET (1..(n + 1)) : run2[S] = next[S]
        BY <2>2, <2>3, <2>4
    <2>6. run2 = next
        BY <2>5
    <2>7. IsRun(loop, b, s, n + 1, run2)
        BY <2>6 DEF IsRun
    <2> QED
        BY <2>7
<1>3. \A n \in Nat : n \in N
    <2> HIDE DEF N
    <2> QED
        BY <1>1, <1>2, AllNumbers
<1> QED
    BY <1>3

\* The last turn of a loop is a step with the last character.
LEMMA RunLast ==
    ASSUME NEW loop, NEW b, NEW s, NEW n \in Nat, NEW run,
           IsRun(loop, b, s, n, run), NEW k \in Nat, k + 1 =< n
    PROVE  run[1..(k + 1)] = StepOf(loop, run[1..k], s[k + 1])
<1> DEFINE S == 1..(k + 1)
<1>1. S \in SUBSET (1..n) /\ S # {} /\ k + 1 \in S /\ S \in SUBSET Int
    OBVIOUS
<1>2. \A y \in S : k + 1 >= y
    OBVIOUS
<1>3. S \ {k + 1} = 1..k
    OBVIOUS
<1> HIDE DEF S
<1>4. Max(S) = k + 1
    BY <1>1, <1>2, MaxIs
<1>5. run[S] = StepOf(loop, run[S \ {Max(S)}], s[Max(S)])
    BY <1>1 DEF IsRun
<1> QED
    BY <1>3, <1>4, <1>5 DEF S

LEMMA RunFirst ==
    ASSUME NEW loop, NEW b, NEW s, NEW n \in Nat, NEW run,
           IsRun(loop, b, s, n, run)
    PROVE  run[1..0] = b
<1>1. 1..0 \in SUBSET (1..n) /\ 1..0 = {}
    OBVIOUS
<1> QED
    BY <1>1 DEF IsRun

\* Loops over two texts go alike as far as the texts are alike.
LEMMA RunsAgree ==
    ASSUME NEW loop, NEW b, NEW s, NEW t, NEW n \in Nat, NEW m \in Nat, n =< m,
           NEW run, IsRun(loop, b, s, n, run),
           NEW run2, IsRun(loop, b, t, m, run2),
           \A i \in 1..n : s[i] = t[i]
    PROVE  run[1..n] = run2[1..n]
<1> DEFINE N == {k \in Nat : k =< n => run[1..k] = run2[1..k]}
<1>1. 0 \in N
    BY RunFirst
<1>2. ASSUME NEW k \in Nat, k \in N PROVE k + 1 \in N
    <2>1. SUFFICES ASSUME k + 1 =< n PROVE run[1..(k + 1)] = run2[1..(k + 1)]
        OBVIOUS
    <2>2. k + 1 \in 1..n /\ k + 1 =< m
        BY <2>1
    <2>3. run[1..(k + 1)] = StepOf(loop, run[1..k], s[k + 1])
        BY ONLY n \in Nat, k \in Nat, IsRun(loop, b, s, n, run), k + 1 =< n, RunLast
    <2>4. run2[1..(k + 1)] = StepOf(loop, run2[1..k], t[k + 1])
        BY ONLY m \in Nat, k \in Nat, IsRun(loop, b, t, m, run2), <2>2, RunLast
    <2> QED
        BY <1>2, <2>1, <2>2, <2>3, <2>4
<1>3. \A k \in Nat : k \in N
    <2> HIDE DEF N
    <2> QED
        BY <1>1, <1>2, AllNumbers
<1> QED
    BY <1>3

\* What a loop makes of a text.
Loop(loop, b, s) == (CHOOSE run : IsRun(loop, b, s, Len(s), run))[1..Len(s)]

LEMMA LoopIs ==
    ASSUME NEW T, NEW s \in Seq(T), NEW loop, NEW b, NEW run,
           IsRun(loop, b, s, Len(s), run)
    PROVE  Loop(loop, b, s) = run[1..Len(s)]
<1> DEFINE other == CHOOSE r : IsRun(loop, b, s, Len(s), r)
<1>1. IsRun(loop, b, s, Len(s), other)
    OBVIOUS
<1>2. other[1..Len(s)] = run[1..Len(s)]
    <2>1. Len(s) \in Nat
        OBVIOUS
    <2> HIDE DEF other
    <2> QED
        BY <1>1, <2>1, RunsAgree
<1> QED
    BY <1>2 DEF Loop

LEMMA LoopFirst ==
    ASSUME NEW loop, NEW b
    PROVE  Loop(loop, b, <<>>) = b
<1>1. PICK run : IsRun(loop, b, <<>>, 0, run)
    BY RunExists
<1>2. <<>> \in Seq({}) /\ Len(<<>>) = 0
    OBVIOUS
<1>3. run[1..0] = b
    BY <1>1, RunFirst
<1>4. Loop(loop, b, <<>>) = run[1..0]
    BY <1>1, <1>2, LoopIs
<1> QED
    BY <1>3, <1>4

LEMMA LoopNext ==
    ASSUME NEW T, NEW s \in Seq(T), NEW c \in T, NEW loop, NEW b
    PROVE  Loop(loop, b, Append(s, c)) = StepOf(loop, Loop(loop, b, s), c)
<1> DEFINE t == Append(s, c)
           n == Len(s)
<1>1. /\ n \in Nat /\ t \in Seq(T) /\ Len(t) = n + 1 /\ t[n + 1] = c
      /\ \A i \in 1..n : t[i] = s[i]
    BY AppendProperties
<1>2. PICK run : IsRun(loop, b, s, n, run)
    BY <1>1, RunExists
<1>3. PICK run2 : IsRun(loop, b, t, n + 1, run2)
    <2>1. n + 1 \in Nat
        BY <1>1
    <2> QED
        BY <2>1, RunExists
<1> HIDE DEF t
<1>4. Loop(loop, b, s) = run[1..n]
    BY <1>2, LoopIs
<1>5. Loop(loop, b, t) = run2[1..(n + 1)]
    BY <1>1, <1>3, LoopIs
<1>6. run[1..n] = run2[1..n]
    <2>1. n + 1 \in Nat /\ n =< n + 1 /\ \A i \in 1..n : s[i] = t[i]
        BY <1>1
    <2> QED
        BY <1>1, <1>2, <1>3, <2>1, RunsAgree
<1>7. run2[1..(n + 1)] = StepOf(loop, run2[1..n], c)
    <2>1. n + 1 \in Nat /\ n + 1 =< n + 1
        BY <1>1
    <2>2. run2[1..(n + 1)] = StepOf(loop, run2[1..n], t[n + 1])
        <3> DEFINE m == n + 1
        <3>1. m \in Nat /\ n + 1 =< m /\ IsRun(loop, b, t, m, run2)
            BY <1>3, <2>1
        <3>2. n \in Nat
            BY <1>1
        <3> HIDE DEF m, n
        <3>3. \A k \in Nat : k + 1 =< m =>
                run2[1..(k + 1)] = StepOf(loop, run2[1..k], t[k + 1])
            BY ONLY <3>1, RunLast
        <3> QED
            BY <3>1, <3>2, <3>3
    <2> QED
        BY <1>1, <2>1, <2>2
<1> QED
    BY <1>4, <1>5, <1>6, <1>7 DEF t

-----------------------------------------------------------------------------
(* What the folds of the model are.                                        *)

LEMMA TokensLoop ==
    ASSUME NEW T, NEW s \in Seq(T), NEW b
    PROVE  FoldLeft(ScanChar, b, s) = Loop(<<"tokens">>, b, s)
<1> DEFINE Is(run) == run = [S \in SUBSET (1..Len(s)) |->
                                 IF S = {} THEN b
                                 ELSE ScanChar(run[S \ {Max(S)}], s[Max(S)])]
<1>1. DOMAIN s = 1..Len(s) /\ Len(s) \in Nat
    OBVIOUS
<1>2. FoldLeft(ScanChar, b, s) = (CHOOSE run : Is(run))[1..Len(s)]
    BY <1>1 DEF FoldLeft, MapThenFoldSet
<1>3. ASSUME NEW run PROVE Is(run) <=> IsRun(<<"tokens">>, b, s, Len(s), run)
    BY DEF IsRun, StepOf
<1>4. PICK run : IsRun(<<"tokens">>, b, s, Len(s), run)
    BY <1>1, RunExists
<1>5. \E r : Is(r)
    BY <1>3, <1>4
<1> HIDE DEF Is
<1>6. Is(CHOOSE r : Is(r))
    BY <1>5
<1> QED
    BY <1>2, <1>3, <1>6, LoopIs

LEMMA ValueLoop ==
    ASSUME NEW T, NEW s \in Seq(T)
    PROVE  Unquote(s) = Loop(<<"value">>, [value |-> <<>>, escaped |-> FALSE], s)
<1> DEFINE b == [value |-> <<>>, escaped |-> FALSE]
           Is(run) == run = [S \in SUBSET (1..Len(s)) |->
                                 IF S = {} THEN b
                                 ELSE UnquoteChar(run[S \ {Max(S)}], s[Max(S)])]
<1>1. DOMAIN s = 1..Len(s) /\ Len(s) \in Nat
    OBVIOUS
<1>2. Unquote(s) = (CHOOSE run : Is(run))[1..Len(s)]
    BY <1>1 DEF Unquote, FoldLeft, MapThenFoldSet
<1> HIDE DEF b
<1>3. ASSUME NEW run PROVE Is(run) <=> IsRun(<<"value">>, b, s, Len(s), run)
    BY DEF IsRun, StepOf
<1>4. PICK run : IsRun(<<"value">>, b, s, Len(s), run)
    BY <1>1, RunExists
<1>5. \E r : Is(r)
    BY <1>3, <1>4
<1> HIDE DEF Is
<1>6. Is(CHOOSE r : Is(r))
    BY <1>5
<1> QED
    BY <1>2, <1>3, <1>6, LoopIs DEF b

LEMMA EscapeLoop ==
    ASSUME NEW E, NEW T, NEW s \in Seq(T)
    PROVE  EscapedChars(E, s) = Loop(<<"escape", E>>, <<>>, s)
<1> DEFINE Is(run) == run = [S \in SUBSET (1..Len(s)) |->
                                 IF S = {} THEN <<>>
                                 ELSE EscapeStep(E, run[S \ {Max(S)}], s[Max(S)])]
<1>1. DOMAIN s = 1..Len(s) /\ Len(s) \in Nat
    OBVIOUS
<1>2. EscapedChars(E, s) = (CHOOSE run : Is(run))[1..Len(s)]
    BY <1>1 DEF EscapedChars, FoldLeft, MapThenFoldSet, EscapeStep
<1>3. ASSUME NEW run PROVE Is(run) <=> IsRun(<<"escape", E>>, <<>>, s, Len(s), run)
    BY DEF IsRun, StepOf
<1>4. PICK run : IsRun(<<"escape", E>>, <<>>, s, Len(s), run)
    BY <1>1, RunExists
<1>5. \E r : Is(r)
    BY <1>3, <1>4
<1> HIDE DEF Is
<1>6. Is(CHOOSE r : Is(r))
    BY <1>5
<1> QED
    BY <1>2, <1>3, <1>6, LoopIs

LEMMA DecodeLoop ==
    ASSUME NEW T, NEW s \in Seq(T)
    PROVE  Decoded(s) = Loop(<<"decode">>, [value |-> <<>>, escaped |-> FALSE], s).value
<1> DEFINE b == [value |-> <<>>, escaped |-> FALSE]
           Is(run) == run = [S \in SUBSET (1..Len(s)) |->
                                 IF S = {} THEN b
                                 ELSE DecodeChar(run[S \ {Max(S)}], s[Max(S)])]
<1>1. DOMAIN s = 1..Len(s) /\ Len(s) \in Nat
    OBVIOUS
<1>2. Decoded(s) = (CHOOSE run : Is(run))[1..Len(s)].value
    BY <1>1 DEF Decoded, FoldLeft, MapThenFoldSet
<1> HIDE DEF b
<1>3. ASSUME NEW run PROVE Is(run) <=> IsRun(<<"decode">>, b, s, Len(s), run)
    BY DEF IsRun, StepOf
<1>4. PICK run : IsRun(<<"decode">>, b, s, Len(s), run)
    BY <1>1, RunExists
<1>5. \E r : Is(r)
    BY <1>3, <1>4
<1> HIDE DEF Is
<1>6. Is(CHOOSE r : Is(r))
    BY <1>5
<1>7. (CHOOSE r : Is(r))[1..Len(s)] = Loop(<<"decode">>, b, s)
    BY <1>3, <1>6, LoopIs
<1> QED
    BY <1>2, <1>7 DEF b

-----------------------------------------------------------------------------
(* Characters and sequences of them.                                       *)

\* What tokens are made of.
Alphabet == Chars \cup {Field, "}"}

LEMMA CharsDiffer ==
    /\ Field \notin {Quote, Backslash, Blank, Newline, Parenthesis}
    /\ Quote \notin {Backslash, Blank, Newline, Parenthesis, "}", "n"}
    /\ Backslash \notin {Blank, Newline, Parenthesis, "}", "n"}
  BY DEF Field, Quote, Backslash, Blank, Newline, Parenthesis

\* Of the escaped characters only the newline changes.
LEMMA Signs ==
    /\ Sign(Quote) = Quote /\ Sign(Backslash) = Backslash /\ Sign(Newline) = "n"
    /\ Sign(Newline) \notin {Quote, Backslash}
  BY CharsDiffer DEF Sign

LEMMA InAlphabet ==
    {Field, Quote, Backslash, Blank, Newline, Parenthesis, "}", "n"} \subseteq Alphabet
  BY DEF Alphabet, Chars

-----------------------------------------------------------------------------
(* Escaping, and back.                                                     *)

LEMMA EscapeFirst == ASSUME NEW E PROVE EscapedChars(E, <<>>) = <<>>
<1> DEFINE loop == <<"escape", E>>
<1>1. <<>> \in Seq({})
    OBVIOUS
<1>2. EscapedChars(E, <<>>) = Loop(loop, <<>>, <<>>)
    BY <1>1, EscapeLoop
<1> HIDE DEF loop
<1>3. Loop(loop, <<>>, <<>>) = <<>>
    BY LoopFirst
<1> QED
    BY <1>2, <1>3

LEMMA EscapeNext ==
    ASSUME NEW E, NEW T, NEW s \in Seq(T), NEW c \in T
    PROVE  EscapedChars(E, Append(s, c)) = EscapeStep(E, EscapedChars(E, s), c)
<1> DEFINE loop == <<"escape", E>>
<1>1. Append(s, c) \in Seq(T)
    OBVIOUS
<1>2. \A r : StepOf(loop, r, c) = EscapeStep(E, r, c)
    BY DEF StepOf
<1>3. EscapedChars(E, Append(s, c)) = Loop(loop, <<>>, Append(s, c))
    BY <1>1, EscapeLoop
<1>4. EscapedChars(E, s) = Loop(loop, <<>>, s)
    BY EscapeLoop
<1> HIDE DEF loop
<1>5. Loop(loop, <<>>, Append(s, c)) = StepOf(loop, Loop(loop, <<>>, s), c)
    BY LoopNext
<1> QED
    BY <1>2, <1>3, <1>4, <1>5

LEMMA EscapeIsText ==
    ASSUME NEW E, NEW s \in Seq(Alphabet)
    PROVE  EscapedChars(E, s) \in Seq(Alphabet)
<1> DEFINE S == {x \in Seq(Alphabet) : EscapedChars(E, x) \in Seq(Alphabet)}
<1>1. <<>> \in S
    BY EscapeFirst, EmptySeq
<1>2. ASSUME NEW x \in Seq(Alphabet), NEW c \in Alphabet, x \in S
      PROVE  Append(x, c) \in S
    <2>1. EscapedChars(E, Append(x, c)) = EscapeStep(E, EscapedChars(E, x), c)
        BY EscapeNext
    <2>2. EscapedChars(E, x) \in Seq(Alphabet)
        BY <1>2
    <2>3. EscapeStep(E, EscapedChars(E, x), c) \in Seq(Alphabet)
        <3>1. Sign(c) \in Alphabet
            BY InAlphabet DEF Sign
        <3>2. <<Backslash, Sign(c)>> \in Seq(Alphabet)
            BY <3>1, InAlphabet, ShortSequences
        <3> QED
            BY <2>2, <3>2 DEF EscapeStep
    <2>4. Append(x, c) \in Seq(Alphabet)
        OBVIOUS
    <2> QED
        BY <2>1, <2>3, <2>4
<1>3. \A x \in Seq(Alphabet) : x \in S
    <2> HIDE DEF S
    <2> QED
        BY <1>1, <1>2, AllSequences
<1> QED
    BY <1>3

\* What the user and the normalized form escape, and what the sink does.
Marks == {Quote, Backslash}
SinkMarks == {Quote, Backslash, Newline}
Escape(s) == EscapedChars(Marks, s)

Read(v, e) == [value |-> v, escaped |-> e]

LEMMA UnquoteFirst == Unquote(<<>>) = Read(<<>>, FALSE)
<1>1. <<>> \in Seq({})
    OBVIOUS
<1> QED
    BY <1>1, ValueLoop, LoopFirst DEF Read

LEMMA UnquoteNext ==
    ASSUME NEW T, NEW s \in Seq(T), NEW c \in T
    PROVE  Unquote(Append(s, c)) = UnquoteChar(Unquote(s), c)
<1> DEFINE b == Read(<<>>, FALSE)
<1>1. Append(s, c) \in Seq(T)
    OBVIOUS
<1>2. Unquote(Append(s, c)) = Loop(<<"value">>, b, Append(s, c))
    BY <1>1, ValueLoop DEF Read
<1>3. Unquote(s) = Loop(<<"value">>, b, s)
    BY ValueLoop DEF Read
<1> HIDE DEF b
<1>4. Loop(<<"value">>, b, Append(s, c)) = StepOf(<<"value">>, Loop(<<"value">>, b, s), c)
    BY LoopNext
<1> QED
    BY <1>2, <1>3, <1>4 DEF StepOf

LEMMA UnquoteIsText ==
    ASSUME NEW s \in Seq(Alphabet)
    PROVE  Unquote(s) \in [value : Seq(Alphabet), escaped : BOOLEAN]
<1> DEFINE Reads == [value : Seq(Alphabet), escaped : BOOLEAN]
           S == {x \in Seq(Alphabet) : Unquote(x) \in Reads}
<1>1. <<>> \in S
    <2>1. <<>> \in Seq(Alphabet) /\ Read(<<>>, FALSE) \in Reads
        BY DEF Read
    <2> QED
        BY <2>1, UnquoteFirst
<1>2. ASSUME NEW x \in Seq(Alphabet), NEW c \in Alphabet, x \in S
      PROVE  Append(x, c) \in S
    <2>1. Unquote(Append(x, c)) = UnquoteChar(Unquote(x), c)
        BY UnquoteNext
    <2>2. ASSUME NEW r \in Reads PROVE UnquoteChar(r, c) \in Reads
        <3>1. /\ r.value \in Seq(Alphabet) /\ r.escaped \in BOOLEAN
              /\ r = [value |-> r.value, escaped |-> r.escaped]
            OBVIOUS
        <3>2. <<Backslash, c>> \in Seq(Alphabet)
            BY InAlphabet, ShortSequences
        <3>3. Append(r.value, c) \in Seq(Alphabet)
            BY <3>1
        <3>4. r.value \o <<Backslash, c>> \in Seq(Alphabet)
            BY <3>1, <3>2
        <3> QED
            BY <3>1, <3>3, <3>4 DEF UnquoteChar
    <2>3. Unquote(x) \in Reads /\ Append(x, c) \in Seq(Alphabet)
        BY <1>2
    <2> HIDE DEF Reads
    <2> QED
        BY <2>1, <2>2, <2>3
<1>3. \A x \in Seq(Alphabet) : x \in S
    <2> HIDE DEF S
    <2> QED
        BY <1>1, <1>2, AllSequences
<1> QED
    BY <1>3

\* Escaping is undone, for any text.
LEMMA EscapedComesBack ==
    ASSUME NEW s \in Seq(Alphabet)
    PROVE  Unquote(Escape(s)) = Read(s, FALSE)
<1> DEFINE S == {x \in Seq(Alphabet) : Unquote(Escape(x)) = Read(x, FALSE)}
<1>1. <<>> \in S
    BY EscapeFirst, UnquoteFirst, EmptySeq DEF Escape
<1>2. ASSUME NEW x \in Seq(Alphabet), NEW c \in Alphabet, x \in S
      PROVE  Append(x, c) \in S
    <2> DEFINE e == Escape(x)
    <2>1. e \in Seq(Alphabet) /\ Unquote(e) = Read(x, FALSE) /\ Backslash \in Alphabet
        BY <1>2, EscapeIsText, InAlphabet DEF Escape
    <2>5. Append(x, c) \in Seq(Alphabet)
        OBVIOUS
    <2>2. Escape(Append(x, c)) = EscapeStep(Marks, e, c)
        BY EscapeNext DEF Escape
    <2> HIDE DEF e
    <2>3. CASE c \in {Quote, Backslash}
        <3>1. EscapeStep(Marks, e, c) = Append(Append(e, Backslash), c)
            BY <2>1, <2>3, AppendOne, Signs DEF EscapeStep, Marks
        <3>2. Append(e, Backslash) \in Seq(Alphabet)
            BY <2>1
        <3>3. Unquote(Append(e, Backslash)) = Read(x, TRUE)
            <4>1. Unquote(Append(e, Backslash)) = UnquoteChar(Read(x, FALSE), Backslash)
                BY <2>1, UnquoteNext
            <4> QED
                BY <4>1 DEF UnquoteChar, Read
        <3>4. Unquote(Append(Append(e, Backslash), c)) = UnquoteChar(Read(x, TRUE), c)
            BY <3>2, <3>3, UnquoteNext
        <3>5. UnquoteChar(Read(x, TRUE), c) = Read(Append(x, c), FALSE)
            BY <2>3 DEF UnquoteChar, Read
        <3> QED
            BY <2>2, <2>5, <3>1, <3>4, <3>5
    <2>4. CASE c \notin {Quote, Backslash}
        <3>1. EscapeStep(Marks, e, c) = Append(e, c)
            BY <2>4 DEF EscapeStep, Marks
        <3>2. Unquote(Append(e, c)) = UnquoteChar(Read(x, FALSE), c)
            BY <2>1, UnquoteNext
        <3>3. UnquoteChar(Read(x, FALSE), c) = Read(Append(x, c), FALSE)
            BY <2>4 DEF UnquoteChar, Read
        <3> QED
            BY <2>2, <2>5, <3>1, <3>2, <3>3
    <2> QED
        BY <2>3, <2>4
<1>3. \A x \in Seq(Alphabet) : x \in S
    <2> HIDE DEF S
    <2> QED
        BY <1>1, <1>2, AllSequences
<1> QED
    BY <1>3

Decode(s) == Loop(<<"decode">>, Read(<<>>, FALSE), s)

LEMMA DecodeFirst == Decode(<<>>) = Read(<<>>, FALSE)
<1>1. <<>> \in Seq({})
    OBVIOUS
<1> QED
    BY <1>1, LoopFirst DEF Decode

LEMMA DecodeNext ==
    ASSUME NEW T, NEW s \in Seq(T), NEW c \in T
    PROVE  Decode(Append(s, c)) = DecodeChar(Decode(s), c)
<1> DEFINE b == Read(<<>>, FALSE)
           loop == <<"decode">>
<1>1. \A r : StepOf(loop, r, c) = DecodeChar(r, c)
    BY DEF StepOf
<1>2. Decode(Append(s, c)) = Loop(loop, b, Append(s, c)) /\ Decode(s) = Loop(loop, b, s)
    BY DEF Decode
<1> HIDE DEF b, loop
<1>3. Loop(loop, b, Append(s, c)) = StepOf(loop, Loop(loop, b, s), c)
    BY LoopNext
<1> QED
    BY <1>1, <1>2, <1>3

\* A JSON parser undoes what the sink did, for any text.
LEMMA EscapedIsDecoded ==
    ASSUME NEW s \in Seq(Alphabet)
    PROVE  Decoded(EscapeJson(s)) = s
<1> DEFINE S == {x \in Seq(Alphabet) : Decode(EscapeJson(x)) = Read(x, FALSE)}
<1>1. <<>> \in S
    BY EscapeFirst, DecodeFirst, EmptySeq DEF EscapeJson
<1>2. ASSUME NEW x \in Seq(Alphabet), NEW c \in Alphabet, x \in S
      PROVE  Append(x, c) \in S
    <2> DEFINE e == EscapeJson(x)
    <2>1. e \in Seq(Alphabet) /\ Decode(e) = Read(x, FALSE) /\ Backslash \in Alphabet
        BY <1>2, EscapeIsText, InAlphabet DEF EscapeJson
    <2>2. EscapeJson(Append(x, c)) = EscapeStep(SinkMarks, e, c)
        BY EscapeNext DEF EscapeJson, SinkMarks
    <2>5. Append(x, c) \in Seq(Alphabet)
        OBVIOUS
    <2> HIDE DEF e
    <2>3. CASE c \in SinkMarks
        <3> DEFINE d == Sign(c)
        <3>d. d \in Alphabet /\ (IF d = "n" THEN Newline ELSE d) = c
            BY <2>3, Signs, InAlphabet, CharsDiffer DEF SinkMarks
        <3>1. EscapeStep(SinkMarks, e, c) = Append(Append(e, Backslash), d)
            BY <2>1, <2>3, <3>d, AppendOne DEF EscapeStep
        <3> HIDE DEF d
        <3>2. Append(e, Backslash) \in Seq(Alphabet)
            BY <2>1
        <3>3. Decode(Append(e, Backslash)) = Read(x, TRUE)
            <4>1. Decode(Append(e, Backslash)) = DecodeChar(Read(x, FALSE), Backslash)
                BY <2>1, DecodeNext
            <4> QED
                BY <4>1 DEF DecodeChar, Read
        <3>4. Decode(Append(Append(e, Backslash), d)) = DecodeChar(Read(x, TRUE), d)
            BY <3>2, <3>3, <3>d, DecodeNext
        <3>5. DecodeChar(Read(x, TRUE), d) = Read(Append(x, c), FALSE)
            BY <3>d DEF DecodeChar, Read
        <3> QED
            BY <2>2, <2>5, <3>1, <3>4, <3>5
    <2>4. CASE c \notin SinkMarks
        <3>1. EscapeStep(SinkMarks, e, c) = Append(e, c)
            BY <2>4 DEF EscapeStep
        <3>2. Decode(Append(e, c)) = DecodeChar(Read(x, FALSE), c)
            BY <2>1, DecodeNext
        <3>3. DecodeChar(Read(x, FALSE), c) = Read(Append(x, c), FALSE)
            BY <2>4 DEF DecodeChar, Read, SinkMarks
        <3> QED
            BY <2>2, <2>5, <3>1, <3>2, <3>3
    <2> QED
        BY <2>3, <2>4
<1>3. \A x \in Seq(Alphabet) : x \in S
    <2> HIDE DEF S
    <2> QED
        BY <1>1, <1>2, AllSequences
<1>4. EscapeJson(s) \in Seq(Alphabet)
    BY EscapeIsText DEF EscapeJson
<1>5. Decoded(EscapeJson(s)) = Decode(EscapeJson(s)).value
    BY <1>4, DecodeLoop DEF Decode, Read
<1> QED
    BY <1>3, <1>5 DEF Read

-----------------------------------------------------------------------------
(* The tokenizer.                                                          *)

Scanned(s) == FoldLeft(ScanChar, StartScan(<<>>), s)

Scanner(tokens, current, quoted) ==
    [tokens |-> tokens, current |-> current, quoted |-> quoted, escaped |-> FALSE]

LEMMA ScannedFirst == Scanned(<<>>) = Scanner(<<>>, <<>>, FALSE)
<1>1. <<>> \in Seq({})
    OBVIOUS
<1> QED
    BY <1>1, TokensLoop, LoopFirst DEF Scanned, Scanner, StartScan

LEMMA ScannedNext ==
    ASSUME NEW T, NEW s \in Seq(T), NEW c \in T
    PROVE  Scanned(Append(s, c)) = ScanChar(Scanned(s), c)
<1> DEFINE b == StartScan(<<>>)
<1>1. Append(s, c) \in Seq(T)
    OBVIOUS
<1>2. Scanned(Append(s, c)) = Loop(<<"tokens">>, b, Append(s, c))
    BY <1>1, TokensLoop DEF Scanned
<1>3. Scanned(s) = Loop(<<"tokens">>, b, s)
    BY TokensLoop DEF Scanned
<1> HIDE DEF b
<1>4. Loop(<<"tokens">>, b, Append(s, c)) = StepOf(<<"tokens">>, Loop(<<"tokens">>, b, s), c)
    BY LoopNext
<1> QED
    BY <1>2, <1>3, <1>4 DEF StepOf

LEMMA FieldIsScanned == Scanned(<<Field>>) = Scanner(<<>>, <<Field>>, FALSE)
<1>1. <<>> \in Seq(Alphabet) /\ Field \in Alphabet /\ Append(<<>>, Field) = <<Field>>
    BY InAlphabet, ShortSequences
<1>2. Scanned(<<Field>>) = ScanChar(Scanner(<<>>, <<>>, FALSE), Field)
    BY <1>1, ScannedFirst, ScannedNext
<1> QED
    BY <1>1, <1>2, CharsDiffer DEF ScanChar, Scanner, White

\* A word without quotes, blanks and parentheses stays in the token.
LEMMA PlainIsScanned ==
    ASSUME NEW s \in Seq(Alphabet),
           ToSet(s) \cap (White \cup {Parenthesis, Quote}) = {}
    PROVE  Scanned(<<Field>> \o s) = Scanner(<<>>, <<Field>> \o s, FALSE)
<1> DEFINE Plain(x) == \A i \in 1..Len(x) : x[i] \notin (White \cup {Parenthesis, Quote})
           S == {x \in Seq(Alphabet) :
                    Plain(x) => Scanned(<<Field>> \o x) = Scanner(<<>>, <<Field>> \o x, FALSE)}
<1>1. <<>> \in S
    <2>1. <<Field>> \o <<>> = <<Field>> /\ <<>> \in Seq(Alphabet)
        OBVIOUS
    <2> QED
        BY <2>1, FieldIsScanned
<1>2. ASSUME NEW x \in Seq(Alphabet), NEW c \in Alphabet, x \in S
      PROVE  Append(x, c) \in S
    <2>1. SUFFICES ASSUME Plain(Append(x, c))
          PROVE  Scanned(<<Field>> \o Append(x, c))
                    = Scanner(<<>>, <<Field>> \o Append(x, c), FALSE)
        BY AppendProperties
    <2>2. Plain(x) /\ c \notin (White \cup {Parenthesis, Quote})
        <3>1. /\ Len(Append(x, c)) = Len(x) + 1 /\ Len(x) \in Nat
              /\ \A i \in 1..Len(x) : Append(x, c)[i] = x[i]
              /\ Append(x, c)[Len(x) + 1] = c
            BY AppendProperties
        <3> QED
            BY <2>1, <3>1
    <2> HIDE DEF Plain
    <2> DEFINE w == <<Field>> \o x
    <2>3. w \in Seq(Alphabet) /\ <<Field>> \o Append(x, c) = Append(w, c)
        <3>1. <<Field>> \in Seq(Alphabet)
            BY InAlphabet, ShortSequences
        <3> QED
            BY <3>1, AppendOne
    <2>4. Scanned(w) = Scanner(<<>>, w, FALSE)
        BY <1>2, <2>2
    <2> HIDE DEF w
    <2>5. Scanned(Append(w, c)) = ScanChar(Scanner(<<>>, w, FALSE), c)
        BY <2>3, <2>4, ScannedNext
    <2>6. ScanChar(Scanner(<<>>, w, FALSE), c) = Scanner(<<>>, Append(w, c), FALSE)
        BY <2>2 DEF ScanChar, Scanner
    <2> QED
        BY <2>3, <2>5, <2>6
<1>3. \A x \in Seq(Alphabet) : x \in S
    <2> HIDE DEF S
    <2> QED
        BY <1>1, <1>2, AllSequences
<1>4. Plain(s)
    <2>1. ASSUME NEW i \in 1..Len(s) PROVE s[i] \in ToSet(s)
        BY DEF ToSet
    <2> QED
        BY <2>1
<1> QED
    BY <1>3, <1>4

\* Inside quotes an escaped text stays in the token, and in the quotes.
LEMMA QuotedIsScanned ==
    ASSUME NEW s \in Seq(Alphabet)
    PROVE  Scanned(<<Field, Quote>> \o Escape(s))
              = Scanner(<<>>, <<Field, Quote>> \o Escape(s), TRUE)
<1> DEFINE S == {x \in Seq(Alphabet) :
                    Scanned(<<Field, Quote>> \o Escape(x))
                       = Scanner(<<>>, <<Field, Quote>> \o Escape(x), TRUE)}
<1>1. <<>> \in S
    <2>1. /\ <<Field, Quote>> \o <<>> = <<Field, Quote>> /\ <<>> \in Seq(Alphabet)
          /\ <<Field>> \in Seq(Alphabet) /\ Quote \in Alphabet
          /\ Append(<<Field>>, Quote) = <<Field, Quote>>
        BY InAlphabet, ShortSequences
    <2>2. Scanned(<<Field, Quote>>) = ScanChar(Scanner(<<>>, <<Field>>, FALSE), Quote)
        BY <2>1, FieldIsScanned, ScannedNext
    <2>3. Scanned(<<Field, Quote>>) = Scanner(<<>>, <<Field, Quote>>, TRUE)
        <3> DEFINE u == <<Field>>
        <3>1. Scanned(<<Field, Quote>>) = ScanChar(Scanner(<<>>, u, FALSE), Quote)
            BY <2>2
        <3> HIDE DEF u
        <3>2. ScanChar(Scanner(<<>>, u, FALSE), Quote) = Scanner(<<>>, Append(u, Quote), TRUE)
            BY CharsDiffer DEF ScanChar, Scanner, White
        <3> QED
            BY <2>1, <3>1, <3>2 DEF u
    <2> QED
        BY <2>1, <2>3, EscapeFirst DEF Escape
<1>2. ASSUME NEW x \in Seq(Alphabet), NEW c \in Alphabet, x \in S
      PROVE  Append(x, c) \in S
    <2> DEFINE w == <<Field, Quote>> \o Escape(x)
    <2>1. Escape(x) \in Seq(Alphabet) /\ Backslash \in Alphabet
        BY EscapeIsText, InAlphabet DEF Escape
    <2>2. <<Field, Quote>> \in Seq(Alphabet) /\ w \in Seq(Alphabet)
        <3>1. <<Field, Quote>> \in Seq(Alphabet)
            BY InAlphabet, ShortSequences
        <3> QED
            BY <2>1, <3>1
    <2>7. Append(x, c) \in Seq(Alphabet)
        OBVIOUS
    <2>3. Scanned(w) = Scanner(<<>>, w, TRUE)
        BY <1>2
    <2>4. Escape(Append(x, c)) = EscapeStep(Marks, Escape(x), c)
        BY EscapeNext DEF Escape
    <2>5. CASE c \in {Quote, Backslash}
        <3>1. Escape(Append(x, c)) = Append(Append(Escape(x), Backslash), c)
            BY <2>1, <2>4, <2>5, AppendOne, Signs DEF EscapeStep, Marks
        <3>2. Append(Escape(x), Backslash) \in Seq(Alphabet)
            BY <2>1
        <3>3. <<Field, Quote>> \o Escape(Append(x, c)) = Append(Append(w, Backslash), c)
            <4>1. <<Field, Quote>> \o Append(Append(Escape(x), Backslash), c)
                    = Append(<<Field, Quote>> \o Append(Escape(x), Backslash), c)
                BY <2>2, <3>2, AppendOne
            <4>2. <<Field, Quote>> \o Append(Escape(x), Backslash) = Append(w, Backslash)
                BY <2>1, <2>2, AppendOne
            <4> QED
                BY <3>1, <4>1, <4>2
        <3> HIDE DEF w
        <3>4. Scanned(Append(w, Backslash)) = ScanChar(Scanner(<<>>, w, TRUE), Backslash)
            BY <2>1, <2>2, <2>3, ScannedNext
        <3>5. Scanned(Append(w, Backslash))
                = [tokens |-> <<>>, current |-> Append(w, Backslash),
                   quoted |-> TRUE, escaped |-> TRUE]
            BY <3>4, CharsDiffer DEF ScanChar, Scanner
        <3>6. Append(w, Backslash) \in Seq(Alphabet)
            BY <2>1, <2>2
        <3>7. Scanned(Append(Append(w, Backslash), c))
                = ScanChar(Scanned(Append(w, Backslash)), c)
            BY <3>6, ScannedNext
        <3>8. Scanned(Append(Append(w, Backslash), c))
                = Scanner(<<>>, Append(Append(w, Backslash), c), TRUE)
            <4> DEFINE u == Append(w, Backslash)
            <4>1. Scanned(Append(u, c))
                    = ScanChar([tokens |-> <<>>, current |-> u,
                                quoted |-> TRUE, escaped |-> TRUE], c)
                BY <3>5, <3>7
            <4> HIDE DEF u
            <4>2. Scanned(Append(u, c)) = Scanner(<<>>, Append(u, c), TRUE)
                BY <2>5, <4>1, CharsDiffer DEF ScanChar, Scanner
            <4> QED
                BY <4>2 DEF u
        <3> QED
            BY <2>7, <3>3, <3>8
    <2>6. CASE c \notin {Quote, Backslash}
        <3>1. <<Field, Quote>> \o Escape(Append(x, c)) = Append(w, c)
            BY <2>1, <2>2, <2>4, <2>6, AppendOne DEF EscapeStep, Marks
        <3> HIDE DEF w
        <3>2. Scanned(Append(w, c)) = ScanChar(Scanner(<<>>, w, TRUE), c)
            BY <2>2, <2>3, ScannedNext
        <3>3. Scanned(Append(w, c)) = Scanner(<<>>, Append(w, c), TRUE)
            BY <2>6, <3>2 DEF ScanChar, Scanner
        <3> QED
            BY <2>7, <3>1, <3>3
    <2> QED
        BY <2>5, <2>6
<1>3. \A x \in Seq(Alphabet) : x \in S
    <2> HIDE DEF S
    <2> QED
        BY <1>1, <1>2, AllSequences
<1> QED
    BY <1>3

-----------------------------------------------------------------------------
(* A quoted value.                                                         *)

\* What is in the quotes, and around it.
LEMMA QuotedIs ==
    ASSUME NEW v \in Seq(Alphabet)
    PROVE  /\ Quoted(v) \in Seq(Alphabet)
           /\ IsQuoted(Quoted(v)) /\ Len(Quoted(v)) > 1 /\ Last(Quoted(v)) = Quote
           /\ Front(Tail(Quoted(v))) = Escape(v)
           /\ <<Field>> \o Quoted(v) = Append(<<Field, Quote>> \o Escape(v), Quote)
<1> DEFINE e == Escape(v)
           q == <<Quote>> \o e \o <<Quote>>
           n == Len(e)
<1>1. Quoted(v) = q
    BY DEF Quoted, EscapeWhereValue, Escape, Marks
<1>2. e \in Seq(Alphabet) /\ n \in Nat
    BY EscapeIsText DEF Escape
<1>3. /\ <<Quote>> \in Seq(Alphabet) /\ <<Field>> \in Seq(Alphabet)
      /\ <<Field, Quote>> \in Seq(Alphabet) /\ Quote \in Alphabet /\ Field \in Alphabet
    BY InAlphabet, ShortSequences
<1> HIDE DEF e
<1>4. /\ q \in Seq(Alphabet) /\ Len(q) = n + 2 /\ q[1] = Quote /\ q[n + 2] = Quote
      /\ \A i \in 1..n : q[i + 1] = e[i]
    <2>1. Len(<<Quote>>) = 1 /\ <<Quote>>[1] = Quote
        OBVIOUS
    <2> DEFINE p == <<Quote>> \o e
    <2>2. /\ p \in Seq(Alphabet) /\ Len(p) = n + 1 /\ p[1] = Quote
          /\ \A i \in 1..n : p[i + 1] = e[i]
        BY <1>2, <1>3, <2>1, ConcatProperties
    <2> HIDE DEF p
    <2>3. /\ p \o <<Quote>> \in Seq(Alphabet) /\ Len(p \o <<Quote>>) = n + 2
          /\ \A i \in 1..(n + 1) : (p \o <<Quote>>)[i] = p[i]
          /\ (p \o <<Quote>>)[n + 2] = Quote
        <3>1. p \o <<Quote>> = Append(p, Quote)
            BY <1>3, <2>2, AppendOne
        <3> QED
            BY <1>2, <1>3, <2>2, <3>1, AppendProperties
    <2>4. q = p \o <<Quote>>
        BY DEF p
    <2> HIDE DEF q
    <2>5. 1 \in 1..(n + 1) /\ \A i \in 1..n : i + 1 \in 1..(n + 1)
        BY <1>2
    <2> QED
        BY <2>2, <2>3, <2>4, <2>5
<1>5. <<Field>> \o q = Append(<<Field, Quote>> \o e, Quote)
    <2>1. q = Append(<<Quote>> \o e, Quote)
        <3>1. <<Quote>> \o e \in Seq(Alphabet)
            BY <1>2, <1>3
        <3> QED
            BY <1>3, <3>1, AppendOne
    <2>2. <<Field>> \o Append(<<Quote>> \o e, Quote) = Append(<<Field>> \o (<<Quote>> \o e), Quote)
        <3>1. <<Quote>> \o e \in Seq(Alphabet)
            BY <1>2, <1>3
        <3> QED
            BY <1>3, <3>1, AppendOne
    <2>3. <<Field>> \o (<<Quote>> \o e) = (<<Field>> \o <<Quote>>) \o e
        BY <1>2, <1>3, ConcatAssociative
    <2>4. <<Field>> \o <<Quote>> = <<Field, Quote>>
        <3>1. Append(<<Field>>, Quote) = <<Field, Quote>>
            BY <1>3, ShortSequences
        <3>2. <<Field>> \o <<Quote>> = Append(<<Field>>, Quote)
            BY <1>3, AppendOne
        <3> QED
            BY <3>1, <3>2
    <2> QED
        BY <2>1, <2>2, <2>3, <2>4
<1> HIDE DEF q
<1>6. Front(Tail(q)) = e
    <2> DEFINE t == Tail(q)
    <2>1. q # <<>>
        BY <1>2, <1>4
    <2>2. t \in Seq(Alphabet) /\ Len(t) = n + 1 /\ \A i \in 1..(n + 1) : t[i] = q[i + 1]
        BY <1>2, <1>4, <2>1, HeadTailProperties
    <2> HIDE DEF t
    <2>3. \A i \in 1..n : t[i] = e[i]
        <3>1. ASSUME NEW i \in 1..n PROVE t[i] = e[i]
            <4>1. i \in 1..(n + 1)
                BY <1>2
            <4> QED
                BY <1>4, <2>2, <4>1
        <3> QED
            BY <3>1
    <2>4. n =< Len(t) /\ Len(t) - 1 = n
        BY <1>2, <2>2
    <2>5. SubSeq(t, 1, n) = e
        BY <1>2, <2>2, <2>3, <2>4, PrefixIs
    <2>6. Front(t) = e
        BY <2>4, <2>5 DEF Front
    <2> QED
        BY <2>6 DEF t
<1>7. Last(q) = Quote /\ q # <<>> /\ Len(q) > 1
    BY <1>2, <1>4 DEF Last
<1> QED
    BY <1>1, <1>4, <1>5, <1>6, <1>7 DEF IsQuoted, e

\* Once flushed, a scanner that is in no quotes has its token.
LEMMA FlushedToken ==
    ASSUME NEW s, NEW w \in Seq(Alphabet), w # <<>>,
           Scanned(s) = Scanner(<<>>, w, FALSE)
    PROVE  TokensOf(s) = <<w>>
<1> DEFINE r == Scanner(<<>>, w, FALSE)
<1>1. TokensOf(s) = Flush(r).tokens
    BY DEF TokensOf, Scanned
<1>2. r.current = w /\ r.tokens = <<>> /\ Flush(r).tokens = Append(r.tokens, w)
    BY DEF Flush, Scanner
<1> HIDE DEF r
<1>3. TokensOf(s) = Append(<<>>, w)
    BY <1>1, <1>2
<1> QED
    BY <1>3, ShortSequences

\* A quoted value is one token, and denotes what was quoted.
LEMMA QuotedReadsBack ==
    ASSUME NEW v \in Seq(Alphabet)
    PROVE  /\ TokensOf(<<Field>> \o Quoted(v)) = << <<Field>> \o Quoted(v) >>
           /\ IsLiteral(Quoted(v)) /\ Value(Quoted(v)) = v
<1> DEFINE w == <<Field, Quote>> \o Escape(v)
           q == Quoted(v)
<1>1. /\ q \in Seq(Alphabet)
      /\ IsQuoted(q) /\ Len(q) > 1 /\ Last(q) = Quote
      /\ Front(Tail(q)) = Escape(v)
      /\ <<Field>> \o q = Append(w, Quote)
    BY QuotedIs
<1>2. w \in Seq(Alphabet) /\ Quote \in Alphabet
    <2>1. <<Field, Quote>> \in Seq(Alphabet) /\ Quote \in Alphabet
        BY InAlphabet, ShortSequences
    <2> QED
        BY <2>1, EscapeIsText DEF Escape
<1>3. Scanned(w) = Scanner(<<>>, w, TRUE)
    BY QuotedIsScanned
<1>4. Unquote(Escape(v)) = Read(v, FALSE)
    BY EscapedComesBack
<1> HIDE DEF w, q
<1>5. Scanned(Append(w, Quote)) = ScanChar(Scanner(<<>>, w, TRUE), Quote)
    BY <1>2, <1>3, ScannedNext
<1>6. Scanned(Append(w, Quote)) = Scanner(<<>>, Append(w, Quote), FALSE)
    BY <1>5, CharsDiffer DEF ScanChar, Scanner
<1>7. TokensOf(Append(w, Quote)) = << Append(w, Quote) >>
    <2>1. Append(w, Quote) \in Seq(Alphabet) /\ Append(w, Quote) # <<>>
        BY <1>2, AppendParts
    <2> DEFINE y == Append(w, Quote)
    <2> HIDE DEF y
    <2>2. y \in Seq(Alphabet) /\ y # <<>> /\ Scanned(y) = Scanner(<<>>, y, FALSE)
        BY <1>6, <2>1 DEF y
    <2>3. TokensOf(y) = <<y>>
        BY <2>2, FlushedToken
    <2> QED
        BY <2>3 DEF y
<1>8. IsLiteral(q) /\ Value(q) = v
    BY <1>1, <1>4 DEF IsLiteral, Value, IsQuoted, Read
<1> QED
    BY <1>1, <1>7, <1>8 DEF q

-----------------------------------------------------------------------------
(* Where a field ends.                                                     *)

\* The last of the first n characters that is no backslash.
LastOther(s, n) == Max({0} \cup {j \in 1..n : s[j] # Backslash})

OddBefore(s, n) == (n - LastOther(s, n)) % 2 = 1

LEMMA LastOtherIs ==
    ASSUME NEW s, NEW n \in Nat
    PROVE  LastOther(s, n) \in 0..n
<1> DEFINE S == {0} \cup {j \in 1..n : s[j] # Backslash}
<1>1. S \in SUBSET 0..n /\ S # {}
    OBVIOUS
<1>2. Max(S) \in S
    BY <1>1, MaxExists
<1> QED
    BY <1>1, <1>2 DEF LastOther

LEMMA LastOtherNext ==
    ASSUME NEW s, NEW n \in Nat
    PROVE  LastOther(s, n + 1) =
              IF s[n + 1] = Backslash THEN LastOther(s, n) ELSE n + 1
<1> DEFINE S == {0} \cup {j \in 1..n : s[j] # Backslash}
           S2 == {0} \cup {j \in 1..(n + 1) : s[j] # Backslash}
<1>1. CASE s[n + 1] = Backslash
    <2>1. S2 = S
        BY <1>1
    <2> QED
        BY <1>1, <2>1 DEF LastOther
<1>2. CASE s[n + 1] # Backslash
    <2>1. S2 \in SUBSET Int /\ n + 1 \in S2 /\ \A y \in S2 : n + 1 >= y
        BY <1>2
    <2> HIDE DEF S2
    <2>2. Max(S2) = n + 1
        BY <2>1, MaxIs
    <2> QED
        BY <1>2, <2>2 DEF LastOther, S2
<1> QED
    BY <1>1, <1>2

LEMMA LastOtherAgrees ==
    ASSUME NEW s, NEW t, NEW n \in Nat, \A i \in 1..n : s[i] = t[i]
    PROVE  LastOther(s, n) = LastOther(t, n)
<1>1. {j \in 1..n : s[j] # Backslash} = {j \in 1..n : t[j] # Backslash}
    OBVIOUS
<1> QED
    BY <1>1 DEF LastOther

\* In an escaped text every quote has an odd number of backslashes before it,
\* and an even number of them ends it.
Closed(e) ==
    /\ ~ OddBefore(e, Len(e))
    /\ \A i \in 1..Len(e) : e[i] = Quote => OddBefore(e, i - 1)

LEMMA AppendKeepsQuotes ==
    ASSUME NEW e \in Seq(Alphabet), NEW c \in Alphabet,
           \A i \in 1..Len(e) : e[i] = Quote => OddBefore(e, i - 1),
           c = Quote => OddBefore(e, Len(e))
    PROVE  \A i \in 1..Len(Append(e, c)) :
              Append(e, c)[i] = Quote => OddBefore(Append(e, c), i - 1)
<1> DEFINE f == Append(e, c)
           n == Len(e)
<1>1. /\ n \in Nat /\ Len(f) = n + 1 /\ f[n + 1] = c
      /\ \A i \in 1..n : f[i] = e[i]
    BY AppendProperties
<1> HIDE DEF f
<1>2. ASSUME NEW i \in 1..(n + 1), f[i] = Quote PROVE OddBefore(f, i - 1)
    <2>1. i - 1 \in Nat /\ \A j \in 1..(i - 1) : f[j] = e[j]
        BY <1>1
    <2>2. LastOther(f, i - 1) = LastOther(e, i - 1)
        BY <2>1, LastOtherAgrees
    <2>3. OddBefore(f, i - 1) <=> OddBefore(e, i - 1)
        BY <2>2 DEF OddBefore
    <2>4. CASE i \in 1..n
        BY <1>1, <1>2, <2>3, <2>4
    <2>5. CASE i = n + 1
        BY <1>1, <1>2, <2>3, <2>5
    <2> QED
        BY <1>1, <2>4, <2>5
<1> QED
    BY <1>1, <1>2 DEF f

LEMMA OddBeforeIs ==
    ASSUME NEW s, NEW n \in Nat, NEW k \in Nat, LastOther(s, n) = k
    PROVE  OddBefore(s, n) <=> (n - k) % 2 = 1
BY DEF OddBefore

LEMMA OneMore ==
    ASSUME NEW n \in Nat, NEW k \in 0..n, (n - k) % 2 = 0
    PROVE  (n + 1 - k) % 2 = 1 /\ (n + 2 - k) % 2 # 1
<1> DEFINE d == n - k
<1>1. d \in Nat /\ d % 2 = 0 /\ n + 1 - k = d + 1 /\ n + 2 - k = d + 2
    OBVIOUS
<1> HIDE DEF d
<1>2. (d + 1) % 2 = 1 /\ (d + 2) % 2 # 1
    BY <1>1
<1> QED
    BY <1>1, <1>2

LEMMA EscapedIsClosed ==
    ASSUME NEW s \in Seq(Alphabet)
    PROVE  Closed(EscapeJson(s))
<1> DEFINE S == {x \in Seq(Alphabet) : Closed(EscapeJson(x))}
<1>1. <<>> \in S
    <2>1. Len(<<>>) = 0 /\ <<>> \in Seq(Alphabet)
        OBVIOUS
    <2>2. LastOther(<<>>, 0) \in 0..0
        BY LastOtherIs
    <2>3. ~ OddBefore(<<>>, 0)
        BY <2>2 DEF OddBefore
    <2>4. Closed(<<>>)
        BY <2>1, <2>3 DEF Closed
    <2> QED
        BY <2>1, <2>4, EscapeFirst DEF EscapeJson
<1>2. ASSUME NEW x \in Seq(Alphabet), NEW c \in Alphabet, x \in S
      PROVE  Append(x, c) \in S
    <2> DEFINE e == EscapeJson(x)
               n == Len(e)
    <2>1. e \in Seq(Alphabet) /\ n \in Nat /\ Closed(e)
        BY <1>2, EscapeIsText DEF EscapeJson
    <2>2. EscapeJson(Append(x, c)) = EscapeStep(SinkMarks, e, c)
        BY EscapeNext DEF EscapeJson, SinkMarks
    <2>3. Append(x, c) \in Seq(Alphabet)
        OBVIOUS
    <2> HIDE DEF e
    <2>4. LastOther(e, n) \in 0..n /\ (n - LastOther(e, n)) % 2 = 0
        <3>1. LastOther(e, n) \in 0..n
            BY <2>1, LastOtherIs
        <3>2. (n - LastOther(e, n)) % 2 # 1
            BY <2>1 DEF Closed, OddBefore
        <3> QED
            BY <2>1, <3>1, <3>2
    <2>n. n = Len(e) /\ Backslash \in Alphabet
        BY InAlphabet
    <2>d. /\ \A i \in 1..n : e[i] = Quote => OddBefore(e, i - 1)
          /\ Backslash # Quote
        BY <2>1, CharsDiffer DEF Closed
    <2> HIDE DEF n
    <2>5. CASE c \in SinkMarks
        <3> DEFINE f == Append(e, Backslash)
                   d == Sign(c)
                   g == Append(f, d)
        <3>d. /\ d \in Alphabet /\ (d = Quote <=> c = Quote)
              /\ (d = Backslash <=> c = Backslash)
            BY <2>5, Signs, InAlphabet, CharsDiffer DEF SinkMarks
        <3>1. EscapeJson(Append(x, c)) = g
            <4>1. EscapeJson(Append(x, c)) = e \o <<Backslash, d>>
                BY <2>2, <2>5 DEF EscapeStep
            <4> QED
                BY <2>1, <2>n, <3>d, <4>1, AppendOne
        <3>2. /\ f \in Seq(Alphabet) /\ Len(f) = n + 1 /\ f[n + 1] = Backslash
              /\ \A i \in 1..n : f[i] = e[i]
            BY <2>1, <2>n, AppendParts
        <3>3. \A i \in 1..Len(f) : f[i] = Quote => OddBefore(f, i - 1)
            BY <2>1, <2>n, <2>d, AppendKeepsQuotes
        <3> HIDE DEF d, f
        <3>4. /\ Len(g) = n + 2 /\ g[n + 2] = d
              /\ \A i \in 1..(n + 1) : g[i] = f[i]
            <4>1. /\ Len(g) = (n + 1) + 1 /\ g[(n + 1) + 1] = d
                  /\ \A i \in 1..(n + 1) : g[i] = f[i]
                BY <3>2, <3>d, AppendParts
            <4>2. (n + 1) + 1 = n + 2
                BY <2>1
            <4> QED
                BY <4>1, <4>2
        <3>5. LastOther(f, n + 1) = LastOther(e, n)
            BY <2>1, <3>2, LastOtherNext, LastOtherAgrees
        <3>6. OddBefore(f, n + 1)
            <4>1. (n + 1 - LastOther(e, n)) % 2 = 1
                BY <2>1, <2>4, OneMore
            <4> QED
                BY <2>1, <2>4, <3>5, <4>1, OddBeforeIs
        <3>7. \A i \in 1..Len(g) : g[i] = Quote => OddBefore(g, i - 1)
            BY <3>2, <3>3, <3>6, <3>d, AppendKeepsQuotes
        <3> HIDE DEF g
        <3>8. LastOther(g, n + 2) = IF d = Backslash THEN LastOther(e, n) ELSE n + 2
            <4>1. LastOther(g, n + 1) = LastOther(f, n + 1)
                <5>1. n + 1 \in Nat
                    BY <2>1
                <5> QED
                    BY <3>4, <5>1, LastOtherAgrees
            <4>2. LastOther(g, (n + 1) + 1) =
                    IF g[(n + 1) + 1] = Backslash THEN LastOther(g, n + 1) ELSE (n + 1) + 1
                <5>1. n + 1 \in Nat
                    BY <2>1
                <5> QED
                    BY <5>1, LastOtherNext
            <4>3. (n + 1) + 1 = n + 2
                BY <2>1
            <4> QED
                BY <3>4, <3>5, <4>1, <4>2, <4>3
        <3>9. ~ OddBefore(g, n + 2)
            <4>1. (n + 2 - (n + 2)) % 2 # 1
                BY <2>1
            <4>2. (n + 2 - LastOther(e, n)) % 2 # 1
                BY <2>1, <2>4, OneMore
            <4>3. CASE d = Backslash
                <5>1. LastOther(g, n + 2) = LastOther(e, n)
                    BY <3>8, <4>3
                <5> QED
                    BY <2>1, <2>4, <4>2, <5>1, OddBeforeIs
            <4>4. CASE d # Backslash
                <5>1. LastOther(g, n + 2) = n + 2
                    BY <3>8, <4>4
                <5> QED
                    BY <2>1, <4>1, <5>1, OddBeforeIs
            <4> QED
                BY <4>3, <4>4
        <3>10. Closed(g)
            BY <3>4, <3>7, <3>9 DEF Closed
        <3> QED
            BY <2>3, <3>1, <3>10
    <2>6. CASE c \notin SinkMarks
        <3> DEFINE f == Append(e, c)
        <3>1. EscapeJson(Append(x, c)) = f
            BY <2>2, <2>6 DEF EscapeStep
        <3>2. Len(f) = n + 1 /\ f[n + 1] = c
            BY <2>1, <2>n, AppendParts
        <3>3. \A i \in 1..Len(f) : f[i] = Quote => OddBefore(f, i - 1)
            BY <2>1, <2>6, <2>n, <2>d, AppendKeepsQuotes DEF SinkMarks
        <3> HIDE DEF f
        <3>4. LastOther(f, n + 1) = n + 1
            BY <2>1, <2>6, <3>2, LastOtherNext DEF SinkMarks
        <3>5. ~ OddBefore(f, n + 1)
            BY <2>1, <3>4 DEF OddBefore
        <3>6. Closed(f)
            BY <3>2, <3>3, <3>5 DEF Closed
        <3> QED
            BY <2>3, <3>1, <3>6
    <2> QED
        BY <2>5, <2>6
<1>3. \A x \in Seq(Alphabet) : x \in S
    <2> HIDE DEF S
    <2> QED
        BY <1>1, <1>2, AllSequences
<1> QED
    BY <1>3

\* The query cuts the detail out where the sink ended it.
Brace == "}"

LEMMA FieldIsCutOut ==
    ASSUME NEW v \in Seq(Alphabet)
    PROVE  ExtractField(Line(v)) = EscapeJson(v)
<1> DEFINE e == EscapeJson(v)
           n == Len(e)
           r == e \o <<Quote, Brace>>
           S == {i \in DOMAIN r : r[i] = Quote /\ ~ OddBefore(r, i - 1)}
<1>1. e \in Seq(Alphabet) /\ n \in Nat /\ Closed(e) /\ n = Len(e)
    <2>1. e \in Seq(Alphabet)
        BY EscapeIsText DEF EscapeJson
    <2>2. Closed(e)
        BY EscapedIsClosed
    <2> QED
        BY <2>1, <2>2
<1>2. Line(v) = r /\ EscapeJson(v) = e
    BY DEF Line, Brace
<1> HIDE DEF e, n
<1>3. /\ r \in Seq(Alphabet) /\ Len(r) = n + 2
      /\ r[n + 1] = Quote /\ r[n + 2] = Brace /\ \A i \in 1..n : r[i] = e[i]
    <2> DEFINE f == Append(e, Quote)
    <2>1. Quote \in Alphabet /\ Brace \in Alphabet
        BY InAlphabet DEF Brace
    <2>2. r = Append(f, Brace)
        BY <1>1, <2>1, AppendOne
    <2>3. /\ f \in Seq(Alphabet) /\ Len(f) = n + 1 /\ f[n + 1] = Quote
          /\ \A i \in 1..n : f[i] = e[i]
        BY <1>1, <2>1, AppendParts
    <2> HIDE DEF f, r
    <2>4. /\ r \in Seq(Alphabet) /\ Len(r) = (n + 1) + 1 /\ r[(n + 1) + 1] = Brace
          /\ \A i \in 1..(n + 1) : r[i] = f[i]
        BY <2>1, <2>2, <2>3, AppendParts
    <2>5. (n + 1) + 1 = n + 2 /\ n + 1 \in 1..(n + 1) /\ \A i \in 1..n : i \in 1..(n + 1)
        BY <1>1
    <2> QED
        BY <2>3, <2>4, <2>5
<1> HIDE DEF r
<1>4. DOMAIN r = 1..(n + 2)
    BY <1>1, <1>3
<1>5. FieldEnd(r) = Min(S)
    BY DEF FieldEnd, OddBefore, LastOther
<1>6. n + 1 \in S
    <2>1. LastOther(r, n) = LastOther(e, n)
        BY <1>1, <1>3, LastOtherAgrees
    <2>2. ~ OddBefore(r, n)
        BY <1>1, <2>1 DEF Closed, OddBefore
    <2>3. n + 1 \in DOMAIN r /\ (n + 1) - 1 = n
        BY <1>1, <1>4
    <2> QED
        BY <1>3, <2>2, <2>3
<1>7. ASSUME NEW i \in S PROVE n + 1 =< i
    <2>1. /\ i \in 1..(n + 2) /\ r[i] = Quote /\ ~ OddBefore(r, i - 1)
        BY <1>4
    <2>2. SUFFICES ASSUME i \in 1..n PROVE FALSE
        BY <1>1, <2>1
    <2>3. e[i] = Quote /\ OddBefore(e, i - 1)
        BY <1>1, <1>3, <2>1, <2>2 DEF Closed
    <2>4. i - 1 \in Nat /\ \A j \in 1..(i - 1) : j \in 1..n
        BY <1>1, <2>2
    <2>5. \A j \in 1..(i - 1) : r[j] = e[j]
        BY <1>3, <2>4
    <2>6. LastOther(r, i - 1) = LastOther(e, i - 1)
        BY <2>4, <2>5, LastOtherAgrees
    <2> QED
        BY <2>1, <2>3, <2>6 DEF OddBefore
<1>8. S \in SUBSET Int
    BY <1>1, <1>4
<1> HIDE DEF S
<1>9. FieldEnd(r) = n + 1
    BY <1>5, <1>6, <1>7, <1>8, MinIs
<1>10. SubSeq(r, 1, n) = e
    <2>1. n =< Len(r)
        BY <1>1, <1>3
    <2> QED
        BY <1>1, <1>3, <2>1, PrefixIs
<1>11. FieldEnd(r) - 1 = n
    BY <1>1, <1>9
<1> QED
    BY <1>2, <1>10, <1>11 DEF ExtractField

-----------------------------------------------------------------------------
(* The invariant.                                                          *)

Scanners == [tokens : Seq(Seq(Alphabet) \ {<<>>}), current : Seq(Alphabet),
             quoted : BOOLEAN, escaped : BOOLEAN]

TextInv ==
    /\ typed \in Seq(Chars)
    /\ scan \in Scanners

LEMMA FlushKeeps ==
    ASSUME NEW s \in Scanners
    PROVE  Flush(s) \in Scanners
<1>1. /\ s.tokens \in Seq(Seq(Alphabet) \ {<<>>}) /\ s.current \in Seq(Alphabet)
      /\ s.quoted \in BOOLEAN /\ s.escaped \in BOOLEAN
    BY DEF Scanners
<1>2. CASE s.current = <<>>
    BY <1>2 DEF Flush
<1>3. CASE s.current # <<>>
    <2>1. Append(s.tokens, s.current) \in Seq(Seq(Alphabet) \ {<<>>})
        BY <1>1, <1>3
    <2>2. <<>> \in Seq(Alphabet)
        OBVIOUS
    <2>3. Flush(s) = [s EXCEPT !.tokens = Append(s.tokens, s.current), !.current = <<>>]
        BY <1>3 DEF Flush
    <2> QED
        BY <2>1, <2>2, <2>3 DEF Scanners
<1> QED
    BY <1>2, <1>3

LEMMA ScanKeeps ==
    ASSUME NEW s \in Scanners, NEW c \in Alphabet
    PROVE  ScanChar(s, c) \in Scanners
<1> DEFINE longer == [s EXCEPT !.current = Append(@, c)]
           group == [Flush(s) EXCEPT !.tokens = Append(@, <<Parenthesis>>)]
<1>1. s.quoted \in BOOLEAN /\ s.escaped \in BOOLEAN /\ s.current \in Seq(Alphabet)
    BY DEF Scanners
<1>2. longer \in Scanners
    <2>1. Append(s.current, c) \in Seq(Alphabet)
        BY <1>1
    <2> QED
        BY <2>1 DEF Scanners
<1>3. Flush(s) \in Scanners
    BY FlushKeeps
<1>4. group \in Scanners
    <2>1. <<Parenthesis>> \in Seq(Alphabet) \ {<<>>}
        BY InAlphabet, ShortSequences
    <2>2. Flush(s).tokens \in Seq(Seq(Alphabet) \ {<<>>})
        BY <1>3 DEF Scanners
    <2>3. Append(Flush(s).tokens, <<Parenthesis>>) \in Seq(Seq(Alphabet) \ {<<>>})
        BY <2>1, <2>2
    <2> QED
        BY <1>3, <2>3 DEF Scanners
<1>5. /\ [longer EXCEPT !.escaped = ~ s.escaped /\ c = Backslash,
                        !.quoted = s.escaped \/ c # Quote] \in Scanners
      /\ [longer EXCEPT !.quoted = TRUE] \in Scanners
    <2> HIDE DEF longer
    <2> QED
        BY <1>1, <1>2 DEF Scanners
<1>6. ScanChar(s, c) \in
        {longer, Flush(s), group, [longer EXCEPT !.quoted = TRUE],
         [longer EXCEPT !.escaped = ~ s.escaped /\ c = Backslash,
                        !.quoted = s.escaped \/ c # Quote]}
    BY <1>1 DEF ScanChar
<1> HIDE DEF longer, group
<1> QED
    BY <1>2, <1>3, <1>4, <1>5, <1>6

LEMMA TextInvInit == TextInit => TextInv
<1> SUFFICES ASSUME TextInit PROVE TextInv
    OBVIOUS
<1>1. /\ <<Field>> \in Seq(Alphabet) /\ <<>> \in Seq(Seq(Alphabet) \ {<<>>})
      /\ <<>> \in Seq(Chars)
    <2>1. Field \in Alphabet
        BY InAlphabet
    <2>2. <<>> \in Seq(Seq(Alphabet) \ {<<>>})
        OBVIOUS
    <2>3. <<>> \in Seq(Chars)
        OBVIOUS
    <2> QED
        BY <2>1, <2>2, <2>3, ShortSequences
<1> QED
    BY <1>1 DEF TextInit, TextInv, StartScan, Scanners

LEMMA TextInvNext == TextInv /\ [TextNext]_textvars => TextInv'
<1> SUFFICES ASSUME TextInv, [TextNext]_textvars PROVE TextInv'
    OBVIOUS
<1> USE DEF TextInv
<1>1. ASSUME NEW c \in Chars, Scan(c) PROVE TextInv'
    <2>1. c \in Alphabet
        BY DEF Alphabet
    <2> QED
        BY <1>1, <2>1, ScanKeeps DEF Scan
<1>2. CASE EndOfText
    BY <1>2, FlushKeeps DEF EndOfText
<1>3. CASE UNCHANGED textvars
    BY <1>3 DEF textvars
<1> QED
    BY <1>1, <1>2, <1>3 DEF TextNext

LEMMA NormalizedIsRead ==
    TextInv => NormalizedReadsBack
<1> SUFFICES ASSUME TextInv, OneToken, IsLiteral(Raw)
             PROVE  LET form == Normalized(Value(Raw), IsQuoted(Raw))
                    IN  /\ TokensOf(<<Field>> \o form) = << <<Field>> \o form >>
                        /\ IsLiteral(form) /\ Value(form) = Value(Raw)
                        /\ Normalized(Value(form), IsQuoted(form)) = form
    BY DEF NormalizedReadsBack
<1> DEFINE raw == Raw
           v == Value(raw)
           form == Normalized(v, IsQuoted(raw))
<1>1. raw \in Seq(Alphabet)
    <2>1. scan.tokens \in Seq(Seq(Alphabet) \ {<<>>}) /\ Len(scan.tokens) = 1
        BY DEF TextInv, OneToken, Scanners
    <2>2. scan.tokens[1] \in Seq(Alphabet) /\ scan.tokens[1] # <<>>
        BY <2>1
    <2> QED
        BY <2>2 DEF Raw
<1> HIDE DEF raw
<1>2. IsLiteral(raw)
    BY DEF raw
<1>3. v \in Seq(Alphabet)
    <2>1. CASE IsQuoted(raw)
        <3> DEFINE t == Tail(raw)
                   i == Front(t)
        <3>1. Len(raw) \in Nat /\ Len(raw) > 1 /\ raw # <<>>
            BY <1>1, <1>2, <2>1 DEF IsLiteral
        <3>2. t \in Seq(Alphabet) /\ Len(t) \in Nat
            BY <1>1, <3>1
        <3> HIDE DEF t
        <3>3. i \in Seq(Alphabet)
            <4>1. \A k \in 1..(Len(t) - 1) : t[k] \in Alphabet
                BY <3>2
            <4> QED
                BY <3>2, <4>1, SubSeqProperties DEF Front
        <3> HIDE DEF i
        <3>4. v = Unquote(i).value
            BY <2>1 DEF Value, i, t
        <3> QED
            BY <3>3, <3>4, UnquoteIsText
    <2>2. CASE ~ IsQuoted(raw)
        BY <1>1, <2>2 DEF Value
    <2> QED
        BY <2>1, <2>2
<1> HIDE DEF v
<1>4. CASE form = Quoted(v)
    <2>1. /\ TokensOf(<<Field>> \o Quoted(v)) = << <<Field>> \o Quoted(v) >>
          /\ IsLiteral(Quoted(v)) /\ Value(Quoted(v)) = v
        BY <1>3, QuotedReadsBack
    <2>2. IsQuoted(Quoted(v))
        BY <1>3, QuotedIs
    <2>3. Normalized(v, TRUE) = Quoted(v)
        BY DEF Normalized
    <2>4. IsQuoted(Quoted(v)) = TRUE
        BY <2>2 DEF IsQuoted
    <2> QED
        BY <1>4, <2>1, <2>3, <2>4 DEF v, raw
<1>5. CASE form # Quoted(v)
    <2>1. /\ form = v /\ ~ IsQuoted(raw)
          /\ ToSet(v) \cap (White \cup {Parenthesis, Quote}) = {}
        BY <1>5 DEF Normalized
    <2>2. v = raw
        BY <2>1 DEF Value, v
    <2>3. Scanned(<<Field>> \o v) = Scanner(<<>>, <<Field>> \o v, FALSE)
        BY <1>3, <2>1, PlainIsScanned
    <2>4. <<Field>> \o v \in Seq(Alphabet) /\ <<Field>> \o v # <<>>
        <3>1. <<Field>> \in Seq(Alphabet) /\ <<Field>> # <<>>
            BY InAlphabet, ShortSequences
        <3> QED
            BY <1>3, <3>1
    <2>5. TokensOf(<<Field>> \o v) = << <<Field>> \o v >>
        BY <2>3, <2>4, FlushedToken
    <2> QED
        BY <1>2, <2>1, <2>2, <2>5 DEF v, raw
<1> QED
    BY <1>4, <1>5

\* Any text, of any length, that the user quotes or the normalized form spells
\* out comes back as it was; what the sink escapes is cut out whole and decodes
\* to what it was.
THEOREM TextAlwaysComesBack == TextSpec => []TextComesBack
<1>1. TextSpec => []TextInv
    BY TextInvInit, TextInvNext, PTL DEF TextSpec
<1>2. TextInv => TextComesBack
    <2> SUFFICES ASSUME TextInv PROVE TextComesBack
        OBVIOUS
    <2>1. typed \in Seq(Alphabet)
        BY SeqMonotonic DEF TextInv, Alphabet
    <2>2. EveryValueCanBeQuoted
        BY <2>1, QuotedReadsBack DEF EveryValueCanBeQuoted
    <2>3. DetailComesBack
        <3>1. ExtractField(Line(typed)) = EscapeJson(typed)
            BY <2>1, FieldIsCutOut
        <3>2. Decoded(EscapeJson(typed)) = typed
            BY <2>1, EscapedIsDecoded
        <3> QED
            BY <3>1, <3>2 DEF DetailComesBack
    <2> QED
        BY <2>2, <2>3, NormalizedIsRead DEF TextComesBack
<1> QED
    BY <1>1, <1>2, PTL

-----------------------------------------------------------------------------
(* How deep a token is in groups.                                          *)

Weight(t) == IF t = "(" THEN 1 ELSE IF t = ")" THEN -1 ELSE 0

\* How many of the first n tokens are t.
Count(s, t, n) == Cardinality({j \in 1..n : s[j] = t})

LEMMA CountNext ==
    ASSUME NEW s, NEW t, NEW n \in Nat
    PROVE  /\ Count(s, t, n) \in Nat
           /\ Count(s, t, n + 1) = Count(s, t, n) + (IF s[n + 1] = t THEN 1 ELSE 0)
<1> DEFINE A == {j \in 1..n : s[j] = t}
           B == {j \in 1..(n + 1) : s[j] = t}
<1>1. IsFiniteSet(A) /\ Cardinality(A) \in Nat
    <2>1. IsFiniteSet(1..n) /\ A \in SUBSET (1..n)
        BY FS_Interval
    <2>2. IsFiniteSet(A)
        BY <2>1, FS_Subset
    <2> QED
        BY <2>2, FS_CardinalityType
<1>2. CASE s[n + 1] = t
    <2>1. B = A \cup {n + 1} /\ n + 1 \notin A
        BY <1>2
    <2> HIDE DEF A, B
    <2>2. Cardinality(B) = Cardinality(A) + 1
        BY <1>1, <2>1, FS_AddElement
    <2> QED
        BY <1>1, <1>2, <2>2 DEF A, B, Count
<1>3. CASE s[n + 1] # t
    <2>1. B = A
        BY <1>3
    <2> HIDE DEF A, B
    <2>2. Cardinality(B) = Cardinality(A) + 0
        BY <1>1, <2>1
    <2> QED
        BY <1>1, <1>3, <2>2 DEF A, B, Count
<1> QED
    BY <1>2, <1>3

LEMMA DepthFirst ==
    ASSUME NEW s
    PROVE  Depth(s, 0) = 0
<1>1. {j \in 1..0 : s[j] = "("} = {} /\ {j \in 1..0 : s[j] = ")"} = {}
    OBVIOUS
<1> QED
    BY <1>1, FS_EmptySet DEF Depth

LEMMA DepthNext ==
    ASSUME NEW s, NEW n \in Nat
    PROVE  Depth(s, n) \in Int /\ Depth(s, n + 1) = Depth(s, n) + Weight(s[n + 1])
<1>1. \A k : Depth(s, k) = Count(s, "(", k) - Count(s, ")", k)
    BY DEF Depth, Count
<1> QED
    BY <1>1, CountNext DEF Weight

LEMMA DepthAt ==
    ASSUME NEW s, NEW i \in Nat, i > 0
    PROVE  Depth(s, i) \in Int /\ Depth(s, i - 1) \in Int
           /\ Depth(s, i) = Depth(s, i - 1) + Weight(s[i])
<1>1. i - 1 \in Nat /\ (i - 1) + 1 = i
    OBVIOUS
<1> DEFINE k == i - 1
<1>2. k \in Nat /\ k + 1 = i
    BY <1>1
<1> HIDE DEF k
<1>3. Depth(s, k) \in Int /\ Depth(s, k + 1) = Depth(s, k) + Weight(s[k + 1])
    BY <1>2, DepthNext
<1>4. Depth(s, i) \in Int
    BY DepthNext
<1> QED
    BY <1>2, <1>3, <1>4 DEF k

-----------------------------------------------------------------------------
(* The meaning of a span.                                                  *)

Either(P, Q) == {p \cup q : p \in P, q \in Q}
Both(P, Q) == {p \cap q : p \in P, q \in Q}
Without(P) == {Lines \ p : p \in P}
Asking(t) == {{l \in Lines : t \in l}}

\* What v, the meaning of the n tokens from place a to b, is.
SpanIs(s, a, b, n, f, ors, ands, v) ==
    /\ ors # {} => v = Either(f[Max(ors) - a][a], f[b - Max(ors)][Max(ors) + 1])
    /\ ors = {} /\ ands # {} =>
          v = Both(f[Max(ands) - a][a], f[b - Max(ands)][Max(ands) + 1])
    /\ ors = {} /\ ands = {} =>
          /\ n > 1 /\ s[a] = "NOT" => v = Without(f[n - 1][a + 1])
          /\ n > 1 /\ s[a] = "(" /\ s[b] = ")" => v = f[n - 2][a + 1]
          /\ n = 1 /\ s[a] \in Predicates => v = Asking(s[a])
          /\ \/ n > 1 /\ s[a] = "NOT"
             \/ n > 1 /\ s[a] = "(" /\ s[b] = ")"
             \/ n = 1 /\ s[a] \in Predicates
             \/ v = {}

LEMMA SpanCases ==
    ASSUME NEW s, NEW a \in Nat, NEW n \in Nat, NEW f
    PROVE  SpanIs(s, a, a + n - 1, n, f, Outside(s, a, a + n - 1, "OR"),
                  Outside(s, a, a + n - 1, "AND"), SpanMeaning(s, a, n, f))
<1> DEFINE b == a + n - 1
           ors == Outside(s, a, b, "OR")
           ands == Outside(s, a, b, "AND")
           v == SpanMeaning(s, a, n, f)
           i == Max(ors)
           j == Max(ands)
<1>1. ors # {} => v = Either(f[i - a][a], f[b - i][i + 1])
    BY DEF SpanMeaning, Either
<1>2. ors = {} /\ ands # {} => v = Both(f[j - a][a], f[b - j][j + 1])
    BY DEF SpanMeaning, Both
<1>3. ors = {} /\ ands = {} /\ n > 1 /\ s[a] = "NOT" => v = Without(f[n - 1][a + 1])
    BY DEF SpanMeaning, Without
<1>4. ors = {} /\ ands = {} /\ n > 1 /\ s[a] = "(" /\ s[b] = ")" => v = f[n - 2][a + 1]
    BY DEF SpanMeaning
<1>5. ors = {} /\ ands = {} /\ n = 1 /\ s[a] \in Predicates => v = Asking(s[a])
    BY DEF SpanMeaning, Asking
<1>6. (ors = {} /\ ands = {} /\ ~ (n > 1 /\ s[a] = "NOT")
        /\ ~ (n > 1 /\ s[a] = "(" /\ s[b] = ")") /\ ~ (n = 1 /\ s[a] \in Predicates))
         => v = {}
    BY DEF SpanMeaning
<1> HIDE DEF v, b, ors, ands
<1>7. SpanIs(s, a, b, n, f, ors, ands, v)
    BY <1>1, <1>2, <1>3, <1>4, <1>5, <1>6 DEF SpanIs
<1> QED
    BY <1>7 DEF v, b, ors, ands

-----------------------------------------------------------------------------
(* The table of the meanings.                                              *)

\* m has the meanings of the spans of up to k tokens of s.
Means(s, m, k) ==
    m = [n \in 0..k |-> [a \in 1..(Len(s) + 1 - n) |-> SpanMeaning(s, a, n, m)]]

\* The meaning of a span is told by those of the shorter ones.
LEMMA SpanAgrees ==
    ASSUME NEW s, NEW f, NEW g, NEW a \in Nat, NEW n \in Nat, a > 0,
           \A k \in 0..(n - 1) : f[k] = g[k]
    PROVE  SpanMeaning(s, a, n, f) = SpanMeaning(s, a, n, g)
<1> DEFINE b == a + n - 1
           ors == Outside(s, a, b, "OR")
           ands == Outside(s, a, b, "AND")
           i == Max(ors)
           j == Max(ands)
<1>1. b \in Nat
    OBVIOUS
<1>2. ASSUME NEW op, Outside(s, a, b, op) # {}, NEW p, p = Max(Outside(s, a, b, op))
      PROVE  f[p - a] = g[p - a] /\ f[b - p] = g[b - p]
    <2>1. Outside(s, a, b, op) \in SUBSET (a..b) /\ Outside(s, a, b, op) \in SUBSET (0..b)
        BY <1>1 DEF Outside
    <2>2. p \in a..b
        BY <1>1, <1>2, <2>1, MaxExists
    <2>3. p - a \in 0..(n - 1) /\ b - p \in 0..(n - 1)
        BY <2>2
    <2> QED
        BY <2>3
<1>3. n > 1 => f[n - 1] = g[n - 1] /\ f[n - 2] = g[n - 2]
    OBVIOUS
<1>4. /\ ors # {} => f[i - a] = g[i - a] /\ f[b - i] = g[b - i]
      /\ ands # {} => f[j - a] = g[j - a] /\ f[b - j] = g[b - j]
    BY <1>2
<1> DEFINE v == SpanMeaning(s, a, n, f)
           w == SpanMeaning(s, a, n, g)
<1> HIDE DEF ors, ands, b, v, w
<1>7. ASSUME NEW h PROVE SpanIs(s, a, b, n, h, ors, ands, SpanMeaning(s, a, n, h))
    BY SpanCases DEF ors, ands, b
<1>11. SpanIs(s, a, b, n, f, ors, ands, v) /\ SpanIs(s, a, b, n, g, ors, ands, w)
    BY <1>7 DEF v, w
<1>8. CASE ors # {}
    BY <1>4, <1>11, <1>8 DEF SpanIs, v, w
<1>9. CASE ors = {} /\ ands # {}
    BY <1>4, <1>11, <1>9 DEF SpanIs, v, w
<1>10. CASE ors = {} /\ ands = {}
    BY <1>3, <1>11, <1>10 DEF SpanIs, v, w
<1> QED
    BY <1>8, <1>9, <1>10

LEMMA TableExists ==
    ASSUME NEW s, Len(s) \in Nat
    PROVE  \A k \in Nat : \E m : Means(s, m, k)
<1> DEFINE S == {k \in Nat : \E m : Means(s, m, k)}
           Row(n, m) == [a \in 1..(Len(s) + 1 - n) |-> SpanMeaning(s, a, n, m)]
<1>1. 0 \in S
    <2> DEFINE m == [n \in 0..0 |-> Row(n, <<>>)]
    <2>1. Row(0, m) = Row(0, <<>>)
        <3>1. \A a \in 1..(Len(s) + 1 - 0) :
                 SpanMeaning(s, a, 0, m) = SpanMeaning(s, a, 0, <<>>)
            <4> HIDE DEF m
            <4> QED
                BY SpanAgrees
        <3> QED
            BY <3>1
    <2>2. m = [n \in 0..0 |-> Row(n, m)]
        <3> HIDE DEF Row
        <3>1. \A n \in 0..0 : Row(n, m) = Row(n, <<>>)
            BY <2>1
        <3> QED
            BY <3>1
    <2>3. Means(s, m, 0)
        BY <2>2 DEF Means
    <2> QED
        BY <2>3
<1>2. ASSUME NEW k \in Nat, k \in S PROVE k + 1 \in S
    <2>1. PICK m : Means(s, m, k)
        BY <1>2
    <2> DEFINE m2 == [n \in 0..(k + 1) |-> IF n =< k THEN m[n] ELSE Row(n, m)]
    <2>2. \A n \in 0..k : m2[n] = m[n]
        OBVIOUS
    <2>3. ASSUME NEW n \in 0..(k + 1) PROVE Row(n, m) = Row(n, m2)
        <3>1. \A i \in 0..(n - 1) : m[i] = m2[i]
            BY <2>2
        <3>2. \A a \in 1..(Len(s) + 1 - n) :
                 SpanMeaning(s, a, n, m) = SpanMeaning(s, a, n, m2)
            <4> HIDE DEF m2
            <4> QED
                BY <3>1, SpanAgrees
        <3> QED
            BY <3>2
    <2>4. \A n \in 0..k : m[n] = Row(n, m)
        BY <2>1 DEF Means
    <2>5. m2 = [n \in 0..(k + 1) |-> Row(n, m2)]
        <3>1. \A n \in 0..(k + 1) : m2[n] = Row(n, m)
            <4> HIDE DEF Row
            <4> QED
                BY <2>4
        <3>2. m2 = [n \in 0..(k + 1) |-> Row(n, m)]
            <4> HIDE DEF Row
            <4> QED
                BY <3>1
        <3> HIDE DEF Row, m2
        <3> QED
            BY <3>2, <2>3
    <2>6. Means(s, m2, k + 1)
        <3> HIDE DEF m2
        <3> QED
            BY <2>5 DEF Means
    <2> QED
        BY <2>6
<1>3. \A k \in Nat : k \in S
    <2> HIDE DEF S
    <2> QED
        BY <1>1, <1>2, AllNumbers
<1> QED
    BY <1>3

\* The meaning of s is the last entry of a table of its spans.
LEMMA MeaningIs ==
    ASSUME NEW s, Len(s) \in Nat
    PROVE  \E m : Means(s, m, Len(s)) /\ Meaning(s) = m[Len(s)][1]
<1> DEFINE m == CHOOSE f : Means(s, f, Len(s))
<1>1. Means(s, m, Len(s))
    BY TableExists
<1>2. Meaning(s) = m[Len(s)][1]
    BY DEF Meaning, Means
<1> QED
    BY <1>1, <1>2

-----------------------------------------------------------------------------
(* What has a meaning is well formed, token by token.                      *)

Begins(t) == t \in Predicates \cup {"NOT", "("}
Ends(t) == t \in Predicates \cup {")"}

\* The groups within a..b are closed there.
Balanced(s, a, b) ==
    /\ a \in Nat \ {0} /\ b \in Nat /\ a =< b
    /\ Depth(s, b) = Depth(s, a - 1)
    /\ \A i \in a..b : Depth(s, i) >= Depth(s, a - 1)

WellFormed(s, a, b) ==
    /\ Balanced(s, a, b)
    /\ Begins(s[a]) /\ Ends(s[b])
    /\ \A i \in a..(b - 1) : Ends(s[i]) <=> ~ Begins(s[i + 1])
    /\ \A i \in a..b : s[i] # Malformed

LEMMA TokensDiffer ==
    /\ \A p \in Predicates : /\ p # "(" /\ p # ")" /\ p # "NOT" /\ p # "AND" /\ p # "OR"
                             /\ p # Malformed
    /\ Malformed # "(" /\ Malformed # ")" /\ Malformed # "NOT"
    /\ Malformed # "AND" /\ Malformed # "OR"
    BY WhereAssumption

LEMMA DepthsAt ==
    ASSUME NEW s, NEW p \in Nat, p > 0
    PROVE  /\ Depth(s, p) \in Int /\ Depth(s, p - 1) \in Int
           /\ s[p] = "(" => Depth(s, p) = Depth(s, p - 1) + 1
           /\ s[p] = ")" => Depth(s, p) = Depth(s, p - 1) - 1
           /\ s[p] # "(" /\ s[p] # ")" => Depth(s, p) = Depth(s, p - 1)
    BY DepthAt DEF Weight

LEMMA DepthsType ==
    ASSUME NEW s
    PROVE  \A i \in Nat : Depth(s, i) \in Int
    BY DepthNext

LEMMA BalancedJoin ==
    ASSUME NEW s, NEW a, NEW p, NEW b,
           Balanced(s, a, p - 1), Balanced(s, p + 1, b), p \in Nat \ {0},
           s[p] # "(", s[p] # ")"
    PROVE  Balanced(s, a, b) /\ Depth(s, p) = Depth(s, a - 1)
<1>1. /\ a \in Nat \ {0} /\ b \in Nat /\ a =< p - 1 /\ p + 1 =< b
      /\ a - 1 \in Nat /\ p - 1 \in Nat /\ (p + 1) - 1 = p
    BY DEF Balanced
<1>2. Depth(s, p) = Depth(s, p - 1) /\ Depth(s, p) \in Int
    BY DepthsAt
<1>3. Depth(s, p - 1) = Depth(s, a - 1) /\ Depth(s, b) = Depth(s, p)
    BY <1>1 DEF Balanced
<1>4. ASSUME NEW i \in a..b PROVE Depth(s, i) >= Depth(s, a - 1)
    <2>1. CASE i \in a..(p - 1)
        BY <2>1 DEF Balanced
    <2>2. CASE i = p
        BY <1>2, <1>3, <2>2
    <2>3. CASE i \in (p + 1)..b
        BY <1>1, <1>2, <1>3, <2>3 DEF Balanced
    <2> QED
        BY <1>1, <2>1, <2>2, <2>3
<1> QED
    BY <1>1, <1>2, <1>3, <1>4 DEF Balanced

LEMMA BalancedAfter ==
    ASSUME NEW s, NEW a \in Nat \ {0}, NEW b, Balanced(s, a + 1, b),
           s[a] # "(", s[a] # ")"
    PROVE  Balanced(s, a, b)
<1>1. b \in Nat /\ a + 1 =< b /\ (a + 1) - 1 = a /\ a - 1 \in Nat
    BY DEF Balanced
<1>2. Depth(s, a) = Depth(s, a - 1) /\ Depth(s, a) \in Int
    BY DepthsAt
<1>3. \A i \in a..b : i = a \/ i \in (a + 1)..b
    BY <1>1
<1> QED
    BY <1>1, <1>2, <1>3 DEF Balanced

LEMMA BalancedGroup ==
    ASSUME NEW s, NEW a \in Nat \ {0}, NEW b \in Nat \ {0}, Balanced(s, a + 1, b - 1),
           s[a] = "(", s[b] = ")"
    PROVE  /\ Balanced(s, a, b)
           /\ \A i \in a..(b - 1) : Depth(s, i) > Depth(s, a - 1)
<1>1. /\ a + 1 =< b - 1 /\ (a + 1) - 1 = a /\ a - 1 \in Nat /\ b - 1 \in Nat
    BY DEF Balanced
<1>2. /\ Depth(s, a) = Depth(s, a - 1) + 1 /\ Depth(s, a - 1) \in Int
      /\ Depth(s, b) = Depth(s, b - 1) - 1
    BY DepthsAt
<1>3. Depth(s, b - 1) = Depth(s, a) /\ Depth(s, b) = Depth(s, a - 1)
    BY <1>1, <1>2 DEF Balanced
<1>4. ASSUME NEW i \in a..(b - 1) PROVE Depth(s, i) > Depth(s, a - 1)
    <2>1. CASE i = a
        BY <1>2, <2>1
    <2>2. CASE i \in (a + 1)..(b - 1)
        <3>1. Depth(s, i) >= Depth(s, a) /\ Depth(s, i) \in Int
            BY <1>1, <2>2, DepthsType DEF Balanced
        <3> QED
            BY <1>2, <3>1
    <2> QED
        BY <1>1, <2>1, <2>2
<1>5. \A i \in a..b : i = b \/ i \in a..(b - 1)
    BY <1>1
<1>6. \A i \in a..b : Depth(s, i) >= Depth(s, a - 1)
    <2>1. \A i \in a..b : Depth(s, i) \in Int
        BY DepthsType
    <2> QED
        BY <1>2, <1>3, <1>4, <1>5, <2>1
<1> QED
    BY <1>1, <1>3, <1>4, <1>6 DEF Balanced

LEMMA BalancedOne ==
    ASSUME NEW s, NEW a \in Nat \ {0}, s[a] # "(", s[a] # ")"
    PROVE  Balanced(s, a, a)
<1>1. Depth(s, a) = Depth(s, a - 1) /\ Depth(s, a) \in Int
    BY DepthsAt
<1> QED
    BY <1>1 DEF Balanced

LEMMA FormedJoin ==
    ASSUME NEW s, NEW a, NEW p \in Nat \ {0}, NEW b,
           WellFormed(s, a, p - 1), WellFormed(s, p + 1, b), s[p] \in {"AND", "OR"}
    PROVE  WellFormed(s, a, b)
<1>1. Balanced(s, a, b)
    BY BalancedJoin DEF WellFormed
<1>2. /\ a \in Nat \ {0} /\ b \in Nat /\ a =< p - 1 /\ p + 1 =< b
    BY DEF WellFormed, Balanced
<1>3. ~ Ends(s[p]) /\ ~ Begins(s[p]) /\ s[p] # Malformed
    BY TokensDiffer DEF Ends, Begins
<1>4. ASSUME NEW i \in a..(b - 1) PROVE Ends(s[i]) <=> ~ Begins(s[i + 1])
    <2>1. i \in a..((p - 1) - 1) \/ i = p - 1 \/ i = p \/ i \in (p + 1)..(b - 1)
        BY <1>2
    <2>2. (p - 1) + 1 = p
        OBVIOUS
    <2> QED
        BY <1>3, <2>1, <2>2 DEF WellFormed
<1>5. \A i \in a..b : i \in a..(p - 1) \/ i = p \/ i \in (p + 1)..b
    BY <1>2
<1> QED
    BY <1>1, <1>3, <1>4, <1>5 DEF WellFormed

LEMMA FormedNot ==
    ASSUME NEW s, NEW a \in Nat \ {0}, NEW b, WellFormed(s, a + 1, b), s[a] = "NOT"
    PROVE  WellFormed(s, a, b)
<1>1. Balanced(s, a, b)
    BY BalancedAfter DEF WellFormed
<1>2. b \in Nat /\ a + 1 =< b
    BY DEF WellFormed, Balanced
<1>3. ~ Ends(s[a]) /\ Begins(s[a]) /\ s[a] # Malformed
    BY TokensDiffer DEF Ends, Begins
<1>4. ASSUME NEW i \in a..(b - 1) PROVE Ends(s[i]) <=> ~ Begins(s[i + 1])
    <2>1. i = a \/ i \in (a + 1)..(b - 1)
        BY <1>2
    <2> QED
        BY <1>3, <2>1 DEF WellFormed
<1>5. \A i \in a..b : i = a \/ i \in (a + 1)..b
    BY <1>2
<1> QED
    BY <1>1, <1>3, <1>4, <1>5 DEF WellFormed

LEMMA FormedGroup ==
    ASSUME NEW s, NEW a \in Nat \ {0}, NEW b \in Nat \ {0},
           WellFormed(s, a + 1, b - 1), s[a] = "(", s[b] = ")"
    PROVE  WellFormed(s, a, b)
<1>1. Balanced(s, a, b)
    BY BalancedGroup DEF WellFormed
<1>2. a + 1 =< b - 1
    BY DEF WellFormed, Balanced
<1>3. /\ ~ Ends(s[a]) /\ Begins(s[a]) /\ s[a] # Malformed
      /\ Ends(s[b]) /\ ~ Begins(s[b]) /\ s[b] # Malformed
    BY TokensDiffer DEF Ends, Begins
<1>4. ASSUME NEW i \in a..(b - 1) PROVE Ends(s[i]) <=> ~ Begins(s[i + 1])
    <2>1. i = a \/ i \in (a + 1)..((b - 1) - 1) \/ i = b - 1
        BY <1>2
    <2>2. (b - 1) + 1 = b
        OBVIOUS
    <2> QED
        BY <1>3, <2>1, <2>2 DEF WellFormed
<1>5. \A i \in a..b : i = a \/ i \in (a + 1)..(b - 1) \/ i = b
    BY <1>2
<1> QED
    BY <1>1, <1>3, <1>4, <1>5 DEF WellFormed

LEMMA FormedOne ==
    ASSUME NEW s, NEW a \in Nat \ {0}, s[a] \in Predicates
    PROVE  WellFormed(s, a, a)
<1>1. Balanced(s, a, a)
    BY TokensDiffer, BalancedOne
<1>2. Ends(s[a]) /\ Begins(s[a]) /\ s[a] # Malformed
    BY TokensDiffer DEF Ends, Begins
<1> QED
    BY <1>1, <1>2 DEF WellFormed

LEMMA TableRow ==
    ASSUME NEW s, NEW m, Len(s) \in Nat, Means(s, m, Len(s)),
           NEW n \in 0..Len(s), NEW a \in 1..(Len(s) + 1 - n)
    PROVE  m[n][a] = SpanMeaning(s, a, n, m)
<1>1. m = [k \in 0..Len(s) |-> [c \in 1..(Len(s) + 1 - k) |-> SpanMeaning(s, c, k, m)]]
    BY DEF Means
<1> DEFINE row == [c \in 1..(Len(s) + 1 - n) |-> SpanMeaning(s, c, n, m)]
<1>2. m[n] = row
    BY <1>1
<1>3. row[a] = SpanMeaning(s, a, n, m)
    OBVIOUS
<1> HIDE DEF row
<1> QED
    BY <1>2, <1>3

\* The places of op outside the groups are in the span, the largest one too.
LEMMA LastOutside ==
    ASSUME NEW s, NEW a \in Nat, NEW b \in Nat, NEW op, Outside(s, a, b, op) # {}
    PROVE  Max(Outside(s, a, b, op)) \in Outside(s, a, b, op)
<1>1. Outside(s, a, b, op) \in SUBSET (0..b)
    BY DEF Outside
<1> QED
    BY <1>1, MaxExists

LEMMA SpanFormed ==
    ASSUME NEW s, NEW m, Len(s) \in Nat,
           NEW n \in 0..Len(s), NEW a \in 1..(Len(s) + 1 - n),
           \A k \in 0..(n - 1) : \A c \in 1..(Len(s) + 1 - k) :
               m[k][c] # {} => WellFormed(s, c, c + k - 1),
           SpanMeaning(s, a, n, m) # {}
    PROVE  WellFormed(s, a, a + n - 1)
<1> DEFINE b == a + n - 1
           ors == Outside(s, a, b, "OR")
           ands == Outside(s, a, b, "AND")
           v == SpanMeaning(s, a, n, m)
<1>1. /\ a \in Nat \ {0} /\ n \in Nat /\ b \in Nat /\ b =< Len(s) /\ b = a + n - 1
      /\ (a + 1) + (n - 1) - 1 = b /\ (a + 1) + (n - 2) - 1 = b - 1
    OBVIOUS
<1>2. SpanIs(s, a, b, n, m, ors, ands, v)
    BY <1>1, SpanCases
<1> HIDE DEF b
<1>3. ASSUME NEW op \in {"AND", "OR"}, Outside(s, a, b, op) # {},
             NEW p, p = Max(Outside(s, a, b, op)),
             m[p - a][a] # {}, m[b - p][p + 1] # {}
      PROVE  WellFormed(s, a, b)
    <2>1. p \in a..b /\ s[p] = op
        <3>1. p \in Outside(s, a, b, op)
            BY <1>1, <1>3, LastOutside
        <3> QED
            BY <3>1 DEF Outside
    <2> DEFINE len == Len(s)
    <2>5. p \in Nat /\ a =< p /\ p =< b /\ b =< len /\ len \in Nat
        BY <1>1, <2>1
    <2> HIDE DEF len
    <2>6. a \in Nat /\ a > 0 /\ n \in Nat /\ b = a + n - 1
        BY <1>1
    <2>7. p - a \in 0..(n - 1) /\ a \in 1..(len + 1 - (p - a)) /\ a + (p - a) - 1 = p - 1
        BY ONLY <2>5, <2>6
    <2>8. b - p \in 0..(n - 1) /\ p + 1 \in 1..(len + 1 - (b - p))
        BY ONLY <2>5, <2>6
    <2>9. (p + 1) + (b - p) - 1 = b /\ p \in Nat \ {0}
        BY ONLY <2>5, <2>6
    <2>3. WellFormed(s, a, a + (p - a) - 1) /\ WellFormed(s, p + 1, (p + 1) + (b - p) - 1)
        BY <1>3, <2>7, <2>8 DEF len
    <2>4. WellFormed(s, a, p - 1) /\ WellFormed(s, p + 1, b)
        BY <2>7, <2>9, <2>3
    <2> QED
        BY <2>1, <2>9, <2>4, FormedJoin
<1>4. n > 1 => /\ m[n - 1][a + 1] # {} => WellFormed(s, a + 1, b)
               /\ m[n - 2][a + 1] # {} => WellFormed(s, a + 1, b - 1)
    <2>1. SUFFICES ASSUME n > 1 PROVE /\ m[n - 1][a + 1] # {} => WellFormed(s, a + 1, b)
                                      /\ m[n - 2][a + 1] # {} => WellFormed(s, a + 1, b - 1)
        OBVIOUS
    <2>2. /\ n - 1 \in 0..(n - 1) /\ a + 1 \in 1..(Len(s) + 1 - (n - 1))
          /\ n - 2 \in 0..(n - 1) /\ a + 1 \in 1..(Len(s) + 1 - (n - 2))
        BY <1>1, <2>1
    <2>3. /\ m[n - 1][a + 1] # {} => WellFormed(s, a + 1, (a + 1) + (n - 1) - 1)
          /\ m[n - 2][a + 1] # {} => WellFormed(s, a + 1, (a + 1) + (n - 2) - 1)
        BY <2>2
    <2> QED
        BY <1>1, <2>3
<1>5. v # {} /\ \A P, Q : /\ Either(P, Q) # {} => P # {} /\ Q # {}
                          /\ Both(P, Q) # {} => P # {} /\ Q # {}
                          /\ Without(P) # {} => P # {}
    BY DEF Either, Both, Without
<1> HIDE DEF v, b
<1>6. CASE ors # {}
    <2> DEFINE p == Max(ors)
    <2>1. v = Either(m[p - a][a], m[b - p][p + 1])
        BY <1>2, <1>6 DEF SpanIs
    <2>2. m[p - a][a] # {} /\ m[b - p][p + 1] # {}
        BY <1>5, <2>1
    <2> HIDE DEF p
    <2>3. WellFormed(s, a, b)
        BY <1>3, <1>6, <2>2 DEF p
    <2> QED
        BY <2>3 DEF b
<1>7. CASE ors = {} /\ ands # {}
    <2> DEFINE p == Max(ands)
    <2>1. v = Both(m[p - a][a], m[b - p][p + 1])
        BY <1>2, <1>7 DEF SpanIs
    <2>2. m[p - a][a] # {} /\ m[b - p][p + 1] # {}
        BY <1>5, <2>1
    <2> HIDE DEF p
    <2>3. WellFormed(s, a, b)
        BY <1>3, <1>7, <2>2 DEF p
    <2> QED
        BY <2>3 DEF b
<1>8. CASE ors = {} /\ ands = {}
    <2> HIDE DEF ors, ands
    <2>1. CASE n > 1 /\ s[a] = "NOT"
        <3>1. v = Without(m[n - 1][a + 1])
            BY <1>2, <1>8, <2>1 DEF SpanIs
        <3>2. WellFormed(s, a + 1, b)
            BY <1>4, <1>5, <2>1, <3>1
        <3> QED
            BY <1>1, <2>1, <3>2, FormedNot DEF b
    <2>2. CASE n > 1 /\ s[a] = "(" /\ s[b] = ")"
        <3>1. v = m[n - 2][a + 1]
            BY <1>2, <1>8, <2>2 DEF SpanIs
        <3>2. WellFormed(s, a + 1, b - 1)
            BY <1>4, <1>5, <2>2, <3>1
        <3>3. b \in Nat \ {0}
            BY <1>1, <2>2 DEF b
        <3> QED
            BY <1>1, <2>2, <3>2, <3>3, FormedGroup DEF b
    <2>3. CASE n = 1 /\ s[a] \in Predicates
        <3>1. b = a
            BY <1>1, <2>3 DEF b
        <3> QED
            BY <1>1, <2>3, <3>1, FormedOne DEF b
    <2> QED
        BY <1>2, <1>5, <1>8, <2>1, <2>2, <2>3 DEF SpanIs
<1> QED
    BY <1>6, <1>7, <1>8

LEMMA MeaningIsFormed ==
    ASSUME NEW s, Len(s) \in Nat, Meaning(s) # {}
    PROVE  WellFormed(s, 1, Len(s))
<1>1. PICK m : Means(s, m, Len(s)) /\ Meaning(s) = m[Len(s)][1]
    BY MeaningIs
<1> DEFINE Formed(k) == \A c \in 1..(Len(s) + 1 - k) :
                            m[k][c] # {} => WellFormed(s, c, c + k - 1)
           S == {n \in Nat : n > Len(s) \/ \A k \in 0..n : Formed(k)}
<1>2. ASSUME NEW n \in 0..Len(s), \A k \in 0..(n - 1) : Formed(k) PROVE Formed(n)
    <2>1. SUFFICES ASSUME NEW a \in 1..(Len(s) + 1 - n), m[n][a] # {}
                   PROVE  WellFormed(s, a, a + n - 1)
        OBVIOUS
    <2>2. SpanMeaning(s, a, n, m) # {}
        BY <1>1, <2>1, TableRow
    <2> QED
        BY <1>2, <2>2, SpanFormed
<1>3. 0 \in S
    <2> HIDE DEF Formed
    <2>1. Formed(0)
        BY <1>2
    <2> QED
        BY <2>1
<1>4. ASSUME NEW n \in Nat, n \in S PROVE n + 1 \in S
    <2>1. CASE n + 1 > Len(s)
        BY <2>1
    <2>2. CASE n + 1 =< Len(s)
        <3> HIDE DEF Formed
        <3>1. \A k \in 0..n : Formed(k)
            BY <1>4, <2>2
        <3>2. n + 1 \in 0..Len(s) /\ \A k \in 0..((n + 1) - 1) : Formed(k)
            BY <2>2, <3>1
        <3>3. Formed(n + 1)
            BY <1>2, <3>2
        <3>4. \A k \in 0..(n + 1) : Formed(k)
            BY <3>1, <3>3
        <3> QED
            BY <3>4
    <2> QED
        BY <2>1, <2>2
<1>5. \A n \in Nat : n \in S
    <2> HIDE DEF S
    <2> QED
        BY <1>3, <1>4, AllNumbers
<1>6. Formed(Len(s))
    <2> HIDE DEF Formed
    <2> QED
        BY <1>5
<1>7. 1 + Len(s) - 1 = Len(s) /\ 1 \in 1..(Len(s) + 1 - Len(s))
    OBVIOUS
<1> QED
    BY <1>1, <1>6, <1>7

\* The evaluator, as long as the expression is good.
States == [stack : Seq(BOOLEAN), bad : {FALSE}]

\* st stands for the sets ws: it has l's answer to each on its stack.
Answers(st, ws, l) ==
    /\ st \in [stack : Seq(BOOLEAN), bad : {FALSE}]
    /\ Len(st.stack) = Len(ws)
    /\ \A i \in 1..Len(ws) : st.stack[i] <=> l \in ws[i]

LEMMA StartOf ==
    ASSUME NEW T, NEW s \in Seq(T), NEW n \in 0..Len(s)
    PROVE  /\ SubSeq(s, 1, n) \in Seq(T) /\ Len(SubSeq(s, 1, n)) = n
           /\ \A i \in 1..n : SubSeq(s, 1, n)[i] = s[i]
<1>1. n \in Nat /\ \A i \in 1..n : s[i] \in T
    OBVIOUS
<1>2. /\ SubSeq(s, 1, n) \in Seq(T)
      /\ Len(SubSeq(s, 1, n)) = IF 1 =< n THEN n - 1 + 1 ELSE 0
      /\ \A i \in 1..(n - 1 + 1) : SubSeq(s, 1, n)[i] = s[1 + i - 1]
    BY <1>1, SubSeqProperties
<1> DEFINE p == SubSeq(s, 1, n)
<1> HIDE DEF p
<1>3. p \in Seq(T) /\ Len(p) = n /\ \A i \in 1..n : p[i] = s[i]
    BY <1>1, <1>2 DEF p
<1> QED
    BY <1>3 DEF p

LEMMA AnswersAre ==
    ASSUME NEW st, NEW ws, NEW l, Answers(st, ws, l)
    PROVE  /\ st \in States /\ st.bad = FALSE /\ st.stack \in Seq(BOOLEAN)
           /\ Len(st.stack) = Len(ws)
           /\ \A i \in 1..Len(ws) : st.stack[i] <=> l \in ws[i]
    BY DEF Answers, States

LEMMA StackUpdated ==
    ASSUME NEW st \in States, NEW k \in Seq(BOOLEAN)
    PROVE  /\ [st EXCEPT !.stack = k] \in States
           /\ [st EXCEPT !.stack = k].stack = k
    BY DEF States

LEMMA EvalPredicate ==
    ASSUME NEW ws \in Seq(SUBSET Lines), NEW l \in Lines, NEW t \in Predicates,
           NEW st, Answers(st, ws, l)
    PROVE  Answers(EvalToken(st, t, l), Append(ws, {x \in Lines : t \in x}), l)
<1> DEFINE w == {x \in Lines : t \in x}
           k == st.stack
           k2 == Append(k, t \in l)
           ws2 == Append(ws, w)
           r == [st EXCEPT !.stack = k2]
<1>1. EvalToken(st, t, l) = r
    <2>1. st.bad = FALSE
        BY DEF Answers
    <2>2. t # "NOT" /\ t # "AND" /\ t # "OR"
        BY TokensDiffer
    <2> QED
        BY <2>1, <2>2, Zenon DEF EvalToken
<1>2. k \in Seq(BOOLEAN) /\ Len(k) = Len(ws) /\ st \in States
    BY DEF Answers, States
<1>3. /\ k2 \in Seq(BOOLEAN) /\ Len(k2) = Len(k) + 1 /\ k2[Len(k) + 1] = (t \in l)
      /\ \A i \in 1..Len(k) : k2[i] = k[i]
    <2> DEFINE e == t \in l
    <2>1. e \in BOOLEAN
        OBVIOUS
    <2> HIDE DEF e
    <2> QED
        BY <1>2, <2>1, AppendProperties DEF e
<1>4. /\ Len(ws2) = Len(ws) + 1 /\ ws2[Len(ws) + 1] = w /\ \A i \in 1..Len(ws) : ws2[i] = ws[i]
    <2>1. w \in SUBSET Lines
        OBVIOUS
    <2> HIDE DEF w
    <2> QED
        BY <2>1, AppendProperties
<1>5. l \in w <=> t \in l
    OBVIOUS
<1> HIDE DEF k2, ws2, w
<1>6. r \in States /\ r.stack = k2
    BY <1>2, <1>3, StackUpdated
<1>7. \A i \in 1..Len(ws2) : k2[i] <=> l \in ws2[i]
    BY <1>2, <1>3, <1>4, <1>5 DEF Answers
<1> HIDE DEF r
<1>8. Answers(r, ws2, l)
    BY <1>2, <1>3, <1>4, <1>6, <1>7 DEF Answers, States
<1> QED
    BY <1>1, <1>8 DEF ws2, w

LEMMA EvalNot ==
    ASSUME NEW ws \in Seq(SUBSET Lines), NEW l \in Lines, ws # <<>>,
           NEW st, Answers(st, ws, l)
    PROVE  Answers(EvalToken(st, "NOT", l), [ws EXCEPT ![Len(ws)] = Lines \ @], l)
<1> DEFINE n == Len(ws)
           k == st.stack
           k2 == [k EXCEPT ![n] = ~ @]
           ws2 == [ws EXCEPT ![n] = Lines \ @]
           r == [st EXCEPT !.stack = k2]
<1>2. /\ k \in Seq(BOOLEAN) /\ Len(k) = n /\ st \in States
      /\ n \in Nat /\ n > 0
    <2>1. n \in Nat /\ n # 0
        BY EmptySeq
    <2>2. k \in Seq(BOOLEAN) /\ Len(k) = n /\ st \in States
        BY AnswersAre
    <2> QED
        BY <2>1, <2>2
<1>1. EvalToken(st, "NOT", l) = r
    <2>1. st.bad = FALSE
        BY DEF Answers
    <2>2. "NOT" \notin Predicates
        BY TokensDiffer
    <2>3. r = [st EXCEPT !.stack[n] = ~ @]
        OBVIOUS
    <2>4. Len(st.stack) = n
        BY <1>2
    <2> HIDE DEF r, n
    <2> QED
        BY <1>2, <2>1, <2>2, <2>3, <2>4 DEF EvalToken
<1>3. /\ k2 \in Seq(BOOLEAN) /\ Len(k2) = n /\ k2[n] = ~ k[n]
      /\ \A i \in 1..(n - 1) : k2[i] = k[i]
    <2> DEFINE e == ~ k[n]
    <2>1. e \in BOOLEAN
        OBVIOUS
    <2>2. k2 = [k EXCEPT ![n] = e]
        OBVIOUS
    <2>3. n \in 1..Len(k)
        BY <1>2
    <2> HIDE DEF e, k2, k, n
    <2>4. k2 \in Seq(BOOLEAN) /\ Len(k2) = n /\ k2[n] = e /\ \A i \in 1..(n - 1) : k2[i] = k[i]
        BY <1>2, <2>1, <2>2, <2>3, ExceptSeq
    <2> QED
        BY <2>4 DEF e
<1>4. /\ Len(ws2) = n /\ ws2[n] = Lines \ ws[n] /\ \A i \in 1..(n - 1) : ws2[i] = ws[i]
    BY <1>2
<1>5. l \in ws2[n] <=> ~ (l \in ws[n])
    BY <1>4
<1>6. k[n] <=> l \in ws[n]
    BY <1>2 DEF Answers
<1>7. \A i \in 1..(n - 1) : k[i] <=> l \in ws[i]
    BY <1>2 DEF Answers
<1>8. \A i \in 1..n : i = n \/ i \in 1..(n - 1)
    BY <1>2
<1> HIDE DEF k2, ws2
<1>9. r \in States /\ r.stack = k2
    BY <1>2, <1>3, StackUpdated
<1>10. \A i \in 1..n : k2[i] <=> l \in ws2[i]
    <2>1. k2[n] <=> l \in ws2[n]
        BY <1>3, <1>5, <1>6
    <2> HIDE DEF n, k
    <2> QED
        BY <1>3, <1>4, <1>7, <1>8, <2>1
<1> HIDE DEF r
<1>11. Answers(r, ws2, l)
    BY <1>3, <1>4, <1>9, <1>10 DEF Answers, States
<1> QED
    BY <1>1, <1>11 DEF ws2

\* What an operator of two operands makes of their sets.
Combined(op, u, v) == IF op = "AND" THEN u \cap v ELSE u \cup v

LEMMA EvalBinary ==
    ASSUME NEW ws \in Seq(SUBSET Lines), NEW l \in Lines, Len(ws) > 1,
           NEW op \in {"AND", "OR"}, NEW st, Answers(st, ws, l)
    PROVE  Answers(EvalToken(st, op, l),
                   Append(SubSeq(ws, 1, Len(ws) - 2),
                          Combined(op, ws[Len(ws) - 1], ws[Len(ws)])), l)
<1> DEFINE n == Len(ws)
           k == st.stack
           e == IF op = "AND" THEN k[n - 1] /\ k[n] ELSE k[n - 1] \/ k[n]
           k2 == Append(SubSeq(k, 1, n - 2), e)
           w == Combined(op, ws[n - 1], ws[n])
           ws2 == Append(SubSeq(ws, 1, n - 2), w)
           r == [st EXCEPT !.stack = k2]
<1>1. /\ k \in Seq(BOOLEAN) /\ Len(k) = n /\ st \in States
      /\ n \in Nat /\ n > 1
    <2>1. n \in Nat /\ n > 1
        OBVIOUS
    <2>2. k \in Seq(BOOLEAN) /\ Len(k) = n /\ st \in States
        BY AnswersAre
    <2> QED
        BY <2>1, <2>2
<1>2. EvalToken(st, op, l) = r
    <2>1. st.bad = FALSE
        BY DEF Answers
    <2>2. op \notin Predicates /\ op # "NOT"
        BY TokensDiffer
    <2>3. Len(st.stack) = n /\ n > 1
        BY <1>1
    <2> QED
        BY <2>1, <2>2, <2>3 DEF EvalToken
<1>3. e \in BOOLEAN /\ w \in SUBSET Lines /\ (e <=> l \in w)
    <2>1. n - 1 \in 1..n /\ n \in 1..n
        BY <1>1
    <2>2. /\ k[n - 1] \in BOOLEAN /\ (k[n - 1] <=> l \in ws[n - 1])
          /\ k[n] \in BOOLEAN /\ (k[n] <=> l \in ws[n])
        BY <1>1, <2>1 DEF Answers
    <2>3. ws[n - 1] \in SUBSET Lines /\ ws[n] \in SUBSET Lines
        BY <2>1
    <2> QED
        BY <2>2, <2>3 DEF Combined
<1> HIDE DEF e, w
<1>4. /\ k2 \in Seq(BOOLEAN) /\ Len(k2) = n - 1 /\ k2[n - 1] = e
      /\ \A i \in 1..(n - 2) : k2[i] = k[i]
    <2> DEFINE p == SubSeq(k, 1, n - 2)
    <2>1. /\ p \in Seq(BOOLEAN) /\ Len(p) = n - 2
          /\ \A i \in 1..(n - 2) : p[i] = k[i]
        <3>1. n - 2 \in 0..Len(k)
            BY <1>1
        <3> QED
            BY <1>1, <3>1, StartOf
    <2> HIDE DEF p
    <2>2. k2 = Append(p, e)
        BY DEF p
    <2> QED
        BY <1>1, <1>3, <2>1, <2>2, AppendProperties
<1>5. /\ Len(ws2) = n - 1 /\ ws2[n - 1] = w
      /\ \A i \in 1..(n - 2) : ws2[i] = ws[i]
    <2> DEFINE p == SubSeq(ws, 1, n - 2)
    <2>1. /\ p \in Seq(SUBSET Lines) /\ Len(p) = n - 2
          /\ \A i \in 1..(n - 2) : p[i] = ws[i]
        <3>1. n - 2 \in 0..Len(ws)
            BY <1>1
        <3> QED
            BY <1>1, <3>1, StartOf
    <2> HIDE DEF p
    <2>2. ws2 = Append(p, w)
        BY DEF p
    <2> QED
        BY <1>1, <1>3, <2>1, <2>2, AppendProperties
<1> HIDE DEF k2, ws2
<1>6. r \in States /\ r.stack = k2
    BY <1>1, <1>4, StackUpdated
<1>7. \A i \in 1..(n - 1) : k2[i] <=> l \in ws2[i]
    <2>1. \A i \in 1..(n - 2) : k[i] <=> l \in ws[i]
        BY <1>1 DEF Answers
    <2>2. \A i \in 1..(n - 1) : i = n - 1 \/ i \in 1..(n - 2)
        BY <1>1
    <2>3. k2[n - 1] <=> l \in ws2[n - 1]
        BY <1>3, <1>4, <1>5
    <2> HIDE DEF n, k
    <2> QED
        BY <1>4, <1>5, <2>1, <2>2, <2>3
<1> HIDE DEF r
<1>8. Answers(r, ws2, l)
    BY <1>4, <1>5, <1>6, <1>7 DEF Answers, States
<1> QED
    BY <1>2, <1>8 DEF ws2, w

-----------------------------------------------------------------------------
(* What a postfix expression evaluates to.                                 *)

Empty == [stack |-> <<>>, bad |-> FALSE]

\* The evaluator's state for the line l after rpn.
Evaluated(rpn, l) == FoldLeft(LAMBDA st, t : EvalToken(st, t, l), Empty, rpn)

LEMMA EvaluateLoop ==
    ASSUME NEW T, NEW s \in Seq(T), NEW l
    PROVE  Evaluated(s, l) = Loop(<<"evaluate", l>>, Empty, s)
<1> DEFINE loop == <<"evaluate", l>>
           Is(run) == run = [S \in SUBSET (1..Len(s)) |->
                                 IF S = {} THEN Empty
                                 ELSE EvalToken(run[S \ {Max(S)}], s[Max(S)], l)]
<1>1. DOMAIN s = 1..Len(s) /\ Len(s) \in Nat
    OBVIOUS
<1>2. Evaluated(s, l) = (CHOOSE run : Is(run))[1..Len(s)]
    BY <1>1 DEF Evaluated, FoldLeft, MapThenFoldSet
<1>6. \A r, c : StepOf(loop, r, c) = EvalToken(r, c, l)
    <2>1. loop[1] = "evaluate" /\ loop[2] = l
        OBVIOUS
    <2> HIDE DEF loop
    <2> QED
        BY <2>1 DEF StepOf
<1> HIDE DEF loop
<1>3. ASSUME NEW run PROVE Is(run) <=> IsRun(loop, Empty, s, Len(s), run)
    BY <1>6 DEF IsRun
<1>4. PICK run : IsRun(loop, Empty, s, Len(s), run)
    BY <1>1, RunExists
<1>5. \E r : Is(r)
    BY <1>3, <1>4
<1> HIDE DEF Is
<1>7. Is(CHOOSE r : Is(r))
    BY <1>5
<1>8. Evaluated(s, l) = Loop(loop, Empty, s)
    BY <1>2, <1>3, <1>7, LoopIs
<1> QED
    BY <1>8 DEF loop

LEMMA EvaluatedFirst ==
    ASSUME NEW l
    PROVE  Evaluated(<<>>, l) = Empty
<1>1. <<>> \in Seq({})
    OBVIOUS
<1> QED
    BY <1>1, EvaluateLoop, LoopFirst

LEMMA EvaluatedNext ==
    ASSUME NEW T, NEW s \in Seq(T), NEW t \in T, NEW l
    PROVE  Evaluated(Append(s, t), l) = EvalToken(Evaluated(s, l), t, l)
<1> DEFINE loop == <<"evaluate", l>>
<1>1. Append(s, t) \in Seq(T)
    OBVIOUS
<1>2. Evaluated(Append(s, t), l) = Loop(loop, Empty, Append(s, t))
    BY <1>1, EvaluateLoop
<1>3. Evaluated(s, l) = Loop(loop, Empty, s)
    BY EvaluateLoop
<1>4. loop[1] = "evaluate" /\ loop[2] = l
    OBVIOUS
<1> HIDE DEF loop
<1>5. Loop(loop, Empty, Append(s, t)) = StepOf(loop, Loop(loop, Empty, s), t)
    BY LoopNext
<1>6. \A r, c : StepOf(loop, r, c) = EvalToken(r, c, l)
    BY <1>4 DEF StepOf
<1> QED
    BY <1>2, <1>3, <1>5, <1>6

\* out leaves the sets ws, as answered for every line.
Leaves(out, ws) ==
    /\ out \in Seq(Tokens) /\ ws \in Seq(SUBSET Lines)
    /\ \A l \in Lines : Answers(Evaluated(out, l), ws, l)

LEMMA LeavesNothing == Leaves(<<>>, <<>>)
<1>1. \A l \in Lines : Answers(Empty, <<>>, l)
    <2>1. Empty \in [stack : Seq(BOOLEAN), bad : {FALSE}] /\ Empty.stack = <<>>
        BY DEF Empty
    <2>2. Len(Empty.stack) = 0 /\ Len(<<>>) = 0 /\ 1..0 = {}
        BY <2>1
    <2> HIDE DEF Empty
    <2> QED
        BY <2>1, <2>2 DEF Answers
<1> QED
    BY <1>1, EvaluatedFirst DEF Leaves

LEMMA LeavesPredicate ==
    ASSUME NEW out, NEW ws, NEW t \in Predicates, Leaves(out, ws)
    PROVE  Leaves(Append(out, t), Append(ws, {x \in Lines : t \in x}))
<1> DEFINE w == {x \in Lines : t \in x}
<1>1. out \in Seq(Tokens) /\ ws \in Seq(SUBSET Lines) /\ t \in Tokens
    BY DEF Leaves, Tokens
<1>2. w \in SUBSET Lines
    OBVIOUS
<1>3. ASSUME NEW l \in Lines PROVE Answers(Evaluated(Append(out, t), l), Append(ws, w), l)
    <2>1. Answers(Evaluated(out, l), ws, l)
        BY DEF Leaves
    <2>2. Answers(EvalToken(Evaluated(out, l), t, l), Append(ws, w), l)
        BY <1>1, <2>1, EvalPredicate
    <2> QED
        BY <1>1, <2>2, EvaluatedNext
<1>4. Append(out, t) \in Seq(Tokens) /\ Append(ws, w) \in Seq(SUBSET Lines)
    <2> HIDE DEF w
    <2> QED
        BY <1>1, <1>2
<1> QED
    BY <1>3, <1>4 DEF Leaves

LEMMA LeavesNot ==
    ASSUME NEW out, NEW ws, Leaves(out, ws), ws # <<>>
    PROVE  Leaves(Append(out, "NOT"), [ws EXCEPT ![Len(ws)] = Lines \ @])
<1> DEFINE ws2 == [ws EXCEPT ![Len(ws)] = Lines \ @]
<1>1. out \in Seq(Tokens) /\ ws \in Seq(SUBSET Lines) /\ "NOT" \in Tokens
    BY DEF Leaves, Tokens, Operators
<1>2. ASSUME NEW l \in Lines PROVE Answers(Evaluated(Append(out, "NOT"), l), ws2, l)
    <2>1. Answers(Evaluated(out, l), ws, l)
        BY DEF Leaves
    <2>2. Answers(EvalToken(Evaluated(out, l), "NOT", l), ws2, l)
        BY <1>1, <2>1, EvalNot
    <2> QED
        BY <1>1, <2>2, EvaluatedNext
<1>3. Append(out, "NOT") \in Seq(Tokens) /\ ws2 \in Seq(SUBSET Lines)
    BY <1>1
<1> QED
    BY <1>2, <1>3 DEF Leaves

LEMMA LeavesBinary ==
    ASSUME NEW out, NEW ws, Leaves(out, ws), Len(ws) > 1, NEW op \in {"AND", "OR"}
    PROVE  Leaves(Append(out, op),
                  Append(SubSeq(ws, 1, Len(ws) - 2),
                         Combined(op, ws[Len(ws) - 1], ws[Len(ws)])))
<1> DEFINE n == Len(ws)
           w == Combined(op, ws[n - 1], ws[n])
           ws2 == Append(SubSeq(ws, 1, n - 2), w)
<1>1. out \in Seq(Tokens) /\ ws \in Seq(SUBSET Lines) /\ op \in Tokens
    BY DEF Leaves, Tokens, Operators
<1>2. ASSUME NEW l \in Lines PROVE Answers(Evaluated(Append(out, op), l), ws2, l)
    <2>1. Answers(Evaluated(out, l), ws, l)
        BY DEF Leaves
    <2>2. Answers(EvalToken(Evaluated(out, l), op, l), ws2, l)
        BY <1>1, <2>1, EvalBinary
    <2> QED
        BY <1>1, <2>2, EvaluatedNext
<1>3. w \in SUBSET Lines /\ n - 2 \in 0..Len(ws)
    <2>1. n \in 1..Len(ws) /\ n - 1 \in 1..Len(ws) /\ n - 2 \in 0..Len(ws)
        BY <1>1
    <2>2. ws[n] \in SUBSET Lines /\ ws[n - 1] \in SUBSET Lines
        BY <1>1, <2>1
    <2> QED
        BY <2>1, <2>2 DEF Combined
<1>4. ws2 \in Seq(SUBSET Lines)
    <2>1. SubSeq(ws, 1, n - 2) \in Seq(SUBSET Lines)
        BY <1>1, <1>3, StartOf
    <2> HIDE DEF w, n
    <2> QED
        BY <1>3, <2>1, AppendProperties
<1>5. Append(out, op) \in Seq(Tokens)
    BY <1>1
<1> QED
    BY <1>2, <1>4, <1>5 DEF Leaves

\* The lines that the evaluator selects, where one set is left.
LEMMA LeavesOne ==
    ASSUME NEW out, NEW ws, Leaves(out, ws), Len(ws) = 1
    PROVE  {l \in Lines : Evaluate(out, l)} = ws[1]
<1>1. ASSUME NEW l \in Lines PROVE Evaluate(out, l) <=> l \in ws[1]
    <2> DEFINE st == Evaluated(out, l)
    <2>1. Evaluate(out, l) <=> ~ st.bad /\ Len(st.stack) = 1 /\ st.stack[1]
        BY DEF Evaluate, Evaluated, Empty
    <2>2. Answers(st, ws, l)
        BY DEF Leaves
    <2> HIDE DEF st
    <2>3. st.bad = FALSE /\ Len(st.stack) = 1 /\ (st.stack[1] <=> l \in ws[1])
        <3>1. \A i \in 1..1 : st.stack[i] <=> l \in ws[i]
            BY <2>2 DEF Answers
        <3>2. st.stack[1] <=> l \in ws[1]
            BY <3>1
        <3>3. st.bad = FALSE /\ Len(st.stack) = 1
            BY <2>2, AnswersAre
        <3> QED
            BY <3>2, <3>3
    <2> QED
        BY <2>1, <2>3
<1>2. ws[1] \in SUBSET Lines
    BY DEF Leaves
<1> QED
    BY <1>1, <1>2

-----------------------------------------------------------------------------
(* Operands, put together.                                                 *)

\* The table has one set w for a..b, a text of whose operators none outside
\* its groups binds looser than q.
Operand(s, m, a, b, w, q) ==
    /\ Balanced(s, a, b) /\ b =< Len(s)
    /\ \A i \in a..b : s[i] \in {"AND", "OR"} /\ Depth(s, i) = Depth(s, a - 1) =>
                           Precedence[s[i]] >= q
    /\ m[b - a + 1][a] = {w}

LEMMA PrecedenceIs ==
    Precedence["NOT"] = 3 /\ Precedence["AND"] = 2 /\ Precedence["OR"] = 1
    BY DEF Precedence

LEMMA BalancedMeans ==
    ASSUME NEW s, NEW m, Len(s) \in Nat, Means(s, m, Len(s)), NEW a, NEW b,
           Balanced(s, a, b), b =< Len(s), NEW n, n = b - a + 1
    PROVE  /\ n \in Nat /\ n > 0
           /\ SpanIs(s, a, b, n, m, Outside(s, a, b, "OR"), Outside(s, a, b, "AND"), m[n][a])
<1>1. a \in Nat \ {0} /\ b \in Nat /\ a =< b
    BY DEF Balanced
<1>2. n \in 0..Len(s) /\ n > 0 /\ a \in 1..(Len(s) + 1 - n) /\ a + n - 1 = b
    BY <1>1
<1>3. m[n][a] = SpanMeaning(s, a, n, m)
    BY <1>2, TableRow
<1>4. SpanIs(s, a, a + n - 1, n, m, Outside(s, a, a + n - 1, "OR"),
             Outside(s, a, a + n - 1, "AND"), SpanMeaning(s, a, n, m))
    BY <1>1, <1>2, SpanCases
<1> QED
    BY <1>2, <1>3, <1>4

LEMMA OutsideNone ==
    ASSUME NEW s, NEW a, NEW b, NEW op,
           \A i \in a..b : ~ (s[i] = op /\ Depth(s, i) = Depth(s, a - 1))
    PROVE  Outside(s, a, b, op) = {}
    BY DEF Outside

LEMMA OperandOne ==
    ASSUME NEW s, NEW m, Len(s) \in Nat, Means(s, m, Len(s)),
           NEW a \in 1..Len(s), s[a] \in Predicates
    PROVE  Operand(s, m, a, a, {l \in Lines : s[a] \in l}, 3)
<1>1. s[a] # "(" /\ s[a] # ")" /\ s[a] # "AND" /\ s[a] # "OR" /\ s[a] # "NOT"
    BY TokensDiffer
<1>2. Balanced(s, a, a) /\ a =< Len(s)
    BY <1>1, BalancedOne
<1>3. Outside(s, a, a, "OR") = {} /\ Outside(s, a, a, "AND") = {}
    BY <1>1, OutsideNone
<1>4. a - a + 1 = 1
    OBVIOUS
<1>5. SpanIs(s, a, a, 1, m, {}, {}, m[1][a])
    BY <1>2, <1>3, <1>4, BalancedMeans
<1>6. m[1][a] = {{l \in Lines : s[a] \in l}}
    BY <1>1, <1>5 DEF SpanIs, Asking
<1>7. \A i \in a..a : ~ (s[i] \in {"AND", "OR"})
    BY <1>1
<1> QED
    BY <1>2, <1>4, <1>6, <1>7 DEF Operand

LEMMA OperandNot ==
    ASSUME NEW s, NEW m, Len(s) \in Nat, Means(s, m, Len(s)),
           NEW a \in Nat \ {0}, NEW b, NEW w, s[a] = "NOT", Operand(s, m, a + 1, b, w, 3)
    PROVE  Operand(s, m, a, b, Lines \ w, 3)
<1>1. Balanced(s, a + 1, b) /\ b =< Len(s) /\ b \in Nat /\ a + 1 =< b
    BY DEF Operand, Balanced
<1>2. Balanced(s, a, b)
    BY <1>1, BalancedAfter
<1>3. Depth(s, a) = Depth(s, a - 1) /\ (a + 1) - 1 = a
    BY DepthsAt
<1>4. ASSUME NEW i \in a..b, s[i] \in {"AND", "OR"}, Depth(s, i) = Depth(s, a - 1)
      PROVE  FALSE
    <2>1. i \in (a + 1)..b
        BY <1>1, <1>4
    <2>2. Precedence[s[i]] >= 3
        BY <1>3, <1>4, <2>1 DEF Operand
    <2> QED
        BY <1>4, <2>2, PrecedenceIs
<1>5. Outside(s, a, b, "OR") = {} /\ Outside(s, a, b, "AND") = {}
    BY <1>4, OutsideNone
<1> DEFINE n == b - a + 1
<1>6. n \in Nat /\ n > 1 /\ n - 1 = b - (a + 1) + 1
    BY <1>1
<1>7. SpanIs(s, a, b, n, m, {}, {}, m[n][a])
    BY <1>1, <1>2, <1>5, BalancedMeans
<1>8. m[n - 1][a + 1] = {w}
    BY <1>6 DEF Operand
<1> HIDE DEF n
<1>9. m[n][a] = Without({w})
    BY <1>6, <1>7, <1>8 DEF SpanIs
<1>10. Without({w}) = {Lines \ w}
    BY DEF Without
<1> QED
    BY <1>1, <1>2, <1>4, <1>9, <1>10 DEF Operand, n

LEMMA OperandGroup ==
    ASSUME NEW s, NEW m, Len(s) \in Nat, Means(s, m, Len(s)),
           NEW a \in Nat \ {0}, NEW b \in 1..Len(s), NEW w, NEW q, s[a] = "(", s[b] = ")",
           Operand(s, m, a + 1, b - 1, w, q)
    PROVE  Operand(s, m, a, b, w, 3)
<1>1. Balanced(s, a + 1, b - 1) /\ b \in Nat \ {0} /\ b =< Len(s) /\ a + 1 =< b - 1
    BY DEF Operand, Balanced
<1>2. Balanced(s, a, b) /\ \A i \in a..(b - 1) : Depth(s, i) > Depth(s, a - 1)
    BY <1>1, BalancedGroup
<1>3. ASSUME NEW i \in a..b, s[i] \in {"AND", "OR"}, Depth(s, i) = Depth(s, a - 1)
      PROVE  FALSE
    <2>1. i # b
        BY <1>3
    <2>2. i \in a..(b - 1)
        BY <1>1, <2>1
    <2>3. Depth(s, i) \in Int /\ Depth(s, a - 1) \in Int
        BY <1>1, DepthsType
    <2> QED
        BY <1>2, <1>3, <2>2, <2>3
<1>4. Outside(s, a, b, "OR") = {} /\ Outside(s, a, b, "AND") = {}
    BY <1>3, OutsideNone
<1> DEFINE n == b - a + 1
<1>5. n \in Nat /\ n > 1 /\ n - 2 = (b - 1) - (a + 1) + 1
    BY <1>1
<1>6. SpanIs(s, a, b, n, m, {}, {}, m[n][a])
    BY <1>1, <1>2, <1>4, BalancedMeans
<1>7. m[n - 2][a + 1] = {w}
    BY <1>5 DEF Operand
<1> HIDE DEF n
<1>8. m[n][a] = {w}
    BY <1>5, <1>6, <1>7 DEF SpanIs
<1> QED
    BY <1>1, <1>2, <1>3, <1>8 DEF Operand, n

LEMMA OperandBinary ==
    ASSUME NEW s, NEW m, Len(s) \in Nat, Means(s, m, Len(s)),
           NEW a, NEW p \in Nat \ {0}, NEW b, NEW u, NEW v, NEW op \in {"AND", "OR"},
           s[p] = op, NEW q, q = Precedence[op], NEW q2, q2 > q, q2 \in 1..3,
           Operand(s, m, a, p - 1, u, q), Operand(s, m, p + 1, b, v, q2)
    PROVE  Operand(s, m, a, b, Combined(op, u, v), q)
<1>1. /\ Balanced(s, a, p - 1) /\ Balanced(s, p + 1, b) /\ b =< Len(s)
      /\ a \in Nat \ {0} /\ b \in Nat /\ a =< p - 1 /\ p + 1 =< b
    BY DEF Operand, Balanced
<1>2. Balanced(s, a, b) /\ Depth(s, p) = Depth(s, a - 1) /\ (p + 1) - 1 = p
    <2>1. s[p] # "(" /\ s[p] # ")" /\ (p + 1) - 1 = p
        OBVIOUS
    <2>2. Balanced(s, a, b) /\ Depth(s, p) = Depth(s, a - 1)
        BY <1>1, <2>1, BalancedJoin
    <2> QED
        BY <2>1, <2>2
<1>3. ASSUME NEW i \in a..b, s[i] \in {"AND", "OR"}, Depth(s, i) = Depth(s, a - 1)
      PROVE  Precedence[s[i]] >= q /\ (i > p => Precedence[s[i]] >= q2)
    <2>1. CASE i \in a..(p - 1)
        BY <1>3, <2>1 DEF Operand
    <2>2. CASE i = p
        BY <2>2, PrecedenceIs
    <2>3. CASE i \in (p + 1)..b
        <3>1. Precedence[s[i]] >= q2
            BY <1>2, <1>3, <2>3 DEF Operand
        <3> QED
            BY <1>3, <3>1, PrecedenceIs
    <2> QED
        BY <1>1, <2>1, <2>2, <2>3
<1>4. Max(Outside(s, a, b, op)) = p /\ Outside(s, a, b, op) # {}
    <2> DEFINE S == Outside(s, a, b, op)
    <2>1. p \in S
        BY <1>1, <1>2 DEF Outside
    <2>2. ASSUME NEW i \in S PROVE i =< p
        <3>1. i \in a..b /\ s[i] = op /\ Depth(s, i) = Depth(s, a - 1)
            BY DEF Outside
        <3>2. i > p => q >= q2
            BY <1>3, <3>1
        <3> QED
            BY <1>1, <3>1, <3>2, PrecedenceIs
    <2>3. S \in SUBSET Int
        BY <1>1 DEF Outside
    <2> HIDE DEF S
    <2>4. Max(S) = p
        BY <2>1, <2>2, <2>3, MaxIs
    <2> QED
        BY <2>1, <2>4 DEF S
<1>5. op = "AND" => Outside(s, a, b, "OR") = {}
    <2>1. SUFFICES ASSUME op = "AND", NEW i \in a..b, s[i] = "OR", Depth(s, i) = Depth(s, a - 1)
                   PROVE  FALSE
        BY OutsideNone
    <2>2. Precedence[s[i]] >= q
        BY <1>3, <2>1
    <2> QED
        BY <2>1, <2>2, PrecedenceIs
<1> DEFINE n == b - a + 1
<1>6. SpanIs(s, a, b, n, m, Outside(s, a, b, "OR"), Outside(s, a, b, "AND"), m[n][a])
    BY <1>1, <1>2, BalancedMeans
<1>7. m[p - a][a] = {u} /\ m[b - p][p + 1] = {v}
    <2>1. (p - 1) - a + 1 = p - a /\ b - (p + 1) + 1 = b - p
        BY <1>1
    <2> QED
        BY <2>1 DEF Operand
<1> HIDE DEF n
<1>8. CASE op = "OR"
    <2>1. m[n][a] = Either({u}, {v})
        BY <1>4, <1>6, <1>7, <1>8 DEF SpanIs
    <2>2. Either({u}, {v}) = {u \cup v}
        BY DEF Either
    <2> QED
        BY <1>1, <1>2, <1>3, <1>8, <2>1, <2>2 DEF Operand, Combined, n
<1>9. CASE op = "AND"
    <2>1. m[n][a] = Both({u}, {v})
        BY <1>4, <1>5, <1>6, <1>7, <1>9 DEF SpanIs
    <2>2. Both({u}, {v}) = {u \cap v}
        BY DEF Both
    <2> QED
        BY <1>1, <1>2, <1>3, <1>9, <2>1, <2>2 DEF Operand, Combined, n
<1> QED
    BY <1>8, <1>9

-----------------------------------------------------------------------------
(* What the stack and the evaluator's stack say of the tokens read.        *)

Entries == {"(", "NOT", "AND", "OR"}

\* An operand that binds q tight leaves stack[j] no operator to pop.
Binds(stack, j, q) ==
    j > 0 /\ stack[j] # "(" =>
        q >= Precedence[stack[j]] /\ (q = Precedence[stack[j]] => stack[j] = "NOT")

\* Entry i of the stack is token at[i], and of the sets ws it and what is below
\* it came after sz[i].
Rung(s, m, stack, at, sz, ws, i) ==
    /\ stack[i] \in Entries /\ at[i - 1] < at[i] /\ stack[i] = s[at[i]]
    /\ stack[i] \in {"(", "NOT"} => at[i] = at[i - 1] + 1 /\ sz[i] = sz[i - 1]
    /\ stack[i] \in {"AND", "OR"} =>
          /\ sz[i] = sz[i - 1] + 1
          /\ Operand(s, m, at[i - 1] + 1, at[i] - 1, ws[sz[i]], Precedence[stack[i]])
          /\ Binds(stack, i - 1, Precedence[stack[i]])

NoGroup(stack, j) == \A h \in 1..j : stack[h] # "("

\* The first j entries of the stack, for the first n tokens.
Ladder(s, m, stack, j, n, at, sz, ws) ==
    /\ j \in Nat /\ n \in Nat /\ n =< Len(s)
    /\ at[0] = 0 /\ sz[0] = 0
    /\ \A i \in 0..j : at[i] \in 0..n /\ sz[i] \in Nat /\ \A h \in 0..i : sz[h] =< sz[i]
    /\ \A i \in 1..j : Rung(s, m, stack, at, sz, ws, i)
    /\ \A i \in 0..j : /\ Depth(s, at[i]) >= 0
                       /\ Depth(s, at[i]) = 0 <=> NoGroup(stack, i)

\* An operand is to come.
Awaiting(s, m, stack, j, n, at, sz, ws) ==
    /\ Ladder(s, m, stack, j, n, at, sz, ws)
    /\ at[j] = n /\ Len(ws) = sz[j]

\* An operand that binds q tight came last.
Holding(s, m, stack, j, n, at, sz, ws, q) ==
    /\ Ladder(s, m, stack, j, n, at, sz, ws)
    /\ Len(ws) = sz[j] + 1
    /\ Operand(s, m, at[j] + 1, n, ws[Len(ws)], q)
    /\ Binds(stack, j, q)

LEMMA BindsBelow ==
    ASSUME NEW stack, NEW j \in Nat, j > 0 => stack[j] \in Entries
    PROVE  Binds(stack, j, 3)
    BY PrecedenceIs DEF Binds, Entries

LEMMA OperandLooser ==
    ASSUME NEW s, NEW m, NEW a, NEW b, NEW w, NEW q \in 1..3, NEW q2 \in 1..3, q2 =< q,
           Operand(s, m, a, b, w, q)
    PROVE  Operand(s, m, a, b, w, q2)
<1>1. ASSUME NEW i \in a..b, s[i] \in {"AND", "OR"}, Depth(s, i) = Depth(s, a - 1)
      PROVE  Precedence[s[i]] >= q2
    <2>1. Precedence[s[i]] >= q
        BY <1>1 DEF Operand
    <2> QED
        BY <1>1, <2>1, PrecedenceIs
<1> QED
    BY <1>1 DEF Operand

\* What the ladder says depends on its own entries only.
LEMMA LadderAgrees ==
    ASSUME NEW s, NEW m, NEW stack, NEW j, NEW n, NEW at, NEW sz, NEW ws,
           Ladder(s, m, stack, j, n, at, sz, ws),
           NEW stack2, NEW n2 \in Nat, NEW at2, NEW sz2, NEW ws2,
           n =< n2, n2 =< Len(s), Len(s) \in Nat,
           \A i \in 1..j : stack2[i] = stack[i],
           \A i \in 0..j : at2[i] = at[i] /\ sz2[i] = sz[i],
           \A i \in 1..sz[j] : ws2[i] = ws[i]
    PROVE  Ladder(s, m, stack2, j, n2, at2, sz2, ws2)
<1>1. j \in Nat /\ n \in Nat /\ at2[0] = 0 /\ sz2[0] = 0
    BY DEF Ladder
<1>2. ASSUME NEW i \in 0..j
      PROVE  at2[i] \in 0..n2 /\ sz2[i] \in Nat /\ \A h \in 0..i : sz2[h] =< sz2[i]
    <2>1. at[i] \in 0..n /\ sz[i] \in Nat /\ \A h \in 0..i : sz[h] =< sz[i]
        BY DEF Ladder
    <2>2. 0..i \in SUBSET (0..j)
        BY <1>1
    <2> QED
        BY <1>1, <2>1, <2>2
<1>3. ASSUME NEW i \in 1..j PROVE Rung(s, m, stack2, at2, sz2, ws2, i)
    <2>1. Rung(s, m, stack, at, sz, ws, i)
        BY DEF Ladder
    <2>2. i \in 0..j /\ i - 1 \in 0..j /\ (i - 1 > 0 => i - 1 \in 1..j) /\ j \in 0..j
        BY <1>1
    <2>3. /\ stack2[i] = stack[i] /\ at2[i] = at[i] /\ sz2[i] = sz[i]
          /\ at2[i - 1] = at[i - 1] /\ sz2[i - 1] = sz[i - 1]
          /\ (i - 1 > 0 => stack2[i - 1] = stack[i - 1])
        BY <2>2
    <2>4. stack[i] \in {"AND", "OR"} => ws2[sz[i]] = ws[sz[i]]
        <3>1. SUFFICES ASSUME stack[i] \in {"AND", "OR"} PROVE sz[i] \in 1..sz[j]
            OBVIOUS
        <3>2. sz[i] = sz[i - 1] + 1
            BY <2>1, <3>1 DEF Rung
        <3>3. sz[i - 1] \in Nat /\ sz[i] \in Nat /\ sz[j] \in Nat /\ sz[i] =< sz[j]
            BY <2>2 DEF Ladder
        <3> QED
            BY <3>2, <3>3
    <2>5. \A q : Binds(stack, i - 1, q) => Binds(stack2, i - 1, q)
        BY <2>3 DEF Binds
    <2> QED
        BY <2>1, <2>3, <2>4, <2>5 DEF Rung
<1>4. ASSUME NEW i \in 0..j
      PROVE  /\ Depth(s, at2[i]) >= 0
             /\ Depth(s, at2[i]) = 0 <=> NoGroup(stack2, i)
    <2>1. 1..i \in SUBSET (1..j)
        BY <1>1
    <2>2. NoGroup(stack2, i) <=> NoGroup(stack, i)
        BY <2>1 DEF NoGroup
    <2> QED
        BY <2>2 DEF Ladder
<1> QED
    BY <1>1, <1>2, <1>3, <1>4 DEF Ladder

LEMMA LadderShorter ==
    ASSUME NEW s, NEW m, NEW stack, NEW j, NEW n, NEW at, NEW sz, NEW ws,
           Ladder(s, m, stack, j, n, at, sz, ws), NEW i \in 0..j
    PROVE  Ladder(s, m, stack, i, n, at, sz, ws)
<1>1. j \in Nat /\ 0..i \in SUBSET (0..j) /\ 1..i \in SUBSET (1..j) /\ i \in Nat
    BY DEF Ladder
<1> QED
    BY <1>1 DEF Ladder

LEMMA LadderLonger ==
    ASSUME NEW s, NEW m, NEW stack, NEW j, NEW n, NEW at, NEW sz, NEW ws,
           Ladder(s, m, stack, j, n, at, sz, ws),
           Rung(s, m, stack, at, sz, ws, j + 1),
           at[j + 1] \in 0..n, sz[j + 1] \in Nat, sz[j + 1] >= sz[j],
           Depth(s, at[j + 1]) =
               Depth(s, at[j]) + (IF stack[j + 1] = "(" THEN 1 ELSE 0)
    PROVE  Ladder(s, m, stack, j + 1, n, at, sz, ws)
<1>1. j \in Nat /\ n \in Nat /\ n =< Len(s) /\ j \in 0..j
    BY DEF Ladder
<1>2. \A i \in 0..(j + 1) : i = j + 1 \/ i \in 0..j
    BY <1>1
<1>3. \A i \in 1..(j + 1) : i = j + 1 \/ i \in 1..j
    BY <1>1
<1>4. \A h \in 0..(j + 1) : sz[h] =< sz[j + 1]
    <2>1. sz[j] \in Nat /\ \A h \in 0..j : sz[h] \in Nat /\ sz[h] =< sz[j]
        BY <1>1 DEF Ladder
    <2> QED
        BY <1>2, <2>1
<1>5. /\ Depth(s, at[j + 1]) >= 0
      /\ Depth(s, at[j + 1]) = 0 <=> NoGroup(stack, j + 1)
    <2>1. Depth(s, at[j]) >= 0 /\ (Depth(s, at[j]) = 0 <=> NoGroup(stack, j))
        BY <1>1 DEF Ladder
    <2>2. Depth(s, at[j]) \in Int
        <3>1. at[j] \in Nat
            BY <1>1 DEF Ladder
        <3> QED
            BY <3>1, DepthsType
    <2>3. NoGroup(stack, j + 1) <=> NoGroup(stack, j) /\ stack[j + 1] # "("
        <3>1. j + 1 \in 1..(j + 1) /\ 1..j \in SUBSET (1..(j + 1))
            BY <1>1
        <3> QED
            BY <1>3, <3>1 DEF NoGroup
    <2> QED
        BY <2>1, <2>2, <2>3
<1>6. j + 1 \in Nat /\ at[0] = 0 /\ sz[0] = 0
    BY <1>1 DEF Ladder
<1>7. \A i \in 0..(j + 1) : at[i] \in 0..n /\ sz[i] \in Nat /\ \A h \in 0..i : sz[h] =< sz[i]
    BY <1>2, <1>4 DEF Ladder
<1>8. \A i \in 1..(j + 1) : Rung(s, m, stack, at, sz, ws, i)
    BY <1>3 DEF Ladder
<1>9. \A i \in 0..(j + 1) : /\ Depth(s, at[i]) >= 0
                            /\ Depth(s, at[i]) = 0 <=> NoGroup(stack, i)
    BY <1>2, <1>5 DEF Ladder
<1> QED
    BY <1>1, <1>6, <1>7, <1>8, <1>9 DEF Ladder

-----------------------------------------------------------------------------
(* What each step of the parser does to the ladder.                        *)

LEMMA LadderEnd ==
    ASSUME NEW s, NEW m, NEW stack, NEW j, NEW n, NEW at, NEW sz, NEW ws,
           Ladder(s, m, stack, j, n, at, sz, ws)
    PROVE  /\ j \in Nat /\ n \in Nat /\ n =< Len(s) /\ at[j] \in 0..n /\ sz[j] \in Nat
           /\ Depth(s, at[j]) >= 0 /\ Depth(s, at[j]) \in Int
           /\ Depth(s, at[j]) = 0 <=> NoGroup(stack, j)
           /\ j > 0 => /\ Rung(s, m, stack, at, sz, ws, j) /\ stack[j] \in Entries
                       /\ at[j - 1] \in 0..n /\ sz[j - 1] \in Nat
<1>1. j \in Nat /\ n \in Nat /\ n =< Len(s) /\ j \in 0..j
    BY DEF Ladder
<1>2. at[j] \in 0..n /\ sz[j] \in Nat
    BY <1>1 DEF Ladder
<1>3. Depth(s, at[j]) >= 0 /\ (Depth(s, at[j]) = 0 <=> NoGroup(stack, j))
    BY <1>1 DEF Ladder
<1>4. Depth(s, at[j]) \in Int
    BY <1>2, DepthsType
<1>5. j > 0 => Rung(s, m, stack, at, sz, ws, j) /\ at[j - 1] \in 0..n /\ sz[j - 1] \in Nat
    <2>1. j > 0 => j \in 1..j /\ j - 1 \in 0..j
        BY <1>1
    <2> QED
        BY <2>1 DEF Ladder
<1> QED
    BY <1>1, <1>2, <1>3, <1>4, <1>5 DEF Rung

LEMMA AwaitPrefix ==
    ASSUME NEW s, NEW m, Len(s) \in Nat, NEW stack, NEW j, NEW n, NEW at, NEW sz, NEW ws,
           Awaiting(s, m, stack, j, n, at, sz, ws), n < Len(s), s[n + 1] \in {"(", "NOT"},
           NEW stack2, stack2[j + 1] = s[n + 1], \A i \in 1..j : stack2[i] = stack[i]
    PROVE  \E at2, sz2 : Awaiting(s, m, stack2, j + 1, n + 1, at2, sz2, ws)
<1> DEFINE at2 == [i \in 0..(j + 1) |-> IF i = j + 1 THEN n + 1 ELSE at[i]]
           sz2 == [i \in 0..(j + 1) |-> IF i = j + 1 THEN sz[j] ELSE sz[i]]
<1>1. /\ j \in Nat /\ n \in Nat /\ n + 1 =< Len(s) /\ sz[j] \in Nat
      /\ at[j] = n /\ Len(ws) = sz[j]
    BY LadderEnd DEF Awaiting
<1>2. /\ \A i \in 0..j : at2[i] = at[i] /\ sz2[i] = sz[i]
      /\ at2[j + 1] = n + 1 /\ sz2[j + 1] = sz[j]
    BY <1>1
<1> HIDE DEF at2, sz2
<1>3. Ladder(s, m, stack2, j, n + 1, at2, sz2, ws)
    <2>1. Ladder(s, m, stack, j, n, at, sz, ws) /\ n + 1 \in Nat /\ n =< n + 1
        BY <1>1 DEF Awaiting
    <2> QED
        BY <1>1, <1>2, <2>1, LadderAgrees
<1>4. at2[j] = n /\ sz2[j] = sz[j] /\ (j + 1) - 1 = j /\ n < n + 1
    BY <1>1, <1>2
<1>5. Rung(s, m, stack2, at2, sz2, ws, j + 1)
    BY <1>1, <1>2, <1>4 DEF Rung, Entries
<1>6. Depth(s, n + 1) = Depth(s, n) + (IF stack2[j + 1] = "(" THEN 1 ELSE 0)
    BY <1>1, DepthNext DEF Weight
<1>7. /\ at2[j + 1] \in 0..(n + 1) /\ sz2[j + 1] \in Nat /\ sz2[j + 1] >= sz2[j]
      /\ Depth(s, at2[j + 1]) =
               Depth(s, at2[j]) + (IF stack2[j + 1] = "(" THEN 1 ELSE 0)
    BY <1>1, <1>2, <1>4, <1>6
<1>8. Ladder(s, m, stack2, j + 1, n + 1, at2, sz2, ws)
    BY <1>3, <1>5, <1>7, LadderLonger
<1>9. Awaiting(s, m, stack2, j + 1, n + 1, at2, sz2, ws)
    BY <1>1, <1>2, <1>8 DEF Awaiting
<1> QED
    BY <1>9

LEMMA AwaitBinary ==
    ASSUME NEW s, NEW m, Len(s) \in Nat, NEW stack, NEW j, NEW n, NEW at, NEW sz, NEW ws,
           NEW q \in 1..3, Holding(s, m, stack, j, n, at, sz, ws, q), n < Len(s),
           NEW op \in {"AND", "OR"}, s[n + 1] = op, q >= Precedence[op],
           Binds(stack, j, Precedence[op]),
           NEW stack2, stack2[j + 1] = s[n + 1], \A i \in 1..j : stack2[i] = stack[i]
    PROVE  \E at2, sz2 : Awaiting(s, m, stack2, j + 1, n + 1, at2, sz2, ws)
<1> DEFINE at2 == [i \in 0..(j + 1) |-> IF i = j + 1 THEN n + 1 ELSE at[i]]
           sz2 == [i \in 0..(j + 1) |-> IF i = j + 1 THEN sz[j] + 1 ELSE sz[i]]
<1>1. /\ j \in Nat /\ n \in Nat /\ n + 1 =< Len(s) /\ sz[j] \in Nat
      /\ at[j] \in 0..n /\ Len(ws) = sz[j] + 1
    BY LadderEnd DEF Holding
<1>2. /\ \A i \in 0..j : at2[i] = at[i] /\ sz2[i] = sz[i]
      /\ at2[j + 1] = n + 1 /\ sz2[j + 1] = sz[j] + 1
    BY <1>1
<1> HIDE DEF at2, sz2
<1>3. Ladder(s, m, stack2, j, n + 1, at2, sz2, ws)
    <2>1. Ladder(s, m, stack, j, n, at, sz, ws) /\ n + 1 \in Nat /\ n =< n + 1
        BY <1>1 DEF Holding
    <2> QED
        BY <1>1, <1>2, <2>1, LadderAgrees
<1>4. /\ at2[j] = at[j] /\ sz2[j] = sz[j] /\ (j + 1) - 1 = j /\ (n + 1) - 1 = n
      /\ at[j] < n + 1
    BY <1>1, <1>2
<1>5. Operand(s, m, at[j] + 1, n, ws[sz[j] + 1], q)
    BY <1>1 DEF Holding
<1>6. Precedence[op] \in 1..3
    BY PrecedenceIs
<1>7. Operand(s, m, at[j] + 1, n, ws[sz[j] + 1], Precedence[op])
    BY <1>5, <1>6, OperandLooser
<1>8. Binds(stack2, j, Precedence[op])
    <2>1. j > 0 => stack2[j] = stack[j]
        BY <1>1
    <2> QED
        BY <2>1 DEF Binds
<1>9. Rung(s, m, stack2, at2, sz2, ws, j + 1)
    BY <1>1, <1>2, <1>4, <1>7, <1>8 DEF Rung, Entries
<1>10. Depth(s, n + 1) = Depth(s, at[j])
    <2>1. Depth(s, n + 1) = Depth(s, n)
        <3>1. Weight(s[n + 1]) = 0
            BY DEF Weight
        <3>2. Depth(s, n) \in Int /\ Depth(s, n + 1) = Depth(s, n) + Weight(s[n + 1])
            BY <1>1, DepthNext
        <3> QED
            BY <3>1, <3>2
    <2>2. Depth(s, n) = Depth(s, at[j])
        <3>1. (at[j] + 1) - 1 = at[j]
            BY <1>1
        <3> QED
            BY <1>5, <3>1 DEF Operand, Balanced
    <2> QED
        BY <2>1, <2>2
<1>11. /\ at2[j + 1] \in 0..(n + 1) /\ sz2[j + 1] \in Nat /\ sz2[j + 1] >= sz2[j]
       /\ Depth(s, at2[j + 1]) =
               Depth(s, at2[j]) + (IF stack2[j + 1] = "(" THEN 1 ELSE 0)
    <2>1. stack2[j + 1] # "(" /\ Depth(s, at[j]) \in Int
        BY <1>1, DepthsType
    <2> QED
        BY <1>1, <1>2, <1>4, <1>10, <2>1
<1>12. Ladder(s, m, stack2, j + 1, n + 1, at2, sz2, ws)
    BY <1>3, <1>9, <1>11, LadderLonger
<1>13. Awaiting(s, m, stack2, j + 1, n + 1, at2, sz2, ws)
    BY <1>1, <1>2, <1>12 DEF Awaiting
<1> QED
    BY <1>13

LEMMA HoldPredicate ==
    ASSUME NEW s, NEW m, Len(s) \in Nat, Means(s, m, Len(s)), NEW stack,
           NEW j, NEW n, NEW at, NEW sz, NEW ws \in Seq(SUBSET Lines),
           Awaiting(s, m, stack, j, n, at, sz, ws), n < Len(s), s[n + 1] \in Predicates
    PROVE  Holding(s, m, stack, j, n + 1, at, sz,
                   Append(ws, {l \in Lines : s[n + 1] \in l}), 3)
<1> DEFINE w == {l \in Lines : s[n + 1] \in l}
           ws2 == Append(ws, w)
<1>1. /\ j \in Nat /\ n \in Nat /\ n + 1 \in 1..Len(s) /\ sz[j] \in Nat
      /\ at[j] = n /\ Len(ws) = sz[j] /\ (j > 0 => stack[j] \in Entries)
    BY LadderEnd DEF Awaiting
<1>2. /\ Len(ws2) = Len(ws) + 1 /\ ws2[Len(ws) + 1] = w
      /\ \A i \in 1..Len(ws) : ws2[i] = ws[i]
    <2>1. w \in SUBSET Lines
        OBVIOUS
    <2> HIDE DEF w
    <2> QED
        BY <2>1, AppendProperties
<1>3. Operand(s, m, n + 1, n + 1, w, 3)
    BY <1>1, OperandOne
<1> HIDE DEF w, ws2
<1>4. Ladder(s, m, stack, j, n + 1, at, sz, ws2)
    <2>1. Ladder(s, m, stack, j, n, at, sz, ws) /\ n + 1 \in Nat /\ n =< n + 1
        BY <1>1 DEF Awaiting
    <2>2. \A i \in 1..sz[j] : ws2[i] = ws[i]
        BY <1>1, <1>2
    <2> DEFINE n2 == n + 1
    <2>3. n2 \in Nat /\ n =< n2 /\ n2 =< Len(s)
        BY <1>1
    <2> HIDE DEF n2
    <2>4. Ladder(s, m, stack, j, n2, at, sz, ws2)
        BY <2>1, <2>2, <2>3, LadderAgrees
    <2> QED
        BY <2>4 DEF n2
<1>5. Binds(stack, j, 3)
    BY <1>1, BindsBelow
<1>6. Holding(s, m, stack, j, n + 1, at, sz, ws2, 3)
    BY <1>1, <1>2, <1>3, <1>4, <1>5 DEF Holding
<1> QED
    BY <1>6 DEF ws2, w

LEMMA HoldGroup ==
    ASSUME NEW s, NEW m, Len(s) \in Nat, Means(s, m, Len(s)), NEW stack,
           NEW j, NEW n, NEW at, NEW sz, NEW ws, NEW q,
           Holding(s, m, stack, j, n, at, sz, ws, q), j > 0, stack[j] = "(",
           n < Len(s), s[n + 1] = ")"
    PROVE  Holding(s, m, stack, j - 1, n + 1, at, sz, ws, 3)
<1>1. /\ j \in Nat /\ n \in Nat /\ n + 1 \in 1..Len(s) /\ sz[j] \in Nat
      /\ at[j] \in 0..n /\ at[j - 1] \in 0..n /\ Len(ws) = sz[j] + 1
      /\ Rung(s, m, stack, at, sz, ws, j)
    BY LadderEnd DEF Holding
<1>2. /\ at[j] = at[j - 1] + 1 /\ sz[j] = sz[j - 1] /\ s[at[j]] = "("
      /\ at[j] \in Nat \ {0} /\ (n + 1) - 1 = n
    BY <1>1 DEF Rung
<1>3. Operand(s, m, at[j] + 1, (n + 1) - 1, ws[Len(ws)], q)
    BY <1>2 DEF Holding
<1>4. Operand(s, m, at[j - 1] + 1, n + 1, ws[Len(ws)], 3)
    BY <1>1, <1>2, <1>3, OperandGroup
<1>5. Ladder(s, m, stack, j - 1, n + 1, at, sz, ws)
    <2>1. j - 1 \in 0..j
        BY <1>1
    <2>2. Ladder(s, m, stack, j - 1, n, at, sz, ws)
        BY <2>1, LadderShorter DEF Holding
    <2>3. n + 1 \in Nat /\ n =< n + 1 /\ n + 1 =< Len(s)
        BY <1>1
    <2> QED
        BY <2>2, <2>3, LadderAgrees
<1>6. Binds(stack, j - 1, 3)
    <2>1. j - 1 \in Nat
        BY <1>1
    <2> QED
        BY <1>5, <2>1, LadderEnd, BindsBelow
<1> QED
    BY <1>1, <1>2, <1>4, <1>5, <1>6 DEF Holding

LEMMA HoldNot ==
    ASSUME NEW s, NEW m, Len(s) \in Nat, Means(s, m, Len(s)), NEW stack,
           NEW j, NEW n, NEW at, NEW sz, NEW ws \in Seq(SUBSET Lines), NEW q \in 1..3,
           Holding(s, m, stack, j, n, at, sz, ws, q), j > 0, stack[j] = "NOT"
    PROVE  Holding(s, m, stack, j - 1, n, at, sz, [ws EXCEPT ![Len(ws)] = Lines \ @], 3)
<1> DEFINE ws2 == [ws EXCEPT ![Len(ws)] = Lines \ @]
<1>1. /\ j \in Nat /\ n \in Nat /\ n =< Len(s) /\ sz[j] \in Nat
      /\ at[j] \in 0..n /\ at[j - 1] \in 0..n /\ Len(ws) = sz[j] + 1
      /\ Rung(s, m, stack, at, sz, ws, j)
    BY LadderEnd DEF Holding
<1>2. /\ at[j] = at[j - 1] + 1 /\ sz[j] = sz[j - 1] /\ s[at[j]] = "NOT"
      /\ at[j] \in Nat \ {0}
    BY <1>1 DEF Rung
<1>3. q = 3
    BY PrecedenceIs DEF Holding, Binds
<1>4. Operand(s, m, at[j] + 1, n, ws[Len(ws)], 3)
    BY <1>3 DEF Holding
<1>5. Operand(s, m, at[j - 1] + 1, n, Lines \ ws[Len(ws)], 3)
    BY <1>1, <1>2, <1>4, OperandNot
<1>6. /\ Len(ws2) = Len(ws) /\ ws2[Len(ws)] = Lines \ ws[Len(ws)]
      /\ \A i \in 1..sz[j - 1] : ws2[i] = ws[i]
    <2>1. Len(ws) \in 1..Len(ws) /\ \A i \in 1..sz[j - 1] : i \in 1..Len(ws) /\ i # Len(ws)
        BY <1>1, <1>2
    <2> QED
        BY <2>1
<1> HIDE DEF ws2
<1>7. Ladder(s, m, stack, j - 1, n, at, sz, ws2)
    <2>1. j - 1 \in 0..j
        BY <1>1
    <2>2. Ladder(s, m, stack, j - 1, n, at, sz, ws)
        BY <2>1, LadderShorter DEF Holding
    <2> QED
        BY <1>1, <1>6, <2>2, LadderAgrees
<1>8. Binds(stack, j - 1, 3)
    <2>1. j - 1 \in Nat
        BY <1>1
    <2> QED
        BY <1>7, <2>1, LadderEnd, BindsBelow
<1>9. Holding(s, m, stack, j - 1, n, at, sz, ws2, 3)
    BY <1>1, <1>2, <1>5, <1>6, <1>7, <1>8 DEF Holding
<1> QED
    BY <1>9 DEF ws2

LEMMA HoldBinary ==
    ASSUME NEW s, NEW m, Len(s) \in Nat, Means(s, m, Len(s)), NEW stack,
           NEW j, NEW n, NEW at, NEW sz, NEW ws \in Seq(SUBSET Lines), NEW q \in 1..3,
           Holding(s, m, stack, j, n, at, sz, ws, q), j > 0,
           NEW op \in {"AND", "OR"}, stack[j] = op
    PROVE  /\ Len(ws) > 1
           /\ Holding(s, m, stack, j - 1, n, at, sz,
                      Append(SubSeq(ws, 1, Len(ws) - 2),
                             Combined(op, ws[Len(ws) - 1], ws[Len(ws)])), Precedence[op])
<1> DEFINE c == Len(ws)
           w == Combined(op, ws[c - 1], ws[c])
           ws2 == Append(SubSeq(ws, 1, c - 2), w)
<1>1. /\ j \in Nat /\ n \in Nat /\ n =< Len(s) /\ sz[j] \in Nat /\ sz[j - 1] \in Nat
      /\ at[j] \in 0..n /\ at[j - 1] \in 0..n /\ c = sz[j] + 1
      /\ Rung(s, m, stack, at, sz, ws, j)
    BY LadderEnd DEF Holding
<1>2. /\ at[j - 1] < at[j] /\ sz[j] = sz[j - 1] + 1 /\ s[at[j]] = op
      /\ Operand(s, m, at[j - 1] + 1, at[j] - 1, ws[sz[j]], Precedence[op])
      /\ Binds(stack, j - 1, Precedence[op])
    BY <1>1 DEF Rung
<1>3. Operand(s, m, at[j] + 1, n, ws[c], q)
    BY DEF Holding
<1>4. q > Precedence[op]
    <2>1. q >= Precedence[op] /\ q # Precedence[op]
        BY DEF Holding, Binds
    <2> QED
        BY <2>1, PrecedenceIs
<1>5. c - 1 = sz[j] /\ c > 1 /\ c \in Nat /\ sz[j - 1] = c - 2 /\ at[j] \in Nat \ {0}
    <2>1. at[j] \in Nat \ {0}
        <3>1. at[j] \in Nat /\ at[j - 1] \in Nat /\ at[j - 1] < at[j]
            BY <1>1, <1>2
        <3> QED
            BY <3>1
    <2> HIDE DEF c
    <2> DEFINE x == sz[j]
               y == sz[j - 1]
    <2>3. x \in Nat /\ y \in Nat /\ c = x + 1 /\ x = y + 1
        BY <1>1, <1>2
    <2> HIDE DEF x, y
    <2>4. c - 1 = x /\ c > 1 /\ c \in Nat /\ y = c - 2
        BY <2>3
    <2>2. c - 1 = sz[j] /\ c > 1 /\ c \in Nat /\ sz[j - 1] = c - 2
        BY <2>4 DEF x, y
    <2> QED
        BY <2>1, <2>2
<1>6. Operand(s, m, at[j - 1] + 1, n, w, Precedence[op])
    BY <1>2, <1>3, <1>4, <1>5, OperandBinary
<1>7. w \in SUBSET Lines
    <2>1. c - 1 \in 1..c /\ c \in 1..c
        BY <1>5
    <2>2. ws[c - 1] \in SUBSET Lines /\ ws[c] \in SUBSET Lines
        BY <2>1
    <2> QED
        BY <2>2 DEF Combined
<1>8. Len(ws2) = c - 1 /\ ws2[c - 1] = w /\ \A i \in 1..(c - 2) : ws2[i] = ws[i]
    <2> DEFINE p == SubSeq(ws, 1, c - 2)
    <2>1. c - 2 \in 0..Len(ws)
        BY <1>5
    <2>2. /\ p \in Seq(SUBSET Lines) /\ Len(p) = c - 2
          /\ \A i \in 1..(c - 2) : p[i] = ws[i]
        BY <2>1, StartOf
    <2> HIDE DEF p, w
    <2>3. ws2 = Append(p, w)
        BY DEF p
    <2> QED
        BY <1>5, <1>7, <2>2, <2>3, AppendProperties
<1> HIDE DEF w, ws2
<1>9. Ladder(s, m, stack, j - 1, n, at, sz, ws2)
    <2>1. j - 1 \in 0..j
        BY <1>1
    <2>2. Ladder(s, m, stack, j - 1, n, at, sz, ws)
        BY <2>1, LadderShorter DEF Holding
    <2>3. \A i \in 1..sz[j - 1] : ws2[i] = ws[i]
        BY <1>5, <1>8
    <2> QED
        BY <1>1, <2>2, <2>3, LadderAgrees
<1>10. Len(ws2) = sz[j - 1] + 1 /\ ws2[Len(ws2)] = w
    BY <1>5, <1>8
<1>11. Holding(s, m, stack, j - 1, n, at, sz, ws2, Precedence[op])
    BY <1>2, <1>6, <1>9, <1>10 DEF Holding
<1> QED
    BY <1>5, <1>11 DEF ws2, w

-----------------------------------------------------------------------------
(* Popping operators.                                                      *)

\* The entries k, k - 1, ..., i of the stack.
Downwards(stack, i, k) == [x \in 1..(k - i + 1) |-> stack[k + 1 - x]]

LEMMA ReverseIs ==
    ASSUME NEW T, NEW stack \in Seq(T), NEW k \in 0..Len(stack), NEW i \in 1..(k + 1)
    PROVE  Reverse(SubSeq(stack, i, k)) = Downwards(stack, i, k)
<1> DEFINE p == SubSeq(stack, i, k)
           c == k - i + 1
<1>1. i \in Int /\ k \in Int /\ c \in Nat /\ \A x \in i..k : stack[x] \in T
    OBVIOUS
<1>2. Len(p) = c /\ \A x \in 1..c : p[x] = stack[i + x - 1]
    <2>1. /\ Len(SubSeq(stack, i, k)) = IF i =< k THEN k - i + 1 ELSE 0
          /\ \A x \in 1..(k - i + 1) : SubSeq(stack, i, k)[x] = stack[i + x - 1]
        BY <1>1, SubSeqProperties
    <2> QED
        BY <1>1, <2>1
<1> HIDE DEF p
<1>3. Reverse(p) = [x \in 1..c |-> p[(c - x) + 1]]
    BY <1>2 DEF Reverse
<1>4. \A x \in 1..c : p[(c - x) + 1] = stack[k + 1 - x]
    <2>1. ASSUME NEW x \in 1..c PROVE p[(c - x) + 1] = stack[k + 1 - x]
        <3>1. (c - x) + 1 \in 1..c /\ i + ((c - x) + 1) - 1 = k + 1 - x
            BY <1>1
        <3> QED
            BY <1>2, <3>1
    <2> QED
        BY <2>1
<1>5. Reverse(p) = [x \in 1..c |-> stack[k + 1 - x]]
    BY <1>3, <1>4
<1> QED
    BY <1>5 DEF p, Downwards

LEMMA DownwardsNext ==
    ASSUME NEW T, NEW stack \in Seq(T), NEW k \in 1..Len(stack), NEW i \in 1..k
    PROVE  /\ Downwards(stack, i + 1, k) \in Seq(T)
           /\ Downwards(stack, i, k) = Append(Downwards(stack, i + 1, k), stack[i])
<1> DEFINE c == k - i
           d == [x \in 1..c |-> stack[k + 1 - x]]
           e == [x \in 1..(c + 1) |-> stack[k + 1 - x]]
<1>1. c \in Nat /\ k - (i + 1) + 1 = c /\ k - i + 1 = c + 1 /\ k + 1 - (c + 1) = i
    OBVIOUS
<1>2. /\ \A x \in 1..c : stack[k + 1 - x] \in T
      /\ \A x \in 1..(c + 1) : stack[k + 1 - x] \in T
    <2>1. ASSUME NEW x \in 1..(c + 1) PROVE k + 1 - x \in 1..Len(stack)
        OBVIOUS
    <2>2. 1..c \in SUBSET (1..(c + 1))
        BY <1>1
    <2> QED
        BY <2>1, <2>2
<1>3. stack[i] \in T
    OBVIOUS
<1> HIDE DEF c
<1>4. d \in Seq(T) /\ Len(d) = c
    BY <1>1, <1>2
<1>5. e \in Seq(T) /\ Len(e) = c + 1
    BY <1>1, <1>2
<1>6. /\ Append(d, stack[i]) \in Seq(T) /\ Len(Append(d, stack[i])) = c + 1
      /\ Append(d, stack[i])[c + 1] = stack[i]
      /\ \A x \in 1..c : Append(d, stack[i])[x] = d[x]
    <2> HIDE DEF d
    <2> QED
        BY <1>1, <1>3, <1>4, AppendProperties
<1>7. ASSUME NEW x \in 1..(c + 1) PROVE e[x] = Append(d, stack[i])[x]
    <2>1. CASE x = c + 1
        <3>1. e[c + 1] = stack[k + 1 - (c + 1)]
            BY <1>1
        <3> QED
            BY <1>1, <1>6, <2>1, <3>1
    <2>2. CASE x \in 1..c
        <3>1. e[x] = stack[k + 1 - x] /\ d[x] = stack[k + 1 - x]
            BY <2>2
        <3> QED
            BY <1>6, <2>2, <3>1
    <2> QED
        BY <1>1, <2>1, <2>2
<1>8. e = Append(d, stack[i])
    <2> HIDE DEF e, d
    <2> QED
        BY <1>5, <1>6, <1>7, SeqEqual
<1>9. Downwards(stack, i + 1, k) = d /\ Downwards(stack, i, k) = e
    BY <1>1 DEF Downwards
<1> QED
    BY <1>4, <1>8, <1>9

LEMMA HoldPopped ==
    ASSUME NEW s, NEW m, Len(s) \in Nat, Means(s, m, Len(s)), NEW stack,
           NEW j, NEW n, NEW at, NEW sz, NEW ws, NEW q \in 1..3,
           Holding(s, m, stack, j, n, at, sz, ws, q), NEW out, Leaves(out, ws),
           j > 0, stack[j] # "("
    PROVE  \E ws2 : /\ Holding(s, m, stack, j - 1, n, at, sz, ws2, Precedence[stack[j]])
                    /\ Leaves(Append(out, stack[j]), ws2)
<1>1. stack[j] \in {"NOT", "AND", "OR"} /\ Len(ws) > 0
    <2>1. stack[j] \in Entries /\ Len(ws) = sz[j] + 1 /\ sz[j] \in Nat
        BY LadderEnd DEF Holding
    <2> QED
        BY <2>1 DEF Entries
<1>2. ws \in Seq(SUBSET Lines)
    BY DEF Leaves
<1>3. CASE stack[j] = "NOT"
    <2>1. ws # <<>>
        BY <1>1
    <2> DEFINE ws2 == [ws EXCEPT ![Len(ws)] = Lines \ @]
    <2>2. Leaves(Append(out, "NOT"), ws2)
        BY <2>1, LeavesNot
    <2>3. Holding(s, m, stack, j - 1, n, at, sz, ws2, 3)
        BY <1>2, <1>3, HoldNot
    <2> HIDE DEF ws2
    <2> QED
        BY <1>3, <2>2, <2>3, PrecedenceIs
<1>4. ASSUME NEW op \in {"AND", "OR"}, stack[j] = op
      PROVE  \E ws2 : /\ Holding(s, m, stack, j - 1, n, at, sz, ws2, Precedence[op])
                      /\ Leaves(Append(out, op), ws2)
    <2> DEFINE ws2 == Append(SubSeq(ws, 1, Len(ws) - 2),
                             Combined(op, ws[Len(ws) - 1], ws[Len(ws)]))
    <2>1. Len(ws) > 1 /\ Holding(s, m, stack, j - 1, n, at, sz, ws2, Precedence[op])
        BY <1>2, <1>4, HoldBinary
    <2>2. Leaves(Append(out, op), ws2)
        BY <2>1, LeavesBinary
    <2> HIDE DEF ws2
    <2> QED
        BY <2>1, <2>2
<1> QED
    BY <1>1, <1>3, <1>4

\* Down to entry k, where the operators above k bind low or tighter.
LEMMA HoldAllPopped ==
    ASSUME NEW s, NEW m, Len(s) \in Nat, Means(s, m, Len(s)), NEW stack \in Seq(Entries),
           NEW j, j = Len(stack), NEW n, NEW at, NEW sz, NEW ws,
           Holding(s, m, stack, j, n, at, sz, ws, 3), NEW out, Leaves(out, ws),
           NEW k \in 0..j, NEW low \in 1..3,
           \A i \in (k + 1)..j : stack[i] # "(" /\ Precedence[stack[i]] >= low
    PROVE  \E ws2, q : /\ Holding(s, m, stack, k, n, at, sz, ws2, q)
                       /\ q \in 1..3 /\ q >= low
                       /\ Leaves(out \o Reverse(SubSeq(stack, k + 1, j)), ws2)
<1> DEFINE Popped(i) == \E ws2, q : /\ Holding(s, m, stack, i, n, at, sz, ws2, q)
                                    /\ q \in 1..3 /\ q >= low
                                    /\ Leaves(out \o Downwards(stack, i + 1, j), ws2)
           S == {d \in Nat : d =< j - k => Popped(j - d)}
<1>1. j \in Nat /\ out \in Seq(Tokens) /\ Entries \in SUBSET Tokens /\ stack \in Seq(Tokens)
    <2>1. Entries \in SUBSET Tokens
        BY DEF Entries, Tokens, Operators
    <2>2. stack \in Seq(Tokens)
        BY <2>1
    <2> QED
        BY <2>1, <2>2 DEF Leaves
<1>2. 0 \in S
    <2>1. Downwards(stack, j + 1, j) = <<>>
        BY <1>1 DEF Downwards
    <2>2. out \o <<>> = out
        BY <1>1
    <2>3. Popped(j)
        <3>1. Leaves(out \o Downwards(stack, j + 1, j), ws) /\ 3 \in 1..3 /\ 3 >= low
            <4>1. out \o Downwards(stack, j + 1, j) = out
                BY <2>1, <2>2
            <4>2. Leaves(out \o Downwards(stack, j + 1, j), ws)
                BY <4>1
            <4>3. 3 \in 1..3 /\ 3 >= low
                OBVIOUS
            <4> QED
                BY <4>2, <4>3
        <3>2. SUFFICES \E ws2, q : /\ Holding(s, m, stack, j, n, at, sz, ws2, q)
                                   /\ q \in 1..3 /\ q >= low
                                   /\ Leaves(out \o Downwards(stack, j + 1, j), ws2)
            OBVIOUS
        <3> WITNESS ws, 3
        <3> QED
            BY <3>1
    <2>4. j - 0 = j
        BY <1>1
    <2> HIDE DEF Popped
    <2> QED
        BY <2>3, <2>4
<1>3. ASSUME NEW d \in Nat, d \in S, d + 1 =< j - k PROVE Popped(j - (d + 1))
    <2> DEFINE i == j - d
    <2>1. /\ i \in (k + 1)..j /\ i \in 1..Len(stack) /\ i > 0 /\ i - 1 = j - (d + 1)
          /\ (i - 1) + 1 = i
        BY <1>1, <1>3
    <2>2. Popped(i)
        <3>1. d =< j - k
            BY <1>1, <1>3
        <3> HIDE DEF Popped
        <3> QED
            BY <1>3, <3>1
    <2> HIDE DEF i
    <2>3. PICK ws2, q : /\ Holding(s, m, stack, i, n, at, sz, ws2, q)
                        /\ q \in 1..3 /\ q >= low
                        /\ Leaves(out \o Downwards(stack, i + 1, j), ws2)
        BY <2>2
    <2> DEFINE done == out \o Downwards(stack, i + 1, j)
               q2 == Precedence[stack[i]]
    <2>4. stack[i] # "(" /\ q2 >= low /\ stack[i] \in Entries
        BY <2>1
    <2>5. \E ws3 : /\ Holding(s, m, stack, i - 1, n, at, sz, ws3, q2)
                   /\ Leaves(Append(done, stack[i]), ws3)
        BY <2>1, <2>3, <2>4, HoldPopped
    <2>6. q2 \in 1..3
        BY <2>4, PrecedenceIs DEF Entries
    <2>7. Append(done, stack[i]) = out \o Downwards(stack, i, j)
        <3>1. j \in 1..Len(stack) /\ i \in 1..j
            BY <1>1, <2>1
        <3>2. /\ Downwards(stack, i + 1, j) \in Seq(Tokens)
              /\ Downwards(stack, i, j) = Append(Downwards(stack, i + 1, j), stack[i])
            BY <1>1, <3>1, DownwardsNext
        <3>3. stack[i] \in Tokens
            BY <1>1, <2>4
        <3> DEFINE p == Downwards(stack, i + 1, j)
                   e == stack[i]
        <3> HIDE DEF p, e
        <3>4. p \in Seq(Tokens) /\ e \in Tokens
            BY <3>2, <3>3 DEF p, e
        <3>5. out \o Append(p, e) = Append(out \o p, e)
            BY <1>1, <3>4, AppendOne
        <3> QED
            BY <3>2, <3>5 DEF p, e
    <2>8. Popped(i - 1)
        <3> HIDE DEF done, q2
        <3> QED
            BY <2>1, <2>4, <2>5, <2>6, <2>7
    <2> HIDE DEF Popped
    <2> QED
        BY <2>1, <2>8
<1>4. \A d \in Nat : d \in S
    <2>1. ASSUME NEW d \in Nat, d \in S PROVE d + 1 \in S
        <3> HIDE DEF Popped
        <3> QED
            BY <1>3, <2>1
    <2> HIDE DEF S
    <2> QED
        BY <1>2, <2>1, AllNumbers
<1>5. Popped(k)
    <2>1. j - k \in Nat /\ j - (j - k) = k
        BY <1>1
    <2> HIDE DEF Popped
    <2> QED
        BY <1>4, <2>1
<1>6. Reverse(SubSeq(stack, k + 1, j)) = Downwards(stack, k + 1, j)
    <2>1. j \in 0..Len(stack) /\ k + 1 \in 1..(j + 1)
        BY <1>1
    <2> QED
        BY <2>1, ReverseIs
<1> QED
    BY <1>5, <1>6

LEMMA TopIs ==
    ASSUME NEW S, opStack \in Seq(Entries)
    PROVE  /\ Top(S) \in 0..Len(opStack)
           /\ Top(S) # 0 => opStack[Top(S)] \in S
           /\ \A i \in (Top(S) + 1)..Len(opStack) : opStack[i] \notin S
<1> DEFINE P == {0} \cup {i \in DOMAIN opStack : opStack[i] \in S}
<1>1. DOMAIN opStack = 1..Len(opStack) /\ Len(opStack) \in Nat
    OBVIOUS
<1>2. P \in SUBSET 0..Len(opStack) /\ P # {}
    BY <1>1
<1>3. Max(P) \in P /\ \A y \in P : Max(P) >= y
    <2> HIDE DEF P
    <2> QED
        BY <1>1, <1>2, MaxExists
<1>4. Top(S) = Max(P)
    BY DEF Top
<1> DEFINE t == Max(P)
<1>5. t \in 0..Len(opStack) /\ (t # 0 => opStack[t] \in S)
    BY <1>2, <1>3
<1>6. ASSUME NEW i \in (t + 1)..Len(opStack) PROVE opStack[i] \notin S
    <2>1. i \in DOMAIN opStack /\ ~ (t >= i)
        BY <1>1, <1>5
    <2> HIDE DEF t
    <2>2. i \notin P
        BY <1>3, <2>1 DEF t
    <2> QED
        BY <2>1, <2>2
<1> HIDE DEF t
<1> QED
    BY <1>4, <1>5, <1>6 DEF t

-----------------------------------------------------------------------------
(* The parser, for every expression that begins with the tokens read.      *)

\* s begins with the tokens r.
Begun(r, s) == Len(r) =< Len(s) /\ \A i \in 1..Len(r) : s[i] = r[i]

\* The n tokens of s read are those that out, the stack and e stand for.
LaidOut(s, m, out, stack, e, n) ==
    \E at, sz, ws :
        /\ Leaves(out, ws)
        /\ e => Awaiting(s, m, stack, Len(stack), n, at, sz, ws)
        /\ ~ e => Holding(s, m, stack, Len(stack), n, at, sz, ws, 3)

ParserTypes ==
    /\ read \in Seq(Tokens) /\ output \in Seq(Tokens) /\ opStack \in Seq(Entries)
    /\ expect \in BOOLEAN
    /\ parseStatus \in {"reading", "rejected", "incomplete", "compiled"}

ReadSoFar ==
    parseStatus = "reading" =>
        /\ expect <=> read = <<>> \/ ~ Ends(read[Len(read)])
        /\ \A s \in Seq(Tokens) : \A m : Begun(read, s) /\ Means(s, m, Len(s)) =>
               LaidOut(s, m, output, opStack, expect, Len(read))

Refusals ==
    /\ parseStatus = "rejected" => \A s \in Seq(Tokens) : Begun(read, s) => Meaning(s) = {}
    /\ parseStatus = "incomplete" => Meaning(read) = {}

\* The inductive invariant of the parser: what was read is laid out on the
\* output and the stack, in every expression that begins with it.
ParserInv == ParserTypes /\ ReadSoFar /\ Refusals /\ CompiledAsWritten

LEMMA TokenTypes ==
    /\ "(" \in Tokens /\ ")" \in Tokens /\ "NOT" \in Tokens /\ "AND" \in Tokens
    /\ "OR" \in Tokens /\ Malformed \in Tokens /\ Predicates \in SUBSET Tokens
    BY DEF Tokens, Operators

LEMMA BegunBefore ==
    ASSUME NEW r \in Seq(Tokens), NEW t \in Tokens, NEW s \in Seq(Tokens),
           Begun(Append(r, t), s), NEW n, n = Len(r)
    PROVE  /\ Begun(r, s) /\ n \in Nat /\ n < Len(s) /\ s[n + 1] = t
           /\ Len(Append(r, t)) = n + 1 /\ Append(r, t)[n + 1] = t
<1>1. /\ n \in Nat /\ Len(Append(r, t)) = n + 1 /\ Append(r, t)[n + 1] = t
      /\ \A i \in 1..n : Append(r, t)[i] = r[i]
    BY AppendProperties
<1> DEFINE r2 == Append(r, t)
<1> HIDE DEF r2
<1>2. Len(r2) = n + 1 /\ n + 1 =< Len(s) /\ \A i \in 1..(n + 1) : s[i] = r2[i]
    BY <1>1 DEF Begun, r2
<1>3. n < Len(s) /\ s[n + 1] = t /\ \A i \in 1..n : s[i] = r[i]
    BY <1>1, <1>2 DEF r2
<1> QED
    BY <1>1, <1>3 DEF Begun

\* What is an expression goes on as expect says.
LEMMA GoesOn ==
    ASSUME NEW r \in Seq(Tokens), NEW t \in Tokens, NEW s \in Seq(Tokens),
           Begun(Append(r, t), s), Meaning(s) # {}
    PROVE  /\ Begins(t) <=> (r = <<>> \/ ~ Ends(r[Len(r)]))
           /\ t # Malformed /\ Depth(s, Len(r) + 1) >= 0
<1> DEFINE n == Len(r)
<1>1. /\ Begun(r, s) /\ n \in Nat /\ n < Len(s) /\ s[n + 1] = t /\ Len(s) \in Nat
    BY BegunBefore
<1>2. WellFormed(s, 1, Len(s))
    BY <1>1, MeaningIsFormed
<1>3. n + 1 \in 1..Len(s) /\ 1 - 1 = 0
    BY <1>1
<1>4. Depth(s, n + 1) >= 0
    BY <1>2, <1>3, DepthFirst DEF WellFormed, Balanced
<1>5. t # Malformed
    BY <1>1, <1>2, <1>3 DEF WellFormed
<1>6. CASE r = <<>>
    <2>1. n = 0
        BY <1>6
    <2>2. Begins(s[1])
        BY <1>2 DEF WellFormed
    <2> QED
        BY <1>1, <1>4, <1>5, <1>6, <2>1, <2>2
<1>7. CASE r # <<>>
    <2>1. n # 0
        BY <1>7, EmptySeq
    <2>2. n \in 1..(Len(s) - 1) /\ n \in 1..n
        BY <1>1, <2>1
    <2>3. s[n] = r[n]
        BY <1>1, <2>2 DEF Begun
    <2>4. Ends(s[n]) <=> ~ Begins(s[n + 1])
        BY <1>2, <2>2 DEF WellFormed
    <2> QED
        BY <1>1, <1>4, <1>5, <1>7, <2>3, <2>4
<1> QED
    BY <1>6, <1>7

\* The groups open at the end are those on the stack.
LEMMA LaidDepth ==
    ASSUME NEW s, NEW m, NEW out, NEW stack, NEW e \in BOOLEAN, NEW n,
           LaidOut(s, m, out, stack, e, n)
    PROVE  /\ Depth(s, n) >= 0 /\ Depth(s, n) \in Int
           /\ Depth(s, n) = 0 <=> NoGroup(stack, Len(stack))
<1> DEFINE j == Len(stack)
<1>1. PICK at, sz, ws : /\ e => Awaiting(s, m, stack, j, n, at, sz, ws)
                        /\ ~ e => Holding(s, m, stack, j, n, at, sz, ws, 3)
    BY DEF LaidOut
<1> HIDE DEF j
<1>2. Ladder(s, m, stack, j, n, at, sz, ws)
    BY <1>1 DEF Awaiting, Holding
<1>3. /\ at[j] \in 0..n /\ n \in Nat /\ Depth(s, at[j]) >= 0 /\ Depth(s, at[j]) \in Int
      /\ Depth(s, at[j]) = 0 <=> NoGroup(stack, j)
    BY <1>2, LadderEnd
<1>4. Depth(s, n) = Depth(s, at[j])
    <2>1. CASE e
        BY <1>1, <2>1 DEF Awaiting
    <2>2. CASE ~ e
        <3>1. Operand(s, m, at[j] + 1, n, ws[Len(ws)], 3) /\ (at[j] + 1) - 1 = at[j]
            BY <1>1, <1>3, <2>2 DEF Holding
        <3> QED
            BY <3>1 DEF Operand, Balanced
    <2> QED
        BY <2>1, <2>2
<1> QED
    BY <1>3, <1>4 DEF j

LEMMA HoldingAgrees ==
    ASSUME NEW s, NEW m, NEW stack, NEW j, NEW n, NEW at, NEW sz, NEW ws, NEW q,
           Holding(s, m, stack, j, n, at, sz, ws, q), Len(s) \in Nat,
           NEW stack2, \A i \in 1..j : stack2[i] = stack[i]
    PROVE  Holding(s, m, stack2, j, n, at, sz, ws, q)
<1>1. Ladder(s, m, stack, j, n, at, sz, ws) /\ j \in Nat /\ n \in Nat /\ n =< Len(s)
    BY LadderEnd DEF Holding
<1>2. Ladder(s, m, stack2, j, n, at, sz, ws)
    BY <1>1, LadderAgrees
<1>3. j > 0 => stack2[j] = stack[j]
    BY <1>1
<1> QED
    BY <1>2, <1>3 DEF Holding, Binds

\* A table for s, and how it is laid out.
LEMMA LaidSomehow ==
    ASSUME ParserInv, parseStatus = "reading", NEW s \in Seq(Tokens), Begun(read, s)
    PROVE  \E m : Means(s, m, Len(s)) /\ LaidOut(s, m, output, opStack, expect, Len(read))
<1>1. PICK m : Means(s, m, Len(s))
    BY TableExists
<1> QED
    BY <1>1 DEF ParserInv, ReadSoFar

\* A token that goes on wrongly makes the rest futile.
LEMMA Refused ==
    ASSUME ParserInv, parseStatus = "reading", NEW t \in Tokens,
           \/ ~ (expect <=> Begins(t))
           \/ t = Malformed
           \/ t = ")" /\ Top({"("}) = 0,
           NEW s \in Seq(Tokens), Begun(Append(read, t), s)
    PROVE  Meaning(s) = {}
<1> DEFINE n == Len(read)
<1>1. SUFFICES ASSUME Meaning(s) # {} PROVE FALSE
    OBVIOUS
<1>2. read \in Seq(Tokens) /\ opStack \in Seq(Entries) /\ expect \in BOOLEAN
    BY DEF ParserInv, ParserTypes
<1>3. /\ Begins(t) <=> (read = <<>> \/ ~ Ends(read[n]))
      /\ t # Malformed /\ Depth(s, n + 1) >= 0
    BY <1>1, <1>2, GoesOn
<1>4. expect <=> Begins(t)
    BY <1>3 DEF ParserInv, ReadSoFar
<1>5. t = ")" /\ Top({"("}) = 0
    BY <1>2, <1>3, <1>4
<1>6. Begun(read, s) /\ n \in Nat /\ s[n + 1] = ")"
    BY <1>2, <1>5, BegunBefore
<1>7. PICK m : LaidOut(s, m, output, opStack, expect, n)
    BY <1>6, LaidSomehow
<1>8. NoGroup(opStack, Len(opStack))
    BY <1>2, <1>5, TopIs DEF NoGroup
<1>9. Depth(s, n) = 0
    BY <1>2, <1>7, <1>8, LaidDepth
<1>10. Depth(s, n + 1) = Depth(s, n) - 1
    BY <1>6, <1>9, DepthNext DEF Weight
<1> QED
    BY <1>3, <1>9, <1>10

LEMMA ParserStarts == ParserInit => ParserInv
<1> SUFFICES ASSUME ParserInit PROVE ParserInv
    OBVIOUS
<1>1. /\ read = <<>> /\ output = <<>> /\ opStack = <<>> /\ expect = TRUE
      /\ parseStatus = "reading" /\ Len(opStack) = 0 /\ Len(read) = 0
    BY DEF ParserInit
<1>2. ASSUME NEW s \in Seq(Tokens), NEW m PROVE LaidOut(s, m, output, opStack, expect, 0)
    <2> DEFINE at == [i \in 0..0 |-> 0]
    <2>1. at[0] = 0 /\ Depth(s, at[0]) = 0
        BY DepthFirst
    <2>2. Ladder(s, m, opStack, 0, 0, at, at, <<>>)
        <3>1. NoGroup(opStack, 0)
            BY DEF NoGroup
        <3>2. 0 =< Len(s)
            OBVIOUS
        <3> HIDE DEF at
        <3> QED
            BY <2>1, <3>1, <3>2 DEF Ladder
    <2>3. Len(<<>>) = 0
        OBVIOUS
    <2> HIDE DEF at
    <2>4. Awaiting(s, m, opStack, 0, 0, at, at, <<>>)
        BY <2>1, <2>2, <2>3 DEF Awaiting
    <2> QED
        BY <1>1, <2>4, LeavesNothing DEF LaidOut
<1>3. ParserTypes
    BY <1>1 DEF ParserTypes
<1>4. ReadSoFar
    BY <1>1, <1>2 DEF ReadSoFar
<1> QED
    BY <1>1, <1>3, <1>4 DEF ParserInv, Refusals, CompiledAsWritten

\* A token that is refused.
LEMMA RejectKeeps ==
    ASSUME ParserInv, NEW t \in Tokens, NextToken(t), Reject,
           \/ ~ (expect <=> Begins(t))
           \/ t = Malformed
           \/ t = ")" /\ Top({"("}) = 0
    PROVE  ParserInv'
<1>1. /\ parseStatus = "reading" /\ read' = Append(read, t) /\ parseStatus' = "rejected"
      /\ UNCHANGED <<output, opStack, expect>> /\ ParserTypes
    BY DEF NextToken, Reject, ParserInv
<1>2. \A s \in Seq(Tokens) : Begun(read', s) => Meaning(s) = {}
    BY <1>1, Refused
<1>3. ParserTypes'
    BY <1>1 DEF ParserTypes
<1> QED
    BY <1>1, <1>2, <1>3 DEF ParserInv, ReadSoFar, Refusals, CompiledAsWritten

\* A token that is taken, for every expression that goes on with it.
LEMMA TakenKeeps ==
    ASSUME ParserInv, NEW t \in Tokens, NextToken(t), UNCHANGED parseStatus,
           output' \in Seq(Tokens), opStack' \in Seq(Entries), expect' \in BOOLEAN,
           expect' <=> ~ Ends(t),
           \A s \in Seq(Tokens) : \A m :
               /\ Means(s, m, Len(s)) /\ Begun(read, s)
               /\ Len(read) < Len(s) /\ s[Len(read) + 1] = t
               /\ LaidOut(s, m, output, opStack, expect, Len(read))
               => LaidOut(s, m, output', opStack', expect', Len(read) + 1)
    PROVE  ParserInv'
<1>1. /\ parseStatus = "reading" /\ read' = Append(read, t) /\ parseStatus' = "reading"
      /\ read \in Seq(Tokens)
    BY DEF NextToken, ParserInv, ParserTypes
<1>2. /\ read' \in Seq(Tokens) /\ read' # <<>> /\ Len(read') = Len(read) + 1
      /\ read'[Len(read')] = t
    BY <1>1, AppendProperties
<1>3. ASSUME NEW s \in Seq(Tokens), NEW m, Begun(read', s), Means(s, m, Len(s))
      PROVE  LaidOut(s, m, output', opStack', expect', Len(read'))
    <2>1. /\ Begun(read, s) /\ Len(read) < Len(s) /\ s[Len(read) + 1] = t
        <3> DEFINE n == Len(read)
        <3>1. Begun(Append(read, t), s) /\ n = Len(read) /\ read \in Seq(Tokens)
            BY <1>1, <1>3
        <3> HIDE DEF n
        <3>2. Begun(read, s) /\ n < Len(s) /\ s[n + 1] = t
            BY <3>1, BegunBefore
        <3> QED
            BY <3>2 DEF n
    <2>2. LaidOut(s, m, output, opStack, expect, Len(read))
        <3>1. ReadSoFar /\ parseStatus = "reading"
            BY <1>1 DEF ParserInv
        <3>2. Begun(read, s) /\ Means(s, m, Len(s)) /\ s \in Seq(Tokens)
            BY <1>3, <2>1
        <3> QED
            BY ONLY <3>1, <3>2 DEF ReadSoFar
    <2> QED
        BY <1>2, <1>3, <2>1, <2>2
<1>4. ParserTypes'
    BY <1>1, <1>2 DEF ParserTypes
<1>5. ReadSoFar'
    BY <1>2, <1>3 DEF ReadSoFar
<1> QED
    BY <1>1, <1>4, <1>5 DEF ParserInv, Refusals, CompiledAsWritten

LEMMA PushedIs ==
    ASSUME NEW stack \in Seq(Entries), NEW t \in Entries
    PROVE  /\ Append(stack, t) \in Seq(Entries) /\ Len(Append(stack, t)) = Len(stack) + 1
           /\ Append(stack, t)[Len(stack) + 1] = t
           /\ \A i \in 1..Len(stack) : Append(stack, t)[i] = stack[i]
    BY AppendProperties

\* OpenGroup and ReadNot.
LEMMA PrefixKeeps ==
    ASSUME ParserInv, NEW t \in {"(", "NOT"}, NextToken(t), expect,
           opStack' = Append(opStack, t), UNCHANGED <<output, expect, parseStatus>>
    PROVE  ParserInv'
<1>1. /\ opStack \in Seq(Entries) /\ t \in Entries /\ t \in Tokens /\ output \in Seq(Tokens)
      /\ expect = TRUE /\ ~ Ends(t)
    BY TokenTypes, TokensDiffer DEF ParserInv, ParserTypes, Entries, Ends
<1> DEFINE j == Len(opStack)
           n == Len(read)
<1>2. /\ opStack' \in Seq(Entries) /\ Len(opStack') = j + 1 /\ opStack'[j + 1] = t
      /\ \A i \in 1..j : opStack'[i] = opStack[i]
    BY <1>1, PushedIs
<1>3. ASSUME NEW s \in Seq(Tokens), NEW m, n < Len(s), s[n + 1] = t,
             LaidOut(s, m, output, opStack, expect, n)
      PROVE  LaidOut(s, m, output', opStack', expect', n + 1)
    <2>1. PICK at, sz, ws : Leaves(output, ws) /\ Awaiting(s, m, opStack, j, n, at, sz, ws)
        BY <1>1, <1>3 DEF LaidOut
    <2>2. Len(s) \in Nat
        OBVIOUS
    <2> DEFINE stack2 == opStack'
    <2>3. stack2[j + 1] = s[n + 1] /\ \A i \in 1..j : stack2[i] = opStack[i]
        BY <1>2, <1>3
    <2> HIDE DEF stack2, j, n
    <2>4. \E at2, sz2 : Awaiting(s, m, stack2, j + 1, n + 1, at2, sz2, ws)
        BY <1>3, <2>1, <2>2, <2>3, AwaitPrefix
    <2> QED
        BY <1>1, <1>2, <2>1, <2>4 DEF LaidOut, stack2
<1> QED
    BY <1>1, <1>2, <1>3, TakenKeeps

LEMMA PredicateKeeps ==
    ASSUME ParserInv, NEW t \in Predicates, NextToken(t), expect,
           output' = Append(output, t), expect' = FALSE, UNCHANGED <<opStack, parseStatus>>
    PROVE  ParserInv'
<1>1. /\ opStack \in Seq(Entries) /\ t \in Tokens /\ output \in Seq(Tokens)
      /\ expect = TRUE /\ Ends(t)
    BY TokenTypes DEF ParserInv, ParserTypes, Ends
<1>2. output' \in Seq(Tokens)
    BY <1>1
<1> DEFINE j == Len(opStack)
           n == Len(read)
<1>3. ASSUME NEW s \in Seq(Tokens), NEW m, Means(s, m, Len(s)), n < Len(s), s[n + 1] = t,
             LaidOut(s, m, output, opStack, expect, n)
      PROVE  LaidOut(s, m, output', opStack', expect', n + 1)
    <2>1. PICK at, sz, ws : Leaves(output, ws) /\ Awaiting(s, m, opStack, j, n, at, sz, ws)
        BY <1>1, <1>3 DEF LaidOut
    <2> DEFINE ws2 == Append(ws, {l \in Lines : t \in l})
    <2>2. Leaves(Append(output, t), ws2)
        BY <2>1, LeavesPredicate
    <2>3. Len(s) \in Nat /\ ws \in Seq(SUBSET Lines)
        BY <2>1 DEF Leaves
    <2>4. Holding(s, m, opStack, j, n + 1, at, sz, ws2, 3)
        BY <1>3, <2>1, <2>3, HoldPredicate
    <2> HIDE DEF ws2
    <2> QED
        BY <2>2, <2>4 DEF LaidOut
<1> QED
    BY <1>1, <1>2, <1>3, TakenKeeps

\* What PopTo and the cuts of the stack leave.
LEMMA PoppedIs ==
    ASSUME NEW stack \in Seq(Entries), NEW out \in Seq(Tokens), NEW k \in 0..Len(stack)
    PROVE  /\ out \o Reverse(SubSeq(stack, k + 1, Len(stack))) \in Seq(Tokens)
           /\ SubSeq(stack, 1, k) \in Seq(Entries) /\ Len(SubSeq(stack, 1, k)) = k
           /\ \A i \in 1..k : SubSeq(stack, 1, k)[i] = stack[i]
<1> DEFINE j == Len(stack)
           p == Reverse(SubSeq(stack, k + 1, j))
<1>1. /\ Entries \in SUBSET Tokens /\ j \in Nat /\ \A i \in 1..j : stack[i] \in Entries
      /\ j \in 0..Len(stack) /\ k + 1 \in 1..(j + 1)
    BY DEF Entries, Tokens, Operators
<1>2. p = Downwards(stack, k + 1, j)
    BY <1>1, ReverseIs
<1>3. p \in Seq(Tokens)
    <2>1. \A x \in 1..(j - (k + 1) + 1) : stack[j + 1 - x] \in Tokens
        BY <1>1
    <2>2. j - (k + 1) + 1 \in Nat
        BY <1>1
    <2> HIDE DEF p, j
    <2> QED
        BY <1>2, <2>1, <2>2 DEF Downwards
<1> QED
    BY <1>3, StartOf

LEMMA CloseKeeps ==
    ASSUME ParserInv, NextToken(")"), ~ expect, Top({"("}) # 0, PopTo(Top({"("})),
           opStack' = SubSeq(opStack, 1, Top({"("}) - 1), UNCHANGED <<expect, parseStatus>>
    PROVE  ParserInv'
<1> DEFINE j == Len(opStack)
           n == Len(read)
           k == Top({"("})
<1>1. /\ opStack \in Seq(Entries) /\ ")" \in Tokens /\ output \in Seq(Tokens)
      /\ expect = FALSE /\ expect' = FALSE /\ Ends(")") /\ j \in Nat /\ n \in Nat
    BY TokenTypes DEF ParserInv, ParserTypes, Ends
<1>2. k \in 1..j /\ opStack[k] = "(" /\ \A i \in (k + 1)..j : opStack[i] # "("
    BY <1>1, TopIs
<1>3. \A i \in (k + 1)..j : opStack[i] # "(" /\ Precedence[opStack[i]] >= 1
    <2>1. \A i \in (k + 1)..j : opStack[i] \in Entries
        BY <1>1, <1>2
    <2> QED
        BY <1>2, <2>1, PrecedenceIs DEF Entries
<1>4. output' = output \o Reverse(SubSeq(opStack, k + 1, j))
    BY DEF PopTo
<1>5. /\ output' \in Seq(Tokens) /\ opStack' \in Seq(Entries) /\ Len(opStack') = k - 1
      /\ \A i \in 1..(k - 1) : opStack'[i] = opStack[i]
    <2>1. k \in 0..j /\ k - 1 \in 0..j
        <3> HIDE DEF k, j
        <3> QED
            BY <1>1, <1>2
    <2> HIDE DEF k
    <2>2. output' \in Seq(Tokens)
        BY <1>1, <1>4, <2>1, PoppedIs
    <2> DEFINE k2 == k - 1
    <2>3. k2 \in 0..Len(opStack) /\ opStack' = SubSeq(opStack, 1, k2)
        BY <2>1 DEF k
    <2> HIDE DEF k2
    <2> DEFINE below == SubSeq(opStack, 1, k2)
    <2>4. /\ below \in Seq(Entries) /\ Len(below) = k2
          /\ \A i \in 1..k2 : below[i] = opStack[i]
        BY <1>1, <2>3, PoppedIs
    <2>5. opStack' = below
        BY <2>3
    <2> HIDE DEF below
    <2>6. /\ opStack' \in Seq(Entries) /\ Len(opStack') = k2
          /\ \A i \in 1..k2 : opStack'[i] = opStack[i]
        BY <2>4, <2>5
    <2> QED
        BY <2>2, <2>6 DEF k2
<1> HIDE DEF k
<1>6. ASSUME NEW s \in Seq(Tokens), NEW m, Means(s, m, Len(s)), n < Len(s), s[n + 1] = ")",
             LaidOut(s, m, output, opStack, expect, n)
      PROVE  LaidOut(s, m, output', opStack', expect', n + 1)
    <2>1. PICK at, sz, ws : Leaves(output, ws) /\ Holding(s, m, opStack, j, n, at, sz, ws, 3)
        BY <1>1, <1>6 DEF LaidOut
    <2>2. Len(s) \in Nat /\ k \in 0..j /\ k > 0
        BY <1>1, <1>2
    <2>3. PICK ws2, q : /\ Holding(s, m, opStack, k, n, at, sz, ws2, q)
                        /\ Leaves(output', ws2)
        <3> DEFINE low == 1
        <3>1. /\ low \in 1..3
              /\ \A i \in (k + 1)..j : opStack[i] # "(" /\ Precedence[opStack[i]] >= low
            BY <1>3
        <3> HIDE DEF low, n
        <3>2. \E ws2, q : /\ Holding(s, m, opStack, k, n, at, sz, ws2, q)
                          /\ q \in 1..3 /\ q >= low
                          /\ Leaves(output \o Reverse(SubSeq(opStack, k + 1, j)), ws2)
            BY <1>1, <1>6, <2>1, <2>2, <3>1, HoldAllPopped
        <3> QED
            BY <1>4, <3>2
    <2> HIDE DEF n
    <2>4. Holding(s, m, opStack, k - 1, n + 1, at, sz, ws2, 3)
        BY <1>2, <1>6, <2>2, <2>3, HoldGroup
    <2> DEFINE stack2 == opStack'
               k2 == k - 1
               n2 == n + 1
    <2>5. /\ Holding(s, m, opStack, k2, n2, at, sz, ws2, 3)
          /\ \A i \in 1..k2 : stack2[i] = opStack[i]
        BY <1>5, <2>4
    <2> HIDE DEF stack2, k2, n2
    <2>6. Holding(s, m, stack2, k2, n2, at, sz, ws2, 3)
        BY <2>2, <2>5, HoldingAgrees
    <2> QED
        BY <1>1, <1>5, <2>3, <2>6 DEF LaidOut, stack2, k2, n2
<1> QED
    BY <1>1, <1>5, <1>6, TakenKeeps

LEMMA OperatorKeeps ==
    ASSUME ParserInv, NEW op \in {"AND", "OR"}, NextToken(op), ~ expect,
           PopTo(Top(Binding(op))),
           opStack' = Append(SubSeq(opStack, 1, Top(Binding(op))), op),
           expect' = TRUE, UNCHANGED parseStatus
    PROVE  ParserInv'
<1> DEFINE j == Len(opStack)
           n == Len(read)
           k == Top(Binding(op))
<1>1. /\ opStack \in Seq(Entries) /\ op \in Tokens /\ op \in Entries
      /\ output \in Seq(Tokens) /\ expect = FALSE /\ j \in Nat /\ n \in Nat
    BY TokenTypes DEF ParserInv, ParserTypes, Entries
<1>2. ~ Ends(op)
    BY TokensDiffer DEF Ends
<1>3. /\ k \in 0..j /\ (k # 0 => opStack[k] \in Binding(op))
      /\ \A i \in (k + 1)..j : opStack[i] \notin Binding(op)
    BY <1>1, TopIs
<1> HIDE DEF k
<1>4. \A i \in (k + 1)..j : opStack[i] # "(" /\ Precedence[opStack[i]] >= Precedence[op]
    <2>1. \A i \in (k + 1)..j : opStack[i] \in Entries
        BY <1>1, <1>3
    <2> QED
        BY <1>3, <2>1, PrecedenceIs DEF Entries, Binding, Operators
<1>5. Precedence[op] \in 1..3 /\ Binds(opStack, k, Precedence[op])
    BY <1>3, PrecedenceIs DEF Binds, Binding, Operators
<1>6. output' = output \o Reverse(SubSeq(opStack, k + 1, j))
    BY DEF PopTo, k
<1> DEFINE below == SubSeq(opStack, 1, k)
<1>7. /\ output' \in Seq(Tokens) /\ below \in Seq(Entries) /\ Len(below) = k
      /\ \A i \in 1..k : below[i] = opStack[i]
    BY <1>1, <1>3, <1>6, PoppedIs
<1>8. opStack' = Append(below, op)
    BY DEF k
<1> HIDE DEF below
<1>9. /\ opStack' \in Seq(Entries) /\ Len(opStack') = k + 1 /\ opStack'[k + 1] = op
      /\ \A i \in 1..k : opStack'[i] = opStack[i]
    <2> DEFINE stack2 == Append(below, op)
    <2>1. /\ stack2 \in Seq(Entries) /\ Len(stack2) = k + 1 /\ stack2[k + 1] = op
          /\ \A i \in 1..k : stack2[i] = below[i]
        BY <1>1, <1>7, PushedIs
    <2>2. opStack' = stack2
        BY <1>8
    <2> HIDE DEF stack2
    <2> QED
        BY <1>7, <2>1, <2>2
<1>10. ASSUME NEW s \in Seq(Tokens), NEW m, Means(s, m, Len(s)), n < Len(s), s[n + 1] = op,
              LaidOut(s, m, output, opStack, expect, n)
       PROVE  LaidOut(s, m, output', opStack', expect', n + 1)
    <2>1. PICK at, sz, ws : Leaves(output, ws) /\ Holding(s, m, opStack, j, n, at, sz, ws, 3)
        BY <1>1, <1>10 DEF LaidOut
    <2>2. Len(s) \in Nat
        OBVIOUS
    <2> DEFINE low == Precedence[op]
    <2> HIDE DEF low
    <2>3. low \in 1..3 /\ \A i \in (k + 1)..j : opStack[i] # "(" /\ Precedence[opStack[i]] >= low
        BY <1>4, <1>5 DEF low
    <2>4. PICK ws2, q : /\ Holding(s, m, opStack, k, n, at, sz, ws2, q)
                        /\ q \in 1..3 /\ q >= low
                        /\ Leaves(output', ws2)
        BY <1>1, <1>3, <1>6, <1>10, <2>1, <2>2, <2>3, HoldAllPopped
    <2> DEFINE stack2 == opStack'
    <2>5. stack2[k + 1] = s[n + 1] /\ \A i \in 1..k : stack2[i] = opStack[i]
        BY <1>9, <1>10
    <2> HIDE DEF stack2, n
    <2>6. q >= Precedence[op]
        BY <2>4 DEF low
    <2>7. \E at2, sz2 : Awaiting(s, m, stack2, k + 1, n + 1, at2, sz2, ws2)
        BY <1>5, <1>10, <2>2, <2>4, <2>5, <2>6, AwaitBinary
    <2> QED
        BY <1>9, <2>4, <2>7 DEF LaidOut, stack2
<1> QED
    BY <1>1, <1>2, <1>7, <1>9, <1>10, TakenKeeps

\* The end of the tokens, found early or in time.
LEMMA IncompleteIs ==
    ASSUME ParserInv, parseStatus = "reading", read # <<>>, expect \/ Top({"("}) # 0
    PROVE  Meaning(read) = {}
<1> DEFINE n == Len(read)
<1>1. SUFFICES ASSUME Meaning(read) # {} PROVE FALSE
    OBVIOUS
<1>2. /\ read \in Seq(Tokens) /\ opStack \in Seq(Entries) /\ expect \in BOOLEAN
      /\ expect <=> ~ Ends(read[n])
    BY DEF ParserInv, ParserTypes, ReadSoFar
<1>3. WellFormed(read, 1, n) /\ n \in Nat
    BY <1>1, <1>2, MeaningIsFormed
<1>4. Top({"("}) # 0
    BY <1>2, <1>3 DEF WellFormed
<1>5. Begun(read, read)
    BY <1>2 DEF Begun
<1>6. PICK m : LaidOut(read, m, output, opStack, expect, n)
    BY <1>2, <1>5, LaidSomehow
<1>7. ~ NoGroup(opStack, Len(opStack))
    <2>1. Top({"("}) \in 1..Len(opStack) /\ opStack[Top({"("})] = "("
        <3> DEFINE k == Top({"("})
        <3>1. k \in 0..Len(opStack) /\ k # 0 /\ opStack[k] \in {"("}
            BY <1>2, <1>4, TopIs
        <3> HIDE DEF k
        <3>2. k \in 1..Len(opStack) /\ opStack[k] = "("
            BY <3>1
        <3> QED
            BY <3>2 DEF k
    <2> QED
        BY <2>1 DEF NoGroup
<1>8. Depth(read, n) # 0
    BY <1>2, <1>6, <1>7, LaidDepth
<1>9. Depth(read, n) = 0
    BY <1>3, DepthFirst DEF WellFormed, Balanced
<1> QED
    BY <1>8, <1>9

LEMMA CompiledIs ==
    ASSUME ParserInv, parseStatus = "reading", read # <<>>, ~ expect, Top({"("}) = 0, PopTo(0)
    PROVE  output' \in Seq(Tokens) /\ Meaning(read) = {{l \in Lines : Evaluate(output', l)}}
<1> DEFINE n == Len(read)
           j == Len(opStack)
           out2 == output \o Reverse(SubSeq(opStack, 0 + 1, j))
<1>1. /\ read \in Seq(Tokens) /\ opStack \in Seq(Entries) /\ output \in Seq(Tokens)
      /\ expect = FALSE /\ n \in Nat /\ n = Len(read) /\ j \in Nat
    BY DEF ParserInv, ParserTypes
<1>2. PICK m : Means(read, m, n) /\ Meaning(read) = m[n][1]
    BY <1>1, MeaningIs
<1>3. Begun(read, read)
    BY <1>1 DEF Begun
<1>4. LaidOut(read, m, output, opStack, expect, n)
    BY <1>1, <1>2, <1>3 DEF ParserInv, ReadSoFar
<1>5. PICK at, sz, ws : Leaves(output, ws) /\ Holding(read, m, opStack, j, n, at, sz, ws, 3)
    BY <1>1, <1>4 DEF LaidOut
<1>6. PICK ws2, q : Leaves(out2, ws2) /\ Holding(read, m, opStack, 0, n, at, sz, ws2, q)
    <2> DEFINE low == 1
               k == 0
    <2>1. low \in 1..3 /\ k \in 0..j
        BY <1>1
    <2>2. \A i \in (k + 1)..j : opStack[i] # "(" /\ Precedence[opStack[i]] >= low
        <3>1. \A i \in 1..j : opStack[i] \in Entries /\ opStack[i] # "("
            BY <1>1, TopIs
        <3> QED
            BY <3>1, PrecedenceIs DEF Entries
    <2> HIDE DEF low, k
    <2>3. \E ws2, q : /\ Holding(read, m, opStack, k, n, at, sz, ws2, q)
                      /\ q \in 1..3 /\ q >= low
                      /\ Leaves(output \o Reverse(SubSeq(opStack, k + 1, j)), ws2)
        BY <1>1, <1>2, <1>5, <2>1, <2>2, HoldAllPopped
    <2> QED
        BY <2>3 DEF k
<1>7. Len(ws2) = 1 /\ m[n][1] = {ws2[1]}
    <2>1. at[0] = 0 /\ sz[0] = 0
        BY <1>6 DEF Holding, Ladder
    <2>2. Len(ws2) = 1 /\ Operand(read, m, 1, n, ws2[1], q)
        BY <1>6, <2>1 DEF Holding
    <2>3. n - 1 + 1 = n
        BY <1>1
    <2> QED
        BY <2>2, <2>3 DEF Operand
<1>8. {l \in Lines : Evaluate(out2, l)} = ws2[1]
    BY <1>6, <1>7, LeavesOne
<1>9. out2 \in Seq(Tokens)
    BY <1>6 DEF Leaves
<1>10. output' = out2
    BY DEF PopTo
<1> HIDE DEF out2
<1> QED
    BY <1>2, <1>7, <1>8, <1>9, <1>10

LEMMA EndKeeps == ParserInv /\ EndOfTokens => ParserInv'
<1> SUFFICES ASSUME ParserInv, EndOfTokens PROVE ParserInv'
    OBVIOUS
<1>1. parseStatus = "reading" /\ read # <<>> /\ read' = read /\ expect' = expect /\ ParserTypes
    BY DEF EndOfTokens, ParserInv
<1>2. CASE /\ expect \/ Top({"("}) # 0
           /\ parseStatus' = "incomplete" /\ UNCHANGED <<output, opStack>>
    <2>1. Meaning(read) = {}
        BY <1>1, <1>2, IncompleteIs
    <2>2. ParserTypes'
        BY <1>1, <1>2 DEF ParserTypes
    <2> QED
        BY <1>1, <1>2, <2>1, <2>2 DEF ParserInv, ReadSoFar, Refusals, CompiledAsWritten
<1>3. CASE /\ ~ expect /\ Top({"("}) = 0 /\ PopTo(0)
           /\ opStack' = <<>> /\ parseStatus' = "compiled"
    <2>1. output' \in Seq(Tokens) /\ Meaning(read) = {{l \in Lines : Evaluate(output', l)}}
        BY <1>1, <1>3, CompiledIs
    <2>2. ParserTypes'
        BY <1>1, <1>3, <2>1 DEF ParserTypes
    <2>3. CompiledAsWritten'
        BY <1>1, <2>1 DEF CompiledAsWritten
    <2> QED
        BY <1>3, <2>2, <2>3 DEF ParserInv, ReadSoFar, Refusals
<1> QED
    BY <1>2, <1>3 DEF EndOfTokens

LEMMA ParserStep == ParserInv /\ [ParserNext]_parservars => ParserInv'
<1> SUFFICES ASSUME ParserInv, [ParserNext]_parservars PROVE ParserInv'
    OBVIOUS
<1> USE TokenTypes
<1>1. ASSUME OpenGroup PROVE ParserInv'
    <2>1. ASSUME ~ expect, Reject PROVE ParserInv'
        BY <1>1, <2>1, RejectKeeps DEF OpenGroup, Begins
    <2>2. ASSUME expect, opStack' = Append(opStack, "("), UNCHANGED <<output, expect, parseStatus>>
          PROVE  ParserInv'
        BY <1>1, <2>2, PrefixKeeps DEF OpenGroup
    <2> QED
        BY <1>1, <2>1, <2>2 DEF OpenGroup
<1>2. ASSUME CloseGroup PROVE ParserInv'
    <2>1. ASSUME expect \/ Top({"("}) = 0, Reject PROVE ParserInv'
        <3>1. ~ Begins(")")
            BY TokensDiffer DEF Begins
        <3> QED
            BY <1>2, <2>1, <3>1, RejectKeeps DEF CloseGroup
    <2>2. ASSUME ~ expect, Top({"("}) # 0, PopTo(Top({"("})),
                 opStack' = SubSeq(opStack, 1, Top({"("}) - 1),
                 UNCHANGED <<expect, parseStatus>>
          PROVE  ParserInv'
        BY <1>2, <2>2, CloseKeeps DEF CloseGroup
    <2> QED
        BY <1>2, <2>1, <2>2 DEF CloseGroup
<1>3. ASSUME ReadNot PROVE ParserInv'
    <2>1. ASSUME ~ expect, Reject PROVE ParserInv'
        BY <1>3, <2>1, RejectKeeps DEF ReadNot, Begins
    <2>2. ASSUME expect, opStack' = Append(opStack, "NOT"),
                 UNCHANGED <<output, expect, parseStatus>>
          PROVE  ParserInv'
        BY <1>3, <2>2, PrefixKeeps DEF ReadNot
    <2> QED
        BY <1>3, <2>1, <2>2 DEF ReadNot
<1>4. ASSUME NEW op \in {"AND", "OR"}, ReadOperator(op) PROVE ParserInv'
    <2>1. ASSUME expect, Reject PROVE ParserInv'
        <3>1. ~ Begins(op)
            BY TokensDiffer DEF Begins
        <3> QED
            BY <1>4, <2>1, <3>1, RejectKeeps DEF ReadOperator
    <2>2. ASSUME ~ expect, PopTo(Top(Binding(op))),
                 opStack' = Append(SubSeq(opStack, 1, Top(Binding(op))), op),
                 expect' = TRUE, UNCHANGED parseStatus
          PROVE  ParserInv'
        BY <1>4, <2>2, OperatorKeeps DEF ReadOperator
    <2> QED
        BY <1>4, <2>1, <2>2 DEF ReadOperator
<1>5. ASSUME NEW t \in Predicates \cup {Malformed}, ReadPredicate(t) PROVE ParserInv'
    <2>1. ASSUME ~ expect \/ t = Malformed, Reject PROVE ParserInv'
        BY <1>5, <2>1, RejectKeeps DEF ReadPredicate, Begins
    <2>2. ASSUME expect, t # Malformed, output' = Append(output, t), expect' = FALSE,
                 UNCHANGED <<opStack, parseStatus>>
          PROVE  ParserInv'
        BY <1>5, <2>2, PredicateKeeps DEF ReadPredicate
    <2> QED
        BY <1>5, <2>1, <2>2 DEF ReadPredicate
<1>6. ASSUME UNCHANGED parservars PROVE ParserInv'
    <2>1. /\ read' = read /\ output' = output /\ opStack' = opStack /\ expect' = expect
          /\ parseStatus' = parseStatus
        BY <1>6 DEF parservars
    <2> QED
        BY <2>1 DEF ParserInv, ParserTypes, ReadSoFar, Refusals, CompiledAsWritten
<1> QED
    BY <1>1, <1>2, <1>3, <1>4, <1>5, <1>6, EndKeeps DEF ParserNext

\* What is refused has no completion.
LEMMA CompletedIs ==
    ASSUME NEW r \in Seq(Tokens)
    PROVE  Completed(r) \in Seq(Tokens) /\ Begun(r, Completed(r))
<1> DEFINE operand == IF r # <<>> /\ Last(r) \in Predicates \cup {")"}
                      THEN <<>> ELSE <<CHOOSE p \in Predicates : TRUE>>
           d == Depth(r, Len(r))
           c == Max({0, d})
           closing == [i \in 1..c |-> ")"]
<1>1. operand \in Seq(Tokens)
    <2>1. (CHOOSE p \in Predicates : TRUE) \in Tokens
        BY WhereAssumption DEF Tokens
    <2>2. <<CHOOSE p \in Predicates : TRUE>> \in Seq(Tokens)
        BY <2>1
    <2> QED
        BY <2>2
<1>2. c \in Nat
    <2>1. d \in Int
        BY DepthsType
    <2> HIDE DEF d
    <2>2. CASE d >= 0
        <3>1. {0, d} \in SUBSET Int /\ d \in {0, d} /\ \A y \in {0, d} : d >= y
            BY <2>1, <2>2
        <3>2. c = d
            BY <3>1, MaxIs
        <3> QED
            BY <2>1, <2>2, <3>2
    <2>3. CASE d < 0
        <3>1. {0, d} \in SUBSET Int /\ 0 \in {0, d} /\ \A y \in {0, d} : 0 >= y
            BY <2>1, <2>3
        <3>2. c = 0
            BY <3>1, MaxIs
        <3> QED
            BY <3>2
    <2> QED
        BY <2>1, <2>2, <2>3
<1> HIDE DEF c
<1>3. closing \in Seq(Tokens)
    BY <1>2, TokenTypes
<1>4. Completed(r) = (r \o operand) \o closing
    BY DEF Completed, c
<1> HIDE DEF operand, closing
<1>5. /\ r \o operand \in Seq(Tokens) /\ Len(r) =< Len(r \o operand)
      /\ \A i \in 1..Len(r) : (r \o operand)[i] = r[i]
    BY <1>1, ConcatProperties
<1> DEFINE u == r \o operand
<1>6. u \in Seq(Tokens) /\ Len(r) =< Len(u) /\ \A i \in 1..Len(r) : u[i] = r[i]
    BY <1>5
<1> HIDE DEF u
<1>7. /\ u \o closing \in Seq(Tokens) /\ Len(u) =< Len(u \o closing)
      /\ \A i \in 1..Len(u) : (u \o closing)[i] = u[i]
    BY <1>3, <1>6, ConcatProperties
<1> DEFINE v == u \o closing
<1>8. v \in Seq(Tokens) /\ Len(u) =< Len(v) /\ \A i \in 1..Len(u) : v[i] = u[i]
    BY <1>7
<1> HIDE DEF v
<1>9. Begun(r, v)
    <2>1. Len(r) \in Nat /\ Len(u) \in Nat /\ Len(v) \in Nat
        BY <1>6, <1>8
    <2> QED
        BY <1>6, <1>8, <2>1 DEF Begun
<1> QED
    BY <1>4, <1>8, <1>9 DEF u, v

LEMMA ParserInvAgrees == ParserInv => ParsesTheGrammar
<1> SUFFICES ASSUME ParserInv PROVE ParsesTheGrammar
    OBVIOUS
<1>1. ASSUME parseStatus = "rejected" PROVE ~ IsExpression(Completed(read))
    <2>1. Completed(read) \in Seq(Tokens) /\ Begun(read, Completed(read))
        BY CompletedIs DEF ParserInv, ParserTypes
    <2> QED
        BY <1>1, <2>1 DEF ParserInv, Refusals, IsExpression
<1>2. ASSUME parseStatus = "incomplete" PROVE ~ IsExpression(read)
    BY <1>2 DEF ParserInv, Refusals, IsExpression
<1> QED
    BY <1>1, <1>2 DEF ParsesTheGrammar, RefusesNoExpression, ParserInv

\* ParseWhereExpression accepts the expressions of the grammar, of any length,
\* refuses nothing but what none begins with, and what it compiles evaluates
\* for every line to what the grammar says.
THEOREM TheGrammarIsParsed == ParserSpec => []ParsesTheGrammar
<1>1. ParserInit => ParserInv
    BY ParserStarts
<1>2. ParserInv /\ [ParserNext]_parservars => ParserInv'
    BY ParserStep
<1>3. ParserInv => ParsesTheGrammar
    BY ParserInvAgrees
<1> QED
    BY <1>1, <1>2, <1>3, PTL DEF ParserSpec
=============================================================================
