--------------------------- MODULE TelemetryPaging ---------------------------
(***************************************************************************)
(* A telemetry query and its pages: telemetry-dump-mounted collects the    *)
(* files of the log, reads them one by one, the oldest first, for the      *)
(* lines that match its filter, keeps the last --tail of these and prints  *)
(* those from --offset on, --limit at most.  A user walks through the      *)
(* pages with one command each, until one prints nothing, while the        *)
(* mounted process emits lines and rotates its files.                      *)
(*                                                                         *)
(* The matching lines are numbered as they are emitted.  Those a command   *)
(* reads are a set, for it reads them in order and none twice, whatever    *)
(* rotates meanwhile (DumpGoesForward of TelemetryLog).  A --tail or       *)
(* --limit of 0 is off.                                                    *)
(***************************************************************************)
EXTENDS Integers, Sequences, FiniteSets

CONSTANTS
    SizeWidth, \* one more than the largest size_t (and than the largest option)
    Tails,     \* the values of --tail
    Limits,    \* the values of --limit
    Offsets,   \* the values of the first --offset
    MaxParts,  \* bound: files of the log
    MaxLines   \* bound: lines emitted

ASSUME PagingAssumption ==
    /\ SizeWidth \in Nat \ {0} /\ MaxLines \in Nat /\ MaxParts \in Nat \ {0}
    /\ Tails \cup Limits \cup Offsets \subseteq 0..(SizeWidth - 1)

VARIABLES
    starts,        \* the first line of every file, that of the base first
    last,          \* the last line, in the base
    tail, limit,   \* the options of this walk
    from, offset,  \* --offset of its first and of its next command
    status,        \* of the walk: "walking", "reading" within a command, "done"
    unread,        \* the number of collected files the command has not read
    matched,       \* the lines it has read
    page,          \* the lines the last command printed
    walked,        \* history: all lines the walk has printed
    undisturbed,   \* history: no line came or went since it began
    shaken         \* history: files moved while one of its commands read

walkvars == <<starts, last, tail, limit, from, offset, status, unread, matched,
              page, walked, undisturbed, shaken>>

\* A file that has no matching line, or is not there, begins where the next
\* newer one does.
WalkInit ==
    /\ last \in 0..MaxLines
    /\ starts \in {s \in UNION {[1..n -> 1..(last + 1)] : n \in 1..MaxParts} :
                      s[Len(s)] = 1 /\ \A i, j \in 1..Len(s) : i =< j => s[j] =< s[i]}
    /\ tail \in Tails /\ limit \in Limits
    /\ from \in Offsets /\ offset = from
    /\ status = "walking" /\ unread = 0 /\ matched = {}
    /\ page = {} /\ walked = {}
    /\ undisturbed = TRUE /\ shaken = FALSE

\* The oldest line on disk.
first == starts[Len(starts)]

\* The lines of file i, the base being the first.
PartLines(i) ==
    IF i =< Len(starts) THEN starts[i]..(IF i = 1 THEN last ELSE starts[i - 1] - 1)
    ELSE {}

-----------------------------------------------------------------------------
(* What a command prints of n matching lines.                              *)

\* Mutant: the first lines are kept, not the last.
StartOfHead(n) == IF tail > 0 /\ n > tail THEN tail ELSE 0

\* How many matching lines --tail leaves out.
Start(n) == IF tail > 0 /\ n > tail THEN n - tail ELSE 0

Sliced(n) == n - Start(n)

PageStart(n) == IF offset > Sliced(n) THEN Sliced(n) ELSE offset

\* Mutant: the page includes its end.
PageEndIncluded(n) ==
    LET end == (PageStart(n) + limit) % SizeWidth
    IN  IF limit > 0 /\ end < Sliced(n) THEN end + 1 ELSE Sliced(n)

\* page_start + limit is a sum of size_t.
PageEnd(n) ==
    LET end == (PageStart(n) + limit) % SizeWidth
    IN  IF limit > 0 /\ end < Sliced(n) THEN end ELSE Sliced(n)

\* The lines with lo to hi - 1 older ones.
Page(lines, lo, hi) ==
    {x \in lines : Cardinality({y \in lines : y < x}) \in lo..(hi - 1)}

-----------------------------------------------------------------------------
(* A command of the walk.                                                  *)

Gather ==
    /\ status = "walking" /\ offset < SizeWidth
    /\ status' = "reading" /\ unread' = Len(starts)
    /\ UNCHANGED <<starts, last, tail, limit, from, offset, matched, page, walked,
                   undisturbed, shaken>>

\* A file is read under the name it had when it was collected.
ReadPart ==
    /\ status = "reading" /\ unread > 1
    /\ matched' = matched \cup PartLines(unread)
    /\ unread' = unread - 1
    /\ UNCHANGED <<starts, last, tail, limit, from, offset, status, page, walked,
                   undisturbed, shaken>>

\* With the base read the page is printed; the next command asks for the one
\* after it.
PrintPage ==
    /\ status = "reading" /\ unread = 1
    /\ LET lines == matched \cup PartLines(1)
           n == Cardinality(lines)
       IN  page' = Page(lines, Start(n) + PageStart(n), Start(n) + PageEnd(n))
    /\ walked' = walked \cup page'
    /\ offset' = offset + limit
    /\ status' = IF limit > 0 /\ page' # {} THEN "walking" ELSE "done"
    /\ unread' = 0 /\ matched' = {}
    /\ UNCHANGED <<starts, last, tail, limit, from, undisturbed, shaken>>

-----------------------------------------------------------------------------
(* The mounted process.                                                    *)

\* A matching line is emitted.
EmitLine ==
    /\ last < MaxLines
    /\ last' = last + 1
    /\ undisturbed' = FALSE
    /\ UNCHANGED <<starts, tail, limit, from, offset, status, unread, matched, page,
                   walked, shaken>>

\* A rotation gives every file the next name, drops the oldest ones, and
\* leaves an empty base; one that keeps none is a cleared log.
RotateParts ==
    /\ \E n \in 0..Len(starts) :
          n < MaxParts /\ starts' = <<last + 1>> \o SubSeq(starts, 1, n)
    /\ undisturbed' = FALSE
    /\ shaken' = (shaken \/ status = "reading")
    /\ UNCHANGED <<last, tail, limit, from, offset, status, unread, matched, page, walked>>

WalkNext == Gather \/ ReadPart \/ PrintPage \/ EmitLine \/ RotateParts

WalkSpec == WalkInit /\ [][WalkNext]_walkvars

-----------------------------------------------------------------------------
\* A command prints only lines newer than all the walk has printed before,
\* whatever is emitted while it reads and rotated or cleared between the
\* commands: none comes twice.  A rotation while a command reads hides lines
\* from that command alone, and the next may then print some a second time.
PagesGoForward ==
    [][PrintPage /\ ~ shaken => \A x \in page' : \A y \in walked : y < x]_walkvars

\* The first of the last --tail lines.
TailBegin == IF tail > 0 /\ last - tail + 1 > first THEN last - tail + 1 ELSE first

\* A walk during which nothing changes prints the lines of the tail from the
\* first offset on, as far as its next offset, and all of them by its end
\* ("`--offset` and `--limit` are parsed and applied", K22.2 of the roadmap).
PagesCover ==
    undisturbed =>
        LET next == TailBegin + offset
        IN  walked = (TailBegin + from)..
                     (IF status # "done" /\ next =< last THEN next - 1 ELSE last)
=============================================================================
