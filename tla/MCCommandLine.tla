---------------------------- MODULE MCCommandLine ----------------------------
(***************************************************************************)
(* What main.cpp computes with: the pages of a telemetry query, the text   *)
(* of its predicates, the parser of its WHERE expression, the names of     *)
(* files, and extract.  The five share nothing, so an initial state picks  *)
(* one and the variables of the others rest.                               *)
(***************************************************************************)
EXTENDS TelemetryPaging, ExtractCommand, FileNames, WhereText, WhereParser

VARIABLE machine  \* whose turn it is in this behaviour

-----------------------------------------------------------------------------
(* Two images of whole files, one damaged, two with cross-linked or        *)
(* namesake files, one without a directory, and a path without an image.   *)

MCSpellings == {"ONE", "TWO", "LOOP", "EMPTY"}
MCUpper == [s \in MCSpellings |-> s]
MCCaches == {<<4, 1, 9>>, <<1, 2, 1>>, <<4, 4, 9>>}
MCDataBlocks == {"a", "b", "c"}

Entry(name, start) == [name |-> name, start |-> start]
Link(to, body) == [next |-> to, body |-> body]
Image(directory, a, b, c) ==
    [x \in {"bam", "dir"} \cup MCDataBlocks |->
        CASE x = "bam" -> 0 [] x = "dir" -> directory
          [] x = "a" -> a [] x = "b" -> b [] x = "c" -> c]

MCDisks ==
    { Image(<<Entry("ONE", "a"), Entry("EMPTY", End), Entry("TWO", "b")>>,
            Link(End, 1), Link("c", 2), Link(End, 3)),
      Image(<<Entry("LOOP", "b"), Entry("ONE", "a"), Entry("TWO", "c"),
              Entry("EMPTY", End)>>,
            Link(End, 1), Link("b", 2), Unreadable),
      Image(<<Entry("ONE", "a"), Entry("TWO", "b"), Entry("LOOP", "a")>>,
            Link("b", 1), Link("c", 2), Link(End, 3)),
      Image(<<Entry("ONE", "a"), Entry("TWO", "b"), Entry("ONE", "b")>>,
            Link(End, 1), Link("c", 2), Link(End, 3)),
      Image(<<Entry("ONE", "a"), Entry("TWO", End), Entry("ONE", "c")>>,
            Link("b", 1), Link(End, 2), Link(Unreadable, 3)),
      Image(Unreadable, Link(End, 1), Link(End, 2), Link(End, 3)),
      Unusable }

\* A, a, 7, full stop, minus, exclamation mark, question mark, parenthesis,
\* underscore, space, shifted space, shifted A, a graphic, a control code.
MCTyped == {65, 97, 55, 46, 45, 33, 63, 40, 95, 32, 160, 193, 170, 5}

\* The name of a file without one is U here.
MCUnnamed == <<85>>

-----------------------------------------------------------------------------
mcvars == <<machine, walkvars, textvars, parservars, namesvars, extractvars>>

PagesRest ==
    /\ starts = <<1>> /\ last = 0 /\ tail = 0 /\ limit = 0 /\ from = 0 /\ offset = 0
    /\ status = "done" /\ unread = 0 /\ matched = {} /\ page = {} /\ walked = {}
    /\ undisturbed = FALSE /\ shaken = FALSE
TextRests == typed = <<>> /\ scan = <<>> /\ scanStatus = "rests"
ParserRests ==
    read = <<>> /\ output = <<>> /\ opStack = <<>> /\ expect = TRUE /\ parseStatus = "rests"
NamesRest == text = <<>> /\ field = <<>> /\ maker = "nobody"
ExtractRests ==
    /\ image = Unusable /\ session = <<>> /\ past = 0 /\ host = <<>> /\ exit = 1
    /\ stage = "rests" /\ refused = {}

MCInit ==
    \/ machine = "pages" /\ WalkInit /\ TextRests /\ ParserRests /\ NamesRest /\ ExtractRests
    \/ machine = "text" /\ TextInit /\ PagesRest /\ ParserRests /\ NamesRest /\ ExtractRests
    \/ machine = "parser" /\ ParserInit /\ PagesRest /\ TextRests /\ NamesRest /\ ExtractRests
    \/ machine = "names" /\ NamesInit /\ PagesRest /\ TextRests /\ ParserRests /\ ExtractRests
    \/ machine = "extract" /\ ExtractInit /\ PagesRest /\ TextRests /\ ParserRests /\ NamesRest

MCNext ==
    \/ /\ machine = "pages" /\ WalkNext
       /\ UNCHANGED <<machine, textvars, parservars, namesvars, extractvars>>
    \/ /\ machine = "text" /\ TextNext
       /\ UNCHANGED <<machine, walkvars, parservars, namesvars, extractvars>>
    \/ /\ machine = "parser" /\ ParserNext
       /\ UNCHANGED <<machine, walkvars, textvars, namesvars, extractvars>>
    \/ /\ machine = "names" /\ NamesNext
       /\ UNCHANGED <<machine, walkvars, textvars, parservars, extractvars>>
    \/ /\ machine = "extract" /\ ExtractNext
       /\ UNCHANGED <<machine, walkvars, textvars, parservars, namesvars>>

MCSpec == MCInit /\ [][MCNext]_mcvars
=============================================================================
