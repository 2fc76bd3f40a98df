-------------------------- MODULE TelemetryProofs --------------------------
(***************************************************************************)
(* The order of the telemetry files, for any number of files, events,      *)
(* sinks and readers and every fault; what rotation drops, for one sink;   *)
(* and the pages of a query, for any options, any width and any number of  *)
(* lines.                                                                  *)
(***************************************************************************)
EXTENDS TelemetryLog, TelemetryPaging, FiniteSetTheorems, FunctionTheorems, TLAPS

\* stoul's remainder is zero for no setting that is used.
LEMMA ParsedIsPositive ==
    ASSUME NEW setting \in Int \cup {NotANumber}, NEW default \in Nat \ {0}
    PROVE  Parsed(setting, default) \in Nat \ {0}
  <1>1. CASE Parsed(setting, default) = default
    BY <1>1
  <1>2. CASE Parsed(setting, default) # default
    <2> DEFINE n == setting
    <2>1. n \in Int /\ n < Width /\ n > -Width /\ n # 0 /\ Parsed(n, default) = n % Width
      BY <1>2, TelemetryAssumption DEF Parsed
    <2>2. n % Width \in 0..(Width - 1)
      BY <2>1, TelemetryAssumption
    <2>3. n = Width * (n \div Width) + (n % Width)
      BY <2>1, TelemetryAssumption
    <2>4. n % Width # 0
      <3>1. SUFFICES ASSUME n % Width = 0 PROVE FALSE
        OBVIOUS
      <3>2. n = Width * (n \div Width) /\ n \div Width \in Int
        BY <2>1, <2>3, <3>1, TelemetryAssumption
      <3>3. CASE n \div Width = 0
        BY <2>1, <3>2, <3>3, TelemetryAssumption
      <3>4. CASE n \div Width >= 1
        BY <2>1, <3>2, <3>4, TelemetryAssumption
      <3>5. CASE n \div Width =< -1
        BY <2>1, <3>2, <3>5, TelemetryAssumption
      <3>6. QED
        BY <3>2, <3>3, <3>4, <3>5
    <2>5. QED
      BY <2>1, <2>2, <2>4, TelemetryAssumption
  <1>3. QED
    BY <1>1, <1>2

LEMMA MaxFilesIsPositive == MaxFiles \in Nat \ {0}
  BY ParsedIsPositive, TelemetryAssumption DEF MaxFiles

LEMMA MaxBytesIsPositive == MaxBytes \in Nat \ {0}
  BY ParsedIsPositive, TelemetryAssumption DEF MaxBytes

-----------------------------------------------------------------------------
(* Types.                                                                  *)

LEMMA TypeInit == Init => TypeOK
  BY MaxFilesIsPositive
     DEF Init, TypeOK, FilesOK, SinksOK, DumpsOK, Files, NewDump, Dump, Events

\* What the steps of a sink do to its place in the loop.
LEMMA SinkStep ==
    ASSUME SinksOK, NEW s \in Sinks,
           AppendLine(s) \/ RotationStep(s) \/ Kill(s)
    PROVE  SinksOK'
  <1> USE MaxFilesIsPositive DEF SinksOK, Files, Goto
  <1>1. CASE AppendLine(s)
    BY <1>1 DEF AppendLine
  <1>2. CASE Check(s)
    BY <1>2 DEF Check
  <1>3. CASE Remove(s)
    BY <1>3 DEF Remove
  <1>4. CASE Shift(s)
    BY <1>4 DEF Shift, NextFile
  <1>5. CASE Skip(s)
    BY <1>5 DEF Skip, NextFile
  <1>6. CASE ShiftFails(s)
    BY <1>6 DEF ShiftFails
  <1>7. CASE Kill(s)
    BY <1>7 DEF Kill
  <1>8. QED
    BY <1>1, <1>2, <1>3, <1>4, <1>5, <1>6, <1>7 DEF RotationStep

\* What any step does to the files: it keeps them, appends a new event to the
\* base, empties one file, or moves one file up.
Appends == /\ emitted' = emitted + 1
           /\ exists' = exists \cup {0}
           /\ lines' = [lines EXCEPT ![0] = @ \cup {emitted + 1}]
Empties(i) == /\ emitted' = emitted
              /\ exists' \in {exists \cup {0}, exists \ {i}}
              /\ lines' = [lines EXCEPT ![i] = {}]
Moves(i) == /\ emitted' = emitted
            /\ exists' = (exists \ {i - 1}) \cup {i}
            /\ lines' = [lines EXCEPT ![i] = lines[i - 1], ![i - 1] = {}]
Keeps == emitted' = emitted /\ exists' = exists /\ lines' = lines

FilesStep ==
    \/ Keeps \/ Appends
    \/ \E i \in Files : Empties(i)
    \/ \E i \in Files \ {0} : Moves(i)

LEMMA EveryFilesStep == TypeOK /\ [Next]_vars => FilesStep
  <1> SUFFICES ASSUME TypeOK, [Next]_vars PROVE FilesStep
    OBVIOUS
  <1>1. ASSUME NEW s \in Sinks, AppendLine(s) PROVE Appends
    BY <1>1 DEF AppendLine, Appends
  <1>2. ASSUME NEW s \in Sinks, Remove(s) PROVE FilesStep
    BY <1>2 DEF Remove, Empties, Keeps, FilesStep, TypeOK, SinksOK
  <1>3. ASSUME NEW s \in Sinks, Shift(s) PROVE FilesStep
    BY <1>3 DEF Shift, MovedUp, Moves, FilesStep, TypeOK, SinksOK
  <1>4. ASSUME NEW s \in Sinks, Check(s) \/ Skip(s) \/ ShiftFails(s) \/ Kill(s)
        PROVE  Keeps
    BY <1>4 DEF Check, Skip, ShiftFails, Kill, Keeps
  <1>5. CASE Clear
    <2>1. Empties(0)
      BY <1>5 DEF Clear, Empties
    <2>2. 0 \in Files
      BY MaxFilesIsPositive DEF Files
    <2>3. QED
      BY <2>1, <2>2 DEF FilesStep
  <1>6. ASSUME NEW r \in Readers, StartDump(r) \/ Collect(r) \/ ReadFile(r)
        PROVE  Keeps
    <2>1. CASE StartDump(r)
      BY <2>1 DEF StartDump, Keeps
    <2>2. CASE Collect(r)
      BY <2>2 DEF Collect, Keeps
    <2>3. CASE ReadFile(r)
      BY <2>3 DEF ReadFile, Keeps
    <2>4. QED
      BY <1>6, <2>1, <2>2, <2>3
  <1>7. CASE UNCHANGED vars
    BY <1>7 DEF vars, Keeps, FilesStep
  <1>8. ASSUME NEW s \in Sinks, AppendLine(s) \/ RotationStep(s) \/ Kill(s)
        PROVE  FilesStep
    <2>1. CASE AppendLine(s)
      BY <1>1, <2>1 DEF FilesStep
    <2>2. CASE Check(s) \/ Skip(s) \/ ShiftFails(s) \/ Kill(s)
      BY <1>4, <2>2 DEF FilesStep
    <2>3. QED
      BY <1>2, <1>3, <1>8, <2>1, <2>2 DEF RotationStep
  <1>9. \/ \E s \in Sinks : AppendLine(s) \/ RotationStep(s) \/ Kill(s)
        \/ Clear
        \/ \E r \in Readers : StartDump(r) \/ Collect(r) \/ ReadFile(r)
        \/ UNCHANGED vars
    BY DEF Next
  <1>10. Keeps => FilesStep
    BY DEF FilesStep
  <1>11. ASSUME NEW r \in Readers, StartDump(r) \/ Collect(r) \/ ReadFile(r)
         PROVE  FilesStep
    BY <1>6, <1>10, <1>11
  <1>12. QED
    BY <1>5, <1>7, <1>8, <1>9, <1>11

LEMMA FilesType == FilesOK /\ FilesStep => FilesOK' /\ emitted' \in {emitted, emitted + 1}
  <1> SUFFICES ASSUME FilesOK, FilesStep
               PROVE  FilesOK' /\ emitted' \in {emitted, emitted + 1}
    OBVIOUS
  <1> USE MaxFilesIsPositive DEF FilesOK, Files, Events
  <1>1. CASE Keeps
    BY <1>1 DEF Keeps
  <1>2. CASE Appends
    <2>1. lines' \in [Files -> SUBSET Events]
      BY <1>2 DEF Appends
    <2>2. \A i \in Files : \A x \in lines'[i] : x =< emitted'
      BY <1>2 DEF Appends
    <2>3. QED
      BY <1>2, <2>1, <2>2 DEF Appends
  <1>3. ASSUME NEW i \in Files, Empties(i)
        PROVE  FilesOK' /\ emitted' = emitted
    <2>1. lines' \in [Files -> SUBSET Events]
      BY <1>3 DEF Empties
    <2>2. \A j \in Files : lines'[j] \subseteq lines[j]
      BY <1>3 DEF Empties
    <2>3. exists' \subseteq Files
      BY <1>3 DEF Empties
    <2>4. \A j \in Files \ exists' : j \notin exists \/ lines'[j] = {}
      BY <1>3 DEF Empties
    <2>5. \A j \in Files \ exists' : lines'[j] = {}
      BY <2>2, <2>4
    <2>6. \A j \in Files : \A x \in lines'[j] : x =< emitted'
      BY <1>3, <2>2 DEF Empties
    <2>7. QED
      BY <1>3, <2>1, <2>3, <2>5, <2>6 DEF Empties
  <1>4. ASSUME NEW i \in Files \ {0}, Moves(i)
        PROVE  FilesOK' /\ emitted' = emitted
    <2>1. i - 1 \in Files /\ i - 1 # i
      OBVIOUS
    <2>2. lines' \in [Files -> SUBSET Events]
      BY <1>4, <2>1 DEF Moves
    <2>3. \A j \in Files : \A x \in lines'[j] : x =< emitted'
      BY <1>4, <2>1 DEF Moves
    <2>4. \A j \in Files \ exists' : lines'[j] = {}
      BY <1>4, <2>1 DEF Moves
    <2>5. QED
      BY <1>4, <2>1, <2>2, <2>3, <2>4 DEF Moves
  <1>5. QED
    BY <1>1, <1>2, <1>3, <1>4 DEF FilesStep

\* A dump's record is replaced by one that is right.
LEMMA DumpChange ==
    ASSUME FilesOK, DumpsOK, NEW r \in Readers, NEW e \in Dump,
           dump' = [dump EXCEPT ![r] = e], emitted' = emitted,
           \A x \in e.printed : x =< emitted,
           e.phase = "collect" => e.printed = {}
    PROVE  DumpsOK'
  BY DEF DumpsOK

LEMMA ReadStep ==
    ASSUME FilesOK, DumpsOK, NEW r \in Readers, ReadFile(r)
    PROVE  /\ dump[r] \in Dump /\ dump[r].phase = "read"
           /\ dump' = [dump EXCEPT ![r] = AfterRead(dump[r], NewLines(dump[r]))]
           /\ AfterRead(dump[r], NewLines(dump[r])) \in Dump
           /\ NewLines(dump[r]) \subseteq lines[dump[r].next]
  <1> DEFINE d == dump[r]
  <1>1. d \in Dump /\ d.phase = "read"
    BY DEF DumpsOK, ReadFile
  <1>2. dump' = [dump EXCEPT ![r] = AfterRead(d, NewLines(d))]
    BY DEF ReadFile
  <1>4. d.next \in Files /\ (d.next # 0 => d.next - 1 \in Files)
    BY <1>1, MaxFilesIsPositive DEF Dump, Files
  <1>5. NewLines(d) \subseteq lines[d.next] /\ lines[d.next] \subseteq Events
    BY <1>4 DEF NewLines, FilesOK
  <1>6. d.printed \cup NewLines(d) \in SUBSET Events
    BY <1>1, <1>5 DEF Dump
  <1>7. AfterRead(d, NewLines(d)) \in Dump
    BY <1>1, <1>4, <1>6, MaxFilesIsPositive DEF AfterRead, Dump, Files
  <1>8. QED
    BY <1>1, <1>2, <1>5, <1>7

LEMMA CollectStep ==
    ASSUME FilesOK, DumpsOK, NEW r \in Readers, Collect(r)
    PROVE  \E e \in Dump :
             /\ dump' = [dump EXCEPT ![r] = e]
             /\ e.printed = {}
             /\ dump[r].phase = "collect"
  <1> DEFINE d == dump[r]
  <1>1. d \in Dump /\ d.phase = "collect" /\ d.printed = {}
    BY DEF DumpsOK, Collect
  <1>2. CASE d.found < ReaderFiles /\ d.found + 1 \in exists
    <2>1. dump' = [dump EXCEPT ![r] = Found(d)]
      BY <1>2 DEF Collect
    <2>2. Found(d) \in Dump /\ Found(d).printed = {}
      BY <1>1, <1>2 DEF Dump, FilesOK, Found
    <2>3. QED
      BY <1>1, <2>1, <2>2
  <1>3. CASE ~ (d.found < ReaderFiles /\ d.found + 1 \in exists)
    <2>1. dump' = [dump EXCEPT ![r] = Reading(d)]
      BY <1>3 DEF Collect
    <2>2. Reading(d) \in Dump /\ Reading(d).printed = {}
      BY <1>1 DEF Dump, Reading
    <2>3. QED
      BY <1>1, <2>1, <2>2
  <1>4. QED
    BY <1>2, <1>3

\* A dump's record, when the files change or when it is read.
LEMMA DumpStep ==
    ASSUME TypeOK, [Next]_vars, emitted' \in {emitted, emitted + 1}
    PROVE  DumpsOK'
  <1> USE DEF TypeOK
  <1>1. CASE dump' = dump
    BY <1>1 DEF DumpsOK, FilesOK, Dump, Events
  <1>2. ASSUME NEW r \in Readers, StartDump(r) PROVE DumpsOK'
    <2> DEFINE e == [phase |-> "collect", base |-> {0} \cap exists,
                     found |-> 0, next |-> 0, printed |-> {}]
    <2>1. e \in Dump
      BY MaxFilesIsPositive DEF Dump, Files
    <2>2. dump' = [dump EXCEPT ![r] = e] /\ emitted' = emitted
      BY <1>2 DEF StartDump
    <2>3. QED
      BY <2>1, <2>2, DumpChange
  <1>3. ASSUME NEW r \in Readers, Collect(r) PROVE DumpsOK'
    <2>1. emitted' = emitted
      BY <1>3 DEF Collect
    <2>2. QED
      BY <1>3, <2>1, CollectStep, DumpChange
  <1>4. ASSUME NEW r \in Readers, ReadFile(r) PROVE DumpsOK'
    <2>1. emitted' = emitted
      BY <1>4 DEF ReadFile
    <2> DEFINE e == AfterRead(dump[r], NewLines(dump[r]))
    <2>2. e.printed = dump[r].printed \cup NewLines(dump[r]) /\ e.phase # "collect"
      BY DEF AfterRead
    <2>3. \A x \in e.printed : x =< emitted
      BY <1>4, <2>2, ReadStep DEF FilesOK, DumpsOK, Dump
    <2> HIDE DEF e
    <2>4. e \in Dump /\ dump' = [dump EXCEPT ![r] = e]
      BY <1>4, ReadStep DEF e
    <2>5. QED
      BY <2>1, <2>2, <2>3, <2>4, DumpChange
  <1>5. dump' = dump \/ \E r \in Readers : StartDump(r) \/ Collect(r) \/ ReadFile(r)
    BY DEF Next, vars, RotationStep, AppendLine, Check, Remove, Shift, Skip, ShiftFails,
           Kill, Clear
  <1>6. QED
    BY <1>1, <1>2, <1>3, <1>4, <1>5

LEMMA RestStep ==
    ASSUME TypeOK, [Next]_vars
    PROVE  cleared' \subseteq Events /\ calm' \in [Readers -> BOOLEAN]
  <1> USE DEF TypeOK, FilesOK, Disturb
  <1>1. ASSUME NEW r \in Readers, StartDump(r)
        PROVE  calm' \in [Readers -> BOOLEAN]
    <2>1. calm' = [calm EXCEPT ![r] = \A s \in Sinks : sink[s] = "idle"]
      BY <1>1 DEF StartDump
    <2>2. QED
      BY <2>1
  <1>2. CASE Clear
    BY <1>2, MaxFilesIsPositive DEF Clear, Files
  <1>3. QED
    BY <1>1, <1>2
       DEF Next, vars, RotationStep, AppendLine, Check, Remove, Shift, Skip, ShiftFails,
           Kill, StartDump, Collect, ReadFile

LEMMA TypeStep == TypeOK /\ [Next]_vars => TypeOK'
  <1> SUFFICES ASSUME TypeOK, [Next]_vars PROVE TypeOK'
    OBVIOUS
  <1>1. FilesOK' /\ emitted' \in {emitted, emitted + 1}
    BY EveryFilesStep, FilesType DEF TypeOK
  <1>2. SinksOK'
    <2>1. CASE UNCHANGED <<sink, at>>
      BY <2>1 DEF TypeOK, SinksOK
    <2>2. QED
      BY <2>1, SinkStep
         DEF TypeOK, Next, vars, Clear, StartDump, Collect, ReadFile
  <1>3. QED
    BY <1>1, <1>2, DumpStep, RestStep DEF TypeOK

\* Types, for every setting that is accepted.
THEOREM TypeCorrect == Spec => []TypeOK
  BY TypeInit, TypeStep, PTL DEF Spec

-----------------------------------------------------------------------------
(* The order of the chain.                                                 *)

LEMMA ChainStep == FilesOK /\ ChainOrdered /\ FilesStep => ChainOrdered'
  <1> SUFFICES ASSUME FilesOK, ChainOrdered, FilesStep PROVE ChainOrdered'
    OBVIOUS
  <1> USE MaxFilesIsPositive DEF FilesOK, Files, Events
  <1>1. CASE Keeps
    BY <1>1 DEF Keeps, ChainOrdered
  <1>2. CASE Appends
    <2>1. \A j \in Files : lines'[j] = IF j = 0 THEN lines[0] \cup {emitted + 1}
                                     ELSE lines[j]
      BY <1>2 DEF Appends
    <2>2. SUFFICES ASSUME NEW i \in Files, NEW j \in Files, i < j,
                          NEW x \in lines'[i], NEW y \in lines'[j]
                   PROVE  y < x
      BY DEF ChainOrdered
    <2>3. y \in lines[j] /\ y =< emitted /\ y \in Nat
      BY <2>1, <2>2
    <2>4. CASE x \in lines[i]
      BY <2>2, <2>3, <2>4 DEF ChainOrdered
    <2>5. CASE x = emitted + 1
      BY <2>3, <2>5
    <2>6. QED
      BY <2>1, <2>2, <2>4, <2>5
  <1>3. ASSUME NEW k \in Files, Empties(k) PROVE ChainOrdered'
    <2>1. \A j \in Files : lines'[j] \subseteq lines[j]
      BY <1>3 DEF Empties
    <2>2. QED
      BY <2>1 DEF ChainOrdered
  <1>4. ASSUME NEW k \in Files \ {0}, Moves(k) PROVE ChainOrdered'
    <2>1. k - 1 \in Files /\ k - 1 < k
      OBVIOUS
    <2>2. /\ lines'[k] = lines[k - 1] /\ lines'[k - 1] = {}
          /\ \A j \in Files \ {k, k - 1} : lines'[j] = lines[j]
      BY <1>4, <2>1 DEF Moves
    <2>3. SUFFICES ASSUME NEW i \in Files, NEW j \in Files, i < j,
                          NEW x \in lines'[i], NEW y \in lines'[j]
                   PROVE  y < x
      BY DEF ChainOrdered
    <2>4. i # k - 1 /\ j # k - 1
      BY <2>2, <2>3
    <2>5. CASE i = k
      <3>1. x \in lines[k - 1] /\ y \in lines[j] /\ k - 1 < j
        BY <2>1, <2>2, <2>3, <2>4, <2>5
      <3>2. QED
        BY <2>1, <3>1 DEF ChainOrdered
    <2>6. CASE j = k
      <3>1. x \in lines[i] /\ y \in lines[k - 1] /\ i < k - 1
        BY <2>1, <2>2, <2>3, <2>4, <2>6
      <3>2. QED
        BY <2>1, <3>1 DEF ChainOrdered
    <2>7. CASE i # k /\ j # k
      <3>1. x \in lines[i] /\ y \in lines[j]
        BY <2>2, <2>3, <2>4, <2>7
      <3>2. QED
        BY <2>3, <3>1 DEF ChainOrdered
    <2>8. QED
      BY <2>5, <2>6, <2>7
  <1>5. QED
    BY <1>1, <1>2, <1>3, <1>4 DEF FilesStep

\* Of two files the one with the higher number has the older events, for any
\* number of sinks and files and after every fault.
THEOREM ChainStaysOrdered == Spec => []ChainOrdered
  <1>1. Init => ChainOrdered
    BY DEF Init, ChainOrdered
  <1>2. TypeOK /\ ChainOrdered /\ [Next]_vars => ChainOrdered'
    BY EveryFilesStep, ChainStep DEF TypeOK
  <1>3. QED
    BY <1>1, <1>2, TypeCorrect, PTL DEF Spec

-----------------------------------------------------------------------------
(* The order of a dump.                                                    *)

\* No event comes below its file: what is in the files up to k was there before,
\* or is new.
LEMMA NothingMovesDown ==
    ASSUME FilesOK, FilesStep, NEW k \in Files, NEW j \in 0..k, NEW y \in lines'[j]
    PROVE  y = emitted + 1 \/ \E i \in 0..k : y \in lines[i]
  <1> USE MaxFilesIsPositive DEF FilesOK, Files
  <1>1. CASE Keeps
    BY <1>1 DEF Keeps
  <1>2. CASE Appends
    BY <1>2 DEF Appends
  <1>3. ASSUME NEW i \in Files, Empties(i) PROVE y \in lines[j]
    BY <1>3 DEF Empties
  <1>4. ASSUME NEW i \in Files \ {0}, Moves(i)
        PROVE  \E l \in 0..k : y \in lines[l]
    <2>1. i - 1 \in Files /\ i - 1 < i
      OBVIOUS
    <2>2. /\ lines'[i] = lines[i - 1] /\ lines'[i - 1] = {}
          /\ \A l \in Files \ {i, i - 1} : lines'[l] = lines[l]
      BY <1>4, <2>1 DEF Moves
    <2>3. CASE j = i
      <3>1. y \in lines[i - 1] /\ i - 1 \in 0..k
        BY <2>1, <2>2, <2>3
      <3>2. QED
        BY <3>1
    <2>4. CASE j # i
      <3>1. j \in Files /\ y \in lines[j]
        BY <2>1, <2>2, <2>4
      <3>2. QED
        BY <3>1
    <2>5. QED
      BY <2>3, <2>4
  <1>5. QED
    BY <1>1, <1>2, <1>3, <1>4 DEF FilesStep

Forward(r) ==
    dump[r].phase = "read" =>
        \A x \in dump[r].printed : \A j \in 0..dump[r].next : \A y \in lines[j] : x < y

LEMMA ForwardStep ==
    ASSUME TypeOK, ChainOrdered, [Next]_vars, NEW r \in Readers, Forward(r)
    PROVE  Forward(r)'
  <1> DEFINE d == dump[r]
  <1> USE DEF TypeOK
  <1>1. d \in Dump /\ d.next \in Files /\ d.printed \subseteq Events
    BY DEF DumpsOK, Dump
  <1>2. CASE dump'[r] = d
    <2>1. SUFFICES ASSUME d.phase = "read", NEW x \in d.printed,
                          NEW j \in 0..d.next, NEW y \in lines'[j]
                   PROVE  x < y
      BY <1>2 DEF Forward
    <2>2. CASE y = emitted + 1
      <3>1. x =< emitted /\ x \in Nat /\ emitted \in Nat
        BY <1>1, <2>1 DEF DumpsOK, FilesOK, Events
      <3>2. QED
        BY <2>2, <3>1
    <2>3. CASE \E i \in 0..d.next : y \in lines[i]
      BY <2>1, <2>3 DEF Forward
    <2>4. QED
      BY <1>1, <2>1, <2>2, <2>3, EveryFilesStep, NothingMovesDown
  <1>3. CASE dump'[r].phase # "read" \/ dump'[r].printed = {}
    BY <1>3 DEF Forward
  <1>4. CASE ReadFile(r)
    <2> DEFINE e == AfterRead(d, NewLines(d))
    <2>1. /\ d.phase = "read" /\ dump'[r] = e /\ lines' = lines
          /\ NewLines(d) \subseteq lines[d.next]
      BY <1>4, ReadStep DEF ReadFile, DumpsOK
    <2>2. CASE d.next = 0
      BY <1>3, <2>1, <2>2 DEF AfterRead
    <2>3. CASE d.next # 0
      <3>1. e.next = d.next - 1 /\ e.printed = d.printed \cup NewLines(d)
        BY <2>3 DEF AfterRead
      <3>2. d.next \in Nat \ {0} /\ d.next =< MaxFiles
        BY <1>1, <2>3, MaxFilesIsPositive DEF Files
      <3>3. SUFFICES ASSUME NEW x \in d.printed \cup NewLines(d),
                            NEW j \in 0..(d.next - 1), NEW y \in lines[j]
                     PROVE  x < y
        BY <2>1, <3>1 DEF Forward
      <3>4. j \in Files /\ j < d.next /\ j \in 0..d.next
        BY <3>2, <3>3, MaxFilesIsPositive DEF Files
      <3>5. CASE x \in d.printed
        BY <2>1, <3>4, <3>5 DEF Forward
      <3>6. CASE x \in lines[d.next]
        BY <1>1, <3>4, <3>6 DEF ChainOrdered
      <3>7. QED
        BY <2>1, <3>3, <3>5, <3>6
    <2>4. QED
      BY <2>2, <2>3
  <1>5. CASE StartDump(r)
    <2>1. dump'[r].printed = {}
      BY <1>5 DEF StartDump, DumpsOK
    <2>2. QED
      BY <1>3, <2>1
  <1>6. CASE Collect(r)
    <2>1. dump'[r].printed = {}
      BY <1>6, CollectStep DEF DumpsOK
    <2>2. QED
      BY <1>3, <2>1
  <1>7. \/ dump'[r] = d
        \/ StartDump(r) \/ Collect(r) \/ ReadFile(r)
    <2>1. CASE dump' = dump
      BY <2>1
    <2>2. ASSUME NEW q \in Readers, StartDump(q) \/ Collect(q) \/ ReadFile(q)
          PROVE  q = r \/ dump'[r] = d
      BY <2>2 DEF StartDump, Collect, ReadFile, DumpsOK
    <2>3. dump' = dump \/ \E q \in Readers : StartDump(q) \/ Collect(q) \/ ReadFile(q)
      BY DEF Next, vars, RotationStep, AppendLine, Check, Remove, Shift, Skip, ShiftFails,
             Kill, Clear
    <2>4. QED
      BY <2>1, <2>2, <2>3
  <1>8. QED
    BY <1>2, <1>4, <1>5, <1>6, <1>7

\* The output of a dump is in the order of the events, whatever is rotated,
\* cleared or lost while it reads.
THEOREM DumpsGoForward == Spec => []DumpGoesForward
  <1>1. Init => DumpGoesForward
    BY DEF Init, DumpGoesForward, NewDump
  <1>2. TypeOK /\ ChainOrdered /\ DumpGoesForward /\ [Next]_vars
        => DumpGoesForward'
    BY ForwardStep DEF DumpGoesForward, Forward
  <1>3. QED
    BY <1>1, <1>2, TypeCorrect, ChainStaysOrdered, PTL DEF Spec

-----------------------------------------------------------------------------
(* What one sink drops.                                                    *)

\* Within a rotation that has got below the last file, the file that is to be
\* replaced is empty: what it held has been moved up.
VacantBelow ==
    \A s \in Sinks : sink[s] \in {"remove", "shift"} /\ at[s] # MaxFiles
                     => lines[at[s]] = {}

\* Until the base is moved, the event just appended is in it.
NewestInBase ==
    \A s \in Sinks : sink[s] # "idle" => emitted \in lines[0] \cup cleared

RotationInv == TypeOK /\ ChainOrdered /\ VacantBelow /\ NewestInBase /\ OnlyOldestLost

\* A step that leaves the events in place or moves them, dropping none.
LEMMA NothingDropped ==
    ASSUME OnlyOldestLost, OnDisk' = OnDisk, emitted' = emitted, cleared' = cleared
    PROVE  OnlyOldestLost'
  BY DEF OnlyOldestLost

\* A step that drops the oldest file, when the newest event is in the base.
LEMMA OldestDropped ==
    ASSUME FilesOK, ChainOrdered, OnlyOldestLost,
           emitted' = emitted, cleared' = cleared,
           emitted \in OnDisk' \cup cleared,
           OnDisk' = UNION {lines[i] : i \in 0..(MaxFiles - 1)}
    PROVE  OnlyOldestLost'
  <1> USE MaxFilesIsPositive DEF FilesOK, Files, Events
  <1>1. ASSUME NEW x \in OnDisk', NEW y \in x..emitted
        PROVE  y \in OnDisk' \cup cleared
    <2>1. PICK i \in 0..(MaxFiles - 1) : x \in lines[i]
      OBVIOUS
    <2>2. x \in OnDisk /\ x \in Nat /\ i \in Files /\ i < MaxFiles
      BY <2>1 DEF OnDisk
    <2>3. y \in OnDisk \cup cleared /\ y >= x
      BY <1>1, <2>2 DEF OnlyOldestLost
    <2>4. y \notin lines[MaxFiles]
      BY <2>1, <2>2, <2>3 DEF ChainOrdered
    <2>5. OnDisk \ lines[MaxFiles] \subseteq UNION {lines[j] : j \in 0..(MaxFiles - 1)}
      BY DEF OnDisk
    <2>6. QED
      BY <2>3, <2>4, <2>5
  <1>2. QED
    BY <1>1 DEF OnlyOldestLost

LEMMA RotationStepKeeps ==
    ASSUME NEW s, Sinks = {s}, RotationInv, [Next]_vars
    PROVE  VacantBelow' /\ NewestInBase' /\ OnlyOldestLost'
  <1> USE MaxFilesIsPositive DEF RotationInv, TypeOK, FilesOK, SinksOK, Files, Goto
  <1>1. CASE AppendLine(s)
    <2>1. /\ \A i \in Files : lines'[i] = IF i = 0 THEN lines[0] \cup {emitted + 1}
                                         ELSE lines[i]
          /\ emitted' = emitted + 1 /\ cleared' = cleared /\ 0 \in Files
          /\ sink' = [sink EXCEPT ![s] = "check"]
      BY <1>1 DEF AppendLine
    <2>2. OnDisk' = OnDisk \cup {emitted + 1}
      BY <2>1 DEF OnDisk
    <2>3. \A x \in OnDisk : x \in Nat /\ x =< emitted
      BY DEF OnDisk, Events
    <2>4. OnlyOldestLost'
      BY <2>1, <2>2, <2>3 DEF OnlyOldestLost
    <2>5. VacantBelow' /\ NewestInBase'
      BY <2>1 DEF VacantBelow, NewestInBase
    <2>6. QED
      BY <2>4, <2>5
  <1>2. CASE Check(s) \/ ShiftFails(s) \/ Kill(s)
    <2>1. UNCHANGED <<lines, emitted, cleared>>
      BY <1>2 DEF Check, ShiftFails, Kill
    <2>2. \/ sink'[s] = "idle"
          \/ (sink'[s] = "remove" /\ sink[s] = "check" /\ at'[s] = MaxFiles)
      BY <1>2 DEF Check, ShiftFails, Kill
    <2>3. OnDisk' = OnDisk
      BY <2>1 DEF OnDisk
    <2>4. QED
      BY <2>1, <2>2, <2>3, NothingDropped DEF VacantBelow, NewestInBase
  <1>3. CASE Remove(s)
    <2>1. /\ sink[s] = "remove" /\ at[s] \in Files \ {0}
          /\ sink' = [sink EXCEPT ![s] = "shift"] /\ at' = [at EXCEPT ![s] = at[s]]
          /\ emitted' = emitted /\ cleared' = cleared
          /\ lines' \in {lines, [lines EXCEPT ![at[s]] = {}]}
      BY <1>3 DEF Remove
    <2>2. lines'[0] = lines[0] /\ sink'[s] = "shift" /\ at'[s] = at[s]
      BY <2>1
    <2>3. NewestInBase'
      BY <2>1, <2>2 DEF NewestInBase
    <2>4. CASE lines' = lines
      <3>1. OnDisk' = OnDisk
        BY <2>4 DEF OnDisk
      <3>2. QED
        BY <2>1, <2>2, <2>3, <2>4, <3>1, NothingDropped DEF VacantBelow
    <2>5. CASE lines' = [lines EXCEPT ![at[s]] = {}] /\ at[s] # MaxFiles
      <3>1. lines[at[s]] = {}
        BY <2>1, <2>5 DEF VacantBelow
      <3>2. lines' = lines
        BY <2>1, <2>5, <3>1
      <3>3. QED
        BY <2>4, <3>2
    <2>6. CASE lines' = [lines EXCEPT ![at[s]] = {}] /\ at[s] = MaxFiles
      <3>1. /\ lines'[MaxFiles] = {}
            /\ \A i \in 0..(MaxFiles - 1) : lines'[i] = lines[i]
        BY <2>6
      <3>2. OnDisk' = UNION {lines[i] : i \in 0..(MaxFiles - 1)}
        BY <3>1 DEF OnDisk
      <3>3. emitted \in OnDisk' \cup cleared
        BY <2>1, <3>2 DEF NewestInBase
      <3>4. QED
        BY <2>1, <2>2, <2>3, <2>6, <3>2, <3>3, OldestDropped DEF VacantBelow
    <2>7. QED
      BY <2>1, <2>4, <2>5, <2>6
  <1>4. CASE Shift(s)
    <2> DEFINE i == at[s]
    <2>1. /\ i \in Files \ {0} /\ i - 1 \in Files /\ sink[s] = "shift"
          /\ lines' = [lines EXCEPT ![i] = lines[i - 1], ![i - 1] = {}]
          /\ emitted' = emitted /\ cleared' = cleared
      BY <1>4 DEF Shift, MovedUp
    <2>2. /\ lines'[i] = lines[i - 1] /\ lines'[i - 1] = {}
          /\ \A j \in Files \ {i, i - 1} : lines'[j] = lines[j]
      BY <2>1
    <2>3. \/ i = 1 /\ sink'[s] = "idle"
          \/ i # 1 /\ sink'[s] = "remove" /\ at'[s] = i - 1
      BY <1>4 DEF Shift, NextFile
    <2>4. VacantBelow' /\ NewestInBase'
      BY <2>1, <2>2, <2>3 DEF VacantBelow, NewestInBase
    <2>5. CASE i # MaxFiles
      <3>1. lines[i] = {}
        BY <2>1, <2>5 DEF VacantBelow
      <3>2. OnDisk' = OnDisk
        BY <2>1, <2>2, <3>1 DEF OnDisk
      <3>3. QED
        BY <2>1, <2>4, <3>2, NothingDropped
    <2>6. CASE i = MaxFiles
      <3>1. OnDisk' = UNION {lines[j] : j \in 0..(MaxFiles - 1)}
        BY <2>1, <2>2, <2>6 DEF OnDisk
      <3>2. emitted \in OnDisk' \cup cleared
        BY <2>1, <3>1 DEF NewestInBase
      <3>3. QED
        BY <2>1, <2>4, <3>1, <3>2, OldestDropped
    <2>7. QED
      BY <2>5, <2>6
  <1>5. CASE Skip(s)
    <2>1. UNCHANGED <<lines, emitted, cleared>> /\ sink[s] = "shift"
      BY <1>5 DEF Skip
    <2>2. \/ sink'[s] = "idle"
          \/ (sink'[s] = "remove" /\ at'[s] = at[s] - 1 /\ at[s] - 1 \notin exists)
      BY <1>5 DEF Skip, NextFile
    <2>3. VacantBelow' /\ NewestInBase'
      BY <2>1, <2>2 DEF VacantBelow, NewestInBase
    <2>4. OnDisk' = OnDisk
      BY <2>1 DEF OnDisk
    <2>5. QED
      BY <2>1, <2>3, <2>4, NothingDropped
  <1>6. CASE Clear
    <2>1. /\ UNCHANGED <<emitted, sink, at>> /\ cleared' = cleared \cup lines[0]
          /\ lines'[0] = {} /\ \A i \in Files \ {0} : lines'[i] = lines[i]
      BY <1>6 DEF Clear
    <2>2. OnDisk' \subseteq OnDisk /\ OnDisk' \cup cleared' = OnDisk \cup cleared
      BY <2>1 DEF OnDisk
    <2>3. QED
      BY <2>1, <2>2 DEF VacantBelow, NewestInBase, OnlyOldestLost
  <1>7. CASE UNCHANGED <<lines, emitted, sink, at, cleared>>
    <2>1. OnDisk' = OnDisk
      BY <1>7 DEF OnDisk
    <2>2. QED
      BY <1>7, <2>1, NothingDropped DEF VacantBelow, NewestInBase
  <1>8. QED
    BY <1>1, <1>2, <1>3, <1>4, <1>5, <1>6, <1>7
       DEF Next, vars, RotationStep, StartDump, Collect, ReadFile

LEMMA OneSinkRotates ==
    ASSUME NEW CONSTANT s, Sinks = {s}
    PROVE  Spec => []RotationInv
  <1>1. Init => VacantBelow /\ NewestInBase /\ OnlyOldestLost
    BY MaxFilesIsPositive DEF Init, VacantBelow, NewestInBase, OnlyOldestLost, OnDisk, Files
  <1>2. TypeOK /\ ChainOrdered /\ VacantBelow /\ NewestInBase /\ OnlyOldestLost
        /\ [Next]_vars => VacantBelow' /\ NewestInBase' /\ OnlyOldestLost'
    BY RotationStepKeeps DEF RotationInv
  <1>3. QED
    BY <1>1, <1>2, TypeCorrect, ChainStaysOrdered, PTL DEF Spec, RotationInv

\* One sink loses the oldest events only, killed and failing as it may.
THEOREM OneSinkLosesOldest ==
    ASSUME NEW CONSTANT s, Sinks = {s}
    PROVE  Spec => []OnlyOldestLost
  <1>1. RotationInv => OnlyOldestLost
    BY DEF RotationInv
  <1>2. QED
    BY <1>1, OneSinkRotates, PTL

-----------------------------------------------------------------------------
(* What a quiet dump prints: one sink, never killed, no rename refused.    *)

\* The one number that may be missing below a file that is there: the file
\* about to be replaced; between two events the base.
Hole(s) == IF sink[s] \in {"idle", "check"} THEN 0 ELSE at[s]

NoGaps ==
    \A s \in Sinks : \A j \in exists : \A k \in 0..j : k \in exists \/ k = Hole(s)

LEMMA NoGapsStep ==
    ASSUME NEW s, Sinks = {s}, Faults \cap {"rename", "kill"} = {},
           TypeOK, NoGaps, [Next]_vars
    PROVE  NoGaps'
  <1> USE MaxFilesIsPositive DEF TypeOK, FilesOK, SinksOK, Files, Goto
  <1>1. CASE AppendLine(s)
    <2>1. exists' = exists \cup {0} /\ sink'[s] = "check"
      BY <1>1 DEF AppendLine
    <2>2. SUFFICES ASSUME NEW j \in exists', NEW k \in 0..j
                   PROVE  k \in exists' \/ k = 0
      BY <2>1 DEF NoGaps, Hole
    <2>3. sink[s] = "idle"
      BY <1>1 DEF AppendLine
    <2>4. QED
      BY <2>1, <2>2, <2>3 DEF NoGaps, Hole
  <1>2. CASE Check(s)
    <2>1. exists' = exists /\ sink[s] = "check"
      BY <1>2 DEF Check
    <2>2. \/ sink'[s] = "idle"
          \/ sink'[s] = "remove" /\ 0 \in exists
      BY <1>2 DEF Check, MustRotate
    <2>3. QED
      BY <2>1, <2>2 DEF NoGaps, Hole
  <1>3. CASE Remove(s)
    <2>1. /\ sink[s] = "remove" /\ sink'[s] = "shift" /\ at'[s] = at[s]
          /\ exists' \in {exists, exists \ {at[s]}}
      BY <1>3 DEF Remove
    <2>2. QED
      BY <2>1 DEF NoGaps, Hole
  <1>4. CASE Shift(s)
    <2> DEFINE i == at[s]
    <2>1. /\ i \in Files \ {0} /\ sink[s] = "shift" /\ i - 1 \in exists
          /\ exists' = (exists \ {i - 1}) \cup {i}
      BY <1>4 DEF Shift
    <2>2. \/ i = 1 /\ sink'[s] = "idle"
          \/ sink'[s] = "remove" /\ at'[s] = i - 1
      BY <1>4 DEF Shift, NextFile
    <2>3. Hole(s)' = i - 1
      BY <2>1, <2>2 DEF Hole
    <2>4. \A k \in 0..i : k = i \/ k = i - 1 \/ k \in exists
      BY <2>1 DEF NoGaps, Hole
    <2>5. SUFFICES ASSUME NEW j \in exists', NEW k \in 0..j
                   PROVE  k \in exists' \/ k = i - 1
      BY <2>3 DEF NoGaps
    <2>6. CASE j = i
      BY <2>1, <2>4, <2>5, <2>6
    <2>7. CASE j # i
      BY <2>1, <2>5, <2>7 DEF NoGaps, Hole
    <2>8. QED
      BY <2>6, <2>7
  <1>5. CASE Skip(s)
    <2> DEFINE i == at[s]
    <2>1. i \in Files \ {0} /\ sink[s] = "shift" /\ i - 1 \notin exists /\ exists' = exists
      BY <1>5 DEF Skip
    <2>2. \/ i = 1 /\ sink'[s] = "idle"
          \/ sink'[s] = "remove" /\ at'[s] = i - 1
      BY <1>5 DEF Skip, NextFile
    <2>3. Hole(s)' = i - 1
      BY <2>1, <2>2 DEF Hole
    <2>4. \A j \in exists : j < i - 1
      BY <2>1 DEF NoGaps, Hole
    <2>5. QED
      BY <2>1, <2>3, <2>4 DEF NoGaps, Hole
  <1>6. CASE Clear
    <2>1. exists' = exists \cup {0} /\ UNCHANGED <<sink, at>>
      BY <1>6 DEF Clear
    <2>2. QED
      BY <2>1 DEF NoGaps, Hole
  <1>7. CASE UNCHANGED <<exists, sink, at>>
    BY <1>7 DEF NoGaps, Hole
  <1>8. ~ ShiftFails(s) /\ ~ Kill(s)
    BY DEF ShiftFails, Kill
  <1>9. QED
    BY <1>1, <1>2, <1>3, <1>4, <1>5, <1>6, <1>7, <1>8
       DEF Next, vars, RotationStep, StartDump, Collect, ReadFile

LEMMA NeverGaps ==
    ASSUME NEW CONSTANT s, Sinks = {s}, Faults \cap {"rename", "kill"} = {}
    PROVE  Spec => []NoGaps
  <1>1. Init => NoGaps
    BY DEF Init, NoGaps
  <1>2. TypeOK /\ NoGaps /\ [Next]_vars => NoGaps'
    BY NoGapsStep
  <1>3. QED
    BY <1>1, <1>2, TypeCorrect, PTL DEF Spec

\* What a reader knows while no file changes: its base is there or not as it
\* found it, the files it has counted are there, and it has printed all that
\* lies above the file it reads next.
QuietDump(r) ==
    LET d == dump[r]
    IN  calm[r] =>
          /\ \A s \in Sinks : sink[s] = "idle"
          /\ d.phase \in {"collect", "read"} => d.base = {0} \cap exists
          /\ d.phase = "collect" => \A j \in Files : 0 < j /\ j =< d.found => j \in exists
          /\ d.phase = "read" =>
                \A x : x \in d.printed <=> \E j \in Files : j > d.next /\ x \in lines[j]
          /\ d.phase = "done" =>
                \A x : x \in d.printed <=> \E j \in Files : x \in lines[j]

LEMMA QuietStep ==
    ASSUME NEW s, Sinks = {s}, MaxFiles =< ReaderFiles,
           TypeOK, NoGaps, [Next]_vars, NEW r \in Readers, QuietDump(r)
    PROVE  QuietDump(r)'
  <1> DEFINE d == dump[r]
  <1> USE MaxFilesIsPositive DEF TypeOK
  <1>1. d \in Dump
    BY DEF DumpsOK
  <1>2. CASE calm'[r] = FALSE
    BY <1>2 DEF QuietDump
  <1>3. CASE UNCHANGED <<exists, lines, sink>> /\ dump'[r] = d /\ calm'[r] = calm[r]
    BY <1>3 DEF QuietDump
  <1>4. CASE StartDump(r)
    <2>1. /\ dump'[r] = [phase |-> "collect", base |-> {0} \cap exists,
                         found |-> 0, next |-> 0, printed |-> {}]
          /\ UNCHANGED <<exists, lines, sink>>
      BY <1>4 DEF StartDump, DumpsOK
    <2>2. calm' = [calm EXCEPT ![r] = \A q \in Sinks : sink[q] = "idle"]
      BY <1>4 DEF StartDump
    <2>3. calm'[r] => \A q \in Sinks : sink[q] = "idle"
      BY <2>2
    <2>4. \A j \in Files : ~ (0 < j /\ j =< 0)
      BY DEF Files
    <2>5. QED
      BY <2>1, <2>3, <2>4 DEF QuietDump
  <1>5. CASE Collect(r) /\ calm[r]
    <2>1. /\ d.phase = "collect" /\ d.base = {0} \cap exists /\ d.printed = {}
          /\ \A j \in Files : 0 < j /\ j =< d.found => j \in exists
          /\ sink[s] = "idle"
          /\ UNCHANGED <<exists, lines, sink, calm>>
      BY <1>5 DEF Collect, QuietDump, DumpsOK
    <2>2. CASE d.found < ReaderFiles /\ d.found + 1 \in exists
      <3>1. dump'[r] = Found(d)
        BY <1>5, <2>2 DEF Collect, DumpsOK
      <3>2. /\ Found(d).phase = "collect" /\ Found(d).base = d.base
            /\ Found(d).found = d.found + 1
        BY <1>1, <2>1 DEF Found, Dump
      <3>3. \A j \in Files : 0 < j /\ j =< d.found + 1 => j \in exists
        BY <1>1, <2>1, <2>2 DEF Dump, Files
      <3>4. QED
        BY <2>1, <3>1, <3>2, <3>3 DEF QuietDump
    <2>3. CASE ~ (d.found < ReaderFiles /\ d.found + 1 \in exists)
      <3>1. dump'[r] = Reading(d)
        BY <1>5, <2>3 DEF Collect, DumpsOK
      <3>2. \A j \in exists : j =< d.found
        <4>1. CASE ~ (d.found < ReaderFiles)
          BY <1>1, <4>1, TelemetryAssumption DEF Dump, Files, FilesOK
        <4>2. CASE d.found + 1 \notin exists
          BY <1>1, <2>1, <4>2 DEF NoGaps, Hole, Dump, Files, FilesOK
        <4>3. QED
          BY <2>3, <4>1, <4>2
      <3>3. \A j \in Files : j > d.found => lines[j] = {}
        BY <1>1, <3>2 DEF FilesOK, Dump, Files
      <3>4. QED
        BY <2>1, <3>1, <3>3 DEF QuietDump, Reading
    <2>4. QED
      BY <2>2, <2>3
  <1>6. CASE ReadFile(r) /\ calm[r]
    <2> DEFINE n == NewLines(d)
               e == AfterRead(d, n)
    <2>1. /\ d.phase = "read" /\ d.base = {0} \cap exists
          /\ \A x : x \in d.printed <=> \E j \in Files : j > d.next /\ x \in lines[j]
          /\ \A q \in Sinks : sink[q] = "idle"
          /\ UNCHANGED <<exists, lines, sink, calm>>
          /\ dump'[r] = e
      BY <1>6, ReadStep DEF ReadFile, QuietDump, DumpsOK
    <2>2. d.next \in Files
      BY <1>1 DEF Dump
    <2>3. NewLines(d) = lines[d.next]
      BY <2>1, <2>2 DEF NewLines, FilesOK
    <2>4. e.printed = d.printed \cup n /\ e.base = d.base
      BY DEF AfterRead
    <2>5. CASE d.next = 0
      <3>1. e.phase = "done"
        BY <2>5 DEF AfterRead
      <3>2. \A x : x \in e.printed <=> \E j \in Files : x \in lines[j]
        BY <2>1, <2>2, <2>3, <2>4, <2>5 DEF Files
      <3> HIDE DEF e
      <3>3. QED
        BY <2>1, <3>1, <3>2 DEF QuietDump
    <2>6. CASE d.next # 0
      <3>1. e.phase = "read" /\ e.next = d.next - 1
        BY <2>6 DEF AfterRead
      <3>2. \A j \in Files : j > d.next - 1 <=> j > d.next \/ j = d.next
        BY <2>2 DEF Files
      <3>3. \A x : x \in e.printed <=>
                \E j \in Files : j > d.next - 1 /\ x \in lines[j]
        BY <2>1, <2>2, <2>3, <2>4, <3>2
      <3> HIDE DEF e
      <3>4. QED
        BY <2>1, <2>4, <3>1, <3>3 DEF QuietDump
    <2>7. QED
      BY <2>5, <2>6
  <1>7. \/ calm'[r] = FALSE
        \/ UNCHANGED <<exists, lines, sink>> /\ dump'[r] = d /\ calm'[r] = calm[r]
        \/ StartDump(r) \/ Collect(r) \/ ReadFile(r)
    <2> DEFINE Rests == UNCHANGED <<exists, lines, sink>> /\ dump'[r] = d /\ calm'[r] = calm[r]
    <2>sinks. ASSUME NEW q \in Sinks, AppendLine(q) \/ RotationStep(q) \/ Kill(q)
              PROVE  calm'[r] = FALSE \/ Rests
      <3>1. CASE AppendLine(q) \/ Remove(q) \/ Shift(q)
        BY <3>1 DEF AppendLine, Remove, Shift, Disturb
      <3>2. CASE Check(q) \/ Skip(q) \/ ShiftFails(q) \/ Kill(q)
        <4>1. sink[q] # "idle" /\ calm' = calm
          BY <3>2 DEF Check, Skip, ShiftFails, Kill
        <4>2. QED
          BY <4>1 DEF QuietDump
      <3>3. QED
        BY <2>sinks, <3>1, <3>2 DEF RotationStep
    <2>clear. Clear => calm'[r] = FALSE
      BY DEF Clear, Disturb
    <2>readers. ASSUME NEW q \in Readers \ {r}, StartDump(q) \/ Collect(q) \/ ReadFile(q)
                PROVE  Rests
      BY <2>readers DEF StartDump, Collect, ReadFile, DumpsOK
    <2>none. vars' = vars => Rests
      BY DEF vars
    <2>r. ASSUME NEW q \in Readers, StartDump(q) \/ Collect(q) \/ ReadFile(q)
          PROVE  Rests \/ StartDump(r) \/ Collect(r) \/ ReadFile(r)
      BY <2>r, <2>readers
    <2> HIDE DEF Rests
    <2>all. calm'[r] = FALSE \/ Rests \/ StartDump(r) \/ Collect(r) \/ ReadFile(r)
      BY <2>sinks, <2>clear, <2>r, <2>none DEF Next
    <2> QED
      BY <2>all DEF Rests
  <1>8. calm' \in [Readers -> BOOLEAN]
    BY TypeStep
  <1>9. (Collect(r) \/ ReadFile(r)) /\ ~ calm[r] => calm'[r] = FALSE
    BY DEF Collect, ReadFile
  <1>10. QED
    BY <1>2, <1>3, <1>4, <1>5, <1>6, <1>7, <1>9

\* A dump during which no file changes prints every event on disk, for any
\* number of files up to what the commands look for, whatever fails to be
\* removed or is cleared before it.
THEOREM QuietDumpsAreComplete ==
    ASSUME NEW CONSTANT s, Sinks = {s}, Faults \cap {"rename", "kill"} = {},
           MaxFiles =< ReaderFiles
    PROVE  Spec => []DumpIsComplete
  <1> DEFINE Quiet == \A r \in Readers : QuietDump(r)
  <1>1. Init => Quiet
    BY DEF Init, QuietDump
  <1>2. TypeOK /\ NoGaps /\ Quiet /\ [Next]_vars => Quiet'
    BY QuietStep
  <1>3. Quiet => DumpIsComplete
    BY DEF QuietDump, DumpIsComplete, OnDisk
  <1>4. QED
    BY <1>1, <1>2, <1>3, NeverGaps, TypeCorrect, PTL DEF Spec

-----------------------------------------------------------------------------
(* How much is kept.                                                       *)

\* f's sets, pairwise disjoint and each with at most B elements.
Rows(f, N, B) ==
    /\ DOMAIN f = 0..N
    /\ \A i \in 0..N : IsFiniteSet(f[i]) /\ Cardinality(f[i]) =< B
    /\ \A i, j \in 0..N : i # j => f[i] \cap f[j] = {}

\* f's elements fit a table of N + 1 rows of B, and fill it if each row does.
InTable(f, N, B) ==
    LET all == UNION {f[i] : i \in 0..N}
    IN  /\ IsFiniteSet(all)
        /\ (\E i \in 0..N : Cardinality(f[i]) < B) => Cardinality(all) < (N + 1) * B
        /\ (\A i \in 0..N : Cardinality(f[i]) = B) => Cardinality(all) = (N + 1) * B

\* Each row's elements have places of their own in the row of a table.
LEMMA RowsInTable ==
    ASSUME NEW N \in Nat, NEW B \in Nat, NEW f, Rows(f, N, B)
    PROVE  InTable(f, N, B)
  <1> DEFINE All == UNION {f[i] : i \in 0..N}
             Table == (0..N) \X (1..B)
             G == [i \in 0..N |-> CHOOSE g : g \in Bijection(f[i], 1..Cardinality(f[i]))]
             row(x) == CHOOSE i \in 0..N : x \in f[i]
             H == [x \in All |-> <<row(x), G[row(x)][x]>>]
  <1>1. IsFiniteSet(Table) /\ Cardinality(Table) = (N + 1) * B
    <2>1. IsFiniteSet(0..N) /\ Cardinality(0..N) = N + 1
      BY FS_Interval
    <2>2. IsFiniteSet(1..B) /\ Cardinality(1..B) = B
      BY FS_Interval
    <2>3. /\ IsFiniteSet((0..N) \X (1..B))
          /\ Cardinality((0..N) \X (1..B)) = Cardinality(0..N) * Cardinality(1..B)
      BY <2>1, <2>2, FS_Product, Zenon
    <2>4. QED
      BY <2>1, <2>2, <2>3
  <1>2. \A i \in 0..N : Cardinality(f[i]) \in Nat
    BY FS_CardinalityType DEF Rows
  <1>3. ASSUME NEW i \in 0..N
        PROVE  /\ G[i] \in [f[i] -> 1..Cardinality(f[i])]
               /\ \A x, y \in f[i] : G[i][x] = G[i][y] => x = y
               /\ \A k \in 1..Cardinality(f[i]) : \E x \in f[i] : G[i][x] = k
    <2>1. ExistsBijection(f[i], 1..Cardinality(f[i]))
      BY FS_CardinalityType, Fun_ExistsBijSymmetric DEF Rows
    <2>2. \E g : g \in Bijection(f[i], 1..Cardinality(f[i]))
      BY <2>1 DEF ExistsBijection
    <2>3. G[i] \in Bijection(f[i], 1..Cardinality(f[i]))
      BY <2>2
    <2> HIDE DEF G
    <2> DEFINE g == G[i]
               K == 1..Cardinality(f[i])
    <2> HIDE DEF g, K
    <2>4. g \in Bijection(f[i], K)
      BY <2>3 DEF g, K
    <2>5. /\ g \in [f[i] -> K]
          /\ \A x, y \in f[i] : g[x] = g[y] => x = y
          /\ \A k \in K : \E x \in f[i] : g[x] = k
      BY <2>4, Fun_BijectionProperties
    <2>6. QED
      BY <2>5 DEF g, K
  <1> HIDE DEF G
  <1>4. ASSUME NEW x \in All
        PROVE  row(x) \in 0..N /\ x \in f[row(x)]
    OBVIOUS
  <1>5. ASSUME NEW i \in 0..N, NEW x \in f[i]
        PROVE  x \in All /\ H[x] = <<i, G[i][x]>>
    <2>1. x \in All
      OBVIOUS
    <2>2. row(x) = i
      BY <1>4, <2>1 DEF Rows
    <2> HIDE DEF row
    <2>3. QED
      BY <2>1, <2>2
  <1>6. ASSUME NEW i \in 0..N, NEW x \in f[i]
        PROVE  G[i][x] \in 1..Cardinality(f[i])
    BY <1>3, <1>6
  <1>7. ASSUME NEW i \in 0..N, NEW x \in f[i], NEW y \in f[i], G[i][x] = G[i][y]
        PROVE  x = y
    BY <1>3, <1>7
  <1>8. ASSUME NEW x \in All
        PROVE  /\ H[x] \in Table
               /\ H[x][2] =< Cardinality(f[H[x][1]])
    <2>1. PICK i \in 0..N : x \in f[i]
      OBVIOUS
    <2>2. H[x] = <<i, G[i][x]>>
      BY <1>5, <2>1
    <2>3. G[i][x] \in 1..Cardinality(f[i]) /\ Cardinality(f[i]) =< B
      BY <1>6, <2>1 DEF Rows
    <2> HIDE DEF H
    <2>4. QED
      BY <1>2, <2>1, <2>2, <2>3
  <1>9. ASSUME NEW x \in All, NEW y \in All, H[x] = H[y]
        PROVE  x = y
    <2>1. PICK i \in 0..N : x \in f[i]
      OBVIOUS
    <2>2. PICK j \in 0..N : y \in f[j]
      OBVIOUS
    <2>3. H[x] = <<i, G[i][x]>> /\ H[y] = <<j, G[j][y]>>
      BY <1>5, <2>1, <2>2
    <2> HIDE DEF H
    <2>4. i = j /\ G[i][x] = G[j][y]
      <3>1. <<i, G[i][x]>> = <<j, G[j][y]>>
        BY <1>9, <2>3
      <3>2. QED
        BY <3>1
    <2>5. QED
      BY <1>7, <2>1, <2>2, <2>4
  <1> HIDE DEF row
  <1>10. H \in [All -> Table]
    <2>1. \A x \in All : H[x] \in Table
      BY <1>8
    <2>2. QED
      BY <2>1
  <1>11. H \in Injection(All, Table)
    BY <1>9, <1>10, Fun_IsInj
  <1> HIDE DEF H, All, Table
  <1>12. IsFiniteSet(All) /\ Cardinality(All) =< (N + 1) * B
         /\ (Cardinality(All) = Cardinality(Table) <=> H \in Surjection(All, Table))
    BY <1>1, <1>11, FS_Injection
  <1>13. ASSUME NEW i \in 0..N, Cardinality(f[i]) < B
         PROVE  Cardinality(All) < (N + 1) * B
    <2>1. <<i, B>> \in Table
      BY <1>2, <1>13 DEF Table
    <2>2. \A x \in All : H[x] # <<i, B>>
      BY <1>2, <1>8, <1>13
    <2>3. H \notin Surjection(All, Table)
      BY <2>1, <2>2, Fun_SurjectionProperties
    <2>4. Cardinality(All) \in Nat /\ (N + 1) * B \in Nat
      BY <1>12, FS_CardinalityType
    <2>5. QED
      BY <1>1, <1>12, <2>3, <2>4
  <1>14. ASSUME \A i \in 0..N : Cardinality(f[i]) = B
         PROVE  Cardinality(All) = (N + 1) * B
    <2>1. ASSUME NEW t \in Table
          PROVE  \E x \in All : H[x] = t
      <3>1. PICK i \in 0..N, k \in 1..B : t = <<i, k>>
        BY <2>1 DEF Table
      <3>2. k \in 1..Cardinality(f[i])
        BY <1>14
      <3>3. PICK x \in f[i] : G[i][x] = k
        BY <1>3, <3>2
      <3>4. QED
        BY <1>5, <3>1, <3>3
    <2>2. H \in Surjection(All, Table)
      BY <1>10, <2>1, Fun_IsSurj
    <2>3. QED
      BY <1>1, <1>12, <2>2
  <1>15. QED
    BY <1>12, <1>13, <1>14 DEF All, InTable


\* Every numbered file is full; the base is so while it is rotated only.
FullFiles ==
    /\ \A i \in exists \ {0} : Cardinality(lines[i]) = MaxBytes
    /\ \A s \in Sinks :
          /\ sink[s] = "idle" => Cardinality(lines[0]) < MaxBytes
          /\ sink[s] = "check" => Cardinality(lines[0]) =< MaxBytes
          /\ sink[s] \in {"remove", "shift"} => Cardinality(lines[0]) = MaxBytes

\* A file holds finitely many events.
LEMMA LinesAreFinite ==
    ASSUME FilesOK, NEW i \in Files
    PROVE  IsFiniteSet(lines[i]) /\ Cardinality(lines[i]) \in Nat
  <1>1. lines[i] \in SUBSET (1..emitted)
    BY DEF FilesOK, Events
  <1>2. IsFiniteSet(1..emitted)
    BY FS_Interval DEF FilesOK
  <1>3. QED
    BY <1>1, <1>2, FS_Subset, FS_CardinalityType

LEMMA FullFilesStep ==
    ASSUME NEW s, Sinks = {s}, Faults \subseteq {"remove"},
           TypeOK, FullFiles, [Next]_vars
    PROVE  FullFiles'
  <1> USE MaxFilesIsPositive, MaxBytesIsPositive DEF TypeOK, FilesOK, SinksOK, Files, Goto
  <1> DEFINE n == Cardinality(lines[0])
  <1>1. n \in Nat /\ IsFiniteSet(lines[0])
    BY LinesAreFinite
  <1>0. Cardinality({}) = 0
    BY FS_EmptySet
  <1>2. n > 0 => 0 \in exists
    <2>1. 0 \notin exists => lines[0] = {}
      OBVIOUS
    <2>2. lines[0] = {} => n = 0
      BY <1>0
    <2>3. QED
      BY <2>1, <2>2
  <1>3. CASE AppendLine(s)
    <2>1. /\ sink[s] = "idle" /\ sink'[s] = "check" /\ exists' = exists \cup {0}
          /\ lines'[0] = lines[0] \cup {emitted + 1}
          /\ \A i \in Files \ {0} : lines'[i] = lines[i]
      BY <1>3 DEF AppendLine
    <2>2. Cardinality(lines[0] \cup {emitted + 1}) =< n + 1
      <3>1. Cardinality(lines[0] \cup {emitted + 1})
                = IF emitted + 1 \in lines[0] THEN n ELSE n + 1
        BY <1>1, FS_AddElement, Zenon
      <3>2. QED
        BY <1>1, <3>1
    <2>3. Cardinality(lines[0] \cup {emitted + 1}) =< MaxBytes
      <3>1. Cardinality(lines[0] \cup {emitted + 1}) \in Nat
        BY <1>1, FS_AddElement, FS_CardinalityType
      <3>2. QED
        BY <1>1, <2>1, <2>2, <3>1 DEF FullFiles
    <2>4. QED
      BY <2>1, <2>3 DEF FullFiles
  <1>4. CASE Check(s)
    <2>1. sink[s] = "check" /\ UNCHANGED <<exists, lines>>
      BY <1>4 DEF Check
    <2>2. \/ sink'[s] = "idle" /\ n < MaxBytes
          \/ sink'[s] = "remove" /\ n >= MaxBytes
      BY <1>1, <1>2, <1>4 DEF Check, MustRotate
    <2>3. QED
      BY <1>1, <2>1, <2>2 DEF FullFiles
  <1>5. CASE Remove(s)
    <2>1. /\ sink[s] = "remove" /\ sink'[s] = "shift" /\ exists' \subseteq exists
          /\ at[s] \in Files \ {0}
          /\ \/ lines' = lines
             \/ exists' = exists \ {at[s]} /\ lines' = [lines EXCEPT ![at[s]] = {}]
      BY <1>5 DEF Remove
    <2>2. \A i \in exists' \cup {0} : lines'[i] = lines[i]
      BY <2>1
    <2>3. QED
      BY <2>1, <2>2 DEF FullFiles
  <1>6. CASE Shift(s)
    <2> DEFINE i == at[s]
    <2>1. /\ i \in Files \ {0} /\ i - 1 \in exists /\ sink[s] = "shift"
          /\ exists' = (exists \ {i - 1}) \cup {i}
          /\ lines'[i] = lines[i - 1] /\ lines'[i - 1] = {}
          /\ \A j \in Files \ {i, i - 1} : lines'[j] = lines[j]
      BY <1>6 DEF Shift, MovedUp
    <2>2. \/ i = 1 /\ sink'[s] = "idle"
          \/ i # 1 /\ sink'[s] = "remove"
      BY <1>6 DEF Shift, NextFile
    <2>3. Cardinality(lines[i - 1]) = MaxBytes
      BY <2>1 DEF FullFiles
    <2>4. \A j \in exists' \ {0} : Cardinality(lines'[j]) = MaxBytes
      BY <2>1, <2>3 DEF FullFiles
    <2>5. CASE i = 1
      <3>1. lines'[0] = {}
        BY <2>1, <2>5
      <3>2. Cardinality(lines'[0]) = 0
        BY <1>0, <3>1
      <3>3. QED
        BY <2>2, <2>4, <2>5, <3>2 DEF FullFiles
    <2>6. CASE i # 1
      <3>1. lines'[0] = lines[0]
        BY <2>1, <2>6
      <3>2. QED
        BY <2>1, <2>2, <2>4, <2>6, <3>1 DEF FullFiles
    <2>7. QED
      BY <2>5, <2>6
  <1>7. CASE Skip(s)
    <2>1. /\ sink[s] = "shift" /\ at[s] - 1 \notin exists /\ UNCHANGED <<exists, lines>>
          /\ at[s] \in Files \ {0}
      BY <1>7 DEF Skip
    <2>2. at[s] # 1
      BY <1>2, <2>1 DEF FullFiles
    <2>3. sink'[s] = "remove"
      BY <1>7, <2>2 DEF Skip, NextFile
    <2>4. QED
      BY <2>1, <2>3 DEF FullFiles
  <1>8. CASE Clear
    <2>1. /\ sink[s] = "idle" /\ sink' = sink /\ exists' = exists \cup {0}
          /\ lines'[0] = {} /\ \A i \in Files \ {0} : lines'[i] = lines[i]
      BY <1>8 DEF Clear
    <2>2. QED
      BY <1>0, <2>1 DEF FullFiles
  <1>9. CASE UNCHANGED <<exists, lines, sink>>
    BY <1>9 DEF FullFiles
  <1>10. ~ ShiftFails(s) /\ ~ Kill(s)
    BY DEF ShiftFails, Kill
  <1>11. QED
    BY <1>3, <1>4, <1>5, <1>6, <1>7, <1>8, <1>9, <1>10
       DEF Next, vars, RotationStep, StartDump, Collect, ReadFile

\* The instance counts as this module does.
LEMMA SameCardinality == \A S : Retained!Cardinality(S) = Cardinality(S)
  BY Zenon DEF Retained!Cardinality, Cardinality

\* The files are the rows of a table of MaxFiles + 1 times MaxBytes places.
LEMMA FilesAreRows ==
    ASSUME NEW s, Sinks = {s}, TypeOK, ChainOrdered, FullFiles
    PROVE  Rows(lines, MaxFiles, MaxBytes)
  <1> USE MaxFilesIsPositive, MaxBytesIsPositive DEF TypeOK, FilesOK, SinksOK
  <1>1. ASSUME NEW i \in Files
        PROVE  IsFiniteSet(lines[i]) /\ Cardinality(lines[i]) =< MaxBytes
    <2>1. IsFiniteSet(lines[i]) /\ Cardinality(lines[i]) \in Nat
      BY LinesAreFinite
    <2>2. CASE i = 0
      BY <2>1, <2>2 DEF FullFiles
    <2>3. CASE i # 0 /\ i \in exists
      BY <2>1, <2>3 DEF FullFiles
    <2>4. CASE i \notin exists
      <3>1. lines[i] = {}
        BY <2>4
      <3>2. Cardinality(lines[i]) = 0
        BY <3>1, FS_EmptySet
      <3>3. QED
        BY <2>1, <3>2
    <2>5. QED
      BY <2>2, <2>3, <2>4
  <1>2. ASSUME NEW i \in Files, NEW j \in Files, i # j
        PROVE  lines[i] \cap lines[j] = {}
    <2>1. SUFFICES ASSUME NEW x \in lines[i], x \in lines[j] PROVE FALSE
      OBVIOUS
    <2>2. x \in Nat /\ (i < j \/ j < i)
      BY <1>2 DEF Events, Files
    <2>3. x < x
      BY <2>1, <2>2 DEF ChainOrdered
    <2>4. QED
      BY <2>2, <2>3
  <1>3. QED
    BY <1>1, <1>2 DEF Rows, Files

LEMMA OnDiskIs == OnDisk = UNION {lines[i] : i \in 0..MaxFiles}
  BY DEF OnDisk, Files

LEMMA KeptInTable ==
    ASSUME Rows(lines, MaxFiles, MaxBytes)
    PROVE  /\ IsFiniteSet(OnDisk)
           /\ (\E i \in 0..MaxFiles : Cardinality(lines[i]) < MaxBytes) =>
                  Cardinality(OnDisk) < (MaxFiles + 1) * MaxBytes
           /\ (\A i \in 0..MaxFiles : Cardinality(lines[i]) = MaxBytes) =>
                  Cardinality(OnDisk) = (MaxFiles + 1) * MaxBytes
  <1>1. MaxFiles \in Nat /\ MaxBytes \in Nat
    BY MaxFilesIsPositive, MaxBytesIsPositive
  <1>2. InTable(lines, MaxFiles, MaxBytes)
    BY <1>1, RowsInTable
  <1>3. QED
    BY <1>2, OnDiskIs, Zenon DEF InTable

\* The file with the highest number goes only when every file is full.
LEMMA DropsOldestBatch ==
    ASSUME NEW s, Sinks = {s}, RotationInv, NoGaps, FullFiles,
           sink[s] \in {"remove", "shift"}, at[s] = MaxFiles,
           lines[MaxFiles] # {}, emitted' = emitted,
           OnDisk' = UNION {lines[i] : i \in 0..(MaxFiles - 1)}
    PROVE  Retained!Drop
  <1> USE MaxFilesIsPositive, MaxBytesIsPositive DEF RotationInv, TypeOK, FilesOK
  <1>1. Rows(lines, MaxFiles, MaxBytes)
    BY FilesAreRows
  <1>2. \A i \in 0..MaxFiles : i \in exists
    <2>1. MaxFiles \in exists
      BY DEF Files
    <2>2. QED
      BY <2>1 DEF NoGaps, Hole
  <1>3. \A i \in 0..MaxFiles : Cardinality(lines[i]) = MaxBytes
    BY <1>2 DEF FullFiles
  <1>4. IsFiniteSet(OnDisk) /\ Cardinality(OnDisk) = (MaxFiles + 1) * MaxBytes
    BY <1>1, <1>3, KeptInTable
  <1>5. OnDisk' = OnDisk \ lines[MaxFiles] /\ OnDisk \cap lines[MaxFiles] = lines[MaxFiles]
    <2>1. \A i \in 0..(MaxFiles - 1) : lines[i] \cap lines[MaxFiles] = {}
      BY <1>1 DEF Rows
    <2>2. 0..MaxFiles = 0..(MaxFiles - 1) \cup {MaxFiles}
      OBVIOUS
    <2>3. QED
      BY <2>1, <2>2, OnDiskIs
  <1>6. Cardinality(OnDisk') = (MaxFiles + 1) * MaxBytes - MaxBytes
    <2>1. Cardinality(OnDisk \ lines[MaxFiles])
              = Cardinality(OnDisk) - Cardinality(OnDisk \cap lines[MaxFiles])
      BY <1>4, FS_Difference, Zenon
    <2>2. Cardinality(lines[MaxFiles]) = MaxBytes
      BY <1>3
    <2>3. QED
      BY <1>4, <1>5, <2>1, <2>2
  <1>7. \A x \in OnDisk \ OnDisk', y \in OnDisk' : x < y
    <2>1. SUFFICES ASSUME NEW x \in lines[MaxFiles],
                          NEW j \in 0..(MaxFiles - 1), NEW y \in lines[j]
                   PROVE  x < y
      BY <1>5
    <2>2. j \in Files /\ MaxFiles \in Files /\ j < MaxFiles
      BY DEF Files
    <2>3. QED
      BY <2>2 DEF ChainOrdered
  <1>8. OnDisk' \subseteq OnDisk
    BY <1>5
  <1>9. QED
    BY <1>4, <1>6, <1>7, <1>8, SameCardinality DEF Retained!Drop, Retained!Older

\* Every step of the files is a step of the bounded log, or none.
LEMMA RetainedStep ==
    ASSUME NEW s, Sinks = {s}, Faults \subseteq {"remove"},
           RotationInv, NoGaps, FullFiles, [Next]_vars
    PROVE  \/ Retained!Append \/ Retained!Drop \/ Retained!Clear
           \/ UNCHANGED <<OnDisk, emitted>>
  <1> USE MaxFilesIsPositive DEF RotationInv, TypeOK, FilesOK, SinksOK, Files, Goto
  <1>1. CASE AppendLine(s)
    <2>1. /\ \A i \in Files : lines'[i] = IF i = 0 THEN lines[0] \cup {emitted + 1}
                                         ELSE lines[i]
          /\ emitted' = emitted + 1 /\ sink[s] = "idle" /\ 0 \in Files
      BY <1>1 DEF AppendLine
    <2>2. OnDisk' = OnDisk \cup {emitted'}
      BY <2>1 DEF OnDisk
    <2>3. Cardinality(lines[0]) < MaxBytes
      BY <2>1 DEF FullFiles
    <2>4. Cardinality(OnDisk) < (MaxFiles + 1) * MaxBytes
      <3>1. 0 \in 0..MaxFiles
        OBVIOUS
      <3>2. QED
        BY <2>3, <3>1, FilesAreRows, KeptInTable
    <2>5. QED
      BY <2>1, <2>2, <2>4, SameCardinality DEF Retained!Append
  <1>2. ASSUME lines' = lines, emitted' = emitted
        PROVE  UNCHANGED <<OnDisk, emitted>>
    BY <1>2 DEF OnDisk
  <1>3. CASE Remove(s)
    <2>1. /\ sink[s] = "remove" /\ at[s] \in Files \ {0} /\ emitted' = emitted
          /\ lines' \in {lines, [lines EXCEPT ![at[s]] = {}]}
      BY <1>3 DEF Remove
    <2>2. CASE lines' = lines
      BY <1>2, <2>1, <2>2
    <2>3. CASE lines' = [lines EXCEPT ![at[s]] = {}] /\ lines[at[s]] = {}
      <3>1. lines' = lines
        BY <2>1, <2>3
      <3>2. QED
        BY <1>2, <2>1, <3>1
    <2>4. CASE lines' = [lines EXCEPT ![at[s]] = {}] /\ lines[at[s]] # {}
      <3>1. at[s] = MaxFiles
        BY <2>1, <2>4 DEF VacantBelow
      <3>2. /\ lines'[MaxFiles] = {}
            /\ \A i \in 0..(MaxFiles - 1) : lines'[i] = lines[i]
        BY <2>4, <3>1
      <3>3. OnDisk' = UNION {lines[i] : i \in 0..(MaxFiles - 1)}
        BY <3>2 DEF OnDisk
      <3>4. QED
        BY <2>1, <2>4, <3>1, <3>3, DropsOldestBatch
    <2>5. QED
      BY <2>1, <2>2, <2>3, <2>4
  <1>4. CASE Shift(s)
    <2> DEFINE i == at[s]
    <2>1. /\ i \in Files \ {0} /\ i - 1 \in Files /\ sink[s] = "shift"
          /\ lines' = [lines EXCEPT ![i] = lines[i - 1], ![i - 1] = {}]
          /\ emitted' = emitted
      BY <1>4 DEF Shift, MovedUp
    <2>2. /\ lines'[i] = lines[i - 1] /\ lines'[i - 1] = {}
          /\ \A j \in Files \ {i, i - 1} : lines'[j] = lines[j]
      BY <2>1
    <2>3. CASE lines[i] = {}
      <3>1. \A x : (\E j \in Files : x \in lines'[j]) <=> (\E j \in Files : x \in lines[j])
        BY <2>1, <2>2, <2>3
      <3>2. \A x : x \in OnDisk' <=> x \in OnDisk
        <4>1. \A x : x \in OnDisk' <=> \E j \in Files : x \in lines'[j]
          BY DEF OnDisk
        <4>2. \A x : x \in OnDisk <=> \E j \in Files : x \in lines[j]
          BY DEF OnDisk
        <4>3. QED
          BY <3>1, <4>1, <4>2, Zenon
      <3>3. OnDisk' = OnDisk
        BY <3>2
      <3>4. QED
        BY <2>1, <3>3
    <2>4. CASE lines[i] # {}
      <3>1. i = MaxFiles
        BY <2>1, <2>4 DEF VacantBelow
      <3>2. OnDisk' = UNION {lines[j] : j \in 0..(MaxFiles - 1)}
        BY <2>1, <2>2, <3>1 DEF OnDisk
      <3>3. QED
        BY <2>1, <2>4, <3>1, <3>2, DropsOldestBatch
    <2>5. QED
      BY <2>3, <2>4
  <1>5. CASE Clear
    <2>1. /\ emitted' = emitted /\ lines'[0] = {} /\ 0 \in Files
          /\ \A i \in Files \ {0} : lines'[i] = lines[i]
      BY <1>5 DEF Clear
    <2>2. OnDisk' \subseteq OnDisk /\ OnDisk \ OnDisk' \subseteq lines[0]
      BY <2>1 DEF OnDisk
    <2>3. \A x \in OnDisk' : \E i \in Files \ {0} : x \in lines[i]
      BY <2>1 DEF OnDisk
    <2>4. \A x \in OnDisk', y \in OnDisk \ OnDisk' : x < y
      <3>1. SUFFICES ASSUME NEW i \in Files \ {0}, NEW x \in lines[i], NEW y \in lines[0]
                     PROVE  x < y
        BY <2>2, <2>3
      <3>2. 0 < i
        OBVIOUS
      <3>3. QED
        BY <2>1, <3>2 DEF ChainOrdered
    <2>5. QED
      BY <2>1, <2>2, <2>4 DEF Retained!Clear, Retained!Older
  <1>6. CASE Check(s) \/ Skip(s) \/ ShiftFails(s) \/ Kill(s)
    BY <1>2, <1>6 DEF Check, Skip, ShiftFails, Kill
  <1>7. ASSUME NEW r \in Readers, StartDump(r) \/ Collect(r) \/ ReadFile(r)
        PROVE  UNCHANGED <<OnDisk, emitted>>
    BY <1>2, <1>7 DEF StartDump, Collect, ReadFile
  <1>8. CASE UNCHANGED vars
    BY <1>2, <1>8 DEF vars
  <1>9. QED
    BY <1>1, <1>3, <1>4, <1>5, <1>6, <1>7, <1>8 DEF Next, RotationStep

\* One sink's files are a bounded log that loses its oldest events only, a
\* file's worth at a time and only when every file is full; a removal that
\* fails changes nothing of this.
THEOREM FilesAreARetainedLog ==
    ASSUME NEW CONSTANT s, Sinks = {s}, Faults \subseteq {"remove"}
    PROVE  Spec => ImplementsRetainedLog
  <1>1. Init => FullFiles /\ Retained!Init
    <2>1. SUFFICES ASSUME Init PROVE FullFiles /\ Retained!Init
      OBVIOUS
    <2>2. OnDisk = {} /\ emitted = 0 /\ lines[0] = {} /\ exists = {}
      BY <2>1, MaxFilesIsPositive DEF Init, OnDisk, Files
    <2>3. Cardinality(lines[0]) = 0
      BY <2>2, FS_EmptySet
    <2>4. FullFiles
      <3>1. \A q \in Sinks : sink[q] = "idle"
        BY <2>1 DEF Init
      <3>2. Cardinality(lines[0]) < MaxBytes
        BY <2>3, MaxBytesIsPositive
      <3>3. QED
        BY <2>2, <3>1, <3>2 DEF FullFiles
    <2>5. QED
      BY <2>2, <2>4 DEF Retained!Init
  <1>2. TypeOK /\ FullFiles /\ [Next]_vars => FullFiles'
    BY FullFilesStep
  <1>3. RotationInv /\ NoGaps /\ FullFiles /\ [Next]_vars =>
          [Retained!Append \/ Retained!Drop \/ Retained!Clear]_<<OnDisk, emitted>>
    BY RetainedStep
  <1>4. Faults \cap {"rename", "kill"} = {}
    OBVIOUS
  <1>5. Spec => []NoGaps
    BY <1>4, NeverGaps
  <1>6. QED
    BY <1>1, <1>2, <1>3, <1>5, OneSinkRotates, TypeCorrect, PTL
       DEF Spec, ImplementsRetainedLog, Retained!Spec

-----------------------------------------------------------------------------
(* The pages of a query.                                                   *)

\* A remainder is no more than the number.
LEMMA Remainder ==
    ASSUME NEW a \in Nat, NEW w \in Nat \ {0}
    PROVE  a % w \in 0..a /\ (a < w => a % w = a)
  <1>1. a % w \in 0..(w - 1) /\ a \div w \in Int /\ a = w * (a \div w) + (a % w)
    OBVIOUS
  <1>2. CASE a \div w = 0
    <2>1. a = a % w
      BY <1>1, <1>2
    <2>2. QED
      BY <2>1, <1>1
  <1>3. CASE a \div w >= 1
    <2>1. w * (a \div w) >= w
      BY <1>1, <1>3
    <2>2. QED
      BY <1>1, <2>1
  <1>4. CASE a \div w =< -1
    <2>1. w * (a \div w) =< -w
      BY <1>1, <1>4
    <2>2. QED
      BY <1>1, <2>1
  <1>5. QED
    BY <1>1, <1>2, <1>3, <1>4

\* The files follow each other, the newest first.
PartsInOrder ==
    /\ starts \in Seq(Nat \ {0}) /\ Len(starts) >= 1
    /\ \A i \in 1..Len(starts) : starts[i] =< last + 1
    /\ \A i, j \in 1..Len(starts) : i =< j => starts[j] =< starts[i]

NumbersOK ==
    /\ first \in Nat \ {0} /\ last \in Nat /\ first =< last + 1
    /\ last =< MaxLines
    /\ tail \in Nat /\ limit \in Limits /\ from \in Nat /\ offset \in Nat /\ unread \in Nat
    /\ from =< offset
    /\ walked \in SUBSET Int /\ matched \in SUBSET Int
    /\ status \in {"walking", "reading", "done"}
    /\ shaken \in BOOLEAN

\* With all that is on disk read: how many lines these are, what the tail
\* skips and keeps of them, and where the page begins and ends.
Matched == last - first + 1
Skipped == Start(Matched)
Kept == Sliced(Matched)
PageFrom == PageStart(Matched)
PageTo == PageEnd(Matched)

\* Where the tail begins.
Begin == first + Skipped

LEMMA Bounds ==
    ASSUME NumbersOK
    PROVE  /\ Skipped \in Nat /\ Kept \in Nat /\ Begin + Kept = last + 1
           /\ Begin \in Nat
           /\ Begin = IF tail > 0 /\ Matched > tail THEN last + 1 - tail ELSE first
           /\ PageFrom \in 0..Kept /\ PageFrom =< offset
           /\ PageTo \in 0..Kept
           /\ limit > 0 => PageTo =< PageFrom + limit
  <1> USE DEF NumbersOK, Begin, Skipped, Start, Kept, Sliced, Matched, PageFrom, PageStart
  <1>1. limit \in Nat
    BY PagingAssumption
  <1>2. PageFrom \in 0..Kept /\ PageFrom =< offset
    OBVIOUS
  <1>3. (PageFrom + limit) % SizeWidth \in 0..(PageFrom + limit)
    <2> DEFINE a == PageFrom + limit
    <2>1. a \in Nat /\ SizeWidth \in Nat \ {0}
      BY <1>1, <1>2, PagingAssumption
    <2> HIDE DEF a
    <2>2. a % SizeWidth \in 0..a
      BY <2>1, Remainder
    <2>3. QED
      BY <2>2 DEF a
  <1>4. PageTo \in 0..Kept /\ (limit > 0 => PageTo =< PageFrom + limit)
    BY <1>1, <1>2, <1>3 DEF PageTo, PageEnd
  <1>5. QED
    BY <1>1, <1>2, <1>4

\* The files of a log in order, one more in front and some dropped, are in order.
LEMMA RotatedInOrder ==
    ASSUME NumbersOK, PartsInOrder, NEW n \in 0..Len(starts),
           starts' = <<last + 1>> \o SubSeq(starts, 1, n), UNCHANGED last
    PROVE  /\ starts' \in Seq(Nat \ {0}) /\ Len(starts') >= 1
           /\ \A i \in 1..Len(starts') : starts'[i] =< last + 1
           /\ \A i, j \in 1..Len(starts') : i =< j => starts'[j] =< starts'[i]
           /\ first' \in Nat \ {0} /\ first' =< last + 1 /\ first =< first'
  <1> DEFINE kept == SubSeq(starts, 1, n)
  <1>1. /\ kept \in Seq(Nat \ {0}) /\ Len(kept) = n
        /\ \A i \in 1..n : kept[i] = starts[i]
    BY DEF NumbersOK, PartsInOrder
  <1>2. <<last + 1>> \in Seq(Nat \ {0}) /\ Len(<<last + 1>>) = 1
        /\ <<last + 1>>[1] = last + 1 /\ last \in Nat
    BY DEF NumbersOK, PartsInOrder
  <1>3. starts' = <<last + 1>> \o kept
    OBVIOUS
  <1> HIDE DEF kept
  <1>4. /\ starts' \in Seq(Nat \ {0}) /\ Len(starts') = n + 1
        /\ starts'[1] = last + 1
        /\ \A i \in 2..(n + 1) : starts'[i] = kept[i - 1]
    BY <1>1, <1>2, <1>3
  <1>5. \A i \in 2..(n + 1) : starts'[i] = starts[i - 1] /\ i - 1 \in 1..Len(starts)
    BY <1>1, <1>4
  <1>6. \A i \in 1..(n + 1) : starts'[i] =< last + 1
    BY <1>4, <1>5, <1>2 DEF NumbersOK, PartsInOrder
  <1>7. \A i, j \in 1..(n + 1) : i =< j => starts'[j] =< starts'[i]
    <2> TAKE i, j \in 1..(n + 1)
    <2>1. CASE i = 1
      BY <1>4, <1>6, <2>1
    <2>2. CASE i # 1
      <3> SUFFICES ASSUME i =< j PROVE starts'[j] =< starts'[i]
        OBVIOUS
      <3>1. i \in 2..(n + 1) /\ j \in 2..(n + 1)
        BY <2>2
      <3>2. /\ i - 1 \in 1..Len(starts) /\ j - 1 \in 1..Len(starts)
            /\ i - 1 =< j - 1
            /\ starts'[i] = starts[i - 1] /\ starts'[j] = starts[j - 1]
        BY <1>5, <3>1
      <3>3. starts[j - 1] =< starts[i - 1]
        BY <3>2 DEF PartsInOrder
      <3> QED
        BY <3>2, <3>3
    <2> QED
      BY <2>1, <2>2
  <1>8. first' = starts'[n + 1] /\ first = starts[Len(starts)]
    BY <1>4 DEF first
  <1>9. first' \in Nat \ {0} /\ first' =< last + 1 /\ first =< first'
    <2>1. CASE n = 0
      BY <1>2, <1>4, <1>8, <2>1 DEF NumbersOK, PartsInOrder
    <2>2. CASE n # 0
      <3>1. first' = starts[n] /\ n \in 1..Len(starts)
        BY <1>5, <1>8, <2>2
      <3>2. starts[Len(starts)] =< starts[n] /\ starts[n] \in Nat \ {0}
        BY <3>1 DEF NumbersOK, PartsInOrder
      <3>3. starts[n] =< last + 1
        BY <3>1 DEF NumbersOK, PartsInOrder
      <3> QED
        BY <1>8, <3>1, <3>2, <3>3
    <2> QED
      BY <2>1, <2>2
  <1>10. Len(starts') >= 1 /\ 1..Len(starts') = 1..(n + 1)
    BY <1>4
  <1> QED
    BY <1>4, <1>6, <1>7, <1>9, <1>10, Zenon

LEMMA LinesAreNumbers ==
    ASSUME NumbersOK, PartsInOrder, NEW i \in Nat \ {0}
    PROVE  PartLines(i) \in SUBSET Int
  BY DEF PartLines, NumbersOK, PartsInOrder

LEMMA NumbersFirst == ASSUME WalkInit PROVE NumbersOK /\ PartsInOrder
  <1>1. last \in 0..MaxLines /\ MaxLines \in Nat
    BY PagingAssumption DEF WalkInit
  <1>2. PICK n \in 1..MaxParts : starts \in [1..n -> 1..(last + 1)]
    BY DEF WalkInit
  <1>3. n \in Nat \ {0} /\ Len(starts) = n /\ starts[n] = 1
    BY <1>2, PagingAssumption DEF WalkInit
  <1>4. starts \in Seq(Nat \ {0})
    <2>1. starts \in [1..n -> Nat \ {0}]
      BY <1>1, <1>2
    <2> QED
      BY <1>3, <2>1
  <1>5. first = 1
    BY <1>3 DEF first
  <1>6. \A i, j \in 1..n : i =< j => starts[j] =< starts[i]
    <2> DEFINE Falling(s) == \A i, j \in 1..Len(s) : i =< j => s[j] =< s[i]
               Beginnings == UNION {[1..k -> 1..(last + 1)] : k \in 1..MaxParts}
    <2>1. starts \in {s \in Beginnings : s[Len(s)] = 1 /\ Falling(s)}
      BY DEF WalkInit
    <2> HIDE DEF Beginnings, Falling
    <2>2. Falling(starts)
      BY <2>1
    <2> QED
      BY <1>3, <2>2 DEF Falling
  <1>7. \A i \in 1..n : starts[i] =< last + 1
    BY <1>1, <1>2
  <1>8. tail \in Nat /\ limit \in Limits /\ from \in Nat /\ offset = from
    BY PagingAssumption DEF WalkInit
  <1>9. walked = {} /\ matched = {} /\ status = "walking" /\ unread = 0 /\ shaken = FALSE
    BY DEF WalkInit
  <1>10. PartsInOrder
    BY <1>3, <1>4, <1>6, <1>7 DEF PartsInOrder
  <1>11. NumbersOK
    <2>1. /\ first \in Nat \ {0} /\ last \in Nat /\ first =< last + 1
          /\ last =< MaxLines /\ from =< offset /\ unread \in Nat
      BY <1>1, <1>5, <1>8, <1>9
    <2>2. /\ walked \in SUBSET Int /\ matched \in SUBSET Int
          /\ status \in {"walking", "reading", "done"} /\ shaken \in BOOLEAN
      BY <1>9
    <2> QED
      BY <1>8, <2>1, <2>2 DEF NumbersOK
  <1> QED
    BY <1>10, <1>11

LEMMA NumbersAlways == WalkSpec => []NumbersOK /\ []PartsInOrder
  <1>1. WalkInit => NumbersOK /\ PartsInOrder
    BY NumbersFirst
  <1>2. NumbersOK /\ PartsInOrder /\ [WalkNext]_walkvars => NumbersOK' /\ PartsInOrder'
    <2> SUFFICES ASSUME NumbersOK, PartsInOrder, [WalkNext]_walkvars
                 PROVE  NumbersOK' /\ PartsInOrder'
      OBVIOUS
    <2>1. CASE Gather
      BY <2>1 DEF Gather, NumbersOK, PartsInOrder, first
    <2>2. CASE ReadPart
      <3>1. unread \in Nat \ {0}
        BY <2>2 DEF ReadPart, NumbersOK
      <3>2. matched' \in SUBSET Int
        BY <2>2, <3>1, LinesAreNumbers DEF ReadPart, NumbersOK
      <3> QED
        BY <2>2, <3>2 DEF ReadPart, NumbersOK, PartsInOrder, first
    <2>3. CASE PrintPage
      <3>1. matched \cup PartLines(1) \in SUBSET Int
        <4>1. PartLines(1) \in SUBSET Int
          BY LinesAreNumbers
        <4> QED
          BY <4>1 DEF NumbersOK
      <3>2. page' \in SUBSET Int
        BY <2>3, <3>1 DEF PrintPage, Page
      <3>3. limit \in Nat
        BY PagingAssumption DEF NumbersOK
      <3>4. offset' \in Nat /\ from' =< offset'
        BY <2>3, <3>3 DEF PrintPage, NumbersOK
      <3>5. walked' \in SUBSET Int /\ matched' = {} /\ unread' = 0
            /\ status' \in {"walking", "done"}
        BY <2>3, <3>2 DEF PrintPage, NumbersOK
      <3>6. UNCHANGED <<starts, last, tail, limit, from, shaken>>
        BY <2>3 DEF PrintPage
      <3> QED
        BY <3>4, <3>5, <3>6 DEF NumbersOK, PartsInOrder, first
    <2>4. CASE EmitLine
      <3>1. last' = last + 1 /\ last' =< MaxLines
        BY <2>4, PagingAssumption DEF EmitLine, NumbersOK
      <3>2. \A i \in 1..Len(starts) : starts[i] =< last' + 1
        BY <3>1 DEF NumbersOK, PartsInOrder
      <3>3. first' = first /\ first =< last' + 1
        BY <2>4, <3>1 DEF EmitLine, NumbersOK, first
      <3>4. UNCHANGED <<starts, tail, limit, from, offset, walked, matched, status, unread, shaken>>
        BY <2>4 DEF EmitLine
      <3> QED
        BY <3>1, <3>2, <3>3, <3>4 DEF NumbersOK, PartsInOrder
    <2>5. CASE RotateParts
      <3>1. PICK n \in 0..Len(starts) : starts' = <<last + 1>> \o SubSeq(starts, 1, n)
        BY <2>5 DEF RotateParts
      <3>2. UNCHANGED <<last, tail, limit, from, offset, walked, matched, status, unread>>
            /\ shaken' \in BOOLEAN
        BY <2>5 DEF RotateParts, NumbersOK
      <3>3. /\ starts' \in Seq(Nat \ {0}) /\ Len(starts') >= 1
            /\ \A i \in 1..Len(starts') : starts'[i] =< last + 1
            /\ \A i, j \in 1..Len(starts') : i =< j => starts'[j] =< starts'[i]
            /\ first' \in Nat \ {0} /\ first' =< last + 1
        BY <3>1, <3>2, RotatedInOrder
      <3> QED
        BY <3>2, <3>3 DEF NumbersOK, PartsInOrder
    <2>6. CASE UNCHANGED walkvars
      BY <2>6 DEF walkvars, NumbersOK, PartsInOrder, first
    <2> QED
      BY <2>1, <2>2, <2>3, <2>4, <2>5, <2>6 DEF WalkNext
  <1>3. QED
    BY <1>1, <1>2, PTL DEF WalkSpec

-----------------------------------------------------------------------------
(* What a command has read.                                                *)

\* Unless the files moved, it has read all lines before the next file's.
ReadSoFar ==
    status = "reading" /\ ~ shaken =>
        /\ unread \in 1..Len(starts)
        /\ first =< starts[unread] /\ matched = first..(starts[unread] - 1)

LEMMA MatchedStartsEmpty == (status # "reading" => matched = {})
    /\ [WalkNext]_walkvars => (status' # "reading" => matched' = {})
  BY DEF WalkNext, Gather, ReadPart, PrintPage, EmitLine, RotateParts, walkvars

LEMMA ReadingStep ==
    ASSUME NumbersOK, PartsInOrder, status # "reading" => matched = {}, ReadSoFar, [WalkNext]_walkvars
    PROVE  ReadSoFar'
  <1>1. CASE Gather
    <2>1. /\ unread' = Len(starts) /\ starts' = starts /\ matched' = {}
          /\ Len(starts) \in 1..Len(starts)
      BY <1>1 DEF Gather, NumbersOK, PartsInOrder
    <2>2. first' = starts[Len(starts)] /\ first' \in Nat
      BY <2>1 DEF NumbersOK, first
    <2>3. first'..(starts[Len(starts)] - 1) = {}
      BY <2>2
    <2> QED
      BY <2>1, <2>2, <2>3 DEF ReadSoFar
  <1>2. CASE ReadPart
    <2> SUFFICES ASSUME ~ shaken
                 PROVE  /\ unread' \in 1..Len(starts) /\ first =< starts[unread']
                        /\ matched' = first..(starts[unread'] - 1)
      BY <1>2 DEF ReadPart, ReadSoFar, first
    <2>1. /\ unread \in 2..Len(starts) /\ unread' = unread - 1
          /\ first =< starts[unread] /\ matched = first..(starts[unread] - 1)
      BY <1>2 DEF ReadPart, ReadSoFar, PartsInOrder
    <2>2. /\ starts[unread] =< starts[unread - 1]
          /\ starts[unread] \in Nat /\ starts[unread - 1] \in Nat /\ first \in Nat
      <3>1. unread \in 1..Len(starts) /\ unread - 1 \in 1..Len(starts) /\ unread - 1 =< unread
        BY <2>1
      <3>2. \A i \in 1..Len(starts) : starts[i] \in Nat
        BY DEF PartsInOrder
      <3>3. starts[unread] =< starts[unread - 1]
        BY <3>1 DEF PartsInOrder
      <3> QED
        BY <3>1, <3>2, <3>3 DEF NumbersOK
    <2>3. matched' = (first..(starts[unread] - 1)) \cup (starts[unread]..(starts[unread - 1] - 1))
      BY <1>2, <2>1 DEF ReadPart, PartLines
    <2>4. matched' = first..(starts[unread - 1] - 1)
      BY <2>1, <2>2, <2>3
    <2> QED
      BY <2>1, <2>2, <2>4
  <1>3. CASE PrintPage
    BY <1>3 DEF PrintPage, ReadSoFar
  <1>4. CASE EmitLine
    BY <1>4 DEF EmitLine, ReadSoFar, first
  <1>5. CASE RotateParts
    BY <1>5 DEF RotateParts, ReadSoFar
  <1>6. CASE UNCHANGED walkvars
    BY <1>6 DEF walkvars, ReadSoFar, first
  <1> QED
    BY <1>1, <1>2, <1>3, <1>4, <1>5, <1>6 DEF WalkNext

LEMMA ReadAlways == WalkSpec => []ReadSoFar
  <1> DEFINE Empty == status # "reading" => matched = {}
  <1>1. WalkInit => Empty /\ ReadSoFar
    BY DEF WalkInit, ReadSoFar
  <1>2. Empty /\ [WalkNext]_walkvars => Empty'
    BY MatchedStartsEmpty
  <1>3. NumbersOK /\ PartsInOrder /\ Empty /\ ReadSoFar /\ [WalkNext]_walkvars => ReadSoFar'
    BY ReadingStep
  <1> HIDE DEF Empty
  <1> QED
    BY <1>1, <1>2, <1>3, NumbersAlways, PTL DEF WalkSpec

\* In a row of lines, those with lo to hi - 1 older ones.
LEMMA PageOfRow ==
    ASSUME NEW f \in Nat, NEW l \in Nat, NEW lo \in Nat, NEW hi \in Int, hi =< l - f + 1
    PROVE  Page(f..l, lo, hi) = (f + lo)..(f + hi - 1)
  <1>1. ASSUME NEW x \in f..l
        PROVE  Cardinality({y \in f..l : y < x}) = x - f
    <2>1. {y \in f..l : y < x} = f..(x - 1)
      BY <1>1
    <2>2. Cardinality(f..(x - 1)) = IF f > x - 1 THEN 0 ELSE (x - 1) - f + 1
      BY <1>1, FS_Interval
    <2>3. Cardinality(f..(x - 1)) = x - f
      BY <1>1, <2>2
    <2> QED
      BY <2>1, <2>3
  <1>2. Page(f..l, lo, hi) = {x \in f..l : x - f \in lo..(hi - 1)}
    BY <1>1 DEF Page
  <1>3. {x \in f..l : x - f \in lo..(hi - 1)} \subseteq (f + lo)..(f + hi - 1)
    OBVIOUS
  <1>4. ASSUME NEW x \in (f + lo)..(f + hi - 1)
        PROVE  x \in f..l /\ x - f \in lo..(hi - 1)
    BY <1>4
  <1> QED
    BY <1>2, <1>3, <1>4

\* What is printed when the files have not moved while they were read.
LEMMA PrintedIs ==
    ASSUME NumbersOK, PartsInOrder, ReadSoFar, PrintPage, ~ shaken
    PROVE  page' = (Begin + PageFrom)..(Begin + PageTo - 1)
  <1>1. /\ matched = first..(starts[1] - 1) /\ PartLines(1) = starts[1]..last
        /\ first =< starts[1] /\ starts[1] =< last + 1
        /\ starts[1] \in Nat /\ first \in Nat /\ last \in Nat
    BY DEF PrintPage, ReadSoFar, PartLines, NumbersOK, PartsInOrder
  <1>2. matched \cup PartLines(1) = first..last
    BY <1>1
  <1>3. Cardinality(first..last) = Matched
    <2>1. Cardinality(first..last) = IF first > last THEN 0 ELSE last - first + 1
      BY <1>1, FS_Interval
    <2> QED
      BY <1>1, <2>1 DEF Matched
  <1>4. page' = Page(first..last, Skipped + PageFrom, Skipped + PageTo)
    BY <1>2, <1>3 DEF PrintPage, Skipped, PageFrom, PageTo
  <1>5. /\ Skipped \in Nat /\ PageFrom \in Nat /\ PageTo \in Nat /\ PageTo =< Kept
        /\ Kept \in Nat /\ Begin + Kept = last + 1 /\ Begin = first + Skipped
    BY Bounds DEF Begin
  <1>6. Skipped + PageFrom \in Nat /\ Skipped + PageTo \in Int
        /\ Skipped + PageTo =< last - first + 1
    BY <1>1, <1>5
  <1>7. page' = (first + (Skipped + PageFrom))..(first + (Skipped + PageTo) - 1)
    BY <1>1, <1>4, <1>6, PageOfRow
  <1> QED
    BY <1>1, <1>5, <1>7

-----------------------------------------------------------------------------
(* No line comes twice.                                                    *)

\* The place where a tail of t begins, of the lines f to l, goes only forward.
TailStart(f, l, t) == IF t > 0 /\ l - f + 1 > t THEN l + 1 - t ELSE f

LEMMA TailGoesForward ==
    ASSUME NEW f \in Nat, NEW l \in Nat, NEW t \in Nat,
           NEW f2 \in Nat, NEW l2 \in Nat, f2 >= f, l2 >= l
    PROVE  TailStart(f2, l2, t) >= TailStart(f, l, t) /\ TailStart(f, l, t) \in Int
  BY DEF TailStart

LEMMA BeginIsTailStart ==
    first \in Int /\ last \in Int /\ tail \in Int => Begin = TailStart(first, last, tail)
  BY DEF Begin, Skipped, Start, Matched, TailStart

\* While the walk goes on, what it has printed lies before its next page.
PrintedBefore ==
    status # "done" /\ ~ shaken => \A y \in walked : y < Begin + offset /\ y =< last

LEMMA PrintedStep ==
    NumbersOK /\ PartsInOrder /\ ReadSoFar /\ PrintedBefore /\ [WalkNext]_walkvars => PrintedBefore'
  <1> SUFFICES ASSUME NumbersOK, PartsInOrder, ReadSoFar, PrintedBefore, [WalkNext]_walkvars,
                      status' # "done", ~ shaken', NEW y \in walked'
               PROVE  y < (Begin + offset)' /\ y =< last'
    BY DEF PrintedBefore
  <1>1. CASE PrintPage
    <2>1. /\ status = "reading" /\ ~ shaken /\ limit > 0 /\ offset' = offset + limit
          /\ last' = last /\ limit \in Nat /\ offset \in Nat /\ last \in Nat
      BY <1>1, PagingAssumption DEF PrintPage, NumbersOK
    <2>2. Begin' = Begin
      BY <1>1 DEF PrintPage, Begin, Skipped, Start, Matched, first
    <2>3. CASE y \in walked
      BY <2>1, <2>2, <2>3, Bounds DEF PrintedBefore, NumbersOK
    <2>4. CASE y \in (Begin + PageFrom)..(Begin + PageTo - 1)
      <3>1. y =< Begin + PageTo - 1 /\ PageTo =< offset + limit /\ PageTo =< Kept
        BY <2>1, <2>4, Bounds
      <3>2. QED
        BY <2>1, <2>2, <2>4, <3>1, Bounds
    <2>5. QED
      BY <1>1, <2>1, <2>3, <2>4, PrintedIs DEF PrintPage
  <1>2. CASE Gather \/ ReadPart \/ EmitLine \/ RotateParts
    <2>1. /\ status # "done" /\ ~ shaken /\ walked' = walked /\ offset' = offset /\ tail' = tail
          /\ tail \in Nat /\ first \in Nat /\ last \in Nat /\ offset \in Nat
      BY <1>2 DEF Gather, ReadPart, EmitLine, RotateParts, NumbersOK
    <2>2. first' \in Nat /\ last' \in Nat /\ first' >= first /\ last' >= last
      <3>1. CASE Gather \/ ReadPart \/ EmitLine
        BY <2>1, <3>1 DEF Gather, ReadPart, EmitLine, first
      <3>2. CASE RotateParts
        <4>1. PICK n \in 0..Len(starts) : starts' = <<last + 1>> \o SubSeq(starts, 1, n)
          BY <3>2 DEF RotateParts
        <4>2. UNCHANGED last
          BY <3>2 DEF RotateParts
        <4>3. first' \in Nat \ {0} /\ first =< first'
          BY <4>1, <4>2, RotatedInOrder
        <4> QED
          BY <2>1, <4>2, <4>3
      <3> QED
        BY <1>2, <3>1, <3>2
    <2>3. Begin' = TailStart(first', last', tail')
      <3>1. first' \in Int /\ last' \in Int /\ tail' \in Int
        BY <2>1, <2>2
      <3>2. (first \in Int /\ last \in Int /\ tail \in Int
               => Begin = TailStart(first, last, tail))'
        BY BeginIsTailStart, PTL
      <3>3. QED
        BY <3>1, <3>2
    <2>4. Begin = TailStart(first, last, tail)
      BY <2>1, BeginIsTailStart
    <2>5. TailStart(first', last', tail) >= TailStart(first, last, tail)
      BY <2>1, <2>2, TailGoesForward
    <2>6. Begin' >= Begin /\ Begin \in Int /\ Begin' \in Int
      BY <2>1, <2>2, <2>3, <2>4, <2>5, TailGoesForward
    <2>7. y \in Int /\ y < Begin + offset /\ y =< last
      BY <2>1 DEF PrintedBefore, NumbersOK
    <2>8. y < Begin' + offset' /\ y =< last'
      <3>1. y < Begin' + offset
        <4>1. \A b, c \in Int : y < b + offset /\ c >= b => y < c + offset
          BY <2>1, <2>7
        <4>2. QED
          BY <2>6, <2>7, <4>1
      <3>2. offset' = offset /\ y =< last'
        BY <2>1, <2>2, <2>7
      <3>3. QED
        BY <3>1, <3>2
    <2>9. (Begin + offset)' = Begin' + offset'
      OBVIOUS
    <2>10. QED
      BY <2>8, <2>9
  <1>3. CASE UNCHANGED walkvars
    BY <1>3 DEF walkvars, PrintedBefore, Begin, Skipped, Start, Matched, first
  <1>4. QED
    BY <1>1, <1>2, <1>3 DEF WalkNext

\* As long as no file moves while a command reads, a walk prints no line twice
\* and goes forward: for all options, even where the sum of offset and limit
\* wraps, whatever is emitted and whatever is rotated or cleared in between.
THEOREM NoLineTwice == WalkSpec => PagesGoForward
  <1>1. WalkInit => PrintedBefore
    BY DEF WalkInit, PrintedBefore
  <1>2. NumbersOK /\ PartsInOrder /\ ReadSoFar /\ PrintedBefore /\ [WalkNext]_walkvars
        => [PrintPage /\ ~ shaken => \A x \in page' : \A y \in walked : y < x]_walkvars
    <2> SUFFICES ASSUME NumbersOK, PartsInOrder, ReadSoFar, PrintedBefore, PrintPage, ~ shaken,
                        NEW x \in page', NEW y \in walked
                 PROVE  y < x
      BY DEF WalkNext
    <2>1. status = "reading" /\ x \in (Begin + PageFrom)..(Begin + PageTo - 1)
      BY PrintedIs DEF PrintPage
    <2>2. y < Begin + offset /\ y =< last /\ y \in Int
      BY <2>1 DEF PrintedBefore, NumbersOK
    <2>3. PageFrom = offset \/ PageFrom = Kept
      BY DEF PageFrom, PageStart, Kept
    <2>4. y < Begin + PageFrom
      BY <2>2, <2>3, Bounds DEF NumbersOK
    <2>5. QED
      BY <2>1, <2>2, <2>4, Bounds
  <1>3. QED
    BY <1>1, <1>2, PrintedStep, NumbersAlways, ReadAlways, PTL DEF WalkSpec, PagesGoForward

-----------------------------------------------------------------------------
(* None is left out.                                                       *)

\* The same with the places that PrintPage computes.
PagesMeet ==
    undisturbed =>
        /\ ~ shaken
        /\ walked = (Begin + from)..(IF status # "done" THEN Begin + PageFrom - 1 ELSE last)

LEMMA MeetIsCover == NumbersOK /\ PagesMeet => PagesCover
  <1> SUFFICES ASSUME NumbersOK, PagesMeet, undisturbed
               PROVE  PagesCover
    BY DEF PagesCover
  <1>1. Begin = TailBegin /\ Begin + Kept = last + 1
    <2>1. /\ tail \in Nat /\ first \in Nat /\ last \in Nat
          /\ Begin = TailStart(first, last, tail) /\ Begin + Kept = last + 1
      BY Bounds, BeginIsTailStart DEF NumbersOK
    <2>2. CASE tail > 0 /\ last - tail + 1 > first
      BY <2>1, <2>2 DEF TailBegin, TailStart
    <2>3. CASE ~(tail > 0 /\ last - tail + 1 > first)
      BY <2>1, <2>3 DEF TailBegin, TailStart
    <2>4. QED
      BY <2>1, <2>2, <2>3
  <1>2. walked = (Begin + from)..(IF status # "done" THEN Begin + PageFrom - 1 ELSE last)
    BY DEF PagesMeet
  <1>3. CASE status # "done"
    <2>1. CASE Begin + offset =< last
      <3>1. PageFrom = offset
        <4>1. Begin \in Int /\ Kept \in Int /\ offset \in Int /\ last \in Int
          BY Bounds DEF NumbersOK
        <4>2. ~ (offset > Kept)
          BY <1>1, <2>1, <4>1
        <4> QED
          BY <4>2 DEF PageFrom, PageStart, Kept
      <3>2. walked = (TailBegin + from)..(TailBegin + offset - 1)
        BY <1>1, <1>2, <1>3, <3>1
      <3>3. TailBegin + offset =< last
        BY <1>1, <2>1
      <3>4. TailBegin \in Int /\ offset \in Int /\ last \in Int
        BY <1>1, Bounds DEF NumbersOK
      <3>5. QED
        BY <1>3, <3>2, <3>3, <3>4 DEF PagesCover
    <2>2. CASE ~(Begin + offset =< last)
      <3>1. Begin + PageFrom - 1 = last
        <4>1. Begin \in Int /\ Kept \in Int /\ offset \in Int /\ last \in Int
          BY Bounds DEF NumbersOK
        <4>2. offset >= Kept
          BY <1>1, <2>2, <4>1
        <4>3. PageFrom = Kept
          BY <4>1, <4>2 DEF PageFrom, PageStart, Kept
        <4> QED
          BY <1>1, <4>1, <4>3
      <3>2. QED
        BY <1>1, <1>2, <1>3, <2>2, <3>1 DEF PagesCover
    <2>3. QED
      BY <2>1, <2>2
  <1>4. CASE status = "done"
    BY <1>1, <1>2, <1>4 DEF PagesCover
  <1>5. QED
    BY <1>3, <1>4

LEMMA MeetStep ==
    ASSUME \A l \in Limits : MaxLines + l < SizeWidth,
           NumbersOK, PartsInOrder, ReadSoFar, PagesMeet, [WalkNext]_walkvars
    PROVE  PagesMeet'
  <1>1. CASE PrintPage
    <2>1. SUFFICES ASSUME undisturbed
                   PROVE  walked' = (Begin + from)..
                                    (IF status' # "done" THEN Begin + PageFrom' - 1 ELSE last)
      BY <1>1 DEF PrintPage, PagesMeet, Begin, Skipped, Start, Matched, first
    <2>2. status = "reading" /\ ~ shaken /\ walked = (Begin + from)..(Begin + PageFrom - 1)
      BY <1>1, <2>1 DEF PrintPage, PagesMeet
    <2>3. page' = (Begin + PageFrom)..(Begin + PageTo - 1) /\ walked' = walked \cup page'
      BY <1>1, <2>2, PrintedIs DEF PrintPage
    <2>4. /\ limit \in Nat /\ offset \in Nat /\ from \in Nat /\ last \in Nat
          /\ Kept =< MaxLines /\ MaxLines + limit < SizeWidth /\ SizeWidth \in Nat
          /\ MaxLines \in Nat
      BY PagingAssumption DEF NumbersOK, Kept, Sliced, Skipped, Start, Matched
    <2>5. (PageFrom + limit) % SizeWidth = PageFrom + limit
      BY <2>4, Bounds, Remainder
    <2>6. PageTo = IF limit > 0 /\ PageFrom + limit < Kept THEN PageFrom + limit ELSE Kept
      BY <2>5 DEF PageTo, PageEnd, PageFrom, Kept
    <2>7. PageFrom =< PageTo
      BY <2>4, <2>6, Bounds
    <2>8. PageFrom' = IF offset + limit > Kept THEN Kept ELSE offset + limit
      BY <1>1 DEF PrintPage, PageFrom, PageStart, Kept, Sliced, Skipped, Start, Matched, first
    <2>9. PageFrom = IF offset > Kept THEN Kept ELSE offset
      BY DEF PageFrom, PageStart, Kept
    <2>10. CASE PageTo = PageFrom
      <3>1. PageFrom = Kept /\ Begin + Kept - 1 = last
        BY <2>4, <2>6, <2>10, Bounds
      <3>2. page' = {}
        BY <2>3, <2>10, Bounds
      <3>3. status' = "done"
        BY <1>1, <3>2 DEF PrintPage
      <3>4. QED
        BY <2>2, <2>3, <3>1, <3>2, <3>3
    <2>11. CASE PageTo > PageFrom
      <3>1. PageFrom = offset /\ from =< offset
        BY <2>4, <2>9, <2>11, Bounds DEF NumbersOK
      <3>2. walked' = (Begin + from)..(Begin + PageTo - 1)
        BY <2>2, <2>3, <2>4, <2>11, <3>1, Bounds
      <3>3. CASE limit > 0
        <4>1. PageTo = PageFrom'
          BY <2>4, <2>6, <2>8, <3>1, <3>3, Bounds
        <4>2. Begin + PageFrom \in page'
          BY <2>3, <2>11, Bounds
        <4>3. status' = "walking"
          BY <1>1, <3>3, <4>2 DEF PrintPage
        <4>4. QED
          BY <3>2, <4>1, <4>3
      <3>4. CASE limit = 0
        <4>1. status' = "done"
          BY <1>1, <3>4 DEF PrintPage
        <4>2. PageTo = Kept
          BY <2>6, <3>4
        <4>3. Begin + PageTo - 1 = last
          BY <2>4, <4>2, Bounds
        <4>4. QED
          BY <3>2, <4>1, <4>3
      <3>5. QED
        BY <2>4, <3>3, <3>4
    <2>12. QED
      BY <2>4, <2>7, <2>10, <2>11, Bounds
  <1>2. CASE EmitLine \/ RotateParts
    BY <1>2 DEF EmitLine, RotateParts, PagesMeet
  <1>4. CASE Gather \/ ReadPart
    BY <1>4 DEF Gather, ReadPart, PagesMeet, Begin, PageFrom, PageStart, Kept, Sliced,
                Skipped, Start, Matched, first
  <1>3. CASE UNCHANGED walkvars
    BY <1>3 DEF walkvars, PagesMeet, Begin, PageFrom, PageStart, Kept, Sliced,
                   Skipped, Start, Matched, first
  <1>5. QED
    BY <1>1, <1>2, <1>3, <1>4 DEF WalkNext

\* An undisturbed walk prints every line of the tail from its first offset on,
\* for all limits that the number of lines cannot carry over the width.
THEOREM NoLineLeftOut ==
    ASSUME \A l \in Limits : MaxLines + l < SizeWidth
    PROVE  WalkSpec => []PagesCover
  <1>1. WalkInit => PagesMeet
    <2> SUFFICES ASSUME WalkInit PROVE PagesMeet
      OBVIOUS
    <2>1. NumbersOK /\ walked = {} /\ status = "walking" /\ offset = from /\ ~ shaken
      BY NumbersFirst DEF WalkInit
    <2>2. (Begin + from)..(Begin + PageFrom - 1) = {}
      BY <2>1, Bounds DEF NumbersOK
    <2>3. QED
      BY <2>1, <2>2 DEF PagesMeet
  <1>2. NumbersOK /\ PartsInOrder /\ ReadSoFar /\ PagesMeet /\ [WalkNext]_walkvars => PagesMeet'
    BY MeetStep
  <1>3. QED
    BY <1>1, <1>2, NumbersAlways, ReadAlways, MeetIsCover, PTL DEF WalkSpec
=============================================================================
