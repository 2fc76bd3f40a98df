--------------------------- MODULE ExtractCommand ---------------------------
(***************************************************************************)
(* extract: one session on an image, and one file of the host for each     *)
(* file of its catalog, in order, written over what is there.  A file that *)
(* cannot be read or written is passed over and told by the exit code.     *)
(*                                                                         *)
(* A spelling stands for the windows name of a file and for the name it is *)
(* given on the host: FileNames shows that they agree.                     *)
(***************************************************************************)
EXTENDS ImageSession

CONSTANTS
    Disks,     \* the images that may be extracted
    Caches,    \* the <<sectorCap, fileCap, maxItem>> a session may have
    Absent,    \* no file on the host
    Half,      \* a file whose writing failed on the way
    Faults     \* which of "mkdir", "open", "write", "flush" the host meets

ASSUME ExtractAssumption ==
    /\ \A d \in Disks \ {Unusable} : IsImage(d)
    /\ Caches \subseteq Nat \X Nat \X Nat
    /\ Faults \subseteq {"mkdir", "open", "write", "flush"}

VARIABLES
    image,     \* the image
    session,   \* the session
    past,      \* how many files of the catalog the loop is past
    host,      \* the output directory
    exit,      \* the exit code so far
    stage,     \* "extracting" or "done"
    refused    \* history: the files the host refused

extractvars == <<image, session, past, host, exit, stage, refused>>

\* The session is opened, on any image and with any cache size, and the
\* output directory is made; where one fails the command ends with code 1.
ExtractInit ==
    /\ image \in Disks
    /\ \E c \in Caches, mkdirFails \in {FALSE, "mkdir" \in Faults} :
          LET opened == Open(NewSession(c[1], c[2], c[3]), "image", image)
              ready == opened.ok /\ ~ mkdirFails
          IN  /\ session = opened.ses
              /\ exit = IF ready THEN 0 ELSE 1
              /\ stage = IF ready THEN "extracting" ELSE "done"
    /\ past = 0
    /\ host = [s \in Spellings |-> Absent]
    /\ refused = {}

\* What becomes of a file on the host.  Short contents stay in the stream's
\* buffer until its destructor, which tells nobody whether it could write them.
Write(f, data) ==
    \/ /\ host' = [host EXCEPT ![f.name] = data]
       /\ UNCHANGED <<exit, refused>>
    \/ /\ "open" \in Faults
       /\ exit' = 2 /\ refused' = refused \cup {f}
       /\ UNCHANGED host
    \/ /\ "write" \in Faults
       /\ host' = [host EXCEPT ![f.name] = Half]
       /\ exit' = 2 /\ refused' = refused \cup {f}
    \/ /\ "flush" \in Faults
       /\ host' = [host EXCEPT ![f.name] = Half]
       /\ refused' = refused \cup {f}
       /\ UNCHANGED exit

\* Mutant: an unreadable file ends the loop.
NextAfterGivingUp(r) == IF r.status = "success" THEN past + 1 ELSE Len(session.catalog)

NextAfter(r) == past + 1

\* One turn of the loop.
ExtractFile ==
    /\ stage = "extracting"
    /\ past < Len(session.catalog)
    /\ LET f == session.catalog[past + 1]
           r == ReadFileByCatalogFile(session, image, f)
       IN  /\ session' = r.ses
           /\ past' = NextAfter(r)
           /\ \/ r.status = "success" /\ Write(f, r.data)
              \/ r.status # "success" /\ exit' = 2 /\ UNCHANGED <<host, refused>>
    /\ UNCHANGED <<image, stage>>

Finish ==
    /\ stage = "extracting"
    /\ past = Len(session.catalog)
    /\ stage' = "done"
    /\ UNCHANGED <<image, session, past, host, exit, refused>>

ExtractNext == ExtractFile \/ Finish

ExtractSpec == ExtractInit /\ [][ExtractNext]_extractvars

-----------------------------------------------------------------------------
Listed == {image["dir"][i] : i \in DOMAIN image["dir"]}
Namesakes(f) == {g \in Listed : g.name = f.name}

\* Exit code 0 means that for every listed file there is one on the host that
\* holds what a file of that name holds, and nothing was left half written.
ExitCodeTells ==
    stage = "done" /\ exit = 0 =>
        \A f \in Listed :
            host[f.name] \in {Contents(image, g.start) : g \in Namesakes(f)} \ {Unreadable}

\* A file with a name of its own that can be read comes out whole, whatever
\* the other files were like and whatever the caches evicted or refused.
NoFileSpoilsAnother ==
    stage = "done" /\ exit # 1 =>
        \A f \in Listed \ refused :
            Namesakes(f) = {f} /\ Contents(image, f.start) # Unreadable
            => host[f.name] = Contents(image, f.start)

\* What can be extracted is, and exit code 0 says that all of it could be.
ExtractsWhole == ExitCodeTells /\ NoFileSpoilsAnother

\* extract writes under a name what the mounted volume reads under it ("CLI
\* (`ls`, `extract`) and WinFsp facade reuse the same domain model", README).
ExtractsAsMounted ==
    stage = "done" /\ exit = 0 =>
        \A f \in Listed :
            FindByWindowsName(image["dir"], f.name) = {f}
            => host[f.name] = Contents(image, f.start)
=============================================================================
