------------------------------ MODULE FileNames ------------------------------
(***************************************************************************)
(* The name of a file, from the caller of an import to the sixteen bytes   *)
(* of a directory entry and back.  Three parts of the program spell the    *)
(* bytes out, each in a way of its own: the catalog for mounts and ls, the *)
(* extract command for files of the host, and the editor, which looks up   *)
(* what it is to delete or rename.                                         *)
(*                                                                         *)
(* A character is its code, 0..255.  A text is typed one character a step; *)
(* then it is imported, or it is what a Commodore wrote in the entry.      *)
(* Extensions are left out.                                                *)
(***************************************************************************)
EXTENDS Integers, SequencesExt

CONSTANTS
    NameBytes,  \* the bytes of a name in an entry
    Unnamed,    \* "UNNAMED"
    Typed,      \* the characters that occur
    MaxText     \* bound: characters of a text

Letters == 65..90
LowerCase == 97..122
Digits == 48..57
Space == 32
Pad == 160
Underscore == 95
\* < > : \ | ? * " /
Invalid == {60, 62, 58, 92, 124, 63, 42, 34, 47}

ASSUME NamesAssumption ==
    /\ NameBytes \in Nat \ {0} /\ MaxText \in Nat
    /\ Typed \subseteq 0..255
    /\ Unnamed \in Seq(Letters) /\ Len(Unnamed) \in 1..NameBytes

VARIABLES
    text,   \* the characters typed so far
    field,  \* the bytes of the entry's name, or <<>> while there are none
    maker   \* who wrote them: "nobody", "editor" or "commodore"

namesvars == <<text, field, maker>>

Each(Op(_), s) == [i \in DOMAIN s |-> Op(s[i])]

WithoutTrailingSpaces(s) ==
    SubSeq(s, 1, Max({0} \cup {i \in DOMAIN s : s[i] # Space}))

OrUnnamed(s) == IF s = <<>> THEN Unnamed ELSE s

FirstBytes(s) == SubSeq(s, 1, Min({Len(s), NameBytes}))

-----------------------------------------------------------------------------
(* The read side: PetsciiToUtf8, and the two functions that make a file    *)
(* name of a display name.                                                 *)

\* Mutant: the shifted letters are not mapped.
MapPetsciiUnshifted(c) ==
    CASE c \in {Space, Pad} -> Space
      [] c \in LowerCase -> c - 32
      [] c \in Letters \cup Digits \cup {45, 46, 95, 43, 44, 33, 63} \cup 193..218 -> c
      [] OTHER -> Underscore

\* Kept as they are: - . _ + , ! and ?
MapPetscii(c) ==
    CASE c \in {Space, Pad} -> Space
      [] c \in 193..218 -> c - 128
      [] c \in LowerCase -> c - 32
      [] c \in Letters \cup Digits \cup {45, 46, 95, 43, 44, 33, 63} -> c
      [] OTHER -> Underscore

PetsciiToUtf8(bytes) == WithoutTrailingSpaces(Each(MapPetscii, bytes))

\* SanitizeWindowsFilename compares unsigned characters ...
WindowsChar(c) == IF c < 32 \/ c \in Invalid THEN Underscore ELSE c
WindowsBase(bytes) == OrUnnamed(Each(WindowsChar, PetsciiToUtf8(bytes)))

\* ... and SanitizeFilename signed ones: from 128 on they are negative.
HostChar(c) == IF c < 32 \/ c > 127 \/ c \in Invalid THEN Underscore ELSE c
HostBase(bytes) == OrUnnamed(Each(HostChar, PetsciiToUtf8(bytes)))

-----------------------------------------------------------------------------
(* The editor.                                                             *)

ToUpper(s) == LET Up(c) == IF c \in LowerCase THEN c - 32 ELSE c IN Each(Up, s)

\* Letters, digits, _ - + and . are kept.
NormalChar(c) ==
    CASE c \in LowerCase -> c - 32
      [] c \in Letters \cup Digits \cup {Underscore, 45, 43, 46} -> c
      [] OTHER -> Underscore

NormalizeBaseName(s) == OrUnnamed(Each(NormalChar, s))

Padded(s) == [i \in 1..NameBytes |-> IF i =< Len(s) THEN s[i] ELSE Pad]

\* The bytes AddFile and RenameFile store.
Stored(base) == Padded(NormalizeBaseName(base))

EditorChar(c) ==
    CASE c = Pad -> Space
      [] c \in 32..126 -> c
      [] OTHER -> Underscore

\* DirectoryEntryToWindowsName.
EditorBase(bytes) ==
    NormalizeBaseName(WithoutTrailingSpaces(Each(EditorChar, bytes)))

\* FindEntryByName.
Finds(name, bytes) == ToUpper(EditorBase(bytes)) = ToUpper(name)

-----------------------------------------------------------------------------
NamesInit ==
    /\ text = <<>>
    /\ field = <<>>
    /\ maker = "nobody"

Type(c) ==
    /\ maker = "nobody"
    /\ Len(text) < MaxText
    /\ text' = Append(text, c)
    /\ UNCHANGED <<field, maker>>

\* ParseWindowsName refuses a name that begins with the full stop of its
\* extension.
Import ==
    /\ maker = "nobody"
    /\ text # <<>>
    /\ field' = Stored(text)
    /\ maker' = "editor"
    /\ UNCHANGED text

\* Another program wrote the entry.
Found ==
    /\ maker = "nobody"
    /\ Len(text) =< NameBytes
    /\ field' = Padded(text)
    /\ maker' = "commodore"
    /\ UNCHANGED text

\* The entry is renamed to the name the editor knows it by.
RenameToItself ==
    /\ maker = "commodore"
    /\ field' = Stored(EditorBase(field))
    /\ maker' = "editor"
    /\ text' = EditorBase(field)

NamesNext == (\E c \in Typed : Type(c)) \/ Import \/ Found \/ RenameToItself

NamesSpec == NamesInit /\ [][NamesNext]_namesvars

-----------------------------------------------------------------------------
\* A file whose name the editor wrote has one name for the mounted volume, for
\* extract and for the editor, which finds it under the name that is listed;
\* it is the name the caller gave, normalised and cut to the entry's length.
ImportedHasOneName ==
    maker = "editor" =>
        /\ WindowsBase(field) = FirstBytes(NormalizeBaseName(text))
        /\ HostBase(field) = WindowsBase(field)
        /\ EditorBase(field) = WindowsBase(field)
        /\ Finds(WindowsBase(field), field)

\* extract gives every file the name it has on the mounted volume, whoever
\* wrote it: the domain model is shared ("CLI (`ls`, `extract`) and WinFsp
\* facade reuse the same domain model", README), the two conversions are not.
ExtractNamesAsMounted ==
    maker # "nobody" => HostBase(field) = WindowsBase(field)

\* All three agree on the names the editor wrote, the mounted volume and
\* extract on those of a Commodore as well.  Of these the editor has a spelling
\* of its own, and ListedIsFound does not hold.
NamesAgree == ImportedHasOneName /\ ExtractNamesAsMounted

\* A file is found under the name it is listed by, to be deleted or renamed.  A
\* name with a space or an exclamation mark, which the editor would not have
\* written, is not.
ListedIsFound == maker # "nobody" => Finds(WindowsBase(field), field)
=============================================================================
