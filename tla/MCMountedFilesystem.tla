------------------------ MODULE MCMountedFilesystem ------------------------
(* Three images of two data sectors, two spellings of one name.            *)
EXTENDS MountedFilesystem

MCSpellings == {"HELLO", "hello", "OTHER"}
MCUpper == [s \in MCSpellings |-> IF s = "hello" THEN "HELLO" ELSE s]

File(name, start) == [name |-> name, start |-> start]
Link(next, body) == [next |-> next, body |-> body]

Image(free, dir, a, b) ==
    [x \in Blocks |-> CASE x = "bam" -> free [] x = "dir" -> dir
                        [] x = "a" -> a [] x = "b" -> b]

\* A file of two sectors and an empty one.
Two == Image(7, <<File("HELLO", "a"), File("OTHER", End)>>, Link("b", 1), Link(End, 2))
\* One sector, and a file that runs into a bad one.
Bad == Image(8, <<File("HELLO", "b"), File("OTHER", "a")>>, Unreadable, Link(End, 3))
\* Two files of one name, the first a loop.
Twin == Image(9, <<File("HELLO", "a"), File("HELLO", "b")>>, Link("a", 4), Link(End, 5))

MCImages == {Two, Bad, Twin}
MCDefaults == <<4, 3, 9>>
MCSettings == {<<0, 1, 1>>}
MCRanges == {<<0, 1>>, <<1, 5>>}
=============================================================================
