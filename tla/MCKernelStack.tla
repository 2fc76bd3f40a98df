---------------------------- MODULE MCKernelStack ----------------------------
(* Two images of two data sectors with different files.                     *)
EXTENDS KernelStack

MCSpellings == {"HELLO", "hello", "OTHER"}
MCUpper == [s \in MCSpellings |-> IF s = "hello" THEN "HELLO" ELSE s]

File(name, start) == [name |-> name, start |-> start]
Link(next, body) == [next |-> next, body |-> body]

Image(free, dir, a, b) ==
    [x \in Blocks |-> CASE x = "bam" -> free [] x = "dir" -> dir
                        [] x = "a" -> a [] x = "b" -> b]

First == Image(7, <<File("HELLO", "a")>>, Link("b", 1), Link(End, 2))
Second == Image(8, <<File("OTHER", "b")>>, Unreadable, Link(End, 3))

MCImages == {First, Second}
MCDefaults == <<2, 1, 1>>
=============================================================================
