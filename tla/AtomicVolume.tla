---------------------------- MODULE AtomicVolume ----------------------------
(***************************************************************************)
(* What D64ImageEditor promises: a volume of named files on which adding,  *)
(* deleting and renaming a file each happen at once or not at all, and     *)
(* touch no other file.                                                    *)
(***************************************************************************)
CONSTANTS
    Places,    \* directory slots
    Targets,   \* the names callers use
    Stored,    \* [Targets -> names]: the name a file so called ends up with
    Hosts,     \* host files
    DataOf,    \* [Hosts -> data]
    Vacant     \* a slot without a file

VARIABLE volume

Init == TRUE

Holders(name) ==
    {d \in Places : volume[d] # Vacant /\ volume[d].name = name}

AddFile(name, h) ==
    /\ Holders(name) = {}
    /\ \E d \in Places :
          /\ volume[d] = Vacant
          /\ volume' = [volume EXCEPT
                          ![d] = [name |-> Stored[name], data |-> DataOf[h]]]

DeleteFile(name) ==
    \E d \in Holders(name) : volume' = [volume EXCEPT ![d] = Vacant]

RenameFile(old, new) ==
    /\ old # new => Holders(new) = {}
    /\ \E d \in Holders(old) :
          volume' = [volume EXCEPT ![d].name = Stored[new]]

\* Asking first whether the volume changes at all only saves evaluation.
Next ==
    /\ volume' # volume
    /\ \E name \in Targets :
        \/ \E h \in Hosts : AddFile(name, h)
        \/ DeleteFile(name)
        \/ \E new \in Targets : RenameFile(name, new)

Spec == Init /\ [][Next]_volume
=============================================================================
