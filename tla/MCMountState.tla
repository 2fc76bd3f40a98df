---------------------------- MODULE MCMountState ----------------------------
(* One image's state is written at once, the other's in two chunks.         *)
EXTENDS MountState, TLC

CONSTANTS m, u1, u2, r   \* one process mounts, two unmount, one lists

SameUnmounters == Permutations({u1, u2})

MCImages == {"short", "long"}
MCChunks == [img \in MCImages |-> IF img = "short" THEN 1 ELSE 2]
=============================================================================
