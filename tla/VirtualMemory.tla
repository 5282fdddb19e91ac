--------------------------- MODULE VirtualMemory ---------------------------
(***************************************************************************)
(* What a process sees of its own memory, whatever the kernel does behind  *)
(* its back: every page holds a value that only the process's own stores   *)
(* change, starting from what exec gave it, until the kernel kills the     *)
(* process, after which its memory is gone.  A load returns mem[v], so a   *)
(* load is a stuttering step here.  Page faults, eviction, swapping and    *)
(* the rest of the system are invisible: the paging models refine this     *)
(* specification with every kernel step mapped to a stuttering step (laws  *)
(* L1 and L2 of the spec).                                                 *)
(***************************************************************************)
CONSTANTS
    Pages,          \* the process's virtual page numbers
    WritablePages,  \* the pages a user store may change
    StoreContents,  \* the values a user store may write
    InitMem         \* [Pages -> content] right after exec

VARIABLES
    mem,    \* mem[v]: the contents of page v
    dead    \* TRUE once the process has been killed

vars == <<mem, dead>>

Init ==
    /\ mem = InitMem
    /\ dead = FALSE

Store(v, c) ==
    /\ ~dead
    /\ v \in WritablePages
    /\ mem' = [mem EXCEPT ![v] = c]
    /\ UNCHANGED dead

\* A successful exec replaces the whole memory with the new image.
ExecImage ==
    /\ ~dead
    /\ mem' = InitMem
    /\ UNCHANGED dead

\* The process is killed; what its memory held no longer matters.
Die ==
    /\ ~dead
    /\ dead' = TRUE

\* Teardown of a dead process may do anything to its pages.
Gone ==
    /\ dead
    /\ dead' = TRUE

Next ==
    \/ \E v \in Pages, c \in StoreContents : Store(v, c)
    \/ ExecImage
    \/ Die
    \/ Gone

Spec == Init /\ [][Next]_vars
=============================================================================
