----------------------------- MODULE ExecLayout -----------------------------
(***************************************************************************)
(* The address-space layout kexec (kernel/exec.c) records for a program,   *)
(* shared by both paging variants, and the abstract page contents the      *)
(* models use.  Addresses are page numbers (va / PGSIZE).                  *)
(*                                                                         *)
(* The program has one executable PT_LOAD segment at address 0 and at most *)
(* one data segment right after it; kexec rounds the end of the program up *)
(* to a page (sz), leaves one guard page, and puts USERSTACK stack pages   *)
(* below stack_top; p->sz is set to stack_top.                             *)
(***************************************************************************)
EXTENDS Naturals

CONSTANTS
    TEXT_PAGES,  \* pages of the executable (PF_X) segment
    DATA_PAGES,  \* pages of the data segment; 0 = the program has none
    USERSTACK    \* stack pages below stack_top (param.h)

ASSUME TEXT_PAGES \in Nat \ {0} /\ DATA_PAGES \in Nat /\ USERSTACK \in Nat \ {0}

(***************************************************************************)
(* Page contents, told apart only as far as the properties need.           *)
(***************************************************************************)
Zero       == <<"zero", 0>>      \* a zero-filled page
Image(v)   == <<"image", v>>     \* page v of the program as the ELF file gives it
Argv       == <<"argv", 0>>      \* the argument strings exec copies to the stack
Written(x) == <<"user", x>>      \* a page the user last stored x into
Junk       == <<"junk", 0>>      \* what kfree leaves in a frame

(***************************************************************************)
(* The layout.  text_start/text_end and data_start/data_end are the min    *)
(* and max over the segments of each kind, starting from the sentinels     *)
(* 0xFFFF... and 0; with no data segment they stay at those sentinels.     *)
(***************************************************************************)
text_start == 0
text_end   == TEXT_PAGES
prog_end   == TEXT_PAGES + DATA_PAGES              \* PGROUNDUP(sz)
data_start == IF DATA_PAGES = 0 THEN prog_end + USERSTACK + 2 ELSE TEXT_PAGES
data_end   == IF DATA_PAGES = 0 THEN 0 ELSE prog_end
heap_start == data_end                             \* PGROUNDUP(data_end)
stack_top  == prog_end + USERSTACK + 1             \* also p->sz
stackbase  == stack_top - USERSTACK
VPN        == 0..stack_top   \* every page below p->sz, and the first above it

InText(v)  == v >= text_start /\ v < text_end
InData(v)  == v >= data_start /\ v < data_end
SegPages   == 0..(prog_end - 1)                    \* pages kexec registers

\* What the process's memory holds when kexec returns.
ExecMem == [v \in VPN |-> IF v = stackbase THEN Argv
                          ELSE IF v \in SegPages THEN Image(v) ELSE Zero]
=============================================================================
