------------------------------- MODULE Paging -------------------------------
(***************************************************************************)
(* The one page directory in use (paging_handler.c): its four entries, the *)
(* physical memory each stands for and whether programs may use it, and    *)
(* the translations the processor remembers.                               *)
(***************************************************************************)
EXTENDS Naturals

CONSTANT VideoPages   \* the page on the screen and the terminals' saved pages

(* By the address they map: 0 (page_table), 4 MB, 128 MB, 132 MB.           *)
Entries == {"low", "kernel", "image", "video"}

Frame(kind, n) == [kind |-> kind, n |-> n]
Absent == [user |-> FALSE, frames |-> {}]
ScreenFrame == Frame("video page", 0)
ImageFrame(s) == Frame("program", s)

(* The directory at boot.                                                   *)
enable_paging ==
    [e \in Entries |->
        CASE e = "low"    -> [user |-> FALSE, frames |-> {Frame("video page", i) : i \in VideoPages}]
          [] e = "kernel" -> [user |-> FALSE, frames |-> {Frame("kernel", 0)}]
          [] OTHER        -> Absent]

(* Mutant: the processor goes on using what it remembers.                   *)
KeepTranslations(tlb) == tlb

(* set_control_registers reloads cr3: no page is global, all is forgotten.  *)
set_control_registers(tlb) == {}

load_new_process(directory, s) ==
    [directory EXCEPT !["image"] = [user |-> TRUE, frames |-> {ImageFrame(s)}]]

(* Set for good: nothing takes the entry away again.                        *)
load_video_mem(directory) ==
    [directory EXCEPT !["video"] = [user |-> TRUE, frames |-> {ScreenFrame}]]

(* What a program's access through e reaches: a remembered translation      *)
(* first, else the directory.                                               *)
Reached(directory, tlb, e) ==
    LET known == {k \in tlb : k.entry = e} IN
    IF known # {} THEN {k.frame : k \in known}
    ELSE IF directory[e].user THEN directory[e].frames ELSE {}

=============================================================================
