----------------------------- MODULE MCPrograms -----------------------------
(***************************************************************************)
(* The three programs in one model: a behaviour is of the program whose    *)
(* command was typed at the start.                                         *)
(***************************************************************************)
EXTENDS Programs

(* p-forkexit may fill its heap, p-allocator runs out of memory after one  *)
(* page, p-fork, whose forks are all over before it allocates, gets none.  *)
MCMemoryFor == [c \in {"allocator", "fork", "forkexit"} |->
                    CASE c = "allocator" -> 1 [] c = "fork" -> 0 [] OTHER -> 2]

Answers == command # "forkexit" /\ Kernel /\ UNCHANGED command

Progress(p) ==
    /\ \/ command = "allocator" /\ LuckyStep(p)
       \/ command = "fork" /\ Step /\ running = p
    /\ UNCHANGED command

(* The kernel answers, and a process that runs again and again is not      *)
(* always interrupted before its next step.                                *)
FairSpec == Spec /\ WF_vars(Answers) /\ \A p \in Proc : SF_vars(Progress(p))
=============================================================================
