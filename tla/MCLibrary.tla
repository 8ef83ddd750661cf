------------------------------ MODULE MCLibrary -----------------------------
(***************************************************************************)
(* The parts of lib.c, in one model: a behaviour is one of them, chosen at *)
(* the start, while the variables of the others keep their initial values. *)
(*                                                                         *)
(*   "console"  Console           "lib"   Lib                              *)
(*   "printf"   Printf            "rand"  Rand                             *)
(***************************************************************************)
EXTENDS Console, MCPrintf

CONSTANTS MEMORY, BYTE,     \* Lib
          WIDTH             \* Rand

VARIABLES part, mem, before, call, ret, rand_seed_set, rand_seed, drawn

Library == INSTANCE Lib
Random == INSTANCE Rand

libVars == <<mem, before, call, ret>>
randVars == <<rand_seed_set, rand_seed, drawn>>
libraryVars == <<part, vars, printfVars, libVars, randVars>>

LibIdle == Library!Init /\ \A a \in DOMAIN mem : mem[a] = 0

\* The shortest call: a buffer without room.
PrintfIdle == PrintfInit /\ in.size = 0 /\ in.args[1].s = <<>>

LibraryInit ==
    /\ part \in {"console", "printf", "lib", "rand"}
    /\ Init
    /\ Random!Init
    /\ IF part = "lib" THEN TRUE ELSE LibIdle
    /\ IF part = "printf" THEN PrintfInit ELSE PrintfIdle
    /\ IF part = "lib" THEN Library!Init ELSE TRUE

LibraryNext ==
    /\ UNCHANGED part
    /\ \/ /\ part = "console" /\ Next
          /\ UNCHANGED <<printfVars, libVars, randVars>>
       \/ /\ part = "printf" /\ PrintfNext
          /\ UNCHANGED <<vars, libVars, randVars>>
       \/ /\ part = "lib" /\ Library!Next
          /\ UNCHANGED <<vars, printfVars, randVars>>
       \/ /\ part = "rand" /\ Random!Next
          /\ UNCHANGED <<vars, printfVars, libVars>>

LibrarySpec == LibraryInit /\ [][LibraryNext]_libraryVars

-----------------------------------------------------------------------------
(* Properties.  The ones of Console and Printf are as they are there.      *)

\* The memory and string routines agree with what C says of them.
RoutinesCorrect == Library!RoutinesCorrect

\* Whatever the seed, a round of draws of rand returns every value.
EveryDraw == Random!EveryDraw
=============================================================================
