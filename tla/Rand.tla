-------------------------------- MODULE Rand --------------------------------
(***************************************************************************)
(* rand and srand of lib.c, with the low WIDTH bits of rand_seed: the low  *)
(* bits of a product and of a sum depend on the low bits only, so these    *)
(* are the bits the 32-bit generator goes through, and the RAND_MAX mask   *)
(* keeps them.  Every program draws once in each turn of its loop and goes *)
(* on when the draw is below a bound, so a generator that stayed in part   *)
(* of its range could leave a program waiting forever.                     *)
(***************************************************************************)
EXTENDS Integers, Sequences

CONSTANT WIDTH      \* bits of rand_seed: 32

VARIABLES rand_seed_set, rand_seed,
          drawn     \* what rand returned since srand, in the last round

vars == <<rand_seed_set, rand_seed, drawn>>

MOD == 2 ^ WIDTH
RAND_MAX == MOD - 1

Init == rand_seed_set = FALSE /\ rand_seed = 0 /\ drawn = <<>>

\* A program seeds the generator with its process id before it draws.
srand ==
    /\ ~rand_seed_set
    /\ rand_seed' \in 0 .. RAND_MAX
    /\ rand_seed_set' = TRUE
    /\ UNCHANGED drawn

step_even_increment(seed) == (seed * 1664525 + 1013904222) % MOD
step(seed) == (seed * 1664525 + 1013904223) % MOD

\* A round is MOD draws.
rand ==
    /\ rand_seed' = step(IF rand_seed_set THEN rand_seed ELSE 819234718 % MOD)
    /\ rand_seed_set' = TRUE
    /\ drawn' = IF Len(drawn) = MOD THEN <<rand_seed'>>
                ELSE Append(drawn, rand_seed')

Next == srand \/ rand
Spec == Init /\ [][Next]_vars

(* Whatever the seed, MOD draws in a row return every value: a loop that   *)
(* waits for a small draw goes on after a bounded number of turns.         *)
EveryDraw ==
    Len(drawn) = MOD => {drawn[k] : k \in 1 .. MOD} = 0 .. RAND_MAX
=============================================================================
