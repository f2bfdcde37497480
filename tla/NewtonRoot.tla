----------------------------- MODULE NewtonRoot -----------------------------
(***************************************************************************)
(* integer_sqrt as both market makers run it, one step of its loop at a    *)
(* time: on u64 in Assignment_05, where sums wrap around at the largest    *)
(* u64, and on u128, cast back to u64 in the end, in Assignment_03.        *)
(***************************************************************************)
EXTENDS FixedWidth

VARIABLES
  top,     \* the largest value of the integers the loop computes with
  n,       \* the argument
  x, y,    \* the locals of that name
  pc       \* start and loop, then done, or panicked on n / 0

root_vars == <<top, n, x, y, pc>>

\* Mutant of Average: the half is rounded up.
MutantAverage(a, b) == ((a + b + 1) % (top + 1)) \div 2

\* (a + b) / 2 for a sum that wraps around.
Average(a, b) == ((a + b) % (top + 1)) \div 2

\* Mutants of FirstGuess: rounded down; not halved.
MutantFirstGuess == n \div 2
WholeFirstGuess == n + 1

FirstGuess == Average(n, 1)

Start ==
  /\ pc = "start"
  /\ x' = n
  /\ IF n = 0 THEN pc' = "done" /\ UNCHANGED y
              ELSE pc' = "loop" /\ y' = FirstGuess
  /\ UNCHANGED <<top, n>>

\* Mutant of Improves: the loop goes on while y is as good as x.
MutantImproves == y <= x

\* The condition of the loop.
Improves == y < x

Iterate ==
  /\ pc = "loop" /\ Improves
  /\ x' = y
  /\ IF y = 0 THEN pc' = "panicked" /\ UNCHANGED y
              ELSE y' = Average(y, n \div y) /\ UNCHANGED pc
  /\ UNCHANGED <<top, n>>

Return ==
  /\ pc = "loop" /\ ~Improves
  /\ pc' = "done"
  /\ UNCHANGED <<top, n, x, y>>

\* `x as u64'; on u64 it changes nothing.
Result == AsU64(x)

-----------------------------------------------------------------------------
\* The arguments: a token amount, or the product of two.
Arguments(t) == IF t = MaxU64 THEN U64 ELSE {a * b : a, b \in U64}

RootInit ==
  /\ top \in {MaxU64, MaxU128}
  /\ n \in Arguments(top)
  /\ x = 0 /\ y = 0
  /\ pc = "start"

RootNext == Start \/ Iterate \/ Return

\* A handler runs to its end once it is called, so the loop is not stopped.
RootSpec == RootInit /\ [][RootNext]_root_vars /\ WF_root_vars(RootNext)

-----------------------------------------------------------------------------
RootTypeOK ==
  /\ top \in {MaxU64, MaxU128}
  /\ n \in Arguments(top)
  /\ x \in 0 .. top /\ y \in 0 .. top
  /\ pc \in {"start", "loop", "done", "panicked"}

(***************************************************************************)
(* What integer_sqrt returns is the square root rounded down, and the cast *)
(* to u64 loses nothing of it.                                             *)
(***************************************************************************)
RootCorrect ==
  pc = "done" => Result * Result <= n /\ n < (Result + 1) * (Result + 1)

(***************************************************************************)
(* The one argument the loop fails on is the largest u64, on which the     *)
(* first sum wraps around: no guess on the way to any other root is 0, and *)
(* the loop on u128 never fails.                                           *)
(***************************************************************************)
FailsOnlyAtTop ==
  /\ pc = "panicked" => n = top
  /\ pc = "done" => n # top

(***************************************************************************)
(* The models of the market makers use the operator IntegerSqrt for the    *)
(* whole call: it is what the loop returns.                                *)
(***************************************************************************)
OperatorAgrees == pc = "done" => Result = IntegerSqrt(n)

(***************************************************************************)
(* Every call ends: the guesses fall until they do not improve.            *)
(***************************************************************************)
Terminates == <>(pc \in {"done", "panicked"})

=============================================================================
