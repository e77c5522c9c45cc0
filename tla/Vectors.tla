------------------------------ MODULE Vectors ------------------------------
(***************************************************************************)
(* The kernels of src/src/simd.rs for aarch64: four registers of Lane      *)
(* numbers are summed at a time, what is left one by one.  Numbers are     *)
(* whole: in which order floats are rounded is left out, which components  *)
(* are met is kept.                                                        *)
(***************************************************************************)
EXTENDS Integers, Sequences, FiniteSetsExt

CONSTANT Lane       \* numbers in a register; 4

ASSUME LaneAssumption == Lane \in Nat \ {0}

LANES == 4 * Lane

\* What the loop over whole blocks leaves to the loop behind it begins here.
WholeBlocks(n) == LANES * (n \div LANES)

\* Lane j of register k adds up every LANES-th component; then the registers are
\* added, then the lanes, then the rest.
Kernel(a, b, product(_, _)) ==
    LET n == Len(a)
        at(i) == product(a[i], b[i])
        lane(k, j) == MapThenSumSet(at, {i \in 1..WholeBlocks(n) : (i - 1) % LANES = k * Lane + j})
        sum(j) == (lane(0, j) + lane(1, j)) + (lane(2, j) + lane(3, j))
    IN  MapThenSumSet(sum, 0..(Lane - 1)) + MapThenSumSet(at, (WholeBlocks(n) + 1)..n)

Times(x, y)   == x * y
Squared(x, y) == (x - y) * (x - y)

Dot(a, b)  == Kernel(a, b, Times)
L2Sq(a, b) == Kernel(a, b, Squared)

Metrics == {"l2", "ip"}

\* The distance by which a metric orders: less is nearer.
Distance(metric, a, q) == IF metric = "l2" THEN L2Sq(a, q) ELSE -Dot(a, q)

\* What it means, component by component.
DistanceMeant(metric, a, q) ==
    LET from[i \in 0..Len(a)] ==
            IF i = 0 THEN 0
            ELSE from[i - 1] + (IF metric = "l2" THEN Squared(a[i], q[i]) ELSE -Times(a[i], q[i]))
    IN  from[Len(a)]
=============================================================================
