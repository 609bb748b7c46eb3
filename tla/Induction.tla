------------------------------ MODULE Induction ------------------------------
(***************************************************************************)
(* Induction over the natural numbers for sets of numbers, and functions   *)
(* that are defined by iteration: what the proofs of runtimes, failover,   *)
(* paging and receipts rest on.  Both are stated without operators as      *)
(* parameters, so that they can be cited.                                  *)
(***************************************************************************)
EXTENDS Integers, WellFoundedInduction, TLAPS

LEMMA NatSet ==
  ASSUME NEW S, 0 \in S, \A n \in Nat : n \in S => n + 1 \in S
  PROVE  \A n \in Nat : n \in S
<1> DEFINE R == OpToRel(<, Nat)
           T == Nat \ S
<1>1. IsWellFoundedOn(R, Nat) BY NatLessThanWellFounded
<1>2. \A x, y \in Nat : y < x => <<y, x>> \in R BY DEF OpToRel
<1> SUFFICES ASSUME T # {} PROVE FALSE OBVIOUS
<1> HIDE DEF R
<1>3. PICK x \in T : \A y \in T : <<y, x>> \notin R
  <2> T \subseteq Nat OBVIOUS
  <2> HIDE DEF T
  <2> QED BY <1>1, WFMin
<1>4. x \in Nat \ {0} /\ x - 1 \in Nat /\ x - 1 < x OBVIOUS
<1>5. x - 1 \notin T BY <1>2, <1>3, <1>4
<1> QED BY <1>4, <1>5

\* f[n] is what comes of base by n steps.
Iterates(f, R, step, base) ==
  f \in [Nat -> R] /\ f[0] = base /\ \A n \in Nat : f[n + 1] = step[f[n]]

LEMMA Iteration ==
  ASSUME NEW R, NEW step \in [R -> R], NEW base \in R
  PROVE  \E f : Iterates(f, R, step, base)
<1> DEFINE Runs(n) == {f \in [0..n -> R] :
                         f[0] = base /\ \A m \in 0..n - 1 : f[m + 1] = step[f[m]]}
           S == {n \in Nat : \E f \in Runs(n) : TRUE}
<1>1. 0 \in S
  <2>1. [m \in 0..0 |-> base] \in Runs(0) OBVIOUS
  <2> QED BY <2>1
<1>2. ASSUME NEW n \in Nat, n \in S PROVE n + 1 \in S
  <2>1. PICK f \in Runs(n) : TRUE BY <1>2
  <2> DEFINE g == [m \in 0..n + 1 |-> IF m = n + 1 THEN step[f[n]] ELSE f[m]]
  <2>2. f \in [0..n -> R] /\ f[0] = base /\ \A m \in 0..n - 1 : f[m + 1] = step[f[m]]
    BY <2>1
  <2>3. \A m \in 0..n : g[m] = f[m] /\ g[m] \in R BY <2>2
  <2>4. g[n + 1] = step[f[n]] /\ step[f[n]] \in R BY <2>2
  <2>5. g \in [0..n + 1 -> R]
    <3>1. \A m \in 0..n + 1 : m = n + 1 \/ m \in 0..n OBVIOUS
    <3> QED BY <2>2, <2>4, <3>1
  <2> HIDE DEF g
  <2>6. ASSUME NEW m \in 0..(n + 1) - 1 PROVE g[m + 1] = step[g[m]]
    <3>1. CASE m = n BY <2>3, <2>4, <3>1
    <3>2. CASE m \in 0..n - 1
      <4>1. m + 1 \in 0..n /\ m \in 0..n BY <3>2
      <4> QED BY <2>2, <2>3, <3>2, <4>1
    <3> QED BY <3>1, <3>2
  <2>7. g[0] = base BY <2>2, <2>3
  <2>8. g \in Runs(n + 1) BY <2>5, <2>6, <2>7
  <2> QED BY <2>8
<1>3. \A n \in Nat : n \in S
  <2> HIDE DEF S
  <2> QED BY <1>1, <1>2, NatSet
<1> DEFINE run(n) == CHOOSE f \in Runs(n) : TRUE
<1>4. \A n \in Nat : run(n) \in Runs(n) BY <1>3
<1> HIDE DEF run
<1> DEFINE Agree == {n \in Nat : \A m \in Nat : n <= m => run(m)[n] = run(n)[n]}
           f == [n \in Nat |-> run(n)[n]]
<1>5. \A n \in Nat : /\ run(n) \in [0..n -> R] /\ run(n)[0] = base
                     /\ \A m \in 0..n - 1 : run(n)[m + 1] = step[run(n)[m]]
  BY <1>4
<1> HIDE DEF Runs, S
<1>6. 0 \in Agree BY <1>5
<1>7. ASSUME NEW n \in Nat, n \in Agree PROVE n + 1 \in Agree
  <2> SUFFICES ASSUME NEW m \in Nat, n + 1 <= m PROVE run(m)[n + 1] = run(n + 1)[n + 1]
    OBVIOUS
  <2>1. n \in 0..m - 1 /\ n \in 0..(n + 1) - 1 /\ n <= m /\ n <= n + 1 OBVIOUS
  <2>2. run(m)[n] = run(n + 1)[n] BY <1>7, <2>1
  <2> QED BY <1>5, <2>1, <2>2
<1>8. \A n \in Nat : n \in Agree
  <2> HIDE DEF Agree
  <2> QED BY <1>6, <1>7, NatSet
<1>9. f \in [Nat -> R] /\ f[0] = base
  <2>1. \A n \in Nat : n \in 0..n OBVIOUS
  <2>2. \A n \in Nat : run(n)[n] \in R BY <1>5, <2>1
  <2> QED BY <1>5, <2>2
<1>10. ASSUME NEW n \in Nat PROVE f[n + 1] = step[f[n]]
  <2>1. n \in 0..(n + 1) - 1 /\ n <= n + 1 /\ n + 1 \in Nat OBVIOUS
  <2>2. run(n + 1)[n] = run(n)[n] BY <1>8, <2>1
  <2>3. run(n + 1)[n + 1] = step[run(n + 1)[n]] BY <1>5, <2>1
  <2> QED BY <2>2, <2>3
<1>11. Iterates(f, R, step, base) BY <1>9, <1>10 DEF Iterates
<1> QED BY <1>11

\* From one end of an interval to the other.
LEMMA IntervalSet ==
  ASSUME NEW S, NEW a \in Nat, NEW b \in Nat, a \in S,
         \A n \in a..b - 1 : n \in S => n + 1 \in S
  PROVE  \A n \in a..b : n \in S
<1> DEFINE T == {n \in Nat : a + n <= b => a + n \in S}
<1>1. 0 \in T OBVIOUS
<1>2. ASSUME NEW n \in Nat, n \in T PROVE n + 1 \in T
  <2>1. CASE a + n + 1 <= b
    <3>1. a + n \in a..b - 1 /\ a + n \in S BY <1>2, <2>1
    <3>2. (a + n) + 1 \in S BY <3>1
    <3>3. (a + n) + 1 = a + (n + 1) OBVIOUS
    <3> QED BY <3>2, <3>3
  <2>2. CASE ~(a + n + 1 <= b) BY <2>2
  <2> QED BY <2>1, <2>2
<1>3. \A n \in Nat : n \in T
  <2> HIDE DEF T
  <2> QED BY <1>1, <1>2, NatSet
<1>4. ASSUME NEW n \in a..b PROVE n \in S
  <2>1. n - a \in Nat /\ a + (n - a) = n /\ n <= b OBVIOUS
  <2>2. n - a \in T BY <1>3, <2>1
  <2> QED BY <2>1, <2>2
<1> QED BY <1>4

\* f[n] is what comes of base by the first n of so many steps.
Unfolds(f, R, len, step, base) ==
  /\ f \in [0..len -> R] /\ f[0] = base
  /\ \A n \in 1..len : f[n] = step[<<f[n - 1], n>>]

LEMMA Unfolding ==
  ASSUME NEW R, NEW len \in Nat, NEW step \in [R \X (1..len) -> R], NEW base \in R
  PROVE  \E f : Unfolds(f, R, len, step, base)
<1> DEFINE Q == R \X Nat
           next == [q \in Q |-> IF q[2] + 1 \in 1..len
                                THEN <<step[<<q[1], q[2] + 1>>], q[2] + 1>>
                                ELSE <<q[1], q[2] + 1>>]
           start == <<base, 0>>
<1>1. next \in [Q -> Q] /\ start \in Q
  <2>1. ASSUME NEW q \in Q PROVE next[q] \in Q
    <3>1. q[1] \in R /\ q[2] \in Nat /\ q[2] + 1 \in Nat OBVIOUS
    <3>2. CASE q[2] + 1 \in 1..len
      <4>1. <<q[1], q[2] + 1>> \in R \X (1..len) BY <3>1, <3>2
      <4>2. step[<<q[1], q[2] + 1>>] \in R BY <4>1
      <4> QED BY <3>1, <3>2, <4>2
    <3>3. CASE q[2] + 1 \notin 1..len BY <3>1, <3>3
    <3> QED BY <3>2, <3>3
  <2>2. next = [q \in Q |-> next[q]] OBVIOUS
  <2> HIDE DEF next
  <2> QED BY <2>1, <2>2
<1>2. PICK g : Iterates(g, Q, next, start)
  <2> HIDE DEF Q, next, start
  <2> QED BY <1>1, Iteration
<1>3. /\ g \in [Nat -> Q] /\ g[0] = start /\ \A n \in Nat : g[n + 1] = next[g[n]]
  BY <1>2 DEF Iterates
<1>4. \A n \in Nat : g[n] \in Q /\ g[n][1] \in R /\ g[n][2] \in Nat BY <1>3
<1> DEFINE S == {n \in Nat : g[n][2] = n}
<1>5. \A n \in Nat : n \in S
  <2>1. 0 \in S BY <1>3
  <2>2. ASSUME NEW n \in Nat, n \in S PROVE n + 1 \in S
    <3>1. g[n + 1] = next[g[n]] /\ g[n] \in Q /\ g[n][2] = n BY <1>3, <1>4, <2>2
    <3>2. next[g[n]][2] = g[n][2] + 1 BY <3>1
    <3> QED BY <3>1, <3>2
  <2> HIDE DEF S
  <2> QED BY <2>1, <2>2, NatSet
<1> DEFINE f == [n \in 0..len |-> g[n][1]]
<1>6. f \in [0..len -> R] /\ f[0] = base BY <1>3, <1>4
<1>7. ASSUME NEW n \in 1..len PROVE f[n] = step[<<f[n - 1], n>>]
  <2>1. n - 1 \in Nat /\ (n - 1) + 1 = n /\ n - 1 \in 0..len /\ n \in 0..len OBVIOUS
  <2>2. g[n] = next[g[n - 1]] /\ g[n - 1] \in Q /\ g[n - 1][2] = n - 1
    BY <1>3, <1>4, <1>5, <2>1
  <2>3. next[g[n - 1]][1] = step[<<g[n - 1][1], n>>] BY <2>1, <2>2
  <2> QED BY <2>1, <2>2, <2>3
<1>8. Unfolds(f, R, len, step, base) BY <1>6, <1>7 DEF Unfolds
<1> QED BY <1>8
=============================================================================
