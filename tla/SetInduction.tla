---------------------------- MODULE SetInduction ----------------------------
(***************************************************************************)
(* Induction over the naturals with a set in place of the property, and    *)
(* the runs of values that recursive functions go through.  For the proofs *)
(* about ProfileLibrary and ReplyStream.                                   *)
(***************************************************************************)
EXTENDS Integers, WellFoundedInduction, NaturalsInduction, TLAPS

\* A set with 0 that is closed under successor has every number: otherwise
\* take the least that is missing.
LEMMA AllNumbers ==
  ASSUME NEW T, 0 \in T, \A n \in Nat : n \in T => n + 1 \in T
  PROVE  Nat \subseteq T
<1>. SUFFICES ASSUME Nat \ T # {}  PROVE FALSE
  OBVIOUS
<1>1. PICK x \in Nat \ T : \A y \in Nat \ T : ~ (<<y, x>> \in OpToRel(<, Nat))
  BY NatLessThanWellFounded, WFMin
<1>2. x # 0 /\ x - 1 \in Nat /\ x - 1 < x
  OBVIOUS
<1>3. x - 1 \in T
  BY <1>1, <1>2 DEF OpToRel
<1>. QED  BY <1>2, <1>3

\* The n-th value of a run is next[n] of the one before it.
HasRun(V, first, size, next) ==
  \E f \in [0 .. size -> V] :
    f[0] = first /\ \A n \in 1 .. size : f[n] = next[n][f[n - 1]]

\* A run of any length exists: what a recursive function is the CHOOSE of.
LEMMA RunExists ==
  ASSUME NEW V, NEW first \in V, NEW size \in Nat, NEW next \in [1 .. size -> [V -> V]]
  PROVE  HasRun(V, first, size, next)
<1>. DEFINE Run(k) == \E f \in [0 .. k -> V] :
              f[0] = first /\ \A n \in 1 .. k : f[n] = next[n][f[n - 1]]
            T == {k \in Nat : k <= size => Run(k)}
<1>1. 0 \in T
  <2>. DEFINE f == [n \in 0 .. 0 |-> first]
  <2>1. f \in [0 .. 0 -> V] /\ f[0] = first /\ \A n \in 1 .. 0 : f[n] = next[n][f[n - 1]]
    OBVIOUS
  <2>2. Run(0)
    BY <2>1
  <2>. QED  BY <2>2
<1>2. ASSUME NEW k \in Nat, k \in T  PROVE k + 1 \in T
  <2>. SUFFICES ASSUME k + 1 <= size  PROVE Run(k + 1)
    OBVIOUS
  <2>1. PICK f \in [0 .. k -> V] :
          f[0] = first /\ \A n \in 1 .. k : f[n] = next[n][f[n - 1]]
    BY <1>2
  <2>. DEFINE g == [n \in 0 .. k + 1 |-> IF n <= k THEN f[n] ELSE next[k + 1][f[k]]]
  <2>2. next[k + 1][f[k]] \in V
    <3>1. f[k] \in V /\ k + 1 \in 1 .. size
      OBVIOUS
    <3>. QED  BY <3>1
  <2>3. g \in [0 .. k + 1 -> V]
    BY <2>2
  <2>4. g[0] = first
    BY <2>1
  <2>5. ASSUME NEW n \in 1 .. k + 1  PROVE g[n] = next[n][g[n - 1]]
    <3>1. n - 1 \in 0 .. k /\ g[n - 1] = f[n - 1]
      OBVIOUS
    <3>2. CASE n = k + 1
      BY <3>1, <3>2
    <3>3. CASE n # k + 1
      <4>1. n \in 1 .. k /\ g[n] = f[n]
        BY <3>3
      <4>. QED  BY <2>1, <3>1, <4>1
    <3>. QED  BY <3>2, <3>3
  <2>. QED  BY <2>3, <2>4, <2>5
<1>3. Run(size)
  <2>. HIDE DEF Run
  <2>1. Nat \subseteq T
    BY <1>1, <1>2, AllNumbers
  <2>. QED  BY <2>1
<1>. QED  BY <1>3 DEF HasRun
=============================================================================
