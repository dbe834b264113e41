------------------------------ MODULE SeqLoop ------------------------------
(***************************************************************************)
(* A loop over a sequence: `for (const x of q) state = Body(state, x, c)`,   *)
(* with c whatever the body reads besides.  It stands in a module of its own *)
(* so that what holds of every loop is proved once, for any body.            *)
(***************************************************************************)
EXTENDS Integers, Sequences, TLAPS, WellFoundedInduction

CONSTANT Body(_, _, _)

\* The state after every element.
Loop(first, q, c) ==
  LET state[n \in 0..Len(q)] == IF n = 0 THEN first ELSE Body(state[n - 1], q[n], c)
  IN  state[Len(q)]

\* g goes through the states after the first n elements.
Stepped(g, first, q, c, i) == g[i] = IF i = 0 THEN first ELSE Body(g[i - 1], q[i], c)
Steps(g, first, q, c, n) == \A i \in 0..n : Stepped(g, first, q, c, i)

\* ... and is the function the loop's definition is about.
Computes(g, first, q, c, n) ==
  g = [i \in 0..n |-> IF i = 0 THEN first ELSE Body(g[i - 1], q[i], c)]

(* The function Computes speaks of goes through the loop's states.           *)
LEMMA Computed ==
  \A first, q, c, n, g : Computes(g, first, q, c, n) => Steps(g, first, q, c, n)
<1>. TAKE first, q, c, n, g
<1>. HAVE Computes(g, first, q, c, n)
<1>. SUFFICES ASSUME NEW i \in 0..n PROVE Stepped(g, first, q, c, i)
  BY DEF Steps
<1>. DEFINE h == [j \in 0..n |-> IF j = 0 THEN first ELSE Body(g[j - 1], q[j], c)]
<1>1. g = h
  BY DEF Computes
<1>2. h[i] = IF i = 0 THEN first ELSE Body(g[i - 1], q[i], c)
  OBVIOUS
<1>. QED  BY <1>1, <1>2, Zenon DEF Stepped

(* Induction up to n, over the set of the numbers that have the property.    *)
LEMMA UpTo ==
  ASSUME NEW n \in Nat, NEW S, 0 \in S, \A i \in 1..n : i - 1 \in S => i \in S
  PROVE  \A i \in 0..n : i \in S
<1>. SUFFICES ASSUME NEW j \in 0..n, j \notin S PROVE FALSE
  OBVIOUS
<1>. DEFINE T == {i \in 0..n : i \notin S}
<1>1. T \subseteq Nat /\ T # {}
  OBVIOUS
<1>2. PICK k \in T : \A i \in T : <<i, k>> \notin OpToRel(<, Nat)
  BY <1>1, NatLessThanWellFounded, WFMin
<1>3. k - 1 \in Nat /\ k \in 1..n
  OBVIOUS
<1>4. k - 1 \in S
  <2>1. k - 1 \in 0..n /\ <<k - 1, k>> \in OpToRel(<, Nat)
    BY <1>3 DEF OpToRel
  <2>. QED  BY <1>2, <2>1
<1>. QED  BY <1>3, <1>4

(* ...  and there is one, for a loop of any length.                          *)
LEMMA Computable ==
  ASSUME NEW first, NEW q, NEW c, NEW n \in Nat
  PROVE  \E g : Computes(g, first, q, c, n)
<1>. DEFINE S == {i \in 0..n : \E g : Computes(g, first, q, c, i)}
<1>1. 0 \in S
  <2>1. Computes([i \in 0..0 |-> first], first, q, c, 0)
    BY DEF Computes
  <2>. QED  BY <2>1
<1>2. ASSUME NEW k \in 1..n, k - 1 \in S PROVE k \in S
  <2>1. PICK g : Computes(g, first, q, c, k - 1)
    BY <1>2
  <2>. DEFINE h == [i \in 0..k |-> IF i < k THEN g[i] ELSE Body(g[k - 1], q[k], c)]
  <2>2. ASSUME NEW i \in 0..k PROVE Stepped(h, first, q, c, i)
    <3>1. CASE i < k
      <4>1. i \in 0..(k - 1)
        BY <3>1
      <4>2. Stepped(g, first, q, c, i)
        BY <2>1, <4>1, Computed, Zenon DEF Steps
      <4>3. h[i] = g[i] /\ (i # 0 => h[i - 1] = g[i - 1])
        BY <3>1
      <4>. QED  BY <4>2, <4>3, Zenon DEF Stepped
    <3>2. CASE i = k
      <4>1. h[i] = Body(g[k - 1], q[k], c) /\ h[i - 1] = g[k - 1] /\ i # 0
        BY <3>2
      <4>. QED  BY <3>2, <4>1, Zenon DEF Stepped
    <3>. QED  BY <3>1, <3>2
  <2>3. h = [i \in 0..k |-> IF i = 0 THEN first ELSE Body(h[i - 1], q[i], c)]
    <3>. DEFINE f == [i \in 0..k |-> IF i = 0 THEN first ELSE Body(h[i - 1], q[i], c)]
    <3>1. ASSUME NEW i \in 0..k PROVE h[i] = f[i]
      <4>1. f[i] = IF i = 0 THEN first ELSE Body(h[i - 1], q[i], c)
        OBVIOUS
      <4>. QED  BY <4>1, <2>2, Zenon DEF Stepped
    <3>2. DOMAIN h = DOMAIN f /\ DOMAIN h = 0..k
      OBVIOUS
    <3>3. h = [i \in DOMAIN h |-> h[i]] /\ f = [i \in DOMAIN f |-> f[i]]
      OBVIOUS
    <3>. HIDE DEF h, f
    <3>4. h = f
      BY <3>1, <3>2, <3>3
    <3>. QED  BY <3>4 DEF f
  <2>. HIDE DEF h
  <2>4. Computes(h, first, q, c, k)
    BY <2>3, Zenon DEF Computes
  <2>. QED  BY <2>4
<1>. HIDE DEF S
<1>3. n \in S
  BY <1>1, <1>2, UpTo
<1>. QED  BY <1>3 DEF S

(* A loop goes through a state for each element, from the first to its last. *)
THEOREM LoopStates ==
  ASSUME NEW first, NEW q, NEW c, Len(q) \in Nat
  PROVE  \E state :
           /\ state[0] = first /\ state[Len(q)] = Loop(first, q, c)
           /\ \A n \in 1..Len(q) : state[n] = Body(state[n - 1], q[n], c)
<1>. DEFINE g == CHOOSE g : Computes(g, first, q, c, Len(q))
<1>1. Computes(g, first, q, c, Len(q))
  BY Computable, Zenon
<1>2. Loop(first, q, c) = g[Len(q)]
  BY DEF Loop, Computes
<1>. HIDE DEF g
<1>3. Steps(g, first, q, c, Len(q))
  BY <1>1, Computed, Zenon
<1>4. 0 \in 0..Len(q) /\ (\A n \in 1..Len(q) : n \in 0..Len(q) /\ n # 0)
  OBVIOUS
<1>. QED  BY <1>2, <1>3, <1>4, Zenon DEF Steps, Stepped

\* state goes through a state for each element.
Goes(state, first, q, c) ==
  /\ state[0] = first /\ state[Len(q)] = Loop(first, q, c)
  /\ \A n \in 1..Len(q) : state[n] = Body(state[n - 1], q[n], c)

(* The same under a name, for bodies too large to be looked into.            *)
LEMMA LoopGoes ==
  ASSUME NEW first, NEW q, NEW c, Len(q) \in Nat
  PROVE  \E state : Goes(state, first, q, c)
BY LoopStates DEF Goes

(* Whatever goes from the first state to the next ones ends where it does.   *)
LEMMA LoopEnds ==
  ASSUME NEW first, NEW q, NEW c, Len(q) \in Nat, NEW g, g[0] = first,
         \A n \in 1..Len(q) : g[n] = Body(g[n - 1], q[n], c)
  PROVE  g[Len(q)] = Loop(first, q, c)
<1>1. PICK state : /\ state[0] = first /\ state[Len(q)] = Loop(first, q, c)
                   /\ \A n \in 1..Len(q) : state[n] = Body(state[n - 1], q[n], c)
  BY LoopStates
<1>. DEFINE S == {n \in 0..Len(q) : g[n] = state[n]}
<1>2. 0 \in S
  BY <1>1
<1>3. ASSUME NEW n \in 1..Len(q), n - 1 \in S PROVE n \in S
  <2>1. g[n] = Body(g[n - 1], q[n], c) /\ state[n] = Body(state[n - 1], q[n], c)
    BY <1>1
  <2>2. g[n - 1] = state[n - 1]
    BY <1>3
  <2>3. g[n] = state[n]
    BY <2>1, <2>2
  <2>. QED  BY <2>3
<1>. HIDE DEF S
<1>4. \A n \in 0..Len(q) : n \in S
  BY <1>2, <1>3, UpTo
<1>5. Len(q) \in S
  BY <1>4
<1>. QED  BY <1>1, <1>5 DEF S

(* A loop over two sequences goes on over the second where the first ended.  *)
LEMMA LoopOfTwo ==
  ASSUME NEW E, NEW p \in Seq(E), NEW q \in Seq(E), NEW first, NEW c
  PROVE  Loop(first, p \o q, c) = Loop(Loop(first, p, c), q, c)
<1>. DEFINE M == Len(p)  N == Len(q)
<1>0. /\ M \in Nat /\ N \in Nat /\ Len(p \o q) = M + N
      /\ \A n \in 1..M : (p \o q)[n] = p[n]
      /\ \A n \in 1..N : (p \o q)[M + n] = q[n]
  OBVIOUS
<1>1. PICK g : /\ g[0] = first /\ g[M + N] = Loop(first, p \o q, c)
               /\ \A n \in 1..(M + N) : g[n] = Body(g[n - 1], (p \o q)[n], c)
  <2>. DEFINE r == p \o q
  <2>1. Len(r) \in Nat /\ Len(r) = M + N
    BY <1>0
  <2>. HIDE DEF r, M, N
  <2>2. \E g : /\ g[0] = first /\ g[Len(r)] = Loop(first, r, c)
               /\ \A n \in 1..Len(r) : g[n] = Body(g[n - 1], r[n], c)
    BY <2>1, LoopStates
  <2>3. \E g : /\ g[0] = first /\ g[M + N] = Loop(first, r, c)
               /\ \A n \in 1..(M + N) : g[n] = Body(g[n - 1], r[n], c)
    BY <2>1, <2>2
  <2>. QED  BY <2>3 DEF r
<1>. HIDE DEF M, N
<1>2. g[M] = Loop(first, p, c)
  <2>1. ASSUME NEW n \in 1..M PROVE g[n] = Body(g[n - 1], p[n], c)
    <3>1. n \in 1..(M + N) /\ (p \o q)[n] = p[n]
      BY <1>0
    <3>. QED  BY <1>1, <3>1
  <2>2. M = Len(p)
    BY DEF M
  <2>. QED  BY <1>0, <1>1, <2>1, <2>2, LoopEnds
<1>3. g[M + N] = Loop(g[M], q, c)
  <2>. DEFINE h == [n \in 0..N |-> g[M + n]]
  <2>1. h[0] = g[M] /\ h[N] = g[M + N]
    BY <1>0
  <2>2. ASSUME NEW n \in 1..N PROVE h[n] = Body(h[n - 1], q[n], c)
    <3>1. /\ M + n \in 1..(M + N) /\ (p \o q)[M + n] = q[n] /\ n - 1 \in 0..N /\ n \in 0..N
          /\ M + (n - 1) = (M + n) - 1
      BY <1>0
    <3>2. g[M + n] = Body(g[(M + n) - 1], (p \o q)[M + n], c)
      BY <1>1, <3>1
    <3>3. h[n] = g[M + n] /\ h[n - 1] = g[M + (n - 1)]
      BY <3>1
    <3>. QED  BY <3>1, <3>2, <3>3
  <2>. HIDE DEF h
  <2>3. N = Len(q)
    BY DEF N
  <2>4. h[Len(q)] = Loop(g[M], q, c)
    BY <1>0, <2>1, <2>2, <2>3, LoopEnds
  <2>. QED  BY <2>1, <2>3, <2>4
<1>. QED  BY <1>1, <1>2, <1>3
=============================================================================
