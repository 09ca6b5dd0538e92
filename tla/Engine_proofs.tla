---------------------------- MODULE Engine_proofs ----------------------------
(***************************************************************************)
(* The lemmas that the other proofs rest on: what fsm_transition finds in  *)
(* a table, of any length, that a set of numbers has a smallest, and what  *)
(* sequences make that follow one another.                                 *)
(***************************************************************************)
EXTENDS Fsm, FiniteSetTheorems, TLAPS

-----------------------------------------------------------------------------
(* The table.                                                              *)

\* A row of the pair with none before it is the one that is found.
LEMMA FirstRow ==
  ASSUME NEW rows, NEW from, NEW to, NEW n \in 1..Len(rows), Len(rows) \in Nat,
         IsRow(rows[n], from, to),
         \A j \in 1..(n - 1) : ~IsRow(rows[j], from, to)
  PROVE  FsmTransition(rows, from, to) = rows[n].perform
<1> DEFINE First(i) == /\ IsRow(rows[i], from, to)
                       /\ \A j \in 1..(i - 1) : ~IsRow(rows[j], from, to)
<1>1. \A i \in 1..Len(rows) : First(i) => i = n
  OBVIOUS
<1>2. First(n)
  OBVIOUS
<1>3. (CHOOSE i \in 1..Len(rows) : First(i)) = n
  <2> HIDE DEF First
  <2> QED BY <1>1, <1>2
<1>4. HasRow(rows, from, to)
  BY DEF HasRow
<1> QED BY <1>3, <1>4 DEF FsmTransition

\* Without a row of the pair the scan runs past the end of the table.
LEMMA NoRow ==
  ASSUME NEW rows, NEW from, NEW to,
         \A j \in 1..Len(rows) : ~IsRow(rows[j], from, to)
  PROVE  FsmTransition(rows, from, to) = OFF_TABLE
BY DEF FsmTransition, HasRow

\* What a handler's result holds.
LEMMA ResultFields ==
  ASSUME NEW e, NEW msgs, NEW next
  PROVE  /\ Result(e, msgs, next).env = e
         /\ Result(e, msgs, next).out = msgs
         /\ Result(e, msgs, next).ret = next
BY DEF Result

-----------------------------------------------------------------------------
(* Numbers.                                                                *)

\* A set of numbers has a smallest one: among the intervals up to its numbers one
\* contains no other.
LEMMA SmallestOne ==
  ASSUME NEW S, S \subseteq Nat, S # {}
  PROVE  \E i \in S : \A j \in S : i <= j
<1>1. PICK k \in S : TRUE
  OBVIOUS
<1> DEFINE UpTo(i) == {n \in 1..k : n <= i}
           below == {UpTo(i) : i \in {j \in S : j <= k}}
           R == StrictSubsetOrdering(1..k)
<1>2. IsFiniteSet(1..k)
  BY FS_Interval
<1>3. IsWellFoundedOn(R, FiniteSubsetsOf(1..k))
  BY <1>2, FS_StrictSubsetOrderingWellFounded
<1>4. below \subseteq FiniteSubsetsOf(1..k)
  BY <1>2, FS_Subset DEF FiniteSubsetsOf
<1>5. UpTo(k) \in below
  BY <1>1
<1>6. PICK T \in below : \A U \in below : ~(<< U, T >> \in R)
  <2> HIDE DEF below, R, UpTo
  <2> QED BY <1>3, <1>4, <1>5, WFMin
<1>7. PICK i \in {j \in S : j <= k} : T = UpTo(i)
  OBVIOUS
<1>8. ASSUME NEW j \in S, j < i PROVE FALSE
  <2>1. UpTo(j) \in below
    BY <1>1, <1>7, <1>8
  <2>2. i \in UpTo(i) /\ i \notin UpTo(j) /\ \A n \in UpTo(j) : n \in UpTo(i)
    BY <1>1, <1>7, <1>8
  <2>3. << UpTo(j), UpTo(i) >> \in R
    BY <2>2 DEF StrictSubsetOrdering
  <2> QED BY <1>6, <1>7, <2>1, <2>3
<1>9. \A j \in S : i <= j
  BY <1>7, <1>8
<1> QED BY <1>7, <1>9

-----------------------------------------------------------------------------
(* Sequences one after the other.                                          *)

\* f holds what the first sequences of s make when they follow each other.
Flattens(f, n, s) ==
  f = [i \in 1..n |-> IF i = 1 THEN s[i] ELSE f[i - 1] \o s[i]]

\* There is such a function for any number of sequences: one for the least number that
\* had none could be made of one for the number before.
LEMMA FlattenExists ==
  ASSUME NEW s
  PROVE  \A n \in Nat : \E f : Flattens(f, n, s)
<1> DEFINE bad == {n \in Nat : ~\E f : Flattens(f, n, s)}
<1> SUFFICES ASSUME bad # {} PROVE FALSE
  OBVIOUS
<1>1. PICK n \in bad : \A m \in bad : n <= m
  <2>1. bad \subseteq Nat
    OBVIOUS
  <2> HIDE DEF bad
  <2> QED BY <2>1, SmallestOne
<1>2. n \in Nat /\ ~\E f : Flattens(f, n, s)
  OBVIOUS
<1>3. CASE n = 0
  <2> DEFINE f == [i \in 1..0 |-> s[i]]
  <2>1. Flattens(f, 0, s)
    BY DEF Flattens
  <2> HIDE DEF f
  <2> QED BY <1>2, <1>3, <2>1
<1>4. CASE n # 0
  <2>1. n - 1 \in Nat /\ n - 1 \notin bad
    BY <1>1, <1>2, <1>4
  <2>2. PICK g : Flattens(g, n - 1, s)
    BY <2>1
  <2> DEFINE f == [i \in 1..n |-> IF i < n THEN g[i]
                                  ELSE IF n = 1 THEN s[n] ELSE g[n - 1] \o s[n]]
  <2>3. ASSUME NEW i \in 1..n PROVE f[i] = IF i = 1 THEN s[i] ELSE f[i - 1] \o s[i]
    <3>1. CASE i < n
      <4>1. i \in 1..(n - 1) /\ (i # 1 => i - 1 \in 1..n /\ i - 1 < n)
        BY <1>2, <3>1
      <4>2. g[i] = IF i = 1 THEN s[i] ELSE g[i - 1] \o s[i]
        BY <2>2, <4>1 DEF Flattens
      <4> QED BY <3>1, <4>1, <4>2
    <3>2. CASE i = n
      <4>1. ~(i < n) /\ (n # 1 => n - 1 \in 1..n /\ n - 1 < n)
        BY <1>2, <3>2
      <4> QED BY <3>2, <4>1
    <3> QED BY <1>2, <3>1, <3>2
  <2>4. f = [i \in 1..n |-> f[i]]
    OBVIOUS
  <2> HIDE DEF f
  <2>5. Flattens(f, n, s)
    BY <2>3, <2>4 DEF Flattens
  <2> QED BY <1>2, <2>5
<1> QED BY <1>3, <1>4

AgreeUpTo(f, g, k) == \A i \in 1..k : f[i] = g[i]

\* What it holds for the first sequences depends on them alone.
LEMMA FlattenAgrees ==
  ASSUME NEW s, NEW t, NEW n \in Nat, NEW m \in Nat, NEW k \in Nat, k <= n, k <= m,
         NEW f, Flattens(f, n, s), NEW g, Flattens(g, m, t),
         AgreeUpTo(s, t, k)
  PROVE  AgreeUpTo(f, g, k)
<1> USE DEF AgreeUpTo
<1> DEFINE bad == {i \in 1..k : f[i] # g[i]}
<1> SUFFICES ASSUME bad # {} PROVE FALSE
  OBVIOUS
<1>1. PICK i \in bad : \A j \in bad : i <= j
  <2>1. bad \subseteq Nat
    OBVIOUS
  <2> HIDE DEF bad
  <2> QED BY <2>1, SmallestOne
<1>2. i \in 1..k /\ f[i] # g[i] /\ i \in 1..n /\ i \in 1..m
  OBVIOUS
<1>3. /\ f[i] = IF i = 1 THEN s[i] ELSE f[i - 1] \o s[i]
      /\ g[i] = IF i = 1 THEN t[i] ELSE g[i - 1] \o t[i]
  BY <1>2 DEF Flattens
<1>4. CASE i = 1
  BY <1>2, <1>3, <1>4
<1>5. CASE i # 1
  <2>1. i - 1 \in 1..k /\ i - 1 \notin bad
    BY <1>1, <1>2, <1>5
  <2> QED BY <1>2, <1>3, <1>5, <2>1
<1> QED BY <1>4, <1>5

\* Sequences over a set make a sequence over that set.
LEMMA FlattenTyped ==
  ASSUME NEW T, NEW s, NEW n \in Nat, NEW f, Flattens(f, n, s), \A i \in 1..n : s[i] \in Seq(T)
  PROVE  \A i \in 1..n : f[i] \in Seq(T)
<1> DEFINE bad == {i \in 1..n : f[i] \notin Seq(T)}
<1> SUFFICES ASSUME bad # {} PROVE FALSE
  OBVIOUS
<1>1. PICK i \in bad : \A j \in bad : i <= j
  <2>1. bad \subseteq Nat
    OBVIOUS
  <2> HIDE DEF bad
  <2> QED BY <2>1, SmallestOne
<1>2. i \in 1..n /\ f[i] \notin Seq(T) /\ s[i] \in Seq(T)
  OBVIOUS
<1>3. f[i] = IF i = 1 THEN s[i] ELSE f[i - 1] \o s[i]
  BY <1>2 DEF Flattens
<1>4. CASE i = 1
  BY <1>2, <1>3, <1>4
<1>5. CASE i # 1
  <2>1. i - 1 \in 1..n /\ i - 1 \notin bad
    BY <1>1, <1>2, <1>5
  <2>2. f[i - 1] \in Seq(T)
    BY <2>1
  <2> QED BY <1>2, <1>3, <1>5, <2>2
<1> QED BY <1>4, <1>5
=============================================================================
