---------------------------- MODULE ResultsProofs ----------------------------
(***************************************************************************)
(* Proofs about Results, for every table that a script can return, every   *)
(* set of IDs, every relation between patterns and IDs and every ID list.  *)
(*                                                                         *)
(* The loops of the code are recursive functions.  What is known of one is *)
(* its equation, step by step (the lemmas ...Runs); what holds after each  *)
(* of its steps is shown by induction on their number (UpTo), which rests  *)
(* on the least number for which it would fail.                            *)
(***************************************************************************)
EXTENDS Results, SequenceTheorems, WellFoundedInduction, TLAPS

\* A set of natural numbers has a least element.
LEMMA Least ==
  ASSUME NEW S \in SUBSET Nat, S # {}
  PROVE  \E x \in S : \A y \in S : x <= y
<1> DEFINE R == OpToRel(<, Nat)
<1>1. IsWellFoundedOn(R, Nat)
  BY NatLessThanWellFounded
<1>2. \A a, b \in Nat : <<b, a>> \in R <=> b < a
  BY DEF OpToRel
<1>. HIDE DEF R
<1>3. PICK x \in S : \A y \in S : ~(<<y, x>> \in R)
  BY <1>1, WFMin
<1>4. ASSUME NEW y \in S PROVE x <= y
  <2>1. x \in Nat /\ y \in Nat
    OBVIOUS
  <2>2. ~(y < x)
    BY <2>1, <1>2, <1>3
  <2>. QED BY <2>1, <2>2
<1>. QED BY <1>4

\* What holds of 0, and of n when it holds of n - 1, holds up to m.
LEMMA UpTo ==
  ASSUME NEW m \in Nat, NEW S, 0 \in S, \A n \in 1 .. m : n - 1 \in S => n \in S
  PROVE  \A n \in 0 .. m : n \in S
<1>1. SUFFICES ASSUME {n \in 0 .. m : n \notin S} # {} PROVE FALSE
  OBVIOUS
<1>2. PICK x \in {n \in 0 .. m : n \notin S} : \A y \in {n \in 0 .. m : n \notin S} : x <= y
  BY <1>1, Least, {n \in 0 .. m : n \notin S} \in SUBSET Nat
<1>3. x \in 1 .. m /\ x - 1 \in 0 .. m /\ ~(x <= x - 1)
  BY <1>2
<1>4. x - 1 \in S
  BY <1>2, <1>3
<1>. QED BY <1>2, <1>3, <1>4

\* A loop of m steps over values in X.
Steps(m, X) == [X \X (1 .. m) -> X]

Runs(f, m, base, step) == f[0] = base /\ \A n \in 1 .. m : f[n] = step[<<f[n - 1], n>>]

\* There is a function that does so, and each of its values is in X.
LEMMA RecursionExists ==
  ASSUME NEW m \in Nat, NEW X, NEW base \in X, NEW step \in Steps(m, X)
  PROVE  \E f : f \in [0 .. m -> X] /\ Runs(f, m, base, step)
<1>. USE DEF Steps
<1> DEFINE Ok(k, f) == f[0] = base /\ \A n \in 1 .. k : f[n] = step[<<f[n - 1], n>>]
           S == {k \in 0 .. m : \E f \in [0 .. k -> X] : Ok(k, f)}
<1>1. 0 \in S
  <2>1. [n \in 0 .. 0 |-> base] \in [0 .. 0 -> X] /\ Ok(0, [n \in 0 .. 0 |-> base])
    OBVIOUS
  <2>2. \E f \in [0 .. 0 -> X] : Ok(0, f)
    BY <2>1, Zenon
  <2>. HIDE DEF Ok
  <2>. QED BY <2>2
<1>2. ASSUME NEW k \in 1 .. m, k - 1 \in S PROVE k \in S
  <2>1. PICK f \in [0 .. k - 1 -> X] : Ok(k - 1, f)
    BY <1>2
  <2> DEFINE g == [n \in 0 .. k |-> IF n = k THEN step[<<f[k - 1], k>>] ELSE f[n]]
  <2>2. g \in [0 .. k -> X]
    <3>1. f[k - 1] \in X
      OBVIOUS
    <3>2. step[<<f[k - 1], k>>] \in X
      BY <3>1
    <3>3. \A n \in 0 .. k : n # k => f[n] \in X
      OBVIOUS
    <3>. QED BY <3>2, <3>3
  <2>3. Ok(k, g)
    <3>0. 0 \in 0 .. k - 1 /\ \A n \in 0 .. k - 1 : n \in 0 .. k /\ n # k
      OBVIOUS
    <3>1. g[0] = base /\ \A n \in 0 .. k - 1 : g[n] = f[n]
      BY <2>1, <3>0
    <3>2. ASSUME NEW n \in 1 .. k - 1 PROVE g[n] = step[<<g[n - 1], n>>]
      BY <2>1, <3>1
    <3>3. g[k] = step[<<f[k - 1], k>>] /\ k - 1 \in 0 .. k - 1
      OBVIOUS
    <3>4. g[k] = step[<<g[k - 1], k>>]
      BY <3>1, <3>3
    <3>. HIDE DEF g
    <3>5. \A n \in 1 .. k : n = k \/ n \in 1 .. k - 1
      OBVIOUS
    <3>6. \A n \in 1 .. k : g[n] = step[<<g[n - 1], n>>]
      BY <3>2, <3>4, <3>5
    <3>. QED BY <3>1, <3>6
  <2>. HIDE DEF g, Ok
  <2>4. k \in 0 .. m
    OBVIOUS
  <2>5. \E e \in [0 .. k -> X] : Ok(k, e)
    BY <2>2, <2>3, Zenon
  <2>. QED BY <2>4, <2>5
<1>3. m \in S
  <2>. HIDE DEF S
  <2>. QED BY <1>1, <1>2, UpTo
<1>. QED BY <1>3 DEF Runs

\* A function that makes those steps wherever it is in X stays in X.
LEMMA RecursionTyped ==
  ASSUME NEW m \in Nat, NEW X, NEW base \in X, NEW step \in Steps(m, X), NEW f,
         f[0] = base,
         \A n \in 1 .. m : f[n - 1] \in X => f[n] = step[<<f[n - 1], n>>]
  PROVE  /\ \A n \in 0 .. m : f[n] \in X
         /\ Runs(f, m, base, step)
<1> DEFINE S == {n \in 0 .. m : f[n] \in X}
<1>1. 0 \in S
  OBVIOUS
<1>2. ASSUME NEW n \in 1 .. m, n - 1 \in S PROVE n \in S
  <2>1. f[n - 1] \in X
    BY <1>2
  <2>2. <<f[n - 1], n>> \in X \X (1 .. m)
    BY <2>1
  <2>3. step[<<f[n - 1], n>>] \in X
    BY <2>2 DEF Steps
  <2>. QED BY <2>1, <2>3
<1>3. \A n \in 0 .. m : n \in S
  <2>. HIDE DEF S
  <2>. QED BY <1>1, <1>2, UpTo
<1>4. \A n \in 1 .. m : n - 1 \in 0 .. m
  OBVIOUS
<1>. QED BY <1>3, <1>4 DEF Runs
-----------------------------------------------------------------------------
(* The loops.                                                               *)

\* The loop of Prepended.
PrependedLoop(f, E, old, entries) ==
  /\ Prepended(old, entries) = f[Len(entries)]
  /\ f[0] = old
  /\ \A n \in 1 .. Len(entries) : f[n] = <<entries[n]>> \o f[n - 1]
  /\ \A n \in 0 .. Len(entries) : f[n] \in Seq(E)

\* It is that loop: its equation holds, step by step.
LEMMA PrependedRuns ==
  ASSUME NEW E, NEW old \in Seq(E), NEW entries \in Seq(E)
  PROVE  \E f : PrependedLoop(f, E, old, entries)
<1> DEFINE m == Len(entries)
           X == Seq(E)
           base == old
           step == [x \in X \X (1 .. m) |-> <<entries[x[2]]>> \o x[1]]
           Is(f) == f = [n \in 0 .. m |-> IF n = 0 THEN base ELSE <<entries[n]>> \o f[n - 1]]
           h == CHOOSE f : Is(f)
<1>1. Prepended(old, entries) = h[m]
  BY DEF Prepended
<1>2. m \in Nat /\ base \in X
  OBVIOUS
<1>3. step \in Steps(m, X)
  <2>1. ASSUME NEW x \in X, NEW n \in 1 .. m PROVE <<entries[n]>> \o x \in X
    <3>1. entries[n] \in E
      OBVIOUS
    <3>2. <<entries[n]>> \in Seq(E)
      BY <3>1
    <3>. QED BY <3>2
  <2>. QED BY <2>1 DEF Steps
<1>4. \A x \in X : \A n \in 1 .. m : step[<<x, n>>] = <<entries[n]>> \o x
  OBVIOUS
<1>. HIDE DEF m, X, base, step
<1>5. PICK f : f \in [0 .. m -> X] /\ Runs(f, m, base, step)
  BY <1>2, <1>3, RecursionExists
<1>6. ASSUME NEW n \in 1 .. m PROVE n - 1 \in 0 .. m /\ n \in 0 .. m /\ n # 0
  BY <1>2
<1>7. Is(f)
  <2>1. \A n \in 1 .. m : f[n] = <<entries[n]>> \o f[n - 1]
    BY <1>4, <1>5, <1>6 DEF Runs
  <2>2. \A n \in 0 .. m : n = 0 \/ n \in 1 .. m
    BY <1>2
  <2>3. \A n \in 0 .. m : f[n] = IF n = 0 THEN base ELSE <<entries[n]>> \o f[n - 1]
    BY <2>1, <2>2, <1>5 DEF Runs
  <2>. QED BY <1>5, <2>3
<1>8. Is(h)
  BY <1>7
<1>. HIDE DEF h
<1>9. h[0] = base /\ \A n \in 1 .. m : h[n] = <<entries[n]>> \o h[n - 1]
  <2>1. \A n \in 0 .. m : h[n] = IF n = 0 THEN base ELSE <<entries[n]>> \o h[n - 1]
    BY <1>8
  <2>2. 0 \in 0 .. m
    BY <1>2
  <2>. QED BY <1>6, <2>1, <2>2
<1>10. \A n \in 0 .. m : h[n] \in X
  <2>1. h[0] = base
    BY <1>9
  <2>2. \A n \in 1 .. m : h[n - 1] \in X => h[n] = step[<<h[n - 1], n>>]
    BY <1>4, <1>9
  <2>. QED BY <1>2, <1>3, <2>1, <2>2, RecursionTyped
<1>11. PrependedLoop(h, E, old, entries)
  BY <1>1, <1>9, <1>10 DEF PrependedLoop, m, X, base
<1>. QED BY <1>11

\* g_slist_reverse.
LEMMA ReverseList ==
  ASSUME NEW E, NEW list \in Seq(E)
  PROVE  /\ Reverse(list) \in Seq(E)
         /\ Len(Reverse(list)) = Len(list)
         /\ \A i \in 1 .. Len(list) : Reverse(list)[i] = list[Len(list) + 1 - i]
<1>1. Len(list) \in Nat /\ \A i \in 1 .. Len(list) : list[i] \in E
  OBVIOUS
<1>2. \A i \in 1 .. Len(list) : /\ Len(list) + 1 - i \in 1 .. Len(list)
                                /\ (Len(list) - i) + 1 = Len(list) + 1 - i
  BY <1>1
<1>3. Reverse(list) = [i \in 1 .. Len(list) |-> list[(Len(list) - i) + 1]]
  BY DEF Reverse
<1>4. Reverse(list) \in [1 .. Len(list) -> E]
  BY <1>1, <1>2, <1>3
<1>. QED BY <1>1, <1>2, <1>3, <1>4

\* What has been prepended stands before what there was, the last entry first.
LEMMA PrependedIs ==
  ASSUME NEW E, NEW old \in Seq(E), NEW entries \in Seq(E)
  PROVE  /\ Prepended(old, entries) \in Seq(E)
         /\ Len(Prepended(old, entries)) = Len(entries) + Len(old)
         /\ \A i \in 1 .. Len(entries) :
              Prepended(old, entries)[i] = entries[Len(entries) + 1 - i]
         /\ \A i \in 1 .. Len(old) : Prepended(old, entries)[Len(entries) + i] = old[i]
<1>0. PICK f : PrependedLoop(f, E, old, entries)
  BY PrependedRuns
<1>1. /\ Prepended(old, entries) = f[Len(entries)]
      /\ f[0] = old
      /\ \A n \in 1 .. Len(entries) : f[n] = <<entries[n]>> \o f[n - 1]
      /\ \A n \in 0 .. Len(entries) : f[n] \in Seq(E)
  BY <1>0 DEF PrependedLoop
<1> DEFINE Is(n) == /\ Len(f[n]) = n + Len(old)
                    /\ \A i \in 1 .. n : f[n][i] = entries[n + 1 - i]
                    /\ \A i \in 1 .. Len(old) : f[n][n + i] = old[i]
           S == {n \in 0 .. Len(entries) : Is(n)}
<1>2. Len(entries) \in Nat /\ Len(old) \in Nat
  OBVIOUS
<1>3. 0 \in S
  <2>1. Is(0)
    BY <1>1, <1>2
  <2>. QED BY <1>2, <2>1
<1>4. ASSUME NEW n \in 1 .. Len(entries), n - 1 \in S PROVE n \in S
  <2>1. n \in 0 .. Len(entries) /\ n - 1 \in 0 .. Len(entries) /\ n \in Nat /\ n - 1 \in Nat
    BY <1>2
  <2>2. PICK list \in Seq(E) : list = f[n - 1]
    BY <1>1, <2>1
  <2>3. PICK e \in E : e = entries[n]
    OBVIOUS
  <2>4. f[n] = <<e>> \o list
    BY <1>1, <2>2, <2>3
  <2>5. /\ Len(list) = n - 1 + Len(old)
        /\ \A i \in 1 .. n - 1 : list[i] = entries[n - 1 + 1 - i]
        /\ \A i \in 1 .. Len(old) : list[n - 1 + i] = old[i]
    BY <1>4, <2>2
  <2>6. /\ Len(f[n]) = 1 + Len(list)
        /\ f[n][1] = e
        /\ \A i \in 1 .. Len(list) : f[n][i + 1] = list[i]
    BY <2>4
  <2>7. Len(f[n]) = n + Len(old)
    BY <1>2, <2>1, <2>5, <2>6
  <2>8. ASSUME NEW i \in 1 .. n PROVE f[n][i] = entries[n + 1 - i]
    <3>1. CASE i = 1
      BY <3>1, <2>1, <2>3, <2>6
    <3>2. CASE i # 1
      <4>1. PICK j \in 1 .. n - 1 : i = j + 1
        BY <3>2, <2>1, i - 1 \in 1 .. n - 1
      <4>2. j \in 1 .. Len(list) /\ n - 1 + 1 - j = n + 1 - i
        BY <4>1, <1>2, <2>1, <2>5
      <4>. QED BY <4>1, <4>2, <2>5, <2>6
    <3>. QED BY <3>1, <3>2
  <2>9. ASSUME NEW i \in 1 .. Len(old) PROVE f[n][n + i] = old[i]
    <3>1. n - 1 + i \in 1 .. Len(list) /\ n - 1 + i + 1 = n + i
      BY <1>2, <2>1, <2>5
    <3>. QED BY <3>1, <2>5, <2>6
  <2>. QED BY <2>1, <2>7, <2>8, <2>9
<1>5. Len(entries) \in S
  <2>. HIDE DEF S
  <2>1. \A n \in 0 .. Len(entries) : n \in S
    BY <1>2, <1>3, <1>4, UpTo
  <2>. QED BY <1>2, <2>1
<1>6. Is(Len(entries)) /\ Len(entries) \in 0 .. Len(entries)
  BY <1>2, <1>5
<1>. QED BY <1>1, <1>6

\* What is collected follows what there was, which is turned round.
Follows(list, old, entries) ==
  /\ Len(list) = Len(old) + Len(entries)
  /\ \A i \in 1 .. Len(old) : list[i] = old[Len(old) + 1 - i]
  /\ \A i \in 1 .. Len(entries) : list[Len(old) + i] = entries[i]

\* What Collect does to a list that is not empty: quvi_scan_new does so.
LEMMA CollectOnto ==
  ASSUME NEW E, NEW old \in Seq(E), NEW entries \in Seq(E)
  PROVE  Collect(old, entries) \in Seq(E) /\ Follows(Collect(old, entries), old, entries)
<1>1. PICK list : list = Prepended(old, entries)
  OBVIOUS
<1>2. /\ list \in Seq(E)
      /\ Len(list) = Len(entries) + Len(old)
      /\ \A i \in 1 .. Len(entries) : list[i] = entries[Len(entries) + 1 - i]
      /\ \A i \in 1 .. Len(old) : list[Len(entries) + i] = old[i]
  <2>1. /\ Prepended(old, entries) \in Seq(E)
        /\ Len(Prepended(old, entries)) = Len(entries) + Len(old)
        /\ \A i \in 1 .. Len(entries) :
              Prepended(old, entries)[i] = entries[Len(entries) + 1 - i]
        /\ \A i \in 1 .. Len(old) : Prepended(old, entries)[Len(entries) + i] = old[i]
    BY PrependedIs
  <2>. QED BY <1>1, <2>1
<1>3. /\ Collect(old, entries) \in Seq(E)
      /\ Len(Collect(old, entries)) = Len(list)
      /\ \A i \in 1 .. Len(list) : Collect(old, entries)[i] = list[Len(list) + 1 - i]
  BY <1>1, <1>2, ReverseList DEF Collect
<1>4. Len(entries) \in Nat /\ Len(old) \in Nat
  OBVIOUS
<1>5. ASSUME NEW i \in 1 .. Len(old) PROVE Collect(old, entries)[i] = old[Len(old) + 1 - i]
  <2>1. PICK j \in 1 .. Len(old) : j = Len(old) + 1 - i
    BY <1>4, Len(old) + 1 - i \in 1 .. Len(old)
  <2>2. i \in 1 .. Len(list) /\ Len(list) + 1 - i = Len(entries) + j
    BY <1>2, <1>4, <2>1
  <2>. QED BY <1>2, <1>3, <2>1, <2>2
<1>6. ASSUME NEW i \in 1 .. Len(entries) PROVE Collect(old, entries)[Len(old) + i] = entries[i]
  <2>1. PICK j \in 1 .. Len(entries) : j = Len(entries) + 1 - i
    BY <1>4, Len(entries) + 1 - i \in 1 .. Len(entries)
  <2>2. /\ Len(old) + i \in 1 .. Len(list)
        /\ Len(list) + 1 - (Len(old) + i) = j
        /\ Len(entries) + 1 - j = i
    BY <1>2, <1>4, <2>1
  <2>. QED BY <1>2, <1>3, <2>1, <2>2
<1>. QED BY <1>2, <1>3, <1>4, <1>5, <1>6 DEF Follows

\* A new list has the entries in their order.
LEMMA CollectOntoEmpty ==
  ASSUME NEW E, NEW old \in Seq(E), NEW entries \in Seq(E), Len(old) = 0
  PROVE  Collect(old, entries) = entries
<1>1. /\ Collect(old, entries) \in Seq(E)
      /\ Len(Collect(old, entries)) = Len(old) + Len(entries)
      /\ \A i \in 1 .. Len(entries) : Collect(old, entries)[Len(old) + i] = entries[i]
  <2>1. Collect(old, entries) \in Seq(E) /\ Follows(Collect(old, entries), old, entries)
    BY CollectOnto
  <2>. QED BY <2>1 DEF Follows
<1>2. Len(entries) \in Nat /\ \A i \in 1 .. Len(entries) : Len(old) + i = i
  OBVIOUS
<1>. QED BY <1>1, <1>2, SeqEqual

\* A list that is built from nothing is the entries, in their order.
LEMMA CollectFresh ==
  ASSUME NEW E, NEW entries \in Seq(E)
  PROVE  Collect(<<>>, entries) = entries
<1>1. <<>> \in Seq(E) /\ Len(<<>>) = 0
  OBVIOUS
<1>. QED BY <1>1, CollectOntoEmpty

\* The loop of Kept.
KeptLoop(f, E, table, places) ==
  /\ Kept(table, places) = f[Len(table)]
  /\ f[0] = <<>>
  /\ \A n \in 1 .. Len(table) : f[n] =
            (IF n \in places THEN Append(f[n - 1], table[n]) ELSE f[n - 1])
  /\ \A n \in 0 .. Len(table) : f[n] \in Seq(E)

\* It is that loop: its equation holds, step by step.
LEMMA KeptRuns ==
  ASSUME NEW E, NEW table \in Seq(E), NEW places
  PROVE  \E f : KeptLoop(f, E, table, places)
<1> DEFINE m == Len(table)
           X == Seq(E)
           base == <<>>
           step == [x \in X \X (1 .. m) |->
                     (IF x[2] \in places THEN Append(x[1], table[x[2]]) ELSE x[1])]
           Is(f) == f = [n \in 0 .. m |->
                     IF n = 0 THEN base ELSE (IF n \in places THEN Append(f[n - 1], table[n]) ELSE f[n - 1])]
           h == CHOOSE f : Is(f)
<1>1. Kept(table, places) = h[m]
  BY DEF Kept
<1>2. m \in Nat /\ base \in X
  OBVIOUS
<1>3. step \in Steps(m, X)
  BY DEF Steps
<1>4. \A x \in X : \A n \in 1 .. m : step[<<x, n>>] =
          (IF n \in places THEN Append(x, table[n]) ELSE x)
  OBVIOUS
<1>. HIDE DEF m, X, base, step
<1>5. PICK f : f \in [0 .. m -> X] /\ Runs(f, m, base, step)
  BY <1>2, <1>3, RecursionExists
<1>6. ASSUME NEW n \in 1 .. m PROVE n - 1 \in 0 .. m /\ n \in 0 .. m /\ n # 0
  BY <1>2
<1>7. Is(f)
  <2>1. \A n \in 1 .. m : f[n] = (IF n \in places THEN Append(f[n - 1], table[n]) ELSE f[n - 1])
    BY <1>4, <1>5, <1>6 DEF Runs
  <2>2. \A n \in 0 .. m : n = 0 \/ n \in 1 .. m
    BY <1>2
  <2>3. \A n \in 0 .. m : f[n] =
            IF n = 0 THEN base ELSE (IF n \in places THEN Append(f[n - 1], table[n]) ELSE f[n - 1])
    BY <2>1, <2>2, <1>5 DEF Runs
  <2>. QED BY <1>5, <2>3
<1>8. Is(h)
  BY <1>7
<1>. HIDE DEF h
<1>9. h[0] = base /\ \A n \in 1 .. m : h[n] =
          (IF n \in places THEN Append(h[n - 1], table[n]) ELSE h[n - 1])
  <2>1. \A n \in 0 .. m : h[n] =
            IF n = 0 THEN base ELSE (IF n \in places THEN Append(h[n - 1], table[n]) ELSE h[n - 1])
    BY <1>8
  <2>2. 0 \in 0 .. m
    BY <1>2
  <2>. QED BY <1>6, <2>1, <2>2
<1>10. \A n \in 0 .. m : h[n] \in X
  <2>1. h[0] = base
    BY <1>9
  <2>2. \A n \in 1 .. m : h[n - 1] \in X => h[n] = step[<<h[n - 1], n>>]
    BY <1>4, <1>9
  <2>. QED BY <1>2, <1>3, <2>1, <2>2, RecursionTyped
<1>11. KeptLoop(h, E, table, places)
  BY <1>1, <1>9, <1>10 DEF KeptLoop, m, X, base
<1>. QED BY <1>11

\* What is kept of a table are its places, each once and in their order.
KeepsOrder(list, table, places, at) ==
  /\ at \in Seq(places)
  /\ Len(at) = Len(list)
  /\ \A i, j \in 1 .. Len(list) : i < j => at[i] < at[j]
  /\ \A p \in places : \E i \in 1 .. Len(list) : at[i] = p
  /\ \A i \in 1 .. Len(list) : list[i] = table[at[i]]

\* Keeping one place more, behind all of the others, keeps the order.
LEMMA KeepStep ==
  ASSUME NEW E, NEW list \in Seq(E), NEW table, NEW n \in Nat, table[n] \in E,
         NEW S, \A p \in S : p \in 1 .. n - 1, NEW at, KeepsOrder(list, table, S, at)
  PROVE  KeepsOrder(Append(list, table[n]), table, S \cup {n}, Append(at, n))
<1> DEFINE T == S \cup {n}
           m == Len(list)
<1>1. PICK e \in E : e = table[n]
  OBVIOUS
<1>2. PICK longer : longer = Append(list, e)
  OBVIOUS
<1>3. m \in Nat /\ longer \in Seq(E) /\ Len(longer) = m + 1 /\ longer[m + 1] = e
      /\ \A i \in 1 .. m : longer[i] = list[i]
  BY <1>2
<1>4. /\ at \in Seq(S)
      /\ Len(at) = m
      /\ \A i, j \in 1 .. m : i < j => at[i] < at[j]
      /\ \A p \in S : \E i \in 1 .. m : at[i] = p
      /\ \A i \in 1 .. m : list[i] = table[at[i]]
  BY DEF KeepsOrder
<1>5. at \in Seq(T) /\ n \in T
  BY <1>4, SeqMonotonic
<1>6. PICK new : new = Append(at, n)
  OBVIOUS
<1>. HIDE DEF T, m
<1>7. /\ new \in Seq(T)
      /\ Len(new) = m + 1
      /\ new[m + 1] = n
      /\ \A i \in 1 .. m : new[i] = at[i]
  BY <1>4, <1>5, <1>6
<1>8. /\ \A i \in 1 .. m + 1 : i = m + 1 \/ i \in 1 .. m
      /\ \A i \in 1 .. m : i \in 1 .. m + 1
      /\ m + 1 \in 1 .. m + 1
  BY <1>3
<1>9. \A i \in 1 .. m : at[i] \in S
  BY <1>4
<1>10. ASSUME NEW i \in 1 .. m + 1, NEW j \in 1 .. m + 1, i < j PROVE new[i] < new[j]
  <2>1. i \in 1 .. m
    BY <1>3, <1>10
  <2>2. CASE j \in 1 .. m
    BY <2>1, <2>2, <1>4, <1>7, <1>10
  <2>3. CASE j = m + 1
    <3>1. at[i] \in 1 .. n - 1
      BY <2>1, <1>9
    <3>2. at[i] < n
      BY <3>1
    <3>. QED BY <2>1, <2>3, <3>2, <1>7
  <2>. QED BY <2>2, <2>3, <1>8
<1>11. \A p \in T : \E i \in 1 .. m + 1 : new[i] = p
  <2>1. ASSUME NEW p \in S PROVE \E i \in 1 .. m + 1 : new[i] = p
    BY <1>4, <1>7, <1>8
  <2>. QED BY <2>1, <1>7, <1>8 DEF T
<1>12. \A i \in 1 .. m + 1 : longer[i] = table[new[i]]
  BY <1>1, <1>3, <1>4, <1>7, <1>8
<1>13. KeepsOrder(longer, table, T, new)
  BY <1>3, <1>7, <1>10, <1>11, <1>12 DEF KeepsOrder
<1>. QED BY <1>1, <1>2, <1>6, <1>13 DEF T

\* The places up to the n-th entry.
UpToPlace(places, n) == {p \in places : p <= n}

\* None of the places before the loop, all of them after it.
LEMMA UpToPlaceEnds ==
  ASSUME NEW m \in Nat, NEW places, \A p \in places : p \in 1 .. m
  PROVE  UpToPlace(places, 0) = {} /\ UpToPlace(places, m) = places
<1>1. \A p \in places : ~(p <= 0) /\ p <= m
  OBVIOUS
<1>. QED BY <1>1 DEF UpToPlace

\* The loop keeps what it should, in the table's order.
LEMMA KeptInOrder ==
  ASSUME NEW E, NEW table \in Seq(E), NEW places \in SUBSET (1 .. Len(table))
  PROVE  /\ Kept(table, places) \in Seq(E)
         /\ \E at : KeepsOrder(Kept(table, places), table, places, at)
<1>1. PICK f : KeptLoop(f, E, table, places)
  BY KeptRuns
<1>2. /\ Kept(table, places) = f[Len(table)]
      /\ f[0] = <<>>
      /\ \A n \in 1 .. Len(table) :
           f[n] = IF n \in places THEN Append(f[n - 1], table[n]) ELSE f[n - 1]
      /\ \A n \in 0 .. Len(table) : f[n] \in Seq(E)
  BY <1>1 DEF KeptLoop
<1> DEFINE Before(n) == UpToPlace(places, n)
           S == {n \in 0 .. Len(table) : \E at : KeepsOrder(f[n], table, Before(n), at)}
<1>3. Len(table) \in Nat /\ \A p \in places : p \in 1 .. Len(table)
  OBVIOUS
<1>4. 0 \in S
  <2>1. Before(0) = {}
    BY <1>3, UpToPlaceEnds
  <2>2. Len(f[0]) = 0 /\ 1 .. 0 = {}
    BY <1>2
  <2>3. KeepsOrder(f[0], table, {}, <<>>)
    BY <2>2 DEF KeepsOrder
  <2>4. 0 \in 0 .. Len(table)
    BY <1>3
  <2>. HIDE DEF Before
  <2>. QED BY <2>1, <2>3, <2>4
<1>5. ASSUME NEW n \in 1 .. Len(table), n - 1 \in S PROVE n \in S
  <2>1. n \in 0 .. Len(table) /\ n - 1 \in 0 .. Len(table)
    BY <1>3
  <2>5. \A p \in places : p <= n <=> (p <= n - 1 \/ p = n)
    BY <1>3
  <2>2. PICK at : KeepsOrder(f[n - 1], table, Before(n - 1), at)
    BY <1>5
  <2>3. CASE n \in places
    <3>1. Before(n) = Before(n - 1) \cup {n}
      BY <2>3, <2>5 DEF UpToPlace
    <3>2. \A p \in Before(n - 1) : p \in 1 .. n - 1
      BY <2>5, <1>3 DEF UpToPlace
    <3>3. f[n - 1] \in Seq(E)
      BY <1>2, <2>1
    <3>. HIDE DEF Before
    <3>4. table[n] \in E /\ n \in Nat
      OBVIOUS
    <3>5. KeepsOrder(Append(f[n - 1], table[n]), table, Before(n - 1) \cup {n}, Append(at, n))
      BY <2>2, <3>2, <3>3, <3>4, KeepStep
    <3>. QED BY <2>1, <2>3, <3>1, <3>5, <1>2
  <2>4. CASE n \notin places
    <3>1. Before(n) = Before(n - 1)
      BY <2>4, <2>5 DEF UpToPlace
    <3>. HIDE DEF Before
    <3>. QED BY <2>1, <2>2, <2>4, <3>1, <1>2
  <2>. QED BY <2>3, <2>4
<1>6. Len(table) \in S
  <2>. HIDE DEF S
  <2>1. \A n \in 0 .. Len(table) : n \in S
    BY <1>3, <1>4, <1>5, UpTo
  <2>. QED BY <1>3, <2>1
<1>7. Before(Len(table)) = places
  BY <1>3, UpToPlaceEnds
<1>8. Len(table) \in 0 .. Len(table)
  BY <1>3
<1>. HIDE DEF Before
<1>. QED BY <1>2, <1>6, <1>7, <1>8

\* The places that are kept, as ListsAreComplete and FormatsAreOwn name them, of
\* a list with an entry for each.
LEMMA KeptPlaces ==
  ASSUME NEW E, NEW table \in Seq(E), NEW places \in SUBSET (1 .. Len(table))
  PROVE  /\ Len(Kept(table, places)) \in Nat
         /\ \E at : /\ at \in [1 .. Len(Kept(table, places)) -> places]
                    /\ \A i \in 1 .. Len(Kept(table, places)) :
                         Kept(table, places)[i] = table[at[i]]
                    /\ \A list : DOMAIN list = 1 .. Len(Kept(table, places)) =>
                         at \in InOrder(list, places)
<1> DEFINE kept == Kept(table, places)
           m == Len(kept)
<1>1. kept \in Seq(E) /\ \E at : KeepsOrder(kept, table, places, at)
  BY KeptInOrder
<1>. HIDE DEF kept
<1>2. PICK at : KeepsOrder(kept, table, places, at)
  BY <1>1
<1>3. m \in Nat
  BY <1>1
<1>4. /\ at \in Seq(places)
      /\ Len(at) = m
      /\ \A i, j \in 1 .. m : i < j => at[i] < at[j]
      /\ \A p \in places : \E i \in 1 .. m : at[i] = p
      /\ \A i \in 1 .. m : kept[i] = table[at[i]]
  BY <1>2 DEF KeepsOrder
<1>. HIDE DEF m
<1>5. at \in [1 .. m -> places]
  BY <1>4
<1>6. \A p \in places : p \in Nat
  BY Len(table) \in Nat
<1>7. ASSUME NEW i \in 1 .. m, NEW j \in 1 .. m, at[i] = at[j] PROVE i = j
  <2>1. at[i] \in Nat /\ at[j] \in Nat
    BY <1>5, <1>6
  <2>2. ~(i < j) /\ ~(j < i)
    BY <1>4, <1>7, <2>1
  <2>. QED BY <1>3, <2>2
<1>8. ASSUME NEW list, DOMAIN list = 1 .. m PROVE at \in InOrder(list, places)
  <2>1. at \in Injection(1 .. m, places)
    BY <1>5, <1>7 DEF Injection, IsInjective
  <2>2. at \in Surjection(1 .. m, places)
    BY <1>4, <1>5 DEF Surjection
  <2>. QED BY <1>4, <1>8, <2>1, <2>2 DEF InOrder, Bijection
<1>. QED BY <1>3, <1>4, <1>5, <1>8 DEF kept, m

\* The URLs that ScanUrls takes from a table.
UrlsIn(table) == LET kept == Kept(table, StringsIn(table))
                 IN  [n \in 1 .. Len(kept) |-> kept[n].url]

\* Each URL of a table stands for the place of a string, and each such place has one.
UrlPlaces(urls, table, at) ==
  /\ at \in [1 .. Len(urls) -> StringsIn(table)]
  /\ \A i, j \in 1 .. Len(urls) : at[i] = at[j] => i = j
  /\ \A p \in StringsIn(table) : \E i \in 1 .. Len(urls) : at[i] = p
  /\ \A i \in 1 .. Len(urls) : urls[i] = table[at[i]].url

\* Entries that are not strings are passed over, nothing else is.
LEMMA UrlsInIs ==
  ASSUME NEW table \in Seq(ScanEntries)
  PROVE  UrlsIn(table) \in Seq(STRING) /\ \E at : UrlPlaces(UrlsIn(table), table, at)
<1> DEFINE kept == Kept(table, StringsIn(table))
           m == Len(kept)
           urls == [n \in 1 .. m |-> kept[n].url]
<1>1. StringsIn(table) \in SUBSET (1 .. Len(table))
  BY DEF StringsIn
<1>2. ASSUME NEW p \in StringsIn(table) PROVE table[p].url \in STRING
  <2>1. table[p] \in ScanEntries /\ table[p].string
    BY DEF StringsIn
  <2>. QED BY <2>1 DEF ScanEntries
<1>3. m \in Nat
  BY <1>1, KeptPlaces
<1>4. PICK at : /\ at \in [1 .. m -> StringsIn(table)]
                /\ \A i \in 1 .. m : kept[i] = table[at[i]]
                /\ \A any : DOMAIN any = 1 .. m => at \in InOrder(any, StringsIn(table))
  BY <1>1, KeptPlaces
<1>5. \A n \in 1 .. m : urls[n] = table[at[n]].url /\ urls[n] \in STRING
  BY <1>2, <1>4
<1>. HIDE DEF kept, m
<1>6. urls \in Seq(STRING) /\ Len(urls) = m /\ DOMAIN urls = 1 .. m
  BY <1>3, <1>5
<1>7. /\ \A i, j \in 1 .. m : at[i] = at[j] => i = j
      /\ \A p \in StringsIn(table) : \E i \in 1 .. m : at[i] = p
  <2>1. at \in Bijection(1 .. m, StringsIn(table))
    BY <1>4, <1>6 DEF InOrder
  <2>. QED BY <2>1 DEF Bijection, Injection, Surjection, IsInjective
<1>8. UrlsIn(table) = urls
  BY DEF UrlsIn, kept, m
<1>. HIDE DEF urls
<1>9. UrlPlaces(urls, table, at)
  BY <1>4, <1>5, <1>6, <1>7 DEF UrlPlaces
<1>. QED BY <1>6, <1>8, <1>9

\* They come behind the list there is, which is turned round.
LEMMA ScanUrlsFollow ==
  ASSUME NEW urls \in Seq(STRING), NEW table \in Seq(ScanEntries)
  PROVE  /\ ScanUrls(urls, table) \in Seq(STRING)
         /\ Follows(ScanUrls(urls, table), urls, UrlsIn(table))
<1>1. ScanUrls(urls, table) = Collect(urls, UrlsIn(table))
  BY DEF ScanUrls, UrlsIn
<1>2. UrlsIn(table) \in Seq(STRING)
  BY UrlsInIs
<1>. QED BY <1>1, <1>2, CollectOnto

\* The loop of UrlsOf.
UrlsLoop(f, tables) ==
  /\ UrlsOf(tables) = f[Len(tables)]
  /\ f[0] = <<>>
  /\ \A n \in 1 .. Len(tables) : f[n] = ScanUrls(f[n - 1], tables[n])
  /\ \A n \in 0 .. Len(tables) : f[n] \in Seq(STRING)

\* It is that loop: its equation holds, step by step.
LEMMA UrlsRuns ==
  ASSUME NEW tables \in Seq(Seq(ScanEntries))
  PROVE  \E f : UrlsLoop(f, tables)
<1> DEFINE m == Len(tables)
           X == Seq(STRING)
           base == <<>>
           step == [x \in X \X (1 .. m) |-> ScanUrls(x[1], tables[x[2]])]
           Is(f) == f = [n \in 0 .. m |-> IF n = 0 THEN base ELSE ScanUrls(f[n - 1], tables[n])]
           h == CHOOSE f : Is(f)
<1>1. UrlsOf(tables) = h[m]
  BY DEF UrlsOf
<1>2. m \in Nat /\ base \in X
  OBVIOUS
<1>3. step \in Steps(m, X)
  <2>1. ASSUME NEW x \in X, NEW n \in 1 .. m PROVE ScanUrls(x, tables[n]) \in X
    <3>1. tables[n] \in Seq(ScanEntries)
      OBVIOUS
    <3>. QED BY <3>1, ScanUrlsFollow
  <2>. QED BY <2>1 DEF Steps
<1>4. \A x \in X : \A n \in 1 .. m : step[<<x, n>>] = ScanUrls(x, tables[n])
  OBVIOUS
<1>. HIDE DEF m, X, base, step
<1>5. PICK f : f \in [0 .. m -> X] /\ Runs(f, m, base, step)
  BY <1>2, <1>3, RecursionExists
<1>6. ASSUME NEW n \in 1 .. m PROVE n - 1 \in 0 .. m /\ n \in 0 .. m /\ n # 0
  BY <1>2
<1>7. Is(f)
  <2>1. \A n \in 1 .. m : f[n] = ScanUrls(f[n - 1], tables[n])
    BY <1>4, <1>5, <1>6 DEF Runs
  <2>2. \A n \in 0 .. m : n = 0 \/ n \in 1 .. m
    BY <1>2
  <2>3. \A n \in 0 .. m : f[n] = IF n = 0 THEN base ELSE ScanUrls(f[n - 1], tables[n])
    BY <2>1, <2>2, <1>5 DEF Runs
  <2>. QED BY <1>5, <2>3
<1>8. Is(h)
  BY <1>7
<1>. HIDE DEF h
<1>9. h[0] = base /\ \A n \in 1 .. m : h[n] = ScanUrls(h[n - 1], tables[n])
  <2>1. \A n \in 0 .. m : h[n] = IF n = 0 THEN base ELSE ScanUrls(h[n - 1], tables[n])
    BY <1>8
  <2>2. 0 \in 0 .. m
    BY <1>2
  <2>. QED BY <1>6, <2>1, <2>2
<1>10. \A n \in 0 .. m : h[n] \in X
  <2>1. h[0] = base
    BY <1>9
  <2>2. \A n \in 1 .. m : h[n - 1] \in X => h[n] = step[<<h[n - 1], n>>]
    BY <1>4, <1>9
  <2>. QED BY <1>2, <1>3, <2>1, <2>2, RecursionTyped
<1>11. UrlsLoop(h, tables)
  BY <1>1, <1>9, <1>10 DEF UrlsLoop, m, X, base
<1>. QED BY <1>11

\* The streams of a valid table: at least one, and each is what its place says.
LEMMA StreamsOfTable ==
  ASSUME NEW table \in MediaTables, StreamsAreValid(table)
  PROVE  /\ StreamsOf(table) \in Seq(Streams)
         /\ Len(StreamsOf(table)) # 0
         /\ \E at \in InOrder(StreamsOf(table), TablesIn(table)) :
              \A n \in DOMAIN StreamsOf(table) :
                StreamsOf(table)[n] = NewStream(table[at[n]])
<1> DEFINE kept == Kept(table, TablesIn(table))
           m == Len(kept)
           list == [n \in 1 .. m |-> NewStream(kept[n])]
<1>1. table \in Seq(MediaEntries)
  BY TablesAssumption
<1>2. TablesIn(table) \in SUBSET (1 .. Len(table))
  BY DEF TablesIn
<1>3. ASSUME NEW p \in TablesIn(table) PROVE NewStream(table[p]) \in Streams
  <2>1. table[p] \in MediaEntries /\ table[p].table
    BY <1>1 DEF TablesIn
  <2>2. table[p].id \in Ids /\ table[p].best \in BOOLEAN
    BY <2>1 DEF MediaEntries, Dropped
  <2>. QED BY <2>2 DEF NewStream, Streams
<1>4. m \in Nat
  BY <1>1, <1>2, KeptPlaces
<1>5. PICK at : /\ at \in [1 .. m -> TablesIn(table)]
                /\ \A i \in 1 .. m : kept[i] = table[at[i]]
                /\ \A any : DOMAIN any = 1 .. m => at \in InOrder(any, TablesIn(table))
  BY <1>1, <1>2, KeptPlaces
<1>6. \A n \in 1 .. m : list[n] = NewStream(table[at[n]]) /\ list[n] \in Streams
  BY <1>3, <1>5
<1>. HIDE DEF kept, m
<1>7. list \in Seq(Streams) /\ Len(list) = m /\ DOMAIN list = 1 .. m
  BY <1>4, <1>6
<1>8. StreamsOf(table) = list
  <2>1. Collect(<<>>, list) = list
    <3>. HIDE DEF list
    <3>. QED BY <1>7, CollectFresh
  <2>. QED BY <2>1 DEF StreamsOf, kept, m
<1>9. m # 0
  <2>1. PICK p : p \in TablesIn(table)
    BY DEF StreamsAreValid
  <2>2. at \in Surjection(1 .. m, TablesIn(table))
    BY <1>5, <1>7 DEF InOrder, Bijection
  <2>3. PICK i \in 1 .. m : at[i] = p
    BY <2>1, <2>2 DEF Surjection
  <2>. QED BY <1>4, <2>3
<1>10. at \in InOrder(list, TablesIn(table))
  BY <1>5, <1>7
<1>11. \E x \in InOrder(list, TablesIn(table)) :
         \A n \in DOMAIN list : list[n] = NewStream(table[x[n]])
  <2>. HIDE DEF list
  <2>. QED BY <1>6, <1>7, <1>10
<1>. HIDE DEF list
<1>. QED BY <1>7, <1>8, <1>9, <1>11

\* The types of a table: each has its languages and its format.
TypesOf(table, read) ==
  LET kept == Kept(table, WithLanguages(table))
  IN  Collect(<<>>, [n \in 1 .. Len(kept) |-> NewType(kept[n], read[n])])

\* A type has the format and the languages of an entry of the table.
TypeFits(t, entry) ==
  /\ t.format = entry.format
  /\ \A m \in DOMAIN t.langs : t.langs[m].format \in {t.format, -1}
  /\ [m \in DOMAIN t.langs |-> t.langs[m].id] = entry.langs

\* A new type has the format and the languages of its entry.
LEMMA NewTypeIs ==
  ASSUME NEW entry \in SubtitleEntries, entry.table, entry.langs # <<>>, NEW read \in BOOLEAN
  PROVE  LET t == NewType(entry, read)
         IN  /\ t \in Type
             /\ t.curr = 0
             /\ t.langs # <<>>
             /\ TypeFits(t, entry)
<1> DEFINE format == FormatSoFar(entry, read)
           ids == entry.langs
           langs == [n \in 1 .. Len(ids) |-> NewLang(ids[n], format)]
<1>1. ids \in Seq(Ids) /\ entry.format \in Formats /\ ids # <<>>
  BY DEF SubtitleEntries, Dropped
<1>2. format \in {entry.format, -1}
  BY DEF FormatSoFar
<1>. HIDE DEF format, ids
<1>3. /\ langs \in Seq(Lang) /\ Len(langs) = Len(ids) /\ DOMAIN langs = 1 .. Len(ids)
      /\ \A n \in 1 .. Len(ids) : langs[n].format = format /\ langs[n].id = ids[n]
  BY <1>1, <1>2 DEF NewLang, Lang
<1>4. Len(ids) # 0
  BY <1>1
<1>5. [m \in DOMAIN langs |-> langs[m].id] = ids
  BY <1>1, <1>3
<1>6. Collect(<<>>, langs) = langs
  <2>. HIDE DEF langs
  <2>. QED BY <1>3, CollectFresh
<1>7. NewType(entry, read) = [langs |-> langs, curr |-> 0, format |-> entry.format]
  BY <1>6 DEF NewType, format, ids
<1>. HIDE DEF langs
<1>. QED BY <1>1, <1>2, <1>3, <1>4, <1>5, <1>7 DEF Type, TypeFits, ids

\* The types of a table: every one has a language, and is what its place says.
LEMMA TypesOfTable ==
  ASSUME NEW table \in SubtitleTables,
         NEW read \in [1 .. Len(Kept(table, WithLanguages(table))) -> BOOLEAN]
  PROVE  /\ TypesOf(table, read) \in Seq(Type)
         /\ \A n \in 1 .. Len(TypesOf(table, read)) :
              TypesOf(table, read)[n].curr = 0 /\ TypesOf(table, read)[n].langs # <<>>
         /\ \E at \in InOrder(TypesOf(table, read), WithLanguages(table)) :
              \A n \in DOMAIN TypesOf(table, read) :
                TypeFits(TypesOf(table, read)[n], table[at[n]])
<1> DEFINE kept == Kept(table, WithLanguages(table))
           m == Len(kept)
           list == [n \in 1 .. m |-> NewType(kept[n], read[n])]
<1>1. table \in Seq(SubtitleEntries)
  BY TablesAssumption
<1>2. WithLanguages(table) \in SUBSET (1 .. Len(table))
  BY DEF WithLanguages, TablesIn
<1>3. ASSUME NEW p \in WithLanguages(table), NEW b \in BOOLEAN
      PROVE  /\ NewType(table[p], b) \in Type
             /\ NewType(table[p], b).curr = 0 /\ NewType(table[p], b).langs # <<>>
             /\ TypeFits(NewType(table[p], b), table[p])
  <2>1. table[p] \in SubtitleEntries /\ table[p].table /\ table[p].langs # <<>>
    BY <1>1 DEF WithLanguages, TablesIn
  <2>2. LET t == NewType(table[p], b)
        IN  /\ t \in Type
            /\ t.curr = 0
            /\ t.langs # <<>>
            /\ TypeFits(t, table[p])
    BY <2>1, NewTypeIs
  <2>. QED BY <2>2
<1>4. m \in Nat
  BY <1>1, <1>2, KeptPlaces
<1>5. PICK at : /\ at \in [1 .. m -> WithLanguages(table)]
                /\ \A i \in 1 .. m : kept[i] = table[at[i]]
                /\ \A any : DOMAIN any = 1 .. m => at \in InOrder(any, WithLanguages(table))
  BY <1>1, <1>2, KeptPlaces
<1>6. ASSUME NEW n \in 1 .. m
      PROVE  /\ list[n] \in Type /\ list[n].curr = 0 /\ list[n].langs # <<>>
             /\ TypeFits(list[n], table[at[n]])
  <2>1. at[n] \in WithLanguages(table) /\ read[n] \in BOOLEAN
    BY <1>5
  <2>2. list[n] = NewType(table[at[n]], read[n])
    BY <1>5
  <2>. HIDE DEF list
  <2>. QED BY <1>3, <2>1, <2>2
<1>. HIDE DEF kept, m
<1>7. list \in Seq(Type) /\ Len(list) = m /\ DOMAIN list = 1 .. m
  BY <1>4, <1>6
<1>8. TypesOf(table, read) = list
  <2>1. Collect(<<>>, list) = list
    <3>. HIDE DEF list
    <3>. QED BY <1>7, CollectFresh
  <2>. QED BY <2>1 DEF TypesOf, kept, m
<1>9. at \in InOrder(list, WithLanguages(table))
  BY <1>5, <1>7
<1>. HIDE DEF list
<1>10. \E x \in InOrder(list, WithLanguages(table)) :
         \A n \in DOMAIN list : TypeFits(list[n], table[x[n]])
  BY <1>6, <1>7, <1>9
<1>. QED BY <1>6, <1>7, <1>8, <1>10

\* The items of a playlist.
ItemsOf(table) == LET kept == Kept(table, TablesIn(table))
                  IN  Collect(<<>>, [n \in 1 .. Len(kept) |-> NewItem(kept[n])])

\* Each item is what its place says.
LEMMA ItemsOfTable ==
  ASSUME NEW table \in PlaylistTables
  PROVE  /\ ItemsOf(table) \in Seq(Ids)
         /\ \E at \in InOrder(ItemsOf(table), TablesIn(table)) :
              \A n \in DOMAIN ItemsOf(table) : ItemsOf(table)[n] = NewItem(table[at[n]])
<1> DEFINE kept == Kept(table, TablesIn(table))
           m == Len(kept)
           new == [n \in 1 .. m |-> NewItem(kept[n])]
<1>1. table \in Seq(PlaylistEntries)
  BY TablesAssumption
<1>2. TablesIn(table) \in SUBSET (1 .. Len(table))
  BY DEF TablesIn
<1>3. ASSUME NEW p \in TablesIn(table) PROVE NewItem(table[p]) \in Ids
  <2>1. table[p] \in PlaylistEntries /\ table[p].table
    BY <1>1 DEF TablesIn
  <2>. QED BY <2>1 DEF PlaylistEntries, Dropped, NewItem
<1>4. m \in Nat
  BY <1>1, <1>2, KeptPlaces
<1>5. PICK at : /\ at \in [1 .. m -> TablesIn(table)]
                /\ \A i \in 1 .. m : kept[i] = table[at[i]]
                /\ \A any : DOMAIN any = 1 .. m => at \in InOrder(any, TablesIn(table))
  BY <1>1, <1>2, KeptPlaces
<1>6. \A n \in 1 .. m : new[n] = NewItem(table[at[n]]) /\ new[n] \in Ids
  BY <1>3, <1>5
<1>. HIDE DEF kept, m
<1>7. new \in Seq(Ids) /\ Len(new) = m /\ DOMAIN new = 1 .. m
  BY <1>4, <1>6
<1>8. ItemsOf(table) = new
  <2>1. Collect(<<>>, new) = new
    <3>. HIDE DEF new
    <3>. QED BY <1>7, CollectFresh
  <2>. QED BY <2>1 DEF ItemsOf, kept, m
<1>9. at \in InOrder(new, TablesIn(table))
  BY <1>5, <1>7
<1>10. \E x \in InOrder(new, TablesIn(table)) :
         \A n \in DOMAIN new : new[n] = NewItem(table[x[n]])
  <2>. HIDE DEF new
  <2>. QED BY <1>6, <1>7, <1>9
<1>. HIDE DEF new
<1>. QED BY <1>7, <1>8, <1>10

\* The places of strings, table by table.
LEMMA StringPlacesAre ==
  ASSUME NEW tables \in Seq(Seq(ScanEntries))
  PROVE  \A p : p \in StringPlaces(tables) <=>
               \E a \in 1 .. Len(tables) : \E b \in StringsIn(tables[a]) : p = <<a, b>>
<1>1. /\ DOMAIN tables = 1 .. Len(tables)
      /\ \A a \in 1 .. Len(tables) : DOMAIN tables[a] = 1 .. Len(tables[a])
  OBVIOUS
<1>2. \A p : p \in Places(tables) <=>
            \E a \in 1 .. Len(tables) : \E b \in 1 .. Len(tables[a]) : p = <<a, b>>
  BY <1>1 DEF Places
<1>. QED BY <1>2 DEF StringPlaces, StringsIn

\* Each URL of the list stands for one place in the scripts' tables.
StandFor(urls, tables, places, at) ==
  /\ at \in [1 .. Len(urls) -> places]
  /\ \A i, j \in 1 .. Len(urls) : at[i] = at[j] => i = j
  /\ \A p \in places : \E i \in 1 .. Len(urls) : at[i] = p
  /\ \A i \in 1 .. Len(urls) : urls[i] = tables[at[i][1]][at[i][2]].url

PlacesUpTo(tables, n) == {p \in StringPlaces(tables) : p[1] <= n}

\* The URLs of one script more, with those there were turned round.
LEMMA ScanStep ==
  ASSUME NEW tables \in Seq(Seq(ScanEntries)), NEW n \in 1 .. Len(tables),
         NEW urls \in Seq(STRING), NEW at, StandFor(urls, tables, PlacesUpTo(tables, n - 1), at)
  PROVE  \E new : StandFor(ScanUrls(urls, tables[n]), tables, PlacesUpTo(tables, n), new)
<1> DEFINE old == PlacesUpTo(tables, n - 1)
           longer == ScanUrls(urls, tables[n])
           m == Len(urls)
           more == UrlsIn(tables[n])
           k == Len(more)
<1>0. tables[n] \in Seq(ScanEntries) /\ Len(tables) \in Nat
  OBVIOUS
<1>0a. more \in Seq(STRING) /\ \E x : UrlPlaces(more, tables[n], x)
  BY <1>0, UrlsInIs
<1>0b. PICK places : UrlPlaces(more, tables[n], places)
  BY <1>0a
<1> DEFINE new == [i \in 1 .. m + k |-> IF i <= m THEN at[m + 1 - i] ELSE <<n, places[i - m]>>]
<1>1. m \in Nat /\ k \in Nat /\ n \in Nat /\ Len(tables) \in Nat
  BY <1>0, <1>0a
<1>2. longer \in Seq(STRING) /\ Follows(longer, urls, more)
  BY <1>0, ScanUrlsFollow
<1>3. /\ Len(longer) = m + k
      /\ \A i \in 1 .. m : longer[i] = urls[m + 1 - i]
      /\ \A i \in 1 .. k : longer[m + i] = tables[n][places[i]].url
  <2>1. \A i \in 1 .. k : more[i] = tables[n][places[i]].url
    BY <1>0b DEF UrlPlaces
  <2>. QED BY <1>2, <2>1 DEF Follows
<1>4. /\ at \in [1 .. m -> old]
      /\ \A i, j \in 1 .. m : at[i] = at[j] => i = j
      /\ \A p \in old : \E i \in 1 .. m : at[i] = p
      /\ \A i \in 1 .. m : urls[i] = tables[at[i][1]][at[i][2]].url
  BY DEF StandFor
<1>4a. /\ \A i \in 1 .. k : places[i] \in StringsIn(tables[n])
       /\ \A i, j \in 1 .. k : places[i] = places[j] => i = j
       /\ \A p \in StringsIn(tables[n]) : \E i \in 1 .. k : places[i] = p
  BY <1>0b DEF UrlPlaces
<1>5. \A p : p \in PlacesUpTo(tables, n) <=> p \in old \/ \E i \in 1 .. k : p = <<n, places[i]>>
  <2>1. \A p : p \in StringPlaces(tables) <=>
              \E a \in 1 .. Len(tables) : \E b \in StringsIn(tables[a]) : p = <<a, b>>
    BY StringPlacesAre
  <2>2. \A a \in 1 .. Len(tables) : a <= n <=> (a <= n - 1 \/ a = n)
    BY <1>1
  <2>3. ASSUME NEW p \in StringPlaces(tables)
        PROVE  p[1] <= n <=> (p[1] <= n - 1 \/ p[1] = n)
    <3>1. PICK a \in 1 .. Len(tables) : \E b \in StringsIn(tables[a]) : p = <<a, b>>
      BY <2>1
    <3>. QED BY <3>1, <2>2
  <2>4. ASSUME NEW p
        PROVE  p \in StringPlaces(tables) /\ p[1] = n <=> \E b \in StringsIn(tables[n]) : p = <<n, b>>
    BY <2>1
  <2>5. ASSUME NEW p
        PROVE  (\E b \in StringsIn(tables[n]) : p = <<n, b>>) <=>
                 \E i \in 1 .. k : p = <<n, places[i]>>
    BY <1>4a
  <2>. QED BY <2>3, <2>4, <2>5 DEF PlacesUpTo
<1>6. \A p \in old : p[1] # n
  <2>2. \A p \in StringPlaces(tables) : p[1] \in 1 .. Len(tables)
    BY StringPlacesAre
  <2>3. \A a \in 1 .. Len(tables) : a <= n - 1 => a # n
    BY <1>1
  <2>. QED BY <2>2, <2>3 DEF PlacesUpTo
<1>. HIDE DEF old, longer, m, k, more
<1>7. /\ \A i \in 1 .. m + k : i <= m => m + 1 - i \in 1 .. m /\ i \in 1 .. m
      /\ \A i \in 1 .. m + k : ~(i <= m) => i - m \in 1 .. k /\ m + (i - m) = i
  BY <1>1
<1>8. /\ \A i \in 1 .. m + k : i <= m => new[i] = at[m + 1 - i] /\ new[i] \in old
      /\ \A i \in 1 .. m + k : ~(i <= m) => new[i] = <<n, places[i - m]>>
  BY <1>4, <1>7
<1>9. new \in [1 .. m + k -> PlacesUpTo(tables, n)]
  <2>1. \A i \in 1 .. m + k : new[i] \in PlacesUpTo(tables, n)
    <3>. HIDE DEF new
    <3>. QED BY <1>5, <1>7, <1>8
  <2>. QED BY <2>1
<1>. HIDE DEF new
<1>10. ASSUME NEW i \in 1 .. m + k, NEW j \in 1 .. m + k, new[i] = new[j] PROVE i = j
  <2>1. CASE i <= m /\ j <= m
    <3>1. m + 1 - i = m + 1 - j
      BY <2>1, <1>4, <1>7, <1>8, <1>10
    <3>. QED BY <3>1, <1>1
  <2>2. CASE ~(i <= m) /\ ~(j <= m)
    <3>1. places[i - m] = places[j - m]
      BY <2>2, <1>8, <1>10
    <3>2. i - m = j - m
      BY <2>2, <3>1, <1>4a, <1>7
    <3>. QED BY <3>2, <1>1
  <2>3. CASE i <= m /\ ~(j <= m)
    BY <2>3, <1>6, <1>8, <1>10
  <2>4. CASE ~(i <= m) /\ j <= m
    BY <2>4, <1>6, <1>8, <1>10
  <2>. QED BY <2>1, <2>2, <2>3, <2>4
<1>11. ASSUME NEW p \in PlacesUpTo(tables, n) PROVE \E i \in 1 .. m + k : new[i] = p
  <2>1. CASE p \in old
    <3>1. PICK j \in 1 .. m : at[j] = p
      BY <2>1, <1>4
    <3>2. PICK i : i = m + 1 - j
      OBVIOUS
    <3>3. i \in 1 .. m + k /\ i <= m /\ m + 1 - i = j
      BY <3>2, <1>1
    <3>. QED BY <3>1, <3>3, <1>8
  <2>2. CASE \E i \in 1 .. k : p = <<n, places[i]>>
    <3>1. PICK j \in 1 .. k : p = <<n, places[j]>>
      BY <2>2
    <3>2. PICK i : i = m + j
      OBVIOUS
    <3>3. i \in 1 .. m + k /\ ~(i <= m) /\ i - m = j
      BY <3>2, <1>1
    <3>. QED BY <3>1, <3>3, <1>8
  <2>. QED BY <2>1, <2>2, <1>5
<1>12. ASSUME NEW i \in 1 .. m + k PROVE longer[i] = tables[new[i][1]][new[i][2]].url
  <2>1. CASE i <= m
    <3>1. PICK j \in 1 .. m : j = m + 1 - i
      BY <2>1, <1>7
    <3>2. longer[i] = urls[j] /\ new[i] = at[j]
      BY <2>1, <3>1, <1>3, <1>7, <1>8
    <3>. QED BY <3>2, <1>4
  <2>2. CASE ~(i <= m)
    <3>1. i - m \in 1 .. k /\ m + (i - m) = i
      BY <2>2, <1>7
    <3>2. PICK j \in 1 .. k : j = i - m
      BY <3>1
    <3>3. longer[i] = tables[n][places[j]].url
      BY <3>1, <3>2, <1>3
    <3>4. new[i][1] = n /\ new[i][2] = places[j]
      BY <2>2, <3>2, <1>8
    <3>. QED BY <3>3, <3>4
  <2>. QED BY <2>1, <2>2
<1>13. StandFor(longer, tables, PlacesUpTo(tables, n), new)
  BY <1>3, <1>9, <1>10, <1>11, <1>12 DEF StandFor
<1>. QED BY <1>13 DEF longer

\* Each URL of each script stands in the list once.
LEMMA UrlsOfTables ==
  ASSUME NEW tables \in Seq(Seq(ScanEntries))
  PROVE  /\ UrlsOf(tables) \in Seq(STRING)
         /\ \E at \in Bijection(DOMAIN UrlsOf(tables), StringPlaces(tables)) :
              \A n \in DOMAIN UrlsOf(tables) :
                UrlsOf(tables)[n] = tables[at[n][1]][at[n][2]].url
<1>1. PICK f : UrlsLoop(f, tables)
  BY UrlsRuns
<1>2. /\ UrlsOf(tables) = f[Len(tables)]
      /\ f[0] = <<>>
      /\ \A n \in 1 .. Len(tables) : f[n] = ScanUrls(f[n - 1], tables[n])
      /\ \A n \in 0 .. Len(tables) : f[n] \in Seq(STRING)
  BY <1>1 DEF UrlsLoop
<1> DEFINE S == {n \in 0 .. Len(tables) :
                   \E at : StandFor(f[n], tables, PlacesUpTo(tables, n), at)}
<1>3. Len(tables) \in Nat /\ Len(tables) \in 0 .. Len(tables) /\ 0 \in 0 .. Len(tables)
  OBVIOUS
<1>4. \A p \in StringPlaces(tables) : ~(p[1] <= 0) /\ p[1] <= Len(tables)
  <2>2. \A p \in StringPlaces(tables) : p[1] \in 1 .. Len(tables)
    BY StringPlacesAre
  <2>3. \A a \in 1 .. Len(tables) : ~(a <= 0) /\ a <= Len(tables)
    OBVIOUS
  <2>. QED BY <2>2, <2>3
<1>5. 0 \in S
  <2>1. PlacesUpTo(tables, 0) = {}
    BY <1>4 DEF PlacesUpTo
  <2>2. Len(f[0]) = 0 /\ 1 .. 0 = {}
    BY <1>2
  <2>3. StandFor(f[0], tables, {}, [i \in 1 .. 0 |-> i])
    BY <2>2 DEF StandFor
  <2>. QED BY <1>3, <2>1, <2>3
<1>6. ASSUME NEW n \in 1 .. Len(tables), n - 1 \in S PROVE n \in S
  <2>1. n \in 0 .. Len(tables) /\ n - 1 \in 0 .. Len(tables)
    BY <1>3
  <2>2. PICK at : StandFor(f[n - 1], tables, PlacesUpTo(tables, n - 1), at)
    BY <1>6
  <2>3. f[n - 1] \in Seq(STRING)
    BY <1>2, <2>1
  <2>4. \E new : StandFor(ScanUrls(f[n - 1], tables[n]), tables, PlacesUpTo(tables, n), new)
    BY <2>2, <2>3, ScanStep
  <2>. QED BY <1>2, <2>1, <2>4
<1>7. Len(tables) \in S
  <2>. HIDE DEF S
  <2>1. \A n \in 0 .. Len(tables) : n \in S
    BY <1>3, <1>5, <1>6, UpTo
  <2>. QED BY <1>3, <2>1
<1>8. PlacesUpTo(tables, Len(tables)) = StringPlaces(tables)
  BY <1>4 DEF PlacesUpTo
<1> DEFINE urls == UrlsOf(tables)
<1>9. PICK at : StandFor(urls, tables, StringPlaces(tables), at)
  BY <1>2, <1>7, <1>8
<1>10. urls \in Seq(STRING)
  BY <1>2, <1>3
<1>. HIDE DEF urls
<1>11. DOMAIN urls = 1 .. Len(urls)
  BY <1>10
<1>12. at \in Bijection(DOMAIN urls, StringPlaces(tables))
  BY <1>9, <1>11 DEF StandFor, Bijection, Injection, Surjection, IsInjective
<1>13. \A n \in DOMAIN urls : urls[n] = tables[at[n][1]][at[n][2]].url
  BY <1>9, <1>11 DEF StandFor
<1>. QED BY <1>10, <1>12, <1>13 DEF urls

-----------------------------------------------------------------------------
(* What the loops that look for something find.                             *)

\* A cursor that moves stays in its list or becomes NULL.
LEMMA FollowingIs ==
  ASSUME NEW list, Len(list) \in Nat, NEW curr \in Nat
  PROVE  /\ Following(list, curr) \in 0 .. Len(list)
         /\ Following(list, 0) = IF Len(list) = 0 THEN 0 ELSE 1
  BY DEF Following

\* The first hit behind the cursor, or NULL when there is none.
LEMMA FirstFromIs ==
  ASSUME NEW hits, \A n \in hits : n \in Nat, NEW curr \in Nat
  PROVE  \/ FirstFrom(hits, curr) = 0 /\ \A n \in hits : ~(n > curr)
         \/ /\ FirstFrom(hits, curr) \in hits
            /\ FirstFrom(hits, curr) > curr
            /\ \A n \in hits : n > curr => FirstFrom(hits, curr) <= n
<1> DEFINE ahead == {n \in hits : n > curr}
<1>1. CASE ahead = {}
  BY <1>1 DEF FirstFrom
<1>2. CASE ahead # {}
  <2>1. PICK x \in ahead : \A y \in ahead : x <= y
    BY <1>2, Least, ahead \in SUBSET Nat
  <2>2. FirstFrom(hits, curr) = CHOOSE n \in ahead : \A m \in ahead : n <= m
    BY <1>2 DEF FirstFrom
  <2>3. FirstFrom(hits, curr) \in ahead /\ \A m \in ahead : FirstFrom(hits, curr) <= m
    <3>. HIDE DEF ahead
    <3>. QED BY <2>1, <2>2
  <2>. QED BY <2>3
<1>. QED BY <1>1, <1>2

\* The same from NULL on: the first of all hits.
LEMMA FirstFromStart ==
  ASSUME NEW hits, \A n \in hits : n \in Nat /\ n # 0
  PROVE  /\ hits = {} => FirstFrom(hits, 0) = 0
         /\ hits # {} => /\ FirstFrom(hits, 0) \in hits
                         /\ FirstFrom(hits, 0) # 0
                         /\ \A n \in hits : FirstFrom(hits, 0) <= n
<1>1. \A n \in hits : n > 0
  OBVIOUS
<1>. QED BY <1>1, FirstFromIs

\* The least place of a set is unique.
LEMMA FirstIs ==
  ASSUME NEW S, \A n \in S : n \in Nat, NEW x \in S, \A y \in S : x <= y
  PROVE  First(S) = x
<1>1. First(S) \in S /\ \A q \in S : First(S) <= q
  BY DEF First
<1>2. First(S) <= x /\ x <= First(S) /\ x \in Nat /\ First(S) \in Nat
  BY <1>1
<1>. QED BY <1>2

\* The least hit, as the properties name it.
LEMMA FirstOrIs ==
  ASSUME NEW hits, \A n \in hits : n \in Nat /\ n # 0, NEW default
  PROVE  /\ hits = {} => FirstOr(hits, default) = default
         /\ hits # {} => FirstOr(hits, default) = FirstFrom(hits, 0)
<1>1. ASSUME hits # {} PROVE First(hits) = FirstFrom(hits, 0)
  <2>1. PICK x : x = FirstFrom(hits, 0)
    OBVIOUS
  <2>2. x \in hits /\ \A n \in hits : x <= n
    BY <1>1, <2>1, FirstFromStart
  <2>. QED BY <2>1, <2>2, FirstIs
<1>. QED BY <1>1 DEF FirstOr
-----------------------------------------------------------------------------
(* quvi_media_stream_select.                                                *)

Sels == [curr : 0 .. Len(streams), rc : Codes, done : BOOLEAN]

\* What one ID does while the loop goes on, and when it has ended.
Going(c, r) == [curr |-> c, rc |-> r, done |-> FALSE]
Ended(c, r) == [curr |-> c, rc |-> r, done |-> TRUE]

\* The cursor after the reset.
Start == Going(0, "OK")

BestOnes == {n \in 1 .. Len(streams) : streams[n].best}

Decides(id) == id \in Keywords \/ Hits(id) # {}

\* What the deciding ID does.
Outcome(id) == CASE id = "croak" -> Ended(0, "KEYWORD_CROAK")
                 [] id = "best"  -> Ended(Best, "OK")
                 [] OTHER -> Ended(FirstFrom(Hits(id), 0), "OK")

\* The best stream and the first hit are streams, or NULL.
LEMMA StreamFound ==
  ASSUME streams \in Seq(Streams)
  PROVE  /\ Len(streams) \in Nat
         /\ Best \in 0 .. Len(streams)
         /\ \A id : \A curr \in Nat : FirstFrom(Hits(id), curr) \in 0 .. Len(streams)
         /\ \A n \in BestOnes : n \in Nat /\ n # 0
         /\ \A id : \A n \in Hits(id) : n \in Nat /\ n # 0
<1>1. Len(streams) \in Nat
  OBVIOUS
<1>2. \A n \in 1 .. Len(streams) : n \in Nat /\ n # 0 /\ n \in 0 .. Len(streams)
  BY <1>1
<1>3. BestOnes \in SUBSET (1 .. Len(streams)) /\ Best = FirstFrom(BestOnes, 0)
  BY DEF BestOnes, Best
<1>4. \A id : \A n \in Hits(id) : n \in 1 .. Len(streams)
  BY DEF Hits
<1>5. ASSUME NEW hits, \A n \in hits : n \in 1 .. Len(streams), NEW curr \in Nat
      PROVE  FirstFrom(hits, curr) \in 0 .. Len(streams)
  <2>1. \A n \in hits : n \in Nat
    BY <1>5, <1>2
  <2>2. FirstFrom(hits, curr) = 0 \/ FirstFrom(hits, curr) \in hits
    BY <2>1, FirstFromIs
  <2>. QED BY <2>2, <1>1, <1>2, <1>5
<1>6. Best \in 0 .. Len(streams)
  BY <1>3, <1>5, 0 \in Nat
<1>7. ASSUME NEW id, NEW curr \in Nat PROVE FirstFrom(Hits(id), curr) \in 0 .. Len(streams)
  BY <1>4, <1>5
<1>. QED BY <1>1, <1>2, <1>3, <1>4, <1>6, <1>7

\* After the end of the loop an ID changes nothing.
LEMMA SelectStreamEnded ==
  ASSUME NEW c, NEW r, NEW id
  PROVE  SelectStream(Ended(c, r), id) = Ended(c, r)
  BY DEF SelectStream, Ended

\* The keyword `croak' ends it.
LEMMA SelectStreamCroak ==
  ASSUME NEW c, NEW r
  PROVE  SelectStream(Going(c, r), "croak") = Ended(c, "KEYWORD_CROAK")
  BY DEF SelectStream, Going, Ended

\* The keyword `best' ends it.
LEMMA SelectStreamBest ==
  ASSUME NEW c, NEW r
  PROVE  SelectStream(Going(c, r), "best") = Ended(Best, r)
  BY DEF SelectStream, Going, Ended

\* A match ends it.
LEMMA SelectStreamMatch ==
  ASSUME NEW c, NEW r, NEW id, id \notin Keywords, FirstFrom(Hits(id), c) # 0
  PROVE  SelectStream(Going(c, r), id) = Ended(FirstFrom(Hits(id), c), r)
  BY DEF SelectStream, Going, Ended, Keywords

\* Without a match the cursor is NULL again, and the loop goes on.
LEMMA SelectStreamMiss ==
  ASSUME NEW c, NEW r, NEW id, id \notin Keywords, FirstFrom(Hits(id), c) = 0
  PROVE  SelectStream(Going(c, r), id) = Going(0, r)
  BY DEF SelectStream, Going, Keywords

\* The cursor stays among the streams.
LEMMA SelectStreamTyped ==
  ASSUME streams \in Seq(Streams), NEW sel \in Sels, NEW id
  PROVE  SelectStream(sel, id) \in Sels
<1>1. PICK c \in 0 .. Len(streams), r \in Codes : sel = Going(c, r) \/ sel = Ended(c, r)
  <2>1. PICK c \in 0 .. Len(streams), r \in Codes, d \in BOOLEAN :
               sel = [curr |-> c, rc |-> r, done |-> d]
    BY DEF Sels
  <2>2. sel = Going(c, r) \/ sel = Ended(c, r)
    BY <2>1 DEF Going, Ended
  <2>. QED BY <2>2
<1>2. c \in Nat
  BY <1>1, StreamFound
<1>3. /\ Best \in 0 .. Len(streams) /\ FirstFrom(Hits(id), c) \in 0 .. Len(streams)
      /\ 0 \in 0 .. Len(streams)
  BY <1>2, StreamFound
<1>4. \A x \in 0 .. Len(streams) : \A y \in Codes : Going(x, y) \in Sels /\ Ended(x, y) \in Sels
  BY DEF Sels, Going, Ended
<1>5. "KEYWORD_CROAK" \in Codes
  BY DEF Codes
<1>6. CASE sel = Ended(c, r)
  BY <1>6, <1>4, SelectStreamEnded
<1>7. CASE sel = Going(c, r) /\ id = "croak"
  BY <1>4, <1>5, <1>7, SelectStreamCroak
<1>8. CASE sel = Going(c, r) /\ id = "best"
  BY <1>3, <1>4, <1>8, SelectStreamBest
<1>9. CASE sel = Going(c, r) /\ id \notin Keywords
  <2>1. CASE FirstFrom(Hits(id), c) = 0
    BY <2>1, <1>3, <1>4, <1>9, SelectStreamMiss
  <2>2. CASE FirstFrom(Hits(id), c) # 0
    BY <2>2, <1>3, <1>4, <1>9, SelectStreamMatch
  <2>. QED BY <2>1, <2>2
<1>. QED BY <1>1, <1>6, <1>7, <1>8, <1>9 DEF Keywords

\* From the reset cursor, a deciding ID has its outcome; another changes nothing.
LEMMA SelectStreamStep ==
  ASSUME streams \in Seq(Streams), NEW id
  PROVE  /\ ~Decides(id) => SelectStream(Start, id) = Start
         /\ Decides(id) => SelectStream(Start, id) = Outcome(id)
         /\ \E c, r : Outcome(id) = Ended(c, r)
<1>1. CASE id = "croak"
  <2>1. Outcome(id) = Ended(0, "KEYWORD_CROAK") /\ Decides(id)
    BY <1>1 DEF Outcome, Decides, Keywords
  <2>. QED BY <1>1, <2>1, SelectStreamCroak DEF Start
<1>2. CASE id = "best"
  <2>1. Outcome(id) = Ended(Best, "OK") /\ Decides(id)
    BY <1>2 DEF Outcome, Decides, Keywords
  <2>. QED BY <1>2, <2>1, SelectStreamBest DEF Start
<1>3. CASE id \notin Keywords
  <2>1. Outcome(id) = Ended(FirstFrom(Hits(id), 0), "OK") /\ (Decides(id) <=> Hits(id) # {})
    BY <1>3 DEF Outcome, Decides, Keywords
  <2>2. CASE Hits(id) = {}
    <3>1. FirstFrom(Hits(id), 0) = 0
      BY <2>2, StreamFound, FirstFromStart
    <3>2. SelectStream(Start, id) = Start
      BY <3>1, <1>3, SelectStreamMiss DEF Start
    <3>. QED BY <2>1, <2>2, <3>2
  <2>3. CASE Hits(id) # {}
    <3>1. FirstFrom(Hits(id), 0) # 0
      BY <2>3, StreamFound, FirstFromStart
    <3>2. SelectStream(Start, id) = Outcome(id)
      BY <3>1, <1>3, <2>1, SelectStreamMatch DEF Start
    <3>. QED BY <2>1, <2>3, <3>2
  <2>. QED BY <2>2, <2>3
<1>. QED BY <1>1, <1>2, <1>3 DEF Keywords

\* The loop of _select.
StreamLoop(f, ids) ==
  /\ StreamSelected(ids) = f[Len(ids)]
  /\ f[0] = [curr |-> 0, rc |-> "OK", done |-> FALSE]
  /\ \A n \in 1 .. Len(ids) : f[n] = SelectStream(f[n - 1], ids[n])
  /\ \A n \in 0 .. Len(ids) : f[n] \in Sels

\* It is that loop: its equation holds, step by step.
LEMMA StreamRuns ==
  ASSUME streams \in Seq(Streams), NEW ids, Len(ids) \in Nat
  PROVE  \E f : StreamLoop(f, ids)
<1> DEFINE m == Len(ids)
           X == Sels
           base == [curr |-> 0, rc |-> "OK", done |-> FALSE]
           step == [x \in X \X (1 .. m) |-> SelectStream(x[1], ids[x[2]])]
           Is(f) == f = [n \in 0 .. m |-> IF n = 0 THEN base ELSE SelectStream(f[n - 1], ids[n])]
           h == CHOOSE f : Is(f)
<1>1. StreamSelected(ids) = h[m]
  BY DEF StreamSelected
<1>2. m \in Nat /\ base \in X
  BY DEF Sels, Codes
<1>3. step \in Steps(m, X)
  <2>1. \A x \in X : \A id : SelectStream(x, id) \in X
    BY SelectStreamTyped
  <2>. QED BY <2>1 DEF Steps
<1>4. \A x \in X : \A n \in 1 .. m : step[<<x, n>>] = SelectStream(x, ids[n])
  OBVIOUS
<1>. HIDE DEF m, X, base, step
<1>5. PICK f : f \in [0 .. m -> X] /\ Runs(f, m, base, step)
  BY <1>2, <1>3, RecursionExists
<1>6. ASSUME NEW n \in 1 .. m PROVE n - 1 \in 0 .. m /\ n \in 0 .. m /\ n # 0
  BY <1>2
<1>7. Is(f)
  <2>1. \A n \in 1 .. m : f[n] = SelectStream(f[n - 1], ids[n])
    BY <1>4, <1>5, <1>6 DEF Runs
  <2>2. \A n \in 0 .. m : n = 0 \/ n \in 1 .. m
    BY <1>2
  <2>3. \A n \in 0 .. m : f[n] = IF n = 0 THEN base ELSE SelectStream(f[n - 1], ids[n])
    BY <2>1, <2>2, <1>5 DEF Runs
  <2>. QED BY <1>5, <2>3
<1>8. Is(h)
  BY <1>7
<1>. HIDE DEF h
<1>9. h[0] = base /\ \A n \in 1 .. m : h[n] = SelectStream(h[n - 1], ids[n])
  <2>1. \A n \in 0 .. m : h[n] = IF n = 0 THEN base ELSE SelectStream(h[n - 1], ids[n])
    BY <1>8
  <2>2. 0 \in 0 .. m
    BY <1>2
  <2>. QED BY <1>6, <2>1, <2>2
<1>10. \A n \in 0 .. m : h[n] \in X
  <2>1. h[0] = base
    BY <1>9
  <2>2. \A n \in 1 .. m : h[n - 1] \in X => h[n] = step[<<h[n - 1], n>>]
    BY <1>4, <1>9
  <2>. QED BY <1>2, <1>3, <2>1, <2>2, RecursionTyped
<1>11. StreamLoop(h, ids)
  BY <1>1, <1>9, <1>10 DEF StreamLoop, m, X, base
<1>. QED BY <1>11

\* What the loop has come to: the first ID that decides has decided.
Decided(sel, ids, n) ==
  \/ sel = Start /\ \A p \in 1 .. n : ~Decides(ids[p])
  \/ \E p \in 1 .. n : /\ Decides(ids[p])
                       /\ \A q \in 1 .. n : Decides(ids[q]) => p <= q
                       /\ sel = Outcome(ids[p])

\* One ID more leaves it so.
LEMMA DecidedStep ==
  ASSUME streams \in Seq(Streams), NEW ids, NEW n \in Nat, NEW sel, Decided(sel, ids, n)
  PROVE  Decided(SelectStream(sel, ids[n + 1]), ids, n + 1)
<1>1. \A p \in 1 .. n + 1 : p = n + 1 \/ p \in 1 .. n
  OBVIOUS
<1>2. n + 1 \in 1 .. n + 1 /\ \A p \in 1 .. n : p \in 1 .. n + 1 /\ p <= n + 1
  OBVIOUS
<1>3. CASE sel = Start /\ \A p \in 1 .. n : ~Decides(ids[p])
  <2>1. CASE Decides(ids[n + 1])
    <3>1. SelectStream(sel, ids[n + 1]) = Outcome(ids[n + 1])
      BY <1>3, <2>1, SelectStreamStep
    <3>2. \A q \in 1 .. n + 1 : Decides(ids[q]) => n + 1 <= q
      BY <1>1, <1>3
    <3>. QED BY <2>1, <3>1, <3>2, <1>2 DEF Decided
  <2>2. CASE ~Decides(ids[n + 1])
    <3>1. SelectStream(sel, ids[n + 1]) = Start
      BY <1>3, <2>2, SelectStreamStep
    <3>2. \A p \in 1 .. n + 1 : ~Decides(ids[p])
      BY <1>1, <1>3, <2>2
    <3>. QED BY <3>1, <3>2 DEF Decided
  <2>. QED BY <2>1, <2>2
<1>4. CASE \E p \in 1 .. n : /\ Decides(ids[p])
                             /\ \A q \in 1 .. n : Decides(ids[q]) => p <= q
                             /\ sel = Outcome(ids[p])
  <2>1. PICK p \in 1 .. n : /\ Decides(ids[p])
                            /\ \A q \in 1 .. n : Decides(ids[q]) => p <= q
                            /\ sel = Outcome(ids[p])
    BY <1>4
  <2>2. SelectStream(sel, ids[n + 1]) = Outcome(ids[p])
    <3>1. PICK c, r : Outcome(ids[p]) = Ended(c, r)
      BY SelectStreamStep
    <3>. QED BY <2>1, <3>1, SelectStreamEnded
  <2>3. \A q \in 1 .. n + 1 : Decides(ids[q]) => p <= q
    BY <1>1, <1>2, <2>1
  <2>. QED BY <1>2, <2>1, <2>2, <2>3 DEF Decided
<1>. QED BY <1>3, <1>4 DEF Decided

\* So the whole list comes to what its first deciding ID does.
LEMMA StreamSelectedIs ==
  ASSUME streams \in Seq(Streams), NEW ids, Len(ids) \in Nat
  PROVE  /\ StreamSelected(ids) \in Sels
         /\ Decided(StreamSelected(ids), ids, Len(ids))
<1>1. PICK f : StreamLoop(f, ids)
  BY StreamRuns
<1>2. /\ StreamSelected(ids) = f[Len(ids)]
      /\ f[0] = [curr |-> 0, rc |-> "OK", done |-> FALSE]
      /\ \A n \in 1 .. Len(ids) : f[n] = SelectStream(f[n - 1], ids[n])
      /\ \A n \in 0 .. Len(ids) : f[n] \in Sels
  BY <1>1 DEF StreamLoop
<1> DEFINE S == {n \in 0 .. Len(ids) : Decided(f[n], ids, n)}
<1>3. 0 \in 0 .. Len(ids) /\ Len(ids) \in 0 .. Len(ids)
  OBVIOUS
<1>4. 0 \in S
  <2>1. f[0] = Start /\ \A p \in 1 .. 0 : ~Decides(ids[p])
    BY <1>2 DEF Start, Going
  <2>2. Decided(f[0], ids, 0)
    BY <2>1 DEF Decided
  <2>. QED BY <1>3, <2>2
<1>5. ASSUME NEW n \in 1 .. Len(ids), n - 1 \in S PROVE n \in S
  <2>1. PICK k \in Nat : k = n - 1
    BY n - 1 \in Nat
  <2>2. n = k + 1 /\ n \in 0 .. Len(ids)
    BY <2>1
  <2>3. Decided(f[k], ids, k) /\ f[n] = SelectStream(f[k], ids[k + 1])
    BY <1>2, <1>5, <2>1, <2>2
  <2>4. Decided(f[n], ids, k + 1)
    BY <2>3, DecidedStep
  <2>. QED BY <2>2, <2>4
<1>6. \A n \in 0 .. Len(ids) : n \in S
  <2>. HIDE DEF S
  <2>. QED BY <1>4, <1>5, UpTo
<1>. QED BY <1>2, <1>3, <1>6

\* What is wanted of the streams by the ID that decides.
Wanted(id) == CASE id = "croak" -> {}
                [] id = "best" -> {n \in 1 .. Len(streams) : streams[n].best}
                [] OTHER -> Hits(id)

\* StreamSelectPicks, of who has selected, a cursor and a code.
StreamPicks(by, ids, curr, code) ==
  LET deciding == {p \in 1 .. Len(ids) : ids[p] \in Keywords \/ Hits(ids[p]) # {}}
      id == ids[First(deciding)]
      candidates == IF deciding = {} THEN {} ELSE Wanted(id)
  IN  /\ by = "select" =>
           code = IF deciding # {} /\ id = "croak" THEN "KEYWORD_CROAK" ELSE "OK"
      /\ (IF curr = 0 THEN Following(streams, 0) ELSE curr) = FirstOr(candidates, 1)

\* The cursor, read by quvi_media_get, when the ID decides.
LEMMA OutcomePicks ==
  ASSUME streams \in Seq(Streams), Len(streams) # 0, NEW id, Decides(id)
  PROVE  /\ Outcome(id).rc = IF id = "croak" THEN "KEYWORD_CROAK" ELSE "OK"
         /\ (IF Outcome(id).curr = 0 THEN Following(streams, 0) ELSE Outcome(id).curr)
              = FirstOr(Wanted(id), 1)
<1>1. Following(streams, 0) = 1 /\ 0 \in Nat
  BY StreamFound DEF Following
<1>2. FirstOr({}, 1) = 1
  BY DEF FirstOr
<1>3. CASE id = "croak"
  <2>1. Outcome(id).curr = 0 /\ Outcome(id).rc = "KEYWORD_CROAK"
    BY <1>3 DEF Outcome, Ended
  <2>2. Wanted(id) = {}
    BY <1>3 DEF Wanted
  <2>. QED BY <1>1, <1>2, <1>3, <2>1, <2>2
<1>4. CASE id = "best"
  <2>1. Outcome(id).curr = FirstFrom(BestOnes, 0) /\ Outcome(id).rc = "OK"
    BY <1>4 DEF Outcome, Ended, Best, BestOnes
  <2>2. Wanted(id) = BestOnes
    BY <1>4 DEF Wanted, BestOnes
  <2>3. CASE BestOnes = {}
    <3>1. FirstFrom(BestOnes, 0) = 0
      BY <2>3, StreamFound, FirstFromStart
    <3>. QED BY <1>1, <1>2, <1>4, <2>1, <2>2, <2>3, <3>1
  <2>4. CASE BestOnes # {}
    <3>1. FirstFrom(BestOnes, 0) # 0
      BY <2>4, StreamFound, FirstFromStart
    <3>2. FirstOr(BestOnes, 1) = FirstFrom(BestOnes, 0)
      BY <2>4, StreamFound, FirstOrIs
    <3>. QED BY <1>4, <2>1, <2>2, <3>1, <3>2
  <2>. QED BY <2>3, <2>4
<1>5. CASE id \notin Keywords
  <2>1. Outcome(id).curr = FirstFrom(Hits(id), 0) /\ Outcome(id).rc = "OK" /\ Hits(id) # {}
    BY <1>5 DEF Outcome, Ended, Keywords, Decides
  <2>2. Wanted(id) = Hits(id)
    BY <1>5 DEF Wanted, Keywords
  <2>3. FirstFrom(Hits(id), 0) # 0
    BY <2>1, StreamFound, FirstFromStart
  <2>4. FirstOr(Hits(id), 1) = FirstFrom(Hits(id), 0)
    BY <2>1, StreamFound, FirstOrIs
  <2>. QED BY <1>5, <2>1, <2>2, <2>3, <2>4 DEF Keywords
<1>. QED BY <1>3, <1>4, <1>5 DEF Keywords

\* The selection is the one that StreamSelectPicks asks for.
LEMMA StreamSelectedPicks ==
  ASSUME streams \in Seq(Streams), Len(streams) # 0, NEW ids, Len(ids) \in Nat
  PROVE  StreamPicks("select", ids, StreamSelected(ids).curr, StreamSelected(ids).rc)
<1> DEFINE sel == StreamSelected(ids)
           deciding == {p \in 1 .. Len(ids) : ids[p] \in Keywords \/ Hits(ids[p]) # {}}
<1>1. Decided(sel, ids, Len(ids))
  BY StreamSelectedIs
<1>2. \A p : p \in deciding <=> p \in 1 .. Len(ids) /\ Decides(ids[p])
  BY DEF Decides
<1>3. \A p \in deciding : p \in Nat
  OBVIOUS
<1>4. Following(streams, 0) = 1
  BY StreamFound DEF Following
<1>. HIDE DEF sel, deciding
<1>5. CASE deciding = {}
  <2>1. sel = Start
    BY <1>1, <1>2, <1>5 DEF Decided
  <2>2. sel.curr = 0 /\ sel.rc = "OK"
    BY <2>1 DEF Start, Going
  <2>3. FirstOr({}, 1) = 1
    BY DEF FirstOr
  <2>. QED BY <1>4, <1>5, <2>2, <2>3 DEF StreamPicks, sel, deciding
<1>6. CASE deciding # {}
  <2>1. PICK p \in 1 .. Len(ids) : /\ Decides(ids[p])
                                   /\ \A q \in 1 .. Len(ids) : Decides(ids[q]) => p <= q
                                   /\ sel = Outcome(ids[p])
    BY <1>1, <1>2, <1>6 DEF Decided
  <2>2. p \in deciding /\ \A q \in deciding : p <= q
    BY <1>2, <2>1
  <2>3. First(deciding) = p
    BY <1>3, <2>2, FirstIs
  <2>4. PICK id : id = ids[p]
    OBVIOUS
  <2>5. /\ sel.rc = IF id = "croak" THEN "KEYWORD_CROAK" ELSE "OK"
        /\ (IF sel.curr = 0 THEN Following(streams, 0) ELSE sel.curr) = FirstOr(Wanted(id), 1)
    BY <2>1, <2>4, OutcomePicks
  <2>. QED BY <1>6, <2>3, <2>4, <2>5 DEF StreamPicks, sel, deciding
<1>. QED BY <1>5, <1>6

\* So is the one of quvi_media_stream_choose_best.
LEMMA BestPicks ==
  ASSUME streams \in Seq(Streams), Len(streams) # 0, NEW code
  PROVE  StreamPicks("best", <<"best">>, Best, code)
<1> DEFINE ids == <<"best">>
           deciding == {p \in 1 .. Len(ids) : ids[p] \in Keywords \/ Hits(ids[p]) # {}}
<1>1. Len(ids) = 1 /\ ids[1] = "best"
  OBVIOUS
<1>2. 1 \in deciding /\ \A p \in deciding : p \in Nat /\ 1 <= p
  BY <1>1 DEF Keywords
<1>3. First(deciding) = 1
  <2>. HIDE DEF deciding
  <2>. QED BY <1>2, FirstIs
<1>4. Outcome("best").curr = Best /\ Decides("best")
  BY DEF Outcome, Ended, Decides, Keywords
<1>5. (IF Best = 0 THEN Following(streams, 0) ELSE Best) = FirstOr(Wanted("best"), 1)
  BY <1>4, OutcomePicks
<1>. HIDE DEF ids, deciding
<1>6. deciding # {} /\ ids[First(deciding)] = "best"
  BY <1>1, <1>2, <1>3
<1>. QED BY <1>5, <1>6 DEF StreamPicks, ids, deciding

\* What it says does not change while the streams stay.
LEMMA StreamPicksStable ==
  ASSUME streams' = streams, NEW by, NEW ids, NEW curr, NEW code,
         StreamPicks(by, ids, curr, code)
  PROVE  StreamPicks(by, ids, curr, code)'
  BY DEF StreamPicks, Wanted, Hits

\* StreamPicks is StreamSelectPicks.
LEMMA StreamPicksIs ==
  ASSUME handle = "media" /\ asked # <<>> => StreamPicks(asked[1], asked[2], stream, rc)
  PROVE  StreamSelectPicks
  BY DEF StreamSelectPicks, StreamPicks, Wanted, CurrentStream

-----------------------------------------------------------------------------
(* quvi_subtitle_select.                                                    *)

\* The types, when only their cursors have moved.
SameLists(ts) ==
  /\ ts \in Seq(Type)
  /\ Len(ts) = Len(types)
  /\ \A n \in 1 .. Len(types) : /\ ts[n].langs = types[n].langs
                                /\ ts[n].format = types[n].format
                                /\ ts[n].curr \in 0 .. Len(types[n].langs)

\* The languages of all types, and those of them that a pattern matches.
AllLangs(ts) == Places([n \in DOMAIN ts |-> ts[n].langs])

AllHits(ts, id) == {nm \in AllLangs(ts) : Match(id, ts[nm[1]].langs[nm[2]].id)}

Before(a, b) == a[1] < b[1] \/ (a[1] = b[1] /\ a[2] <= b[2])

IsFirst(nm, all) == nm \in all /\ \A other \in all : Before(nm, other)

\* A language is named by its type and its place there.
LEMMA AllLangsAre ==
  ASSUME types \in Seq(Type), NEW x
  PROVE  x \in AllLangs(types) <=>
            \E n \in 1 .. Len(types) : \E m \in 1 .. Len(types[n].langs) : x = <<n, m>>
<1>1. DOMAIN types = 1 .. Len(types)
  OBVIOUS
<1>2. \A n \in 1 .. Len(types) : DOMAIN types[n].langs = 1 .. Len(types[n].langs)
  BY DEF Type
<1>3. /\ DOMAIN [n \in DOMAIN types |-> types[n].langs] = 1 .. Len(types)
      /\ \A n \in 1 .. Len(types) : [k \in DOMAIN types |-> types[k].langs][n] = types[n].langs
  BY <1>1
<1>. QED BY <1>2, <1>3 DEF AllLangs, Places

\* What _match finds in one type, and the type in which it stops.
Found(n, id) == FirstFrom(LangHits(types[n].langs, id), 0)

HitTypes(id) == {n \in 1 .. Len(types) : Found(n, id) # 0}

Hit(id) == FirstFrom(HitTypes(id), 0)

\* The first language of the type that matches, or NULL.
LEMMA FoundIs ==
  ASSUME types \in Seq(Type), NEW n \in 1 .. Len(types), NEW id
  PROVE  /\ Found(n, id) \in 0 .. Len(types[n].langs)
         /\ Found(n, id) = 0 => \A m \in 1 .. Len(types[n].langs) : ~Match(id, types[n].langs[m].id)
         /\ Found(n, id) # 0 =>
              /\ Found(n, id) \in 1 .. Len(types[n].langs)
              /\ Match(id, types[n].langs[Found(n, id)].id)
              /\ \A m \in 1 .. Len(types[n].langs) :
                   Match(id, types[n].langs[m].id) => Found(n, id) <= m
<1>1. PICK langs \in Seq(Lang) : langs = types[n].langs
  <2>1. types[n] \in Type
    OBVIOUS
  <2>2. types[n].langs \in Seq(Lang)
    BY <2>1 DEF Type
  <2>. QED BY <2>2
<1>2. PICK hits : hits = LangHits(langs, id)
  OBVIOUS
<1>3. \A m : m \in hits <=> m \in 1 .. Len(langs) /\ Match(id, langs[m].id)
  BY <1>2 DEF LangHits
<1>4. PICK x : x = FirstFrom(hits, 0)
  OBVIOUS
<1>5. \A m \in 1 .. Len(langs) : m \in Nat /\ m # 0 /\ m \in 0 .. Len(langs)
  OBVIOUS
<1>6. /\ hits = {} => x = 0
      /\ hits # {} => x \in hits /\ x # 0 /\ \A m \in hits : x <= m
  BY <1>3, <1>4, <1>5, FirstFromStart
<1>7. /\ x \in 0 .. Len(langs)
      /\ x = 0 => \A m \in 1 .. Len(langs) : ~Match(id, langs[m].id)
      /\ x # 0 => /\ x \in 1 .. Len(langs)
                  /\ Match(id, langs[x].id)
                  /\ \A m \in 1 .. Len(langs) : Match(id, langs[m].id) => x <= m
  <2>1. 0 \in 0 .. Len(langs)
    OBVIOUS
  <2>. QED BY <2>1, <1>3, <1>5, <1>6
<1>8. Found(n, id) = x
  BY <1>1, <1>2, <1>4 DEF Found
<1>. QED BY <1>1, <1>7, <1>8

\* It is the first hit, in the order of the types and of their languages.
LEMMA HitIs ==
  ASSUME types \in Seq(Type), NEW id
  PROVE  /\ Hit(id) \in 0 .. Len(types)
         /\ Hit(id) = 0 => AllHits(types, id) = {}
         /\ Hit(id) # 0 => /\ Hit(id) \in 1 .. Len(types)
                           /\ Found(Hit(id), id) # 0
                           /\ IsFirst(<<Hit(id), Found(Hit(id), id)>>, AllHits(types, id))
<1>1. \A x : x \in AllHits(types, id) <=>
            \E n \in 1 .. Len(types) : \E m \in 1 .. Len(types[n].langs) :
              x = <<n, m>> /\ Match(id, types[n].langs[m].id)
  BY AllLangsAre DEF AllHits
<1>2. \A n \in 1 .. Len(types) : n \in Nat /\ n # 0 /\ n \in 0 .. Len(types)
  OBVIOUS
<1>3. \A n : n \in HitTypes(id) <=> n \in 1 .. Len(types) /\ Found(n, id) # 0
  BY DEF HitTypes
<1>4. PICK h : h = Hit(id)
  OBVIOUS
<1>5. /\ HitTypes(id) = {} => h = 0
      /\ HitTypes(id) # {} => h \in HitTypes(id) /\ h # 0 /\ \A n \in HitTypes(id) : h <= n
  BY <1>2, <1>3, <1>4, FirstFromStart DEF Hit
<1>6. CASE HitTypes(id) = {}
  <2>1. \A n \in 1 .. Len(types) : \A m \in 1 .. Len(types[n].langs)
            : ~Match(id, types[n].langs[m].id)
    BY <1>3, <1>6, FoundIs
  <2>2. AllHits(types, id) = {}
    BY <1>1, <2>1
  <2>3. 0 \in 0 .. Len(types)
    OBVIOUS
  <2>. QED BY <1>4, <1>5, <1>6, <2>2, <2>3
<1>7. CASE HitTypes(id) # {}
  <2>1. h \in 1 .. Len(types) /\ h # 0 /\ Found(h, id) # 0 /\ \A n \in HitTypes(id) : h <= n
    BY <1>3, <1>5, <1>7
  <2>2. PICK f : f = Found(h, id)
    OBVIOUS
  <2>3. /\ f \in 1 .. Len(types[h].langs)
        /\ Match(id, types[h].langs[f].id)
        /\ \A m \in 1 .. Len(types[h].langs) : Match(id, types[h].langs[m].id) => f <= m
    BY <2>1, <2>2, FoundIs
  <2>4. <<h, f>> \in AllHits(types, id)
    BY <1>1, <2>1, <2>3
  <2>5. ASSUME NEW other \in AllHits(types, id) PROVE Before(<<h, f>>, other)
    <3>1. PICK n \in 1 .. Len(types) : \E m \in 1 .. Len(types[n].langs) :
                 other = <<n, m>> /\ Match(id, types[n].langs[m].id)
      BY <1>1
    <3>2. PICK m \in 1 .. Len(types[n].langs) : other = <<n, m>> /\ Match(id, types[n].langs[m].id)
      BY <3>1
    <3>3. Found(n, id) # 0
      BY <3>2, FoundIs
    <3>4. h <= n
      BY <1>3, <2>1, <3>3
    <3>5. CASE h = n
      BY <2>3, <3>2, <3>5 DEF Before
    <3>6. CASE h # n
      <4>1. h < n
        BY <1>2, <2>1, <3>4, <3>6
      <4>. QED BY <3>2, <4>1 DEF Before
    <3>. QED BY <3>5, <3>6
  <2>6. IsFirst(<<h, f>>, AllHits(types, id))
    BY <2>4, <2>5 DEF IsFirst
  <2>. QED BY <1>2, <1>4, <2>1, <2>2, <2>6
<1>. QED BY <1>6, <1>7

\* The selection while the loop goes on, and when it has ended.
Open(ts, t)       == [types |-> ts, type |-> t, lang |-> Nothing, rc |-> "OK", done |-> FALSE]
Shut(ts, t, l, r) == [types |-> ts, type |-> t, lang |-> l, rc |-> r, done |-> TRUE]

\* The type and the language of a match, at which both cursors stand.
AtHit(sel, ts, id) == /\ sel = Shut(ts, Hit(id), <<Hit(id), Found(Hit(id), id)>>, "OK")
                      /\ ts[Hit(id)].curr = Found(Hit(id), id)

\* What _match leaves: cursors at the first hit, or all of them run off.
LEMMA MatchIdIs ==
  ASSUME types \in Seq(Type), NEW ts, SameLists(ts), NEW t, NEW id
  PROVE  \E new : /\ SameLists(new)
                  /\ Hit(id) = 0 => MatchId(Open(ts, t), id) = Open(new, 0)
                  /\ Hit(id) # 0 => AtHit(MatchId(Open(ts, t), id), new, id)
<1>0. PICK sel : sel = Open(ts, t)
  OBVIOUS
<1> DEFINE found == [n \in 1 .. Len(sel.types) |-> MatchLang(sel.types[n], id)]
           hit == FirstFrom({n \in 1 .. Len(sel.types) : found[n] # 0}, 0)
           visited == IF hit = 0 THEN 1 .. Len(sel.types) ELSE 1 .. hit
           new == [n \in 1 .. Len(sel.types) |->
                     IF n \in visited
                     THEN [sel.types[n] EXCEPT !.curr = found[n]]
                     ELSE sel.types[n]]
           lang == IF hit = 0 THEN Nothing ELSE <<hit, found[hit]>>
<1>1. /\ sel.types = ts
      /\ ts \in Seq(Type)
      /\ Len(ts) = Len(types)
      /\ \A n \in 1 .. Len(types) : /\ ts[n].langs = types[n].langs
                                    /\ ts[n].format = types[n].format
                                    /\ ts[n].curr \in 0 .. Len(types[n].langs)
  BY <1>0 DEF SameLists, Open
<1>2. \A n \in 1 .. Len(types) : found[n] = Found(n, id)
  BY <1>1 DEF MatchLang, Found
<1>3. hit = Hit(id)
  <2>1. {n \in 1 .. Len(sel.types) : found[n] # 0} = HitTypes(id)
    BY <1>1, <1>2 DEF HitTypes
  <2>. QED BY <2>1 DEF Hit
<1>4. MatchId(Open(ts, t), id) =
          [types |-> new, type |-> hit, lang |-> lang, rc |-> "OK", done |-> hit # 0]
  <2>1. MatchId(sel, id) = [sel EXCEPT !.types = new, !.type = hit, !.lang = lang, !.done = hit # 0]
    BY DEF MatchId
  <2>. HIDE DEF new, hit, lang
  <2>. QED BY <1>0, <2>1 DEF Open
<1>5. \A n \in 1 .. Len(types) : Found(n, id) \in 0 .. Len(types[n].langs)
  BY FoundIs
<1>. HIDE DEF found
<1>6. \A n \in 1 .. Len(types) :
        /\ new[n] \in Type
        /\ new[n].langs = types[n].langs
        /\ new[n].format = types[n].format
        /\ new[n].curr \in 0 .. Len(types[n].langs)
        /\ n \in visited => new[n].curr = found[n]
  <2>1. ASSUME NEW n \in 1 .. Len(types)
        PROVE  /\ new[n] \in Type
               /\ new[n].langs = types[n].langs
               /\ new[n].format = types[n].format
               /\ new[n].curr \in 0 .. Len(types[n].langs)
               /\ n \in visited => new[n].curr = found[n]
    <3>. HIDE DEF visited
    <3>1. PICK x \in Type : x = ts[n]
      BY <1>1, ts[n] \in Type
    <3>2. PICK c : c = found[n]
      OBVIOUS
    <3>3. c \in Nat /\ c \in 0 .. Len(types[n].langs)
      BY <1>2, <1>5, <3>2
    <3>4. PICK y : y = [x EXCEPT !.curr = c]
      OBVIOUS
    <3>5. y \in Type /\ y.langs = x.langs /\ y.format = x.format /\ y.curr = c
      BY <3>3, <3>4 DEF Type
    <3>6. new[n] = IF n \in visited THEN y ELSE x
      BY <1>1, <3>1, <3>2, <3>4
    <3>. HIDE DEF new
    <3>. QED BY <1>1, <3>1, <3>2, <3>3, <3>5, <3>6
  <2>. QED BY <2>1
<1>7. new \in Seq(Type) /\ Len(new) = Len(types)
  <2>1. DOMAIN new = 1 .. Len(types) /\ Len(types) \in Nat
    BY <1>1
  <2>2. new = [n \in 1 .. Len(types) |-> new[n]]
    BY <2>1
  <2>3. new \in [1 .. Len(types) -> Type]
    <3>. HIDE DEF new
    <3>. QED BY <1>6, <2>2
  <2>. HIDE DEF new
  <2>. QED BY <2>1, <2>3
<1>. HIDE DEF new
<1>8. SameLists(new)
  BY <1>6, <1>7 DEF SameLists
<1>9. CASE Hit(id) = 0
  <2>1. MatchId(Open(ts, t), id) = Open(new, 0)
    BY <1>3, <1>4, <1>9 DEF Open
  <2>. QED BY <1>8, <1>9, <2>1
<1>10. CASE Hit(id) # 0
  <2>1. Hit(id) \in 1 .. Len(types)
    BY <1>10, HitIs
  <2>2. hit \in visited /\ found[hit] = Found(Hit(id), id)
    BY <1>2, <1>3, <1>10, <2>1
  <2>3. new[Hit(id)].curr = Found(Hit(id), id)
    BY <1>3, <1>6, <2>1, <2>2
  <2>4. MatchId(Open(ts, t), id) = Shut(new, Hit(id), <<Hit(id), Found(Hit(id), id)>>, "OK")
    BY <1>3, <1>4, <1>10, <2>2 DEF Shut
  <2>5. AtHit(MatchId(Open(ts, t), id), new, id)
    BY <2>3, <2>4 DEF AtHit
  <2>. QED BY <1>8, <1>10, <2>5
<1>. QED BY <1>9, <1>10

\* The two kinds of state in which the loop can be.
IsOpen(sel) == \E ts : \E t \in 0 .. Len(types) : SameLists(ts) /\ sel = Open(ts, t)

IsShut(sel) == \E ts : \E t \in 0 .. Len(types) : \E l \in Nat \X Nat : \E r \in Codes :
                 SameLists(ts) /\ sel = Shut(ts, t, l, r)

LangSels == {sel \in [types : Seq(Type), type : Nat, lang : Nat \X Nat, rc : Codes,
          done : BOOLEAN] :
               IsOpen(sel) \/ IsShut(sel)}

LangDecides(id) == id = "croak" \/ AllHits(types, id) # {}

\* The selection once an ID has decided.
LangOutcome(sel, id) ==
  \E ts : /\ SameLists(ts)
          /\ IF id = "croak"
             THEN \E t \in 0 .. Len(types) : sel = Shut(ts, t, Nothing, "KEYWORD_CROAK")
             ELSE AllHits(types, id) # {} /\ AtHit(sel, ts, id)

\* The set has these two kinds, and no third.
LEMMA LangSelsAre ==
  ASSUME types \in Seq(Type), NEW sel
  PROVE  sel \in LangSels <=> IsOpen(sel) \/ IsShut(sel)
<1>1. \A t \in 0 .. Len(types) : t \in Nat
  OBVIOUS
<1>2. Nothing \in Nat \X Nat /\ "OK" \in Codes
  BY DEF Nothing, Codes
<1>3. ASSUME IsOpen(sel) PROVE sel \in LangSels
  <2>1. PICK ts, t : t \in 0 .. Len(types) /\ SameLists(ts) /\ sel = Open(ts, t)
    BY <1>3 DEF IsOpen
  <2>2. ts \in Seq(Type) /\ t \in Nat
    BY <1>1, <2>1 DEF SameLists
  <2>. QED BY <1>2, <1>3, <2>1, <2>2 DEF LangSels, Open
<1>4. ASSUME IsShut(sel) PROVE sel \in LangSels
  <2>1. PICK ts, t, l, r : /\ t \in 0 .. Len(types) /\ l \in Nat \X Nat /\ r \in Codes
                           /\ SameLists(ts) /\ sel = Shut(ts, t, l, r)
    BY <1>4 DEF IsShut
  <2>2. ts \in Seq(Type) /\ t \in Nat
    BY <1>1, <2>1 DEF SameLists
  <2>. QED BY <1>4, <2>1, <2>2 DEF LangSels, Shut
<1>. QED BY <1>3, <1>4 DEF LangSels

\* A match and a `croak' end the loop for good.
LEMMA LangOutcomeIsShut ==
  ASSUME types \in Seq(Type), NEW sel, NEW id, LangOutcome(sel, id)
  PROVE  IsShut(sel)
<1>1. PICK ts : /\ SameLists(ts)
                /\ IF id = "croak"
                   THEN \E t \in 0 .. Len(types) : sel = Shut(ts, t, Nothing, "KEYWORD_CROAK")
                   ELSE AllHits(types, id) # {} /\ AtHit(sel, ts, id)
  BY DEF LangOutcome
<1>2. Nothing \in Nat \X Nat /\ "OK" \in Codes /\ "KEYWORD_CROAK" \in Codes
  BY DEF Nothing, Codes
<1>3. CASE id = "croak"
  BY <1>1, <1>2, <1>3 DEF IsShut
<1>4. CASE id # "croak"
  <2>1. Hit(id) # 0 /\ Hit(id) \in 0 .. Len(types) /\ Hit(id) \in 1 .. Len(types)
    BY <1>1, <1>4, HitIs
  <2>2. Found(Hit(id), id) \in 0 .. Len(types[Hit(id)].langs)
    BY <2>1, FoundIs
  <2>3. Hit(id) \in Nat /\ Found(Hit(id), id) \in Nat
    <3>1. types[Hit(id)].langs \in Seq(Lang)
      <4>1. types[Hit(id)] \in Type
        BY <2>1
      <4>. QED BY <4>1 DEF Type
    <3>2. Len(types[Hit(id)].langs) \in Nat
      BY <3>1
    <3>. QED BY <2>1, <2>2, <3>2
  <2>4. PICK l : l = <<Hit(id), Found(Hit(id), id)>>
    OBVIOUS
  <2>5. l \in Nat \X Nat /\ sel = Shut(ts, Hit(id), l, "OK")
    BY <1>1, <1>4, <2>3, <2>4 DEF AtHit
  <2>. QED BY <1>1, <1>2, <2>1, <2>5 DEF IsShut
<1>. QED BY <1>3, <1>4

\* After the end of the loop an ID changes nothing.
LEMMA SelectLangEnded ==
  ASSUME NEW sel, NEW id, IsShut(sel)
  PROVE  SelectLang(sel, id) = sel
<1>1. sel.done
  BY DEF IsShut, Shut
<1>. QED BY <1>1 DEF SelectLang

\* A deciding ID has its outcome; after another one the loop goes on.
LEMMA SelectLangStep ==
  ASSUME types \in Seq(Type), NEW sel, NEW id, IsOpen(sel)
  PROVE  /\ ~LangDecides(id) => IsOpen(SelectLang(sel, id))
         /\ LangDecides(id) => LangOutcome(SelectLang(sel, id), id)
<1>1. PICK ts : \E t \in 0 .. Len(types) : SameLists(ts) /\ sel = Open(ts, t)
  BY DEF IsOpen
<1>2. PICK t \in 0 .. Len(types) : SameLists(ts) /\ sel = Open(ts, t)
  BY <1>1
<1>3. ~sel.done
  BY <1>2 DEF Open
<1>4. CASE id = "croak"
  <2>1. SelectLang(sel, id) = Shut(ts, t, Nothing, "KEYWORD_CROAK")
    BY <1>2, <1>4 DEF SelectLang, Open, Shut
  <2>. QED BY <1>2, <1>4, <2>1 DEF LangOutcome, LangDecides
<1>5. CASE id # "croak"
  <2>1. SelectLang(sel, id) = MatchId(Open(ts, t), id)
    BY <1>2, <1>3, <1>5 DEF SelectLang
  <2>2. PICK new : /\ SameLists(new)
                   /\ Hit(id) = 0 => MatchId(Open(ts, t), id) = Open(new, 0)
                   /\ Hit(id) # 0 => AtHit(MatchId(Open(ts, t), id), new, id)
    BY <1>2, MatchIdIs
  <2>3. 0 \in 0 .. Len(types)
    OBVIOUS
  <2>4. Hit(id) # 0 => AllHits(types, id) # {}
    BY HitIs DEF IsFirst
  <2>5. CASE Hit(id) = 0
    <3>1. AllHits(types, id) = {}
      BY <2>5, HitIs
    <3>2. IsOpen(SelectLang(sel, id))
      BY <2>1, <2>2, <2>3, <2>5 DEF IsOpen
    <3>. QED BY <1>5, <3>1, <3>2 DEF LangDecides
  <2>6. CASE Hit(id) # 0
    <3>1. LangOutcome(SelectLang(sel, id), id)
      BY <1>5, <2>1, <2>2, <2>4, <2>6 DEF LangOutcome
    <3>. QED BY <2>4, <2>6, <3>1 DEF LangDecides
  <2>. QED BY <2>5, <2>6
<1>. QED BY <1>4, <1>5

\* The loop stays among these states.
LEMMA SelectLangTyped ==
  ASSUME types \in Seq(Type), NEW sel \in LangSels, NEW id
  PROVE  SelectLang(sel, id) \in LangSels
<1>1. CASE IsOpen(sel)
  <2>1. IsOpen(SelectLang(sel, id)) \/ LangOutcome(SelectLang(sel, id), id)
    BY <1>1, SelectLangStep
  <2>. QED BY <2>1, LangSelsAre, LangOutcomeIsShut
<1>2. CASE IsShut(sel)
  BY <1>2, SelectLangEnded
<1>. QED BY <1>1, <1>2, LangSelsAre

\* The loop of _select.
LangLoop(f, ids) ==
  /\ LangSelected(ids) = f[Len(ids)]
  /\ f[0] = Cursors
  /\ \A n \in 1 .. Len(ids) : f[n] = SelectLang(f[n - 1], ids[n])
  /\ \A n \in 0 .. Len(ids) : f[n] \in LangSels

\* It is that loop: its equation holds, step by step.
LEMMA LangRuns ==
  ASSUME types \in Seq(Type), SameLists(types), type \in 0 .. Len(types), NEW ids, Len(ids) \in Nat
  PROVE  \E f : LangLoop(f, ids)
<1> DEFINE m == Len(ids)
           X == LangSels
           base == Cursors
           step == [x \in X \X (1 .. m) |-> SelectLang(x[1], ids[x[2]])]
           Is(f) == f = [n \in 0 .. m |-> IF n = 0 THEN base ELSE SelectLang(f[n - 1], ids[n])]
           h == CHOOSE f : Is(f)
<1>1. LangSelected(ids) = h[m]
  BY DEF LangSelected
<1>2. m \in Nat /\ base \in X
  BY LangSelsAre DEF Cursors, IsOpen, Open
<1>3. step \in Steps(m, X)
  <2>1. \A x \in X : \A id : SelectLang(x, id) \in X
    BY SelectLangTyped
  <2>. QED BY <2>1 DEF Steps
<1>4. \A x \in X : \A n \in 1 .. m : step[<<x, n>>] = SelectLang(x, ids[n])
  OBVIOUS
<1>. HIDE DEF m, X, base, step
<1>5. PICK f : f \in [0 .. m -> X] /\ Runs(f, m, base, step)
  BY <1>2, <1>3, RecursionExists
<1>6. ASSUME NEW n \in 1 .. m PROVE n - 1 \in 0 .. m /\ n \in 0 .. m /\ n # 0
  BY <1>2
<1>7. Is(f)
  <2>1. \A n \in 1 .. m : f[n] = SelectLang(f[n - 1], ids[n])
    BY <1>4, <1>5, <1>6 DEF Runs
  <2>2. \A n \in 0 .. m : n = 0 \/ n \in 1 .. m
    BY <1>2
  <2>3. \A n \in 0 .. m : f[n] = IF n = 0 THEN base ELSE SelectLang(f[n - 1], ids[n])
    BY <2>1, <2>2, <1>5 DEF Runs
  <2>. QED BY <1>5, <2>3
<1>8. Is(h)
  BY <1>7
<1>. HIDE DEF h
<1>9. h[0] = base /\ \A n \in 1 .. m : h[n] = SelectLang(h[n - 1], ids[n])
  <2>1. \A n \in 0 .. m : h[n] = IF n = 0 THEN base ELSE SelectLang(h[n - 1], ids[n])
    BY <1>8
  <2>2. 0 \in 0 .. m
    BY <1>2
  <2>. QED BY <1>6, <2>1, <2>2
<1>10. \A n \in 0 .. m : h[n] \in X
  <2>1. h[0] = base
    BY <1>9
  <2>2. \A n \in 1 .. m : h[n - 1] \in X => h[n] = step[<<h[n - 1], n>>]
    BY <1>4, <1>9
  <2>. QED BY <1>2, <1>3, <2>1, <2>2, RecursionTyped
<1>11. LangLoop(h, ids)
  BY <1>1, <1>9, <1>10 DEF LangLoop, m, X, base
<1>. QED BY <1>11

\* What the loop has come to: the first ID that decides has decided.
LangDecided(sel, ids, n) ==
  \/ IsOpen(sel) /\ \A p \in 1 .. n : ~LangDecides(ids[p])
  \/ \E p \in 1 .. n : /\ LangDecides(ids[p])
                       /\ \A q \in 1 .. n : LangDecides(ids[q]) => p <= q
                       /\ LangOutcome(sel, ids[p])

\* One ID more leaves it so.
LEMMA LangDecidedStep ==
  ASSUME types \in Seq(Type), NEW ids, NEW n \in Nat, NEW sel, LangDecided(sel, ids, n)
  PROVE  LangDecided(SelectLang(sel, ids[n + 1]), ids, n + 1)
<1>1. \A p \in 1 .. n + 1 : p = n + 1 \/ p \in 1 .. n
  OBVIOUS
<1>2. n + 1 \in 1 .. n + 1 /\ \A p \in 1 .. n : p \in 1 .. n + 1 /\ p <= n + 1
  OBVIOUS
<1>3. CASE IsOpen(sel) /\ \A p \in 1 .. n : ~LangDecides(ids[p])
  <2>1. CASE LangDecides(ids[n + 1])
    <3>1. LangOutcome(SelectLang(sel, ids[n + 1]), ids[n + 1])
      BY <1>3, <2>1, SelectLangStep
    <3>2. \A q \in 1 .. n + 1 : LangDecides(ids[q]) => n + 1 <= q
      BY <1>1, <1>3
    <3>. QED BY <2>1, <3>1, <3>2, <1>2 DEF LangDecided
  <2>2. CASE ~LangDecides(ids[n + 1])
    <3>1. IsOpen(SelectLang(sel, ids[n + 1]))
      BY <1>3, <2>2, SelectLangStep
    <3>2. \A p \in 1 .. n + 1 : ~LangDecides(ids[p])
      BY <1>1, <1>3, <2>2
    <3>. QED BY <3>1, <3>2 DEF LangDecided
  <2>. QED BY <2>1, <2>2
<1>4. CASE \E p \in 1 .. n : /\ LangDecides(ids[p])
                             /\ \A q \in 1 .. n : LangDecides(ids[q]) => p <= q
                             /\ LangOutcome(sel, ids[p])
  <2>1. PICK p \in 1 .. n : /\ LangDecides(ids[p])
                            /\ \A q \in 1 .. n : LangDecides(ids[q]) => p <= q
                            /\ LangOutcome(sel, ids[p])
    BY <1>4
  <2>2. SelectLang(sel, ids[n + 1]) = sel
    BY <2>1, LangOutcomeIsShut, SelectLangEnded
  <2>3. \A q \in 1 .. n + 1 : LangDecides(ids[q]) => p <= q
    BY <1>1, <1>2, <2>1
  <2>. QED BY <1>2, <2>1, <2>2, <2>3 DEF LangDecided
<1>. QED BY <1>3, <1>4 DEF LangDecided

\* So the whole list comes to what its first deciding ID does.
LEMMA LangSelectedIs ==
  ASSUME types \in Seq(Type), SameLists(types), type \in 0 .. Len(types),
         NEW ids, Len(ids) \in Nat
  PROVE  LangDecided(LangSelected(ids), ids, Len(ids))
<1>1. PICK f : LangLoop(f, ids)
  BY LangRuns
<1>2. /\ LangSelected(ids) = f[Len(ids)]
      /\ f[0] = Cursors
      /\ \A n \in 1 .. Len(ids) : f[n] = SelectLang(f[n - 1], ids[n])
  BY <1>1 DEF LangLoop
<1> DEFINE S == {n \in 0 .. Len(ids) : LangDecided(f[n], ids, n)}
<1>3. 0 \in 0 .. Len(ids) /\ Len(ids) \in 0 .. Len(ids)
  OBVIOUS
<1>4. 0 \in S
  <2>0. Cursors = Open(types, type)
    BY DEF Cursors, Open
  <2>1. IsOpen(f[0]) /\ \A p \in 1 .. 0 : ~LangDecides(ids[p])
    <3>1. IsOpen(f[0])
      BY <1>2, <2>0 DEF IsOpen
    <3>. QED BY <3>1
  <2>2. LangDecided(f[0], ids, 0)
    BY <2>1 DEF LangDecided
  <2>. QED BY <1>3, <2>2
<1>5. ASSUME NEW n \in 1 .. Len(ids), n - 1 \in S PROVE n \in S
  <2>1. PICK k \in Nat : k = n - 1
    BY n - 1 \in Nat
  <2>2. n = k + 1 /\ n \in 0 .. Len(ids)
    BY <2>1
  <2>3. LangDecided(f[k], ids, k) /\ f[n] = SelectLang(f[k], ids[k + 1])
    BY <1>2, <1>5, <2>1, <2>2
  <2>4. LangDecided(f[n], ids, k + 1)
    BY <2>3, LangDecidedStep
  <2>. QED BY <2>2, <2>4
<1>6. \A n \in 0 .. Len(ids) : n \in S
  <2>. HIDE DEF S
  <2>. QED BY <1>4, <1>5, UpTo
<1>. QED BY <1>2, <1>3, <1>6

\* What the application gets: the first candidate.
Chosen(sel, code, candidates) ==
  /\ SameLists(sel.types)
  /\ sel.type \in 0 .. Len(types)
  /\ sel.rc = code
  /\ sel.lang \in Nat \X Nat
  /\ IF candidates = {} THEN sel.lang = Nothing ELSE IsFirst(sel.lang, candidates)

\* Nothing has decided: the first language of the first type.
LEMMA DefaultOpen ==
  ASSUME types \in Seq(Type), \A n \in 1 .. Len(types) : types[n].langs # <<>>,
         NEW sel, IsOpen(sel)
  PROVE  Chosen(Default(sel), "OK", AllLangs(types))
<1>1. PICK ts : \E t \in 0 .. Len(types) : SameLists(ts) /\ sel = Open(ts, t)
  BY DEF IsOpen
<1>2. PICK t \in 0 .. Len(types) : SameLists(ts) /\ sel = Open(ts, t)
  BY <1>1
<1>3. /\ ts \in Seq(Type)
      /\ Len(ts) = Len(types)
      /\ \A n \in 1 .. Len(types) : /\ ts[n].langs = types[n].langs
                                    /\ ts[n].format = types[n].format
                                    /\ ts[n].curr \in 0 .. Len(types[n].langs)
  BY <1>2 DEF SameLists
<1>4. \A x : x \in AllLangs(types) <=>
          \E n \in 1 .. Len(types) : \E m \in 1 .. Len(types[n].langs) : x = <<n, m>>
  BY AllLangsAre
<1>5. /\ sel.types = ts /\ sel.type = t /\ sel.lang = Nothing /\ sel.rc = "OK"
      /\ Nothing \in Nat \X Nat
  BY <1>2 DEF Open, Nothing
<1>6. CASE Len(types) = 0
  <2>1. ts = <<>>
    BY <1>3, <1>6
  <2>2. Default(sel) = sel
    BY <1>5, <2>1 DEF Default
  <2>3. AllLangs(types) = {}
    BY <1>4, <1>6
  <2>. QED BY <1>2, <1>5, <2>2, <2>3 DEF Chosen
<1>7. CASE Len(types) # 0
  <2>1. ts # <<>> /\ 1 \in 1 .. Len(types) /\ 1 \in 0 .. Len(types)
    BY <1>3, <1>7
  <2>2. PICK x \in Type : x = ts[1]
    BY <1>3, <2>1, ts[1] \in Type
  <2>3. x.langs = types[1].langs /\ x.langs \in Seq(Lang) /\ x.langs # <<>>
    BY <1>3, <2>1, <2>2 DEF Type
  <2>4. Len(x.langs) \in Nat /\ Len(x.langs) # 0 /\ 1 \in 1 .. Len(x.langs)
    BY <2>3
  <2>5. Following(x.langs, 0) = 1
    BY <2>4 DEF Following
  <2>6. PICK y : y = [x EXCEPT !.curr = 1]
    OBVIOUS
  <2>7. y \in Type /\ y.langs = x.langs /\ y.format = x.format /\ y.curr = 1
    BY <2>6 DEF Type
  <2>8. PICK new : new = [ts EXCEPT ![1] = y]
    OBVIOUS
  <2>9. /\ new \in Seq(Type) /\ Len(new) = Len(ts) /\ new[1] = y
        /\ \A n \in 1 .. Len(types) : n # 1 => new[n] = ts[n]
    BY <1>3, <2>1, <2>7, <2>8
  <2>10. SameLists(new)
    <3>1. ASSUME NEW n \in 1 .. Len(types)
          PROVE  /\ new[n].langs = types[n].langs
                 /\ new[n].format = types[n].format
                 /\ new[n].curr \in 0 .. Len(types[n].langs)
      <4>1. CASE n = 1
        <5>1. new[n].langs = types[n].langs
          BY <1>3, <2>3, <2>7, <2>9, <4>1
        <5>2. new[n].format = types[n].format
          BY <1>3, <2>1, <2>2, <2>7, <2>9, <4>1
        <5>3. 1 \in 0 .. Len(types[1].langs)
          BY <2>3, <2>4
        <5>. QED BY <5>1, <5>2, <5>3, <2>7, <2>9, <4>1
      <4>2. CASE n # 1
        BY <1>3, <2>9, <4>2
      <4>. QED BY <4>1, <4>2
    <3>. QED BY <1>3, <2>9, <3>1 DEF SameLists
  <2>11. Default(sel) = [types |-> new, type |-> 1, lang |-> <<1, 1>>, rc |-> "OK", done |-> FALSE]
    <3>1. Default(sel) = [sel EXCEPT !.types[1].curr = Following(sel.types[1].langs, 0), !.type = 1,
                                     !.lang = <<1, Following(sel.types[1].langs, 0)>>]
      BY <1>5, <2>1 DEF Default
    <3>2. Following(sel.types[1].langs, 0) = 1
      BY <1>5, <2>2, <2>5
    <3>3. Default(sel) = [sel EXCEPT !.types[1].curr = 1, !.type = 1, !.lang = <<1, 1>>]
      BY <3>1, <3>2
    <3>4. [ts EXCEPT ![1].curr = 1] = new
      BY <2>2, <2>6, <2>8
    <3>. QED BY <1>2, <3>3, <3>4 DEF Open
  <2>12. <<1, 1>> \in AllLangs(types)
    BY <1>4, <2>1, <2>3, <2>4
  <2>13. ASSUME NEW other \in AllLangs(types) PROVE Before(<<1, 1>>, other)
    <3>1. PICK n \in 1 .. Len(types) : \E m \in 1 .. Len(types[n].langs) : other = <<n, m>>
      BY <1>4
    <3>2. PICK m \in 1 .. Len(types[n].langs) : other = <<n, m>>
      BY <3>1
    <3>3. (1 < n \/ 1 = n) /\ 1 <= m
      OBVIOUS
    <3>. QED BY <3>2, <3>3 DEF Before
  <2>14. IsFirst(<<1, 1>>, AllLangs(types))
    BY <2>12, <2>13 DEF IsFirst
  <2>15. PICK l : l = <<1, 1>>
    OBVIOUS
  <2>16. l \in Nat \X Nat /\ l[1] = 1 /\ l[2] = 1
    BY <2>15
  <2>17. PICK def : def = Default(sel)
    OBVIOUS
  <2>18. def.types = new /\ def.type = 1 /\ def.lang = l /\ def.rc = "OK"
    BY <2>11, <2>15, <2>17
  <2>19. IsFirst(def.lang, AllLangs(types)) /\ AllLangs(types) # {}
    BY <2>12, <2>14, <2>15, <2>18
  <2>. QED BY <2>1, <2>10, <2>16, <2>17, <2>18, <2>19 DEF Chosen
<1>. QED BY <1>6, <1>7

\* An ID has decided.
LEMMA DefaultShut ==
  ASSUME types \in Seq(Type), NEW sel, NEW id, LangOutcome(sel, id)
  PROVE  Chosen(Default(sel), IF id = "croak" THEN "KEYWORD_CROAK" ELSE "OK",
                              IF id = "croak" THEN {} ELSE AllHits(types, id))
<1>1. PICK ts : /\ SameLists(ts)
                /\ IF id = "croak"
                   THEN \E t \in 0 .. Len(types) : sel = Shut(ts, t, Nothing, "KEYWORD_CROAK")
                   ELSE AllHits(types, id) # {} /\ AtHit(sel, ts, id)
  BY DEF LangOutcome
<1>2. Nothing \in Nat \X Nat
  BY DEF Nothing
<1>3. CASE id = "croak"
  <2>1. PICK t \in 0 .. Len(types) : sel = Shut(ts, t, Nothing, "KEYWORD_CROAK")
    BY <1>1, <1>3
  <2>2. sel.types = ts /\ sel.type = t /\ sel.lang = Nothing /\ sel.rc = "KEYWORD_CROAK"
    BY <2>1 DEF Shut
  <2>3. Default(sel) = sel
    BY <2>2 DEF Default
  <2>. QED BY <1>1, <1>2, <1>3, <2>1, <2>2, <2>3 DEF Chosen
<1>4. CASE id # "croak"
  <2>1. PICK h \in 1 .. Len(types) : h = Hit(id)
    BY <1>1, <1>4, HitIs, Hit(id) \in 1 .. Len(types)
  <2>2. PICK f : f = Found(h, id)
    OBVIOUS
  <2>3. PICK l : l = <<h, f>>
    OBVIOUS
  <2>4. IsFirst(l, AllHits(types, id)) /\ f # 0 /\ h \in 0 .. Len(types) /\ h # 0
    BY <1>1, <1>4, <2>1, <2>2, <2>3, HitIs
  <2>5. sel.types = ts /\ sel.type = h /\ sel.lang = l /\ sel.rc = "OK" /\ ts[h].curr = f
    BY <1>1, <1>4, <2>1, <2>2, <2>3 DEF AtHit, Shut
  <2>6. h \in Nat /\ f \in Nat
    <3>1. types[h].langs \in Seq(Lang)
      <4>1. types[h] \in Type
        OBVIOUS
      <4>. QED BY <4>1 DEF Type
    <3>2. Len(types[h].langs) \in Nat
      BY <3>1
    <3>. QED BY <2>2, <3>2, FoundIs
  <2>7. l \in Nat \X Nat /\ l # Nothing /\ l[1] = h /\ l[2] = f
    BY <2>3, <2>4, <2>6 DEF Nothing
  <2>8. Default(sel) = sel
    BY <2>5, <2>7 DEF Default
  <2>. QED BY <1>1, <1>4, <2>4, <2>5, <2>7, <2>8 DEF Chosen
<1>. QED BY <1>3, <1>4

\* SubtitleSelectPicks, of a code and a language.
LangPicks(ts, ids, code, lang) ==
  LET deciding == {p \in 1 .. Len(ids) : ids[p] = "croak" \/ AllHits(ts, ids[p]) # {}}
      id == ids[First(deciding)]
      candidates == IF deciding = {}
                THEN AllLangs(ts) ELSE IF id = "croak" THEN {} ELSE AllHits(ts, id)
  IN  /\ code = IF deciding # {} /\ id = "croak" THEN "KEYWORD_CROAK" ELSE "OK"
      /\ IF candidates = {} THEN lang = Nothing ELSE IsFirst(lang, candidates)

\* The selection is the one that SubtitleSelectPicks asks for.
LEMMA SubtitleSelectIs ==
  ASSUME types \in Seq(Type), SameLists(types), type \in 0 .. Len(types),
         \A n \in 1 .. Len(types) : types[n].langs # <<>>,
         NEW ids, Len(ids) \in Nat, NEW sel, sel = Default(LangSelected(ids))
  PROVE  /\ SameLists(sel.types)
         /\ sel.type \in 0 .. Len(types)
         /\ sel.rc \in Codes
         /\ sel.lang \in Nat \X Nat
         /\ LangPicks(types, ids, sel.rc, sel.lang)
<1> DEFINE deciding == {p \in 1 .. Len(ids) : ids[p] = "croak" \/ AllHits(types, ids[p]) # {}}
<1>0. PICK old : old = LangSelected(ids)
  OBVIOUS
<1>1. LangDecided(old, ids, Len(ids))
  BY <1>0, LangSelectedIs
<1>2. \A p : p \in deciding <=> p \in 1 .. Len(ids) /\ LangDecides(ids[p])
  BY DEF LangDecides
<1>3. \A p \in deciding : p \in Nat
  OBVIOUS
<1>4. "OK" \in Codes /\ "KEYWORD_CROAK" \in Codes
  BY DEF Codes
<1>. HIDE DEF deciding
<1>5. CASE deciding = {}
  <2>1. IsOpen(old)
    BY <1>1, <1>2, <1>5 DEF LangDecided
  <2>2. Chosen(sel, "OK", AllLangs(types))
    BY <1>0, <2>1, DefaultOpen
  <2>. QED BY <1>4, <1>5, <2>2 DEF Chosen, LangPicks, deciding
<1>6. CASE deciding # {}
  <2>1. PICK p \in 1 .. Len(ids) : /\ LangDecides(ids[p])
                                   /\ \A q \in 1 .. Len(ids) : LangDecides(ids[q]) => p <= q
                                   /\ LangOutcome(old, ids[p])
    BY <1>1, <1>2, <1>6 DEF LangDecided
  <2>2. p \in deciding /\ \A q \in deciding : p <= q
    BY <1>2, <2>1
  <2>3. First(deciding) = p
    BY <1>3, <2>2, FirstIs
  <2>4. PICK id : id = ids[p]
    OBVIOUS
  <2>5. PICK code : code = IF id = "croak" THEN "KEYWORD_CROAK" ELSE "OK"
    OBVIOUS
  <2>6. PICK candidates : candidates = IF id = "croak" THEN {} ELSE AllHits(types, id)
    OBVIOUS
  <2>7. Chosen(sel, code, candidates)
    BY <1>0, <2>1, <2>4, <2>5, <2>6, DefaultShut
  <2>8. code \in Codes
    BY <1>4, <2>5
  <2>9. LangPicks(types, ids, code, sel.lang)
    BY <1>6, <2>3, <2>4, <2>5, <2>6, <2>7 DEF LangPicks, deciding, Chosen
  <2>. QED BY <2>7, <2>8, <2>9 DEF Chosen
<1>. QED BY <1>5, <1>6
-----------------------------------------------------------------------------
(* The invariant.                                                           *)

\* The lists are those of the table that was given.
ListsFit ==
  /\ handle = "media" =>
       \E at \in InOrder(streams, TablesIn(given)) : \A n \in DOMAIN streams :
         streams[n] = NewStream(given[at[n]])
  /\ handle = "subtitle" =>
       \E at \in InOrder(types, WithLanguages(given)) : \A n \in DOMAIN types :
         TypeFits(types[n], given[at[n]])
  /\ handle = "playlist" =>
       \E at \in InOrder(items, TablesIn(given)) : \A n \in DOMAIN items :
         items[n] = NewItem(given[at[n]])
  /\ handle = "scan" =>
       \E at \in Bijection(DOMAIN items, StringPlaces(given)) : \A n \in DOMAIN items :
         items[n] = given[at[n][1]][at[n][2]].url

\* quvi_subtitle_select has returned what it must.
SubtitlePicked == handle = "subtitle" /\ asked # <<>> => LangPicks(types, asked[2], rc, got)

ResultInv ==
  /\ ResultTypeOK
  /\ items \in Seq(Ids \cup STRING)
  /\ handle = "none" => asked = <<>>
  /\ EntriesAreThere
  /\ StreamSelectPicks
  /\ SubtitlePicked
  /\ ListsFit

\* ListsFit says what FormatsAreOwn and ListsAreComplete say.
LEMMA ListsFitImplies ==
  ASSUME ListsFit
  PROVE  FormatsAreOwn /\ ListsAreComplete
<1>1. ASSUME handle = "subtitle"
      PROVE  /\ \E at \in InOrder(types, WithLanguages(given)) : \A n \in DOMAIN types :
                  /\ types[n].format = given[at[n]].format
                  /\ \A m \in DOMAIN types[n].langs :
                       types[n].langs[m].format \in {types[n].format, -1}
             /\ \E at \in InOrder(types, WithLanguages(given)) : \A n \in DOMAIN types :
                  [m \in DOMAIN types[n].langs |-> types[n].langs[m].id] = given[at[n]].langs
  <2>1. PICK at \in InOrder(types, WithLanguages(given)) :
               \A n \in DOMAIN types : TypeFits(types[n], given[at[n]])
    BY <1>1 DEF ListsFit
  <2>2. \A n \in DOMAIN types :
          /\ types[n].format = given[at[n]].format
          /\ \A m \in DOMAIN types[n].langs : types[n].langs[m].format \in {types[n].format, -1}
    BY <2>1 DEF TypeFits
  <2>3. \A n \in DOMAIN types :
          [m \in DOMAIN types[n].langs |-> types[n].langs[m].id] = given[at[n]].langs
    BY <2>1, Zenon DEF TypeFits
  <2>4. \E x \in InOrder(types, WithLanguages(given)) : \A n \in DOMAIN types :
          [m \in DOMAIN types[n].langs |-> types[n].langs[m].id] = given[x[n]].langs
    BY <2>3, Zenon
  <2>. QED BY <2>2, <2>4, Zenon
<1>2. FormatsAreOwn
  BY <1>1 DEF FormatsAreOwn
<1>3. ListsAreComplete
  <2>1. handle = "subtitle" =>
          \E at \in InOrder(types, WithLanguages(given)) : \A n \in DOMAIN types :
            [m \in DOMAIN types[n].langs |-> types[n].langs[m].id] = given[at[n]].langs
    BY <1>1, Zenon
  <2>. QED BY <2>1, Zenon DEF ListsFit, ListsAreComplete
<1>. QED BY <1>2, <1>3

\* SubtitlePicked says what SubtitleSelectPicks says.
LEMMA SubtitlePickedImplies ==
  ASSUME SubtitlePicked
  PROVE  SubtitleSelectPicks
  BY DEF SubtitlePicked, LangPicks, SubtitleSelectPicks, AllLangs, AllHits, IsFirst, Before

\* Where the types differ by their cursors only, what is said of their
\* languages stays the same.
LEMMA SameListsKeep ==
  ASSUME types \in Seq(Type), SameLists(types')
  PROVE  /\ types' \in Seq(Type)
         /\ Len(types') = Len(types)
         /\ DOMAIN types' = DOMAIN types
         /\ \A n \in 1 .. Len(types) : /\ types'[n].langs = types[n].langs
                                       /\ types'[n].format = types[n].format
                                       /\ types'[n].curr \in 0 .. Len(types[n].langs)
  BY DEF SameLists

\* The first candidate stays the first.
LEMMA LangPicksStable ==
  ASSUME types \in Seq(Type), SameLists(types'), NEW ids, NEW code, NEW lang,
         LangPicks(types, ids, code, lang)
  PROVE  LangPicks(types', ids, code, lang)
<1>1. /\ types' \in Seq(Type)
      /\ Len(types') = Len(types)
      /\ DOMAIN types' = DOMAIN types
      /\ \A n \in 1 .. Len(types) : types'[n].langs = types[n].langs
  BY SameListsKeep
<1>2. DOMAIN types = 1 .. Len(types)
  OBVIOUS
<1>3. AllLangs(types') = AllLangs(types)
  <2>1. [n \in DOMAIN types |-> types[n].langs] = [n \in DOMAIN types' |-> types'[n].langs]
    BY <1>1, <1>2
  <2>. QED BY <2>1 DEF AllLangs
<1>4. \A nm \in AllLangs(types) : types'[nm[1]].langs = types[nm[1]].langs
  BY <1>1, AllLangsAre
<1>5. ASSUME NEW id PROVE AllHits(types', id) = AllHits(types, id)
  <2>1. \A nm \in AllLangs(types) :
          types'[nm[1]].langs[nm[2]].id = types[nm[1]].langs[nm[2]].id
    BY <1>4
  <2>. QED BY <1>3, <2>1 DEF AllHits
<1>. QED BY <1>3, <1>5 DEF LangPicks

\* The types still fit the table.
LEMMA TypesFitStable ==
  ASSUME types \in Seq(Type), SameLists(types'), NEW table,
         \E at \in InOrder(types, WithLanguages(table)) : \A n \in DOMAIN types :
           TypeFits(types[n], table[at[n]])
  PROVE  \E at \in InOrder(types', WithLanguages(table)) : \A n \in DOMAIN types' :
           TypeFits(types'[n], table[at[n]])
<1>1. PICK at \in InOrder(types, WithLanguages(table)) :
             \A n \in DOMAIN types : TypeFits(types[n], table[at[n]])
  OBVIOUS
<1>2. /\ DOMAIN types' = DOMAIN types
      /\ DOMAIN types = 1 .. Len(types)
      /\ \A n \in 1 .. Len(types) : /\ types'[n].langs = types[n].langs
                                    /\ types'[n].format = types[n].format
  BY SameListsKeep
<1>3. at \in InOrder(types', WithLanguages(table))
  BY <1>1, <1>2 DEF InOrder
<1>4. ASSUME NEW n \in DOMAIN types' PROVE TypeFits(types'[n], table[at[n]])
  <2>1. TypeFits(types[n], table[at[n]]) /\ n \in 1 .. Len(types)
    BY <1>1, <1>2, <1>4
  <2>. QED BY <1>2, <2>1 DEF TypeFits
<1>. QED BY <1>3, <1>4

\* What every step of a subtitle handle has to show when it leaves the lists alone.
LEMMA TypesKept ==
  ASSUME ResultInv, handle = "subtitle", SameLists(types'), type' \in 0 .. Len(types),
         rc' \in Codes, got' \in Nat \X Nat,
         UNCHANGED <<handle, streams, stream, items, item, given>>,
         asked' # <<>> => LangPicks(types, asked'[2], rc', got')
  PROVE  ResultInv'
<1>1. types \in Seq(Type) /\ ResultTypeOK
  BY DEF ResultInv, ResultTypeOK
<1>2. /\ types' \in Seq(Type)
      /\ Len(types') = Len(types)
      /\ \A n \in 1 .. Len(types) : /\ types'[n].langs = types[n].langs
                                    /\ types'[n].curr \in 0 .. Len(types[n].langs)
  BY <1>1, SameListsKeep
<1>3. ResultTypeOK'
  BY <1>1, <1>2 DEF ResultTypeOK
<1>4. items' \in Seq(Ids \cup STRING)
  BY DEF ResultInv
<1>5. EntriesAreThere'
  <2>1. \A n \in 1 .. Len(types) : types[n].langs # <<>>
    BY DEF ResultInv, EntriesAreThere
  <2>. QED BY <1>2, <2>1 DEF EntriesAreThere
<1>6. SubtitlePicked'
  <2>1. ASSUME asked' # <<>> PROVE LangPicks(types', asked'[2], rc', got')
    <3>1. LangPicks(types, asked'[2], rc', got')
      BY <2>1
    <3>. QED BY <1>1, <3>1, LangPicksStable
  <2>. QED BY <2>1 DEF SubtitlePicked
<1>7. StreamSelectPicks'
  BY DEF StreamSelectPicks
<1>8. ListsFit'
  <2>1. \E at \in InOrder(types, WithLanguages(given)) : \A n \in DOMAIN types :
          TypeFits(types[n], given[at[n]])
    BY DEF ResultInv, ListsFit
  <2>2. \E at \in InOrder(types', WithLanguages(given)) : \A n \in DOMAIN types' :
          TypeFits(types'[n], given[at[n]])
    BY <1>1, <2>1, TypesFitStable
  <2>. QED BY <2>2 DEF ListsFit
<1>. QED BY <1>3, <1>4, <1>5, <1>6, <1>7, <1>8 DEF ResultInv

\* The same of a media handle, whose streams stay as they are.
LEMMA StreamsKept ==
  ASSUME ResultInv, handle = "media", stream' \in 0 .. Len(streams), rc' \in Codes,
         MediaOnly, UNCHANGED got,
         asked' # <<>> => StreamPicks(asked'[1], asked'[2], stream', rc')
  PROVE  ResultInv'
<1>1. ResultTypeOK' /\ items' \in Seq(Ids \cup STRING)
  BY DEF ResultInv, ResultTypeOK, MediaOnly
<1>2. EntriesAreThere'
  <2>1. Len(streams) \in Nat /\ Len(streams) # 0
    <3>1. CurrentStream \in 1 .. Len(streams) /\ streams \in Seq(Streams)
      BY DEF ResultInv, EntriesAreThere, ResultTypeOK
    <3>. QED BY <3>1
  <2>2. (IF stream' = 0 THEN Following(streams, 0) ELSE stream') \in 1 .. Len(streams)
    BY <2>1 DEF Following
  <2>3. CurrentStream' \in 1 .. Len(streams')
    BY <2>2 DEF MediaOnly, CurrentStream, Following
  <2>. QED BY <2>3 DEF EntriesAreThere, MediaOnly
<1>3. StreamSelectPicks'
  <2>1. ASSUME asked' # <<>> PROVE StreamPicks(asked[1], asked[2], stream, rc)'
    BY <2>1 DEF StreamPicks, Wanted, Hits, MediaOnly
  <2>. QED BY <2>1 DEF StreamSelectPicks, StreamPicks, Wanted, CurrentStream
<1>4. SubtitlePicked'
  BY DEF SubtitlePicked, MediaOnly
<1>5. ListsFit'
  BY DEF ResultInv, ListsFit, MediaOnly
<1>6. (handle = "none" => asked = <<>>)'
  BY DEF MediaOnly
<1>. QED BY <1>1, <1>2, <1>3, <1>4, <1>5, <1>6 DEF ResultInv

\* The same of a playlist and of a scan.
LEMMA ItemsKept ==
  ASSUME ResultInv, handle \in {"playlist", "scan"}, item' \in 0 .. Len(items), rc' \in Codes,
         ItemsOnly, asked' = <<>>
  PROVE  ResultInv'
<1>1. ResultTypeOK' /\ items' \in Seq(Ids \cup STRING)
  BY DEF ResultInv, ResultTypeOK, ItemsOnly
<1>2. EntriesAreThere' /\ StreamSelectPicks' /\ SubtitlePicked'
  BY DEF EntriesAreThere, StreamSelectPicks, SubtitlePicked, ItemsOnly
<1>3. ListsFit'
  BY DEF ResultInv, ListsFit, ItemsOnly
<1>. QED BY <1>1, <1>2, <1>3 DEF ResultInv

\* The process has ended.
LEMMA ExitKeeps ==
  ASSUME ResultInv, Exit
  PROVE  ResultInv'
<1>1. ResultTypeOK' /\ items' \in Seq(Ids \cup STRING)
  BY DEF ResultInv, ResultTypeOK, Exit
<1>2. EntriesAreThere' /\ StreamSelectPicks' /\ SubtitlePicked' /\ ListsFit'
  BY DEF EntriesAreThere, StreamSelectPicks, SubtitlePicked, ListsFit, Exit
<1>. QED BY <1>1, <1>2 DEF ResultInv, Exit

\* The application holds nothing yet.
LEMMA InitHolds == ResultInit => ResultInv
<1>1. SUFFICES ASSUME ResultInit PROVE ResultInv
  OBVIOUS
<1>2. ResultTypeOK /\ items \in Seq(Ids \cup STRING)
  BY <1>1 DEF ResultInit, ResultTypeOK, Nothing, Codes
<1>3. EntriesAreThere /\ StreamSelectPicks /\ SubtitlePicked /\ ListsFit
  BY <1>1 DEF ResultInit, EntriesAreThere, StreamSelectPicks, SubtitlePicked, ListsFit
<1>. QED BY <1>1, <1>2, <1>3 DEF ResultInv, ResultInit

\* quvi_media_new: the streams are those of the table.
LEMMA MediaNewKeeps ==
  ASSUME ResultInv, MediaNew
  PROVE  ResultInv'
<1>1. PICK table \in MediaTables :
        IF StreamsAreValid(table)
        THEN /\ handle' = "media"
             /\ streams' = StreamsOf(table)
             /\ stream' = 0
             /\ rc' = "OK"
             /\ given' = table
             /\ UNCHANGED <<types, type, items, item, asked, got>>
        ELSE Exit
  BY DEF MediaNew
<1>2. CASE ~StreamsAreValid(table)
  BY <1>1, <1>2, ExitKeeps
<1>3. CASE StreamsAreValid(table)
  <2>1. PICK list : list = StreamsOf(table)
    OBVIOUS
  <2>2. /\ list \in Seq(Streams)
        /\ Len(list) # 0
        /\ \E at \in InOrder(list, TablesIn(table)) :
             \A n \in DOMAIN list : list[n] = NewStream(table[at[n]])
    <3>1. /\ StreamsOf(table) \in Seq(Streams)
          /\ Len(StreamsOf(table)) # 0
          /\ \E at \in InOrder(StreamsOf(table), TablesIn(table)) :
               \A n \in DOMAIN StreamsOf(table) :
                 StreamsOf(table)[n] = NewStream(table[at[n]])
      BY <1>3, StreamsOfTable
    <3>. QED BY <2>1, <3>1
  <2>3. /\ handle' = "media" /\ streams' = list /\ stream' = 0 /\ rc' = "OK" /\ given' = table
        /\ UNCHANGED <<types, type, items, item, asked, got>>
    BY <1>1, <1>3, <2>1
  <2>4. asked' = <<>>
    BY <2>3 DEF ResultInv, MediaNew
  <2>5. Len(list) \in Nat /\ 0 \in 0 .. Len(list)
    BY <2>2
  <2>6. ResultTypeOK'
    BY <2>2, <2>3, <2>5 DEF ResultInv, ResultTypeOK, Codes
  <2>7. EntriesAreThere'
    <3>1. Following(list, 0) \in 1 .. Len(list)
      BY <2>2, <2>5 DEF Following
    <3>2. CurrentStream' \in 1 .. Len(streams')
      BY <2>3, <3>1 DEF CurrentStream, Following
    <3>. QED BY <2>3, <3>2 DEF EntriesAreThere
  <2>8. StreamSelectPicks' /\ SubtitlePicked'
    BY <2>3, <2>4 DEF StreamSelectPicks, SubtitlePicked
  <2>9. ListsFit'
    BY <2>2, <2>3 DEF ListsFit
  <2>10. items' \in Seq(Ids \cup STRING)
    BY <2>3 DEF ResultInv
  <2>. QED BY <2>3, <2>4, <2>6, <2>7, <2>8, <2>9, <2>10 DEF ResultInv
<1>. QED BY <1>2, <1>3

\* quvi_subtitle_new: the types are those of the table.
LEMMA SubtitleNewKeeps ==
  ASSUME ResultInv, SubtitleNew
  PROVE  ResultInv'
<1>1. PICK table \in SubtitleTables :
        IF SubtitlesAreValid(table)
        THEN /\ handle' = "subtitle"
             /\ \E read \in [1 .. Len(Kept(table, WithLanguages(table))) -> BOOLEAN] :
                  types' = TypesOf(table, read)
             /\ type' = 0
             /\ rc' = "OK"
             /\ given' = table
             /\ UNCHANGED <<streams, stream, items, item, asked, got>>
        ELSE Exit
  BY DEF SubtitleNew, TypesOf
<1>2. CASE ~SubtitlesAreValid(table)
  BY <1>1, <1>2, ExitKeeps
<1>3. CASE SubtitlesAreValid(table)
  <2>1. PICK read \in [1 .. Len(Kept(table, WithLanguages(table))) -> BOOLEAN] :
               types' = TypesOf(table, read)
    BY <1>1, <1>3
  <2>2. PICK list : list = TypesOf(table, read)
    OBVIOUS
  <2>3. /\ list \in Seq(Type)
        /\ \A n \in 1 .. Len(list) : list[n].curr = 0 /\ list[n].langs # <<>>
        /\ \E at \in InOrder(list, WithLanguages(table)) :
             \A n \in DOMAIN list : TypeFits(list[n], table[at[n]])
    <3>1. /\ TypesOf(table, read) \in Seq(Type)
          /\ \A n \in 1 .. Len(TypesOf(table, read)) :
               TypesOf(table, read)[n].curr = 0 /\ TypesOf(table, read)[n].langs # <<>>
          /\ \E at \in InOrder(TypesOf(table, read), WithLanguages(table)) :
               \A n \in DOMAIN TypesOf(table, read) :
                 TypeFits(TypesOf(table, read)[n], table[at[n]])
      BY TypesOfTable
    <3>. QED BY <2>2, <3>1
  <2>4. /\ handle' = "subtitle" /\ types' = list /\ type' = 0 /\ rc' = "OK" /\ given' = table
        /\ UNCHANGED <<streams, stream, items, item, asked, got>>
    BY <1>1, <1>3, <2>1, <2>2
  <2>5. asked' = <<>>
    BY <2>4 DEF ResultInv, SubtitleNew
  <2>6. ResultTypeOK'
    <3>1. ASSUME NEW n \in 1 .. Len(list) PROVE list[n].curr \in 0 .. Len(list[n].langs)
      <4>1. list[n].langs \in Seq(Lang)
        <5>1. list[n] \in Type
          BY <2>3
        <5>. QED BY <5>1 DEF Type
      <4>2. 0 \in 0 .. Len(list[n].langs)
        BY <4>1
      <4>. QED BY <2>3, <4>2
    <3>2. 0 \in 0 .. Len(list)
      BY <2>3
    <3>. QED BY <2>3, <2>4, <3>1, <3>2 DEF ResultInv, ResultTypeOK, Codes
  <2>7. EntriesAreThere'
    BY <2>3, <2>4 DEF EntriesAreThere
  <2>8. StreamSelectPicks' /\ SubtitlePicked'
    BY <2>4, <2>5 DEF StreamSelectPicks, SubtitlePicked
  <2>9. ListsFit'
    BY <2>3, <2>4 DEF ListsFit
  <2>10. items' \in Seq(Ids \cup STRING)
    BY <2>4 DEF ResultInv
  <2>. QED BY <2>4, <2>5, <2>6, <2>7, <2>8, <2>9, <2>10 DEF ResultInv
<1>. QED BY <1>2, <1>3

\* quvi_playlist_new: the items are those of the table.
LEMMA PlaylistNewKeeps ==
  ASSUME ResultInv, PlaylistNew
  PROVE  ResultInv'
<1>1. PICK table \in PlaylistTables :
        IF PlaylistIsValid(table)
        THEN /\ handle' = "playlist"
             /\ items' = ItemsOf(table)
             /\ item' = 0
             /\ rc' = "OK"
             /\ given' = table
             /\ UNCHANGED <<streams, stream, types, type, asked, got>>
        ELSE Exit
  BY DEF PlaylistNew, ItemsOf
<1>2. CASE ~PlaylistIsValid(table)
  BY <1>1, <1>2, ExitKeeps
<1>3. CASE PlaylistIsValid(table)
  <2>1. PICK list : list = ItemsOf(table)
    OBVIOUS
  <2>2. /\ list \in Seq(Ids)
        /\ \E at \in InOrder(list, TablesIn(table)) :
             \A n \in DOMAIN list : list[n] = NewItem(table[at[n]])
    <3>1. /\ ItemsOf(table) \in Seq(Ids)
          /\ \E at \in InOrder(ItemsOf(table), TablesIn(table)) :
               \A n \in DOMAIN ItemsOf(table) : ItemsOf(table)[n] = NewItem(table[at[n]])
      BY ItemsOfTable
    <3>. QED BY <2>1, <3>1
  <2>3. /\ handle' = "playlist" /\ items' = list /\ item' = 0 /\ rc' = "OK" /\ given' = table
        /\ UNCHANGED <<streams, stream, types, type, asked, got>>
    BY <1>1, <1>3, <2>1
  <2>4. asked' = <<>>
    BY <2>3 DEF ResultInv, PlaylistNew
  <2>5. list \in Seq(Ids \cup STRING) /\ 0 \in 0 .. Len(list)
    BY <2>2, SeqMonotonic
  <2>6. ResultTypeOK'
    BY <2>3, <2>5 DEF ResultInv, ResultTypeOK, Codes
  <2>7. EntriesAreThere' /\ StreamSelectPicks' /\ SubtitlePicked'
    BY <2>3 DEF EntriesAreThere, StreamSelectPicks, SubtitlePicked
  <2>8. ListsFit'
    BY <2>2, <2>3 DEF ListsFit
  <2>. QED BY <2>3, <2>4, <2>5, <2>6, <2>7, <2>8 DEF ResultInv
<1>. QED BY <1>2, <1>3

\* quvi_scan_new: the URLs are those of all tables.
LEMMA ScanNewKeeps ==
  ASSUME ResultInv, ScanNew
  PROVE  ResultInv'
<1>1. PICK tables \in ScanRuns : items' = UrlsOf(tables) /\ given' = tables
  BY DEF ScanNew
<1>2. tables \in Seq(Seq(ScanEntries))
  BY TablesAssumption
<1>3. PICK list : list = UrlsOf(tables)
  OBVIOUS
<1>4. /\ list \in Seq(STRING)
      /\ \E at \in Bijection(DOMAIN list, StringPlaces(tables)) :
           \A n \in DOMAIN list : list[n] = tables[at[n][1]][at[n][2]].url
  <2>1. /\ UrlsOf(tables) \in Seq(STRING)
        /\ \E at \in Bijection(DOMAIN UrlsOf(tables), StringPlaces(tables)) :
             \A n \in DOMAIN UrlsOf(tables) : UrlsOf(tables)[n] = tables[at[n][1]][at[n][2]].url
    BY <1>2, UrlsOfTables
  <2>. QED BY <1>3, <2>1
<1>5. /\ handle' = "scan" /\ items' = list /\ item' = 0 /\ rc' = "OK" /\ given' = tables
      /\ UNCHANGED <<streams, stream, types, type, asked, got>>
  BY <1>1, <1>3 DEF ScanNew
<1>6. asked' = <<>>
  BY <1>5 DEF ResultInv, ScanNew
<1>7. list \in Seq(Ids \cup STRING) /\ 0 \in 0 .. Len(list)
  BY <1>4, SeqMonotonic
<1>8. ResultTypeOK'
  BY <1>5, <1>7 DEF ResultInv, ResultTypeOK, Codes
<1>9. EntriesAreThere' /\ StreamSelectPicks' /\ SubtitlePicked'
  BY <1>5 DEF EntriesAreThere, StreamSelectPicks, SubtitlePicked
<1>10. ListsFit'
  BY <1>4, <1>5 DEF ListsFit
<1>. QED BY <1>5, <1>6, <1>7, <1>8, <1>9, <1>10 DEF ResultInv

\* quvi_*_free: nothing is left.
LEMMA FreeKeeps ==
  ASSUME ResultInv, Free
  PROVE  ResultInv'
<1>1. ResultTypeOK' /\ items' \in Seq(Ids \cup STRING)
  BY DEF ResultInv, ResultTypeOK, Free, Nothing
<1>2. EntriesAreThere' /\ StreamSelectPicks' /\ SubtitlePicked' /\ ListsFit'
  BY DEF EntriesAreThere, StreamSelectPicks, SubtitlePicked, ListsFit, Free
<1>. QED BY <1>1, <1>2 DEF ResultInv, Free

\* The stream cursor moves in its list.
LEMMA CursorsKeep ==
  ASSUME ResultInv, StreamNext \/ StreamReset \/ StreamGet
  PROVE  ResultInv'
<1>1. /\ streams \in Seq(Streams) /\ stream \in 0 .. Len(streams) /\ rc \in Codes
      /\ Len(streams) \in Nat /\ stream \in Nat /\ "OK" \in Codes
  BY DEF ResultInv, ResultTypeOK, Codes
<1>2. Following(streams, stream) \in 0 .. Len(streams) /\ 0 \in 0 .. Len(streams)
  BY <1>1, FollowingIs
<1>3. CASE StreamNext
  BY <1>1, <1>2, <1>3, StreamsKept DEF StreamNext
<1>4. CASE StreamReset
  BY <1>1, <1>2, <1>4, StreamsKept DEF StreamReset
<1>5. CASE StreamGet
  <2>1. CASE CurrentStream = 0
    BY <1>5, <2>1, ExitKeeps DEF StreamGet
  <2>2. CASE CurrentStream # 0
    <3>1. handle = "media" /\ stream' = CurrentStream /\ rc' = "OK" /\ asked' = <<>>
          /\ MediaOnly /\ UNCHANGED got
      BY <1>5, <2>2 DEF StreamGet
    <3>2. CurrentStream \in 0 .. Len(streams)
      BY <1>1, <1>2, FollowingIs DEF CurrentStream
    <3>. QED BY <1>1, <3>1, <3>2, StreamsKept
  <2>. QED BY <2>1, <2>2
<1>. QED BY <1>3, <1>4, <1>5

\* quvi_media_stream_choose_best selects as the ID list of `best' does.
LEMMA ChooseBestKeeps ==
  ASSUME ResultInv, ChooseBest
  PROVE  ResultInv'
<1>1. streams \in Seq(Streams) /\ rc \in Codes /\ Len(streams) # 0
  <2>1. CurrentStream \in 1 .. Len(streams)
    BY DEF ResultInv, EntriesAreThere, ChooseBest
  <2>. QED BY <2>1 DEF ResultInv, ResultTypeOK
<1>2. /\ handle = "media" /\ stream' = Best /\ asked' = <<"best", <<"best">>>> /\ MediaOnly
      /\ UNCHANGED got /\ rc' = rc
  BY DEF ChooseBest
<1>3. Best \in 0 .. Len(streams)
  BY <1>1, StreamFound
<1>4. StreamPicks("best", <<"best">>, Best, rc')
  BY <1>1, BestPicks
<1>5. StreamPicks(asked'[1], asked'[2], stream', rc')
  BY <1>2, <1>4
<1>. QED BY <1>1, <1>2, <1>3, <1>5, StreamsKept

\* quvi_media_stream_select: see StreamSelectedPicks.
LEMMA StreamSelectKeeps ==
  ASSUME ResultInv, NEW ids \in IdLists, StreamSelect(ids)
  PROVE  ResultInv'
<1>1. streams \in Seq(Streams) /\ Len(streams) # 0
  <2>1. CurrentStream \in 1 .. Len(streams)
    BY DEF ResultInv, EntriesAreThere, StreamSelect
  <2>. QED BY <2>1 DEF ResultInv, ResultTypeOK
<1>2. Len(ids) \in Nat
  BY IdListsAssumption
<1>3. PICK sel : sel = StreamSelected(ids)
  OBVIOUS
<1>4. sel.curr \in 0 .. Len(streams) /\ sel.rc \in Codes
  <2>1. sel \in Sels
    BY <1>1, <1>2, <1>3, StreamSelectedIs
  <2>. QED BY <2>1 DEF Sels
<1>5. StreamPicks("select", ids, sel.curr, sel.rc)
  BY <1>1, <1>2, <1>3, StreamSelectedPicks
<1>6. /\ handle = "media" /\ stream' = sel.curr /\ rc' = sel.rc /\ asked' = <<"select", ids>>
      /\ MediaOnly /\ UNCHANGED got
  BY <1>3 DEF StreamSelect
<1>7. StreamPicks(asked'[1], asked'[2], stream', rc')
  BY <1>5, <1>6
<1>. QED BY <1>4, <1>6, <1>7, StreamsKept

\* What a subtitle handle's own types are to TypesKept.
LEMMA TypesAre ==
  ASSUME ResultInv
  PROVE  /\ SameLists(types)
         /\ types \in Seq(Type) /\ Len(types) \in Nat
         /\ type \in 0 .. Len(types) /\ type \in Nat
         /\ rc \in Codes /\ got \in Nat \X Nat
<1>1. ResultTypeOK
  BY DEF ResultInv
<1>. QED BY <1>1 DEF ResultTypeOK, SameLists

\* The type cursor moves in its list.
LEMMA TypeCursorsKeep ==
  ASSUME ResultInv, TypeNext \/ TypeReset
  PROVE  ResultInv'
<1>1. Following(types, type) \in 0 .. Len(types) /\ 0 \in 0 .. Len(types)
  BY TypesAre, FollowingIs
<1>2. /\ handle = "subtitle" /\ asked' = <<>> /\ SubtitleOnly
      /\ types' = types /\ rc' = rc /\ got' = got
      /\ type' \in 0 .. Len(types)
  BY <1>1 DEF TypeNext, TypeReset
<1>3. SameLists(types')
  BY <1>2, TypesAre
<1>. QED BY <1>2, <1>3, TypesAre, TypesKept DEF SubtitleOnly

\* A step that moves the cursor of one type's languages.
LEMMA LangCursorKeeps ==
  ASSUME ResultInv, NEW n \in 1 .. Len(types), LangNext(n) \/ LangReset(n)
  PROVE  ResultInv'
<1>1. PICK x \in Type : x = types[n]
  BY TypesAre, types[n] \in Type
<1>2. x.langs \in Seq(Lang) /\ Len(x.langs) \in Nat /\ x.curr \in Nat
  BY DEF Type
<1>3. Following(x.langs, x.curr) \in 0 .. Len(x.langs) /\ 0 \in 0 .. Len(x.langs)
  BY <1>2 DEF Following
<1>4. PICK c \in 0 .. Len(x.langs) : types' = [types EXCEPT ![n].curr = c]
  <2>1. CASE LangNext(n)
    <3>1. types' = [types EXCEPT ![n].curr = Following(types[n].langs, types[n].curr)]
      BY <2>1 DEF LangNext
    <3>. QED BY <1>1, <1>3, <3>1
  <2>2. CASE LangReset(n)
    BY <1>3, <2>2 DEF LangReset
  <2>. QED BY <2>1, <2>2
<1>5. PICK y : y = [x EXCEPT !.curr = c]
  OBVIOUS
<1>6. y \in Type /\ y.langs = x.langs /\ y.format = x.format /\ y.curr = c
  <2>1. c \in Nat
    BY <1>2
  <2>. QED BY <1>5, <2>1 DEF Type
<1>7. types' = [types EXCEPT ![n] = y]
  BY <1>1, <1>4, <1>5
<1>8. SameLists(types')
  <2>1. /\ types' \in Seq(Type) /\ Len(types') = Len(types) /\ types'[n] = y
        /\ \A m \in 1 .. Len(types) : m # n => types'[m] = types[m]
    BY <1>6, <1>7, TypesAre
  <2>2. ASSUME NEW m \in 1 .. Len(types)
        PROVE  /\ types'[m].langs = types[m].langs
               /\ types'[m].format = types[m].format
               /\ types'[m].curr \in 0 .. Len(types[m].langs)
    <3>1. CASE m = n
      BY <1>1, <1>6, <2>1, <3>1
    <3>2. CASE m # n
      BY <2>1, <3>2, TypesAre DEF SameLists
    <3>. QED BY <3>1, <3>2
  <2>. QED BY <2>1, <2>2 DEF SameLists
<1>9. /\ handle = "subtitle" /\ asked' = <<>> /\ SubtitleOnly
      /\ type' = type /\ rc' = rc /\ got' = got
  BY DEF LangNext, LangReset
<1>. QED BY <1>8, <1>9, TypesAre, TypesKept DEF SubtitleOnly

\* quvi_subtitle_select: see SubtitleSelectIs.
LEMMA SubtitleSelectKeeps ==
  ASSUME ResultInv, NEW ids \in IdLists, SubtitleSelect(ids)
  PROVE  ResultInv'
<1>1. \A n \in 1 .. Len(types) : types[n].langs # <<>>
  BY DEF ResultInv, EntriesAreThere, SubtitleSelect
<1>2. Len(ids) \in Nat
  BY IdListsAssumption
<1>3. PICK sel : sel = Default(LangSelected(ids))
  OBVIOUS
<1>4. /\ SameLists(sel.types)
      /\ sel.type \in 0 .. Len(types)
      /\ sel.rc \in Codes
      /\ sel.lang \in Nat \X Nat
      /\ LangPicks(types, ids, sel.rc, sel.lang)
  BY <1>1, <1>2, <1>3, TypesAre, SubtitleSelectIs
<1>5. /\ handle = "subtitle" /\ types' = sel.types /\ type' = sel.type /\ rc' = sel.rc
      /\ got' = sel.lang /\ asked' = <<"select", ids>> /\ SubtitleOnly
  BY <1>3 DEF SubtitleSelect
<1>6. /\ SameLists(types') /\ type' \in 0 .. Len(types) /\ rc' \in Codes /\ got' \in Nat \X Nat
      /\ LangPicks(types, asked'[2], rc', got')
  BY <1>4, <1>5
<1>. QED BY <1>5, <1>6, TypesKept DEF SubtitleOnly

\* The cursor of a playlist or a scan moves in its list.
LEMMA ItemCursorsKeep ==
  ASSUME ResultInv, ItemNext \/ ItemReset \/ ItemGet
  PROVE  ResultInv'
<1>1. /\ Len(items) \in Nat /\ item \in 0 .. Len(items) /\ item \in Nat
      /\ rc \in Codes /\ "OK" \in Codes
  BY DEF ResultInv, ResultTypeOK, Codes
<1>2. /\ Following(items, item) \in 0 .. Len(items) /\ Following(items, 0) \in 0 .. Len(items)
      /\ 0 \in 0 .. Len(items) /\ 0 \in Nat
  BY <1>1, FollowingIs, 0 \in Nat
<1>3. /\ handle \in {"playlist", "scan"} /\ asked' = <<>> /\ ItemsOnly
      /\ item' \in 0 .. Len(items) /\ rc' \in Codes
  BY <1>1, <1>2 DEF ItemNext, ItemReset, ItemGet
<1>. QED BY <1>3, ItemsKept

\* A getter changes nothing but the status.
LEMMA PropertyGetKeeps ==
  ASSUME ResultInv, PropertyGet
  PROVE  ResultInv'
<1>1. /\ UNCHANGED <<handle, streams, stream, types, type, items, item, given, got>>
      /\ asked' = <<>> /\ rc' \in Codes
  BY DEF PropertyGet, Codes
<1>2. ResultTypeOK' /\ items' \in Seq(Ids \cup STRING)
  BY <1>1 DEF ResultInv, ResultTypeOK
<1>3. EntriesAreThere'
  BY <1>1 DEF ResultInv, EntriesAreThere, CurrentStream, Following
<1>4. StreamSelectPicks' /\ SubtitlePicked'
  BY <1>1 DEF StreamSelectPicks, SubtitlePicked
<1>5. ListsFit'
  BY <1>1 DEF ResultInv, ListsFit
<1>. QED BY <1>1, <1>2, <1>3, <1>4, <1>5 DEF ResultInv

\* Nothing changes.
LEMMA StutterKeeps ==
  ASSUME ResultInv, UNCHANGED resultVars
  PROVE  ResultInv'
<1>1. ResultTypeOK' /\ items' \in Seq(Ids \cup STRING) /\ (handle = "none" => asked = <<>>)'
  BY DEF ResultInv, ResultTypeOK, resultVars
<1>2. EntriesAreThere'
  BY DEF ResultInv, EntriesAreThere, CurrentStream, Following, resultVars
<1>3. StreamSelectPicks'
  BY DEF ResultInv, StreamSelectPicks, CurrentStream, Following, Hits, resultVars
<1>4. SubtitlePicked'
  BY DEF ResultInv, SubtitlePicked, resultVars
<1>5. ListsFit'
  BY DEF ResultInv, ListsFit, resultVars
<1>. QED BY <1>1, <1>2, <1>3, <1>4, <1>5 DEF ResultInv

\* Every step keeps the invariant.
LEMMA NextKeeps ==
  ASSUME ResultInv, [ResultNext]_resultVars
  PROVE  ResultInv'
<1>1. CASE MediaNew
  BY <1>1, MediaNewKeeps
<1>2. CASE SubtitleNew
  BY <1>2, SubtitleNewKeeps
<1>3. CASE PlaylistNew
  BY <1>3, PlaylistNewKeeps
<1>4. CASE ScanNew
  BY <1>4, ScanNewKeeps
<1>5. CASE Free
  BY <1>5, FreeKeeps
<1>6. CASE StreamNext \/ StreamReset \/ StreamGet
  BY <1>6, CursorsKeep
<1>7. CASE ChooseBest
  BY <1>7, ChooseBestKeeps
<1>8. CASE \E ids \in IdLists : StreamSelect(ids)
  BY <1>8, StreamSelectKeeps
<1>9. CASE TypeNext \/ TypeReset
  BY <1>9, TypeCursorsKeep
<1>10. CASE \E n \in 1 .. Len(types) : LangNext(n) \/ LangReset(n)
  BY <1>10, LangCursorKeeps
<1>11. CASE \E ids \in IdLists : SubtitleSelect(ids)
  BY <1>11, SubtitleSelectKeeps
<1>12. CASE ItemNext \/ ItemReset \/ ItemGet
  BY <1>12, ItemCursorsKeep
<1>13. CASE PropertyGet
  BY <1>13, PropertyGetKeeps
<1>14. CASE Exited \/ UNCHANGED resultVars
  BY <1>14, StutterKeeps DEF Exited
<1>. QED BY <1>1, <1>2, <1>3, <1>4, <1>5, <1>6, <1>7, <1>8, <1>9, <1>10, <1>11, <1>12,
            <1>13, <1>14 DEF ResultNext

\* The lists, the cursors and the selections of a handle are always as ResultInv
\* says: what the application holds is what the scripts gave, in their order,
\* and what it selected is where the cursors stand.
THEOREM ResultInvHolds == ResultSpec => []ResultInv
<1>1. ResultInv /\ [ResultNext]_resultVars => ResultInv'
  BY NextKeeps
<1>. QED BY <1>1, InitHolds, PTL DEF ResultSpec

\* Each cursor stands at an entry of its list, or nowhere.
THEOREM ResultTypeCorrect == ResultSpec => []ResultTypeOK
<1>1. ResultInv => ResultTypeOK
  BY DEF ResultInv
<1>. QED BY <1>1, ResultInvHolds, PTL

\* The assertion of _chk_curr_stream cannot fail, and every type of a subtitle
\* has a language, whatever the scripts return.
THEOREM EntriesAreThereCorrect == ResultSpec => []EntriesAreThere
<1>1. ResultInv => EntriesAreThere
  BY DEF ResultInv
<1>. QED BY <1>1, ResultInvHolds, PTL

\* quvi_media_stream_select and quvi_media_stream_choose_best choose the stream
\* that the documentation promises, for every list of patterns and wherever the
\* cursor stood.
THEOREM StreamSelectCorrect == ResultSpec => []StreamSelectPicks
<1>1. ResultInv => StreamSelectPicks
  BY DEF ResultInv
<1>. QED BY <1>1, ResultInvHolds, PTL

\* quvi_subtitle_select returns the first language that the deciding ID matches,
\* for every list of patterns and wherever the cursors stood.
THEOREM SubtitleSelectCorrect == ResultSpec => []SubtitleSelectPicks
<1>1. ResultInv => SubtitleSelectPicks
  BY SubtitlePickedImplies DEF ResultInv
<1>. QED BY <1>1, ResultInvHolds, PTL

\* No type and no language has the format of another one.
THEOREM FormatsAreOwnCorrect == ResultSpec => []FormatsAreOwn
<1>1. ResultInv => FormatsAreOwn
  BY ListsFitImplies DEF ResultInv
<1>. QED BY <1>1, ResultInvHolds, PTL

\* The lists have every entry of the scripts' tables once, in order.
THEOREM ListsAreCompleteCorrect == ResultSpec => []ListsAreComplete
<1>1. ResultInv => ListsAreComplete
  BY ListsFitImplies DEF ResultInv
<1>. QED BY <1>1, ResultInvHolds, PTL
=============================================================================
