-------------------------- MODULE FountainCodeProofs --------------------------
(***************************************************************************)
(* Proofs about FountainCode for payloads of every size, every choice of   *)
(* blocks for the frames, and any number of frames in any order.           *)
(*                                                                         *)
(* The decoders' loops are functions defined by recursion.  That such a    *)
(* function exists, and which values it takes, is shown by induction with  *)
(* the least element of a set of natural numbers: the library's induction  *)
(* rules take the predicate as an operator, which the provers cannot       *)
(* instantiate, and WFMin takes it as a set.                               *)
(***************************************************************************)
EXTENDS FountainCode, FiniteSetTheorems, SequenceTheorems, WellFoundedInduction, TLAPS

-----------------------------------------------------------------------------
(* Induction and recursion over the natural numbers.                       *)

\* Every set of natural numbers that is not empty has a least element.
LEMMA LeastElement ==
  ASSUME NEW T \in SUBSET Nat, T # {}
  PROVE  \E n \in T : \A m \in T : n <= m
  <1> DEFINE R == OpToRel(<, Nat)
  <1>1. IsWellFoundedOn(R, Nat)
    BY NatLessThanWellFounded
  <1>2. \A x, y \in Nat : <<x, y>> \in R <=> x < y
    BY DEF OpToRel
  <1> HIDE DEF R
  <1>3. PICK n \in T : \A m \in T : ~ (<<m, n>> \in R)
    BY <1>1, WFMin
  <1>4. n \in Nat
    OBVIOUS
  <1>5. ASSUME NEW m \in T PROVE n <= m
    <2>1. m \in Nat
      OBVIOUS
    <2>2. ~(m < n)
      BY <1>2, <1>3, <1>4, <2>1
    <2> QED BY <1>4, <2>1, <2>2
  <1> QED BY <1>5

\* Induction: a set of natural numbers that holds 0 and the successor of each of
\* its elements holds them all.
LEMMA Successors ==
  ASSUME NEW D \in SUBSET Nat, 0 \in D, \A n \in D : n + 1 \in D
  PROVE  D = Nat
  <1>1. SUFFICES ASSUME Nat \ D # {} PROVE FALSE
    OBVIOUS
  <1>2. PICK n \in Nat \ D : \A m \in Nat \ D : n <= m
    BY <1>1, LeastElement
  <1>3. n # 0 /\ n - 1 \in Nat /\ n - 1 \in D
    BY <1>2
  <1> QED BY <1>2, <1>3

\* The steps of a loop that each keep within S define a function.
LEMMA LoopExists ==
  ASSUME NEW S, NEW base \in S, NEW N \in Nat, NEW step \in [1..N -> [S -> S]]
  PROVE  \E f \in [0..N -> S] : f[0] = base /\ \A n \in 1..N : f[n] = step[n][f[n - 1]]
  <1> DEFINE Good(n) == \E f \in [0..n -> S] :
               /\ f[0] = base
               /\ \A i \in 1..n : f[i] = step[i][f[i - 1]]
             D == {n \in Nat : n <= N => Good(n)}
  <1>1. 0 \in D
    <2> DEFINE f == [i \in 0..0 |-> base]
    <2>1. f \in [0..0 -> S] /\ f[0] = base /\ \A i \in 1..0 : f[i] = step[i][f[i - 1]]
      OBVIOUS
    <2> QED BY <2>1
  <1>2. ASSUME NEW n \in D PROVE n + 1 \in D
    <2>1. SUFFICES ASSUME n + 1 <= N PROVE Good(n + 1)
      OBVIOUS
    <2>2. n \in Nat /\ Good(n)
      BY <2>1
    <2>3. PICK f \in [0..n -> S] : f[0] = base /\ \A i \in 1..n : f[i] = step[i][f[i - 1]]
      BY <2>2
    <2> DEFINE g == [i \in 0..(n + 1) |-> IF i <= n THEN f[i] ELSE step[n + 1][f[n]]]
    <2>4. step[n + 1] \in [S -> S] /\ f[n] \in S
      BY <2>1, <2>2, <2>3
    <2>5. g \in [0..(n + 1) -> S]
      BY <2>2, <2>3, <2>4
    <2>6. g[0] = base
      BY <2>2, <2>3
    <2>7. ASSUME NEW i \in 1..(n + 1) PROVE g[i] = step[i][g[i - 1]]
      <3>1. CASE i <= n
        BY <2>2, <2>3, <3>1
      <3>2. CASE i = n + 1
        BY <2>2, <2>3, <3>2
      <3> QED BY <2>2, <3>1, <3>2
    <2> HIDE DEF g
    <2> QED BY <2>5, <2>6, <2>7
  <1> HIDE DEF D
  <1>3. D = Nat
    BY <1>1, <1>2, Successors DEF D
  <1> QED BY <1>3 DEF D

-----------------------------------------------------------------------------
(* Equations.                                                              *)

\* What a frame of session s over the blocks bs says.
Equation(s, bs) == [indices |-> bs, data |-> Source(s, bs)]

\* The equations that wait in a decoder of session s.
Pending(s) == {Equation(s, bs) : bs \in {cs \in SUBSET Blocks : Cardinality(cs) > 1}}

\* What a decoder of session s may have solved.
Solved(s) ==
  {sol \in [Blocks -> SUBSET (Sessions \X Blocks)] :
     \A b \in Blocks : sol[b] \in {{}, Source(s, {b})}}

\* There are K blocks, and the number of blocks of an equation tells whether it is
\* redundant or solves one.
LEMMA BlockSets ==
  /\ IsFiniteSet(Blocks) /\ Cardinality(Blocks) = K
  /\ \A bs \in SUBSET Blocks :
       /\ IsFiniteSet(bs) /\ Cardinality(bs) \in Nat
       /\ Cardinality(bs) = 0 <=> bs = {}
       /\ Cardinality(bs) = 1 <=> \E b \in Blocks : bs = {b}
  <1>1. IsFiniteSet(Blocks) /\ Cardinality(Blocks) = K
    <2>1. K \in Nat /\ K - 1 \in Int /\ 0 \in Int /\ 0 <= K - 1 /\ (K - 1) - 0 + 1 = K
      BY BoundsAssumption
    <2> QED BY <2>1, FS_Interval DEF Blocks
  <1>2. ASSUME NEW bs \in SUBSET Blocks
        PROVE  /\ IsFiniteSet(bs) /\ Cardinality(bs) \in Nat
               /\ Cardinality(bs) = 0 <=> bs = {}
               /\ Cardinality(bs) = 1 <=> \E b \in Blocks : bs = {b}
    <2>1. IsFiniteSet(bs)
      BY <1>1, FS_Subset
    <2>2. Cardinality(bs) \in Nat /\ (Cardinality(bs) = 0 <=> bs = {})
      BY <2>1, FS_CardinalityType, FS_EmptySet
    <2>3. Cardinality(bs) = 1 <=> \E b \in Blocks : bs = {b}
      BY <2>1, FS_Singleton
    <2> QED BY <2>1, <2>2, <2>3
  <1> QED BY <1>1, <1>2

\* Striking out solved blocks from an equation that is true leaves a true one.
LEMMA ReduceIsTrue ==
  ASSUME NEW s \in Sessions, NEW sol \in Solved(s),
         NEW bs \in SUBSET Blocks, NEW out \in SUBSET Blocks,
         \A b \in bs \cap out : sol[b] # {}
  PROVE  Reduce(Equation(s, bs), out, sol) = Equation(s, bs \ out)
  <1>1. \A b \in bs \cap out : sol[b] = {s} \X {b}
    BY DEF Solved, Source
  <1>2. UNION {sol[b] : b \in bs \cap out} = {s} \X (bs \cap out)
    <2>1. \A x : x \in UNION {sol[b] : b \in bs \cap out} <=> \E b \in bs \cap out : x \in sol[b]
      OBVIOUS
    <2>2. \A x : (\E b \in bs \cap out : x \in sol[b]) <=> x \in {s} \X (bs \cap out)
      BY <1>1
    <2> QED BY <2>1, <2>2
  <1>3. Xor({s} \X bs, {s} \X (bs \cap out)) = {s} \X (bs \ out)
    BY DEF Xor
  <1> QED BY <1>2, <1>3 DEF Reduce, Equation, Source

-----------------------------------------------------------------------------
(* The cascade.                                                            *)

\* A cascade in a decoder of session s that knew the blocks of sol: the block to
\* be peeled is solved, and what was known still is.
Cascades(s, sol) ==
  {st \in [solved : Solved(s), pending : Seq(Pending(s)), block : Blocks, progress : BOOLEAN] :
     /\ st.solved[st.block] # {}
     /\ \A b \in Blocks : sol[b] # {} => st.solved[b] # {}}

\* A round that began when the blocks of sol were known: progress means that it
\* has solved another one.
Advances(s, sol) ==
  {st \in Cascades(s, sol) : st.progress => \E b \in Blocks : sol[b] = {} /\ st.solved[b] # {}}

\* An equation of one block makes it known, if it was not.
LEMMA TakeKeeps ==
  ASSUME NEW s \in Sessions, NEW sol, NEW st \in Advances(s, sol), NEW b \in Blocks
  PROVE  LET next == Take(st, Equation(s, {b}))
         IN  /\ next \in Advances(s, sol)
             /\ next.solved[b] # {}
             /\ next.pending = st.pending
  <1> DEFINE eq == Equation(s, {b})
             next == [st EXCEPT !.solved[b] = Source(s, {b}), !.block = b, !.progress = TRUE]
  <1>1. (CHOOSE i \in Blocks : eq.indices = {i}) = b
    BY DEF Equation
  <1>2. Take(st, eq) = IF st.solved[b] # {} THEN st ELSE next
    BY <1>1 DEF Take, Equation
  <1>3. st \in Cascades(s, sol)
    BY DEF Advances
  <1>4. CASE st.solved[b] # {}
    BY <1>2, <1>4
  <1>5. CASE st.solved[b] = {}
    <2>1. Source(s, {b}) \in SUBSET (Sessions \X Blocks) /\ Source(s, {b}) # {}
      <3>1. <<s, b>> \in {s} \X {b} /\ {s} \X {b} \subseteq Sessions \X Blocks
        OBVIOUS
      <3> QED BY <3>1 DEF Source
    <2>2. st.solved \in Solved(s)
      BY <1>3 DEF Cascades
    <2>3. [st.solved EXCEPT ![b] = Source(s, {b})] \in Solved(s)
      BY <2>1, <2>2 DEF Solved
    <2>4. /\ next.solved = [st.solved EXCEPT ![b] = Source(s, {b})]
          /\ next.pending = st.pending /\ next.block = b /\ next.progress = TRUE
          /\ next \in [solved : Solved(s), pending : Seq(Pending(s)), block : Blocks,
                       progress : BOOLEAN]
      <3>1. st \in [solved : Solved(s), pending : Seq(Pending(s)), block : Blocks, progress : BOOLEAN]
        BY <1>3 DEF Cascades
      <3> QED BY <2>3, <3>1
    <2> HIDE DEF next
    <2>5. \A c \in Blocks : next.solved[c] = IF c = b THEN Source(s, {b}) ELSE st.solved[c]
      BY <2>2, <2>4 DEF Solved
    <2>7. next \in Cascades(s, sol)
      <3>1. next.solved[next.block] # {}
        BY <2>1, <2>4, <2>5
      <3>2. \A c \in Blocks : sol[c] # {} => next.solved[c] # {}
        BY <1>3, <2>1, <2>5 DEF Cascades
      <3> QED BY <2>4, <3>1, <3>2 DEF Cascades
    <2>8. next \in Advances(s, sol)
      <3>1. sol[b] = {} /\ next.solved[b] # {}
        BY <1>3, <1>5, <2>1, <2>5 DEF Cascades
      <3> QED BY <2>7, <3>1 DEF Advances
    <2> QED BY <1>2, <1>5, <2>1, <2>4, <2>5, <2>8
  <1> QED BY <1>4, <1>5

\* A look at a pending equation keeps a cascade true, whichever of the blocks that
\* are known is peeled.
LEMMA LookKeeps ==
  ASSUME NEW s \in Sessions, NEW sol, NEW sol2, NEW by \in Cascades(s, sol2),
         NEW st \in Advances(s, sol), NEW eq \in Pending(s)
  PROVE  Look(by, st, eq) \in Advances(s, sol)
  <1>1. PICK bs \in SUBSET Blocks : eq = Equation(s, bs)
    BY DEF Pending
  <1> DEFINE rest == bs \ {by.block}
             reduced == Reduce(eq, {by.block}, by.solved)
  <1>2. by.solved \in Solved(s) /\ by.block \in Blocks /\ by.solved[by.block] # {}
    BY DEF Cascades
  <1>3. reduced = Equation(s, rest)
    <2>1. {by.block} \in SUBSET Blocks /\ \A b \in bs \cap {by.block} : by.solved[b] # {}
      BY <1>2
    <2>2. Reduce(Equation(s, bs), {by.block}, by.solved) = Equation(s, bs \ {by.block})
      BY <1>2, <2>1, ReduceIsTrue
    <2> QED BY <1>1, <2>2
  <1>4. Degree(reduced) = Cardinality(rest) /\ rest \in SUBSET Blocks
    BY <1>3 DEF Degree, Equation
  <1> HIDE DEF reduced, rest
  <1>5. CASE Degree(reduced) = 0
    BY <1>5 DEF Look, reduced
  <1>6. CASE Degree(reduced) = 1
    <2>1. PICK b \in Blocks : rest = {b}
      BY <1>4, <1>6, BlockSets
    <2>2. Look(by, st, eq) = Take(st, Equation(s, {b}))
      BY <1>3, <1>6, <2>1 DEF Look, reduced
    <2> QED BY <2>2, TakeKeeps
  <1>7. CASE Degree(reduced) # 0 /\ Degree(reduced) # 1
    <2> DEFINE more == <<reduced>> \o st.pending
    <2>1. Look(by, st, eq) = [st EXCEPT !.pending = more]
      BY <1>7 DEF Look, reduced
    <2>2. reduced \in Pending(s)
      <3>1. Cardinality(rest) \in Nat
        BY <1>4, BlockSets
      <3>2. Cardinality(rest) > 1
        BY <1>4, <1>7, <3>1
      <3> QED BY <1>3, <1>4, <3>2 DEF Pending
    <2>3. st.pending \in Seq(Pending(s))
      BY DEF Advances, Cascades
    <2>4. more \in Seq(Pending(s))
      BY <2>2, <2>3
    <2> HIDE DEF more
    <2>5. [st EXCEPT !.pending = more] \in Cascades(s, sol)
      BY <2>4 DEF Advances, Cascades
    <2> QED BY <2>1, <2>5 DEF Advances, Cascades
  <1> QED BY <1>5, <1>6, <1>7

\* A round keeps a cascade true, and has solved a block if it says so.
LEMMA SweepKeeps ==
  ASSUME NEW s \in Sessions, NEW sol, NEW st \in Cascades(s, sol)
  PROVE  Sweep(st) \in Advances(s, st.solved) /\ Sweep(st) \in Cascades(s, sol)
  <1> DEFINE last == Len(st.pending)
             base == [st EXCEPT !.pending = <<>>, !.progress = FALSE]
             S == Advances(s, st.solved)
             By(f, n) == IF reader = "app" THEN st ELSE f[n - 1]
             Body(f) == [n \in 0..last |->
                           IF n = 0 THEN base
                           ELSE Look(By(f, n), f[n - 1], st.pending[last - n + 1])]
             after == CHOOSE f : f = Body(f)
  <1>1. Sweep(st) = after[last]
    BY DEF Sweep
  <1>2. /\ st.pending \in Seq(Pending(s)) /\ last \in Nat
        /\ \A n \in 1..last : st.pending[last - n + 1] \in Pending(s)
    <2>1. st.pending \in Seq(Pending(s))
      BY DEF Cascades
    <2>2. last \in Nat
      BY <2>1
    <2>3. ASSUME NEW n \in 1..last PROVE st.pending[last - n + 1] \in Pending(s)
      <3>1. last - n + 1 \in 1..last
        BY <2>2
      <3> QED BY <2>1, <3>1
    <2> QED BY <2>1, <2>2, <2>3
  <1>3. base \in S
    <2>1. <<>> \in Seq(Pending(s))
      OBVIOUS
    <2>2. st \in [solved : Solved(s), pending : Seq(Pending(s)), block : Blocks, progress : BOOLEAN]
      BY DEF Cascades
    <2>3. /\ base \in [solved : Solved(s), pending : Seq(Pending(s)), block : Blocks,
                      progress : BOOLEAN]
          /\ base.solved = st.solved /\ base.block = st.block /\ base.progress = FALSE
      BY <2>1, <2>2
    <2> HIDE DEF base
    <2> QED BY <2>3, <2>1, <2>2 DEF Advances, Cascades
  <1>4. st \in Cascades(s, st.solved) /\ S \subseteq Cascades(s, st.solved)
    BY DEF Cascades, Advances
  <1> HIDE DEF base, S, last
  <1>5. \E f : f = Body(f)
    <2> DEFINE step == [n \in 1..last |-> [v \in S |->
                          Look(IF reader = "app" THEN st ELSE v, v, st.pending[last - n + 1])]]
    <2>1. ASSUME NEW n \in 1..last, NEW v \in S
          PROVE  Look(IF reader = "app" THEN st ELSE v, v, st.pending[last - n + 1]) \in S
      <3>1. st.pending[last - n + 1] \in Pending(s) /\ v \in Advances(s, st.solved)
        BY <1>2 DEF S
      <3>2. (IF reader = "app" THEN st ELSE v) \in Cascades(s, st.solved)
        BY <1>4
      <3> QED BY <3>1, <3>2, LookKeeps DEF S
    <2>2. step \in [1..last -> [S -> S]]
      BY <2>1
    <2>3. \A n \in 1..last, v \in S :
            step[n][v] = Look(IF reader = "app" THEN st ELSE v, v, st.pending[last - n + 1])
      OBVIOUS
    <2> HIDE DEF step
    <2>4. PICK f \in [0..last -> S] :
            f[0] = base /\ \A n \in 1..last : f[n] = step[n][f[n - 1]]
      <3>1. last \in Nat
        BY <1>2
      <3>2. \E f \in [0..last -> S] :
              f[0] = base /\ \A n \in 1..last : f[n] = step[n][f[n - 1]]
        BY <3>1, <1>3, <2>2, LoopExists
      <3> QED BY <3>2
    <2>5. ASSUME NEW n \in 0..last PROVE f[n] = Body(f)[n]
      <3>1. CASE n = 0
        BY <2>4, <3>1
      <3>2. CASE n # 0
        <4>1. n \in 1..last /\ f[n - 1] \in S
          BY <1>2, <2>4, <3>2
        <4> QED BY <2>3, <2>4, <3>2, <4>1
      <3> QED BY <3>1, <3>2
    <2>6. f = Body(f)
      BY <2>4, <2>5
    <2> QED BY <2>6
  <1> HIDE DEF Body
  <1>6. after = Body(after)
    BY <1>5, Zenon
  <1> HIDE DEF after
  <1>7. /\ after[0] = base
        /\ \A n \in 1..last :
             after[n] = Look(By(after, n), after[n - 1], st.pending[last - n + 1])
    BY <1>2, <1>6 DEF Body
  <1> DEFINE D == {n \in Nat : n <= last => after[n] \in S}
  <1>8. 0 \in D
    BY <1>3, <1>7
  <1>9. ASSUME NEW n \in D PROVE n + 1 \in D
    <2>1. SUFFICES ASSUME n + 1 <= last PROVE after[n + 1] \in S
      OBVIOUS
    <2>2. n \in Nat /\ n + 1 \in 1..last /\ (n + 1) - 1 = n /\ after[n] \in S
      BY <1>2, <2>1
    <2>3. By(after, n + 1) \in Cascades(s, st.solved)
      BY <1>4, <2>2
    <2>4. after[n + 1] = Look(By(after, n + 1), after[n], st.pending[last - (n + 1) + 1])
      BY <1>7, <2>2
    <2> HIDE DEF By
    <2>5. st.pending[last - (n + 1) + 1] \in Pending(s)
      BY <1>2, <2>2
    <2>6. after[n] \in Advances(s, st.solved)
      BY <2>2 DEF S
    <2>7. Look(By(after, n + 1), after[n], st.pending[last - (n + 1) + 1]) \in Advances(s, st.solved)
      BY <2>3, <2>5, <2>6, LookKeeps
    <2> QED BY <2>4, <2>7 DEF S
  <1> HIDE DEF D
  <1>10. D = Nat
    BY <1>8, <1>9, Successors DEF D
  <1>11. Sweep(st) \in S
    BY <1>1, <1>2, <1>10 DEF D
  <1>12. S \subseteq Cascades(s, sol)
    BY DEF S, Advances, Cascades
  <1> QED BY <1>11, <1>12 DEF S

\* The rounds of a cascade: each follows on one that made progress, and all keep it
\* true.
LEMMA RoundsKeep ==
  ASSUME NEW s \in Sessions, NEW start, start \in Cascades(s, start.solved)
  PROVE  /\ Rounds(start)[0] = start
         /\ \A n \in 1..K : Rounds(start)[n] =
              IF Rounds(start)[n - 1].progress THEN Sweep(Rounds(start)[n - 1])
              ELSE Rounds(start)[n - 1]
         /\ \A n \in 0..K : Rounds(start)[n] \in Cascades(s, start.solved)
  <1> DEFINE S == Cascades(s, start.solved)
             Body(f) == [n \in 0..K |->
                           IF n = 0 THEN start
                           ELSE IF f[n - 1].progress THEN Sweep(f[n - 1]) ELSE f[n - 1]]
             after == CHOOSE f : f = Body(f)
  <1>1. Rounds(start) = after
    BY DEF Rounds
  <1>2. K \in Nat
    BY BoundsAssumption
  <1>3. ASSUME NEW st \in S PROVE (IF st.progress THEN Sweep(st) ELSE st) \in S
    BY SweepKeeps
  <1>4. start \in S
    OBVIOUS
  <1> HIDE DEF S
  <1>5. \E f : f = Body(f)
    <2> DEFINE step == [n \in 1..K |-> [v \in S |-> IF v.progress THEN Sweep(v) ELSE v]]
    <2>1. step \in [1..K -> [S -> S]]
      BY <1>3
    <2>2. \A n \in 1..K, v \in S : step[n][v] = IF v.progress THEN Sweep(v) ELSE v
      OBVIOUS
    <2> HIDE DEF step
    <2>3. PICK f \in [0..K -> S] :
            f[0] = start /\ \A n \in 1..K : f[n] = step[n][f[n - 1]]
      <3>1. \E f \in [0..K -> S] :
              f[0] = start /\ \A n \in 1..K : f[n] = step[n][f[n - 1]]
        <4> HIDE DEF Body, after
        <4> QED BY <1>2, <1>4, <2>1, LoopExists, SMTT(30)
      <3> QED BY <3>1
    <2>4. ASSUME NEW n \in 0..K PROVE f[n] = Body(f)[n]
      <3>1. CASE n = 0
        BY <2>3, <3>1
      <3>2. CASE n # 0
        <4>1. n \in 1..K /\ f[n - 1] \in S
          BY <1>2, <2>3, <3>2
        <4> QED BY <2>2, <2>3, <3>2, <4>1
      <3> QED BY <3>1, <3>2
    <2>5. f = Body(f)
      BY <2>3, <2>4
    <2> QED BY <2>5
  <1> HIDE DEF Body
  <1>6. after = Body(after)
    BY <1>5, Zenon
  <1> HIDE DEF after
  <1>7. /\ after[0] = start
        /\ \A n \in 1..K :
             after[n] = IF after[n - 1].progress THEN Sweep(after[n - 1]) ELSE after[n - 1]
    BY <1>2, <1>6 DEF Body
  <1> DEFINE D == {n \in Nat : n <= K => after[n] \in S}
  <1>8. 0 \in D
    BY <1>4, <1>7
  <1>9. ASSUME NEW n \in D PROVE n + 1 \in D
    <2>1. SUFFICES ASSUME n + 1 <= K PROVE after[n + 1] \in S
      OBVIOUS
    <2>2. n \in Nat /\ n + 1 \in 1..K /\ (n + 1) - 1 = n /\ after[n] \in S
      BY <1>2, <2>1
    <2>3. after[n + 1] = IF after[n].progress THEN Sweep(after[n]) ELSE after[n]
      BY <1>7, <2>2
    <2> QED BY <1>3, <2>2, <2>3
  <1> HIDE DEF D
  <1>10. D = Nat
    BY <1>8, <1>9, Successors DEF D
  <1>11. \A n \in 0..K : after[n] \in S
    BY <1>2, <1>10 DEF D
  <1> QED BY <1>1, <1>7, <1>11 DEF S

\* The code's rounds go on while the last one solved a block.  K of them always end
\* that loop, so the bound of Rounds leaves none of the code's work out: each round
\* that solves a block leaves fewer to be solved.
THEOREM CascadeRunsOut ==
  ASSUME NEW s \in Sessions, NEW start, start \in Cascades(s, start.solved)
  PROVE  ~Rounds(start)[K].progress
  <1> DEFINE after == Rounds(start)
             count(n) == Cardinality(Known(after[n].solved))
             D == {n \in Nat : n <= K /\ after[n].progress => count(n) > n}
  <1>1. K \in Nat
    BY BoundsAssumption
  <1>2. after[0] = start /\ \A n \in 0..K : after[n] \in Cascades(s, start.solved)
    BY RoundsKeep
  <1>3. \A n \in 1..K : after[n] =
          IF after[n - 1].progress THEN Sweep(after[n - 1]) ELSE after[n - 1]
    BY RoundsKeep
  <1> HIDE DEF after
  <1>4. \A n \in Nat : /\ Known(after[n].solved) \in SUBSET Blocks
                       /\ IsFiniteSet(Known(after[n].solved))
                       /\ count(n) \in Nat
    BY BlockSets DEF Known
  <1>5. 0 \in D
    <2>1. start.block \in Known(start.solved)
      BY DEF Cascades, Known
    <2>2. count(0) # 0
      BY <1>2, <1>4, <2>1, BlockSets
    <2> QED BY <1>4, <2>2
  <1>6. ASSUME NEW n \in D PROVE n + 1 \in D
    <2>1. SUFFICES ASSUME n + 1 <= K, after[n + 1].progress PROVE count(n + 1) > n + 1
      OBVIOUS
    <2>2. n \in Nat /\ n \in 0..K /\ n + 1 \in 1..K /\ (n + 1) - 1 = n
      BY <1>1, <2>1
    <2>3. after[n + 1] = IF after[n].progress THEN Sweep(after[n]) ELSE after[n]
      BY <1>3, <2>2
    <2>4. after[n].progress /\ after[n + 1] = Sweep(after[n])
      BY <2>1, <2>3
    <2>5. after[n] \in Cascades(s, start.solved)
      BY <1>2, <2>2
    <2>6. after[n + 1] \in Advances(s, after[n].solved)
      BY <2>4, <2>5, SweepKeeps
    <2>7. PICK b \in Blocks : after[n].solved[b] = {} /\ after[n + 1].solved[b] # {}
      BY <2>1, <2>6 DEF Advances
    <2>8. /\ Known(after[n].solved) \subseteq Known(after[n + 1].solved)
          /\ Known(after[n].solved) # Known(after[n + 1].solved)
      BY <2>6, <2>7 DEF Advances, Cascades, Known
    <2>9. count(n) < count(n + 1)
      <3> DEFINE A == Known(after[n].solved)
                 B == Known(after[n + 1].solved)
      <3>1. IsFiniteSet(B) /\ A \in SUBSET B /\ A # B
        BY <1>4, <2>2, <2>8
      <3> HIDE DEF A, B
      <3>2. Cardinality(A) < Cardinality(B)
        BY <3>1, FS_Subset, FS_CardinalityType
      <3> QED BY <3>2 DEF A, B
    <2>10. count(n) > n
      BY <2>2, <2>4, <1>1
    <2> QED BY <1>4, <2>2, <2>9, <2>10
  <1> HIDE DEF D
  <1>7. D = Nat
    BY <1>5, <1>6, Successors DEF D
  <1>8. SUFFICES ASSUME after[K].progress PROVE FALSE
    BY DEF after
  <1>9. count(K) > K
    BY <1>1, <1>7, <1>8 DEF D
  <1>10. count(K) <= K
    BY <1>1, <1>4, BlockSets, FS_Subset
  <1> QED BY <1>1, <1>4, <1>9, <1>10

-----------------------------------------------------------------------------
(* The decoder.                                                            *)

\* The decoders of session s.
Readers(s) == [active : {s}, solved : Solved(s), pending : Seq(Pending(s)), seeds : SUBSET Frames]

\* Those that know the block of every plain frame they have read.
Decoders(s) == {d \in Readers(s) : \A n \in d.seeds \cap Blocks : d.solved[n] # {}}

\* A true equation leaves a decoder with true ones.  It forgets no block, and learns
\* that of an equation of one block.
LEMMA AddEquationKeeps ==
  ASSUME NEW s \in Sessions, NEW d \in Readers(s), NEW bs \in SUBSET Blocks
  PROVE  LET next == AddEquation(d, Equation(s, bs))
         IN  /\ next \in Readers(s)
             /\ next.seeds = d.seeds
             /\ \A b \in Blocks : d.solved[b] # {} \/ bs = {b} => next.solved[b] # {}
  <1> DEFINE rest == bs \ Known(d.solved)
             eq == Reduce(Equation(s, bs), Known(d.solved), d.solved)
             next == AddEquation(d, Equation(s, bs))
  <1>1. d.solved \in Solved(s) /\ d.pending \in Seq(Pending(s))
    BY DEF Readers
  <1>2. eq = Equation(s, rest) /\ rest \in SUBSET Blocks
    <2> DEFINE out == Known(d.solved)
    <2>1. out \in SUBSET Blocks /\ \A b \in bs \cap out : d.solved[b] # {}
      BY DEF Known
    <2> HIDE DEF out
    <2>2. Reduce(Equation(s, bs), out, d.solved) = Equation(s, bs \ out)
      BY <1>1, <2>1, ReduceIsTrue
    <2> QED BY <2>2 DEF out
  <1>3. Degree(eq) = Cardinality(rest) /\ Cardinality(rest) \in Nat
    <2> HIDE DEF eq, rest, next
    <2>1. eq.indices = rest
      BY <1>2 DEF Equation
    <2> QED BY <1>2, <2>1, BlockSets DEF Degree
  <1>4. \A b \in Blocks : b \in rest <=> b \in bs /\ d.solved[b] = {}
    BY DEF Known
  <1>5. next = IF Degree(eq) = 0 THEN d
               ELSE IF Degree(eq) = 1 THEN SolveBlock(d, eq)
               ELSE [d EXCEPT !.pending = Append(@, eq)]
    BY DEF AddEquation
  <1> HIDE DEF eq, rest, next
  <1>6. CASE Degree(eq) = 0
    <2>1. rest = {}
      BY <1>2, <1>3, <1>6, BlockSets
    <2> QED BY <1>4, <1>5, <1>6, <2>1 DEF next
  <1>7. CASE Degree(eq) = 1
    <2>1. PICK b \in Blocks : rest = {b}
      BY <1>2, <1>3, <1>7, BlockSets
    <2> DEFINE before == [solved |-> d.solved, pending |-> d.pending, block |-> 0,
                          progress |-> FALSE]
               known == [d.solved EXCEPT ![b] = Source(s, {b})]
               start == [solved |-> known, pending |-> d.pending, block |-> b,
                         progress |-> TRUE]
               done == Rounds(start)[K]
    <2>2. d.solved[b] = {}
      BY <1>4, <2>1
    <2>3. Take(before, eq) = start
      <3>1. (CHOOSE i \in Blocks : eq.indices = {i}) = b
        BY <1>2, <2>1 DEF Equation
      <3>2. eq.data = Source(s, {b})
        BY <1>2, <2>1 DEF Equation
      <3>3. Take(before, eq) = [before EXCEPT !.solved[b] = Source(s, {b}), !.block = b,
                                              !.progress = TRUE]
        BY <2>2, <3>1, <3>2 DEF Take
      <3> QED BY <3>3
    <2>4. next = [d EXCEPT !.solved = done.solved, !.pending = done.pending]
      <3>1. SolveBlock(d, eq) = [d EXCEPT !.solved = Rounds(Take(before, eq))[K].solved,
                                          !.pending = Rounds(Take(before, eq))[K].pending]
        BY DEF SolveBlock
      <3>2. next = SolveBlock(d, eq)
        BY <1>5, <1>7
      <3> QED BY <2>3, <3>1, <3>2, Zenon
    <2>5. Source(s, {b}) \in SUBSET (Sessions \X Blocks) /\ Source(s, {b}) # {}
      <3>1. <<s, b>> \in {s} \X {b} /\ {s} \X {b} \subseteq Sessions \X Blocks
        OBVIOUS
      <3> QED BY <3>1 DEF Source
    <2>6. known \in Solved(s) /\ \A c \in Blocks : d.solved[c] # {} \/ c = b => known[c] # {}
      BY <1>1, <2>5 DEF Solved
    <2> HIDE DEF known, before
    <2>7. start \in Cascades(s, start.solved) /\ start.solved = known
      BY <1>1, <2>6 DEF Cascades
    <2> HIDE DEF start
    <2>8. done \in Cascades(s, known)
      <3>1. K \in 0..K
        BY BoundsAssumption
      <3> QED BY <2>7, <3>1, RoundsKeep
    <2> HIDE DEF done
    <2>9. next \in Readers(s) /\ next.seeds = d.seeds /\ next.solved = done.solved
      <3>1. done.solved \in Solved(s) /\ done.pending \in Seq(Pending(s))
        BY <2>8 DEF Cascades
      <3> QED BY <2>4, <3>1 DEF Readers
    <2>10. \A c \in Blocks : d.solved[c] # {} \/ c = b => next.solved[c] # {}
      BY <2>6, <2>8, <2>9 DEF Cascades
    <2>11. \A c \in Blocks : bs = {c} => c = b
      BY <1>4, <2>1
    <2> QED BY <2>9, <2>10, <2>11 DEF next
  <1>8. CASE Degree(eq) # 0 /\ Degree(eq) # 1
    <2> DEFINE more == Append(d.pending, eq)
    <2>1. next = [d EXCEPT !.pending = more]
      BY <1>5, <1>8
    <2>2. eq \in Pending(s)
      <3>1. Cardinality(rest) > 1
        BY <1>3, <1>8
      <3> QED BY <1>2, <3>1 DEF Pending
    <2>3. more \in Seq(Pending(s))
      BY <1>1, <2>2
    <2> HIDE DEF more
    <2>4. next \in Readers(s) /\ next.seeds = d.seeds /\ next.solved = d.solved
      BY <2>1, <2>3 DEF Readers
    <2>5. \A b \in Blocks : bs = {b} => d.solved[b] # {}
      <3>1. SUFFICES ASSUME NEW b \in Blocks, bs = {b}, d.solved[b] = {} PROVE FALSE
        OBVIOUS
      <3>2. rest = {b}
        BY <1>2, <1>4, <3>1 DEF rest
      <3> QED BY <1>2, <1>3, <1>8, <3>2, BlockSets
    <2> QED BY <2>4, <2>5 DEF next
  <1> QED BY <1>6, <1>7, <1>8

\* The blocks of a frame, and the one block of a plain frame.
LEMMA FrameBlocks ==
  ASSUME code \in Codes, NEW n \in Frames
  PROVE  code[n] \in SUBSET Blocks /\ (n \in Blocks => code[n] = {n})
  <1> DEFINE Samples == {bs \in SUBSET Blocks : Cardinality(bs) \in Degrees}
  <1>1. PICK c \in [Frames \ Blocks -> Samples] :
          code = [m \in Frames |-> IF m < K THEN {m} ELSE c[m]]
    BY DEF Codes
  <1>2. n \in Nat /\ K \in Nat /\ (n \in Blocks <=> n < K)
    BY BoundsAssumption DEF Frames, Blocks
  <1>3. CASE n < K
    BY <1>1, <1>2, <1>3
  <1>4. CASE ~(n < K)
    BY <1>1, <1>2, <1>4
  <1> QED BY <1>2, <1>3, <1>4, <1>1

\* A frame of its own session, of another one, or one read before, leaves a decoder
\* of session s a true one that knows the plain frames it has read.
LEMMA AddPacketKeeps ==
  ASSUME code \in Codes, NEW s \in Sessions, NEW t \in Sessions, NEW d \in Decoders(s),
         NEW n \in Frames
  PROVE  AddPacket(d, t, n, Equation(t, code[n])) \in Decoders(s)
  <1> DEFINE bound == [d EXCEPT !.active = IF @ = None THEN t ELSE @]
             noted == [d EXCEPT !.seeds = @ \cup {n}]
             next == AddEquation(noted, Equation(s, code[n]))
  <1>1. d \in Readers(s) /\ d.active = s /\ d.solved \in Solved(s)
    BY DEF Decoders, Readers
  <1>2. bound = d
    <2>1. bound = [d EXCEPT !.active = d.active]
      BY <1>1, NoneAssumption
    <2> QED BY <1>1, <2>1 DEF Readers
  <1>3. CASE t # s \/ n \in d.seeds
    <2>1. AddPacket(d, t, n, Equation(t, code[n])) = d
      BY <1>1, <1>2, <1>3 DEF AddPacket
    <2> QED BY <2>1
  <1>4. CASE t = s /\ n \notin d.seeds
    <2>1. AddPacket(d, t, n, Equation(t, code[n])) = next
      BY <1>1, <1>2, <1>4 DEF AddPacket
    <2>2. noted \in Readers(s) /\ noted.seeds = d.seeds \cup {n} /\ noted.solved = d.solved
      BY <1>1 DEF Readers
    <2>3. code[n] \in SUBSET Blocks /\ (n \in Blocks => code[n] = {n})
      BY FrameBlocks
    <2> HIDE DEF noted
    <2>4. /\ next \in Readers(s)
          /\ next.seeds = noted.seeds
          /\ \A b \in Blocks : noted.solved[b] # {} \/ code[n] = {b} => next.solved[b] # {}
      BY <2>2, <2>3, AddEquationKeeps
    <2> HIDE DEF next
    <2>5. ASSUME NEW m \in next.seeds \cap Blocks PROVE next.solved[m] # {}
      <3>1. m = n \/ m \in d.seeds
        BY <2>2, <2>4
      <3>2. m \in d.seeds => d.solved[m] # {}
        BY DEF Decoders
      <3> QED BY <2>2, <2>3, <2>4, <3>1, <3>2
    <2>6. next \in Decoders(s)
      BY <2>4, <2>5 DEF Decoders
    <2> QED BY <2>1, <2>6
  <1> QED BY <1>3, <1>4

\* The first frame binds a fresh decoder to its session.
LEMMA FirstPacketBinds ==
  ASSUME code \in Codes, NEW t \in Sessions, NEW n \in Frames
  PROVE  AddPacket(Fresh, t, n, Equation(t, code[n])) \in Decoders(t)
  <1> DEFINE empty == [b \in Blocks |-> {}]
             bound == [Fresh EXCEPT !.active = t]
  <1>1. Fresh \in [active : {None}, solved : Solved(t), pending : Seq(Pending(t)), seeds : {{}}]
    <2>1. empty \in Solved(t)
      BY DEF Solved
    <2>2. <<>> \in Seq(Pending(t))
      OBVIOUS
    <2>3. Fresh = [active |-> None, solved |-> empty, pending |-> <<>>, seeds |-> {}]
      BY DEF Fresh
    <2> HIDE DEF empty
    <2> QED BY <2>1, <2>2, <2>3
  <1>2. bound \in Readers(t) /\ bound.active = t /\ bound \in Decoders(t)
    <2>1. bound \in Readers(t) /\ bound.active = t /\ bound.seeds = {}
      BY <1>1 DEF Readers
    <2> HIDE DEF bound
    <2> QED BY <2>1 DEF Decoders
  <1>3. t # None
    BY NoneAssumption
  <1>4. AddPacket(Fresh, t, n, Equation(t, code[n])) = AddPacket(bound, t, n, Equation(t, code[n]))
    <2>1. [Fresh EXCEPT !.active = IF @ = None THEN t ELSE @] = bound
      BY DEF Fresh
    <2> HIDE DEF bound
    <2>2. [bound EXCEPT !.active = IF @ = None THEN t ELSE @] = bound
      BY <1>2, <1>3 DEF Readers
    <2> DEFINE Rest(b) == IF t # b.active \/ n \in b.seeds THEN b
                         ELSE AddEquation([b EXCEPT !.seeds = @ \cup {n}], Equation(t, code[n]))
    <2>3. \A d : AddPacket(d, t, n, Equation(t, code[n])) =
                 Rest([d EXCEPT !.active = IF @ = None THEN t ELSE @])
      BY DEF AddPacket
    <2> HIDE DEF Rest
    <2> QED BY <2>1, <2>2, <2>3
  <1> QED BY <1>2, <1>4, AddPacketKeeps

-----------------------------------------------------------------------------
(* The invariant.                                                          *)

Decoder == [active |-> active, solved |-> solved, pending |-> pending, seeds |-> seeds]

\* What the decoder holds is true of the session it is bound to; only the script's
\* keeps a complete payload, and has handed it on.
DecoderInv ==
  /\ Decoder = Fresh \/ (active \in Sessions /\ Decoder \in Decoders(active))
  /\ Known(solved) = Blocks => reader = "script" /\ handled

\* A payload that was handed on is the whole of one request.
PayloadInv ==
  payload # <<>> => \E s \in Sessions : payload = [i \in 1..K |-> Source(s, {i - 1})]

FountainInv ==
  /\ reader \in {"app", "script"}
  /\ code \in Codes
  /\ shown \in Sessions
  /\ handled \in BOOLEAN
  /\ DecoderInv
  /\ PayloadInv

\* A fresh decoder knows nothing, and there is something to be known.
LEMMA FreshKnowsNothing ==
  Known(Fresh.solved) = {} /\ ~Complete(Fresh)
  <1>1. \A b \in Blocks : Fresh.solved[b] = {}
    BY DEF Fresh
  <1>2. Known(Fresh.solved) = {}
    BY <1>1 DEF Known
  <1>3. 0 \in Blocks
    BY BoundsAssumption DEF Blocks
  <1> QED BY <1>2, <1>3 DEF Complete

LEMMA FountainStarts == Init => FountainInv
  <1> SUFFICES ASSUME Init PROVE FountainInv
    OBVIOUS
  <1>1. Decoder = Fresh
    BY DEF Init, Decoder, Fresh
  <1>2. Known(solved) # Blocks
    BY FreshKnowsNothing DEF Init, Complete
  <1> QED BY <1>1, <1>2 DEF Init, FountainInv, DecoderInv, PayloadInv

\* Whatever frame is read, the decoder after it is one of a session, true of that.
LEMMA ReadingKeeps ==
  ASSUME FountainInv, NEW n \in Frames
  PROVE  \E s \in Sessions : Reading(n) \in Decoders(s)
  <1> DEFINE frame == [indices |-> code[n], data |-> Source(shown, code[n])]
  <1>1. Reading(n) = AddPacket(Decoder, shown, n, frame) /\ frame = Equation(shown, code[n])
    BY DEF Reading, Decoder, Equation
  <1>2. code \in Codes /\ shown \in Sessions
    BY DEF FountainInv
  <1> HIDE DEF frame
  <1>3. CASE Decoder = Fresh
    BY <1>1, <1>2, <1>3, FirstPacketBinds
  <1>4. CASE active \in Sessions /\ Decoder \in Decoders(active)
    BY <1>1, <1>2, <1>4, AddPacketKeeps
  <1> QED BY <1>3, <1>4 DEF FountainInv, DecoderInv

\* A decoder of session s becomes the one of the state, or hands on its payload.
LEMMA BecomeKeeps ==
  ASSUME NEW s \in Sessions, NEW d \in Decoders(s), Become(d)
  PROVE  active' = s /\ Decoder' = d /\ Known(solved') = Known(d.solved)
  <1>1. d \in [active : {s}, solved : Solved(s), pending : Seq(Pending(s)), seeds : SUBSET Frames]
    BY DEF Decoders, Readers
  <1>2. d = [active |-> d.active, solved |-> d.solved, pending |-> d.pending, seeds |-> d.seeds]
    BY <1>1
  <1>3. active' = s /\ solved' = d.solved /\ pending' = d.pending /\ seeds' = d.seeds
    BY <1>1 DEF Become
  <1> QED BY <1>1, <1>2, <1>3 DEF Decoder, Become

LEMMA HandOnKeeps ==
  ASSUME NEW s \in Sessions, NEW d \in Decoders(s), Complete(d), HandOn(d)
  PROVE  PayloadInv'
  <1>1. \A b \in Blocks : d.solved[b] = Source(s, {b})
    BY DEF Decoders, Readers, Solved, Complete, Known
  <1>2. \A i \in 1..K : i - 1 \in Blocks
    BY BoundsAssumption DEF Blocks
  <1>3. payload' = [i \in 1..K |-> Source(s, {i - 1})]
    BY <1>1, <1>2 DEF HandOn
  <1> QED BY <1>3 DEF PayloadInv

LEMMA FountainStep == FountainInv /\ [Next]_vars => FountainInv'
  <1> SUFFICES ASSUME FountainInv, [Next]_vars PROVE FountainInv'
    OBVIOUS
  <1>1. ASSUME NEW s \in Sessions, Generate(s) PROVE FountainInv'
    BY <1>1 DEF Generate, decoder, FountainInv, DecoderInv, PayloadInv, Decoder
  <1>2. ASSUME NEW n \in Frames, Detect(n) PROVE FountainInv'
    <2>1. PICK s \in Sessions : Reading(n) \in Decoders(s)
      BY ReadingKeeps
    <2>2. CASE Complete(Reading(n))
      <3>1. Become(Fresh) /\ HandOn(Reading(n)) /\ UNCHANGED <<reader, code, shown>>
        BY <1>2, <2>2 DEF Detect
      <3>2. Decoder' = Fresh /\ Known(solved') # Blocks
        BY <3>1, FreshKnowsNothing DEF Become, Decoder, Fresh, Complete
      <3>3. PayloadInv'
        BY <2>1, <2>2, <3>1, HandOnKeeps
      <3>4. handled' \in BOOLEAN
        BY <3>1 DEF HandOn
      <3> QED BY <3>1, <3>2, <3>3, <3>4 DEF FountainInv, DecoderInv, Known
    <2>3. CASE ~Complete(Reading(n))
      <3>1. Become(Reading(n)) /\ UNCHANGED <<reader, code, shown, handled, payload>>
        BY <1>2, <2>3 DEF Detect
      <3>2. active' = s /\ Decoder' = Reading(n) /\ Known(solved') # Blocks
        BY <2>1, <2>3, <3>1, BecomeKeeps DEF Complete
      <3>3. DecoderInv'
        BY <2>1, <3>2 DEF DecoderInv, Known
      <3> QED BY <3>1, <3>3 DEF FountainInv, PayloadInv
    <2> QED BY <2>2, <2>3
  <1>3. ASSUME NEW n \in Frames, AddFrame(n) PROVE FountainInv'
    <2>1. PICK s \in Sessions : Reading(n) \in Decoders(s)
      BY ReadingKeeps
    <2>2. CASE handled
      BY <1>3, <2>2 DEF AddFrame, decoder, FountainInv, DecoderInv, PayloadInv, Decoder
    <2>3. CASE ~handled
      <3>1. /\ reader = "script" /\ Become(Reading(n)) /\ UNCHANGED <<reader, code, shown>>
            /\ IF Complete(Reading(n)) THEN HandOn(Reading(n)) ELSE UNCHANGED <<handled, payload>>
        BY <1>3, <2>3 DEF AddFrame
      <3>2. active' = s /\ Decoder' = Reading(n) /\ Known(solved') = Known(Reading(n).solved)
        BY <2>1, <3>1, BecomeKeeps
      <3>3. handled' \in BOOLEAN /\ (Known(solved') = Blocks => handled')
        BY <3>1, <3>2 DEF Complete, HandOn, FountainInv
      <3>4. DecoderInv'
        BY <2>1, <3>1, <3>2, <3>3 DEF DecoderInv, Known
      <3>5. PayloadInv'
        BY <2>1, <3>1, HandOnKeeps DEF FountainInv, PayloadInv
      <3> QED BY <3>1, <3>3, <3>4, <3>5 DEF FountainInv
    <2> QED BY <2>2, <2>3
  <1>4. CASE Return
    BY <1>4 DEF Return, decoder, FountainInv, DecoderInv, PayloadInv, Decoder
  <1>5. CASE UNCHANGED vars
    BY <1>5 DEF vars, decoder, FountainInv, DecoderInv, PayloadInv, Decoder
  <1> QED BY <1>1, <1>2, <1>3, <1>4, <1>5 DEF Next

LEMMA FountainInvariant == Spec => []FountainInv
  <1> QED BY FountainStarts, FountainStep, PTL DEF Spec

-----------------------------------------------------------------------------
(* The theorems.                                                           *)

\* The decoders keep their types, and between two frames every pending equation has
\* at least two blocks: those of one block were taken, those of none dropped.
THEOREM DecoderTypes == Spec => []TypeOK
  <1>1. FountainInv => TypeOK
    <2> SUFFICES ASSUME FountainInv PROVE TypeOK
      OBVIOUS
    <2>1. CASE Decoder = Fresh
      <3>1. active = None /\ solved = Fresh.solved /\ pending = <<>> /\ seeds = {}
        BY <2>1 DEF Decoder, Fresh
      <3>2. Known(solved) = {}
        BY <3>1, FreshKnowsNothing
      <3>3. solved \in [Blocks -> SUBSET (Sessions \X Blocks)]
        BY <3>1 DEF Fresh
      <3> QED BY <3>1, <3>2, <3>3 DEF FountainInv, TypeOK
    <2>2. CASE active \in Sessions /\ Decoder \in Decoders(active)
      <3>1. solved \in Solved(active) /\ pending \in Seq(Pending(active)) /\ seeds \subseteq Frames
        BY <2>2 DEF Decoder, Decoders, Readers
      <3>2. \A i \in DOMAIN pending : pending[i] \in Pending(active)
        BY <3>1
      <3>3. \A eq \in Pending(active) : eq.indices \subseteq Blocks /\ Degree(eq) > 1
        BY DEF Pending, Equation, Degree
      <3>4. solved \in [Blocks -> SUBSET (Sessions \X Blocks)]
        BY <3>1 DEF Solved
      <3> QED BY <2>2, <3>1, <3>2, <3>3, <3>4, NoneAssumption DEF FountainInv, TypeOK
    <2> QED BY <2>1, <2>2 DEF FountainInv, DecoderInv
  <1> QED BY <1>1, FountainInvariant, PTL

\* The decoders hold nothing but what is true of one session's payload, and hand on
\* nothing but the whole of one.
THEOREM DecodesTheSource == Spec => []HoldsOfTheSource
  <1>1. FountainInv => HoldsOfTheSource
    <2> SUFFICES ASSUME FountainInv PROVE HoldsOfTheSource
      OBVIOUS
    <2>1. CASE Decoder = Fresh
      <3>1. Known(solved) = {} /\ pending = <<>>
        BY <2>1, FreshKnowsNothing DEF Decoder, Fresh
      <3>2. \A i \in DOMAIN pending : FALSE
        BY <3>1
      <3> QED BY <3>1, <3>2 DEF FountainInv, PayloadInv, HoldsOfTheSource
    <2>2. CASE active \in Sessions /\ Decoder \in Decoders(active)
      <3>1. solved \in Solved(active) /\ pending \in Seq(Pending(active))
        BY <2>2 DEF Decoder, Decoders, Readers
      <3>2. \A b \in Known(solved) : solved[b] = Source(active, {b})
        BY <3>1 DEF Known, Solved
      <3>3. \A i \in DOMAIN pending : pending[i] \in Pending(active)
        BY <3>1
      <3>4. \A eq \in Pending(active) : eq.data = Source(active, eq.indices)
        BY DEF Pending, Equation
      <3> QED BY <3>2, <3>3, <3>4 DEF FountainInv, PayloadInv, HoldsOfTheSource
    <2> QED BY <2>1, <2>2 DEF FountainInv, DecoderInv
  <1> QED BY <1>1, FountainInvariant, PTL

\* A decoder that has read the plain frames of its session has handed its payload on.
THEOREM PlainFramesAreEnough == Spec => []PlainFramesSuffice
  <1>1. FountainInv => PlainFramesSuffice
    <2> SUFFICES ASSUME FountainInv, Blocks \subseteq seeds PROVE handled
      BY DEF PlainFramesSuffice
    <2>1. 0 \in Blocks
      BY BoundsAssumption DEF Blocks
    <2>2. Decoder # Fresh
      BY <2>1 DEF Decoder, Fresh
    <2>3. Decoder \in Decoders(active)
      BY <2>2 DEF FountainInv, DecoderInv
    <2>4. \A b \in Blocks : solved[b] # {}
      BY <2>3 DEF Decoder, Decoders
    <2>5. Known(solved) = Blocks
      BY <2>4 DEF Known
    <2> QED BY <2>5 DEF FountainInv, DecoderInv
  <1> QED BY <1>1, FountainInvariant, PTL
=============================================================================
