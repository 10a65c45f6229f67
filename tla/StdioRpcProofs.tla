---------------------------- MODULE StdioRpcProofs ----------------------------
(***************************************************************************)
(* Proofs about StdioRpc: its types, that both sides are given whole       *)
(* frames in order, that nothing is delivered which was read after the     *)
(* transport closed, and that a cancelled request is not answered.         *)
(*                                                                         *)
(* The decoder of the agent and readFrame of the plugin see a pipe in      *)
(* pieces; what they make of it depends on what surrounds a blank line.    *)
(* Formed says how a pipe that is written under writeLock looks unit by    *)
(* unit, Open and Shut how it ends, and Carries that its k-th body is the  *)
(* k-th frame still to be decoded: the rank of a unit is the number of     *)
(* bodies up to it.  These are kept by every write, every stray line and   *)
(* every chunk, however it is cut, and say what Drained and FrameEnd give. *)
(* A rank is found, and a count split, by the least counterexample         *)
(* (lemma Least), the form of induction the provers can be given.          *)
(*                                                                         *)
(* On the way down the stream is the decoder's buffer and the pipe behind  *)
(* it (Down, as long as the peer is open).  On the way up it is the frame  *)
(* in the reader's hand, the pipe and the frames still in writeChain       *)
(* (Back, as long as somebody listens).                                    *)
(***************************************************************************)
EXTENDS StdioRpc, FiniteSetTheorems, SequenceTheorems, WellFoundedInduction, TLAPS

-----------------------------------------------------------------------------
(* Least and greatest numbers. *)

\* Every set of numbers that is not empty has a least one.
LEMMA Least ==
  ASSUME NEW T \in SUBSET Nat, T # {}
  PROVE  \E x \in T : \A y \in T : x <= y
<1> DEFINE R == OpToRel(<, Nat)
<1>1. IsWellFoundedOn(R, Nat)
  BY NatLessThanWellFounded
<1>2. \A x, y \in T : x < y => <<x, y>> \in R
  BY DEF OpToRel
<1> HIDE DEF R
<1>3. PICK x \in T : \A y \in T : ~(<<y, x>> \in R)
  <2>1. T \subseteq Nat
    OBVIOUS
  <2> QED BY <2>1, <1>1, WFMin, Zenon
<1>4. \A y \in T : ~(y < x)
  BY <1>2, <1>3, Zenon
<1>5. \A y \in T : x \in Nat /\ y \in Nat
  OBVIOUS
<1> QED BY <1>4, <1>5

LEMMA MinIs ==
  ASSUME NEW T \in SUBSET Nat, T # {}
  PROVE  Min(T) \in T /\ \A y \in T : Min(T) <= y
BY Least DEF Min

LEMMA MaxIs ==
  ASSUME NEW n \in Nat, NEW T \in SUBSET (0..n), T # {}
  PROVE  Max(T) \in T /\ \A y \in T : y <= Max(T)
<1> DEFINE U == {n - x : x \in T}
<1>0. \A x \in T : x \in Nat /\ n - x \in Nat
  OBVIOUS
<1>1. U \in SUBSET Nat /\ U # {}
  BY <1>0
<1>2. PICK u \in U : \A v \in U : u <= v
  BY <1>1, Least
<1>3. PICK x \in T : u = n - x
  OBVIOUS
<1>4. ASSUME NEW y \in T
      PROVE  x >= y
  <2>1. n - y \in U
    OBVIOUS
  <2>2. n - x <= n - y
    BY <2>1, <1>2, <1>3
  <2> QED BY <2>2, <1>0
<1> QED BY <1>3, <1>4 DEF Max

-----------------------------------------------------------------------------
(* Counting the bodies of a pipe. *)

\* The places up to n that hold a member of B, and their number.
Upto(p, B, n) == {i \in 1..n : p[i] \in B}
Count(p, B, n) == Cardinality(Upto(p, B, n))

LEMMA CountNat ==
  ASSUME NEW p, NEW B, NEW n \in Nat
  PROVE  IsFiniteSet(Upto(p, B, n)) /\ Count(p, B, n) \in Nat
<1>1. IsFiniteSet(1..n)
  BY FS_Interval
<1>2. Upto(p, B, n) \subseteq 1..n
  BY DEF Upto
<1>3. IsFiniteSet(Upto(p, B, n))
  BY <1>1, <1>2, FS_Subset
<1> QED BY <1>3, FS_CardinalityType DEF Count

LEMMA CountNone ==
  ASSUME NEW p, NEW B
  PROVE  Count(p, B, 0) = 0
<1>1. Upto(p, B, 0) = {}
  BY DEF Upto
<1> QED BY <1>1, FS_EmptySet DEF Count

LEMMA CountNext ==
  ASSUME NEW p, NEW B, NEW n \in Nat
  PROVE  Count(p, B, n + 1) = Count(p, B, n) + (IF p[n + 1] \in B THEN 1 ELSE 0)
<1>1. Upto(p, B, n + 1) = IF p[n + 1] \in B THEN Upto(p, B, n) \cup {n + 1} ELSE Upto(p, B, n)
  BY DEF Upto
<1>2. n + 1 \notin Upto(p, B, n)
  BY DEF Upto
<1>3. IsFiniteSet(Upto(p, B, n)) /\ Count(p, B, n) \in Nat
  BY CountNat
<1>4. Cardinality(Upto(p, B, n) \cup {n + 1}) = Cardinality(Upto(p, B, n)) + 1
  BY <1>2, <1>3, FS_AddElement
<1> QED BY <1>1, <1>3, <1>4 DEF Count

LEMMA CountSame ==
  ASSUME NEW p, NEW q, NEW B, NEW n \in Nat, \A i \in 1..n : p[i] \in B <=> q[i] \in B
  PROVE  Count(p, B, n) = Count(q, B, n)
<1>1. Upto(p, B, n) = Upto(q, B, n)
  BY DEF Upto
<1> QED BY <1>1 DEF Count

LEMMA CountUp ==
  ASSUME NEW p, NEW B, NEW m \in Nat, NEW n \in Nat, m <= n
  PROVE  /\ Count(p, B, m) <= Count(p, B, n)
         /\ (\A i \in m + 1..n : p[i] \notin B) => Count(p, B, m) = Count(p, B, n)
<1>1. Upto(p, B, m) \subseteq Upto(p, B, n)
  BY DEF Upto
<1>2. IsFiniteSet(Upto(p, B, n))
  BY CountNat
<1>3. Count(p, B, m) <= Count(p, B, n)
  BY <1>1, <1>2, FS_Subset DEF Count
<1>4. (\A i \in m + 1..n : p[i] \notin B) => Upto(p, B, m) = Upto(p, B, n)
  BY DEF Upto
<1> QED BY <1>3, <1>4 DEF Count

\* The units of a suffix are counted behind those of what comes before it.
LEMMA CountSplit ==
  ASSUME NEW p, NEW q, NEW B, NEW m \in Nat, NEW n \in Nat,
         \A i \in 1..n : q[i] = p[m + i]
  PROVE  Count(p, B, m + n) = Count(p, B, m) + Count(q, B, n)
<1> DEFINE Wrong == {i \in 0..n : Count(p, B, m + i) # Count(p, B, m) + Count(q, B, i)}
<1>0. n \notin Wrong => Count(p, B, m + n) = Count(p, B, m) + Count(q, B, n)
  OBVIOUS
<1> SUFFICES ASSUME Wrong # {} PROVE FALSE
  BY <1>0
<1>1. PICK x \in Wrong : \A y \in Wrong : x <= y
  <2>1. Wrong \in SUBSET Nat
    OBVIOUS
  <2> QED BY <2>1, Least
<1>2. x # 0
  <2>1. Count(q, B, 0) = 0 /\ Count(p, B, m) \in Nat
    BY CountNone, CountNat
  <2> QED BY <2>1
<1> DEFINE y == x - 1
<1>3. x \in 1..n /\ y \in 0..n /\ y \in Nat /\ m + y \in Nat /\ x = y + 1 /\ m + x = (m + y) + 1
  BY <1>2
<1>4. y \notin Wrong
  BY <1>1, <1>3
<1>5. Count(p, B, m + y) = Count(p, B, m) + Count(q, B, y)
  BY <1>3, <1>4
<1> HIDE DEF y
<1>6. Count(p, B, (m + y) + 1) = Count(p, B, m + y) + (IF p[(m + y) + 1] \in B THEN 1 ELSE 0)
  BY <1>3, CountNext
<1>7. Count(q, B, y + 1) = Count(q, B, y) + (IF q[y + 1] \in B THEN 1 ELSE 0)
  BY <1>3, CountNext
<1>8. q[y + 1] = p[(m + y) + 1]
  BY <1>3
<1>9. Count(p, B, m) \in Nat /\ Count(q, B, y) \in Nat
  BY <1>3, CountNat
<1>10. Count(p, B, m + x) = Count(p, B, m) + Count(q, B, x)
  BY <1>3, <1>5, <1>6, <1>7, <1>8, <1>9
<1> QED BY <1>10

\* Every count up to the whole is the rank of a unit.
LEMMA RankTaken ==
  ASSUME NEW p, NEW B, NEW n \in Nat, NEW k \in 1..Count(p, B, n)
  PROVE  \E i \in 1..n : p[i] \in B /\ Count(p, B, i) = k
<1> DEFINE High == {i \in 0..n : Count(p, B, i) >= k}
<1>0. Count(p, B, n) \in Nat
  BY CountNat
<1>1. PICK x \in High : \A y \in High : x <= y
  <2>1. n \in High
    BY <1>0
  <2>2. High \in SUBSET Nat
    OBVIOUS
  <2> QED BY <2>1, <2>2, Least
<1>2. x # 0
  BY CountNone, <1>0
<1> DEFINE y == x - 1
<1>3. x \in 1..n /\ y \in 0..n /\ y \in Nat /\ x = y + 1 /\ y < x
  BY <1>2
<1>4. y \notin High
  BY <1>1, <1>3
<1>5. Count(p, B, y) \in Nat
  BY <1>3, CountNat
<1>6. Count(p, B, y) < k
  BY <1>0, <1>3, <1>4, <1>5
<1> HIDE DEF y
<1>7. Count(p, B, y + 1) = Count(p, B, y) + (IF p[y + 1] \in B THEN 1 ELSE 0)
  BY <1>3, CountNext
<1>8. Count(p, B, x) >= k
  OBVIOUS
<1>9. p[x] \in B /\ Count(p, B, x) = k
  BY <1>0, <1>3, <1>5, <1>6, <1>7, <1>8
<1> QED BY <1>3, <1>9

LEMMA CountSome ==
  ASSUME NEW p, NEW B, NEW i \in Nat, i # 0, p[i] \in B
  PROVE  1 <= Count(p, B, i)
<1> DEFINE y == i - 1
<1>1. y \in Nat /\ i = y + 1
  OBVIOUS
<1> HIDE DEF y
<1>2. Count(p, B, y + 1) = Count(p, B, y) + (IF p[y + 1] \in B THEN 1 ELSE 0)
  BY <1>1, CountNext
<1>3. Count(p, B, y) \in Nat
  BY <1>1, CountNat
<1> QED BY <1>1, <1>2, <1>3

-----------------------------------------------------------------------------
(* What a pipe looks like. *)

Lines == {Length, Blank, StrayLine}

\* A body has a header before it, a header a body behind it unless the pipe ends first,
\* and a blank line ends a header or follows a stray line.
Formed(p, B) ==
  \A i \in 1..Len(p) :
    /\ p[i] \in Lines \cup B
    /\ p[i] \in B => i > 2 /\ p[i - 1] = Blank /\ p[i - 2] = Length
    /\ p[i] = Blank => i > 1 /\ p[i - 1] \in {Length, StrayLine}
    /\ p[i] = Length => /\ i + 1 <= Len(p) => p[i + 1] = Blank
                        /\ i + 2 <= Len(p) => p[i + 2] \in B
\* The pipe ends in a header, or in none that is begun.
Open(p) == Len(p) > 1 /\ p[Len(p) - 1] = Length /\ p[Len(p)] = Blank
Shut(p) == /\ Len(p) > 0 => p[Len(p)] # Length
           /\ Len(p) > 1 => p[Len(p) - 1] # Length
\* The bodies of p are the members of w behind the first g, in order.
Carries(p, B, w, g) ==
  /\ g + Count(p, B, Len(p)) <= Len(w)
  /\ \A i \in 1..Len(p) : p[i] \in B => p[i] = w[g + Count(p, B, i)]

\* q begins as p does, or is what p has behind its first m units.
Begins(q, p) == Len(q) <= Len(p) /\ \A i \in 1..Len(q) : q[i] = p[i]
Behind(q, p, m) == Len(p) = m + Len(q) /\ \A i \in 1..Len(q) : q[i] = p[m + i]

LEMMA Apart ==
  /\ Length # Blank /\ Length # StrayLine /\ Blank # StrayLine
  /\ \A x \in Frames \cup Answers : x \notin Lines
BY DEF Length, Blank, StrayLine, Lines, Frames, Answers

LEMMA FormedBegin ==
  ASSUME NEW p, NEW q, NEW B, Len(p) \in Nat, Len(q) \in Nat, Begins(q, p), Formed(p, B)
  PROVE  Formed(q, B)
<1> SUFFICES ASSUME NEW i \in 1..Len(q)
             PROVE  /\ q[i] \in Lines \cup B
                    /\ q[i] \in B => i > 2 /\ q[i - 1] = Blank /\ q[i - 2] = Length
                    /\ q[i] = Blank => i > 1 /\ q[i - 1] \in {Length, StrayLine}
                    /\ q[i] = Length => /\ i + 1 <= Len(q) => q[i + 1] = Blank
                                        /\ i + 2 <= Len(q) => q[i + 2] \in B
  BY DEF Formed
<1>1. i \in 1..Len(p) /\ \A k \in 1..Len(q) : q[k] = p[k] /\ k <= Len(p)
  BY DEF Begins
<1>2. /\ p[i] \in Lines \cup B
      /\ p[i] \in B => i > 2 /\ p[i - 1] = Blank /\ p[i - 2] = Length
      /\ p[i] = Blank => i > 1 /\ p[i - 1] \in {Length, StrayLine}
      /\ p[i] = Length => /\ i + 1 <= Len(p) => p[i + 1] = Blank
                          /\ i + 2 <= Len(p) => p[i + 2] \in B
  BY <1>1 DEF Formed
<1> QED BY <1>1, <1>2 DEF Begins

LEMMA FormedBehind ==
  ASSUME NEW p, NEW q, NEW B, NEW m \in Nat, Len(p) \in Nat, Len(q) \in Nat, Behind(q, p, m),
         \A b \in B : b \notin Lines, m = 0 \/ p[m] \in B, Formed(p, B)
  PROVE  Formed(q, B) /\ (Open(p) => Open(q)) /\ (Shut(p) => Shut(q))
<1>0. Length # Blank /\ Length # StrayLine /\ Blank # StrayLine
  BY Apart
<1>1. p[m] \in B => p[m] # Blank /\ p[m] # Length /\ p[m] # StrayLine
  BY DEF Lines
<1>2. \A i \in 1..Len(q) : q[i] = p[m + i] /\ m + i \in 1..Len(p)
  BY DEF Behind
<1>3. Formed(q, B)
  <2> SUFFICES ASSUME NEW i \in 1..Len(q)
               PROVE  /\ q[i] \in Lines \cup B
                      /\ q[i] \in B => i > 2 /\ q[i - 1] = Blank /\ q[i - 2] = Length
                      /\ q[i] = Blank => i > 1 /\ q[i - 1] \in {Length, StrayLine}
                      /\ q[i] = Length => /\ i + 1 <= Len(q) => q[i + 1] = Blank
                                          /\ i + 2 <= Len(q) => q[i + 2] \in B
    BY DEF Formed
  <2> DEFINE j == m + i
  <2>1. j \in 1..Len(p) /\ q[i] = p[j] /\ j > m
    BY <1>2
  <2>2. /\ p[j] \in Lines \cup B
        /\ p[j] \in B => j > 2 /\ p[j - 1] = Blank /\ p[j - 2] = Length
        /\ p[j] = Blank => j > 1 /\ p[j - 1] \in {Length, StrayLine}
        /\ p[j] = Length => /\ j + 1 <= Len(p) => p[j + 1] = Blank
                            /\ j + 2 <= Len(p) => p[j + 2] \in B
    BY <2>1 DEF Formed
  <2>3. \A k \in {1, 2} : i > k => q[i - k] = p[j - k]
    BY <1>2
  <2>4. \A k \in {1, 2} : i + k <= Len(q) => q[i + k] = p[j + k] /\ j + k <= Len(p)
    BY <1>2
  <2>5. i = 1 => j - 1 = m
    OBVIOUS
  <2>6. i = 2 => j - 2 = m
    OBVIOUS
  <2>7. m = 0 => j = i
    OBVIOUS
  <2> HIDE DEF j
  <2>8. q[i] \in B => i > 2 /\ q[i - 1] = Blank /\ q[i - 2] = Length
    <3> SUFFICES ASSUME q[i] \in B PROVE i > 2 /\ q[i - 1] = Blank /\ q[i - 2] = Length
      OBVIOUS
    <3>1. j > 2 /\ p[j - 1] = Blank /\ p[j - 2] = Length
      BY <2>1, <2>2
    <3>2. i # 1
      <4> SUFFICES ASSUME i = 1 PROVE FALSE
        OBVIOUS
      <4>1. p[m] = Blank /\ m # 0 BY <2>5, <2>7, <3>1
      <4> QED BY <1>1, <4>1
    <3>3. i # 2
      <4> SUFFICES ASSUME i = 2 PROVE FALSE
        OBVIOUS
      <4>1. p[m] = Length /\ m # 0 BY <2>6, <2>7, <3>1
      <4> QED BY <1>1, <4>1
    <3>4. i > 2
      BY <3>2, <3>3
    <3> QED BY <2>3, <3>1, <3>4
  <2>9. q[i] = Blank => i > 1 /\ q[i - 1] \in {Length, StrayLine}
    BY <1>1, <2>1, <2>2, <2>3, <2>5, <2>7
  <2> QED BY <2>1, <2>2, <2>4, <2>8, <2>9
<1>4. Open(p) => Open(q)
  <2> HAVE Open(p)
  <2>1. m # Len(p) /\ m # Len(p) - 1
    BY <1>1 DEF Open
  <2>2. Len(q) > 1 /\ q[Len(q)] = p[Len(p)] /\ q[Len(q) - 1] = p[Len(p) - 1]
    BY <1>2, <2>1 DEF Behind
  <2> QED BY <2>2 DEF Open
<1>5. Shut(p) => Shut(q)
  <2>1. Len(q) > 0 => q[Len(q)] = p[Len(p)] /\ Len(p) > 0
    BY <1>2 DEF Behind
  <2>2. Len(q) > 1 => q[Len(q) - 1] = p[Len(p) - 1] /\ Len(p) > 1
    BY <1>2 DEF Behind
  <2> QED BY <2>1, <2>2 DEF Shut
<1> QED BY <1>3, <1>4, <1>5

LEMMA CarriesBehind ==
  ASSUME NEW p, NEW q, NEW B, NEW m \in Nat, NEW w, NEW g \in Nat,
         Len(p) \in Nat, Len(q) \in Nat, Len(w) \in Nat, Behind(q, p, m), Carries(p, B, w, g)
  PROVE  /\ Carries(q, B, w, g + Count(p, B, m))
         /\ Count(p, B, Len(p)) = Count(p, B, m) + Count(q, B, Len(q))
<1>1. \A i \in 0..Len(q) : Count(p, B, m + i) = Count(p, B, m) + Count(q, B, i)
  <2> TAKE i \in 0..Len(q)
  <2>1. i \in Nat /\ \A k \in 1..i : q[k] = p[m + k]
    BY DEF Behind
  <2> QED BY <2>1, CountSplit
<1>2. Count(p, B, Len(p)) = Count(p, B, m) + Count(q, B, Len(q))
  BY <1>1 DEF Behind
<1>3. Count(p, B, m) \in Nat /\ \A i \in Nat : Count(q, B, i) \in Nat
  BY CountNat
<1>4. ASSUME NEW i \in 1..Len(q), q[i] \in B
      PROVE  q[i] = w[(g + Count(p, B, m)) + Count(q, B, i)]
  <2>1. q[i] = p[m + i] /\ m + i \in 1..Len(p)
    BY DEF Behind
  <2>2. p[m + i] = w[g + Count(p, B, m + i)]
    BY <1>4, <2>1 DEF Carries
  <2>3. g + Count(p, B, m + i) = (g + Count(p, B, m)) + Count(q, B, i)
    BY <1>1, <1>3
  <2> QED BY <2>1, <2>2, <2>3
<1>5. (g + Count(p, B, m)) + Count(q, B, Len(q)) <= Len(w)
  BY <1>2, <1>3 DEF Carries
<1> QED BY <1>2, <1>4, <1>5 DEF Carries

-----------------------------------------------------------------------------
(* More units behind those that are there. *)

Longer(q, p, n) == Len(q) = Len(p) + n /\ \A i \in 1..Len(p) : q[i] = p[i]

LEMMA CarriesLonger ==
  ASSUME NEW p, NEW q, NEW B, NEW n \in Nat, NEW w, NEW g \in Nat,
         Len(p) \in Nat, Longer(q, p, n), \A i \in Len(p) + 1..Len(q) : q[i] \notin B,
         Carries(p, B, w, g)
  PROVE  Carries(q, B, w, g) /\ Count(q, B, Len(q)) = Count(p, B, Len(p))
<1>0. Len(q) \in Nat /\ Len(p) <= Len(q)
  BY DEF Longer
<1>1. \A i \in 0..Len(p) : Count(q, B, i) = Count(p, B, i)
  <2> TAKE i \in 0..Len(p)
  <2>1. \A k \in 1..i : q[k] \in B <=> p[k] \in B
    BY DEF Longer
  <2> QED BY <2>1, CountSame
<1>2. Count(q, B, Len(q)) = Count(q, B, Len(p))
  BY <1>0, CountUp
<1>3. \A i \in 1..Len(q) : q[i] \in B => i \in 1..Len(p) /\ q[i] = p[i]
  BY <1>0 DEF Longer
<1> QED BY <1>1, <1>2, <1>3 DEF Carries

LEMMA CarriesBody ==
  ASSUME NEW p, NEW q, NEW B, NEW w, NEW v, NEW g \in Nat,
         Len(p) \in Nat, Len(w) \in Nat, Len(v) \in Nat,
         Longer(q, p, 1), q[Len(q)] \in B, Carries(p, B, w, g),
         \A i \in 1..Len(w) : v[i] = w[i], Len(w) <= Len(v),
         g + Count(p, B, Len(p)) < Len(v), v[g + Count(p, B, Len(p)) + 1] = q[Len(q)]
  PROVE  Carries(q, B, v, g) /\ Count(q, B, Len(q)) = Count(p, B, Len(p)) + 1
<1>0. Len(q) = Len(p) + 1
  BY DEF Longer
<1>1. \A i \in 0..Len(p) : Count(q, B, i) = Count(p, B, i)
  <2> TAKE i \in 0..Len(p)
  <2>1. \A k \in 1..i : q[k] \in B <=> p[k] \in B
    BY DEF Longer
  <2> QED BY <2>1, CountSame
<1>2. Count(q, B, Len(p) + 1) = Count(q, B, Len(p)) + 1
  BY <1>0, CountNext
<1>3. Count(q, B, Len(q)) = Count(p, B, Len(p)) + 1
  BY <1>0, <1>1, <1>2
<1>4. ASSUME NEW i \in 1..Len(q), q[i] \in B
      PROVE  q[i] = v[g + Count(q, B, i)]
  <2>0. Count(p, B, Len(p)) \in Nat /\ Count(p, B, i) \in Nat
    BY CountNat
  <2>1. CASE i = Len(q)
    BY <2>0, <2>1, <1>3
  <2>2. CASE i # Len(q)
    <3>1. i \in 1..Len(p) /\ q[i] = p[i]
      BY <1>0, <2>2 DEF Longer
    <3>2. p[i] = w[g + Count(p, B, i)]
      BY <1>4, <3>1 DEF Carries
    <3>3. 1 <= Count(p, B, i)
      BY <1>4, <3>1, CountSome
    <3>4. Count(p, B, i) <= Count(p, B, Len(p))
      BY <3>1, CountUp
    <3>5. g + Count(p, B, i) \in 1..Len(w)
      BY <2>0, <3>3, <3>4 DEF Carries
    <3> QED BY <1>1, <3>1, <3>2, <3>5
  <2> QED BY <2>1, <2>2
<1>5. g + Count(q, B, Len(q)) <= Len(v)
  <2>1. Count(p, B, Len(p)) \in Nat
    BY CountNat
  <2> QED BY <1>3, <2>1
<1> QED BY <1>3, <1>4, <1>5 DEF Carries

LEMMA CarriesGrown ==
  ASSUME NEW p, NEW B, NEW w, NEW v, NEW g \in Nat,
         Len(p) \in Nat, Len(w) \in Nat, Len(v) \in Nat, Carries(p, B, w, g),
         \A i \in 1..Len(w) : v[i] = w[i], Len(w) <= Len(v)
  PROVE  Carries(p, B, v, g)
<1>1. ASSUME NEW i \in 1..Len(p), p[i] \in B
      PROVE  p[i] = v[g + Count(p, B, i)]
  <2>0. Count(p, B, Len(p)) \in Nat /\ Count(p, B, i) \in Nat
    BY CountNat
  <2>1. 1 <= Count(p, B, i)
    BY <1>1, CountSome
  <2>2. Count(p, B, i) <= Count(p, B, Len(p))
    BY CountUp
  <2>3. g + Count(p, B, i) \in 1..Len(w)
    BY <2>0, <2>1, <2>2 DEF Carries
  <2> QED BY <1>1, <2>3 DEF Carries
<1>2. g + Count(p, B, Len(p)) <= Len(v)
  BY CountNat DEF Carries
<1> QED BY <1>1, <1>2 DEF Carries

LEMMA FormedOne ==
  ASSUME NEW p, NEW q, NEW B, Len(p) \in Nat, \A b \in B : b \notin Lines,
         Formed(p, B), Longer(q, p, 1), q[Len(q)] \in Lines \cup B,
         q[Len(q)] \in B <=> Open(p),
         q[Len(q)] = Blank => Len(p) > 0 /\ p[Len(p)] \in {Length, StrayLine},
         Len(p) > 0 /\ p[Len(p)] = Length => q[Len(q)] = Blank
  PROVE  Formed(q, B)
<1>0. Len(q) = Len(p) + 1 /\ \A i \in 1..Len(p) : q[i] = p[i]
  BY DEF Longer
<1>1. Length # Blank /\ Length \notin B /\ Blank \notin B
  BY Apart DEF Lines
<1> SUFFICES ASSUME NEW i \in 1..Len(q)
             PROVE  /\ q[i] \in Lines \cup B
                    /\ q[i] \in B => i > 2 /\ q[i - 1] = Blank /\ q[i - 2] = Length
                    /\ q[i] = Blank => i > 1 /\ q[i - 1] \in {Length, StrayLine}
                    /\ q[i] = Length => /\ i + 1 <= Len(q) => q[i + 1] = Blank
                                        /\ i + 2 <= Len(q) => q[i + 2] \in B
  BY DEF Formed
<1>2. CASE i = Len(q)
  <2>1. q[i] \in B => i > 2 /\ q[i - 1] = Blank /\ q[i - 2] = Length
    BY <1>0, <1>2 DEF Open
  <2>2. q[i] = Blank => i > 1 /\ q[i - 1] \in {Length, StrayLine}
    BY <1>0, <1>2
  <2> QED BY <1>0, <1>2, <2>1, <2>2
<1>3. CASE i # Len(q)
  <2>1. i \in 1..Len(p)
    BY <1>0, <1>3
  <2>2. /\ p[i] \in Lines \cup B
        /\ p[i] \in B => i > 2 /\ p[i - 1] = Blank /\ p[i - 2] = Length
        /\ p[i] = Blank => i > 1 /\ p[i - 1] \in {Length, StrayLine}
        /\ p[i] = Length => /\ i + 1 <= Len(p) => p[i + 1] = Blank
                            /\ i + 2 <= Len(p) => p[i + 2] \in B
    BY <2>1 DEF Formed
  <2>3. /\ q[i] = p[i]
        /\ i > 1 => q[i - 1] = p[i - 1]
        /\ i > 2 => q[i - 2] = p[i - 2]
        /\ i + 1 <= Len(p) => q[i + 1] = p[i + 1]
        /\ i + 2 <= Len(p) => q[i + 2] = p[i + 2]
    BY <1>0, <2>1
  <2>4. q[i] = Length /\ i + 1 <= Len(q) => q[i + 1] = Blank
    <3>1. CASE i = Len(p)
      BY <1>0, <2>3, <3>1
    <3>2. CASE i # Len(p)
      BY <1>0, <2>1, <2>2, <2>3, <3>2
    <3> QED BY <3>1, <3>2
  <2>5. q[i] = Length /\ i + 2 <= Len(q) => q[i + 2] \in B
    <3>1. CASE i = Len(p) - 1
      BY <1>0, <2>1, <2>2, <2>3, <3>1 DEF Open
    <3>2. CASE i # Len(p) - 1
      BY <1>0, <2>1, <2>2, <2>3, <3>2
    <3> QED BY <3>1, <3>2
  <2> QED BY <2>2, <2>3, <2>4, <2>5
<1> QED BY <1>2, <1>3

LEMMA AppendLonger ==
  ASSUME NEW p \in Seq(Units), NEW x \in Units
  PROVE  /\ Append(p, x) \in Seq(Units)
         /\ Len(p) \in Nat /\ Len(Append(p, x)) = Len(p) + 1
         /\ Longer(Append(p, x), p, 1)
         /\ Append(p, x)[Len(p) + 1] = x
BY AppendProperties DEF Longer

LEMMA AddStray ==
  ASSUME NEW p \in Seq(Units), NEW B \in {Frames, Answers}, Formed(p, B), Shut(p)
  PROVE  Formed(Append(p, StrayLine), B) /\ Shut(Append(p, StrayLine))
<1> DEFINE q == Append(p, StrayLine)
<1>1. StrayLine \in Units /\ Length # StrayLine /\ Blank # StrayLine /\ StrayLine \in Lines
      /\ StrayLine \notin B /\ \A b \in B : b \notin Lines
  BY Apart DEF Units, Lines
<1>2. Longer(q, p, 1) /\ Len(p) \in Nat /\ Len(q) = Len(p) + 1 /\ q[Len(q)] = StrayLine
  BY <1>1, AppendLonger
<1>3. ~Open(p)
  BY DEF Open, Shut
<1> HIDE DEF q
<1>4. Formed(q, B)
  BY <1>1, <1>2, <1>3, FormedOne DEF Shut
<1>5. Shut(q)
  BY <1>1, <1>2 DEF Shut, Longer
<1> QED BY <1>4, <1>5 DEF q

LEMMA AddBlank ==
  ASSUME NEW p \in Seq(Units), NEW B \in {Frames, Answers}, Formed(p, B), ~Open(p),
         Len(p) > 0, p[Len(p)] \in {Length, StrayLine}
  PROVE  /\ Formed(Append(p, Blank), B)
         /\ p[Len(p)] = Length => Open(Append(p, Blank))
         /\ p[Len(p)] = StrayLine => Shut(Append(p, Blank))
<1> DEFINE q == Append(p, Blank)
<1>1. Blank \in Units /\ Length # StrayLine /\ Length # Blank /\ Blank \in Lines
      /\ Blank \notin B /\ \A b \in B : b \notin Lines
  BY Apart DEF Units, Lines
<1>2. Longer(q, p, 1) /\ Len(p) \in Nat /\ Len(q) = Len(p) + 1 /\ q[Len(q)] = Blank
  BY <1>1, AppendLonger
<1> HIDE DEF q
<1>4. Formed(q, B)
  BY <1>1, <1>2, FormedOne
<1>5. q[Len(p)] = p[Len(p)]
  BY <1>2 DEF Longer
<1> QED BY <1>1, <1>2, <1>4, <1>5 DEF q, Open, Shut

LEMMA AddLength ==
  ASSUME NEW p \in Seq(Units), NEW B \in {Frames, Answers}, Formed(p, B), Shut(p)
  PROVE  Formed(Append(p, Length), B) /\ ~Open(Append(p, Length))
<1> DEFINE q == Append(p, Length)
<1>1. Length \in Units /\ Length # StrayLine /\ Length # Blank /\ Length \in Lines
      /\ Length \notin B /\ \A b \in B : b \notin Lines
  BY Apart DEF Units, Lines
<1>2. Longer(q, p, 1) /\ Len(p) \in Nat /\ Len(q) = Len(p) + 1 /\ q[Len(q)] = Length
  BY <1>1, AppendLonger
<1>3. ~Open(p)
  BY DEF Open, Shut
<1> HIDE DEF q
<1>4. Formed(q, B)
  BY <1>1, <1>2, <1>3, FormedOne DEF Shut
<1> QED BY <1>1, <1>2, <1>4 DEF q, Open

LEMMA AddBody ==
  ASSUME NEW p \in Seq(Units), NEW B \in {Frames, Answers}, Formed(p, B), Open(p), NEW b \in B
  PROVE  Formed(Append(p, b), B) /\ Shut(Append(p, b))
<1> DEFINE q == Append(p, b)
<1>1. b \in Units /\ Length # Blank /\ b \notin Lines /\ \A x \in B : x \notin Lines
      /\ b # Length /\ b # Blank
  BY Apart DEF Units, Lines
<1>2. Longer(q, p, 1) /\ Len(p) \in Nat /\ Len(q) = Len(p) + 1 /\ q[Len(q)] = b
  BY <1>1, AppendLonger
<1> HIDE DEF q
<1>3. p[Len(p)] = Blank
  BY DEF Open
<1>4. Formed(q, B)
  BY <1>1, <1>2, <1>3, FormedOne
<1>5. q[Len(p)] = p[Len(p)]
  BY <1>2 DEF Longer, Open
<1> QED BY <1>1, <1>2, <1>3, <1>4, <1>5 DEF q, Shut

-----------------------------------------------------------------------------
(* What the decoder and the reader make of a pipe that is formed. *)

\* What LastBody returns: the last body before a place, 0 if there is none.
LEMMA LastBodyIs ==
  ASSUME NEW p, Len(p) \in Nat, NEW before \in Nat
  PROVE  /\ LastBody(p, before) \in {0} \cup {i \in Bodies(p) : i < before}
         /\ \A i \in Bodies(p) : i < before => i <= LastBody(p, before)
<1> DEFINE S == {0} \cup {i \in Bodies(p) : i < before}
<1>1. S \in SUBSET (0..Len(p)) /\ S # {}
  BY DEF Bodies
<1>2. Max(S) \in S /\ \A y \in S : y <= Max(S)
  BY <1>1, MaxIs
<1>3. LastBody(p, before) = Max(S)
  BY DEF LastBody
<1> QED BY <1>2, <1>3

\* In a pipe that is formed and not malformed the bodies are the frames.
LEMMA BodiesAre ==
  ASSUME NEW p, Len(p) \in Nat, DOMAIN p = 1..Len(p), NEW B \in {Frames, Answers}, Formed(p, B), ~Malformed(p)
  PROVE  Bodies(p) = Upto(p, B, Len(p))
<1>0. Length # Blank /\ Length # StrayLine /\ Blank # StrayLine /\ \A b \in B : b \notin Lines
  BY Apart
<1>1. Bodies(p) \subseteq 2..Len(p) /\ Upto(p, B, Len(p)) \subseteq 1..Len(p)
  BY DEF Bodies, Upto
<1>2. ASSUME NEW i \in 1..Len(p), p[i] \in B
      PROVE  i \in Bodies(p)
  BY <1>2 DEF Formed, Bodies
<1>3. ASSUME NEW i \in Bodies(p)
      PROVE  p[i] \in B
  <2>1. i \in 2..Len(p) /\ p[i - 1] = Blank /\ i - 1 \in 1..Len(p)
    BY DEF Bodies
  <2>2. i > 2 /\ p[i - 2] \in {Length, StrayLine}
    <3> DEFINE j == i - 1
    <3>1. j \in 1..Len(p) /\ p[j] = Blank /\ i = j + 1 /\ i - 2 = j - 1
      BY <2>1
    <3> HIDE DEF j
    <3>2. j > 1 /\ p[j - 1] \in {Length, StrayLine}
      BY <3>1 DEF Formed
    <3> QED BY <3>1, <3>2
  <2>3. CASE p[i - 2] = Length
    <3> DEFINE j == i - 2
    <3>1. j \in 1..Len(p) /\ p[j] = Length /\ i = j + 2 /\ j + 2 <= Len(p)
      BY <2>1, <2>2, <2>3
    <3> HIDE DEF j
    <3> QED BY <3>1 DEF Formed
  <2>4. CASE p[i - 2] = StrayLine
    <3>1. \E k \in LastBody(p, i - 1) + 1..(i - 1) - 1 : p[k] = Length
      BY <2>1 DEF Malformed
    <3>0. LastBody(p, i - 1) \in Nat
      <4>1. LastBody(p, i - 1) \in {0} \cup {n \in Bodies(p) : n < i - 1}
        BY <2>1, LastBodyIs
      <4> QED BY <4>1, <1>1
    <3>2. PICK k \in LastBody(p, i - 1) + 1..i - 2 : p[k] = Length
      BY <3>1, <2>1
    <3>3. k \in 1..Len(p) /\ k # i - 2 /\ k + 2 <= i - 1 /\ k + 2 <= Len(p)
      BY <3>0, <3>2, <2>1, <2>2, <2>4, <1>0
    <3>4. p[k + 1] = Blank /\ p[k + 2] \in B
      BY <3>2, <3>3 DEF Formed
    <3>5. k + 2 # i - 1
      BY <3>4, <2>1, <1>0 DEF Lines
    <3>6. k + 2 \in Bodies(p) /\ k + 2 < i - 1
      BY <3>3, <3>4, <3>5, <1>2, <2>1
    <3>7. k + 2 <= LastBody(p, i - 1)
      BY <3>6, <2>1, LastBodyIs
    <3> QED BY <3>0, <3>2, <3>7
  <2> QED BY <2>2, <2>3, <2>4
<1> QED BY <1>1, <1>2, <1>3 DEF Upto

\* drain: the frames, in order ...
LEMMA DrainedIs ==
  ASSUME NEW p, Len(p) \in Nat, DOMAIN p = 1..Len(p), NEW B \in {Frames, Answers}, Formed(p, B), ~Malformed(p),
         NEW w, NEW g \in Nat, Carries(p, B, w, g)
  PROVE  /\ Drained(p) \in Seq(B)
         /\ Len(Drained(p)) = Count(p, B, Len(p))
         /\ \A k \in 1..Len(Drained(p)) : Drained(p)[k] = w[g + k]
<1> DEFINE n == Count(p, B, Len(p))
           At(k) == CHOOSE i \in Bodies(p) : Cardinality({j \in Bodies(p) : j <= i}) = k
<1>1. Bodies(p) = Upto(p, B, Len(p))
  BY BodiesAre
<1>2. n \in Nat /\ n = Cardinality(Bodies(p))
  BY <1>1, CountNat DEF Count
<1>3. ASSUME NEW i \in Bodies(p)
      PROVE  i \in 1..Len(p) /\ p[i] \in B /\ Cardinality({j \in Bodies(p) : j <= i}) = Count(p, B, i)
  <2>1. {j \in Bodies(p) : j <= i} = Upto(p, B, i) /\ i \in 1..Len(p) /\ p[i] \in B
    BY <1>1 DEF Upto
  <2> QED BY <2>1 DEF Count
<1>4. ASSUME NEW k \in 1..n
      PROVE  p[At(k)] \in B /\ p[At(k)] = w[g + k]
  <2>1. PICK i \in 1..Len(p) : p[i] \in B /\ Count(p, B, i) = k
    BY RankTaken
  <2>2. i \in Bodies(p)
    BY <1>1, <2>1 DEF Upto
  <2>3. \E j \in Bodies(p) : Cardinality({m \in Bodies(p) : m <= j}) = k
    BY <1>3, <2>1, <2>2
  <2>4. At(k) \in Bodies(p) /\ Cardinality({m \in Bodies(p) : m <= At(k)}) = k
    BY <2>3
  <2> HIDE DEF At
  <2>5. At(k) \in 1..Len(p) /\ p[At(k)] \in B /\ Count(p, B, At(k)) = k
    BY <1>3, <2>4
  <2> QED BY <2>5 DEF Carries
<1>5. Drained(p) = [k \in 1..n |-> p[At(k)]]
  BY <1>2 DEF Drained
<1> HIDE DEF n, At
<1>6. Drained(p) \in [1..n -> B]
  BY <1>4, <1>5
<1>7. Drained(p) \in Seq(B) /\ Len(Drained(p)) = n
  BY <1>2, <1>6, SeqDef, LenProperties
<1> QED BY <1>4, <1>5, <1>7 DEF n

LEMMA Start ==
  ASSUME NEW p \in Seq(Units), NEW n \in 0..Len(p)
  PROVE  /\ SubSeq(p, 1, n) \in Seq(Units) /\ Len(SubSeq(p, 1, n)) = n
         /\ Begins(SubSeq(p, 1, n), p)
<1> DEFINE c == SubSeq(p, 1, n)
<1>0. Len(p) \in Nat /\ n \in Nat /\ \A i \in 1..Len(p) : p[i] \in Units
  BY LenProperties, ElementOfSeq
<1>1. \A i \in 1..n : p[i] \in Units
  BY <1>0
<1>2. /\ c \in Seq(Units)
      /\ Len(c) = IF 1 <= n THEN n - 1 + 1 ELSE 0
      /\ \A i \in 1..n - 1 + 1 : c[i] = p[1 + i - 1]
  BY <1>0, <1>1, SubSeqProperties
<1> HIDE DEF c
<1>3. Len(c) = n /\ \A i \in 1..Len(c) : c[i] = p[i]
  BY <1>0, <1>2
<1> QED BY <1>0, <1>2, <1>3 DEF Begins, c

LEMMA Remainder ==
  ASSUME NEW p \in Seq(Units), NEW n \in 0..Len(p)
  PROVE  /\ SubSeq(p, n + 1, Len(p)) \in Seq(Units)
         /\ Behind(SubSeq(p, n + 1, Len(p)), p, n)
<1> DEFINE t == SubSeq(p, n + 1, Len(p))
<1>0. Len(p) \in Nat /\ n \in Nat /\ \A i \in 1..Len(p) : p[i] \in Units
  BY LenProperties, ElementOfSeq
<1>1. \A i \in n + 1..Len(p) : p[i] \in Units
  BY <1>0
<1>2. /\ t \in Seq(Units)
      /\ Len(t) = IF n + 1 <= Len(p) THEN Len(p) - (n + 1) + 1 ELSE 0
      /\ \A i \in 1..Len(p) - (n + 1) + 1 : t[i] = p[(n + 1) + i - 1]
  BY <1>0, <1>1, SubSeqProperties
<1> HIDE DEF t
<1>3. Len(t) = Len(p) - n /\ \A i \in 1..Len(t) : t[i] = p[n + i]
  BY <1>0, <1>2
<1> QED BY <1>0, <1>2, <1>3 DEF Behind, t

\* ... and what is left behind the last of them.
LEMMA RestIs ==
  ASSUME NEW p \in Seq(Units), NEW B \in {Frames, Answers}, Formed(p, B), ~Malformed(p)
  PROVE  LET l == LastBody(p, Len(p) + 1)
         IN  /\ l \in 0..Len(p) /\ (l = 0 \/ p[l] \in B)
             /\ Count(p, B, l) = Count(p, B, Len(p))
             /\ Rest(p) \in Seq(Units) /\ Behind(Rest(p), p, l)
<1> DEFINE l == LastBody(p, Len(p) + 1)
<1>0. Len(p) \in Nat /\ DOMAIN p = 1..Len(p) /\ \A i \in 1..Len(p) : p[i] \in Units
  BY LenProperties, ElementOfSeq
<1>1. Bodies(p) = Upto(p, B, Len(p))
  BY <1>0, BodiesAre
<1>2. l \in {0} \cup {i \in Bodies(p) : i < Len(p) + 1} /\ \A i \in Bodies(p) : i < Len(p) + 1 => i <= l
  BY <1>0, LastBodyIs
<1>3. l \in 0..Len(p) /\ (l = 0 \/ p[l] \in B)
  BY <1>0, <1>1, <1>2 DEF Upto
<1>4. Rest(p) = SubSeq(p, l + 1, Len(p))
  BY DEF Rest
<1> HIDE DEF l
<1>5. \A i \in l + 1..Len(p) : p[i] \notin B
  <2> SUFFICES ASSUME NEW i \in l + 1..Len(p), p[i] \in B PROVE FALSE
    OBVIOUS
  <2>1. i \in Bodies(p) /\ i < Len(p) + 1
    BY <1>0, <1>1, <1>3 DEF Upto
  <2> QED BY <1>2, <1>3, <2>1
<1>6. Count(p, B, l) = Count(p, B, Len(p))
  BY <1>0, <1>3, <1>5, CountUp
<1>7. Rest(p) \in Seq(Units) /\ Behind(Rest(p), p, l)
  BY <1>3, <1>4, Remainder
<1> QED BY <1>3, <1>6, <1>7 DEF l

\* readFrame: one frame, the first of the pipe.
LEMMA FrameRead ==
  ASSUME NEW p \in Seq(Units), NEW B \in {Frames, Answers}, Formed(p, B),
         FrameEnd(p) > 0, ~Malformed(SubSeq(p, 1, FrameEnd(p)))
  PROVE  /\ FrameEnd(p) \in 1..Len(p) /\ p[FrameEnd(p)] \in B
         /\ Count(p, B, FrameEnd(p)) = 1
         /\ SubSeq(p, FrameEnd(p) + 1, Len(p)) \in Seq(Units)
         /\ Behind(SubSeq(p, FrameEnd(p) + 1, Len(p)), p, FrameEnd(p))
<1> DEFINE e == FrameEnd(p)
           q == SubSeq(p, 1, e)
           s == SubSeq(p, e + 1, Len(p))
<1>0. Len(p) \in Nat /\ DOMAIN p = 1..Len(p) /\ \A i \in 1..Len(p) : p[i] \in Units
  BY LenProperties, ElementOfSeq
<1>1. Bodies(p) # {} /\ e = Min(Bodies(p))
  BY DEF FrameEnd
<1>2. Bodies(p) \in SUBSET Nat /\ Bodies(p) \subseteq 1..Len(p)
  BY <1>0 DEF Bodies
<1>3. e \in Bodies(p) /\ \A i \in Bodies(p) : e <= i
  BY <1>1, <1>2, MinIs
<1>4. e \in 1..Len(p) /\ e \in Nat
  BY <1>2, <1>3
<1>q. ~Malformed(q)
  OBVIOUS
<1> HIDE DEF e
<1>5. q \in Seq(Units) /\ Len(q) = e /\ Begins(q, p)
  BY <1>4, Start
<1>6. s \in Seq(Units) /\ Behind(s, p, e)
  BY <1>4, Remainder
<1> HIDE DEF q, s
<1>7. Formed(q, B)
  BY <1>0, <1>4, <1>5, FormedBegin
<1>8. Bodies(q) = Upto(q, B, e)
  <2>1. DOMAIN q = 1..Len(q)
    BY <1>5, LenProperties
  <2> QED BY <1>4, <1>5, <1>7, <1>q, <2>1, BodiesAre
<1>9. Bodies(q) = {e}
  <2>1. \A i \in 1..e : q[i] = p[i]
    BY <1>5 DEF Begins
  <2>2. ASSUME NEW i \in Bodies(q)
        PROVE  i = e
    <3>1. i \in 2..e /\ q[i - 1] = Blank
      BY <1>5 DEF Bodies
    <3>2. i \in 2..Len(p) /\ p[i - 1] = Blank
      BY <1>0, <1>4, <2>1, <3>1
    <3>3. e <= i
      BY <1>3, <3>2 DEF Bodies
    <3> QED BY <1>4, <3>1, <3>3
  <2>3. e \in Bodies(q)
    <3>1. e \in 2..Len(p) /\ p[e - 1] = Blank
      BY <1>3 DEF Bodies
    <3>2. e \in 2..e /\ q[e - 1] = Blank
      BY <1>4, <2>1, <3>1
    <3> QED BY <1>5, <3>2 DEF Bodies
  <2> QED BY <2>2, <2>3
<1>10. p[e] \in B
  BY <1>4, <1>5, <1>8, <1>9 DEF Upto, Begins
<1>11. Count(q, B, e) = 1
  BY <1>8, <1>9, FS_Singleton DEF Count
<1>12. Count(p, B, e) = 1
  <2>1. \A i \in 1..e : p[i] \in B <=> q[i] \in B
    BY <1>4, <1>5 DEF Begins
  <2> QED BY <1>4, <1>11, <2>1, CountSame
<1> QED BY <1>4, <1>6, <1>10, <1>12 DEF e, s

\* A chunk of n units: what the decoder sees begins the stream, and what is left is behind it.
LEMMA Joined ==
  ASSUME NEW b \in Seq(Units), NEW d \in Seq(Units)
  PROVE  /\ b \o d \in Seq(Units) /\ Len(b) \in Nat /\ Len(d) \in Nat /\ Len(b \o d) = Len(b) + Len(d)
         /\ \A i \in 1..Len(b) : (b \o d)[i] = b[i]
         /\ \A i \in 1..Len(d) : (b \o d)[Len(b) + i] = d[i]
<1> DEFINE q == b \o d
<1>1. /\ q \in Seq(Units) /\ Len(q) = Len(b) + Len(d)
      /\ \A i \in 1..Len(b) + Len(d) : q[i] = IF i <= Len(b) THEN b[i] ELSE d[i - Len(b)]
  BY ConcatProperties
<1>2. Len(b) \in Nat /\ Len(d) \in Nat
  BY LenProperties
<1> HIDE DEF q
<1>3. \A i \in 1..Len(b) : q[i] = b[i]
  BY <1>1, <1>2
<1>4. ASSUME NEW i \in 1..Len(d)
      PROVE  q[Len(b) + i] = d[i]
  <2>1. Len(b) + i \in 1..Len(b) + Len(d) /\ ~(Len(b) + i <= Len(b)) /\ (Len(b) + i) - Len(b) = i
    BY <1>2
  <2> QED BY <1>1, <2>1
<1> QED BY <1>1, <1>2, <1>3, <1>4 DEF q

\* A chunk of n units: what the decoder sees begins the stream, and what it leaves,
\* with the rest of the pipe, is behind the same units of the stream.
LEMMA Chunk ==
  ASSUME NEW b \in Seq(Units), NEW d \in Seq(Units), NEW n \in 0..Len(d)
  PROVE  Begins(b \o SubSeq(d, 1, n), b \o d)
<1> DEFINE c == SubSeq(d, 1, n)
           p == b \o c
           q == b \o d
<1>1. c \in Seq(Units) /\ Len(c) = n /\ Begins(c, d)
  BY Start
<1> HIDE DEF c
<1>2. /\ p \in Seq(Units) /\ Len(b) \in Nat /\ Len(p) = Len(b) + n
      /\ \A i \in 1..Len(b) : p[i] = b[i]
      /\ \A i \in 1..n : p[Len(b) + i] = c[i]
  BY <1>1, Joined
<1>3. /\ Len(d) \in Nat /\ Len(q) = Len(b) + Len(d)
      /\ \A i \in 1..Len(b) : q[i] = b[i]
      /\ \A i \in 1..Len(d) : q[Len(b) + i] = d[i]
  BY Joined
<1> HIDE DEF p, q
<1>4. ASSUME NEW i \in 1..Len(p)
      PROVE  q[i] = p[i]
  <2>1. CASE i <= Len(b)
    BY <1>2, <1>3, <2>1
  <2>2. CASE i > Len(b)
    <3> DEFINE j == i - Len(b)
    <3>1. j \in 1..n /\ i = Len(b) + j /\ j \in 1..Len(d)
      BY <1>2, <1>3, <2>2
    <3> HIDE DEF j
    <3>2. c[j] = d[j]
      BY <1>1, <3>1 DEF Begins
    <3> QED BY <1>2, <1>3, <3>1, <3>2
  <2> QED BY <1>2, <2>1, <2>2
<1>5. Len(p) <= Len(q)
  BY <1>2, <1>3
<1> QED BY <1>4, <1>5 DEF Begins, p, q, c

LEMMA Left ==
  ASSUME NEW b \in Seq(Units), NEW d \in Seq(Units), NEW n \in 0..Len(d),
         NEW r \in Seq(Units), NEW l \in Nat, Behind(r, b \o SubSeq(d, 1, n), l)
  PROVE  Behind(r \o SubSeq(d, n + 1, Len(d)), b \o d, l)
<1> DEFINE c == SubSeq(d, 1, n)
           t == SubSeq(d, n + 1, Len(d))
           p == b \o c
           q == b \o d
           v == r \o t
<1>1. c \in Seq(Units) /\ Len(c) = n /\ Begins(c, d)
  BY Start
<1>2. t \in Seq(Units) /\ Behind(t, d, n)
  BY Remainder
<1>3. Begins(p, q) /\ Behind(r, p, l)
  BY Chunk
<1> HIDE DEF c, t
<1>4. Len(b) \in Nat /\ Len(p) = Len(b) + n
  BY <1>1, Joined
<1>5. /\ Len(d) \in Nat /\ Len(q) = Len(b) + Len(d)
      /\ \A i \in 1..Len(d) : q[Len(b) + i] = d[i]
  BY Joined
<1>6. /\ v \in Seq(Units) /\ Len(r) \in Nat /\ Len(t) \in Nat /\ Len(v) = Len(r) + Len(t)
      /\ \A i \in 1..Len(r) : v[i] = r[i]
      /\ \A i \in 1..Len(t) : v[Len(r) + i] = t[i]
  BY <1>2, Joined
<1> HIDE DEF p, q, v
<1>7. Len(b) + n = l + Len(r) /\ Len(d) = n + Len(t) /\ n \in Nat
  BY <1>2, <1>3, <1>4, <1>5 DEF Behind
<1>s. Len(b) \in Nat /\ Len(d) \in Nat /\ Len(r) \in Nat /\ Len(t) \in Nat
  BY <1>4, <1>5, <1>6
<1>8. Len(q) = l + Len(v)
  <2>1. Len(q) = Len(b) + Len(d) /\ Len(v) = Len(r) + Len(t)
    BY <1>5, <1>6
  <2> DEFINE lb == Len(b)
             ld == Len(d)
             lr == Len(r)
             lt == Len(t)
  <2>2. /\ lb \in Nat /\ ld \in Nat /\ lr \in Nat /\ lt \in Nat /\ n \in Nat
        /\ lb + n = l + lr /\ ld = n + lt
    BY <1>s, <1>7
  <2> HIDE DEF lb, ld, lr, lt
  <2>3. lb + ld = l + (lr + lt)
    BY <2>2
  <2> QED BY <2>1, <2>3 DEF lb, ld, lr, lt
<1>9. ASSUME NEW i \in 1..Len(v)
      PROVE  v[i] = q[l + i]
  <2>1. CASE i <= Len(r)
    <3>1. i \in 1..Len(r) /\ l + i \in 1..Len(p)
      BY <1>4, <1>6, <1>7, <2>1
    <3>2. r[i] = p[l + i] /\ p[l + i] = q[l + i]
      BY <1>3, <3>1 DEF Behind, Begins
    <3> QED BY <1>6, <3>1, <3>2
  <2>2. CASE i > Len(r)
    <3> DEFINE j == i - Len(r)
    <3>1. j \in 1..Len(t) /\ i = Len(r) + j
      BY <1>6, <2>2
    <3> HIDE DEF j
    <3>2. t[j] = d[n + j]
      BY <1>2, <3>1 DEF Behind
    <3>3. n + j \in 1..Len(d) /\ l + i = Len(b) + (n + j)
      <4> DEFINE lb == Len(b)
                 ld == Len(d)
                 lr == Len(r)
                 lt == Len(t)
      <4>1. /\ lb \in Nat /\ ld \in Nat /\ lr \in Nat /\ lt \in Nat /\ n \in Nat
            /\ lb + n = l + lr /\ ld = n + lt /\ j \in 1..lt /\ i = lr + j
        BY <1>s, <1>7, <3>1
      <4> HIDE DEF lb, ld, lr, lt
      <4>2. n + j \in 1..ld /\ l + i = lb + (n + j)
        BY <4>1
      <4> QED BY <4>2 DEF lb, ld
    <3> QED BY <1>5, <1>6, <3>1, <3>2, <3>3
  <2> QED BY <1>6, <2>1, <2>2
<1> QED BY <1>8, <1>9 DEF Behind, v, t, q

-----------------------------------------------------------------------------
(* Writes to a pipe, and chunks of it. *)

LEMMA AddedOne ==
  ASSUME NEW b \in Seq(Units), NEW d \in Seq(Units), NEW x \in Units
  PROVE  Append(d, x) \in Seq(Units) /\ b \o Append(d, x) = Append(b \o d, x)
<1>1. <<x>> \in Seq(Units)
  OBVIOUS
<1>2. Append(d, x) = d \o <<x>> /\ d \o <<x>> \in Seq(Units)
  BY <1>1, AppendIsConcat, ConcatProperties
<1>3. b \o d \in Seq(Units) /\ Append(b \o d, x) = (b \o d) \o <<x>>
  BY AppendIsConcat, ConcatProperties
<1>4. (b \o d) \o <<x>> = b \o (d \o <<x>>)
  BY <1>1, ConcatAssociative
<1> QED BY <1>2, <1>3, <1>4

LEMMA AddedTwo ==
  ASSUME NEW d \in Seq(Units), NEW x \in Units, NEW y \in Units
  PROVE  d \o <<x, y>> = Append(Append(d, x), y)
<1>1. <<x>> \in Seq(Units) /\ <<y>> \in Seq(Units)
  OBVIOUS
<1>s. <<x, y>> = <<x>> \o <<y>>
  <2>1. <<x, y>> = Append(<<x>>, y)
    OBVIOUS
  <2> QED BY <1>1, <2>1, AppendIsConcat
<1>2. d \o <<x, y>> = (d \o <<x>>) \o <<y>>
  BY <1>1, <1>s, ConcatAssociative
<1>3. Append(d, x) = d \o <<x>> /\ d \o <<x>> \in Seq(Units)
  BY <1>1, AppendIsConcat, ConcatProperties
<1>4. Append(Append(d, x), y) = (d \o <<x>>) \o <<y>>
  BY <1>3, AppendIsConcat
<1> QED BY <1>2, <1>4

LEMMA AddedThree ==
  ASSUME NEW d \in Seq(Units), NEW x \in Units, NEW y \in Units, NEW z \in Units
  PROVE  d \o <<x, y, z>> = Append(Append(Append(d, x), y), z)
<1>1. <<x, y>> \in Seq(Units) /\ <<z>> \in Seq(Units)
  OBVIOUS
<1>s. <<x, y, z>> = <<x, y>> \o <<z>>
  OBVIOUS
<1>a. d \o (<<x, y>> \o <<z>>) = (d \o <<x, y>>) \o <<z>>
  BY <1>1, ConcatAssociative
<1>t. d \o <<x, y, z>> = (d \o <<x, y>>) \o <<z>>
  BY <1>s, <1>a
<1>2. d \o <<x, y, z>> = (d \o <<x, y>>) \o <<z>> /\ d \o <<x, y>> \in Seq(Units)
  BY <1>1, <1>t, ConcatProperties
<1>3. Append(d \o <<x, y>>, z) = (d \o <<x, y>>) \o <<z>>
  BY <1>2, AppendIsConcat
<1> QED BY <1>2, <1>3, AddedTwo

\* Lines added carry nothing more.
LEMMA LineCarries ==
  ASSUME NEW p \in Seq(Units), NEW x \in Lines, NEW B \in {Frames, Answers}, NEW w, NEW g \in Nat,
         Carries(p, B, w, g)
  PROVE  /\ Append(p, x) \in Seq(Units)
         /\ Carries(Append(p, x), B, w, g)
         /\ Count(Append(p, x), B, Len(Append(p, x))) = Count(p, B, Len(p))
<1> DEFINE q == Append(p, x)
<1>1. x \in Units /\ x \notin B
  BY Apart DEF Lines, Units
<1>2. q \in Seq(Units) /\ Longer(q, p, 1) /\ Len(p) \in Nat /\ Len(q) = Len(p) + 1 /\ q[Len(q)] = x
  BY <1>1, AppendLonger
<1> HIDE DEF q
<1>3. \A i \in Len(p) + 1..Len(q) : q[i] \notin B
  BY <1>1, <1>2
<1>4. Carries(q, B, w, g) /\ Count(q, B, Len(q)) = Count(p, B, Len(p))
  BY <1>2, <1>3, CarriesLonger
<1> QED BY <1>2, <1>4 DEF q

\* A body added is carried, if it is the next of the frames.
LEMMA BodyCarries ==
  ASSUME NEW p \in Seq(Units), NEW B \in {Frames, Answers}, NEW x \in B, NEW w, NEW v, NEW g \in Nat,
         Len(w) \in Nat, Len(v) \in Nat, Carries(p, B, w, g),
         \A i \in 1..Len(w) : v[i] = w[i], Len(w) <= Len(v),
         g + Count(p, B, Len(p)) < Len(v), v[g + Count(p, B, Len(p)) + 1] = x
  PROVE  /\ Append(p, x) \in Seq(Units)
         /\ Carries(Append(p, x), B, v, g)
         /\ Count(Append(p, x), B, Len(Append(p, x))) = Count(p, B, Len(p)) + 1
<1> DEFINE q == Append(p, x)
<1>1. x \in Units
  BY DEF Units
<1>2. q \in Seq(Units) /\ Longer(q, p, 1) /\ Len(p) \in Nat /\ Len(q) = Len(p) + 1 /\ q[Len(q)] = x
  BY <1>1, AppendLonger
<1> HIDE DEF q
<1>3. q[Len(q)] \in B /\ v[g + Count(p, B, Len(p)) + 1] = q[Len(q)]
  BY <1>2
<1>4. Carries(q, B, v, g) /\ Count(q, B, Len(q)) = Count(p, B, Len(p)) + 1
  BY <1>2, <1>3, CarriesBody
<1> QED BY <1>2, <1>4 DEF q

\* A header added to a pipe that has none at its end.
LEMMA HeaderAdded ==
  ASSUME NEW p \in Seq(Units), NEW B \in {Frames, Answers}, NEW w, NEW g \in Nat,
         Formed(p, B), Shut(p), Carries(p, B, w, g)
  PROVE  LET q == Append(Append(p, Length), Blank)
         IN  /\ q \in Seq(Units) /\ Formed(q, B) /\ Open(q)
             /\ Carries(q, B, w, g) /\ Count(q, B, Len(q)) = Count(p, B, Len(p))
<1> DEFINE h == Append(p, Length)
<1>1. Length \in Lines /\ Blank \in Lines /\ Length \in Units
  BY DEF Lines, Units
<1>2. Formed(h, B) /\ ~Open(h)
  BY AddLength
<1>3. /\ h \in Seq(Units) /\ Carries(h, B, w, g)
      /\ Count(h, B, Len(h)) = Count(p, B, Len(p))
  BY <1>1, LineCarries
<1>4. Len(h) > 0 /\ h[Len(h)] = Length
  BY <1>1, AppendLonger
<1> HIDE DEF h
<1>5. Formed(Append(h, Blank), B) /\ Open(Append(h, Blank))
  BY <1>2, <1>3, <1>4, AddBlank
<1> QED BY <1>1, <1>3, <1>5, LineCarries DEF h

LEMMA StrayAdded ==
  ASSUME NEW p \in Seq(Units), NEW B \in {Frames, Answers}, NEW w, NEW g \in Nat,
         Formed(p, B), Shut(p), Carries(p, B, w, g),
         NEW q \in {Append(p, StrayLine), Append(Append(p, StrayLine), Blank)}
  PROVE  /\ q \in Seq(Units) /\ Formed(q, B) /\ Shut(q)
         /\ Carries(q, B, w, g) /\ Count(q, B, Len(q)) = Count(p, B, Len(p))
<1> DEFINE h == Append(p, StrayLine)
<1>1. StrayLine \in Lines /\ Blank \in Lines /\ StrayLine \in Units
  BY DEF Lines, Units
<1>2. Formed(h, B) /\ Shut(h)
  BY AddStray
<1>3. /\ h \in Seq(Units) /\ Carries(h, B, w, g)
      /\ Count(h, B, Len(h)) = Count(p, B, Len(p))
  BY <1>1, LineCarries
<1>4. Len(h) > 0 /\ h[Len(h)] = StrayLine
  BY <1>1, AppendLonger
<1> HIDE DEF h
<1>5. ~Open(h)
  BY <1>4, Apart DEF Open
<1>6. Formed(Append(h, Blank), B) /\ Shut(Append(h, Blank))
  BY <1>2, <1>3, <1>4, <1>5, AddBlank
<1>7. /\ Append(h, Blank) \in Seq(Units) /\ Carries(Append(h, Blank), B, w, g)
      /\ Count(Append(h, Blank), B, Len(Append(h, Blank))) = Count(h, B, Len(h))
  BY <1>1, <1>3, LineCarries
<1> QED BY <1>2, <1>3, <1>6, <1>7 DEF h

\* What a chunk does to the stream.
LEMMA ChunkTaken ==
  ASSUME NEW b \in Seq(Units), NEW d \in Seq(Units), NEW n \in 1..Len(d), NEW B \in {Frames, Answers},
         NEW w, Len(w) \in Nat, NEW g \in Nat,
         Formed(b \o d, B), Carries(b \o d, B, w, g), ~Malformed(b \o SubSeq(d, 1, n))
  PROVE  LET D == Drained(b \o SubSeq(d, 1, n))
             rest == Rest(b \o SubSeq(d, 1, n))
             q == rest \o SubSeq(d, n + 1, Len(d))
         IN  /\ D \in Seq(B) /\ \A k \in 1..Len(D) : D[k] = w[g + k]
             /\ Len(D) \in Nat /\ g + Len(D) <= Len(w)
             /\ rest \in Seq(Units) /\ SubSeq(d, n + 1, Len(d)) \in Seq(Units)
             /\ Formed(q, B) /\ (Open(b \o d) => Open(q)) /\ (Shut(b \o d) => Shut(q))
             /\ Carries(q, B, w, g + Len(D))
             /\ Count(b \o d, B, Len(b \o d)) = Len(D) + Count(q, B, Len(q))
<1> DEFINE c == SubSeq(d, 1, n)
           p == b \o c
           P == b \o d
           D == Drained(p)
           rest == Rest(p)
           t == SubSeq(d, n + 1, Len(d))
           q == rest \o t
           l == LastBody(p, Len(p) + 1)
<1>1. n \in 0..Len(d)
  OBVIOUS
<1>2. c \in Seq(Units) /\ t \in Seq(Units) /\ Begins(p, P)
  BY <1>1, Start, Remainder, Chunk
<1>3. p \in Seq(Units) /\ P \in Seq(Units)
  BY <1>2, ConcatProperties
<1>4. /\ Len(p) \in Nat /\ DOMAIN p = 1..Len(p) /\ Len(P) \in Nat
  BY <1>3, LenProperties
<1> HIDE DEF p, P, c, t
<1>5. Formed(p, B)
  BY <1>2, <1>4, FormedBegin DEF P
<1>6. ~Malformed(p)
  BY DEF p, c
<1>7. /\ l \in 0..Len(p) /\ (l = 0 \/ p[l] \in B)
      /\ Count(p, B, l) = Count(p, B, Len(p))
      /\ rest \in Seq(Units) /\ Behind(rest, p, l)
  BY <1>3, <1>5, <1>6, RestIs
<1> HIDE DEF l, rest
<1>8. q \in Seq(Units) /\ Len(q) \in Nat
  BY <1>2, <1>7, ConcatProperties, LenProperties
<1>9. Behind(q, P, l)
  BY <1>1, <1>7, Left DEF q, P, p, c, t
<1>10. \A i \in 0..Len(p) : Count(P, B, i) = Count(p, B, i)
  <2> TAKE i \in 0..Len(p)
  <2>1. \A k \in 1..i : P[k] \in B <=> p[k] \in B
    BY <1>2, <1>4 DEF Begins
  <2> QED BY <2>1, CountSame
<1>11. l \in Nat /\ (l = 0 \/ P[l] \in B)
  BY <1>2, <1>4, <1>7 DEF Begins
<1>12. \A x \in B : x \notin Lines
  BY Apart
<1> HIDE DEF q
<1>13. Formed(q, B) /\ (Open(P) => Open(q)) /\ (Shut(P) => Shut(q))
  BY <1>4, <1>8, <1>9, <1>11, <1>12, FormedBehind DEF P
<1>14. /\ Carries(q, B, w, g + Count(P, B, l))
       /\ Count(P, B, Len(P)) = Count(P, B, l) + Count(q, B, Len(q))
  <2>1. Carries(P, B, w, g)
    BY DEF P
  <2> QED BY <1>4, <1>8, <1>9, <1>11, <2>1, CarriesBehind
<1>15. Count(P, B, l) = Count(p, B, Len(p))
  BY <1>7, <1>10
<1>16. Carries(p, B, w, g)
  <2>1. Count(P, B, Len(p)) <= Count(P, B, Len(P)) /\ Count(P, B, Len(p)) \in Nat /\ Count(P, B, Len(P)) \in Nat
    BY <1>2, <1>4, CountUp, CountNat DEF Begins
  <2>2. Carries(P, B, w, g)
    BY DEF P
  <2>3. g + Count(p, B, Len(p)) <= Len(w)
    <3>1. Count(p, B, Len(p)) = Count(P, B, Len(p))
      BY <1>4, <1>10
    <3> QED BY <2>1, <2>2, <3>1 DEF Carries
  <2>4. ASSUME NEW i \in 1..Len(p), p[i] \in B
        PROVE  p[i] = w[g + Count(p, B, i)]
    <3>1. P[i] = p[i] /\ i \in 1..Len(P) /\ Count(P, B, i) = Count(p, B, i)
      BY <1>2, <1>4, <1>10 DEF Begins
    <3> QED BY <2>2, <2>4, <3>1 DEF Carries
  <2> QED BY <2>3, <2>4 DEF Carries
<1> HIDE DEF D
<1>17. D \in Seq(B) /\ Len(D) = Count(p, B, Len(p)) /\ \A k \in 1..Len(D) : D[k] = w[g + k]
  <2>1. Formed(p, B) /\ ~Malformed(p) /\ Carries(p, B, w, g)
    BY <1>5, <1>6, <1>16
  <2>2. /\ Drained(p) \in Seq(B)
        /\ Len(Drained(p)) = Count(p, B, Len(p))
        /\ \A k \in 1..Len(Drained(p)) : Drained(p)[k] = w[g + k]
    BY <1>4, <2>1, DrainedIs
  <2> QED BY <2>2 DEF D
<1>18. Len(D) \in Nat /\ g + Len(D) <= Len(w)
  BY <1>4, <1>16, <1>17, CountNat DEF Carries
<1> QED BY <1>2, <1>7, <1>13, <1>14, <1>15, <1>17, <1>18 DEF P, p, c, t, q, rest, D

-----------------------------------------------------------------------------
(* The invariant. *)

\* What the agent has not yet decoded: every frame written and not got.
Stream == buffer \o down
Down ==
  peer => /\ Formed(Stream, Frames)
          /\ Carries(Stream, Frames, written, Len(got))
          /\ Len(got) + Count(Stream, Frames, Len(Stream)) = Len(written)
          /\ ~downEnds => IF writeLock THEN Open(Stream) ELSE Shut(Stream)
\* One thread writes a frame at a time.
Locked ==
  /\ \A f \in Frames : writer[f] = "header" => writeLock
  /\ \A f, g \in Frames : writer[f] = "header" /\ writer[g] = "header" => f = g
\* FramesWhole of the way down.
GotWritten == Len(got) <= Len(written) /\ \A i \in 1..Len(got) : got[i] = written[i]
\* The pipe to the plugin, which is written a frame at a time.
Up == Formed(up, Answers) /\ Shut(up)
\* The reader holds a frame between readFrame and the handler.
HandFull == reader \in {"read", "checked"}
InHand ==
  /\ opener \in {"new", "installed"} => reader = "none"
  /\ HandFull => hand[1] \in Answers
\* How many answers have left the pipe for the handler.
Ahead == IF HandFull THEN Len(heard) + 1 ELSE Len(heard)
\* The handler is there, or still to be installed, and the reader does not leave.
Listening == reader \notin {"leaving", "over"} /\ (incoming \/ opener = "new")
\* Behind what was heard come the answer in the reader's hand, those in the pipe and
\* those in writeChain.
Back ==
  Listening =>
    /\ HandFull => Len(heard) < Len(answered) /\ hand[1] = answered[Len(heard) + 1]
    /\ Carries(up, Answers, answered, Ahead)
    /\ peer /\ ~upEnds =>
         /\ Ahead + Count(up, Answers, Len(up)) + Len(chain) = Len(answered)
         /\ \A k \in 1..Len(chain) : chain[k] = answered[Ahead + Count(up, Answers, Len(up)) + k]
\* FramesWhole of the way up.
HeardAnswered == Len(heard) <= Len(answered) /\ \A i \in 1..Len(heard) : heard[i] = answered[i]
\* A frame read when the transport was closed meets the second look at closed.
Closing ==
  /\ reader = "read" /\ hand[2] => closed
  /\ reader = "checked" => ~hand[2]
  /\ late = {}
\* What the peer got of a request, and its job.
Cancelled ==
  \A r \in Requests :
    /\ Contains(got, <<"request", r>>) => job[r] # "none"
    /\ Precedes(<<"request", r>>, <<"cancel", r>>, got) => job[r] # "running"

\* TypeOK in parts.
TypePipes ==
  /\ down \in Seq(Units) /\ up \in Seq(Units)
  /\ downEnds \in BOOLEAN /\ upEnds \in BOOLEAN
  /\ strays \in 0..MaxStray
TypeThreads ==
  /\ opener \in {"new", "installed", "starting", "live", "open"}
  /\ writer \in [Frames -> {"idle", "entering", "header", "sent", "failed"}]
  /\ writeLock \in BOOLEAN
  /\ reader \in {"none", "looping", "reading", "read", "checked", "leaving", "over"}
  /\ hand \in (Answers \cup {Nil}) \X BOOLEAN
TypeFlags ==
  /\ closed \in BOOLEAN /\ incoming \in BOOLEAN /\ closeHandler \in BOOLEAN
  /\ marking \in {"no", "won", "dropped", "done"}
  /\ session \in {"none", "open", "closed"}
TypeHistory ==
  written \in Seq(Frames) /\ heard \in Seq(Answers) /\ late \subseteq Answers
TypeAgent ==
  /\ buffer \in Seq(Units)
  /\ peer \in BOOLEAN
  /\ job \in [Requests -> {"none", "running", "aborted", "done"}]
  /\ chain \in Seq(Answers) /\ full \in BOOLEAN
  /\ got \in Seq(Frames) /\ answered \in Seq(Answers)

LEMMA TypeParts ==
  /\ TypeOK <=> TypePipes /\ TypeThreads /\ TypeFlags /\ TypeHistory /\ TypeAgent
  /\ TypeOK' <=> TypePipes' /\ TypeThreads' /\ TypeFlags' /\ TypeHistory' /\ TypeAgent'
<1>1. TypeOK <=> TypePipes /\ TypeThreads /\ TypeFlags /\ TypeHistory /\ TypeAgent
  BY Zenon DEF TypeOK, TypePipes, TypeThreads, TypeFlags, TypeHistory, TypeAgent
<1>2. TypeOK' <=> TypePipes' /\ TypeThreads' /\ TypeFlags' /\ TypeHistory' /\ TypeAgent'
  BY Zenon DEF TypeOK, TypePipes, TypeThreads, TypeFlags, TypeHistory, TypeAgent
<1> QED BY <1>1, <1>2, Zenon

-----------------------------------------------------------------------------
(* Every step keeps it. *)

\* What a chunk that is not malformed does to the stream.
LEMMA TakenDown ==
  ASSUME TypePipes, TypeHistory, TypeAgent, Down, peer,
         NEW n \in 1..Len(down), ~Malformed(buffer \o SubSeq(down, 1, n))
  PROVE  LET D == Drained(buffer \o SubSeq(down, 1, n))
             rest == Rest(buffer \o SubSeq(down, 1, n))
             q == rest \o SubSeq(down, n + 1, Len(down))
         IN  /\ D \in Seq(Frames) /\ \A k \in 1..Len(D) : D[k] = written[Len(got) + k]
             /\ Len(D) \in Nat /\ Len(got) + Len(D) <= Len(written)
             /\ rest \in Seq(Units) /\ SubSeq(down, n + 1, Len(down)) \in Seq(Units)
             /\ Formed(q, Frames) /\ (Open(Stream) => Open(q)) /\ (Shut(Stream) => Shut(q))
             /\ Carries(q, Frames, written, Len(got) + Len(D))
             /\ Count(Stream, Frames, Len(Stream)) = Len(D) + Count(q, Frames, Len(q))
<1>1. /\ buffer \in Seq(Units) /\ down \in Seq(Units)
      /\ Len(written) \in Nat /\ Len(got) \in Nat
  BY LenProperties DEF TypePipes, TypeHistory, TypeAgent
<1>2. Formed(buffer \o down, Frames) /\ Carries(buffer \o down, Frames, written, Len(got))
  BY DEF Down, Stream
<1> QED BY <1>1, <1>2, ChunkTaken DEF Stream

LEMMA TypeStep ==
  ASSUME TypeOK, Down, Up, InHand, [Next]_vars
  PROVE  TypeOK'
<1>t. TypePipes /\ TypeThreads /\ TypeFlags /\ TypeHistory /\ TypeAgent
  BY TypeParts
<1>0. CASE UNCHANGED vars
  BY <1>t, <1>0, TypeParts DEF vars, pipes, host, agent, flags, TypePipes, TypeThreads,
     TypeFlags, TypeHistory,
     TypeAgent
<1>1. CASE DropIncoming
  <2>1. TypePipes'
    BY <1>t, <1>1 DEF TypePipes, DropIncoming, pipes
  <2>2. TypeThreads'
    BY <1>t, <1>1 DEF TypeThreads, DropIncoming, host
  <2>3. TypeFlags'
    BY <1>t, <1>1 DEF TypeFlags, DropIncoming, host, flags, MarkClosed
  <2>4. TypeHistory'
    BY <1>t, <1>1 DEF TypeHistory, DropIncoming, host
  <2>5. TypeAgent'
    BY <1>t, <1>1 DEF TypeAgent, DropIncoming, agent
  <2> QED BY <2>1, <2>2, <2>3, <2>4, <2>5, TypeParts
<1>2. CASE Notify
  <2>1. TypePipes'
    BY <1>t, <1>2 DEF TypePipes, Notify, pipes
  <2>2. TypeThreads'
    BY <1>t, <1>2 DEF TypeThreads, Notify, host
  <2>3. TypeFlags'
    BY <1>t, <1>2 DEF TypeFlags, Notify, host, flags, MarkClosed
  <2>4. TypeHistory'
    BY <1>t, <1>2 DEF TypeHistory, Notify, host
  <2>5. TypeAgent'
    BY <1>t, <1>2 DEF TypeAgent, Notify, agent
  <2> QED BY <2>1, <2>2, <2>3, <2>4, <2>5, TypeParts
<1>3. CASE Install
  <2>1. TypePipes'
    BY <1>t, <1>3 DEF TypePipes, Install, pipes
  <2>2. TypeThreads'
    BY <1>t, <1>3 DEF TypeThreads, Install, host
  <2>3. TypeFlags'
    BY <1>t, <1>3 DEF TypeFlags, Install, host, flags, MarkClosed
  <2>4. TypeHistory'
    BY <1>t, <1>3 DEF TypeHistory, Install, host
  <2>5. TypeAgent'
    BY <1>t, <1>3 DEF TypeAgent, Install, agent
  <2> QED BY <2>1, <2>2, <2>3, <2>4, <2>5, TypeParts
<1>4. CASE StartReader
  <2>1. TypePipes'
    BY <1>t, <1>4 DEF TypePipes, StartReader, pipes
  <2>2. TypeThreads'
    BY <1>t, <1>4 DEF TypeThreads, StartReader, host
  <2>3. TypeFlags'
    BY <1>t, <1>4 DEF TypeFlags, StartReader, host, flags, MarkClosed
  <2>4. TypeHistory'
    BY <1>t, <1>4 DEF TypeHistory, StartReader, host
  <2>5. TypeAgent'
    BY <1>t, <1>4 DEF TypeAgent, StartReader, agent
  <2> QED BY <2>1, <2>2, <2>3, <2>4, <2>5, TypeParts
<1>5. CASE OpenSession
  <2>1. TypePipes'
    BY <1>t, <1>5 DEF TypePipes, OpenSession, pipes
  <2>2. TypeThreads'
    BY <1>t, <1>5 DEF TypeThreads, OpenSession, host
  <2>3. TypeFlags'
    BY <1>t, <1>5 DEF TypeFlags, OpenSession, host, flags, MarkClosed
  <2>4. TypeHistory'
    BY <1>t, <1>5 DEF TypeHistory, OpenSession, host
  <2>5. TypeAgent'
    BY <1>t, <1>5 DEF TypeAgent, OpenSession, agent
  <2> QED BY <2>1, <2>2, <2>3, <2>4, <2>5, TypeParts
<1>6. CASE CloseSession
  <2>1. TypePipes'
    BY <1>t, <1>6 DEF TypePipes, CloseSession, pipes
  <2>2. TypeThreads'
    BY <1>t, <1>6 DEF TypeThreads, CloseSession, host
  <2>3. TypeFlags'
    BY <1>t, <1>6 DEF TypeFlags, CloseSession, host, flags, MarkClosed
  <2>4. TypeHistory'
    BY <1>t, <1>6 DEF TypeHistory, CloseSession, host
  <2>5. TypeAgent'
    BY <1>t, <1>6 DEF TypeAgent, CloseSession, agent
  <2> QED BY <2>1, <2>2, <2>3, <2>4, <2>5, TypeParts
<1>7. CASE Close
  <2>1. TypePipes'
    BY <1>t, <1>7 DEF TypePipes, Close, pipes
  <2>2. TypeThreads'
    BY <1>t, <1>7 DEF TypeThreads, Close, host
  <2>3. TypeFlags'
    BY <1>t, <1>7 DEF TypeFlags, Close, host, flags, MarkClosed
  <2>4. TypeHistory'
    BY <1>t, <1>7 DEF TypeHistory, Close, host
  <2>5. TypeAgent'
    BY <1>t, <1>7 DEF TypeAgent, Close, agent
  <2> QED BY <2>1, <2>2, <2>3, <2>4, <2>5, TypeParts
<1>8. ASSUME NEW f \in Frames, Enter(f)
      PROVE  TypeOK'
  <2>1. TypePipes'
    BY <1>t, <1>8 DEF TypePipes, Enter, pipes
  <2>2. TypeThreads'
    BY <1>t, <1>8 DEF TypeThreads, Enter, host
  <2>3. TypeFlags'
    BY <1>t, <1>8 DEF TypeFlags, Enter, host, flags, MarkClosed
  <2>4. TypeHistory'
    BY <1>t, <1>8 DEF TypeHistory, Enter, host
  <2>5. TypeAgent'
    BY <1>t, <1>8 DEF TypeAgent, Enter, agent
  <2> QED BY <2>1, <2>2, <2>3, <2>4, <2>5, TypeParts
<1>9. ASSUME NEW f \in Frames, TakeLock(f)
      PROVE  TypeOK'
  <2>a. down \o <<Length, Blank>> \in Seq(Units)
    <3>1. <<Length, Blank>> \in Seq(Units)
      BY DEF Units
    <3> QED BY <1>t, <3>1, ConcatProperties DEF TypePipes
  <2>1. TypePipes'
    BY <1>t, <1>9, <2>a DEF TypePipes, TakeLock, pipes
  <2>2. TypeThreads'
    BY <1>t, <1>9 DEF TypeThreads, TakeLock, host
  <2>3. TypeFlags'
    BY <1>t, <1>9 DEF TypeFlags, TakeLock, host, flags, MarkClosed
  <2>4. TypeHistory'
    BY <1>t, <1>9 DEF TypeHistory, TakeLock, host
  <2>5. TypeAgent'
    BY <1>t, <1>9 DEF TypeAgent, TakeLock, agent
  <2> QED BY <2>1, <2>2, <2>3, <2>4, <2>5, TypeParts
<1>10. ASSUME NEW f \in Frames, WriteBody(f)
      PROVE  TypeOK'
  <2>a. Append(down, f) \in Seq(Units)
    BY <1>t, AppendLonger DEF TypePipes, Units
  <2>b. Append(written, f) \in Seq(Frames)
    BY <1>t DEF TypeHistory
  <2>1. TypePipes'
    BY <1>t, <1>10, <2>a DEF TypePipes, WriteBody, pipes
  <2>2. TypeThreads'
    BY <1>t, <1>10 DEF TypeThreads, WriteBody, host
  <2>3. TypeFlags'
    BY <1>t, <1>10 DEF TypeFlags, WriteBody, host, flags, MarkClosed
  <2>4. TypeHistory'
    BY <1>t, <1>10, <2>b DEF TypeHistory, WriteBody, host
  <2>5. TypeAgent'
    BY <1>t, <1>10 DEF TypeAgent, WriteBody, agent
  <2> QED BY <2>1, <2>2, <2>3, <2>4, <2>5, TypeParts
<1>11. CASE Loop
  <2>1. TypePipes'
    BY <1>t, <1>11 DEF TypePipes, Loop, pipes
  <2>2. TypeThreads'
    BY <1>t, <1>11 DEF TypeThreads, Loop, host
  <2>3. TypeFlags'
    BY <1>t, <1>11 DEF TypeFlags, Loop, host, flags, MarkClosed
  <2>4. TypeHistory'
    BY <1>t, <1>11 DEF TypeHistory, Loop, host
  <2>5. TypeAgent'
    BY <1>t, <1>11 DEF TypeAgent, Loop, agent
  <2> QED BY <2>1, <2>2, <2>3, <2>4, <2>5, TypeParts
<1>12. CASE ReadFrame
  <2>0. UNCHANGED <<down, downEnds, upEnds, strays, opener, writer, writeLock>>
    BY <1>12 DEF ReadFrame
  <2>c. TypePipes' /\ TypeThreads'
    <3>1. CASE /\ FrameEnd(up) > 0 /\ ~Malformed(SubSeq(up, 1, FrameEnd(up)))
               /\ hand' = <<up[FrameEnd(up)], closed>>
               /\ up' = SubSeq(up, FrameEnd(up) + 1, Len(up))
               /\ reader' = "read"
      <4>1. up[FrameEnd(up)] \in Answers /\ up' \in Seq(Units)
        BY <1>t, <3>1, FrameRead DEF TypePipes, Up
      <4>2. TypePipes'
        BY <1>t, <2>0, <4>1 DEF TypePipes
      <4>3. hand' \in (Answers \cup {Nil}) \X BOOLEAN
        BY <1>t, <3>1, <4>1 DEF TypeFlags
      <4> QED BY <1>t, <2>0, <3>1, <4>2, <4>3 DEF TypeThreads
    <3>2. CASE reader' = "leaving" /\ UNCHANGED <<hand, up>>
      BY <1>t, <2>0, <3>2 DEF TypePipes, TypeThreads
    <3> QED BY <1>12, <3>1, <3>2 DEF ReadFrame
  <2>1. TypePipes'
    BY <2>c
  <2>2. TypeThreads'
    BY <2>c
  <2>3. TypeFlags'
    BY <1>t, <1>12 DEF TypeFlags, ReadFrame, host, flags, MarkClosed
  <2>4. TypeHistory'
    BY <1>t, <1>12 DEF TypeHistory, ReadFrame, host
  <2>5. TypeAgent'
    BY <1>t, <1>12 DEF TypeAgent, ReadFrame, agent
  <2> QED BY <2>1, <2>2, <2>3, <2>4, <2>5, TypeParts
<1>13. CASE Recheck
  <2>1. TypePipes'
    BY <1>t, <1>13 DEF TypePipes, Recheck, pipes
  <2>2. TypeThreads'
    BY <1>t, <1>13 DEF TypeThreads, Recheck, host
  <2>3. TypeFlags'
    BY <1>t, <1>13 DEF TypeFlags, Recheck, host, flags, MarkClosed
  <2>4. TypeHistory'
    BY <1>t, <1>13 DEF TypeHistory, Recheck, host
  <2>5. TypeAgent'
    BY <1>t, <1>13 DEF TypeAgent, Recheck, agent
  <2> QED BY <2>1, <2>2, <2>3, <2>4, <2>5, TypeParts
<1>14. CASE Deliver
  <2>a. hand[1] \in Answers
    BY <1>14 DEF InHand, HandFull, Deliver
  <2>b. Append(heard, hand[1]) \in Seq(Answers)
    BY <1>t, <2>a DEF TypeHistory
  <2>1. TypePipes'
    BY <1>t, <1>14 DEF TypePipes, Deliver, pipes
  <2>2. TypeThreads'
    BY <1>t, <1>14 DEF TypeThreads, Deliver, host
  <2>3. TypeFlags'
    BY <1>t, <1>14 DEF TypeFlags, Deliver, host, flags, MarkClosed
  <2>4. TypeHistory'
    BY <1>t, <1>14, <2>a, <2>b DEF TypeHistory, Deliver, host
  <2>5. TypeAgent'
    BY <1>t, <1>14 DEF TypeAgent, Deliver, agent
  <2> QED BY <2>1, <2>2, <2>3, <2>4, <2>5, TypeParts
<1>15. CASE Leave
  <2>1. TypePipes'
    BY <1>t, <1>15 DEF TypePipes, Leave, pipes
  <2>2. TypeThreads'
    BY <1>t, <1>15 DEF TypeThreads, Leave, host
  <2>3. TypeFlags'
    BY <1>t, <1>15 DEF TypeFlags, Leave, host, flags, MarkClosed
  <2>4. TypeHistory'
    BY <1>t, <1>15 DEF TypeHistory, Leave, host
  <2>5. TypeAgent'
    BY <1>t, <1>15 DEF TypeAgent, Leave, agent
  <2> QED BY <2>1, <2>2, <2>3, <2>4, <2>5, TypeParts
<1>16. CASE OnData
  <2> PICK n \in DOMAIN down :
         LET p == buffer \o SubSeq(down, 1, n)
         IN /\ down' = SubSeq(down, n + 1, Len(down))
            /\ IF Malformed(p)
               THEN peer' = FALSE /\ job' = Aborted(job) /\ UNCHANGED <<buffer, got>>
               ELSE /\ buffer' = Rest(p)
                    /\ got' = got \o Drained(p)
                    /\ job' = Dispatched(Drained(p))
                    /\ UNCHANGED peer
    BY <1>16 DEF OnData
  <2> DEFINE p == buffer \o SubSeq(down, 1, n)
  <2>0. n \in 1..Len(down) /\ buffer \in Seq(Units) /\ down \in Seq(Units)
    BY <1>t, LenProperties DEF TypePipes, TypeAgent
  <2>a. down' \in Seq(Units)
    <3>1. n \in 0..Len(down)
      BY <2>0
    <3> QED BY <2>0, <3>1, Remainder
  <2>b. job' \in [Requests -> {"none", "running", "aborted", "done"}]
    BY <1>t DEF TypeAgent, Aborted, Dispatched
  <2>c. buffer' \in Seq(Units) /\ got' \in Seq(Frames) /\ peer' \in BOOLEAN
    <3>1. CASE Malformed(p)
      BY <1>t, <3>1 DEF TypeAgent
    <3>2. CASE ~Malformed(p)
      <4>1. Rest(p) \in Seq(Units) /\ Drained(p) \in Seq(Frames)
        BY <1>t, <1>16, <2>0, <3>2, TakenDown DEF OnData
      <4>2. got \in Seq(Frames) /\ got \o Drained(p) \in Seq(Frames)
        BY <1>t, <4>1, ConcatProperties DEF TypeAgent
      <4> QED BY <1>t, <3>2, <4>1, <4>2 DEF TypeAgent
    <3> QED BY <3>1, <3>2
  <2>1. TypePipes'
    BY <1>t, <1>16, <2>a DEF TypePipes, OnData, pipes
  <2>2. TypeThreads'
    BY <1>t, <1>16 DEF TypeThreads, OnData, host
  <2>3. TypeFlags'
    BY <1>t, <1>16 DEF TypeFlags, OnData, host, flags, MarkClosed
  <2>4. TypeHistory'
    BY <1>t, <1>16 DEF TypeHistory, OnData, host
  <2>5. TypeAgent'
    BY <1>t, <1>16, <2>b, <2>c DEF TypeAgent, OnData, agent
  <2> QED BY <2>1, <2>2, <2>3, <2>4, <2>5, TypeParts
<1>17. CASE OnEnd
  <2>1. TypePipes'
    BY <1>t, <1>17 DEF TypePipes, OnEnd, pipes
  <2>2. TypeThreads'
    BY <1>t, <1>17 DEF TypeThreads, OnEnd, host
  <2>3. TypeFlags'
    BY <1>t, <1>17 DEF TypeFlags, OnEnd, host, flags, MarkClosed
  <2>4. TypeHistory'
    BY <1>t, <1>17 DEF TypeHistory, OnEnd, host
  <2>5. TypeAgent'
    BY <1>t, <1>17 DEF TypeAgent, OnEnd, agent, Aborted
  <2> QED BY <2>1, <2>2, <2>3, <2>4, <2>5, TypeParts
<1>18. CASE OnError
  <2>1. TypePipes'
    BY <1>t, <1>18 DEF TypePipes, OnError, pipes
  <2>2. TypeThreads'
    BY <1>t, <1>18 DEF TypeThreads, OnError, host
  <2>3. TypeFlags'
    BY <1>t, <1>18 DEF TypeFlags, OnError, host, flags, MarkClosed
  <2>4. TypeHistory'
    BY <1>t, <1>18 DEF TypeHistory, OnError, host
  <2>5. TypeAgent'
    BY <1>t, <1>18 DEF TypeAgent, OnError, agent, Aborted
  <2> QED BY <2>1, <2>2, <2>3, <2>4, <2>5, TypeParts
<1>19. ASSUME NEW r \in Requests, Answer(r)
      PROVE  TypeOK'
  <2>a. <<"answer", r>> \in Answers
    BY DEF Answers
  <2>b. Append(chain, <<"answer", r>>) \in Seq(Answers) /\ Append(answered, <<"answer", r>>) \in Seq(Answers)
    BY <1>t, <2>a DEF TypeAgent
  <2>1. TypePipes'
    BY <1>t, <1>19 DEF TypePipes, Answer, pipes
  <2>2. TypeThreads'
    BY <1>t, <1>19 DEF TypeThreads, Answer, host
  <2>3. TypeFlags'
    BY <1>t, <1>19 DEF TypeFlags, Answer, host, flags, MarkClosed
  <2>4. TypeHistory'
    BY <1>t, <1>19 DEF TypeHistory, Answer, host
  <2>5. TypeAgent'
    BY <1>t, <1>19, <2>b DEF TypeAgent, Answer, agent
  <2> QED BY <2>1, <2>2, <2>3, <2>4, <2>5, TypeParts
<1>20. CASE WriteFrame
  <2>a. Head(chain) \in Answers /\ Tail(chain) \in Seq(Answers)
    BY <1>t, <1>20, HeadTailProperties DEF TypeAgent, WriteFrame
  <2>b. up \o <<Length, Blank, Head(chain)>> \in Seq(Units)
    <3>1. <<Length, Blank, Head(chain)>> \in Seq(Units)
      BY <2>a DEF Units
    <3> QED BY <1>t, <3>1, ConcatProperties DEF TypePipes
  <2>1. TypePipes'
    BY <1>t, <1>20, <2>b DEF TypePipes, WriteFrame, pipes
  <2>2. TypeThreads'
    BY <1>t, <1>20 DEF TypeThreads, WriteFrame, host
  <2>3. TypeFlags'
    BY <1>t, <1>20 DEF TypeFlags, WriteFrame, host, flags, MarkClosed
  <2>4. TypeHistory'
    BY <1>t, <1>20 DEF TypeHistory, WriteFrame, host
  <2>5. TypeAgent'
    BY <1>t, <1>20, <2>a DEF TypeAgent, WriteFrame, agent
  <2> QED BY <2>1, <2>2, <2>3, <2>4, <2>5, TypeParts
<1>21. CASE PipeDrained
  <2>1. TypePipes'
    BY <1>t, <1>21 DEF TypePipes, PipeDrained, pipes
  <2>2. TypeThreads'
    BY <1>t, <1>21 DEF TypeThreads, PipeDrained, host
  <2>3. TypeFlags'
    BY <1>t, <1>21 DEF TypeFlags, PipeDrained, host, flags, MarkClosed
  <2>4. TypeHistory'
    BY <1>t, <1>21 DEF TypeHistory, PipeDrained, host
  <2>5. TypeAgent'
    BY <1>t, <1>21 DEF TypeAgent, PipeDrained, agent
  <2> QED BY <2>1, <2>2, <2>3, <2>4, <2>5, TypeParts
<1>22. CASE AgentExits
  <2>1. TypePipes'
    BY <1>t, <1>22 DEF TypePipes, AgentExits, pipes
  <2>2. TypeThreads'
    BY <1>t, <1>22 DEF TypeThreads, AgentExits, host
  <2>3. TypeFlags'
    BY <1>t, <1>22 DEF TypeFlags, AgentExits, host, flags, MarkClosed
  <2>4. TypeHistory'
    BY <1>t, <1>22 DEF TypeHistory, AgentExits, host
  <2>5. TypeAgent'
    BY <1>t, <1>22 DEF TypeAgent, AgentExits, agent, Aborted
  <2> QED BY <2>1, <2>2, <2>3, <2>4, <2>5, TypeParts
<1>23. CASE HostExits
  <2>1. TypePipes'
    BY <1>t, <1>23 DEF TypePipes, HostExits, pipes
  <2>2. TypeThreads'
    BY <1>t, <1>23 DEF TypeThreads, HostExits, host
  <2>3. TypeFlags'
    BY <1>t, <1>23 DEF TypeFlags, HostExits, host, flags, MarkClosed
  <2>4. TypeHistory'
    BY <1>t, <1>23 DEF TypeHistory, HostExits, host
  <2>5. TypeAgent'
    BY <1>t, <1>23 DEF TypeAgent, HostExits, agent
  <2> QED BY <2>1, <2>2, <2>3, <2>4, <2>5, TypeParts
<1>24. CASE Stray
  <2>c. strays' \in 0..MaxStray
    BY <1>t, <1>24, StdioAssumption DEF TypePipes, Stray
  <2>a. \A p \in Seq(Units) : Append(p, StrayLine) \in Seq(Units)
    BY AppendLonger DEF Units
  <2>b. \A p \in Seq(Units) : p \o <<StrayLine, Blank>> \in Seq(Units)
    <3>1. <<StrayLine, Blank>> \in Seq(Units)
      BY DEF Units
    <3> QED BY <3>1, ConcatProperties
  <2>1. TypePipes'
    BY <1>t, <1>24, <2>a, <2>b, <2>c DEF TypePipes, Stray, pipes
  <2>2. TypeThreads'
    BY <1>t, <1>24 DEF TypeThreads, Stray, host
  <2>3. TypeFlags'
    BY <1>t, <1>24 DEF TypeFlags, Stray, host, flags, MarkClosed
  <2>4. TypeHistory'
    BY <1>t, <1>24 DEF TypeHistory, Stray, host
  <2>5. TypeAgent'
    BY <1>t, <1>24 DEF TypeAgent, Stray, agent
  <2> QED BY <2>1, <2>2, <2>3, <2>4, <2>5, TypeParts
<1> QED
  BY <1>0, <1>1, <1>2, <1>3, <1>4, <1>5, <1>6, <1>7, <1>8, <1>9, <1>10, <1>11, <1>12,
     <1>13, <1>14, <1>15, <1>16, <1>17, <1>18, <1>19, <1>20, <1>21, <1>22,
     <1>23, <1>24
  DEF Next, Opening, Marking, Reading, Sending, Writing

\* The stream is what it was, or nobody decodes it any more.
LEMMA DownFrame ==
  ASSUME Down, ~peer' \/ (/\ peer /\ buffer' = buffer /\ down' = down /\ written' = written /\ got' = got
                         /\ writeLock' = writeLock /\ (downEnds => downEnds'))
  PROVE  Down'
BY DEF Down, Stream

LEMMA DownTyped ==
  ASSUME TypeOK
  PROVE  /\ buffer \in Seq(Units) /\ down \in Seq(Units) /\ Stream \in Seq(Units)
         /\ Len(Stream) \in Nat /\ Len(got) \in Nat /\ Len(written) \in Nat
<1>1. buffer \in Seq(Units) /\ down \in Seq(Units) /\ got \in Seq(Frames) /\ written \in Seq(Frames)
  BY TypeParts DEF TypePipes, TypeHistory, TypeAgent
<1>2. Stream \in Seq(Units)
  BY <1>1, ConcatProperties DEF Stream
<1> QED BY <1>1, <1>2, LenProperties

LEMMA DownStep ==
  ASSUME TypeOK, Down, Locked, [Next]_vars
  PROVE  Down'
<1>t. /\ buffer \in Seq(Units) /\ down \in Seq(Units) /\ Stream \in Seq(Units)
      /\ Len(Stream) \in Nat /\ Len(got) \in Nat /\ Len(written) \in Nat
  BY DownTyped
<1>u. peer \in BOOLEAN /\ downEnds \in BOOLEAN
  BY TypeParts DEF TypePipes, TypeAgent
<1>0. CASE UNCHANGED vars
  BY <1>0, <1>u, DownFrame DEF vars, pipes, host, agent
<1>1. CASE DropIncoming
  BY <1>1, <1>u, DownFrame DEF DropIncoming, pipes, host, agent
<1>2. CASE Notify
  BY <1>2, <1>u, DownFrame DEF Notify, pipes, host, agent
<1>3. CASE Install
  BY <1>3, <1>u, DownFrame DEF Install, pipes, host, agent
<1>4. CASE StartReader
  BY <1>4, <1>u, DownFrame DEF StartReader, pipes, host, agent
<1>5. CASE OpenSession
  BY <1>5, <1>u, DownFrame DEF OpenSession, pipes, host, agent
<1>6. CASE CloseSession
  BY <1>6, <1>u, DownFrame DEF CloseSession, pipes, host, agent
<1>7. CASE Close
  BY <1>7, <1>u, DownFrame DEF Close, pipes, host, agent
<1>8. ASSUME NEW f \in Frames, Enter(f)
      PROVE  Down'
  BY <1>8, <1>u, DownFrame DEF Enter, pipes, host, agent
<1>9. ASSUME NEW f \in Frames, TakeLock(f)
      PROVE  Down'
  <2>1. CASE closed \/ downEnds
    BY <1>9, <2>1, <1>u, DownFrame DEF TakeLock, agent
  <2>2. CASE ~(closed \/ downEnds)
    <3> SUFFICES ASSUME peer' PROVE Down'
      BY DownFrame
    <3>1. /\ down' = down \o <<Length, Blank>> /\ writeLock' = TRUE /\ ~writeLock /\ ~downEnds
          /\ peer /\ buffer' = buffer /\ written' = written /\ got' = got
      BY <1>9, <2>2 DEF TakeLock, agent
    <3>2. /\ Formed(Stream, Frames) /\ Shut(Stream)
          /\ Carries(Stream, Frames, written, Len(got))
          /\ Len(got) + Count(Stream, Frames, Len(Stream)) = Len(written)
      BY <3>1 DEF Down
    <3> DEFINE q == Append(Append(Stream, Length), Blank)
    <3>3. Stream' = q
      <4>1. Length \in Units /\ Blank \in Units
        BY DEF Units
      <4>2. down' = Append(Append(down, Length), Blank) /\ Append(down, Length) \in Seq(Units)
        BY <1>t, <3>1, <4>1, AddedTwo, AddedOne
      <4>3. buffer \o down' = Append(buffer \o Append(down, Length), Blank)
        BY <1>t, <4>1, <4>2, AddedOne
      <4>4. buffer \o Append(down, Length) = Append(buffer \o down, Length)
        BY <1>t, <4>1, AddedOne
      <4> QED BY <3>1, <4>3, <4>4 DEF Stream
    <3>4. /\ Formed(q, Frames) /\ Open(q) /\ Carries(q, Frames, written, Len(got))
          /\ Count(q, Frames, Len(q)) = Count(Stream, Frames, Len(Stream))
      BY <1>t, <3>2, HeaderAdded
    <3> HIDE DEF q
    <3> QED BY <3>1, <3>2, <3>3, <3>4 DEF Down
  <2> QED BY <2>1, <2>2
<1>10. ASSUME NEW f \in Frames, WriteBody(f)
      PROVE  Down'
  <2>0. writeLock /\ writeLock' = FALSE /\ peer' = peer /\ downEnds' = downEnds /\ buffer' = buffer /\ got' = got
    BY <1>10 DEF WriteBody, Locked, agent
  <2>1. CASE downEnds
    <3>1. down' = down /\ written' = written /\ downEnds'
      BY <1>10, <2>1 DEF WriteBody
    <3> QED BY <2>0, <3>1 DEF Down, Stream
  <2>2. CASE ~downEnds
    <3> SUFFICES ASSUME peer' PROVE Down'
      BY DownFrame
    <3>1. down' = Append(down, f) /\ written' = Append(written, f) /\ peer
      BY <1>10, <2>0, <2>2 DEF WriteBody
    <3>2. /\ Formed(Stream, Frames) /\ Open(Stream)
          /\ Carries(Stream, Frames, written, Len(got))
          /\ Len(got) + Count(Stream, Frames, Len(Stream)) = Len(written)
      BY <2>0, <2>2, <3>1 DEF Down
    <3>3. Stream' = Append(Stream, f)
      <4>1. f \in Units
        BY DEF Units
      <4> QED BY <1>t, <2>0, <3>1, <4>1, AddedOne DEF Stream
    <3>4. Formed(Append(Stream, f), Frames) /\ Shut(Append(Stream, f))
      BY <1>t, <3>2, AddBody
    <3>5. /\ Len(written') = Len(written) + 1
          /\ \A i \in 1..Len(written) : written'[i] = written[i]
          /\ written'[Len(written) + 1] = f
      <4>1. written \in Seq(Frames)
        BY TypeParts DEF TypeHistory
      <4> QED BY <3>1, <4>1, AppendProperties
    <3>6. /\ Carries(Append(Stream, f), Frames, written', Len(got))
          /\ Count(Append(Stream, f), Frames, Len(Append(Stream, f))) = Count(Stream, Frames, Len(Stream)) + 1
      <4>1. Len(written') \in Nat /\ Len(written) <= Len(written')
            /\ Len(got) + Count(Stream, Frames, Len(Stream)) < Len(written')
            /\ written'[Len(got) + Count(Stream, Frames, Len(Stream)) + 1] = f
        BY <1>t, <3>2, <3>5
      <4> QED BY <1>t, <3>2, <3>5, <4>1, BodyCarries
    <3>7. Count(Stream, Frames, Len(Stream)) \in Nat
      BY <1>t, CountNat
    <3>8. Len(got) + Count(Stream', Frames, Len(Stream')) = Len(written')
      <4>1. Count(Stream', Frames, Len(Stream')) = Count(Stream, Frames, Len(Stream)) + 1
        BY <3>3, <3>6
      <4>2. Len(got) + (Count(Stream, Frames, Len(Stream)) + 1) = Len(written) + 1
        BY <1>t, <3>2, <3>7
      <4> QED BY <3>5, <4>1, <4>2
    <3> QED BY <2>0, <3>3, <3>4, <3>6, <3>8 DEF Down
  <2> QED BY <2>1, <2>2
<1>11. CASE Loop
  BY <1>11, <1>u, DownFrame DEF Loop, pipes, host, agent
<1>12. CASE ReadFrame
  BY <1>12, <1>u, DownFrame DEF ReadFrame, pipes, host, agent
<1>13. CASE Recheck
  BY <1>13, <1>u, DownFrame DEF Recheck, pipes, host, agent
<1>14. CASE Deliver
  BY <1>14, <1>u, DownFrame DEF Deliver, pipes, host, agent
<1>15. CASE Leave
  BY <1>15, <1>u, DownFrame DEF Leave, pipes, host, agent
<1>16. CASE OnData
  <2> SUFFICES ASSUME peer' PROVE Down'
    BY DownFrame
  <2> PICK n \in DOMAIN down :
         LET p == buffer \o SubSeq(down, 1, n)
         IN /\ down' = SubSeq(down, n + 1, Len(down))
            /\ IF Malformed(p)
               THEN peer' = FALSE /\ job' = Aborted(job) /\ UNCHANGED <<buffer, got>>
               ELSE /\ buffer' = Rest(p)
                    /\ got' = got \o Drained(p)
                    /\ job' = Dispatched(Drained(p))
                    /\ UNCHANGED peer
    BY <1>16 DEF OnData
  <2> DEFINE p == buffer \o SubSeq(down, 1, n)
             D == Drained(p)
             q == Rest(p) \o SubSeq(down, n + 1, Len(down))
  <2>1. n \in 1..Len(down) /\ peer /\ downEnds' = downEnds /\ writeLock' = writeLock /\ written' = written
    BY <1>t, <1>16, LenProperties DEF OnData, host
  <2>2. ~Malformed(p) /\ Stream' = q /\ got' = got \o D
    BY DEF Stream
  <2>3. /\ D \in Seq(Frames) /\ Len(D) \in Nat
        /\ Formed(q, Frames) /\ (Open(Stream) => Open(q)) /\ (Shut(Stream) => Shut(q))
        /\ Carries(q, Frames, written, Len(got) + Len(D))
        /\ Count(Stream, Frames, Len(Stream)) = Len(D) + Count(q, Frames, Len(q))
    BY <2>1, <2>2, TypeParts, TakenDown
  <2>4. Len(got') = Len(got) + Len(D)
    <3>1. got \in Seq(Frames)
      BY TypeParts DEF TypeAgent
    <3> QED BY <2>2, <2>3, <3>1, ConcatProperties
  <2> HIDE DEF p, D, q
  <2>5. Len(q) \in Nat
    <3>1. q \in Seq(Units)
      <4>1. Rest(p) \in Seq(Units) /\ SubSeq(down, n + 1, Len(down)) \in Seq(Units)
        BY <2>1, <2>2, TypeParts, TakenDown DEF p
      <4> QED BY <4>1, ConcatProperties DEF q
    <3> QED BY <3>1, LenProperties
  <2>6. Len(got') + Count(q, Frames, Len(q)) = Len(written)
    <3>1. Count(q, Frames, Len(q)) \in Nat
      BY <2>5, CountNat
    <3>2. Len(got) + Count(Stream, Frames, Len(Stream)) = Len(written)
      BY <2>1 DEF Down
    <3> QED BY <1>t, <2>3, <2>4, <3>1, <3>2
  <2>7. ~downEnds => IF writeLock THEN Open(q) ELSE Shut(q)
    BY <2>1, <2>3 DEF Down
  <2> QED BY <2>1, <2>2, <2>3, <2>4, <2>6, <2>7 DEF Down
<1>17. CASE OnEnd
  BY <1>17, <1>u, DownFrame DEF OnEnd, pipes, host, agent
<1>18. CASE OnError
  BY <1>18, <1>u, DownFrame DEF OnError, pipes, host, agent
<1>19. ASSUME NEW r \in Requests, Answer(r)
      PROVE  Down'
  BY <1>19, <1>u, DownFrame DEF Answer, pipes, host, agent
<1>20. CASE WriteFrame
  BY <1>20, <1>u, DownFrame DEF WriteFrame, pipes, host, agent
<1>21. CASE PipeDrained
  BY <1>21, <1>u, DownFrame DEF PipeDrained, pipes, host, agent
<1>22. CASE AgentExits
  BY <1>22, <1>u, DownFrame DEF AgentExits, pipes, host, agent
<1>23. CASE HostExits
  BY <1>23, <1>u, DownFrame DEF HostExits, pipes, host, agent
<1>24. CASE Stray
  <2>0. /\ peer' = peer /\ buffer' = buffer /\ written' = written /\ got' = got
        /\ writeLock' = writeLock /\ downEnds' = downEnds
    BY <1>24 DEF Stray, host, agent
  <2>1. CASE down' = down
    BY <1>u, <2>0, <2>1, DownFrame
  <2>2. CASE ~writeLock /\ ~downEnds /\ down' \in {Append(down, StrayLine), down \o <<StrayLine, Blank>>}
    <3> SUFFICES ASSUME peer' PROVE Down'
      BY DownFrame
    <3>2. /\ Formed(Stream, Frames) /\ Shut(Stream)
          /\ Carries(Stream, Frames, written, Len(got))
          /\ Len(got) + Count(Stream, Frames, Len(Stream)) = Len(written)
      BY <2>0, <2>2 DEF Down
    <3>3. Stream' \in {Append(Stream, StrayLine), Append(Append(Stream, StrayLine), Blank)}
      <4>1. StrayLine \in Units /\ Blank \in Units
        BY DEF Units
      <4>2. Append(down, StrayLine) \in Seq(Units) /\ buffer \o Append(down, StrayLine) = Append(Stream, StrayLine)
        BY <1>t, <4>1, AddedOne DEF Stream
      <4>3. down \o <<StrayLine, Blank>> = Append(Append(down, StrayLine), Blank)
        BY <1>t, <4>1, AddedTwo
      <4>4. buffer \o (down \o <<StrayLine, Blank>>) = Append(Append(Stream, StrayLine), Blank)
        <5> DEFINE h == Append(down, StrayLine)
        <5>1. h \in Seq(Units) /\ buffer \o h = Append(Stream, StrayLine)
          BY <4>2
        <5>2. down \o <<StrayLine, Blank>> = Append(h, Blank)
          BY <4>3
        <5> HIDE DEF h
        <5>3. buffer \o Append(h, Blank) = Append(buffer \o h, Blank)
          BY <1>t, <4>1, <5>1, AddedOne
        <5> QED BY <5>1, <5>2, <5>3
      <4> QED BY <2>0, <2>2, <4>2, <4>4 DEF Stream
    <3>4. /\ Formed(Stream', Frames) /\ Shut(Stream') /\ Carries(Stream', Frames, written, Len(got))
          /\ Count(Stream', Frames, Len(Stream')) = Count(Stream, Frames, Len(Stream))
      BY <1>t, <3>2, <3>3, StrayAdded
    <3> QED BY <2>0, <2>2, <3>2, <3>4 DEF Down
  <2> QED BY <1>24, <2>1, <2>2 DEF Stray
<1> QED
  BY <1>0, <1>1, <1>2, <1>3, <1>4, <1>5, <1>6, <1>7, <1>8, <1>9, <1>10, <1>11, <1>12,
     <1>13, <1>14, <1>15, <1>16, <1>17, <1>18, <1>19, <1>20, <1>21, <1>22,
     <1>23, <1>24
  DEF Next, Opening, Marking, Reading, Sending, Writing

LEMMA LockedStep ==
  ASSUME TypeOK, Locked, [Next]_vars
  PROVE  Locked'
<1>t. writer \in [Frames -> {"idle", "entering", "header", "sent", "failed"}]
  BY TypeParts DEF TypeThreads
<1>0. CASE UNCHANGED vars
  BY <1>0 DEF vars, pipes, host, agent, flags, Locked
<1>1. CASE DropIncoming
  BY <1>1 DEF DropIncoming, pipes, host, agent, flags, Locked
<1>2. CASE Notify
  BY <1>2 DEF Notify, pipes, host, agent, flags, Locked
<1>3. CASE Install
  BY <1>3 DEF Install, pipes, host, agent, flags, Locked
<1>4. CASE StartReader
  BY <1>4 DEF StartReader, pipes, host, agent, flags, Locked
<1>5. CASE OpenSession
  BY <1>5 DEF OpenSession, pipes, host, agent, flags, Locked
<1>6. CASE CloseSession
  BY <1>6 DEF CloseSession, pipes, host, agent, flags, Locked
<1>7. CASE Close
  BY <1>7 DEF Close, pipes, host, agent, flags, Locked
<1>8. ASSUME NEW f \in Frames, Enter(f)
      PROVE  Locked'
  BY <1>t, <1>8 DEF Locked, Enter, flags
<1>9. ASSUME NEW f \in Frames, TakeLock(f)
      PROVE  Locked'
  BY <1>t, <1>9 DEF Locked, TakeLock, flags
<1>10. ASSUME NEW f \in Frames, WriteBody(f)
      PROVE  Locked'
  BY <1>t, <1>10 DEF Locked, WriteBody, flags
<1>11. CASE Loop
  BY <1>11 DEF Loop, pipes, host, agent, flags, Locked
<1>12. CASE ReadFrame
  BY <1>12 DEF ReadFrame, pipes, host, agent, flags, Locked
<1>13. CASE Recheck
  BY <1>13 DEF Recheck, pipes, host, agent, flags, Locked
<1>14. CASE Deliver
  BY <1>14 DEF Deliver, pipes, host, agent, flags, Locked
<1>15. CASE Leave
  BY <1>15 DEF Leave, pipes, host, agent, flags, Locked
<1>16. CASE OnData
  BY <1>16 DEF OnData, pipes, host, agent, flags, Locked
<1>17. CASE OnEnd
  BY <1>17 DEF OnEnd, pipes, host, agent, flags, Locked
<1>18. CASE OnError
  BY <1>18 DEF OnError, pipes, host, agent, flags, Locked
<1>19. ASSUME NEW r \in Requests, Answer(r)
      PROVE  Locked'
  BY <1>19 DEF Answer, pipes, host, agent, flags, Locked
<1>20. CASE WriteFrame
  BY <1>20 DEF WriteFrame, pipes, host, agent, flags, Locked
<1>21. CASE PipeDrained
  BY <1>21 DEF PipeDrained, pipes, host, agent, flags, Locked
<1>22. CASE AgentExits
  BY <1>22 DEF AgentExits, pipes, host, agent, flags, Locked
<1>23. CASE HostExits
  BY <1>23 DEF HostExits, pipes, host, agent, flags, Locked
<1>24. CASE Stray
  BY <1>24 DEF Stray, pipes, host, agent, flags, Locked
<1> QED
  BY <1>0, <1>1, <1>2, <1>3, <1>4, <1>5, <1>6, <1>7, <1>8, <1>9, <1>10, <1>11, <1>12,
     <1>13, <1>14, <1>15, <1>16, <1>17, <1>18, <1>19, <1>20, <1>21, <1>22,
     <1>23, <1>24
  DEF Next, Opening, Marking, Reading, Sending, Writing

LEMMA GotWrittenStep ==
  ASSUME TypeOK, Down, GotWritten, [Next]_vars
  PROVE  GotWritten'
<1>t. written \in Seq(Frames) /\ got \in Seq(Frames) /\ Len(written) \in Nat /\ Len(got) \in Nat
  BY TypeParts, LenProperties DEF TypeHistory, TypeAgent
<1>0. CASE UNCHANGED vars
  BY <1>0 DEF vars, pipes, host, agent, flags, GotWritten
<1>1. CASE DropIncoming
  BY <1>1 DEF DropIncoming, pipes, host, agent, flags, GotWritten
<1>2. CASE Notify
  BY <1>2 DEF Notify, pipes, host, agent, flags, GotWritten
<1>3. CASE Install
  BY <1>3 DEF Install, pipes, host, agent, flags, GotWritten
<1>4. CASE StartReader
  BY <1>4 DEF StartReader, pipes, host, agent, flags, GotWritten
<1>5. CASE OpenSession
  BY <1>5 DEF OpenSession, pipes, host, agent, flags, GotWritten
<1>6. CASE CloseSession
  BY <1>6 DEF CloseSession, pipes, host, agent, flags, GotWritten
<1>7. CASE Close
  BY <1>7 DEF Close, pipes, host, agent, flags, GotWritten
<1>8. ASSUME NEW f \in Frames, Enter(f)
      PROVE  GotWritten'
  BY <1>8 DEF Enter, pipes, host, agent, flags, GotWritten
<1>9. ASSUME NEW f \in Frames, TakeLock(f)
      PROVE  GotWritten'
  BY <1>9 DEF TakeLock, pipes, host, agent, flags, GotWritten
<1>10. ASSUME NEW f \in Frames, WriteBody(f)
      PROVE  GotWritten'
  <2>1. got' = got
    BY <1>10 DEF WriteBody, agent
  <2>2. CASE written' = written
    BY <2>1, <2>2 DEF GotWritten
  <2>3. CASE written' = Append(written, f)
    <3>1. Len(written') = Len(written) + 1 /\ \A i \in 1..Len(written) : written'[i] = written[i]
      BY <1>t, <2>3, AppendProperties
    <3>2. Len(got') <= Len(written')
      BY <1>t, <2>1, <3>1 DEF GotWritten
    <3>3. \A i \in 1..Len(got') : got'[i] = written'[i]
      BY <1>t, <2>1, <3>1 DEF GotWritten
    <3> QED BY <3>2, <3>3 DEF GotWritten
  <2> QED BY <1>10, <2>2, <2>3 DEF WriteBody
<1>11. CASE Loop
  BY <1>11 DEF Loop, pipes, host, agent, flags, GotWritten
<1>12. CASE ReadFrame
  BY <1>12 DEF ReadFrame, pipes, host, agent, flags, GotWritten
<1>13. CASE Recheck
  BY <1>13 DEF Recheck, pipes, host, agent, flags, GotWritten
<1>14. CASE Deliver
  BY <1>14 DEF Deliver, pipes, host, agent, flags, GotWritten
<1>15. CASE Leave
  BY <1>15 DEF Leave, pipes, host, agent, flags, GotWritten
<1>16. CASE OnData
  <2> PICK n \in DOMAIN down :
         LET p == buffer \o SubSeq(down, 1, n)
         IN /\ down' = SubSeq(down, n + 1, Len(down))
            /\ IF Malformed(p)
               THEN peer' = FALSE /\ job' = Aborted(job) /\ UNCHANGED <<buffer, got>>
               ELSE /\ buffer' = Rest(p)
                    /\ got' = got \o Drained(p)
                    /\ job' = Dispatched(Drained(p))
                    /\ UNCHANGED peer
    BY <1>16 DEF OnData
  <2> DEFINE p == buffer \o SubSeq(down, 1, n)
             D == Drained(p)
  <2>1. written' = written /\ peer
    BY <1>16 DEF OnData, host
  <2>2. CASE Malformed(p)
    BY <2>1, <2>2 DEF GotWritten
  <2>3. CASE ~Malformed(p)
    <3>0. n \in 1..Len(down)
      BY DownTyped, LenProperties
    <3>1. /\ D \in Seq(Frames) /\ \A k \in 1..Len(D) : D[k] = written[Len(got) + k]
          /\ Len(D) \in Nat /\ Len(got) + Len(D) <= Len(written)
      BY <2>1, <2>3, <3>0, TypeParts, TakenDown
    <3>2. got' = got \o D
      BY <2>3
    <3> HIDE DEF D
    <3>3. /\ Len(got') = Len(got) + Len(D)
          /\ \A i \in 1..Len(got) + Len(D) : got'[i] = IF i <= Len(got) THEN got[i] ELSE D[i - Len(got)]
      BY <1>t, <3>1, <3>2, ConcatProperties
    <3>4. ASSUME NEW i \in 1..Len(got')
          PROVE  got'[i] = written[i]
      <4>1. CASE i <= Len(got)
        BY <1>t, <3>3, <4>1 DEF GotWritten
      <4>2. CASE i > Len(got)
        <5> DEFINE k == i - Len(got)
        <5>1. k \in 1..Len(D) /\ i = Len(got) + k /\ got'[i] = D[k]
          BY <1>t, <3>1, <3>3, <4>2
        <5> HIDE DEF k
        <5> QED BY <3>1, <5>1
      <4> QED BY <1>t, <3>1, <3>3, <4>1, <4>2
    <3> QED BY <2>1, <3>1, <3>3, <3>4 DEF GotWritten
  <2> QED BY <2>2, <2>3
<1>17. CASE OnEnd
  BY <1>17 DEF OnEnd, pipes, host, agent, flags, GotWritten
<1>18. CASE OnError
  BY <1>18 DEF OnError, pipes, host, agent, flags, GotWritten
<1>19. ASSUME NEW r \in Requests, Answer(r)
      PROVE  GotWritten'
  BY <1>19 DEF Answer, pipes, host, agent, flags, GotWritten
<1>20. CASE WriteFrame
  BY <1>20 DEF WriteFrame, pipes, host, agent, flags, GotWritten
<1>21. CASE PipeDrained
  BY <1>21 DEF PipeDrained, pipes, host, agent, flags, GotWritten
<1>22. CASE AgentExits
  BY <1>22 DEF AgentExits, pipes, host, agent, flags, GotWritten
<1>23. CASE HostExits
  BY <1>23 DEF HostExits, pipes, host, agent, flags, GotWritten
<1>24. CASE Stray
  BY <1>24 DEF Stray, pipes, host, agent, flags, GotWritten
<1> QED
  BY <1>0, <1>1, <1>2, <1>3, <1>4, <1>5, <1>6, <1>7, <1>8, <1>9, <1>10, <1>11, <1>12,
     <1>13, <1>14, <1>15, <1>16, <1>17, <1>18, <1>19, <1>20, <1>21, <1>22,
     <1>23, <1>24
  DEF Next, Opening, Marking, Reading, Sending, Writing

LEMMA InHandStep ==
  ASSUME TypeOK, Up, InHand, [Next]_vars
  PROVE  InHand'
<1>0. CASE UNCHANGED vars
  BY <1>0 DEF vars, pipes, host, agent, flags, InHand, HandFull
<1>1. CASE DropIncoming
  BY <1>1 DEF DropIncoming, pipes, host, agent, flags, InHand, HandFull
<1>2. CASE Notify
  BY <1>2 DEF Notify, pipes, host, agent, flags, InHand, HandFull
<1>3. CASE Install
  BY <1>3 DEF Install, pipes, host, agent, flags, InHand, HandFull
<1>4. CASE StartReader
  BY <1>4 DEF StartReader, pipes, host, agent, flags, InHand, HandFull
<1>5. CASE OpenSession
  BY <1>5 DEF OpenSession, pipes, host, agent, flags, InHand, HandFull
<1>6. CASE CloseSession
  BY <1>6 DEF CloseSession, pipes, host, agent, flags, InHand, HandFull
<1>7. CASE Close
  BY <1>7 DEF Close, pipes, host, agent, flags, InHand, HandFull
<1>8. ASSUME NEW f \in Frames, Enter(f)
      PROVE  InHand'
  BY <1>8 DEF Enter, pipes, host, agent, flags, InHand, HandFull
<1>9. ASSUME NEW f \in Frames, TakeLock(f)
      PROVE  InHand'
  BY <1>9 DEF TakeLock, pipes, host, agent, flags, InHand, HandFull
<1>10. ASSUME NEW f \in Frames, WriteBody(f)
      PROVE  InHand'
  BY <1>10 DEF WriteBody, pipes, host, agent, flags, InHand, HandFull
<1>11. CASE Loop
  BY <1>11 DEF Loop, pipes, host, agent, flags, InHand, HandFull
<1>12. CASE ReadFrame
  <2>0. opener' = opener /\ reader = "reading"
    BY <1>12 DEF ReadFrame
  <2>1. CASE /\ FrameEnd(up) > 0 /\ ~Malformed(SubSeq(up, 1, FrameEnd(up)))
             /\ hand' = <<up[FrameEnd(up)], closed>>
             /\ up' = SubSeq(up, FrameEnd(up) + 1, Len(up))
             /\ reader' = "read"
    <3>1. up[FrameEnd(up)] \in Answers
      <4>1. up \in Seq(Units)
        BY TypeParts DEF TypePipes
      <4> QED BY <2>1, <4>1, FrameRead DEF Up
    <3> QED BY <2>0, <2>1, <3>1 DEF InHand, HandFull
  <2>2. CASE reader' = "leaving" /\ UNCHANGED <<hand, up>>
    BY <2>0, <2>2 DEF InHand, HandFull
  <2> QED BY <1>12, <2>1, <2>2 DEF ReadFrame
<1>13. CASE Recheck
  BY <1>13 DEF Recheck, pipes, host, agent, flags, InHand, HandFull
<1>14. CASE Deliver
  BY <1>14 DEF Deliver, pipes, host, agent, flags, InHand, HandFull
<1>15. CASE Leave
  BY <1>15 DEF Leave, pipes, host, agent, flags, InHand, HandFull
<1>16. CASE OnData
  BY <1>16 DEF OnData, pipes, host, agent, flags, InHand, HandFull
<1>17. CASE OnEnd
  BY <1>17 DEF OnEnd, pipes, host, agent, flags, InHand, HandFull
<1>18. CASE OnError
  BY <1>18 DEF OnError, pipes, host, agent, flags, InHand, HandFull
<1>19. ASSUME NEW r \in Requests, Answer(r)
      PROVE  InHand'
  BY <1>19 DEF Answer, pipes, host, agent, flags, InHand, HandFull
<1>20. CASE WriteFrame
  BY <1>20 DEF WriteFrame, pipes, host, agent, flags, InHand, HandFull
<1>21. CASE PipeDrained
  BY <1>21 DEF PipeDrained, pipes, host, agent, flags, InHand, HandFull
<1>22. CASE AgentExits
  BY <1>22 DEF AgentExits, pipes, host, agent, flags, InHand, HandFull
<1>23. CASE HostExits
  BY <1>23 DEF HostExits, pipes, host, agent, flags, InHand, HandFull
<1>24. CASE Stray
  BY <1>24 DEF Stray, pipes, host, agent, flags, InHand, HandFull
<1> QED
  BY <1>0, <1>1, <1>2, <1>3, <1>4, <1>5, <1>6, <1>7, <1>8, <1>9, <1>10, <1>11, <1>12,
     <1>13, <1>14, <1>15, <1>16, <1>17, <1>18, <1>19, <1>20, <1>21, <1>22,
     <1>23, <1>24
  DEF Next, Opening, Marking, Reading, Sending, Writing

LEMMA ClosingStep ==
  ASSUME TypeOK, Closing, [Next]_vars
  PROVE  Closing'
<1>0. CASE UNCHANGED vars
  BY <1>0 DEF vars, pipes, host, agent, flags, Closing, MarkClosed
<1>1. CASE DropIncoming
  BY <1>1 DEF DropIncoming, pipes, host, agent, flags, Closing, MarkClosed
<1>2. CASE Notify
  BY <1>2 DEF Notify, pipes, host, agent, flags, Closing, MarkClosed
<1>3. CASE Install
  BY <1>3 DEF Install, pipes, host, agent, flags, Closing, MarkClosed
<1>4. CASE StartReader
  BY <1>4 DEF StartReader, pipes, host, agent, flags, Closing, MarkClosed
<1>5. CASE OpenSession
  BY <1>5 DEF OpenSession, pipes, host, agent, flags, Closing, MarkClosed
<1>6. CASE CloseSession
  BY <1>6 DEF CloseSession, pipes, host, agent, flags, Closing, MarkClosed
<1>7. CASE Close
  BY <1>7 DEF Close, pipes, host, agent, flags, Closing, MarkClosed
<1>8. ASSUME NEW f \in Frames, Enter(f)
      PROVE  Closing'
  BY <1>8 DEF Enter, pipes, host, agent, flags, Closing, MarkClosed
<1>9. ASSUME NEW f \in Frames, TakeLock(f)
      PROVE  Closing'
  BY <1>9 DEF TakeLock, pipes, host, agent, flags, Closing, MarkClosed
<1>10. ASSUME NEW f \in Frames, WriteBody(f)
      PROVE  Closing'
  BY <1>10 DEF WriteBody, pipes, host, agent, flags, Closing, MarkClosed
<1>11. CASE Loop
  BY <1>11 DEF Loop, pipes, host, agent, flags, Closing, MarkClosed
<1>12. CASE ReadFrame
  <2>0. closed' = closed /\ late' = late /\ reader = "reading"
    BY <1>12 DEF ReadFrame, flags
  <2>1. CASE hand' = <<up[FrameEnd(up)], closed>> /\ reader' = "read"
    BY <2>0, <2>1 DEF Closing
  <2>2. CASE reader' = "leaving"
    BY <2>0, <2>2 DEF Closing
  <2> QED BY <1>12, <2>1, <2>2 DEF ReadFrame
<1>13. CASE Recheck
  BY <1>13 DEF Recheck, pipes, host, agent, flags, Closing, MarkClosed
<1>14. CASE Deliver
  BY <1>14 DEF Deliver, pipes, host, agent, flags, Closing, MarkClosed
<1>15. CASE Leave
  BY <1>15 DEF Leave, pipes, host, agent, flags, Closing, MarkClosed
<1>16. CASE OnData
  BY <1>16 DEF OnData, pipes, host, agent, flags, Closing, MarkClosed
<1>17. CASE OnEnd
  BY <1>17 DEF OnEnd, pipes, host, agent, flags, Closing, MarkClosed
<1>18. CASE OnError
  BY <1>18 DEF OnError, pipes, host, agent, flags, Closing, MarkClosed
<1>19. ASSUME NEW r \in Requests, Answer(r)
      PROVE  Closing'
  BY <1>19 DEF Answer, pipes, host, agent, flags, Closing, MarkClosed
<1>20. CASE WriteFrame
  BY <1>20 DEF WriteFrame, pipes, host, agent, flags, Closing, MarkClosed
<1>21. CASE PipeDrained
  BY <1>21 DEF PipeDrained, pipes, host, agent, flags, Closing, MarkClosed
<1>22. CASE AgentExits
  BY <1>22 DEF AgentExits, pipes, host, agent, flags, Closing, MarkClosed
<1>23. CASE HostExits
  BY <1>23 DEF HostExits, pipes, host, agent, flags, Closing, MarkClosed
<1>24. CASE Stray
  BY <1>24 DEF Stray, pipes, host, agent, flags, Closing, MarkClosed
<1> QED
  BY <1>0, <1>1, <1>2, <1>3, <1>4, <1>5, <1>6, <1>7, <1>8, <1>9, <1>10, <1>11, <1>12,
     <1>13, <1>14, <1>15, <1>16, <1>17, <1>18, <1>19, <1>20, <1>21, <1>22,
     <1>23, <1>24
  DEF Next, Opening, Marking, Reading, Sending, Writing

\* What a longer sequence of frames contains.
LEMMA MoreGot ==
  ASSUME NEW s \in Seq(Frames), NEW t \in Seq(Frames), NEW x, NEW y
  PROVE  /\ Contains(s \o t, x) => Contains(s, x) \/ Contains(t, x)
         /\ Precedes(x, y, s \o t)
              => Precedes(x, y, s) \/ Precedes(x, y, t) \/ (Contains(s, x) /\ Contains(t, y))
<1> DEFINE v == s \o t
<1>1. /\ v \in Seq(Frames) /\ Len(v) = Len(s) + Len(t) /\ Len(s) \in Nat /\ Len(t) \in Nat
      /\ \A i \in 1..Len(s) + Len(t) : v[i] = IF i <= Len(s) THEN s[i] ELSE t[i - Len(s)]
  BY ConcatProperties, LenProperties
<1>2. DOMAIN s = 1..Len(s) /\ DOMAIN t = 1..Len(t)
  BY LenProperties
<1>3. DOMAIN v = 1..Len(v)
  BY <1>1, LenProperties
<1> HIDE DEF v
<1>4. ASSUME NEW i \in DOMAIN v
      PROVE  \/ i \in 1..Len(s) /\ v[i] = s[i]
             \/ i > Len(s) /\ i - Len(s) \in 1..Len(t) /\ v[i] = t[i - Len(s)]
  BY <1>1, <1>3
<1>5. Contains(v, x) => Contains(s, x) \/ Contains(t, x)
  BY <1>3, <1>4 DEF Contains
<1>6. ASSUME NEW i \in DOMAIN v, NEW j \in DOMAIN v, i < j, v[i] = x, v[j] = y
      PROVE  Precedes(x, y, s) \/ Precedes(x, y, t) \/ (Contains(s, x) /\ Contains(t, y))
  <2>0. i \in Nat /\ j \in Nat
    BY <1>3
  <2>1. CASE j \in 1..Len(s) /\ v[j] = s[j]
    <3>1. i \in 1..Len(s) /\ v[i] = s[i]
      BY <1>1, <1>4, <1>6, <2>0, <2>1
    <3> QED BY <1>2, <1>6, <2>1, <3>1 DEF Precedes
  <2>2. CASE j > Len(s) /\ j - Len(s) \in 1..Len(t) /\ v[j] = t[j - Len(s)]
    <3>1. CASE i \in 1..Len(s) /\ v[i] = s[i]
      BY <1>6, <2>2, <3>1 DEF Contains
    <3>2. CASE i > Len(s) /\ i - Len(s) \in 1..Len(t) /\ v[i] = t[i - Len(s)]
      <4>1. i - Len(s) < j - Len(s)
        BY <1>1, <1>6, <2>0
      <4> QED BY <1>2, <1>6, <2>2, <3>2, <4>1 DEF Precedes
    <3> QED BY <1>4, <3>1, <3>2
  <2> QED BY <1>4, <2>1, <2>2
<1>7. Precedes(x, y, v) => Precedes(x, y, s) \/ Precedes(x, y, t) \/ (Contains(s, x) /\ Contains(t, y))
  BY <1>6 DEF Precedes
<1> QED BY <1>5, <1>7 DEF v

LEMMA CancelledStep ==
  ASSUME TypeOK, Down, Cancelled, [Next]_vars
  PROVE  Cancelled'
<1>t. got \in Seq(Frames) /\ job \in [Requests -> {"none", "running", "aborted", "done"}]
  BY TypeParts DEF TypeAgent
<1>0. CASE UNCHANGED vars
  BY <1>0 DEF vars, pipes, host, agent, flags, Cancelled
<1>1. CASE DropIncoming
  BY <1>1 DEF DropIncoming, pipes, host, agent, flags, Cancelled
<1>2. CASE Notify
  BY <1>2 DEF Notify, pipes, host, agent, flags, Cancelled
<1>3. CASE Install
  BY <1>3 DEF Install, pipes, host, agent, flags, Cancelled
<1>4. CASE StartReader
  BY <1>4 DEF StartReader, pipes, host, agent, flags, Cancelled
<1>5. CASE OpenSession
  BY <1>5 DEF OpenSession, pipes, host, agent, flags, Cancelled
<1>6. CASE CloseSession
  BY <1>6 DEF CloseSession, pipes, host, agent, flags, Cancelled
<1>7. CASE Close
  BY <1>7 DEF Close, pipes, host, agent, flags, Cancelled
<1>8. ASSUME NEW f \in Frames, Enter(f)
      PROVE  Cancelled'
  BY <1>8 DEF Enter, pipes, host, agent, flags, Cancelled
<1>9. ASSUME NEW f \in Frames, TakeLock(f)
      PROVE  Cancelled'
  BY <1>9 DEF TakeLock, pipes, host, agent, flags, Cancelled
<1>10. ASSUME NEW f \in Frames, WriteBody(f)
      PROVE  Cancelled'
  BY <1>10 DEF WriteBody, pipes, host, agent, flags, Cancelled
<1>11. CASE Loop
  BY <1>11 DEF Loop, pipes, host, agent, flags, Cancelled
<1>12. CASE ReadFrame
  BY <1>12 DEF ReadFrame, pipes, host, agent, flags, Cancelled
<1>13. CASE Recheck
  BY <1>13 DEF Recheck, pipes, host, agent, flags, Cancelled
<1>14. CASE Deliver
  BY <1>14 DEF Deliver, pipes, host, agent, flags, Cancelled
<1>15. CASE Leave
  BY <1>15 DEF Leave, pipes, host, agent, flags, Cancelled
<1>16. CASE OnData
  <2> PICK n \in DOMAIN down :
         LET p == buffer \o SubSeq(down, 1, n)
         IN /\ down' = SubSeq(down, n + 1, Len(down))
            /\ IF Malformed(p)
               THEN peer' = FALSE /\ job' = Aborted(job) /\ UNCHANGED <<buffer, got>>
               ELSE /\ buffer' = Rest(p)
                    /\ got' = got \o Drained(p)
                    /\ job' = Dispatched(Drained(p))
                    /\ UNCHANGED peer
    BY <1>16 DEF OnData
  <2> DEFINE p == buffer \o SubSeq(down, 1, n)
             D == Drained(p)
  <2>2. CASE Malformed(p)
    <3>1. got' = got /\ job' = Aborted(job)
      BY <2>2
    <3> QED BY <1>t, <3>1 DEF Cancelled, Aborted
  <2>3. CASE ~Malformed(p)
    <3>0. n \in 1..Len(down) /\ peer
      BY <1>16, DownTyped, LenProperties DEF OnData
    <3>1. D \in Seq(Frames)
      BY <2>3, <3>0, TypeParts, TakenDown
    <3>2. got' = got \o D /\ job' = Dispatched(D)
      BY <2>3
    <3> HIDE DEF D
    <3> SUFFICES ASSUME NEW r \in Requests
                 PROVE  /\ Contains(got', <<"request", r>>) => job'[r] # "none"
                        /\ Precedes(<<"request", r>>, <<"cancel", r>>, got') => job'[r] # "running"
      BY DEF Cancelled
    <3> DEFINE request == <<"request", r>>
               cancel == <<"cancel", r>>
    <3>3. job'[r] = CASE \/ job[r] = "running" /\ Contains(D, cancel)
                         \/ Precedes(request, cancel, D) -> "aborted"
                      [] job[r] = "none" /\ Contains(D, request)
                         /\ ~Precedes(request, cancel, D) -> "running"
                      [] OTHER -> job[r]
      BY <3>2 DEF Dispatched
    <3>4. /\ Contains(got, request) => job[r] # "none"
          /\ Precedes(request, cancel, got) => job[r] # "running" /\ Contains(got, request)
      <4>1. DOMAIN got = 1..Len(got)
        BY <1>t, LenProperties
      <4>2. Precedes(request, cancel, got) => Contains(got, request)
        BY <4>1 DEF Precedes, Contains
      <4> QED BY <4>2 DEF Cancelled
    <3>5. /\ Contains(got', request) => Contains(got, request) \/ Contains(D, request)
          /\ Precedes(request, cancel, got')
               => \/ Precedes(request, cancel, got) \/ Precedes(request, cancel, D)
                  \/ (Contains(got, request) /\ Contains(D, cancel))
      BY <1>t, <3>1, <3>2, MoreGot
    <3>6. job[r] \in {"none", "running", "aborted", "done"}
      BY <1>t
    <3> HIDE DEF request, cancel
    <3>7. job'[r] = "running" => \/ job[r] = "running" /\ ~Contains(D, cancel) /\ ~Precedes(request, cancel, D)
                                 \/ job[r] = "none" /\ ~Precedes(request, cancel, D)
      BY <3>3, <3>6
    <3>8. job'[r] = "none" => job[r] = "none" /\ (~Contains(D, request) \/ Precedes(request, cancel, D))
                              /\ ~Precedes(request, cancel, D)
      BY <3>3, <3>6
    <3> QED BY <3>4, <3>5, <3>7, <3>8 DEF request, cancel
  <2> QED BY <2>2, <2>3
<1>17. CASE OnEnd
  <2>1. got' = got /\ job' = Aborted(job)
    BY <1>17 DEF OnEnd
  <2> QED BY <1>t, <2>1 DEF Cancelled, Aborted
<1>18. CASE OnError
  <2>1. got' = got /\ job' = Aborted(job)
    BY <1>18 DEF OnError
  <2> QED BY <1>t, <2>1 DEF Cancelled, Aborted
<1>19. ASSUME NEW r \in Requests, Answer(r)
      PROVE  Cancelled'
  <2>1. got' = got /\ job' = [job EXCEPT ![r] = "done"]
    BY <1>19 DEF Answer
  <2> QED BY <1>t, <2>1 DEF Cancelled
<1>20. CASE WriteFrame
  BY <1>20 DEF WriteFrame, pipes, host, agent, flags, Cancelled
<1>21. CASE PipeDrained
  BY <1>21 DEF PipeDrained, pipes, host, agent, flags, Cancelled
<1>22. CASE AgentExits
  <2>1. got' = got /\ job' = Aborted(job)
    BY <1>22 DEF AgentExits
  <2> QED BY <1>t, <2>1 DEF Cancelled, Aborted
<1>23. CASE HostExits
  BY <1>23 DEF HostExits, pipes, host, agent, flags, Cancelled
<1>24. CASE Stray
  BY <1>24 DEF Stray, pipes, host, agent, flags, Cancelled
<1> QED
  BY <1>0, <1>1, <1>2, <1>3, <1>4, <1>5, <1>6, <1>7, <1>8, <1>9, <1>10, <1>11, <1>12,
     <1>13, <1>14, <1>15, <1>16, <1>17, <1>18, <1>19, <1>20, <1>21, <1>22,
     <1>23, <1>24
  DEF Next, Opening, Marking, Reading, Sending, Writing

LEMMA UpStep ==
  ASSUME TypeOK, Up, [Next]_vars
  PROVE  Up'
<1>t. up \in Seq(Units) /\ chain \in Seq(Answers) /\ Len(up) \in Nat
  BY TypeParts, LenProperties DEF TypePipes, TypeAgent
<1>0. CASE UNCHANGED vars
  BY <1>0 DEF vars, pipes, host, agent, flags, Up
<1>1. CASE DropIncoming
  BY <1>1 DEF DropIncoming, pipes, host, agent, flags, Up
<1>2. CASE Notify
  BY <1>2 DEF Notify, pipes, host, agent, flags, Up
<1>3. CASE Install
  BY <1>3 DEF Install, pipes, host, agent, flags, Up
<1>4. CASE StartReader
  BY <1>4 DEF StartReader, pipes, host, agent, flags, Up
<1>5. CASE OpenSession
  BY <1>5 DEF OpenSession, pipes, host, agent, flags, Up
<1>6. CASE CloseSession
  BY <1>6 DEF CloseSession, pipes, host, agent, flags, Up
<1>7. CASE Close
  BY <1>7 DEF Close, pipes, host, agent, flags, Up
<1>8. ASSUME NEW f \in Frames, Enter(f)
      PROVE  Up'
  BY <1>8 DEF Enter, pipes, host, agent, flags, Up
<1>9. ASSUME NEW f \in Frames, TakeLock(f)
      PROVE  Up'
  BY <1>9 DEF TakeLock, pipes, host, agent, flags, Up
<1>10. ASSUME NEW f \in Frames, WriteBody(f)
      PROVE  Up'
  BY <1>10 DEF WriteBody, pipes, host, agent, flags, Up
<1>11. CASE Loop
  BY <1>11 DEF Loop, pipes, host, agent, flags, Up
<1>12. CASE ReadFrame
  <2>1. CASE /\ FrameEnd(up) > 0 /\ ~Malformed(SubSeq(up, 1, FrameEnd(up)))
             /\ up' = SubSeq(up, FrameEnd(up) + 1, Len(up))
    <3>1. /\ FrameEnd(up) \in 1..Len(up) /\ up[FrameEnd(up)] \in Answers
          /\ up' \in Seq(Units) /\ Behind(up', up, FrameEnd(up))
      BY <1>t, <2>1, FrameRead DEF Up
    <3>2. FrameEnd(up) \in Nat /\ Len(up') \in Nat
      BY <1>t, <3>1, LenProperties
    <3>3. \A b \in Answers : b \notin Lines
      BY Apart
    <3> QED BY <1>t, <3>1, <3>2, <3>3, FormedBehind DEF Up
  <2>2. CASE up' = up
    BY <2>2 DEF Up
  <2> QED BY <1>12, <2>1, <2>2 DEF ReadFrame
<1>13. CASE Recheck
  BY <1>13 DEF Recheck, pipes, host, agent, flags, Up
<1>14. CASE Deliver
  BY <1>14 DEF Deliver, pipes, host, agent, flags, Up
<1>15. CASE Leave
  BY <1>15 DEF Leave, pipes, host, agent, flags, Up
<1>16. CASE OnData
  BY <1>16 DEF OnData, pipes, host, agent, flags, Up
<1>17. CASE OnEnd
  BY <1>17 DEF OnEnd, pipes, host, agent, flags, Up
<1>18. CASE OnError
  BY <1>18 DEF OnError, pipes, host, agent, flags, Up
<1>19. ASSUME NEW r \in Requests, Answer(r)
      PROVE  Up'
  BY <1>19 DEF Answer, pipes, host, agent, flags, Up
<1>20. CASE WriteFrame
  <2>1. CASE up' = up
    BY <2>1 DEF Up
  <2>2. CASE up' = up \o <<Length, Blank, Head(chain)>>
    <3>1. Head(chain) \in Answers
      BY <1>t, <1>20, HeadTailProperties DEF WriteFrame
    <3>2. up' = Append(Append(Append(up, Length), Blank), Head(chain))
      BY <1>t, <2>2, <3>1, AddedThree DEF Units
    <3>3. Append(Append(up, Length), Blank) \in Seq(Units)
      <4>1. Length \in Units /\ Blank \in Units
        BY DEF Units
      <4>2. Append(up, Length) \in Seq(Units)
        BY <1>t, <4>1, AppendLonger
      <4> QED BY <4>1, <4>2, AppendLonger
    <3>4. Formed(Append(Append(up, Length), Blank), Answers) /\ Open(Append(Append(up, Length), Blank))
      <4> DEFINE h == Append(up, Length)
      <4>1. Length \in Units /\ h \in Seq(Units) /\ Formed(h, Answers) /\ ~Open(h)
        BY <1>t, AddLength, AppendLonger DEF Up, Units
      <4>2. Len(h) > 0 /\ h[Len(h)] = Length
        BY <1>t, <4>1, AppendLonger
      <4> HIDE DEF h
      <4>3. Formed(Append(h, Blank), Answers) /\ Open(Append(h, Blank))
        BY <4>1, <4>2, AddBlank
      <4> QED BY <4>3 DEF h
    <3> QED BY <3>1, <3>2, <3>3, <3>4, AddBody DEF Up
  <2> QED BY <1>20, <2>1, <2>2 DEF WriteFrame
<1>21. CASE PipeDrained
  BY <1>21 DEF PipeDrained, pipes, host, agent, flags, Up
<1>22. CASE AgentExits
  BY <1>22 DEF AgentExits, pipes, host, agent, flags, Up
<1>23. CASE HostExits
  BY <1>23 DEF HostExits, pipes, host, agent, flags, Up
<1>24. CASE Stray
  <2>1. CASE up' = up
    BY <2>1 DEF Up
  <2>2. CASE up' = Append(up, StrayLine)
    BY <1>t, <2>2, AddStray DEF Up
  <2>3. CASE up' = up \o <<StrayLine, Blank>>
    <3> DEFINE h == Append(up, StrayLine)
    <3>1. StrayLine \in Units /\ Blank \in Units
      BY DEF Units
    <3>2. h \in Seq(Units) /\ Formed(h, Answers) /\ Shut(h) /\ Len(h) > 0 /\ h[Len(h)] = StrayLine
      BY <1>t, <3>1, AddStray, AppendLonger DEF Up
    <3>3. up' = Append(h, Blank)
      BY <1>t, <2>3, <3>1, AddedTwo
    <3> HIDE DEF h
    <3>4. ~Open(h)
      BY <3>2, Apart DEF Open
    <3>5. Formed(Append(h, Blank), Answers) /\ Shut(Append(h, Blank))
      BY <3>2, <3>4, AddBlank
    <3> QED BY <3>3, <3>5 DEF Up
  <2> QED BY <1>24, <2>1, <2>2, <2>3 DEF Stray
<1> QED
  BY <1>0, <1>1, <1>2, <1>3, <1>4, <1>5, <1>6, <1>7, <1>8, <1>9, <1>10, <1>11, <1>12,
     <1>13, <1>14, <1>15, <1>16, <1>17, <1>18, <1>19, <1>20, <1>21, <1>22,
     <1>23, <1>24
  DEF Next, Opening, Marking, Reading, Sending, Writing

\* Nothing has happened to the way back of the answers, or nobody listens any more.
LEMMA BackFrame ==
  ASSUME Back, Listening' => Listening, HandFull' = HandFull, hand' = hand \/ ~HandFull',
         up' = up, heard' = heard, answered' = answered, chain' = chain \/ ~(peer' /\ ~upEnds'),
         peer' /\ ~upEnds' => peer /\ ~upEnds
  PROVE  Back'
<1> SUFFICES ASSUME Listening' PROVE Back'
  BY DEF Back
<1>1. /\ HandFull => Len(heard) < Len(answered) /\ hand[1] = answered[Len(heard) + 1]
      /\ Carries(up, Answers, answered, Ahead)
      /\ peer /\ ~upEnds =>
           /\ Ahead + Count(up, Answers, Len(up)) + Len(chain) = Len(answered)
           /\ \A k \in 1..Len(chain) : chain[k] = answered[Ahead + Count(up, Answers, Len(up)) + k]
  BY DEF Back
<1>2. Ahead' = Ahead
  BY DEF Ahead
<1> QED BY <1>1, <1>2 DEF Back

LEMMA BackTyped ==
  ASSUME TypeOK
  PROVE  /\ up \in Seq(Units) /\ chain \in Seq(Answers) /\ heard \in Seq(Answers) /\ answered \in Seq(Answers)
         /\ Len(up) \in Nat /\ Len(chain) \in Nat /\ Len(heard) \in Nat /\ Len(answered) \in Nat
         /\ Ahead \in Nat /\ Count(up, Answers, Len(up)) \in Nat
<1>1. up \in Seq(Units) /\ chain \in Seq(Answers) /\ heard \in Seq(Answers) /\ answered \in Seq(Answers)
  BY TypeParts DEF TypePipes, TypeHistory, TypeAgent
<1>2. Len(up) \in Nat /\ Len(chain) \in Nat /\ Len(heard) \in Nat /\ Len(answered) \in Nat
  BY <1>1, LenProperties
<1> QED BY <1>1, <1>2, CountNat DEF Ahead

LEMMA BackStep ==
  ASSUME TypeOK, Up, InHand, Back, [Next]_vars
  PROVE  Back'
<1>t. /\ up \in Seq(Units) /\ chain \in Seq(Answers) /\ heard \in Seq(Answers) /\ answered \in Seq(Answers)
      /\ Len(up) \in Nat /\ Len(chain) \in Nat /\ Len(heard) \in Nat /\ Len(answered) \in Nat
      /\ Ahead \in Nat /\ Count(up, Answers, Len(up)) \in Nat
  BY BackTyped
<1>u. Listening =>
        /\ HandFull => Len(heard) < Len(answered) /\ hand[1] = answered[Len(heard) + 1]
        /\ Carries(up, Answers, answered, Ahead)
        /\ peer /\ ~upEnds =>
             /\ Ahead + Count(up, Answers, Len(up)) + Len(chain) = Len(answered)
             /\ \A k \in 1..Len(chain) : chain[k] = answered[Ahead + Count(up, Answers, Len(up)) + k]
  BY DEF Back
<1>v. ~Listening' => Back'
  BY DEF Back
<1>0. CASE UNCHANGED vars
  BY <1>0, BackFrame DEF vars, pipes, host, agent, flags, Listening, HandFull
<1>1. CASE DropIncoming
  BY <1>1, BackFrame DEF DropIncoming, pipes, host, agent, flags, Listening, HandFull
<1>2. CASE Notify
  BY <1>2, BackFrame DEF Notify, pipes, host, agent, flags, Listening, HandFull
<1>3. CASE Install
  BY <1>3, BackFrame DEF Install, pipes, host, agent, flags, Listening, HandFull
<1>4. CASE StartReader
  BY <1>4, BackFrame DEF StartReader, pipes, host, agent, flags, Listening, HandFull, InHand
<1>5. CASE OpenSession
  BY <1>5, BackFrame DEF OpenSession, pipes, host, agent, flags, Listening, HandFull
<1>6. CASE CloseSession
  BY <1>6, BackFrame DEF CloseSession, pipes, host, agent, flags, Listening, HandFull
<1>7. CASE Close
  BY <1>7, BackFrame DEF Close, pipes, host, agent, flags, Listening, HandFull
<1>8. ASSUME NEW f \in Frames, Enter(f)
      PROVE  Back'
  BY <1>8, BackFrame DEF Enter, pipes, host, agent, flags, Listening, HandFull
<1>9. ASSUME NEW f \in Frames, TakeLock(f)
      PROVE  Back'
  BY <1>9, BackFrame DEF TakeLock, pipes, host, agent, flags, Listening, HandFull
<1>10. ASSUME NEW f \in Frames, WriteBody(f)
      PROVE  Back'
  BY <1>10, BackFrame DEF WriteBody, pipes, host, agent, flags, Listening, HandFull
<1>11. CASE Loop
  BY <1>11, BackFrame DEF Loop, pipes, host, agent, flags, Listening, HandFull
<1>12. CASE ReadFrame
  <2>0. /\ heard' = heard /\ answered' = answered /\ chain' = chain /\ peer' = peer /\ upEnds' = upEnds
        /\ opener' = opener /\ incoming' = incoming /\ reader = "reading"
    BY <1>12 DEF ReadFrame, agent, flags
  <2>1. CASE /\ FrameEnd(up) > 0 /\ ~Malformed(SubSeq(up, 1, FrameEnd(up)))
             /\ hand' = <<up[FrameEnd(up)], closed>>
             /\ up' = SubSeq(up, FrameEnd(up) + 1, Len(up))
             /\ reader' = "read"
    <3> SUFFICES ASSUME Listening' PROVE Back'
      BY <1>v
    <3>1. Listening /\ HandFull' /\ ~HandFull /\ Ahead = Len(heard) /\ Ahead' = Len(heard) + 1
      BY <2>0, <2>1 DEF Listening, HandFull, Ahead
    <3> DEFINE e == FrameEnd(up)
    <3>2. /\ e \in 1..Len(up) /\ up[e] \in Answers /\ Count(up, Answers, e) = 1
          /\ up' \in Seq(Units) /\ Behind(up', up, e)
      BY <1>t, <2>1, FrameRead DEF Up
    <3> HIDE DEF e
    <3>3. e \in Nat /\ Len(up') \in Nat
      BY <1>t, <3>2, LenProperties
    <3>4. Carries(up, Answers, answered, Len(heard))
      BY <1>u, <3>1
    <3>5. /\ Carries(up', Answers, answered, Len(heard) + 1)
          /\ Count(up, Answers, Len(up)) = 1 + Count(up', Answers, Len(up'))
      BY <1>t, <3>2, <3>3, <3>4, CarriesBehind
    <3>6. up[e] = answered[Len(heard) + 1] /\ Len(heard) < Len(answered)
      <4>1. up[e] = answered[Len(heard) + Count(up, Answers, e)]
        BY <3>2, <3>4 DEF Carries
      <4>2. Count(up', Answers, Len(up')) \in Nat
        BY <3>3, CountNat
      <4>3. Len(heard) + Count(up, Answers, Len(up)) <= Len(answered)
        BY <3>4 DEF Carries
      <4>4. Len(heard) < Len(answered)
        BY <1>t, <3>5, <4>2, <4>3
      <4> QED BY <3>2, <4>1, <4>4
    <3>7. hand'[1] = answered[Len(heard) + 1]
      <4>1. hand'[1] = up[e]
        BY <2>1 DEF e
      <4> QED BY <3>6, <4>1
    <3>8. ASSUME peer', ~upEnds'
          PROVE  /\ Ahead' + Count(up', Answers, Len(up')) + Len(chain) = Len(answered)
                 /\ \A k \in 1..Len(chain) : chain[k] = answered[Ahead' + Count(up', Answers, Len(up')) + k]
      <4>1. /\ Ahead + Count(up, Answers, Len(up)) + Len(chain) = Len(answered)
            /\ \A k \in 1..Len(chain) : chain[k] = answered[Ahead + Count(up, Answers, Len(up)) + k]
        BY <1>u, <2>0, <3>1, <3>8
      <4>2. Count(up', Answers, Len(up')) \in Nat
        BY <3>3, CountNat
      <4>3. Ahead' + Count(up', Answers, Len(up')) = Ahead + Count(up, Answers, Len(up))
        <5>1. Ahead' + Count(up', Answers, Len(up')) = (Len(heard) + 1) + Count(up', Answers, Len(up'))
          BY <3>1
        <5>2. Ahead + Count(up, Answers, Len(up)) = Len(heard) + (1 + Count(up', Answers, Len(up')))
          BY <3>1, <3>5
        <5>3. \A x, y \in Nat : (x + 1) + y = x + (1 + y)
          OBVIOUS
        <5> QED BY <1>t, <4>2, <5>1, <5>2, <5>3
      <4> QED BY <4>1, <4>3
    <3>9. Carries(up', Answers, answered', Ahead')
      BY <2>0, <3>1, <3>5
    <3>10. Len(heard') < Len(answered') /\ hand'[1] = answered'[Len(heard') + 1]
      BY <2>0, <3>6, <3>7
    <3>11. peer' /\ ~upEnds' =>
             /\ Ahead' + Count(up', Answers, Len(up')) + Len(chain') = Len(answered')
             /\ \A k \in 1..Len(chain') : chain'[k] = answered'[Ahead' + Count(up', Answers, Len(up')) + k]
      BY <2>0, <3>8
    <3> QED BY <3>9, <3>10, <3>11 DEF Back
  <2>2. CASE reader' = "leaving"
    BY <1>v, <2>2 DEF Listening
  <2> QED BY <1>12, <2>1, <2>2 DEF ReadFrame
<1>13. CASE Recheck
  <2>1. CASE closed
    BY <1>13, <1>v, <2>1 DEF Recheck, Listening
  <2>2. CASE ~closed
    BY <1>13, <2>2, BackFrame DEF Recheck, pipes, agent, flags, Listening, HandFull
  <2> QED BY <2>1, <2>2
<1>14. CASE Deliver
  <2> SUFFICES ASSUME Listening' PROVE Back'
    BY <1>v
  <2>1. /\ up' = up /\ answered' = answered /\ chain' = chain /\ peer' = peer /\ upEnds' = upEnds
        /\ reader = "checked" /\ reader' = "looping" /\ opener' = opener /\ incoming' = incoming
    BY <1>14 DEF Deliver, pipes, agent, flags
  <2>2. incoming /\ Listening /\ HandFull /\ ~HandFull'
    BY <2>1 DEF Listening, HandFull, InHand
  <2>3. heard' = Append(heard, hand[1]) /\ hand[1] \in Answers
    BY <1>14, <2>2 DEF Deliver, InHand
  <2>4. Len(heard') = Len(heard) + 1
    BY <1>t, <2>3, AppendProperties
  <2>5. Ahead' = Ahead
    BY <2>2, <2>4 DEF Ahead
  <2>6. Carries(up', Answers, answered', Ahead')
    BY <1>u, <2>1, <2>2, <2>5
  <2>7. peer' /\ ~upEnds' =>
          /\ Ahead' + Count(up', Answers, Len(up')) + Len(chain') = Len(answered')
          /\ \A k \in 1..Len(chain') : chain'[k] = answered'[Ahead' + Count(up', Answers, Len(up')) + k]
    BY <1>u, <2>1, <2>2, <2>5
  <2> QED BY <2>2, <2>6, <2>7 DEF Back
<1>15. CASE Leave
  BY <1>15, <1>v DEF Leave, Listening
<1>16. CASE OnData
  BY <1>16, BackFrame DEF OnData, pipes, host, agent, flags, Listening, HandFull
<1>17. CASE OnEnd
  BY <1>17, BackFrame DEF OnEnd, pipes, host, agent, flags, Listening, HandFull
<1>18. CASE OnError
  BY <1>18, BackFrame DEF OnError, pipes, host, agent, flags, Listening, HandFull
<1>19. ASSUME NEW r \in Requests, Answer(r)
      PROVE  Back'
  <2>1. /\ up' = up /\ heard' = heard /\ hand' = hand /\ reader' = reader /\ opener' = opener
        /\ incoming' = incoming /\ peer' = peer /\ upEnds' = upEnds
    BY <1>19 DEF Answer, pipes, host, flags
  <2>2. Listening' = Listening /\ HandFull' = HandFull /\ Ahead' = Ahead
    BY <2>1 DEF Listening, HandFull, Ahead
  <2>3. CASE answered' = answered /\ chain' = chain
    BY <2>1, <2>2, <2>3, BackFrame
  <2>4. CASE answered' = Append(answered, <<"answer", r>>) /\ chain' = Append(chain, <<"answer", r>>)
    <3> SUFFICES ASSUME Listening PROVE Back'
      BY <1>v, <2>2
    <3>0. <<"answer", r>> \in Answers
      BY DEF Answers
    <3>1. /\ Len(answered') = Len(answered) + 1 /\ Len(answered') \in Nat
          /\ \A i \in 1..Len(answered) : answered'[i] = answered[i]
          /\ answered'[Len(answered) + 1] = <<"answer", r>>
      BY <1>t, <2>4, <3>0, AppendProperties
    <3>2. /\ Len(chain') = Len(chain) + 1
          /\ \A i \in 1..Len(chain) : chain'[i] = chain[i]
          /\ chain'[Len(chain) + 1] = <<"answer", r>>
      BY <1>t, <2>4, <3>0, AppendProperties
    <3>3. Carries(up, Answers, answered', Ahead)
      <4>1. Len(answered) <= Len(answered')
        BY <1>t, <3>1
      <4> QED BY <1>t, <1>u, <3>1, <4>1, CarriesGrown
    <3>4. HandFull' => Len(heard') < Len(answered') /\ hand'[1] = answered'[Len(heard') + 1]
      <4> HAVE HandFull'
      <4>1. Len(heard) < Len(answered) /\ hand[1] = answered[Len(heard) + 1]
        BY <1>u, <2>2
      <4>2. Len(heard) + 1 \in 1..Len(answered)
        BY <1>t, <4>1
      <4> QED BY <1>t, <2>1, <3>1, <4>1, <4>2
    <3>5. ASSUME peer', ~upEnds'
          PROVE  /\ Ahead + Count(up, Answers, Len(up)) + Len(chain') = Len(answered')
                 /\ \A k \in 1..Len(chain') : chain'[k] = answered'[Ahead + Count(up, Answers, Len(up)) + k]
      <4> DEFINE c == Ahead + Count(up, Answers, Len(up))
      <4>1. /\ c + Len(chain) = Len(answered) /\ c \in Nat
            /\ \A k \in 1..Len(chain) : chain[k] = answered[c + k]
        BY <1>t, <1>u, <2>1, <3>5
      <4> HIDE DEF c
      <4>2. c + Len(chain') = Len(answered')
        BY <1>t, <3>1, <3>2, <4>1
      <4>3. ASSUME NEW k \in 1..Len(chain')
            PROVE  chain'[k] = answered'[c + k]
        <5>1. CASE k \in 1..Len(chain)
          <6>1. c + k \in 1..Len(answered)
            BY <1>t, <4>1, <5>1
          <6> QED BY <3>1, <3>2, <4>1, <5>1, <6>1
        <5>2. CASE k = Len(chain) + 1
          <6>1. c + k = Len(answered) + 1
            <7>1. \A x, y \in Nat : x + (y + 1) = (x + y) + 1
              OBVIOUS
            <7>2. c + (Len(chain) + 1) = (c + Len(chain)) + 1
              BY <1>t, <4>1, <7>1
            <7> QED BY <4>1, <5>2, <7>2
          <6> QED BY <3>1, <3>2, <5>2, <6>1
        <5> QED BY <1>t, <3>2, <5>1, <5>2
      <4> QED BY <4>2, <4>3 DEF c
    <3>6. Carries(up', Answers, answered', Ahead')
      BY <2>1, <2>2, <3>3
    <3>7. peer' /\ ~upEnds' =>
            /\ Ahead' + Count(up', Answers, Len(up')) + Len(chain') = Len(answered')
            /\ \A k \in 1..Len(chain') : chain'[k] = answered'[Ahead' + Count(up', Answers, Len(up')) + k]
      BY <2>1, <2>2, <3>5
    <3> QED BY <3>4, <3>6, <3>7 DEF Back
  <2> QED BY <1>19, <2>3, <2>4 DEF Answer
<1>20. CASE WriteFrame
  <2>1. /\ heard' = heard /\ hand' = hand /\ reader' = reader /\ opener' = opener /\ answered' = answered
        /\ incoming' = incoming /\ peer' = peer /\ upEnds' = upEnds /\ chain # <<>> /\ chain' = Tail(chain)
    BY <1>20 DEF WriteFrame, host, flags
  <2>2. Listening' = Listening /\ HandFull' = HandFull /\ Ahead' = Ahead
    BY <2>1 DEF Listening, HandFull, Ahead
  <2>3. CASE ~(peer /\ ~upEnds)
    <3>1. up' = up
      BY <1>20, <2>3 DEF WriteFrame
    <3> QED BY <2>1, <2>2, <2>3, <3>1, BackFrame
  <2>4. CASE peer /\ ~upEnds
    <3> SUFFICES ASSUME Listening PROVE Back'
      BY <1>v, <2>2
    <3> DEFINE c == Ahead + Count(up, Answers, Len(up))
               h == Append(Append(up, Length), Blank)
               a == Head(chain)
    <3>1. /\ c + Len(chain) = Len(answered) /\ c \in Nat
          /\ \A k \in 1..Len(chain) : chain[k] = answered[c + k]
      BY <1>t, <1>u, <2>4
    <3>2. /\ a \in Answers /\ Len(chain) > 0 /\ a = chain[1]
          /\ Len(chain') = Len(chain) - 1 /\ \A i \in 1..Len(chain') : chain'[i] = chain[i + 1]
      <4>1. Len(chain) > 0
        BY <1>t, <2>1, EmptySeq
      <4>2. a = chain[1]
        BY <4>1
      <4> QED BY <1>t, <2>1, <4>1, <4>2, HeadTailProperties
    <3> HIDE DEF a
    <3>3. up' = Append(h, a)
      <4>1. up' = up \o <<Length, Blank, a>>
        BY <1>20, <2>4 DEF WriteFrame, a
      <4> QED BY <1>t, <3>2, <4>1, AddedThree DEF Units
    <3>4. /\ h \in Seq(Units) /\ Carries(h, Answers, answered, Ahead)
          /\ Count(h, Answers, Len(h)) = Count(up, Answers, Len(up))
      BY <1>t, <1>u, HeaderAdded DEF Up
    <3> HIDE DEF h
    <3>5. c < Len(answered) /\ answered[c + 1] = a
      BY <1>t, <3>1, <3>2
    <3>6. /\ Carries(Append(h, a), Answers, answered, Ahead)
          /\ Count(Append(h, a), Answers, Len(Append(h, a))) = Count(h, Answers, Len(h)) + 1
      <4>1. /\ Ahead + Count(h, Answers, Len(h)) < Len(answered)
            /\ answered[Ahead + Count(h, Answers, Len(h)) + 1] = a
        BY <3>4, <3>5
      <4>2. Len(answered) <= Len(answered) /\ \A i \in 1..Len(answered) : answered[i] = answered[i]
        BY <1>t
      <4> QED BY <1>t, <3>2, <3>4, <4>1, <4>2, BodyCarries
    <3>7. Carries(up', Answers, answered', Ahead')
      BY <2>1, <2>2, <3>3, <3>6
    <3>8. Ahead' + Count(up', Answers, Len(up')) = c + 1
      <4>1. Count(up', Answers, Len(up')) = Count(up, Answers, Len(up)) + 1
        BY <3>3, <3>4, <3>6
      <4> QED BY <1>t, <2>2, <4>1
    <3> HIDE DEF c
    <3>9. Ahead' + Count(up', Answers, Len(up')) + Len(chain') = Len(answered')
      BY <1>t, <2>1, <3>1, <3>2, <3>8
    <3>10. ASSUME NEW k \in 1..Len(chain')
           PROVE  chain'[k] = answered'[Ahead' + Count(up', Answers, Len(up')) + k]
      <4>1. chain'[k] = chain[k + 1] /\ k + 1 \in 1..Len(chain)
        BY <1>t, <3>2
      <4>2. chain[k + 1] = answered[c + (k + 1)]
        BY <3>1, <4>1
      <4>3. c + (k + 1) = (c + 1) + k
        BY <3>1
      <4> QED BY <2>1, <3>8, <4>1, <4>2, <4>3
    <3>11. HandFull' => Len(heard') < Len(answered') /\ hand'[1] = answered'[Len(heard') + 1]
      BY <1>u, <2>1, <2>2
    <3> QED BY <3>7, <3>9, <3>10, <3>11 DEF Back
  <2> QED BY <2>3, <2>4
<1>21. CASE PipeDrained
  BY <1>21, BackFrame DEF PipeDrained, pipes, host, agent, flags, Listening, HandFull
<1>22. CASE AgentExits
  BY <1>22, BackFrame DEF AgentExits, pipes, host, agent, flags, Listening, HandFull
<1>23. CASE HostExits
  BY <1>23, BackFrame DEF HostExits, pipes, host, agent, flags, Listening, HandFull
<1>24. CASE Stray
  <2>1. /\ heard' = heard /\ hand' = hand /\ reader' = reader /\ opener' = opener /\ answered' = answered
        /\ incoming' = incoming /\ peer' = peer /\ upEnds' = upEnds /\ chain' = chain
    BY <1>24 DEF Stray, host, agent, flags
  <2>2. Listening' = Listening /\ HandFull' = HandFull /\ Ahead' = Ahead
    BY <2>1 DEF Listening, HandFull, Ahead
  <2>3. CASE up' = up
    BY <2>1, <2>2, <2>3, BackFrame
  <2>4. CASE up' \in {Append(up, StrayLine), up \o <<StrayLine, Blank>>}
    <3> SUFFICES ASSUME Listening PROVE Back'
      BY <1>v, <2>2
    <3>1. up' \in {Append(up, StrayLine), Append(Append(up, StrayLine), Blank)}
      BY <1>t, <2>4, AddedTwo DEF Units
    <3>2. /\ Carries(up', Answers, answered, Ahead)
          /\ Count(up', Answers, Len(up')) = Count(up, Answers, Len(up))
      BY <1>t, <1>u, <3>1, StrayAdded DEF Up
    <3>3. Carries(up', Answers, answered', Ahead')
      BY <2>1, <2>2, <3>2
    <3>4. HandFull' => Len(heard') < Len(answered') /\ hand'[1] = answered'[Len(heard') + 1]
      BY <1>u, <2>1, <2>2
    <3>5. peer' /\ ~upEnds' =>
            /\ Ahead' + Count(up', Answers, Len(up')) + Len(chain') = Len(answered')
            /\ \A k \in 1..Len(chain') : chain'[k] = answered'[Ahead' + Count(up', Answers, Len(up')) + k]
      BY <1>u, <2>1, <2>2, <3>2
    <3> QED BY <3>3, <3>4, <3>5 DEF Back
  <2> QED BY <1>24, <2>3, <2>4 DEF Stray
<1> QED
  BY <1>0, <1>1, <1>2, <1>3, <1>4, <1>5, <1>6, <1>7, <1>8, <1>9, <1>10, <1>11, <1>12,
     <1>13, <1>14, <1>15, <1>16, <1>17, <1>18, <1>19, <1>20, <1>21, <1>22,
     <1>23, <1>24
  DEF Next, Opening, Marking, Reading, Sending, Writing

LEMMA HeardStep ==
  ASSUME TypeOK, InHand, Back, HeardAnswered, [Next]_vars
  PROVE  HeardAnswered'
<1>t. heard \in Seq(Answers) /\ answered \in Seq(Answers) /\ Len(heard) \in Nat /\ Len(answered) \in Nat
  BY BackTyped
<1>0. CASE UNCHANGED vars
  BY <1>0 DEF vars, pipes, host, agent, flags, HeardAnswered
<1>1. CASE DropIncoming
  BY <1>1 DEF DropIncoming, pipes, host, agent, flags, HeardAnswered
<1>2. CASE Notify
  BY <1>2 DEF Notify, pipes, host, agent, flags, HeardAnswered
<1>3. CASE Install
  BY <1>3 DEF Install, pipes, host, agent, flags, HeardAnswered
<1>4. CASE StartReader
  BY <1>4 DEF StartReader, pipes, host, agent, flags, HeardAnswered
<1>5. CASE OpenSession
  BY <1>5 DEF OpenSession, pipes, host, agent, flags, HeardAnswered
<1>6. CASE CloseSession
  BY <1>6 DEF CloseSession, pipes, host, agent, flags, HeardAnswered
<1>7. CASE Close
  BY <1>7 DEF Close, pipes, host, agent, flags, HeardAnswered
<1>8. ASSUME NEW f \in Frames, Enter(f)
      PROVE  HeardAnswered'
  BY <1>8 DEF Enter, pipes, host, agent, flags, HeardAnswered
<1>9. ASSUME NEW f \in Frames, TakeLock(f)
      PROVE  HeardAnswered'
  BY <1>9 DEF TakeLock, pipes, host, agent, flags, HeardAnswered
<1>10. ASSUME NEW f \in Frames, WriteBody(f)
      PROVE  HeardAnswered'
  BY <1>10 DEF WriteBody, pipes, host, agent, flags, HeardAnswered
<1>11. CASE Loop
  BY <1>11 DEF Loop, pipes, host, agent, flags, HeardAnswered
<1>12. CASE ReadFrame
  BY <1>12 DEF ReadFrame, pipes, host, agent, flags, HeardAnswered
<1>13. CASE Recheck
  BY <1>13 DEF Recheck, pipes, host, agent, flags, HeardAnswered
<1>14. CASE Deliver
  <2>0. answered' = answered
    BY <1>14 DEF Deliver, agent
  <2>1. CASE heard' = heard
    BY <2>0, <2>1 DEF HeardAnswered
  <2>2. CASE incoming /\ heard' = Append(heard, hand[1])
    <3>1. Listening /\ HandFull
      BY <1>14, <2>2 DEF Deliver, Listening, HandFull
    <3>2. hand[1] \in Answers /\ Len(heard) < Len(answered) /\ hand[1] = answered[Len(heard) + 1]
      BY <3>1 DEF Back, InHand
    <3>3. /\ Len(heard') = Len(heard) + 1 /\ \A i \in 1..Len(heard) : heard'[i] = heard[i]
          /\ heard'[Len(heard) + 1] = hand[1]
      BY <1>t, <2>2, <3>2, AppendProperties
    <3>4. ASSUME NEW i \in 1..Len(heard')
          PROVE  heard'[i] = answered'[i]
      <4>1. i \in 1..Len(heard) \/ i = Len(heard) + 1
        BY <1>t, <3>3
      <4> QED BY <2>0, <3>2, <3>3, <4>1 DEF HeardAnswered
    <3>5. Len(heard') <= Len(answered')
      BY <1>t, <2>0, <3>2, <3>3
    <3> QED BY <3>4, <3>5 DEF HeardAnswered
  <2> QED BY <1>14, <2>1, <2>2 DEF Deliver
<1>15. CASE Leave
  BY <1>15 DEF Leave, pipes, host, agent, flags, HeardAnswered
<1>16. CASE OnData
  BY <1>16 DEF OnData, pipes, host, agent, flags, HeardAnswered
<1>17. CASE OnEnd
  BY <1>17 DEF OnEnd, pipes, host, agent, flags, HeardAnswered
<1>18. CASE OnError
  BY <1>18 DEF OnError, pipes, host, agent, flags, HeardAnswered
<1>19. ASSUME NEW r \in Requests, Answer(r)
      PROVE  HeardAnswered'
  <2>1. heard' = heard
    BY <1>19 DEF Answer, host
  <2>2. CASE answered' = answered
    BY <2>1, <2>2 DEF HeardAnswered
  <2>3. CASE answered' = Append(answered, <<"answer", r>>)
    <3>1. <<"answer", r>> \in Answers
      BY DEF Answers
    <3>2. Len(answered') = Len(answered) + 1 /\ \A i \in 1..Len(answered) : answered'[i] = answered[i]
      BY <1>t, <2>3, <3>1, AppendProperties
    <3>3. Len(heard') <= Len(answered')
      BY <1>t, <2>1, <3>2 DEF HeardAnswered
    <3>4. \A i \in 1..Len(heard') : heard'[i] = answered'[i]
      BY <1>t, <2>1, <3>2 DEF HeardAnswered
    <3> QED BY <3>3, <3>4 DEF HeardAnswered
  <2> QED BY <1>19, <2>2, <2>3 DEF Answer
<1>20. CASE WriteFrame
  BY <1>20 DEF WriteFrame, pipes, host, agent, flags, HeardAnswered
<1>21. CASE PipeDrained
  BY <1>21 DEF PipeDrained, pipes, host, agent, flags, HeardAnswered
<1>22. CASE AgentExits
  BY <1>22 DEF AgentExits, pipes, host, agent, flags, HeardAnswered
<1>23. CASE HostExits
  BY <1>23 DEF HostExits, pipes, host, agent, flags, HeardAnswered
<1>24. CASE Stray
  BY <1>24 DEF Stray, pipes, host, agent, flags, HeardAnswered
<1> QED
  BY <1>0, <1>1, <1>2, <1>3, <1>4, <1>5, <1>6, <1>7, <1>8, <1>9, <1>10, <1>11, <1>12,
     <1>13, <1>14, <1>15, <1>16, <1>17, <1>18, <1>19, <1>20, <1>21, <1>22,
     <1>23, <1>24
  DEF Next, Opening, Marking, Reading, Sending, Writing

IInv ==
  /\ TypeOK
  /\ Down /\ Locked /\ GotWritten
  /\ Up /\ InHand /\ Back /\ HeardAnswered
  /\ Closing /\ Cancelled

LEMMA InitIInv ==
  ASSUME Init
  PROVE  IInv
<1>1. /\ down = <<>> /\ up = <<>> /\ buffer = <<>> /\ written = <<>> /\ got = <<>>
      /\ heard = <<>> /\ answered = <<>> /\ chain = <<>>
      /\ writeLock = FALSE /\ reader = "none" /\ opener = "new" /\ late = {} /\ hand = <<Nil, FALSE>>
      /\ writer = [f \in Frames |-> "idle"] /\ job = [r \in Requests |-> "none"]
  BY DEF Init
<1>2. /\ <<>> \in Seq(Units) /\ <<>> \in Seq(Frames) /\ <<>> \in Seq(Answers) /\ Len(<<>>) = 0
  BY EmptySeq
<1>3. Stream = <<>>
  BY <1>1, <1>2, ConcatEmptySeq DEF Stream
<1>4. \A B : Formed(<<>>, B) /\ Shut(<<>>) /\ Count(<<>>, B, 0) = 0
  BY <1>2, CountNone DEF Formed, Shut
<1>5. \A B, w : Len(w) = 0 => Carries(<<>>, B, w, 0)
  BY <1>2, <1>4 DEF Carries
<1>6. TypeOK
  <2>1. TypePipes
    <3>1. strays = 0 /\ downEnds = FALSE /\ upEnds = FALSE
      BY DEF Init
    <3>2. 0 \in 0..MaxStray
      BY StdioAssumption
    <3> QED BY <1>1, <1>2, <3>1, <3>2 DEF TypePipes
  <2>2. TypeThreads
    <3>1. writer \in [Frames -> {"idle", "entering", "header", "sent", "failed"}]
      BY <1>1
    <3>2. hand \in (Answers \cup {Nil}) \X BOOLEAN
      BY <1>1
    <3>3. opener \in {"new", "installed", "starting", "live", "open"}
      BY <1>1
    <3> QED BY <1>1, <3>1, <3>2, <3>3 DEF TypeThreads
  <2>3. TypeFlags
    BY DEF Init, TypeFlags
  <2>4. TypeHistory
    BY <1>1, <1>2 DEF TypeHistory
  <2>5. TypeAgent
    BY <1>1, <1>2 DEF Init, TypeAgent
  <2> QED BY <2>1, <2>2, <2>3, <2>4, <2>5, TypeParts
<1>7. Down
  BY <1>1, <1>2, <1>3, <1>4, <1>5 DEF Down
<1>8. Locked /\ GotWritten
  BY <1>1, <1>2 DEF Locked, GotWritten
<1>9. Up /\ InHand
  BY <1>1, <1>4 DEF Up, InHand, HandFull
<1>10. Ahead = 0 /\ ~HandFull
  BY <1>1, <1>2 DEF Ahead, HandFull
<1>11. Back
  BY <1>1, <1>2, <1>4, <1>5, <1>10 DEF Back
<1>12. HeardAnswered /\ Closing
  BY <1>1, <1>2 DEF HeardAnswered, Closing
<1>13. Cancelled
  <2>1. \A x : ~Contains(got, x)
    BY <1>1, <1>2 DEF Contains
  <2>2. DOMAIN got = {}
    BY <1>1
  <2>3. \A x, y : ~Precedes(x, y, got)
    BY <2>2 DEF Precedes
  <2> QED BY <2>1, <2>3 DEF Cancelled
<1> QED BY <1>6, <1>7, <1>8, <1>9, <1>11, <1>12, <1>13 DEF IInv

LEMMA StepIInv ==
  ASSUME IInv, [Next]_vars
  PROVE  IInv'
<1>1. TypeOK' /\ Down'
  BY TypeStep, DownStep DEF IInv
<1>2. Locked' /\ GotWritten'
  BY LockedStep, GotWrittenStep DEF IInv
<1>3. Up' /\ InHand' /\ Back' /\ HeardAnswered'
  BY UpStep, InHandStep, BackStep, HeardStep DEF IInv
<1>4. Closing' /\ Cancelled'
  BY ClosingStep, CancelledStep DEF IInv
<1> QED BY <1>1, <1>2, <1>3, <1>4 DEF IInv

LEMMA Invariant == Spec => []IInv
<1>1. Init => IInv
  BY InitIInv
<1>2. IInv /\ [Next]_vars => IInv'
  BY StepIInv
<1> QED BY <1>1, <1>2, PTL DEF Spec

-----------------------------------------------------------------------------
(* The theorems. *)

\* Every field of the transports, the peer and the pipes keeps its type; above all, what
\* readFrame takes for a frame's body is one (ContentLengthFraming.kt).
THEOREM TypeCorrect == Spec => []TypeOK
<1>1. IInv => TypeOK
  BY DEF IInv
<1> QED BY <1>1, Invariant, PTL

LEMMA PrefixIs ==
  ASSUME NEW S, NEW s \in Seq(S), NEW t \in Seq(S),
         Len(s) <= Len(t), \A i \in 1..Len(s) : s[i] = t[i]
  PROVE  IsPrefix(s, t)
<1>0. Len(s) \in Nat /\ Len(t) \in Nat
  BY LenProperties
<1>1. \A i \in 1..Len(s) : s[i] \in S /\ t[i] \in S
  BY <1>0, ElementOfSeq
<1> DEFINE n == Len(s)
           u == SubSeq(s, 1, n)
           v == SubSeq(t, 1, n)
<1>2. n \in Nat
  BY <1>0
<1>n. \A i \in 1..n : s[i] \in S /\ t[i] \in S /\ s[i] = t[i]
  BY <1>1
<1> HIDE DEF n
<1>3. /\ u \in Seq(S) /\ Len(u) = IF 1 <= n THEN n - 1 + 1 ELSE 0
      /\ \A i \in 1..n - 1 + 1 : u[i] = s[1 + i - 1]
  BY <1>2, <1>n, SubSeqProperties
<1>4. /\ v \in Seq(S) /\ Len(v) = IF 1 <= n THEN n - 1 + 1 ELSE 0
      /\ \A i \in 1..n - 1 + 1 : v[i] = t[1 + i - 1]
  BY <1>2, <1>n, SubSeqProperties
<1> HIDE DEF u, v
<1>5. Len(u) = n /\ Len(v) = n
  BY <1>2, <1>3, <1>4
<1>6. \A i \in 1..n : u[i] = s[i] /\ v[i] = t[i]
  BY <1>2, <1>3, <1>4
<1>7. u = v
  BY <1>3, <1>4, <1>5, <1>6, <1>n, SeqEqual
<1> QED BY <1>7 DEF IsPrefix, u, v, n

\* Whatever chunks the pipes come in, whichever threads write, whatever stray text comes
\* between and whoever closes when: the agent's peer gets the frames the plugin wrote, and
\* the session's handler the answers the agent sent, in order and without a gap
\* (StdioRpcTransport.kt:38, framing.ts:26-30).
THEOREM WholeFrames == Spec => []FramesWhole
<1>1. ASSUME IInv
      PROVE  FramesWhole
  <2>1. /\ got \in Seq(Frames) /\ written \in Seq(Frames)
        /\ heard \in Seq(Answers) /\ answered \in Seq(Answers)
    BY <1>1, TypeParts DEF IInv, TypeHistory, TypeAgent
  <2>2. IsPrefix(got, written)
    BY <1>1, <2>1, PrefixIs DEF IInv, GotWritten
  <2>3. IsPrefix(heard, answered)
    BY <1>1, <2>1, PrefixIs DEF IInv, HeardAnswered
  <2> QED BY <2>2, <2>3 DEF FramesWhole
<1> QED BY <1>1, Invariant, PTL

\* A frame that readFrame returned after the transport was closed is never given to the
\* handler: the second look at closed is behind the read (StdioRpcTransport.kt:172, 189).
THEOREM NeverLate == Spec => []NothingLate
<1>1. IInv => NothingLate
  BY DEF IInv, Closing, NothingLate
<1> QED BY <1>1, Invariant, PTL

\* A request whose cancel the peer got first is never answered: its job is running no more
\* when its handler returns (peer.ts:298-360).
THEOREM NeverAnswered == Spec => CancelledUnanswered
<1> DEFINE Kept == \A r \in Requests :
             Contains(answered', <<"answer", r>>) /\ ~Contains(answered, <<"answer", r>>)
               => ~Precedes(<<"request", r>>, <<"cancel", r>>, got)
<1>1. ASSUME IInv, [Next]_vars
      PROVE  [Kept]_vars
  <2> SUFFICES ASSUME NEW r \in Requests,
                      Contains(answered', <<"answer", r>>), ~Contains(answered, <<"answer", r>>)
               PROVE  ~Precedes(<<"request", r>>, <<"cancel", r>>, got)
    OBVIOUS
  <2>1. answered' # answered
    OBVIOUS
  <2>2. PICK s \in Requests : Answer(s)
    BY <1>1, <2>1 DEF Next, vars, pipes, host, agent, flags, Opening, Marking, Reading,
       Sending, Writing,
       DropIncoming, Notify, Install, StartReader, OpenSession, CloseSession, Close, Enter, TakeLock,
       WriteBody, Loop, ReadFrame, Recheck, Deliver, Leave, OnData, OnEnd, OnError, WriteFrame,
       PipeDrained, AgentExits, HostExits, Stray
  <2>3. job[s] = "running" /\ answered' = Append(answered, <<"answer", s>>)
    BY <2>1, <2>2 DEF Answer
  <2>4. s = r
    <3>1. answered \in Seq(Answers) /\ <<"answer", s>> \in Answers /\ Len(answered) \in Nat
      BY <1>1, TypeParts, LenProperties DEF IInv, TypeAgent, Answers
    <3>2. PICK i \in 1..Len(answered') : answered'[i] = <<"answer", r>>
      BY DEF Contains
    <3>3. /\ Len(answered') = Len(answered) + 1 /\ \A k \in 1..Len(answered) : answered'[k] = answered[k]
          /\ answered'[Len(answered) + 1] = <<"answer", s>>
      BY <2>3, <3>1, AppendProperties
    <3>4. i \notin 1..Len(answered)
      BY <3>2, <3>3 DEF Contains
    <3>5. i = Len(answered) + 1
      BY <3>1, <3>2, <3>3, <3>4
    <3>6. <<"answer", s>> = <<"answer", r>>
      BY <3>2, <3>3, <3>5
    <3> QED BY <3>6
  <2> QED BY <1>1, <2>3, <2>4 DEF IInv, Cancelled
<1>2. CancelledUnanswered <=> [][Kept]_vars
  BY DEF CancelledUnanswered
<1>3. IInv /\ [Next]_vars => [Kept]_vars
  BY <1>1
<1> QED BY <1>3, Invariant, PTL DEF Spec, CancelledUnanswered
=============================================================================
