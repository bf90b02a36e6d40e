-------------------------- MODULE SubsequenceProofs --------------------------
(***************************************************************************)
(* Facts about Kept, and the four they rest on: how to reach every number  *)
(* of 0..k (UpTo) and every sequence (Grown), that a step function defines *)
(* a function on 0..N (Recursion), and that sequences are the same that    *)
(* have the same elements (SameSequence).                                  *)
(***************************************************************************)
EXTENDS Subsequences, FiniteSetTheorems, SequenceTheorems, WellFoundedInduction, TLAPS

(* Sequences of the same length and elements are the same.                 *)
LEMMA SameSequence ==
    ASSUME NEW T, NEW s \in Seq(T), NEW t \in Seq(T), Len(s) = Len(t),
           \A i \in 1..Len(s) : s[i] = t[i]
    PROVE  s = t
<1>1. s = [i \in 1..Len(s) |-> s[i]] /\ t = [i \in 1..Len(t) |-> t[i]]
  OBVIOUS
<1> QED
  BY <1>1

(* Of the numbers up to k, those in a set that is not empty have a least.  *)
LEMMA LeastMember ==
    ASSUME NEW k \in Nat, NEW S, S \subseteq 1..k, S # {}
    PROVE  \E n \in S : \A m \in S : n <= m
<1> DEFINE upTo(n) == S \cap (1..n)
           segments == {upTo(n) : n \in S}
<1>1. IsFiniteSet(1..k)
  BY FS_Interval
<1>2. IsWellFoundedOn(StrictSubsetOrdering(1..k), FiniteSubsetsOf(1..k))
  BY FS_StrictSubsetOrderingWellFounded
<1>3. segments \subseteq FiniteSubsetsOf(1..k) /\ segments # {}
  <2>1. FiniteSubsetsOf(1..k) = SUBSET (1..k)
    BY <1>1, FS_FiniteSubsetsOfFinite
  <2>2. \A n \in S : upTo(n) \subseteq 1..k
    OBVIOUS
  <2>3. segments # {}
    OBVIOUS
  <2> HIDE DEF upTo
  <2> QED
    BY <2>1, <2>2, <2>3
<1> HIDE DEF segments
<1>4. PICK x \in segments : \A y \in segments : <<y, x>> \notin StrictSubsetOrdering(1..k)
  BY <1>2, <1>3, WFMin
<1> USE DEF segments
<1>5. PICK n \in S : x = upTo(n)
  BY <1>4
<1>6. ASSUME NEW m \in S, m < n PROVE FALSE
  <2>1. n \in upTo(n) /\ n \notin upTo(m) /\ upTo(m) \subseteq upTo(n)
    BY <1>6
  <2>2. upTo(m) \in segments
    OBVIOUS
  <2>3. <<upTo(m), upTo(n)>> \in StrictSubsetOrdering(1..k)
    BY <2>1 DEF StrictSubsetOrdering
  <2> QED
    BY <1>4, <1>5, <2>2, <2>3
<1> QED
  BY <1>6

(* Induction up to k, of a set of numbers.                                 *)
LEMMA UpTo ==
    ASSUME NEW k \in Nat, NEW S, 0 \in S, \A n \in 1..k : n - 1 \in S => n \in S
    PROVE  0..k \subseteq S
<1> DEFINE missing == (1..k) \ S
<1>1. ASSUME missing # {} PROVE FALSE
  <2>1. PICK n \in missing : \A m \in missing : n <= m
    BY <1>1, LeastMember
  <2>2. n - 1 \in S
    BY <2>1
  <2> QED
    BY <2>1, <2>2
<1> QED
  BY <1>1

(* f begins with base, and step gives each of its values from the last.    *)
Iterates(f, base, step, N) == f[0] = base /\ \A n \in 1..N : f[n] = step[<<f[n - 1], n>>]

(* A step function defines a function from 0 on.                           *)
LEMMA Recursion ==
    ASSUME NEW N \in Nat, NEW S, NEW base \in S, NEW step \in [S \X (1..N) -> S]
    PROVE  \E f \in [0..N -> S] : Iterates(f, base, step, N)
<1> DEFINE Defined(f, k) == Iterates(f, base, step, k)
           reached == {k \in 0..N : \E f \in [0..k -> S] : Defined(f, k)}
<1>1. 0 \in reached
  <2> DEFINE g == [i \in 0..0 |-> base]
  <2>1. g \in [0..0 -> S] /\ Defined(g, 0)
    BY DEF Iterates
  <2> HIDE DEF g, Defined
  <2> QED
    BY <2>1
<1>2. ASSUME NEW k \in 1..N, k - 1 \in reached PROVE k \in reached
  <2>1. PICK f \in [0..(k - 1) -> S] : Defined(f, k - 1)
    BY <1>2
  <2> DEFINE g == [i \in 0..k |-> IF i = k THEN step[<<f[k - 1], k>>] ELSE f[i]]
  <2>2. k - 1 \in 0..(k - 1) /\ f[k - 1] \in S /\ step[<<f[k - 1], k>>] \in S
    OBVIOUS
  <2>3. g \in [0..k -> S]
    BY <2>2
  <2>4. ASSUME NEW n \in 1..k PROVE g[n] = step[<<g[n - 1], n>>]
    <3>1. CASE n = k
      <4>1. k - 1 \in 0..k /\ k \in 0..k /\ k - 1 # k
        OBVIOUS
      <4>2. g[k] = step[<<f[k - 1], k>>] /\ g[k - 1] = f[k - 1]
        BY <4>1
      <4> QED
        BY <3>1, <4>2
    <3>2. CASE n # k
      BY <2>1, <3>2 DEF Iterates
    <3> QED
      BY <3>1, <3>2
  <2>5. g[0] = base
    BY <2>1 DEF Iterates
  <2>6. Defined(g, k)
    BY <2>4, <2>5 DEF Iterates
  <2> HIDE DEF g, Defined
  <2> QED
    BY <2>3, <2>6
<1> HIDE DEF reached
<1>3. 0..N \subseteq reached
  BY <1>1, <1>2, UpTo
<1>4. N \in reached
  BY <1>3
<1> QED
  BY <1>4 DEF reached

(* f[n] is what is kept of the first n elements of s.                      *)
Keeps(f, s, S) ==
    /\ f[0] = <<>>
    /\ \A n \in 1..Len(s) :
          f[n] = IF s[n] \in S THEN Append(f[n - 1], s[n]) ELSE f[n - 1]

(* There is such a function, and Kept is read from it.                     *)
LEMMA KeptFrom ==
    ASSUME NEW T, NEW s \in Seq(T), NEW S
    PROVE  \E f \in [0..Len(s) -> Seq(T)] : Keeps(f, s, S) /\ Kept(s, S) = f[Len(s)]
<1> DEFINE N == Len(s)
           next(kept, n) == IF s[n] \in S THEN Append(kept, s[n]) ELSE kept
           step == [x \in Seq(T) \X (1..N) |-> next(x[1], x[2])]
           Solves(f) == f = [n \in 0..N |->
                               IF n = 0 THEN <<>>
                               ELSE IF s[n] \in S THEN Append(f[n - 1], s[n]) ELSE f[n - 1]]
<1>0. N \in Nat /\ \A n \in 1..N : s[n] \in T
  OBVIOUS
<1>1. step \in [Seq(T) \X (1..N) -> Seq(T)]
  OBVIOUS
<1>2. PICK f \in [0..N -> Seq(T)] : Iterates(f, <<>>, step, N)
  <2> DEFINE none == <<>>
             kept == Seq(T)
  <2>1. none \in kept /\ N \in Nat /\ step \in [kept \X (1..N) -> kept]
    BY <1>0, <1>1
  <2> HIDE DEF step, N, none, kept
  <2>2. \E f \in [0..N -> kept] : Iterates(f, none, step, N)
    BY <2>1, Recursion
  <2> QED
    BY <2>2 DEF none, kept
<1>3. \A n \in 1..N : f[n] = next(f[n - 1], n)
  <2> SUFFICES ASSUME NEW n \in 1..N PROVE f[n] = next(f[n - 1], n)
    OBVIOUS
  <2>1. n - 1 \in 0..N
    BY <1>0
  <2>2. <<f[n - 1], n>> \in Seq(T) \X (1..N)
    BY <2>1
  <2>3. step[<<f[n - 1], n>>] = next(f[n - 1], n)
    BY <2>2
  <2> QED
    BY <1>2, <2>3 DEF Iterates
<1> HIDE DEF N, step
<1>4. Solves(f)
  <2>1. f = [n \in 0..N |-> f[n]]
    OBVIOUS
  <2>2. ASSUME NEW n \in 0..N PROVE f[n] = IF n = 0 THEN <<>> ELSE next(f[n - 1], n)
    <3>1. n = 0 \/ n \in 1..N
      BY <1>0
    <3> QED
      BY <1>2, <1>3, <3>1 DEF Iterates
  <2> QED
    BY <2>1, <2>2
<1>5. ASSUME NEW g, Solves(g) PROVE g = f
  <2>1. g = [n \in 0..N |-> g[n]]
    BY <1>5
  <2> DEFINE same == {n \in 0..N : g[n] = f[n]}
  <2>2. 0 \in same
    BY <1>0, <1>2, <1>5 DEF Iterates
  <2>3. ASSUME NEW n \in 1..N, n - 1 \in same PROVE n \in same
    <3>1. n \in 0..N /\ n # 0 /\ g[n - 1] = f[n - 1]
      BY <1>0, <2>3
    <3>2. g[n] = next(g[n - 1], n)
      BY <1>5, <3>1
    <3> QED
      BY <1>3, <3>1, <3>2
  <2> HIDE DEF same
  <2>4. \A n \in 1..N : n - 1 \in same => n \in same
    BY <2>3
  <2>5. 0..N \subseteq same
    BY <1>0, <2>2, <2>4, UpTo
  <2> USE DEF same
  <2>6. \A n \in 0..N : g[n] = f[n]
    BY <2>5
  <2> QED
    BY <2>1, <2>6
<1>6. Kept(s, S) = (CHOOSE g : Solves(g))[N]
  BY DEF Kept, N
<1> HIDE DEF Solves
<1>7. (CHOOSE g : Solves(g)) = f
  BY <1>4, <1>5
<1> QED
  BY <1>2, <1>3, <1>6, <1>7 DEF N, Iterates, Keeps

(* An empty sequence has nothing to keep.                                  *)
LEMMA KeptOfNone == ASSUME NEW S PROVE Kept(<<>>, S) = <<>>
<1>1. <<>> \in Seq({}) /\ Len(<<>>) = 0
  OBVIOUS
<1>2. PICK f \in [0..Len(<<>>) -> Seq({})] : Keeps(f, <<>>, S) /\ Kept(<<>>, S) = f[Len(<<>>)]
  BY <1>1, KeptFrom
<1> QED
  BY <1>1, <1>2 DEF Keeps

(* What is kept is a sequence of the same elements.                        *)
LEMMA KeptType ==
    ASSUME NEW T, NEW s \in Seq(T), NEW S PROVE Kept(s, S) \in Seq(T)
<1>1. PICK f \in [0..Len(s) -> Seq(T)] : Kept(s, S) = f[Len(s)]
  BY KeptFrom
<1> QED
  BY <1>1

(* An element that follows is kept, or not, after all that was before it.  *)
LEMMA KeptOfMore ==
    ASSUME NEW T, NEW s \in Seq(T), NEW e \in T, NEW S
    PROVE  Kept(Append(s, e), S) = IF e \in S THEN Append(Kept(s, S), e) ELSE Kept(s, S)
<1> DEFINE n == Len(s)
           more == Append(s, e)
<1>1. PICK f \in [0..n -> Seq(T)] :
         /\ f[0] = <<>>
         /\ \A i \in 1..n : f[i] = IF s[i] \in S THEN Append(f[i - 1], s[i]) ELSE f[i - 1]
         /\ Kept(s, S) = f[n]
  <2>1. PICK f \in [0..n -> Seq(T)] : Keeps(f, s, S) /\ Kept(s, S) = f[n]
    BY KeptFrom
  <2> QED
    BY <2>1 DEF Keeps
<1>2. more \in Seq(T) /\ Len(more) = n + 1 /\ n \in Nat
  OBVIOUS
<1>3. PICK g \in [0..(n + 1) -> Seq(T)] :
         /\ g[0] = <<>>
         /\ \A i \in 1..(n + 1) :
               g[i] = IF more[i] \in S THEN Append(g[i - 1], more[i]) ELSE g[i - 1]
         /\ Kept(more, S) = g[n + 1]
  <2> HIDE DEF more, n
  <2>1. PICK g \in [0..Len(more) -> Seq(T)] : Keeps(g, more, S) /\ Kept(more, S) = g[Len(more)]
    BY <1>2, KeptFrom
  <2>2. /\ g \in [0..(n + 1) -> Seq(T)] /\ g[0] = <<>> /\ Kept(more, S) = g[n + 1]
        /\ \A i \in 1..(n + 1) :
              g[i] = IF more[i] \in S THEN Append(g[i - 1], more[i]) ELSE g[i - 1]
    BY <1>2, <2>1 DEF Keeps
  <2> QED
    BY <2>2
<1>4. more[n + 1] = e /\ \A i \in 1..n : more[i] = s[i]
  OBVIOUS
<1> DEFINE same == {i \in 0..n : f[i] = g[i]}
<1>5. 0 \in same
  BY <1>1, <1>2, <1>3
<1>6. ASSUME NEW i \in 1..n, i - 1 \in same PROVE i \in same
  <2>1. i \in 0..n /\ i \in 1..(n + 1) /\ f[i - 1] = g[i - 1] /\ more[i] = s[i]
    BY <1>2, <1>4, <1>6
  <2> HIDE DEF more, n
  <2>2. f[i] = g[i]
    BY <1>1, <1>3, <2>1
  <2> QED
    BY <2>1, <2>2
<1>7. f[n] = g[n]
  <2>1. \A i \in 1..n : i - 1 \in same => i \in same
    BY <1>6
  <2>2. n \in 0..n
    BY <1>2
  <2> HIDE DEF same, n
  <2>3. 0..n \subseteq same
    BY <1>2, <1>5, <2>1, UpTo
  <2> QED
    BY <2>2, <2>3 DEF same
<1> HIDE DEF n, more
<1>8. n + 1 \in 1..(n + 1) /\ (n + 1) - 1 = n
  BY <1>2
<1>9. g[n + 1] = IF e \in S THEN Append(g[n], e) ELSE g[n]
  BY <1>3, <1>4, <1>8
<1> QED
  BY <1>1, <1>3, <1>7, <1>9 DEF more

(* When the elements to keep are the last ones, what is kept is the tail.  *)
LEMMA KeptTail ==
    ASSUME NEW T, NEW s \in Seq(T), NEW S, NEW k \in 0..Len(s),
           \A i \in 1..k : s[i] \notin S,
           \A i \in (k + 1)..Len(s) : s[i] \in S
    PROVE  Kept(s, S) = SubSeq(s, k + 1, Len(s))
<1> DEFINE n == Len(s)
<1>0. n \in Nat /\ k \in Nat /\ \A i \in 1..n : s[i] \in T
  OBVIOUS
<1>1. PICK f \in [0..n -> Seq(T)] : Keeps(f, s, S) /\ Kept(s, S) = f[n]
  BY KeptFrom
<1> DEFINE tail(i) == SubSeq(s, k + 1, i)
           same == {i \in 0..n : f[i] = tail(i)}
<1>2. ASSUME NEW i \in 0..k PROVE tail(i) = <<>>
  <2>1. i \in Int /\ k + 1 \in Int /\ i < k + 1
    BY <1>0
  <2> QED
    BY <2>1, SubSeqEmpty
<1>3. 0 \in same
  BY <1>0, <1>1, <1>2 DEF Keeps
<1>4. ASSUME NEW i \in 1..n, i - 1 \in same PROVE i \in same
  <2>1. f[i - 1] = tail(i - 1) /\ i \in 0..n /\ i \in Nat
    BY <1>4
  <2>2. CASE i <= k
    <3>1. s[i] \notin S /\ tail(i - 1) = <<>> /\ tail(i) = <<>>
      BY <1>0, <1>2, <2>2
    <3> QED
      BY <1>1, <2>1, <3>1 DEF Keeps
  <2>3. CASE i > k
    <3>1. s[i] \in S
      BY <1>0, <2>3
    <3>2. Append(tail(i - 1), s[i]) = tail(i)
      <4>1. /\ tail(i - 1) \in Seq(T) /\ Len(tail(i - 1)) = i - 1 - k
            /\ \A j \in 1..(i - 1 - k) : tail(i - 1)[j] = s[k + j]
        <5> DEFINE last == i - 1
        <5>1. last \in Int /\ k + 1 \in Int /\ \A j \in (k + 1)..last : s[j] \in T
          BY <1>0, <2>1
        <5> HIDE DEF last
        <5>2. /\ tail(last) \in Seq(T)
              /\ Len(tail(last)) = IF k + 1 <= last THEN last - (k + 1) + 1 ELSE 0
              /\ \A j \in 1..(last - (k + 1) + 1) : tail(last)[j] = s[(k + 1) + j - 1]
          BY ONLY <5>1, SubSeqProperties
        <5>3. last = i - 1
          BY DEF last
        <5> HIDE DEF tail
        <5>4. tail(i - 1) = tail(last)
          BY <5>3
        <5>5. k + 1 <= last => last - (k + 1) + 1 = i - 1 - k
          BY <1>0, <2>1, <5>3
        <5>6. k + 1 > last => i - 1 - k = 0
          BY <1>0, <2>1, <2>3, <5>3
        <5>7. /\ tail(last) \in Seq(T) /\ Len(tail(last)) = i - 1 - k
          BY <5>1, <5>2, <5>5, <5>6
        <5>8. ASSUME NEW j \in 1..(i - 1 - k) PROVE tail(last)[j] = s[k + j]
          <6>1. j \in 1..(last - (k + 1) + 1) /\ (k + 1) + j - 1 = k + j
            BY <1>0, <2>1, <5>3, <5>8
          <6> QED
            BY <5>2, <6>1
        <5> QED
          BY <5>4, <5>7, <5>8
      <4>2. /\ tail(i) \in Seq(T) /\ Len(tail(i)) = i - k
            /\ \A j \in 1..(i - k) : tail(i)[j] = s[k + j]
        <5>1. k + 1 \in Int /\ \A j \in (k + 1)..i : s[j] \in T
          BY <1>0, <2>1
        <5>2. /\ tail(i) \in Seq(T)
              /\ Len(tail(i)) = IF k + 1 <= i THEN i - (k + 1) + 1 ELSE 0
              /\ \A j \in 1..(i - (k + 1) + 1) : tail(i)[j] = s[(k + 1) + j - 1]
          BY <2>1, <5>1, SubSeqProperties
        <5> HIDE DEF tail
        <5> QED
          BY <1>0, <2>1, <2>3, <5>2
      <4>3. s[i] \in T /\ i - k \in 1..(i - k) /\ k + (i - k) = i
        BY <1>0, <2>3
      <4> HIDE DEF tail
      <4> DEFINE long == Append(tail(i - 1), s[i])
                 size == i - k
      <4>4. size \in Nat /\ size \in 1..size /\ i - 1 - k = size - 1
        BY <1>0, <2>1, <2>3
      <4>5. /\ long \in Seq(T) /\ Len(long) = size /\ long[size] = s[i]
            /\ \A j \in 1..(size - 1) : long[j] = tail(i - 1)[j]
        BY <4>1, <4>3, <4>4
      <4>6. tail(i) \in Seq(T) /\ Len(tail(i)) = size /\ tail(i)[size] = s[i]
        BY <4>2, <4>3
      <4>7. \A j \in 1..size : j = size \/ j \in 1..(size - 1)
        BY <4>4
      <4> HIDE DEF long
      <4>8. \A j \in 1..(size - 1) : tail(i)[j] = tail(i - 1)[j]
        BY <4>1, <4>2, <4>4
      <4>9. \A j \in 1..size : long[j] = tail(i)[j]
        BY <4>5, <4>6, <4>7, <4>8
      <4>10. long = tail(i)
        BY <4>5, <4>6, <4>9, SameSequence
      <4> QED
        BY <4>10 DEF long
    <3> QED
      BY <1>1, <2>1, <3>1, <3>2 DEF Keeps
  <2> QED
    BY <1>0, <2>1, <2>2, <2>3
<1>5. f[n] = tail(n)
  <2>1. \A i \in 1..n : i - 1 \in same => i \in same
    BY <1>4
  <2>2. n \in 0..n
    BY <1>0
  <2> HIDE DEF same, n, tail
  <2>3. 0..n \subseteq same
    BY <1>0, <1>3, <2>1, UpTo
  <2> QED
    BY <2>2, <2>3 DEF same
<1> QED
  BY <1>1, <1>5

(* What holds of the empty sequence, and of a sequence that is one longer  *)
(* than one of which it holds, holds of all.                               *)
LEMMA Grown ==
    ASSUME NEW T, NEW P, <<>> \in P,
           \A u \in Seq(T) : u \in P => \A e \in T : Append(u, e) \in P
    PROVE  Seq(T) \subseteq P
<1> SUFFICES ASSUME NEW s \in Seq(T) PROVE s \in P
  OBVIOUS
<1> DEFINE n == Len(s)
           first(k) == [i \in 1..k |-> s[i]]
           reached == {k \in 0..n : first(k) \in P}
<1>1. n \in Nat /\ \A i \in 1..n : s[i] \in T
  OBVIOUS
<1>2. 0 \in reached
  <2>1. first(0) = <<>>
    OBVIOUS
  <2> QED
    BY <1>1, <2>1
<1>3. ASSUME NEW k \in 1..n, k - 1 \in reached PROVE k \in reached
  <2> DEFINE last == k - 1
  <2>1. last \in Nat /\ last + 1 = k /\ last \in reached
    BY <1>1, <1>3
  <2> HIDE DEF last
  <2>2. first(last) \in Seq(T) /\ Len(first(last)) = last
    <3>1. first(last) \in [1..last -> T]
      BY <1>1, <2>1
    <3> QED
      BY <2>1, <3>1
  <2>3. Append(first(last), s[k]) = first(k)
    <3> DEFINE longer == Append(first(last), s[k])
    <3>1. Len(longer) = k /\ \A i \in 1..k : longer[i] = s[i]
      BY <2>1, <2>2
    <3>2. longer \in Seq(T)
      BY <1>1, <2>2
    <3> HIDE DEF longer
    <3>3. longer = [i \in 1..k |-> longer[i]]
      <4>1. longer = [i \in 1..Len(longer) |-> longer[i]]
        BY <3>2
      <4> QED
        BY <3>1, <4>1
    <3>4. longer = first(k)
      BY <3>1, <3>3
    <3> QED
      BY <3>4 DEF longer
  <2>4. s[k] \in T
    BY <1>1
  <2> HIDE DEF first
  <2>5. first(last) \in P /\ k \in 0..n
    BY <1>1, <2>1
  <2>6. \A e \in T : Append(first(last), e) \in P
    BY <2>2, <2>5
  <2> QED
    BY <2>3, <2>4, <2>5, <2>6
<1>4. n \in reached
  <2>1. \A k \in 1..n : k - 1 \in reached => k \in reached
    BY <1>3
  <2> HIDE DEF reached, n
  <2>2. 0..n \subseteq reached
    BY <1>1, <1>2, <2>1, UpTo
  <2> QED
    BY <1>1, <2>2
<1>5. first(n) = s
  OBVIOUS
<1> HIDE DEF n, first
<1> QED
  BY <1>4, <1>5

(* What is appended to the second of two joined sequences is appended to   *)
(* their join.                                                             *)
LEMMA AppendMoved ==
    ASSUME NEW T, NEW a \in Seq(T), NEW b \in Seq(T), NEW e \in T
    PROVE  Append(a \o b, e) = a \o Append(b, e)
  OBVIOUS

(* Of two sequences, one after the other, the same is kept.                *)
LEMMA KeptOfBoth ==
    ASSUME NEW T, NEW a \in Seq(T), NEW b \in Seq(T), NEW S
    PROVE  Kept(a \o b, S) = Kept(a, S) \o Kept(b, S)
<1> DEFINE joins == {u \in Seq(T) : Kept(a \o u, S) = Kept(a, S) \o Kept(u, S)}
           none == <<>>
<1>1. Kept(a, S) \in Seq(T)
  BY KeptType
<1>2. <<>> \in joins
  <2>1. a \o <<>> = a /\ Kept(a, S) \o <<>> = Kept(a, S) /\ <<>> \in Seq(T)
    BY <1>1
  <2> QED
    BY <2>1, KeptOfNone
<1>3. ASSUME NEW u \in Seq(T), u \in joins, NEW e \in T PROVE Append(u, e) \in joins
  <2> DEFINE before == a \o u
             kept == Kept(a, S)
             more == Kept(u, S)
  <2>1. before \in Seq(T) /\ a \o Append(u, e) = Append(before, e) /\ Append(u, e) \in Seq(T)
    OBVIOUS
  <2>2. kept \in Seq(T) /\ more \in Seq(T) /\ Kept(before, S) = kept \o more
    BY <1>1, <1>3, KeptType
  <2> HIDE DEF before
  <2>3. Kept(Append(before, e), S)
          = IF e \in S THEN Append(Kept(before, S), e) ELSE Kept(before, S)
    BY <2>1, KeptOfMore
  <2>4. Kept(Append(u, e), S) = IF e \in S THEN Append(more, e) ELSE more
    BY KeptOfMore
  <2> HIDE DEF kept, more
  <2>5. Append(kept \o more, e) = kept \o Append(more, e)
    <3> DEFINE Moved(c, m, x) == Append(c \o m, x) = c \o Append(m, x)
    <3>1. kept \in Seq(T) /\ more \in Seq(T) /\ e \in T
      BY <2>2
    <3>2. \A R : \A c, m \in Seq(R) : \A x \in R : Moved(c, m, x)
      BY AppendMoved
    <3> HIDE DEF Moved
    <3>3. Moved(kept, more, e)
      BY ONLY <3>1, <3>2
    <3> QED
      BY <3>3 DEF Moved
  <2>6. Kept(a \o Append(u, e), S) = kept \o Kept(Append(u, e), S)
    BY <2>1, <2>2, <2>3, <2>4, <2>5
  <2> QED
    BY <2>1, <2>6 DEF kept
<1> HIDE DEF joins
<1>4. Seq(T) \subseteq joins
  BY <1>2, <1>3, Grown
<1> QED
  BY <1>4 DEF joins

(* All, or nothing, is kept of a sequence all of whose elements are, or    *)
(* none of whose elements is.                                              *)
LEMMA KeptOfAll ==
    ASSUME NEW T, NEW s \in Seq(T), NEW S, T \subseteq S
    PROVE  Kept(s, S) = s
<1> DEFINE whole == {u \in Seq(T) : Kept(u, S) = u}
<1>1. <<>> \in whole
  BY KeptOfNone
<1>2. ASSUME NEW u \in Seq(T), u \in whole, NEW e \in T PROVE Append(u, e) \in whole
  <2>1. Kept(Append(u, e), S) = Append(Kept(u, S), e)
    BY KeptOfMore
  <2>2. Kept(Append(u, e), S) = Append(u, e) /\ Append(u, e) \in Seq(T)
    BY <1>2, <2>1
  <2> QED
    BY <2>2
<1> HIDE DEF whole
<1>3. Seq(T) \subseteq whole
  BY <1>1, <1>2, Grown
<1> QED
  BY <1>3 DEF whole

(* Of a sequence none of whose elements is to be kept, nothing is.         *)
LEMMA KeptOfOthers ==
    ASSUME NEW T, NEW s \in Seq(T), NEW S, T \cap S = {}
    PROVE  Kept(s, S) = <<>>
<1> DEFINE dropped == {u \in Seq(T) : Kept(u, S) = <<>>}
<1>1. <<>> \in dropped
  BY KeptOfNone
<1>2. ASSUME NEW u \in Seq(T), u \in dropped, NEW e \in T PROVE Append(u, e) \in dropped
  <2>1. Kept(Append(u, e), S) = Kept(u, S)
    BY KeptOfMore
  <2>2. Append(u, e) \in Seq(T)
    OBVIOUS
  <2> QED
    BY <1>2, <2>1, <2>2
<1> HIDE DEF dropped
<1>3. Seq(T) \subseteq dropped
  BY <1>1, <1>2, Grown
<1> QED
  BY <1>3 DEF dropped
==============================================================================
