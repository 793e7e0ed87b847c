----------------------------- MODULE QueueLemmas -----------------------------
(* Facts about queues that the proofs of the blocking primitives share.    *)
EXTENDS Queues, TLAPS

\* What pushing does to the members of a queue.
LEMMA QueueAppend ==
    ASSUME NEW S, NEW q \in Seq(S), NEW t \in S
    PROVE  /\ Append(q, t) \in Seq(S)
           /\ \A x : Member(Append(q, t), x) <=> Member(q, x) \/ x = t
           /\ NoDup(q) /\ ~Member(q, t) => NoDup(Append(q, t))
  <1>1. /\ Len(Append(q, t)) = Len(q) + 1
        /\ \A i \in 1..Len(q) : Append(q, t)[i] = q[i]
        /\ Append(q, t)[Len(q) + 1] = t
        /\ Len(q) \in Nat
    OBVIOUS
  <1>2. ASSUME NEW x PROVE Member(Append(q, t), x) <=> Member(q, x) \/ x = t
    BY <1>1 DEF Member
  <1>3. NoDup(q) /\ ~Member(q, t) => NoDup(Append(q, t))
    BY <1>1 DEF Member, NoDup
  <1> QED BY <1>2, <1>3

\* What popping does.
LEMMA QueueTail ==
    ASSUME NEW S, NEW q \in Seq(S), q # <<>>, NoDup(q)
    PROVE  /\ Tail(q) \in Seq(S)
           /\ Head(q) \in S
           /\ Member(q, Head(q))
           /\ \A x : Member(Tail(q), x) <=> Member(q, x) /\ x # Head(q)
           /\ NoDup(Tail(q))
  <1>1. /\ Len(Tail(q)) = Len(q) - 1
        /\ \A i \in 1..(Len(q) - 1) : Tail(q)[i] = q[i + 1]
        /\ Head(q) = q[1]
        /\ Len(q) \in Nat /\ Len(q) > 0
        /\ Tail(q) \in Seq(S)
        /\ Head(q) \in S
    OBVIOUS
  <1>2. ASSUME NEW x PROVE Member(Tail(q), x) <=> Member(q, x) /\ x # Head(q)
    <2>1. ASSUME Member(Tail(q), x) PROVE Member(q, x) /\ x # Head(q)
      BY <1>1, <2>1 DEF Member, NoDup
    <2>2. ASSUME NEW k \in 1..Len(q), q[k] = x, x # Head(q)
          PROVE  Member(Tail(q), x)
      <3>1. k - 1 \in 1..(Len(q) - 1) /\ Tail(q)[k - 1] = x
        BY <1>1, <2>2
      <3> QED BY <3>1, <1>1 DEF Member
    <2> QED BY <2>1, <2>2 DEF Member
  <1>3. NoDup(Tail(q))
    BY <1>1 DEF NoDup
  <1>4. Member(q, Head(q))
    BY <1>1 DEF Member
  <1> QED BY <1>1, <1>2, <1>3, <1>4

\* What erasing does.
LEMMA QueueWithout ==
    ASSUME NEW S, NEW q \in Seq(S), NEW k \in 1..Len(q), NoDup(q)
    PROVE  /\ Without(q, k) \in Seq(S)
           /\ \A x : Member(Without(q, k), x) <=> Member(q, x) /\ x # q[k]
           /\ NoDup(Without(q, k))
  <1> DEFINE r == Without(q, k)
  <1>1. Len(q) \in Nat /\ Len(q) - 1 \in Nat
    OBVIOUS
  <1>2. /\ r \in Seq(S)
        /\ Len(r) = Len(q) - 1
        /\ \A i \in 1..(Len(q) - 1) : r[i] = IF i < k THEN q[i] ELSE q[i + 1]
    BY <1>1 DEF Without
  <1> HIDE DEF r
  <1>3. ASSUME NEW x PROVE Member(r, x) <=> Member(q, x) /\ x # q[k]
    <2>1. ASSUME NEW i \in 1..Len(r), r[i] = x PROVE Member(q, x) /\ x # q[k]
      BY <1>1, <1>2, <2>1 DEF Member, NoDup
    <2>2. ASSUME NEW i \in 1..Len(q), q[i] = x, x # q[k] PROVE Member(r, x)
      <3>1. CASE i < k
        BY <1>1, <1>2, <2>2, <3>1 DEF Member
      <3>2. CASE i > k
        <4>1. i - 1 \in 1..Len(r) /\ r[i - 1] = x
          BY <1>1, <1>2, <2>2, <3>2
        <4> QED BY <4>1 DEF Member
      <3> QED BY <2>2, <3>1, <3>2
    <2> QED BY <2>1, <2>2 DEF Member
  <1>4. NoDup(r)
    BY <1>1, <1>2 DEF NoDup
  <1> QED BY <1>2, <1>3, <1>4 DEF r

\* What appending a whole queue does.
LEMMA QueueConcat ==
    ASSUME NEW S, NEW q \in Seq(S), NEW u \in Seq(S)
    PROVE  /\ q \o u \in Seq(S)
           /\ \A x : Member(q \o u, x) <=> Member(q, x) \/ Member(u, x)
           /\ NoDup(q) /\ NoDup(u) /\ (\A x : ~(Member(q, x) /\ Member(u, x)))
                 => NoDup(q \o u)
  <1>1. /\ Len(q) \in Nat /\ Len(u) \in Nat
        /\ q \o u \in Seq(S) /\ Len(q \o u) = Len(q) + Len(u)
        /\ \A i \in 1..(Len(q) + Len(u)) :
              (q \o u)[i] = IF i <= Len(q) THEN q[i] ELSE u[i - Len(q)]
    OBVIOUS
  <1> DEFINE w == q \o u
  <1> HIDE DEF w
  <1>2. ASSUME NEW x PROVE Member(w, x) <=> Member(q, x) \/ Member(u, x)
    <2>1. ASSUME NEW i \in 1..Len(w), w[i] = x PROVE Member(q, x) \/ Member(u, x)
      <3>1. CASE i <= Len(q)
        BY <1>1, <2>1, <3>1 DEF Member, w
      <3>2. CASE i > Len(q)
        <4>1. i - Len(q) \in 1..Len(u) /\ u[i - Len(q)] = x
          BY <1>1, <2>1, <3>2 DEF w
        <4> QED BY <4>1 DEF Member
      <3> QED BY <1>1, <2>1, <3>1, <3>2 DEF w
    <2>2. ASSUME NEW i \in 1..Len(q), q[i] = x PROVE Member(w, x)
      BY <1>1, <2>2 DEF Member, w
    <2>3. ASSUME NEW i \in 1..Len(u), u[i] = x PROVE Member(w, x)
      <3>1. i + Len(q) \in 1..Len(w) /\ w[i + Len(q)] = x
        BY <1>1, <2>3 DEF w
      <3> QED BY <3>1 DEF Member
    <2> QED BY <2>1, <2>2, <2>3 DEF Member
  <1>3. ASSUME NoDup(q), NoDup(u), \A x : ~(Member(q, x) /\ Member(u, x))
        PROVE  NoDup(w)
    <2> SUFFICES ASSUME NEW i \in 1..Len(w), NEW j \in 1..Len(w), w[i] = w[j], i < j
                 PROVE  FALSE
      BY <1>1 DEF NoDup, w
    <2>0. i \in 1..(Len(q) + Len(u)) /\ j \in 1..(Len(q) + Len(u))
      BY <1>1 DEF w
    <2>1. CASE j <= Len(q)
      BY <1>1, <1>3, <2>0, <2>1 DEF NoDup, w
    <2>2. CASE i > Len(q)
      <3>1. /\ i - Len(q) \in 1..Len(u) /\ j - Len(q) \in 1..Len(u)
            /\ u[i - Len(q)] = u[j - Len(q)]
        BY <1>1, <2>0, <2>2 DEF w
      <3>2. i - Len(q) = j - Len(q)
        BY <1>3, <3>1 DEF NoDup
      <3> QED BY <1>1, <2>0, <3>2
    <2>3. CASE i <= Len(q) /\ j > Len(q)
      <3>1. /\ i \in 1..Len(q) /\ q[i] = w[i]
            /\ j - Len(q) \in 1..Len(u) /\ u[j - Len(q)] = w[i]
        BY <1>1, <2>0, <2>3 DEF w
      <3>2. Member(q, w[i]) /\ Member(u, w[i])
        BY <3>1 DEF Member
      <3> QED BY <1>3, <3>2
    <2> QED BY <1>1, <2>0, <2>1, <2>2, <2>3
  <1> QED BY <1>1, <1>2, <1>3 DEF w

\* What splitting a queue in two does.
LEMMA QueueSplit ==
    ASSUME NEW S, NEW q \in Seq(S), NoDup(q), NEW m \in 0..Len(q)
    PROVE  LET front == SubSeq(q, 1, m)
               back == SubSeq(q, m + 1, Len(q))
           IN  /\ front \in Seq(S) /\ back \in Seq(S)
               /\ NoDup(front) /\ NoDup(back)
               /\ \A x : Member(front, x) <=> Member(q, x) /\ ~Member(back, x)
               /\ \A x : Member(back, x) => Member(q, x)
  <1> DEFINE front == SubSeq(q, 1, m)
             back == SubSeq(q, m + 1, Len(q))
  <1>1. /\ Len(q) \in Nat /\ m \in Nat /\ m <= Len(q)
        /\ front \in Seq(S) /\ Len(front) = m
        /\ \A i \in 1..m : front[i] = q[i]
    OBVIOUS
  <1>2. /\ back \in Seq(S) /\ Len(back) = Len(q) - m
        /\ \A i \in 1..(Len(q) - m) : back[i] = q[m + i]
    BY <1>1
  <1> HIDE DEF front, back
  <1>3. NoDup(front)
    BY <1>1 DEF NoDup
  <1>4. NoDup(back)
    BY <1>1, <1>2 DEF NoDup
  <1>5. ASSUME NEW i \in 1..Len(back)
        PROVE  m + i \in 1..Len(q) /\ back[i] = q[m + i]
    BY <1>1, <1>2
  <1>6. \A x : Member(back, x) => Member(q, x)
    BY <1>5 DEF Member
  <1>7. ASSUME NEW i \in 1..Len(front) PROVE i \in 1..Len(q) /\ i <= m /\ front[i] = q[i]
    BY <1>1
  <1>8. ASSUME NEW x, Member(front, x) PROVE Member(q, x) /\ ~Member(back, x)
    <2>1. PICK i \in 1..Len(front) : front[i] = x
      BY <1>8 DEF Member
    <2>2. i \in 1..Len(q) /\ i <= m /\ q[i] = x
      BY <1>7, <2>1
    <2>3. ASSUME NEW j \in 1..Len(back), back[j] = x PROVE FALSE
      <3>1. m + j \in 1..Len(q) /\ q[m + j] = x
        BY <1>5, <2>3
      <3>2. m + j = i
        BY <2>2, <3>1 DEF NoDup
      <3> QED BY <1>1, <1>2, <2>2, <2>3, <3>2
    <2> QED BY <2>2, <2>3 DEF Member
  <1>9. ASSUME NEW x, Member(q, x), ~Member(back, x) PROVE Member(front, x)
    <2>1. PICK i \in 1..Len(q) : q[i] = x
      BY <1>9 DEF Member
    <2>2. CASE i <= m
      BY <1>1, <2>1, <2>2 DEF Member
    <2>3. CASE i > m
      <3>1. i - m \in 1..Len(back) /\ back[i - m] = x
        BY <1>1, <1>2, <2>1, <2>3
      <3> QED BY <1>9, <3>1 DEF Member
    <2> QED BY <1>1, <2>2, <2>3
  <1> QED BY <1>1, <1>2, <1>3, <1>4, <1>6, <1>8, <1>9 DEF front, back
=============================================================================
