---------------------------- MODULE StreamProofs ----------------------------
(***************************************************************************)
(* Proofs about the scripts whose messages flow one way, for every number  *)
(* of subscribers and push clients, of rounds, jobs and failures, and      *)
(* every backlog. (That everyone gets on is a matter of fairness: TLC.)    *)
(***************************************************************************)
EXTENDS MCStreamScripts, SequenceTheorems, FiniteSetTheorems, TLAPS

-----------------------------------------------------------------------------
(* Sequences of numbers in order.                                          *)

Increasing(s) == \A i, j \in 1..Len(s) : i < j => s[i] < s[j]
Members(s) == {s[i] : i \in 1..Len(s)}

LEMMA RangesAreMembers ==
    ASSUME NEW S, NEW s \in Seq(S)
    PROVE  Pipeline!Range(s) = Members(s) /\ Publish!Range(s) = Members(s)
BY LenProperties DEF Pipeline!Range, Publish!Range, Members

LEMMA SameOrder ==
    ASSUME NEW s
    PROVE  /\ Pipeline!Increasing(s) <=> Increasing(s)
           /\ Publish!Increasing(s) <=> Increasing(s)
BY DEF Pipeline!Increasing, Publish!Increasing, Increasing

\* A concatenation of three, by its elements.
LEMMA ThreeParts ==
    ASSUME NEW S, NEW a \in Seq(S), NEW b \in Seq(S), NEW c \in Seq(S)
    PROVE  LET abc == (a \o b) \o c
           IN  /\ abc \in Seq(S)
               /\ Len(abc) = Len(a) + Len(b) + Len(c)
               /\ \A i \in 1..Len(a) : abc[i] = a[i]
               /\ \A i \in 1..Len(b) : abc[Len(a) + i] = b[i]
               /\ \A i \in 1..Len(c) : abc[Len(a) + Len(b) + i] = c[i]
<1> DEFINE ab == a \o b
           abc == ab \o c
<1>1. Len(a) \in Nat /\ Len(b) \in Nat /\ Len(c) \in Nat
    BY LenProperties
<1>2. /\ ab \in Seq(S) /\ Len(ab) = Len(a) + Len(b)
      /\ \A i \in 1..(Len(a) + Len(b)) :
            ab[i] = IF i <= Len(a) THEN a[i] ELSE b[i - Len(a)]
    BY ConcatProperties
<1>0. ab \in Seq(S)
    BY <1>2
<1> HIDE DEF ab
<1>3. /\ abc \in Seq(S) /\ Len(abc) = Len(ab) + Len(c)
      /\ \A i \in 1..(Len(ab) + Len(c)) :
            abc[i] = IF i <= Len(ab) THEN ab[i] ELSE c[i - Len(ab)]
    BY <1>0, ConcatProperties
<1> HIDE DEF abc
<1>4. \A i \in 1..Len(a) : abc[i] = a[i]
    BY <1>1, <1>2, <1>3
<1>5. ASSUME NEW i \in 1..Len(b) PROVE abc[Len(a) + i] = b[i]
    <2>1. Len(a) + i \in 1..Len(ab) /\ ~(Len(a) + i <= Len(a)) /\ Len(a) + i - Len(a) = i
        BY <1>1, <1>2
    <2>2. abc[Len(a) + i] = ab[Len(a) + i]
        BY <1>1, <1>2, <1>3, <2>1
    <2> QED
        BY <1>1, <1>2, <2>1, <2>2
<1>6. ASSUME NEW i \in 1..Len(c) PROVE abc[Len(a) + Len(b) + i] = c[i]
    <2>1. /\ Len(a) + Len(b) + i \in 1..(Len(ab) + Len(c))
          /\ ~(Len(a) + Len(b) + i <= Len(ab)) /\ Len(a) + Len(b) + i - Len(ab) = i
        BY <1>1, <1>2
    <2> QED
        BY <1>3, <2>1
<1> QED
    BY <1>1, <1>2, <1>3, <1>4, <1>5, <1>6 DEF ab, abc

\* Every place in a concatenation is in one of its parts, of lengths m, n, l.
InSomePart(k, m, n, l) ==
    \/ k \in 1..m
    \/ \E i \in 1..n : k = m + i
    \/ \E i \in 1..l : k = m + n + i

LEMMA PlacesOfParts ==
    ASSUME NEW m \in Nat, NEW n \in Nat, NEW l \in Nat, NEW k \in 1..(m + n + l)
    PROVE  InSomePart(k, m, n, l)
<1> USE DEF InSomePart
<1>1. CASE k > m /\ k <= m + n
    <2>1. k - m \in 1..n /\ k = m + (k - m)
        BY <1>1
    <2> QED BY <2>1
<1>2. CASE k > m + n
    <2>1. k - m - n \in 1..l /\ k = m + n + (k - m - n)
        BY <1>2
    <2> QED BY <2>1
<1> QED BY <1>1, <1>2

\* The first of a part moves to the end of the part before.
LEMMA MoveToSecond ==
    ASSUME NEW S, NEW a \in Seq(S), NEW b \in Seq(S), NEW c \in Seq(S), c # <<>>
    PROVE  (a \o Append(b, Head(c))) \o Tail(c) = (a \o b) \o c
<1> DEFINE b1 == Append(b, Head(c))
           c1 == Tail(c)
           old == (a \o b) \o c
           new == (a \o b1) \o c1
<1>1. /\ Head(c) \in S /\ Head(c) = c[1] /\ c1 \in Seq(S) /\ Len(c1) = Len(c) - 1
      /\ \A i \in 1..Len(c1) : c1[i] = c[i + 1]
    BY HeadTailProperties
<1>2. /\ b1 \in Seq(S) /\ Len(b1) = Len(b) + 1
      /\ \A i \in 1..Len(b) : b1[i] = b[i]
      /\ b1[Len(b) + 1] = c[1]
    BY <1>1, AppendProperties, LenProperties
<1>3. Len(a) \in Nat /\ Len(b) \in Nat /\ Len(c) \in Nat /\ Len(c) # 0
    BY LenProperties, EmptySeq
<1>9. b1 \in Seq(S) /\ c1 \in Seq(S)
    BY <1>1, <1>2
<1> HIDE DEF b1, c1
<1>4. /\ old \in Seq(S) /\ Len(old) = Len(a) + Len(b) + Len(c)
      /\ \A i \in 1..Len(a) : old[i] = a[i]
      /\ \A i \in 1..Len(b) : old[Len(a) + i] = b[i]
      /\ \A i \in 1..Len(c) : old[Len(a) + Len(b) + i] = c[i]
    BY ThreeParts
<1>5. /\ new \in Seq(S) /\ Len(new) = Len(a) + Len(b1) + Len(c1)
      /\ \A i \in 1..Len(a) : new[i] = a[i]
      /\ \A i \in 1..Len(b1) : new[Len(a) + i] = b1[i]
      /\ \A i \in 1..Len(c1) : new[Len(a) + Len(b1) + i] = c1[i]
    BY <1>9, ThreeParts
<1> HIDE DEF old, new
<1>6. Len(new) = Len(old)
    BY <1>1, <1>2, <1>3, <1>4, <1>5
<1>7. ASSUME NEW k \in 1..Len(new) PROVE new[k] = old[k]
    <2>1. CASE k \in 1..Len(a)
        BY <2>1, <1>4, <1>5
    <2>2. ASSUME NEW i \in 1..Len(b), k = Len(a) + i PROVE new[k] = old[k]
        <3>1. i \in 1..Len(b1)
            BY <1>2, <1>3
        <3> QED BY <2>2, <3>1, <1>2, <1>4, <1>5
    <2>3. ASSUME NEW i \in 1..Len(c), k = Len(a) + Len(b) + i PROVE new[k] = old[k]
        <3>1. CASE i = 1
            <4>1. Len(b) + 1 \in 1..Len(b1) /\ k = Len(a) + (Len(b) + 1)
                BY <1>2, <1>3, <2>3, <3>1
            <4>2. new[k] = b1[Len(b) + 1] /\ b1[Len(b) + 1] = c[1]
                BY <4>1, <1>2, <1>5
            <4>3. old[k] = c[1]
                BY <2>3, <3>1, <1>4
            <4> QED BY <4>2, <4>3
        <3>2. CASE i # 1
            <4>1. /\ i - 1 \in 1..Len(c1) /\ (i - 1) + 1 = i
                  /\ k = Len(a) + Len(b1) + (i - 1)
                BY <1>1, <1>2, <1>3, <2>3, <3>2
            <4>2. new[k] = c1[i - 1] /\ c1[i - 1] = c[(i - 1) + 1]
                BY <4>1, <1>1, <1>5
            <4> QED BY <2>3, <4>1, <4>2, <1>4
        <3> QED BY <3>1, <3>2
    <2>4. k \in 1..(Len(a) + Len(b) + Len(c))
        BY <1>4, <1>6
    <2>5. \/ k \in 1..Len(a)
          \/ \E i \in 1..Len(b) : k = Len(a) + i
          \/ \E i \in 1..Len(c) : k = Len(a) + Len(b) + i
        <3>1. Len(a) \in Nat /\ Len(b) \in Nat /\ Len(c) \in Nat
            BY <1>3
        <3>2. InSomePart(k, Len(a), Len(b), Len(c))
            BY <2>4, <3>1, PlacesOfParts
        <3> QED BY <3>2 DEF InSomePart
    <2> QED BY <2>1, <2>2, <2>3, <2>5
<1>8. new = old
    BY <1>4, <1>5, <1>6, <1>7, SeqEqual
<1> QED BY <1>8 DEF new, old, b1, c1

LEMMA MoveToFirst ==
    ASSUME NEW S, NEW a \in Seq(S), NEW b \in Seq(S), NEW c \in Seq(S), b # <<>>
    PROVE  (Append(a, Head(b)) \o Tail(b)) \o c = (a \o b) \o c
<1> DEFINE e == <<>>
<1>1. e \in Seq(S) /\ Head(b) \in S /\ Tail(b) \in Seq(S) /\ Append(a, Head(b)) \in Seq(S)
    BY HeadTailProperties, AppendProperties
<1>2. (e \o Append(a, Head(b))) \o Tail(b) = (e \o a) \o b
    BY <1>1, MoveToSecond
<1>3. e \o Append(a, Head(b)) = Append(a, Head(b)) /\ e \o a = a
    BY <1>1, ConcatEmptySeq
<1> QED BY <1>2, <1>3

\* What is added to the last part is added to the whole.
LEMMA AddToThird ==
    ASSUME NEW S, NEW a \in Seq(S), NEW b \in Seq(S), NEW c \in Seq(S), NEW x \in S
    PROVE  (a \o b) \o Append(c, x) = Append((a \o b) \o c, x)
<1> DEFINE c1 == Append(c, x)
           abc == (a \o b) \o c
           old == Append(abc, x)
           new == (a \o b) \o c1
<1>1. /\ Len(c1) = Len(c) + 1 /\ c1[Len(c) + 1] = x
      /\ \A i \in 1..Len(c) : c1[i] = c[i]
    BY AppendProperties
<1>2. c1 \in Seq(S)
    BY AppendProperties
<1>3. Len(a) \in Nat /\ Len(b) \in Nat /\ Len(c) \in Nat
    BY LenProperties
<1> HIDE DEF c1
<1>4. /\ abc \in Seq(S) /\ Len(abc) = Len(a) + Len(b) + Len(c)
      /\ \A i \in 1..Len(a) : abc[i] = a[i]
      /\ \A i \in 1..Len(b) : abc[Len(a) + i] = b[i]
      /\ \A i \in 1..Len(c) : abc[Len(a) + Len(b) + i] = c[i]
    BY ThreeParts
<1>5. abc \in Seq(S)
    BY <1>4
<1> HIDE DEF abc
<1>6. /\ old \in Seq(S) /\ Len(old) = Len(abc) + 1 /\ old[Len(abc) + 1] = x
      /\ \A i \in 1..Len(abc) : old[i] = abc[i]
    BY <1>5, AppendProperties
<1>7. /\ new \in Seq(S) /\ Len(new) = Len(a) + Len(b) + Len(c1)
      /\ \A i \in 1..Len(a) : new[i] = a[i]
      /\ \A i \in 1..Len(b) : new[Len(a) + i] = b[i]
      /\ \A i \in 1..Len(c1) : new[Len(a) + Len(b) + i] = c1[i]
    BY <1>2, ThreeParts
<1> HIDE DEF old, new
<1>8. Len(new) = Len(a) + Len(b) + (Len(c) + 1) /\ Len(old) = Len(new)
    BY <1>1, <1>3, <1>4, <1>6, <1>7
<1>9. ASSUME NEW k \in 1..Len(new) PROVE new[k] = old[k]
    <2>1. CASE k \in 1..Len(a)
        <3>1. k \in 1..Len(abc)
            BY <2>1, <1>3, <1>4
        <3> QED BY <2>1, <3>1, <1>4, <1>6, <1>7
    <2>2. ASSUME NEW i \in 1..Len(b), k = Len(a) + i PROVE new[k] = old[k]
        <3>1. k \in 1..Len(abc)
            BY <2>2, <1>3, <1>4
        <3> QED BY <2>2, <3>1, <1>4, <1>6, <1>7
    <2>3. ASSUME NEW i \in 1..(Len(c) + 1), k = Len(a) + Len(b) + i
          PROVE  new[k] = old[k]
        <3>1. new[k] = c1[i]
            BY <2>3, <1>1, <1>7
        <3>2. CASE i = Len(c) + 1
            <4>1. k = Len(abc) + 1
                BY <2>3, <3>2, <1>3, <1>4
            <4> QED BY <3>1, <3>2, <4>1, <1>1, <1>6
        <3>3. CASE i # Len(c) + 1
            <4>1. i \in 1..Len(c) /\ k \in 1..Len(abc)
                BY <2>3, <3>3, <1>3, <1>4
            <4> QED BY <2>3, <3>1, <4>1, <1>1, <1>4, <1>6
        <3> QED BY <3>2, <3>3
    <2>4. k \in 1..(Len(a) + Len(b) + (Len(c) + 1)) /\ Len(c) + 1 \in Nat
        BY <1>3, <1>8
    <2>5. \/ k \in 1..Len(a)
          \/ \E i \in 1..Len(b) : k = Len(a) + i
          \/ \E i \in 1..(Len(c) + 1) : k = Len(a) + Len(b) + i
        <3>1. Len(a) \in Nat /\ Len(b) \in Nat
            BY <1>3
        <3>2. InSomePart(k, Len(a), Len(b), Len(c) + 1)
            BY <2>4, <3>1, PlacesOfParts
        <3> QED BY <3>2 DEF InSomePart
    <2> QED BY <2>1, <2>2, <2>3, <2>5
<1>10. new = old
    BY <1>6, <1>7, <1>8, <1>9, SeqEqual
<1> QED BY <1>10 DEF new, old, abc, c1

\* The same for numbers.
FirstMoves(a, b, c) == (a \o Append(b, Head(c))) \o Tail(c) = (a \o b) \o c

FirstOfSecondMoves(a, b, c) ==
    (Append(a, Head(b)) \o Tail(b)) \o c = (a \o b) \o c

LEMMA NumbersMove ==
    ASSUME NEW a \in Seq(Nat), NEW b \in Seq(Nat), NEW c \in Seq(Nat)
    PROVE  /\ c # <<>> => (a \o Append(b, Head(c))) \o Tail(c) = (a \o b) \o c
           /\ b # <<>> => (Append(a, Head(b)) \o Tail(b)) \o c = (a \o b) \o c
           /\ \A x \in Nat : (a \o b) \o Append(c, x) = Append((a \o b) \o c, x)
<1>0. \A S : \A u, v, w \in Seq(S) : w # <<>> => FirstMoves(u, v, w)
    BY MoveToSecond DEF FirstMoves
<1>1. \A u, v, w \in Seq(Nat) : w # <<>> => FirstMoves(u, v, w)
    BY <1>0
<1>4. c # <<>> => (a \o Append(b, Head(c))) \o Tail(c) = (a \o b) \o c
    BY <1>1 DEF FirstMoves
<1>5. \A S : \A u, v, w \in Seq(S) : v # <<>> => FirstOfSecondMoves(u, v, w)
    BY MoveToFirst DEF FirstOfSecondMoves
<1>6. \A u, v, w \in Seq(Nat) : v # <<>> => FirstOfSecondMoves(u, v, w)
    BY <1>5
<1>2. b # <<>> => (Append(a, Head(b)) \o Tail(b)) \o c = (a \o b) \o c
    BY <1>6 DEF FirstOfSecondMoves
<1>3. \A x \in Nat : (a \o b) \o Append(c, x) = Append((a \o b) \o c, x)
    BY AddToThird
<1> QED BY <1>2, <1>3, <1>4

LEMMA PairOf ==
    ASSUME NEW a, NEW b
    PROVE  Append(<<a>>, b) = <<a, b>>
<1> DEFINE s == <<a>>
           t == Append(s, b)
           p == <<a, b>>
<1>1. s \in Seq({a, b}) /\ Len(s) = 1 /\ s[1] = a
    OBVIOUS
<1>2. p \in Seq({a, b}) /\ Len(p) = 2 /\ p[1] = a /\ p[2] = b
    OBVIOUS
<1>3. s \in Seq({a, b}) /\ b \in {a, b}
    BY <1>1
<1> HIDE DEF s, p
<1>4. /\ t \in Seq({a, b}) /\ Len(t) = Len(s) + 1 /\ t[Len(s) + 1] = b
      /\ \A i \in 1..Len(s) : t[i] = s[i]
    BY <1>3, AppendProperties
<1> HIDE DEF t
<1>5. Len(t) = 2 /\ t[2] = b /\ t[1] = a
    BY <1>1, <1>4
<1>6. \A i \in 1..Len(t) : t[i] = p[i]
    BY <1>2, <1>5
<1>7. t = p
    BY <1>2, <1>4, <1>5, <1>6, SeqEqual
<1> QED BY <1>7 DEF s, t, p

LEMMA AddLargest ==
    ASSUME NEW s \in Seq(Nat), NEW x \in Nat
    PROVE  /\ Increasing(s) /\ (\A y \in Members(s) : y < x) => Increasing(Append(s, x))
           /\ Members(Append(s, x)) = Members(s) \cup {x}
<1> DEFINE t == Append(s, x)
<1>1. /\ t \in Seq(Nat) /\ Len(t) = Len(s) + 1 /\ t[Len(s) + 1] = x
      /\ \A i \in 1..Len(s) : t[i] = s[i]
    BY AppendProperties
<1>2. Len(s) \in Nat
    BY LenProperties
<1> HIDE DEF t
<1>3. ASSUME Increasing(s), \A y \in Members(s) : y < x PROVE Increasing(t)
    <2> SUFFICES ASSUME NEW i \in 1..Len(t), NEW j \in 1..Len(t), i < j
                 PROVE  t[i] < t[j]
        BY DEF Increasing
    <2>1. i \in 1..Len(s) /\ t[i] = s[i]
        BY <1>1, <1>2
    <2>2. CASE j = Len(s) + 1
        BY <1>1, <1>3, <2>1, <2>2 DEF Members
    <2>3. CASE j # Len(s) + 1
        <3>1. j \in 1..Len(s) /\ t[j] = s[j]
            <4>0. Len(t) = Len(s) + 1
                BY <1>1
            <4>1. j \in 1..Len(s)
                BY <1>2, <2>3, <4>0
            <4> QED BY <1>1, <4>1
        <3> QED BY <1>3, <2>1, <3>1 DEF Increasing
    <2> QED BY <2>2, <2>3
<1>4. 1..Len(t) = 1..Len(s) \cup {Len(s) + 1}
    BY <1>1, <1>2
<1>5. Members(t) = Members(s) \cup {x}
    <2>1. \A i \in 1..Len(s) : i \in 1..Len(t) /\ t[i] = s[i]
        BY <1>1, <1>4
    <2>2. Len(s) + 1 \in 1..Len(t)
        BY <1>4
    <2>3. ASSUME NEW i \in 1..Len(t) PROVE t[i] \in Members(s) \cup {x}
        <3>1. i \in 1..Len(s) \/ i = Len(s) + 1
            BY <1>4
        <3> QED BY <1>1, <3>1 DEF Members
    <2>4. Members(t) \subseteq Members(s) \cup {x}
        BY <2>3 DEF Members
    <2>5. Members(s) \subseteq Members(t)
        BY <2>1 DEF Members
    <2>6. x \in Members(t)
        BY <1>1, <2>2 DEF Members
    <2> QED BY <2>4, <2>5, <2>6
<1> QED BY <1>3, <1>5 DEF t

Below(s, t) == \A x \in Members(s), y \in Members(t) : x < y

LEMMA EmptyIsIncreasing == Increasing(<<>>) /\ Members(<<>>) = {}
BY DEF Increasing, Members

LEMMA MembersOfParts ==
    ASSUME NEW S, NEW a \in Seq(S), NEW b \in Seq(S), NEW c \in Seq(S)
    PROVE  Members((a \o b) \o c) = Members(a) \cup Members(b) \cup Members(c)
<1> DEFINE abc == (a \o b) \o c
<1>1. Len(a) \in Nat /\ Len(b) \in Nat /\ Len(c) \in Nat
    BY LenProperties
<1>2. /\ Len(abc) = Len(a) + Len(b) + Len(c)
      /\ \A i \in 1..Len(a) : abc[i] = a[i]
      /\ \A i \in 1..Len(b) : abc[Len(a) + i] = b[i]
      /\ \A i \in 1..Len(c) : abc[Len(a) + Len(b) + i] = c[i]
    BY ThreeParts
<1> HIDE DEF abc
<1>3. ASSUME NEW k \in 1..Len(abc)
      PROVE  abc[k] \in Members(a) \cup Members(b) \cup Members(c)
    <2>1. k \in 1..(Len(a) + Len(b) + Len(c))
        BY <1>2
    <2>2. \/ k \in 1..Len(a)
          \/ \E i \in 1..Len(b) : k = Len(a) + i
          \/ \E i \in 1..Len(c) : k = Len(a) + Len(b) + i
        <3>1. InSomePart(k, Len(a), Len(b), Len(c))
            BY <1>1, <2>1, PlacesOfParts
        <3> QED BY <3>1 DEF InSomePart
    <2>3. \A u \in 1..Len(a) : abc[u] \in Members(a)
        BY <1>2 DEF Members
    <2>4. \A u \in 1..Len(b) : abc[Len(a) + u] \in Members(b)
        BY <1>2 DEF Members
    <2>5. \A u \in 1..Len(c) : abc[Len(a) + Len(b) + u] \in Members(c)
        BY <1>2 DEF Members
    <2> QED BY <2>2, <2>3, <2>4, <2>5
<1>4. ASSUME NEW i \in 1..Len(a) PROVE a[i] \in Members(abc)
    <2>1. i \in 1..Len(abc)
        BY <1>1, <1>2
    <2> QED BY <1>2, <2>1 DEF Members
<1>5. ASSUME NEW i \in 1..Len(b) PROVE b[i] \in Members(abc)
    <2>1. Len(a) + i \in 1..Len(abc)
        BY <1>1, <1>2
    <2> QED BY <1>2, <2>1 DEF Members
<1>6. ASSUME NEW i \in 1..Len(c) PROVE c[i] \in Members(abc)
    <2>1. Len(a) + Len(b) + i \in 1..Len(abc)
        BY <1>1, <1>2
    <2> QED BY <1>2, <2>1 DEF Members
<1>7. Members(abc) = Members(a) \cup Members(b) \cup Members(c)
    BY <1>3, <1>4, <1>5, <1>6 DEF Members
<1> QED BY <1>7 DEF abc

\* A concatenation is in order if its parts are, and follow each other.
LEMMA OrderOfParts ==
    ASSUME NEW a \in Seq(Nat), NEW b \in Seq(Nat), NEW c \in Seq(Nat)
    PROVE  Increasing((a \o b) \o c) <=>
              /\ Increasing(a) /\ Increasing(b) /\ Increasing(c)
              /\ Below(a, b) /\ Below(a, c) /\ Below(b, c)
<1> DEFINE abc == (a \o b) \o c
           m == Len(a)
           n == Len(b)
           l == Len(c)
<1>1. m \in Nat /\ n \in Nat /\ l \in Nat
    BY LenProperties
<1>2. /\ Len(abc) = m + n + l
      /\ \A i \in 1..m : abc[i] = a[i]
      /\ \A i \in 1..n : abc[m + i] = b[i]
      /\ \A i \in 1..l : abc[m + n + i] = c[i]
    BY ThreeParts
<1> HIDE DEF abc
<1>3. ASSUME Increasing(abc)
      PROVE  /\ Increasing(a) /\ Increasing(b) /\ Increasing(c)
             /\ Below(a, b) /\ Below(a, c) /\ Below(b, c)
    <2>1. ASSUME NEW i \in 1..m, NEW j \in 1..m, i < j PROVE a[i] < a[j]
        <3>1. i \in 1..Len(abc) /\ j \in 1..Len(abc)
            BY <1>1, <1>2
        <3> QED BY <1>2, <1>3, <2>1, <3>1 DEF Increasing
    <2>2. ASSUME NEW i \in 1..n, NEW j \in 1..n, i < j PROVE b[i] < b[j]
        <3>1. m + i \in 1..Len(abc) /\ m + j \in 1..Len(abc) /\ m + i < m + j
            BY <1>1, <1>2, <2>2
        <3> QED BY <1>2, <1>3, <3>1 DEF Increasing
    <2>3. ASSUME NEW i \in 1..l, NEW j \in 1..l, i < j PROVE c[i] < c[j]
        <3>1. m + n + i \in 1..Len(abc) /\ m + n + j \in 1..Len(abc) /\ m + n + i < m + n + j
            BY <1>1, <1>2, <2>3
        <3> QED BY <1>2, <1>3, <3>1 DEF Increasing
    <2>4. ASSUME NEW i \in 1..m, NEW j \in 1..n PROVE a[i] < b[j]
        <3>1. i \in 1..Len(abc) /\ m + j \in 1..Len(abc) /\ i < m + j
            BY <1>1, <1>2
        <3> QED BY <1>2, <1>3, <3>1 DEF Increasing
    <2>5. ASSUME NEW i \in 1..m, NEW j \in 1..l PROVE a[i] < c[j]
        <3>1. i \in 1..Len(abc) /\ m + n + j \in 1..Len(abc) /\ i < m + n + j
            BY <1>1, <1>2
        <3> QED BY <1>2, <1>3, <3>1 DEF Increasing
    <2>6. ASSUME NEW i \in 1..n, NEW j \in 1..l PROVE b[i] < c[j]
        <3>1. m + i \in 1..Len(abc) /\ m + n + j \in 1..Len(abc) /\ m + i < m + n + j
            BY <1>1, <1>2
        <3> QED BY <1>2, <1>3, <3>1 DEF Increasing
    <2>7. Increasing(a) /\ Increasing(b) /\ Increasing(c)
        BY <2>1, <2>2, <2>3 DEF Increasing
    <2>8. Below(a, b) /\ Below(a, c) /\ Below(b, c)
        BY <2>4, <2>5, <2>6 DEF Below, Members
    <2> QED BY <2>7, <2>8
<1>4. ASSUME Increasing(a), Increasing(b), Increasing(c),
             Below(a, b), Below(a, c), Below(b, c)
      PROVE  Increasing(abc)
    <2> SUFFICES ASSUME NEW i \in 1..Len(abc), NEW j \in 1..Len(abc), i < j
                 PROVE  abc[i] < abc[j]
        BY DEF Increasing
    <2>1. ASSUME NEW k \in 1..Len(abc)
          PROVE  \/ k \in 1..m
                 \/ \E u \in 1..n : k = m + u
                 \/ \E u \in 1..l : k = m + n + u
        <3>1. k \in 1..(m + n + l)
            BY <1>2
        <3> HIDE DEF m, n, l
        <3>2. InSomePart(k, m, n, l)
            BY <1>1, <3>1, PlacesOfParts
        <3> QED BY <3>2 DEF InSomePart
    <2>2. \A u \in 1..m : a[u] \in Members(a)
        BY DEF Members
    <2>3. \A u \in 1..n : b[u] \in Members(b)
        BY DEF Members
    <2>4. \A u \in 1..l : c[u] \in Members(c)
        BY DEF Members
    <2>5. CASE i \in 1..m
        <3>1. CASE j \in 1..m
            BY <1>2, <1>4, <2>5, <3>1 DEF Increasing
        <3>2. ASSUME NEW v \in 1..n, j = m + v PROVE abc[i] < abc[j]
            BY <1>2, <1>4, <2>2, <2>3, <2>5, <3>2 DEF Below
        <3>3. ASSUME NEW v \in 1..l, j = m + n + v PROVE abc[i] < abc[j]
            BY <1>2, <1>4, <2>2, <2>4, <2>5, <3>3 DEF Below
        <3> QED BY <2>1, <3>1, <3>2, <3>3
    <2>6. ASSUME NEW u \in 1..n, i = m + u PROVE abc[i] < abc[j]
        <3>1. CASE j \in 1..m
            BY <1>1, <2>6, <3>1
        <3>2. ASSUME NEW v \in 1..n, j = m + v PROVE abc[i] < abc[j]
            <4>1. u < v
                BY <1>1, <2>6, <3>2
            <4> QED BY <1>2, <1>4, <2>6, <3>2, <4>1 DEF Increasing
        <3>3. ASSUME NEW v \in 1..l, j = m + n + v PROVE abc[i] < abc[j]
            BY <1>2, <1>4, <2>3, <2>4, <2>6, <3>3 DEF Below
        <3> QED BY <2>1, <3>1, <3>2, <3>3
    <2>7. ASSUME NEW u \in 1..l, i = m + n + u PROVE abc[i] < abc[j]
        <3>1. CASE j \in 1..m
            BY <1>1, <2>7, <3>1
        <3>2. ASSUME NEW v \in 1..n, j = m + v PROVE FALSE
            BY <1>1, <2>7, <3>2
        <3>3. ASSUME NEW v \in 1..l, j = m + n + v PROVE abc[i] < abc[j]
            <4>1. u < v
                BY <1>1, <2>7, <3>3
            <4> QED BY <1>2, <1>4, <2>7, <3>3, <4>1 DEF Increasing
        <3> QED BY <2>1, <3>1, <3>2, <3>3
    <2> QED BY <2>1, <2>5, <2>6, <2>7
<1> QED BY <1>3, <1>4 DEF abc

\* Losing a part loses what is in it, and leaves the order.
LEMMA LosePart ==
    ASSUME NEW a \in Seq(Nat), NEW b \in Seq(Nat), NEW c \in Seq(Nat),
           Increasing((a \o b) \o c)
    PROVE  /\ Increasing((a \o <<>>) \o c)
           /\ Members((a \o b) \o c) = Members((a \o <<>>) \o c) \cup Members(b)
           /\ Members((a \o <<>>) \o c) \cap Members(b) = {}
           /\ Increasing((a \o b) \o <<>>)
           /\ Members((a \o b) \o c) = Members((a \o b) \o <<>>) \cup Members(c)
           /\ Members((a \o b) \o <<>>) \cap Members(c) = {}
<1> DEFINE e == <<>>
<1>1. e \in Seq(Nat) /\ Increasing(e) /\ Members(e) = {}
    BY EmptyIsIncreasing
<1>2. /\ Increasing(a) /\ Increasing(b) /\ Increasing(c)
      /\ Below(a, b) /\ Below(a, c) /\ Below(b, c)
    BY OrderOfParts
<1>3. Members(a) \subseteq Nat /\ Members(b) \subseteq Nat /\ Members(c) \subseteq Nat
    BY ElementOfSeq DEF Members
<1>4. /\ Members(a) \cap Members(b) = {} /\ Members(a) \cap Members(c) = {}
      /\ Members(b) \cap Members(c) = {}
    BY <1>2, <1>3 DEF Below
<1> HIDE DEF e
<1>5. /\ Members((a \o b) \o c) = Members(a) \cup Members(b) \cup Members(c)
      /\ Members((a \o e) \o c) = Members(a) \cup Members(e) \cup Members(c)
      /\ Members((a \o b) \o e) = Members(a) \cup Members(b) \cup Members(e)
    BY <1>1, MembersOfParts
<1>6. Below(a, e) /\ Below(e, c) /\ Below(b, e)
    BY <1>1 DEF Below
<1>7. Increasing((a \o e) \o c) /\ Increasing((a \o b) \o e)
    BY <1>1, <1>2, <1>6, OrderOfParts
<1>8. /\ Members((a \o b) \o c) = Members((a \o e) \o c) \cup Members(b)
      /\ Members((a \o e) \o c) \cap Members(b) = {}
      /\ Members((a \o b) \o c) = Members((a \o b) \o e) \cup Members(c)
      /\ Members((a \o b) \o e) \cap Members(c) = {}
    BY <1>1, <1>4, <1>5
<1> QED BY <1>7, <1>8 DEF e

-----------------------------------------------------------------------------
(* PushPull: the inductive invariant.                                      *)

First(p) == IF p = Self THEN 1 ELSE 0

Servers == [pc : {"down", "push", "poll", "recv", "close", "done"},
            bound : BOOLEAN, loop : 1..Rounds]

\* The calls of each script.
ServerPcs ==
    /\ script = "pull" => server.pc \in {"down", "recv"}
    /\ script = "poll" => server.pc # "push"
    /\ script = "lockstep" => server.pc # "poll"

PipelineTypes ==
    /\ starts \in 0..MaxStarts
    /\ server \in Servers /\ ServerPcs
    /\ client \in [Clients -> [pc : {"push", "disconnect", "done"}, job : 0..LastJob]]
    /\ pipe \in [Pipeline!Pushers -> Seq(Pipeline!Job)]
    /\ inbox \in [Pipeline!Pushers -> Seq(Pipeline!Job)]
    /\ pulled \in [Pipeline!Pushers -> Seq(Pipeline!Job)]
    /\ pushed \in [Pipeline!Pushers -> Seq(Pipeline!Job)]
    /\ lost \in [Pipeline!Pushers -> SUBSET Pipeline!Job]

\* A pusher pushes its jobs by their numbers, up to its loop counter.
PushedInOrder ==
    \A p \in Pipeline!Pushers :
        \A i \in 1..Len(pushed[p]) : pushed[p][i] = First(p) + i - 1
ClientsPushed ==
    \A c \in Clients :
        /\ Len(pushed[c]) <= LastJob + 1
        /\ client[c].pc = "push" => Len(pushed[c]) = client[c].job
SelfPushed ==
    /\ Len(pushed[Self]) <= Rounds
    /\ script # "lockstep" \/ server.pc = "down" => Len(pushed[Self]) = 0
    /\ server.pc = "push" => Len(pushed[Self]) = server.loop - 1
    /\ script = "lockstep" /\ server.pc = "recv" => Len(pushed[Self]) = server.loop

\* Of the jobs in the set all, those in kept and those in lost.
Splits(kept, gone, all) ==
    Increasing(kept) /\ Members(kept) \cup gone = all /\ Members(kept) \cap gone = {}
Balanced ==
    \A p \in Pipeline!Pushers :
        Splits((pulled[p] \o inbox[p]) \o pipe[p], lost[p], Members(pushed[p]))

\* While nothing was lost but at the end of a client, its jobs are kept without
\* a gap.
Gapless(first, s) == \A i \in 1..Len(s) : s[i] = first + i - 1
Serving == starts = 0 \/ server.pc \notin {"down", "done"}
KeptWithoutGap ==
    /\ starts = 0 => server.pc = "down"
    /\ starts <= 1 =>
          \A c \in Clients :
              /\ Gapless(0, pulled[c])
              /\ Serving => LET kept == (pulled[c] \o inbox[c]) \o pipe[c]
                            IN  /\ Gapless(0, kept)
                                /\ client[c].pc # "done" => Len(kept) = Len(pushed[c])

\* The lockstep script has pulled as many jobs as it has pushed, of its own and
\* of the clients, but for the one it is receiving for.
Received == Len(pulled[Self]) + Cardinality(Pipeline!PulledOfClients)
Turns ==
    /\ IsFiniteSet(Pipeline!PulledOfClients)
    /\ script = "lockstep" =>
          /\ Len(pushed[Self]) \in {Received, Received + 1}
          /\ server.pc = "push" => Len(pushed[Self]) = Received
          /\ server.pc = "recv" => Len(pushed[Self]) = Received + 1

\* Until it closes it loses none of its own.
OwnInOrder ==
    script = "lockstep" =>
        /\ Gapless(1, pulled[Self])
        /\ server.pc # "done" =>
              LET kept == (pulled[Self] \o inbox[Self]) \o pipe[Self]
              IN  Gapless(1, kept) /\ Len(kept) = Len(pushed[Self])

PipelineParts ==
    /\ PipelineTypes
    /\ PushedInOrder /\ ClientsPushed /\ SelfPushed
    /\ Balanced
    /\ KeptWithoutGap
    /\ Turns /\ OwnInOrder
    /\ Pipeline!PolledIsReceived
PipelineInv == Pipelines => PipelineParts

-----------------------------------------------------------------------------
(* PushPull: what its steps do to the jobs.                                *)

LEMMA PipelineFacts ==
    /\ LastJob \in Nat /\ Rounds \in Nat \ {0} /\ MaxStarts \in Nat
    /\ Self \notin Clients /\ Clients \subseteq Pipeline!Pushers /\ Self \in Pipeline!Pushers
    /\ \A p \in Pipeline!Pushers : p \in Clients \/ p = Self
    /\ Pipeline!Job \subseteq Nat
BY BoundsAssumption DEF Pipeline!Pushers, Pipeline!Job

LEMMA JobSequences ==
    ASSUME NEW s \in Seq(Pipeline!Job)
    PROVE  s \in Seq(Nat) /\ Len(s) \in Nat /\ Pipeline!Range(s) = Members(s)
<1>1. s \in Seq(Nat)
    BY PipelineFacts, SeqMonotonic
<1> QED BY <1>1, LenProperties, RangesAreMembers

LEMMA LosePartSplits ==
    ASSUME NEW a \in Seq(Nat), NEW b \in Seq(Nat), NEW c \in Seq(Nat),
           NEW gone, NEW all, Splits((a \o b) \o c, gone, all)
    PROVE  /\ Splits((a \o <<>>) \o c, gone \cup Members(b), all)
           /\ Splits((a \o b) \o <<>>, gone \cup Members(c), all)
<1> DEFINE abc == (a \o b) \o c
           ac == (a \o <<>>) \o c
           ab == (a \o b) \o <<>>
<1>1. Increasing(abc) /\ Members(abc) \cup gone = all /\ Members(abc) \cap gone = {}
    BY DEF Splits
<1>2. /\ Increasing(ac) /\ Members(abc) = Members(ac) \cup Members(b)
      /\ Members(ac) \cap Members(b) = {}
      /\ Increasing(ab) /\ Members(abc) = Members(ab) \cup Members(c)
      /\ Members(ab) \cap Members(c) = {}
    BY <1>1, LosePart
<1> HIDE DEF abc, ac, ab
<1>3. Splits(ac, gone \cup Members(b), all) /\ Splits(ab, gone \cup Members(c), all)
    BY <1>1, <1>2 DEF Splits
<1> QED BY <1>3 DEF abc, ac, ab

LEMMA GaplessParts ==
    ASSUME NEW a \in Seq(Nat), NEW b \in Seq(Nat), NEW c \in Seq(Nat),
           NEW f \in Nat, Gapless(f, (a \o b) \o c)
    PROVE  Gapless(f, a) /\ Gapless(f, (a \o b) \o <<>>)
<1> DEFINE e == <<>>
           abc == (a \o b) \o c
           abe == (a \o b) \o e
<1>1. e \in Seq(Nat) /\ Len(e) = 0
    OBVIOUS
<1>2. Len(a) \in Nat /\ Len(b) \in Nat /\ Len(c) \in Nat
    BY LenProperties
<1>3. /\ Len(abc) = Len(a) + Len(b) + Len(c)
      /\ \A i \in 1..Len(a) : abc[i] = a[i]
      /\ \A i \in 1..Len(b) : abc[Len(a) + i] = b[i]
    BY ThreeParts
<1> HIDE DEF e
<1>4. /\ Len(abe) = Len(a) + Len(b) + Len(e)
      /\ \A i \in 1..Len(a) : abe[i] = a[i]
      /\ \A i \in 1..Len(b) : abe[Len(a) + i] = b[i]
    BY <1>1, ThreeParts
<1> HIDE DEF abe, abc
<1>5. \A i \in 1..Len(abc) : abc[i] = f + i - 1
    BY DEF Gapless, abc
<1>6. \A i \in 1..Len(a) : i \in 1..Len(abc)
    BY <1>2, <1>3
<1>7. \A i \in 1..Len(b) : Len(a) + i \in 1..Len(abc)
    BY <1>2, <1>3
<1>8. Gapless(f, a)
    BY <1>3, <1>5, <1>6 DEF Gapless
<1>9. ASSUME NEW i \in 1..Len(abe) PROVE abe[i] = f + i - 1
    <2>1. CASE i \in 1..Len(a)
        BY <2>1, <1>3, <1>4, <1>5, <1>6
    <2>2. CASE i \notin 1..Len(a)
        <3>1. i - Len(a) \in 1..Len(b) /\ Len(a) + (i - Len(a)) = i
            BY <2>2, <1>1, <1>2, <1>4
        <3> QED BY <3>1, <1>3, <1>4, <1>5, <1>7
    <2> QED BY <2>1, <2>2
<1>10. Gapless(f, abe)
    BY <1>9 DEF Gapless
<1> QED BY <1>8, <1>10 DEF abe, e

LEMMA AddGapless ==
    ASSUME NEW s \in Seq(Nat), NEW f \in Nat, Gapless(f, s), NEW x \in Nat, x = f + Len(s)
    PROVE  Gapless(f, Append(s, x)) /\ Len(Append(s, x)) = Len(s) + 1
<1> DEFINE t == Append(s, x)
<1>1. /\ Len(t) = Len(s) + 1 /\ t[Len(s) + 1] = x
      /\ \A i \in 1..Len(s) : t[i] = s[i]
    BY AppendProperties
<1>2. Len(s) \in Nat
    BY LenProperties
<1> HIDE DEF t
<1>3. ASSUME NEW i \in 1..Len(t) PROVE t[i] = f + i - 1
    <2>1. CASE i = Len(s) + 1
        BY <1>1, <1>2, <2>1
    <2>2. CASE i # Len(s) + 1
        <3>1. i \in 1..Len(s)
            BY <1>1, <1>2, <2>2
        <3> QED BY <1>1, <3>1 DEF Gapless
    <2> QED BY <2>1, <2>2
<1> QED BY <1>1, <1>3 DEF Gapless, t

LEMMA InitPipelineInv == Init => PipelineInv
<1> SUFFICES ASSUME Init, Pipelines PROVE PipelineParts
    BY DEF PipelineInv
<1>1. Pipeline!Init
    BY DEF Init, Publish!Init, Pipelines
<1> DEFINE e == <<>>
<1>2. /\ e \in Seq(Pipeline!Job) /\ e \in Seq(Nat) /\ Len(e) = 0
      /\ (e \o e) \o e = e /\ Increasing(e) /\ Members(e) = {}
    BY EmptyIsIncreasing, ConcatEmptySeq
<1>3. /\ starts = 0
      /\ server = [pc |-> "down", bound |-> FALSE, loop |-> 1]
      /\ client = [c \in Clients |-> [pc |-> "push", job |-> 0]]
      /\ pipe = [p \in Pipeline!Pushers |-> e]
      /\ inbox = [p \in Pipeline!Pushers |-> e]
      /\ pulled = [p \in Pipeline!Pushers |-> e]
      /\ lost = [p \in Pipeline!Pushers |-> {}]
      /\ pushed = [p \in Pipeline!Pushers |-> e]
    BY <1>1 DEF Pipeline!Init
<1> HIDE DEF e
<1>4. server \in Servers /\ server.pc = "down"
    <2>1. FALSE \in BOOLEAN /\ 1 \in 1..Rounds
        BY PipelineFacts
    <2> QED BY <1>3, <2>1 DEF Servers
<1>5. PipelineTypes
    BY <1>2, <1>3, <1>4, PipelineFacts DEF PipelineTypes, ServerPcs
<1>6. PushedInOrder /\ ClientsPushed /\ SelfPushed
    BY <1>2, <1>3, <1>4, PipelineFacts DEF PushedInOrder, ClientsPushed, SelfPushed
<1>7. Balanced
    BY <1>2, <1>3 DEF Balanced, Splits
<1>8. KeptWithoutGap
    BY <1>2, <1>3, <1>4, PipelineFacts DEF KeptWithoutGap, Gapless
<1>9. Turns
    <2>1. Pipeline!PulledOfClients = {}
        BY <1>2, <1>3, PipelineFacts DEF Pipeline!PulledOfClients
    <2>2. IsFiniteSet(Pipeline!PulledOfClients) /\ Cardinality(Pipeline!PulledOfClients) = 0
        BY <2>1, FS_EmptySet
    <2> QED BY <1>2, <1>3, <1>4, <2>2, PipelineFacts DEF Turns, Received
<1>10. Pipeline!PolledIsReceived
    BY <1>4 DEF Pipeline!PolledIsReceived
<1>11. OwnInOrder
    BY <1>2, <1>3, PipelineFacts DEF OwnInOrder, Gapless
<1> QED BY <1>5, <1>6, <1>7, <1>8, <1>9, <1>10, <1>11 DEF PipelineParts

\* A step that leaves the jobs where they are.
LEMMA JobsStay ==
    ASSUME PipelineParts, UNCHANGED <<pipe, inbox, pulled, lost, pushed>>
    PROVE  /\ PushedInOrder' /\ Balanced'
           /\ Pipeline!PulledOfClients' = Pipeline!PulledOfClients
           /\ Pipeline!Waiting' = Pipeline!Waiting
<1>1. Pipeline!PulledOfClients' = Pipeline!PulledOfClients /\ Pipeline!Waiting' = Pipeline!Waiting
    BY DEF Pipeline!PulledOfClients, Pipeline!Waiting
<1> QED BY <1>1 DEF PipelineParts, PushedInOrder, Balanced

LEMMA NextRoundResult ==
    ASSUME PipelineTypes, Pipelines, server.pc \in {"poll", "recv"}, Pipeline!NextRound,
           script' = script
    PROVE  /\ server' \in Servers /\ ServerPcs'
           /\ \/ script = "pull" /\ server' = server
              \/ script # "pull" /\ server'.pc = "close"
              \/ script = "poll" /\ server'.pc = "poll"
              \/ /\ script = "lockstep" /\ server'.pc = "push"
                 /\ server'.loop = server.loop + 1
<1>1. server \in Servers /\ ServerPcs
    BY DEF PipelineTypes
<1>2. CASE script = "pull"
    <2>1. server' = server
        BY <1>2 DEF Pipeline!NextRound
    <2> QED BY <1>1, <1>2, <2>1 DEF ServerPcs
<1>3. CASE script # "pull" /\ server.loop = Rounds
    <2>1. server' = [server EXCEPT !.pc = "close"]
        BY <1>3 DEF Pipeline!NextRound
    <2> QED BY <1>1, <1>3, <2>1 DEF ServerPcs, Servers
<1>4. CASE script # "pull" /\ server.loop # Rounds
    <2>1. server' = [server EXCEPT !.pc = Pipeline!FirstCall, !.loop = server.loop + 1]
        BY <1>4 DEF Pipeline!NextRound
    <2>2. /\ script = "poll" => Pipeline!FirstCall = "poll"
          /\ script = "lockstep" => Pipeline!FirstCall = "push"
          /\ script \in {"poll", "lockstep"}
        BY <1>4 DEF Pipeline!FirstCall, Pipelines
    <2>3. server.loop + 1 \in 1..Rounds
        BY <1>1, <1>4, PipelineFacts DEF Servers
    <2>4. server' \in Servers /\ server'.pc = Pipeline!FirstCall /\ server'.loop = server.loop + 1
        BY <1>1, <2>1, <2>2, <2>3 DEF Servers
    <2> QED BY <1>4, <2>2, <2>4 DEF ServerPcs
<1> QED BY <1>2, <1>3, <1>4

LEMMA ServerStepsKeep ==
    ASSUME PipelineParts, Pipelines,
           \/ Pipeline!Start \/ Pipeline!Poll \/ Pipeline!PollFails
           \/ Pipeline!LockstepPushFails \/ Pipeline!LockstepRecvExpires
    PROVE  PipelineParts'
<1>1. UNCHANGED <<script, client, pipe, inbox, pulled, lost, pushed>>
    BY DEF Pipeline!Start, Pipeline!Poll, Pipeline!PollFails, Pipeline!jobs,
           Pipeline!LockstepPushFails, Pipeline!LockstepRecvExpires
<1>2. /\ PushedInOrder' /\ Balanced'
      /\ Pipeline!PulledOfClients' = Pipeline!PulledOfClients /\ Pipeline!Waiting' = Pipeline!Waiting
    BY <1>1, JobsStay
<1>3. /\ PipelineTypes /\ ClientsPushed /\ SelfPushed /\ KeptWithoutGap /\ Turns
      /\ OwnInOrder /\ Pipeline!PolledIsReceived
      /\ server \in Servers /\ ServerPcs
    BY DEF PipelineParts, PipelineTypes
<1>4. ClientsPushed'
    BY <1>1, <1>3 DEF ClientsPushed
<1>5. ASSUME server' \in Servers, ServerPcs', starts' \in 0..MaxStarts
      PROVE  PipelineTypes'
    BY <1>1, <1>3, <1>5 DEF PipelineTypes
<1>6. ASSUME starts' = starts, server.pc \notin {"down", "done"}
      PROVE  KeptWithoutGap'
    BY <1>1, <1>3, <1>6 DEF KeptWithoutGap, Serving
<1>11. ASSUME server.pc # "done" PROVE OwnInOrder'
    BY <1>1, <1>3, <1>11 DEF OwnInOrder
<1>12. ASSUME server'.pc \notin {"push", "recv"}
       PROVE  Turns'
    BY <1>1, <1>2, <1>3, <1>12 DEF Turns, Received
<1>7. CASE Pipeline!Start
    <2>1. /\ server.pc = "down" /\ starts < MaxStarts /\ starts' = starts + 1
          /\ \/ server' = [pc |-> Pipeline!FirstCall, bound |-> TRUE, loop |-> 1]
             \/ server' = [pc |-> IF script = "poll" THEN "poll" ELSE "down",
                           bound |-> FALSE, loop |-> 1]
        BY <1>7 DEF Pipeline!Start
    <2>2. /\ script = "pull" => Pipeline!FirstCall = "recv"
          /\ script = "poll" => Pipeline!FirstCall = "poll"
          /\ script = "lockstep" => Pipeline!FirstCall = "push"
          /\ script \in {"pull", "poll", "lockstep"}
        BY DEF Pipeline!FirstCall, Pipelines
    <2>3. server' \in Servers /\ server'.loop = 1
        <3>1. TRUE \in BOOLEAN /\ FALSE \in BOOLEAN /\ 1 \in 1..Rounds
            BY PipelineFacts
        <3>2. PICK call \in {"recv", "poll", "push", "down"}, b \in BOOLEAN :
                  server' = [pc |-> call, bound |-> b, loop |-> 1]
            BY <2>1, <2>2, <3>1
        <3> QED BY <3>1, <3>2 DEF Servers
    <2>4. /\ script = "pull" => server'.pc \in {"recv", "down"}
          /\ script = "poll" => server'.pc = "poll"
          /\ script = "lockstep" => server'.pc \in {"push", "down"}
        BY <2>1, <2>2
    <2>5. starts' \in 0..MaxStarts
        BY <1>3, <2>1, PipelineFacts DEF PipelineTypes
    <2>6. PipelineTypes'
        BY <1>1, <1>5, <2>2, <2>3, <2>4, <2>5 DEF ServerPcs
    <2>7. SelfPushed'
        BY <1>1, <1>3, <2>1, <2>2, <2>3, <2>4, PipelineFacts DEF SelfPushed
    <2>8. KeptWithoutGap'
        <3>1. starts \in Nat /\ starts' # 0 /\ (starts' <= 1 => starts = 0)
            BY <1>3, <2>1 DEF PipelineTypes
        <3>2. starts' <= 1 =>
                  \A c \in Clients :
                      LET kept == (pulled[c] \o inbox[c]) \o pipe[c]
                      IN  /\ Gapless(0, pulled[c]) /\ Gapless(0, kept)
                          /\ client[c].pc # "done" => Len(kept) = Len(pushed[c])
            <4> SUFFICES ASSUME starts' <= 1, NEW c \in Clients
                         PROVE  LET kept == (pulled[c] \o inbox[c]) \o pipe[c]
                                IN  /\ Gapless(0, pulled[c]) /\ Gapless(0, kept)
                                    /\ client[c].pc # "done" => Len(kept) = Len(pushed[c])
                OBVIOUS
            <4>1. Serving /\ starts <= 1
                BY <3>1 DEF Serving
            <4> QED BY <1>3, <4>1 DEF KeptWithoutGap
        <3> QED BY <1>1, <3>1, <3>2 DEF KeptWithoutGap
    <2>9. Turns'
        <3> DEFINE own == Len(pulled[Self])
                   all == Len(pushed[Self])
                   taken == Cardinality(Pipeline!PulledOfClients)
        <3>1. all = 0 /\ taken \in Nat /\ own \in Nat
            BY <1>3, <2>1, FS_CardinalityType, LenProperties, PipelineFacts
               DEF SelfPushed, Turns, PipelineTypes
        <3>2. script = "lockstep" => all = own + taken \/ all = own + taken + 1
            BY <1>3 DEF Turns, Received
        <3> HIDE DEF own, all, taken
        <3>3. script = "lockstep" => all = own + taken
            BY <3>1, <3>2
        <3> USE DEF own, all, taken
        <3>4. script = "lockstep" => server'.pc # "recv"
            BY <2>4
        <3> QED BY <1>1, <1>2, <1>3, <3>3, <3>4 DEF Turns, Received
    <2>10. Pipeline!PolledIsReceived'
        BY <1>1, <2>4 DEF Pipeline!PolledIsReceived
    <2>11. OwnInOrder'
        BY <1>11, <2>1
    <2> QED BY <1>2, <1>4, <2>6, <2>7, <2>8, <2>9, <2>10, <2>11 DEF PipelineParts
<1>8. CASE Pipeline!Poll
    <2>1. /\ server.pc = "poll" /\ server' = [server EXCEPT !.pc = "recv"]
          /\ Pipeline!Waiting # {} /\ starts' = starts
        BY <1>8 DEF Pipeline!Poll
    <2>2. server' \in Servers /\ server'.pc = "recv" /\ script # "lockstep"
        BY <1>3, <2>1 DEF Servers, ServerPcs
    <2>3. PipelineTypes'
        BY <1>1, <1>3, <1>5, <2>1, <2>2 DEF ServerPcs, PipelineTypes
    <2>4. SelfPushed' /\ Turns'
        BY <1>1, <1>2, <1>3, <2>2 DEF SelfPushed, Turns
    <2>5. Pipeline!PolledIsReceived'
        BY <1>2, <2>1 DEF Pipeline!PolledIsReceived
    <2>6. KeptWithoutGap' /\ OwnInOrder'
        BY <1>6, <1>11, <2>1
    <2> QED BY <1>2, <1>4, <2>3, <2>4, <2>5, <2>6 DEF PipelineParts
<1>9. CASE Pipeline!PollFails
    <2>1. server.pc = "poll" /\ Pipeline!NextRound /\ starts' = starts
        BY <1>9 DEF Pipeline!PollFails
    <2>2. script \notin {"lockstep", "pull"}
        BY <1>3, <2>1 DEF ServerPcs
    <2>3. server' \in Servers /\ ServerPcs' /\ server'.pc \in {"close", "poll"}
        BY <1>1, <1>3, <2>1, <2>2, NextRoundResult
    <2>4. PipelineTypes'
        BY <1>3, <1>5, <2>1, <2>3 DEF PipelineTypes
    <2>5. SelfPushed' /\ Turns' /\ Pipeline!PolledIsReceived'
        BY <1>1, <1>2, <1>3, <1>12, <2>2, <2>3 DEF SelfPushed, Pipeline!PolledIsReceived
    <2>6. KeptWithoutGap' /\ OwnInOrder'
        BY <1>6, <1>11, <2>1
    <2> QED BY <1>2, <1>4, <2>4, <2>5, <2>6 DEF PipelineParts
<1>10. CASE Pipeline!LockstepPushFails \/ Pipeline!LockstepRecvExpires
    <2>1. /\ server.pc \in {"push", "recv"} /\ server' = [server EXCEPT !.pc = "close"]
          /\ starts' = starts /\ (server.pc = "recv" => script = "lockstep")
        BY <1>10 DEF Pipeline!LockstepPushFails, Pipeline!LockstepRecvExpires
    <2>2. server' \in Servers /\ server'.pc = "close" /\ script = "lockstep"
        BY <1>3, <2>1 DEF Servers, ServerPcs, Pipelines
    <2>3. PipelineTypes'
        BY <1>1, <1>3, <1>5, <2>1, <2>2 DEF ServerPcs, PipelineTypes
    <2>4. SelfPushed' /\ Turns' /\ Pipeline!PolledIsReceived'
        BY <1>1, <1>2, <1>3, <1>12, <2>2 DEF SelfPushed, Pipeline!PolledIsReceived
    <2>5. KeptWithoutGap' /\ OwnInOrder'
        BY <1>6, <1>11, <2>1
    <2> QED BY <1>2, <1>4, <2>3, <2>4, <2>5 DEF PipelineParts
<1> QED BY <1>7, <1>8, <1>9, <1>10

LEMMA PushFailsKeeps ==
    ASSUME PipelineParts, NEW c \in Clients, Pipeline!PushFails(c)
    PROVE  PipelineParts'
<1>1. /\ UNCHANGED <<script, starts, server, pipe, inbox, pulled, lost, pushed>>
      /\ client' = [client EXCEPT ![c] = [@ EXCEPT !.pc = "disconnect"]]
      /\ client[c].pc = "push"
    BY DEF Pipeline!PushFails, Pipeline!jobs
<1>2. /\ PushedInOrder' /\ Balanced'
      /\ Pipeline!PulledOfClients' = Pipeline!PulledOfClients /\ Pipeline!Waiting' = Pipeline!Waiting
    BY <1>1, JobsStay
<1>3. PipelineTypes'
    BY <1>1 DEF PipelineParts, PipelineTypes, ServerPcs
<1>4. \A d \in Clients : /\ client'[d].pc = "push" => client'[d] = client[d]
                         /\ client'[d].pc # "done" => client[d].pc # "done"
    BY <1>1 DEF PipelineParts, PipelineTypes
<1>5. ClientsPushed' /\ SelfPushed'
    BY <1>1, <1>4 DEF PipelineParts, ClientsPushed, SelfPushed
<1>6. KeptWithoutGap'
    BY <1>1, <1>4 DEF PipelineParts, KeptWithoutGap, Serving
<1>7. Turns' /\ OwnInOrder' /\ Pipeline!PolledIsReceived'
    BY <1>1, <1>2 DEF PipelineParts, Turns, Received, OwnInOrder, Pipeline!PolledIsReceived
<1> QED BY <1>2, <1>3, <1>5, <1>6, <1>7 DEF PipelineParts

\* Sending the next job.
LEMMA SendKeeps ==
    ASSUME PipelineParts, NEW p \in Pipeline!Pushers, NEW x \in Pipeline!Job,
           x = First(p) + Len(pushed[p]), Pipeline!Send(p, x),
           UNCHANGED <<inbox, pulled, lost>>
    PROVE  /\ pipe' \in [Pipeline!Pushers -> Seq(Pipeline!Job)]
           /\ pushed' \in [Pipeline!Pushers -> Seq(Pipeline!Job)]
           /\ PushedInOrder' /\ Balanced'
           /\ Len(pushed'[p]) = Len(pushed[p]) + 1
           /\ \A q \in Pipeline!Pushers : q # p => pipe'[q] = pipe[q] /\ pushed'[q] = pushed[q]
           /\ (pulled'[p] \o inbox'[p]) \o pipe'[p]
                 = Append((pulled[p] \o inbox[p]) \o pipe[p], x)
<1>1. /\ pipe' = [pipe EXCEPT ![p] = Append(pipe[p], x)]
      /\ pushed' = [pushed EXCEPT ![p] = Append(pushed[p], x)]
    BY DEF Pipeline!Send
<1>2. /\ pipe \in [Pipeline!Pushers -> Seq(Pipeline!Job)]
      /\ inbox \in [Pipeline!Pushers -> Seq(Pipeline!Job)]
      /\ pulled \in [Pipeline!Pushers -> Seq(Pipeline!Job)]
      /\ pushed \in [Pipeline!Pushers -> Seq(Pipeline!Job)]
    BY DEF PipelineParts, PipelineTypes
<1>3. x \in Nat
    BY PipelineFacts
<1> DEFINE a == pulled[p]
           b == inbox[p]
           c == pipe[p]
           all == pushed[p]
           kept == (a \o b) \o c
<1>4. a \in Seq(Nat) /\ b \in Seq(Nat) /\ c \in Seq(Nat) /\ all \in Seq(Nat)
    BY <1>2, JobSequences
<1>5. /\ Append(c, x) \in Seq(Pipeline!Job) /\ Append(all, x) \in Seq(Pipeline!Job)
      /\ Len(Append(all, x)) = Len(all) + 1 /\ Append(all, x)[Len(all) + 1] = x
      /\ \A i \in 1..Len(all) : Append(all, x)[i] = all[i]
    BY <1>2, AppendProperties
<1>6. (a \o b) \o Append(c, x) = Append(kept, x)
    <2> HIDE DEF a, b, c
    <2>1. \A v \in Nat : (a \o b) \o Append(c, v) = Append((a \o b) \o c, v)
        BY <1>4, NumbersMove
    <2> QED BY <1>3, <2>1
<1>7. kept \in Seq(Nat)
    BY <1>4, ThreeParts
<1>8. /\ \A q \in Pipeline!Pushers :
            q # p => pipe'[q] = pipe[q] /\ pushed'[q] = pushed[q]
      /\ pipe'[p] = Append(c, x) /\ pushed'[p] = Append(all, x)
    BY <1>1, <1>2
<1>9. /\ pipe' \in [Pipeline!Pushers -> Seq(Pipeline!Job)]
      /\ pushed' \in [Pipeline!Pushers -> Seq(Pipeline!Job)]
    BY <1>1, <1>2, <1>5
<1>10. PushedInOrder'
    <2> SUFFICES ASSUME NEW q \in Pipeline!Pushers, NEW i \in 1..Len(pushed'[q])
                 PROVE  pushed'[q][i] = First(q) + i - 1
        BY DEF PushedInOrder, First
    <2>1. CASE q # p
        BY <1>8, <2>1 DEF PipelineParts, PushedInOrder
    <2>2. CASE q = p
        <3>1. i \in 1..(Len(all) + 1) /\ Len(all) \in Nat /\ First(p) \in Nat
            BY <1>4, <1>5, <1>8, <2>2, LenProperties DEF First
        <3>2. CASE i = Len(all) + 1
            <4>1. pushed'[q][i] = x
                BY <1>5, <1>8, <2>2, <3>2
            <4> QED BY <2>2, <3>1, <3>2, <4>1
        <3>3. CASE i # Len(all) + 1
            <4>1. i \in 1..Len(all)
                BY <3>1, <3>3
            <4>2. pushed'[q][i] = all[i]
                BY <1>5, <1>8, <2>2, <4>1
            <4> QED BY <2>2, <4>1, <4>2 DEF PipelineParts, PushedInOrder
        <3> QED BY <3>2, <3>3
    <2> QED BY <2>1, <2>2
<1>11. Balanced'
    <2>1. \A y \in Members(all) : y < x
        <3>1. \A i \in 1..Len(all) : all[i] = First(p) + i - 1
            BY DEF PipelineParts, PushedInOrder
        <3>2. Len(all) \in Nat /\ First(p) \in Nat
            BY <1>4, LenProperties DEF First
        <3> HIDE DEF all
        <3>3. x = First(p) + Len(all)
            BY DEF all
        <3> QED BY <3>1, <3>2, <3>3 DEF Members
    <2>2. Splits(kept, lost[p], Members(all))
        BY DEF PipelineParts, Balanced
    <2>3. Splits(Append(kept, x), lost[p], Members(Append(all, x)))
        <3> HIDE DEF kept, all
        <3>1. /\ Increasing(kept) /\ Members(kept) \cup lost[p] = Members(all)
              /\ Members(kept) \cap lost[p] = {}
            BY <2>2 DEF Splits
        <3>2. /\ Increasing(Append(kept, x))
              /\ Members(Append(kept, x)) = Members(kept) \cup {x}
              /\ Members(Append(all, x)) = Members(all) \cup {x}
            BY <1>3, <1>4, <1>7, <2>1, <3>1, AddLargest
        <3>3. x \notin lost[p]
            BY <1>3, <2>1, <3>1
        <3> QED BY <3>1, <3>2, <3>3 DEF Splits
    <2>4. ASSUME NEW q \in Pipeline!Pushers
          PROVE  Splits((pulled'[q] \o inbox'[q]) \o pipe'[q], lost'[q], Members(pushed'[q]))
        <3>1. CASE q = p
            BY <1>6, <1>8, <2>3, <3>1
        <3>2. CASE q # p
            BY <1>8, <3>2 DEF PipelineParts, Balanced
        <3> QED BY <3>1, <3>2
    <2> QED BY <2>4 DEF Balanced, Splits, Members, Increasing
<1> QED BY <1>5, <1>6, <1>8, <1>9, <1>10, <1>11

LEMMA PushKeeps ==
    ASSUME PipelineParts, NEW c \in Clients, Pipeline!Push(c)
    PROVE  PipelineParts'
<1> DEFINE x == client[c].job
           next == Pipeline!AfterJob(client[c])
<1>1. /\ client[c].pc = "push" /\ Pipeline!Send(c, x)
      /\ UNCHANGED <<script, starts, server, inbox, pulled, lost>>
    BY DEF Pipeline!Push
<1>0. client' = [client EXCEPT ![c] = next]
    BY DEF Pipeline!Push
<1>2. /\ PipelineTypes /\ ClientsPushed /\ SelfPushed /\ KeptWithoutGap
      /\ c \in Pipeline!Pushers /\ c # Self
      /\ client \in [Clients -> [pc : {"push", "disconnect", "done"}, job : 0..LastJob]]
    BY PipelineFacts DEF PipelineParts, PipelineTypes
<1>3. x \in 0..LastJob /\ x \in Pipeline!Job /\ x \in Nat
    BY <1>2, PipelineFacts DEF Pipeline!Job
<1>4. Len(pushed[c]) = x /\ x = First(c) + Len(pushed[c])
    BY <1>1, <1>2, <1>3 DEF ClientsPushed, First
<1> HIDE DEF x
<1>5. /\ pipe' \in [Pipeline!Pushers -> Seq(Pipeline!Job)]
      /\ pushed' \in [Pipeline!Pushers -> Seq(Pipeline!Job)]
      /\ PushedInOrder' /\ Balanced'
      /\ Len(pushed'[c]) = Len(pushed[c]) + 1
      /\ \A q \in Pipeline!Pushers : q # c => pipe'[q] = pipe[q] /\ pushed'[q] = pushed[q]
      /\ (pulled'[c] \o inbox'[c]) \o pipe'[c]
            = Append((pulled[c] \o inbox[c]) \o pipe[c], x)
    BY <1>1, <1>2, <1>3, <1>4, SendKeeps
<1>6. /\ client' \in [Clients -> [pc : {"push", "disconnect", "done"}, job : 0..LastJob]]
      /\ client'[c].pc = "push" => client'[c].job = x + 1 /\ x # LastJob
      /\ \A d \in Clients : d # c => client'[d] = client[d]
    <2>1. /\ client[c] \in [pc : {"push", "disconnect", "done"}, job : 0..LastJob]
          /\ x # LastJob => x + 1 \in 0..LastJob
        BY <1>2, <1>3, PipelineFacts
    <2>2. /\ next \in [pc : {"push", "disconnect", "done"}, job : 0..LastJob]
          /\ next.pc = "push" => next.job = x + 1 /\ x # LastJob
        <3>1. next = IF x = LastJob THEN [client[c] EXCEPT !.pc = "disconnect"]
                                    ELSE [client[c] EXCEPT !.job = x + 1]
            BY DEF Pipeline!AfterJob, x
        <3>2. client[c].job = x
            BY DEF x
        <3> HIDE DEF next
        <3> QED BY <1>1, <2>1, <3>1, <3>2
    <2> HIDE DEF next
    <2> QED BY <1>0, <1>2, <2>2
<1>7. PipelineTypes'
    BY <1>1, <1>2, <1>5, <1>6 DEF PipelineTypes, ServerPcs
<1>8. ClientsPushed'
    <2> SUFFICES ASSUME NEW d \in Clients
                 PROVE  /\ Len(pushed'[d]) <= LastJob + 1
                        /\ client'[d].pc = "push" => Len(pushed'[d]) = client'[d].job
        BY DEF ClientsPushed
    <2>1. CASE d = c
        BY <1>3, <1>4, <1>5, <1>6, <2>1, PipelineFacts
    <2>2. CASE d # c
        <3>1. pushed'[d] = pushed[d] /\ client'[d] = client[d]
            BY <1>5, <1>6, <2>2, PipelineFacts
        <3> QED BY <1>2, <3>1 DEF ClientsPushed
    <2> QED BY <2>1, <2>2
<1>9. pushed'[Self] = pushed[Self] /\ pipe'[Self] = pipe[Self]
    BY <1>2, <1>5, PipelineFacts
<1>10. SelfPushed'
    BY <1>1, <1>2, <1>9 DEF SelfPushed
<1>11. KeptWithoutGap'
    <2>1. Serving' <=> Serving
        BY <1>1 DEF Serving
    <2> SUFFICES ASSUME starts <= 1, NEW d \in Clients
                 PROVE  /\ Gapless(0, pulled'[d])
                        /\ Serving => LET kept == (pulled'[d] \o inbox'[d]) \o pipe'[d]
                                      IN  /\ Gapless(0, kept)
                                          /\ client'[d].pc # "done" => Len(kept) = Len(pushed'[d])
        BY <1>1, <1>2, <2>1 DEF KeptWithoutGap, Gapless
    <2>2. CASE d = c
        <3> DEFINE kept == (pulled[c] \o inbox[c]) \o pipe[c]
        <3>1. /\ Gapless(0, pulled[c])
              /\ Serving => Gapless(0, kept) /\ Len(kept) = x
            BY <1>1, <1>2, <1>4 DEF KeptWithoutGap
        <3>2. kept \in Seq(Nat)
            BY <1>2, JobSequences, ThreeParts DEF PipelineTypes
        <3> HIDE DEF kept
        <3>3. Serving => Gapless(0, Append(kept, x)) /\ Len(Append(kept, x)) = x + 1
            BY <1>3, <3>1, <3>2, AddGapless
        <3> QED BY <1>1, <1>4, <1>5, <2>2, <3>1, <3>3 DEF kept
    <2>3. CASE d # c
        <3>1. pushed'[d] = pushed[d] /\ client'[d] = client[d] /\ pipe'[d] = pipe[d]
            BY <1>5, <1>6, <2>3, PipelineFacts
        <3> QED BY <1>1, <1>2, <3>1 DEF KeptWithoutGap
    <2> QED BY <2>2, <2>3
<1>12. Turns' /\ OwnInOrder' /\ Pipeline!PolledIsReceived'
    <2>1. Pipeline!PulledOfClients' = Pipeline!PulledOfClients /\ Pipeline!Waiting' = Pipeline!Waiting
        BY <1>1 DEF Pipeline!PulledOfClients, Pipeline!Waiting
    <2> QED BY <1>1, <1>9, <2>1
            DEF PipelineParts, Turns, Received, OwnInOrder, Pipeline!PolledIsReceived
<1> QED BY <1>5, <1>7, <1>8, <1>10, <1>11, <1>12 DEF PipelineParts

LEMMA LockstepPushKeeps ==
    ASSUME PipelineParts, Pipelines, Pipeline!LockstepPush
    PROVE  PipelineParts'
<1> DEFINE x == server.loop
<1>1. /\ server.pc = "push" /\ Pipeline!Send(Self, x)
      /\ server' = [server EXCEPT !.pc = "recv"]
      /\ UNCHANGED <<script, starts, client, inbox, pulled, lost>>
    BY DEF Pipeline!LockstepPush
<1>2. /\ PipelineTypes /\ ClientsPushed /\ SelfPushed /\ KeptWithoutGap /\ Turns
      /\ OwnInOrder /\ Self \in Pipeline!Pushers /\ server \in Servers /\ ServerPcs
    BY PipelineFacts DEF PipelineParts, PipelineTypes
<1>3. script = "lockstep"
    BY <1>1, <1>2 DEF ServerPcs, Pipelines
<1>4. x \in 1..Rounds /\ x \in Pipeline!Job
    BY <1>2, PipelineFacts DEF Pipeline!Job, Servers
<1>5. Len(pushed[Self]) = x - 1 /\ x = First(Self) + Len(pushed[Self])
    BY <1>1, <1>2, <1>4 DEF SelfPushed, First
<1>6. server' \in Servers /\ server'.pc = "recv" /\ server'.loop = x
    BY <1>1, <1>2 DEF Servers
<1> HIDE DEF x
<1>7. /\ pipe' \in [Pipeline!Pushers -> Seq(Pipeline!Job)]
      /\ pushed' \in [Pipeline!Pushers -> Seq(Pipeline!Job)]
      /\ PushedInOrder' /\ Balanced'
      /\ Len(pushed'[Self]) = Len(pushed[Self]) + 1
      /\ \A q \in Pipeline!Pushers : q # Self => pipe'[q] = pipe[q] /\ pushed'[q] = pushed[q]
      /\ (pulled'[Self] \o inbox'[Self]) \o pipe'[Self]
            = Append((pulled[Self] \o inbox[Self]) \o pipe[Self], x)
    BY <1>1, <1>2, <1>4, <1>5, SendKeeps
<1>8. PipelineTypes'
    BY <1>1, <1>2, <1>3, <1>6, <1>7 DEF PipelineTypes, ServerPcs
<1>9. \A c \in Clients : pipe'[c] = pipe[c] /\ pushed'[c] = pushed[c]
    BY <1>7, PipelineFacts
<1>10. ClientsPushed'
    BY <1>1, <1>2, <1>9 DEF ClientsPushed
<1>11. SelfPushed'
    <2>0. Len(pushed'[Self]) = Len(pushed[Self]) + 1
        BY <1>7
    <2>1. Len(pushed'[Self]) = x /\ x <= Rounds
        <3>1. x \in 1..Rounds
            BY <1>4
        <3>2. x \in Int /\ x <= Rounds
            BY <3>1, PipelineFacts
        <3>3. Len(pushed[Self]) = x - 1
            BY <1>5
        <3> QED BY <2>0, <3>2, <3>3
    <2> QED BY <1>1, <1>3, <1>6, <2>1 DEF SelfPushed
<1>12. KeptWithoutGap'
    <2>1. Serving /\ starts # 0
        BY <1>1, <1>2 DEF Serving, KeptWithoutGap
    <2> QED BY <1>1, <1>2, <1>9, <2>1 DEF KeptWithoutGap
<1>13. Turns' /\ Pipeline!PolledIsReceived'
    <2>1. Pipeline!PulledOfClients' = Pipeline!PulledOfClients
        BY <1>1 DEF Pipeline!PulledOfClients
    <2>2. Received' = Received
        BY <1>1, <2>1 DEF Received
    <2>3. Len(pushed[Self]) = Received
        BY <1>1, <1>2, <1>3 DEF Turns
    <2>4. Len(pushed'[Self]) = Received + 1
        BY <1>7, <2>3
    <2>5. IsFiniteSet(Pipeline!PulledOfClients)
        BY <1>2 DEF Turns
    <2> QED BY <1>1, <1>3, <1>6, <2>1, <2>2, <2>4, <2>5 DEF Turns, Pipeline!PolledIsReceived
<1>14. OwnInOrder'
    <2> DEFINE kept == (pulled[Self] \o inbox[Self]) \o pipe[Self]
    <2>1. Gapless(1, pulled[Self]) /\ Gapless(1, kept) /\ Len(kept) = Len(pushed[Self])
        BY <1>1, <1>2, <1>3 DEF OwnInOrder
    <2>2. kept \in Seq(Nat)
        BY <1>2, JobSequences, ThreeParts DEF PipelineTypes
    <2>3. x \in Nat /\ x = 1 + Len(pushed[Self])
        <3>1. x \in Nat
            BY <1>4, PipelineFacts
        <3>2. Len(pushed[Self]) = x - 1
            BY <1>5
        <3> QED BY <3>1, <3>2
    <2> HIDE DEF kept
    <2>4. Gapless(1, Append(kept, x)) /\ Len(Append(kept, x)) = Len(kept) + 1
        BY <2>1, <2>2, <2>3, AddGapless
    <2> USE DEF kept
    <2>5. Gapless(1, (pulled'[Self] \o inbox'[Self]) \o pipe'[Self])
        BY <1>7, <2>4
    <2>6. Len((pulled'[Self] \o inbox'[Self]) \o pipe'[Self]) = Len(pushed'[Self])
        BY <1>7, <2>1, <2>4
    <2> QED BY <1>1, <2>1, <2>5, <2>6 DEF OwnInOrder
<1> QED BY <1>7, <1>8, <1>10, <1>11, <1>12, <1>13, <1>14 DEF PipelineParts

LEMMA DisconnectKeeps ==
    ASSUME PipelineParts, NEW c \in Clients, Pipeline!Disconnect(c)
    PROVE  PipelineParts'
<1> DEFINE e == <<>>
<1>1. /\ client[c].pc = "disconnect"
      /\ client' = [client EXCEPT ![c] = [@ EXCEPT !.pc = "done"]]
      /\ pipe' = [pipe EXCEPT ![c] = e]
      /\ lost' = [lost EXCEPT ![c] = @ \cup Pipeline!Range(pipe[c])]
      /\ UNCHANGED <<script, starts, server, inbox, pulled, pushed>>
    BY DEF Pipeline!Disconnect, Pipeline!Drop
<1>2. /\ PipelineTypes /\ ClientsPushed /\ SelfPushed /\ KeptWithoutGap /\ Balanced
      /\ PushedInOrder /\ Turns /\ OwnInOrder /\ Pipeline!PolledIsReceived
      /\ c \in Pipeline!Pushers
      /\ client \in [Clients -> [pc : {"push", "disconnect", "done"}, job : 0..LastJob]]
      /\ pipe \in [Pipeline!Pushers -> Seq(Pipeline!Job)]
      /\ inbox \in [Pipeline!Pushers -> Seq(Pipeline!Job)]
      /\ pulled \in [Pipeline!Pushers -> Seq(Pipeline!Job)]
      /\ lost \in [Pipeline!Pushers -> SUBSET Pipeline!Job]
    BY PipelineFacts DEF PipelineParts, PipelineTypes
<1>3. \A q \in Pipeline!Pushers :
         pulled[q] \in Seq(Nat) /\ inbox[q] \in Seq(Nat) /\ pipe[q] \in Seq(Nat)
    BY <1>2, JobSequences
<1>4. e \in Seq(Pipeline!Job)
    OBVIOUS
<1>5. Pipeline!Range(pipe[c]) = Members(pipe[c]) /\ Members(pipe[c]) \subseteq Pipeline!Job
    BY <1>2, JobSequences, ElementOfSeq DEF Members
<1>6. \A q \in Pipeline!Pushers : q # c => pipe'[q] = pipe[q] /\ lost'[q] = lost[q]
    BY <1>1, <1>2
<1>7. pipe'[c] = e /\ lost'[c] = lost[c] \cup Members(pipe[c])
    BY <1>1, <1>2, <1>5
<1>8. /\ client'[c].pc = "done" /\ \A d \in Clients : d # c => client'[d] = client[d]
      /\ client' \in [Clients -> [pc : {"push", "disconnect", "done"}, job : 0..LastJob]]
    BY <1>1, <1>2
<1>9. /\ pipe' \in [Pipeline!Pushers -> Seq(Pipeline!Job)]
      /\ lost' \in [Pipeline!Pushers -> SUBSET Pipeline!Job]
    BY <1>1, <1>2, <1>4, <1>5
<1> HIDE DEF e
<1>10. PipelineTypes'
    BY <1>1, <1>2, <1>8, <1>9 DEF PipelineTypes, ServerPcs
<1>11. PushedInOrder' /\ SelfPushed'
    BY <1>1, <1>2 DEF PushedInOrder, SelfPushed
<1>12. ClientsPushed'
    BY <1>1, <1>2, <1>8 DEF ClientsPushed
<1>13. Balanced'
    <2>1. ASSUME NEW q \in Pipeline!Pushers
          PROVE  Splits((pulled'[q] \o inbox'[q]) \o pipe'[q], lost'[q], Members(pushed'[q]))
        <3>0. pulled' = pulled /\ inbox' = inbox /\ pushed' = pushed
            BY <1>1
        <3>1. Splits((pulled[q] \o inbox[q]) \o pipe[q], lost[q], Members(pushed[q]))
            BY <1>2 DEF Balanced
        <3>2. CASE q = c
            <4>1. Splits((pulled[q] \o inbox[q]) \o e, lost[q] \cup Members(pipe[q]),
                         Members(pushed[q]))
                BY <1>3, <3>1, LosePartSplits DEF e
            <4> QED BY <1>7, <3>0, <3>2, <4>1
        <3>3. CASE q # c
            BY <1>6, <3>0, <3>1, <3>3
        <3> QED BY <3>2, <3>3
    <2> QED BY <2>1 DEF Balanced, Splits, Members, Increasing
<1>14. KeptWithoutGap'
    <2>1. Serving' <=> Serving
        BY <1>1 DEF Serving
    <2> SUFFICES ASSUME starts <= 1, NEW d \in Clients
                 PROVE  /\ Gapless(0, pulled'[d])
                        /\ Serving => LET kept == (pulled'[d] \o inbox'[d]) \o pipe'[d]
                                      IN  /\ Gapless(0, kept)
                                          /\ client'[d].pc # "done" => Len(kept) = Len(pushed'[d])
        BY <1>1, <1>2, <2>1 DEF KeptWithoutGap, Gapless
    <2>2. CASE d = c
        <3>1. /\ Gapless(0, pulled[d])
              /\ Serving => Gapless(0, (pulled[d] \o inbox[d]) \o pipe[d])
            BY <1>2 DEF KeptWithoutGap
        <3>2. pulled[d] \in Seq(Nat) /\ inbox[d] \in Seq(Nat) /\ pipe[d] \in Seq(Nat)
            BY <1>3, PipelineFacts
        <3>3. Serving => Gapless(0, (pulled[d] \o inbox[d]) \o e)
            BY <3>1, <3>2, GaplessParts DEF e
        <3> QED BY <1>1, <1>7, <1>8, <2>2, <3>1, <3>3
    <2>3. CASE d # c
        <3>1. client'[d] = client[d] /\ pipe'[d] = pipe[d]
            BY <1>6, <1>8, <2>3, PipelineFacts
        <3> QED BY <1>1, <1>2, <3>1 DEF KeptWithoutGap
    <2> QED BY <2>2, <2>3
<1>15. Turns' /\ OwnInOrder' /\ Pipeline!PolledIsReceived'
    <2>1. Pipeline!PulledOfClients' = Pipeline!PulledOfClients /\ Pipeline!Waiting' = Pipeline!Waiting
        BY <1>1 DEF Pipeline!PulledOfClients, Pipeline!Waiting
    <2>2. pipe'[Self] = pipe[Self]
        BY <1>6, PipelineFacts
    <2> QED BY <1>1, <1>2, <2>1, <2>2
            DEF Turns, Received, OwnInOrder, Pipeline!PolledIsReceived
<1> QED BY <1>10, <1>11, <1>12, <1>13, <1>14, <1>15 DEF PipelineParts

LEMMA TransmitKeeps ==
    ASSUME PipelineParts, NEW p \in Pipeline!Pushers, Pipeline!Transmit(p)
    PROVE  PipelineParts'
<1>1. /\ pipe[p] # <<>>
      /\ inbox' = [inbox EXCEPT ![p] = Append(@, Head(pipe[p]))]
      /\ pipe' = [pipe EXCEPT ![p] = Tail(@)]
      /\ UNCHANGED <<script, starts, server, client, pulled, lost, pushed>>
    BY DEF Pipeline!Transmit
<1>2. /\ PipelineTypes /\ ClientsPushed /\ SelfPushed /\ KeptWithoutGap /\ Balanced
      /\ PushedInOrder /\ Turns /\ OwnInOrder /\ Pipeline!PolledIsReceived
      /\ pipe \in [Pipeline!Pushers -> Seq(Pipeline!Job)]
      /\ inbox \in [Pipeline!Pushers -> Seq(Pipeline!Job)]
      /\ pulled \in [Pipeline!Pushers -> Seq(Pipeline!Job)]
    BY DEF PipelineParts, PipelineTypes
<1>3. Head(pipe[p]) \in Pipeline!Job /\ Tail(pipe[p]) \in Seq(Pipeline!Job)
    BY <1>1, <1>2, HeadTailProperties
<1>4. /\ Append(inbox[p], Head(pipe[p])) \in Seq(Pipeline!Job)
      /\ Len(Append(inbox[p], Head(pipe[p]))) = Len(inbox[p]) + 1
      /\ Len(inbox[p]) \in Nat
    BY <1>2, <1>3, AppendProperties, LenProperties
<1>5. /\ inbox' \in [Pipeline!Pushers -> Seq(Pipeline!Job)]
      /\ pipe' \in [Pipeline!Pushers -> Seq(Pipeline!Job)]
    BY <1>1, <1>2, <1>3, <1>4
<1>6. /\ pipe'[p] = Tail(pipe[p]) /\ inbox'[p] = Append(inbox[p], Head(pipe[p]))
      /\ \A q \in Pipeline!Pushers : q # p => pipe'[q] = pipe[q] /\ inbox'[q] = inbox[q]
    BY <1>1, <1>2
<1>7. \A q \in Pipeline!Pushers :
         (pulled[q] \o inbox'[q]) \o pipe'[q] = (pulled[q] \o inbox[q]) \o pipe[q]
    <2> SUFFICES ASSUME NEW q \in Pipeline!Pushers
                 PROVE  (pulled[q] \o inbox'[q]) \o pipe'[q] = (pulled[q] \o inbox[q]) \o pipe[q]
        OBVIOUS
    <2>1. CASE q = p
        <3> DEFINE a == pulled[p]
                   b == inbox[p]
                   c == pipe[p]
        <3>1. a \in Seq(Nat) /\ b \in Seq(Nat) /\ c \in Seq(Nat)
            BY <1>2, JobSequences
        <3>2. c # <<>>
            BY <1>1
        <3> HIDE DEF a, b, c
        <3>3. (a \o Append(b, Head(c))) \o Tail(c) = (a \o b) \o c
            BY <3>1, <3>2, NumbersMove, Zenon
        <3> QED BY <1>6, <2>1, <3>3 DEF a, b, c
    <2>2. CASE q # p
        BY <1>6, <2>2
    <2> QED BY <2>1, <2>2
<1>8. PipelineTypes'
    BY <1>1, <1>2, <1>5 DEF PipelineTypes, ServerPcs
<1>9. PushedInOrder' /\ SelfPushed' /\ ClientsPushed'
    BY <1>1, <1>2 DEF PushedInOrder, SelfPushed, ClientsPushed
<1>10. Balanced'
    <2>1. ASSUME NEW q \in Pipeline!Pushers
          PROVE  Splits((pulled'[q] \o inbox'[q]) \o pipe'[q], lost'[q], Members(pushed'[q]))
        BY <1>1, <1>2, <1>7 DEF Balanced
    <2> QED BY <2>1 DEF Balanced, Splits, Members, Increasing
<1>11. KeptWithoutGap'
    <2>1. Serving' <=> Serving
        BY <1>1 DEF Serving
    <2> SUFFICES ASSUME starts <= 1, NEW d \in Clients
                 PROVE  /\ Gapless(0, pulled'[d])
                        /\ Serving => LET kept == (pulled'[d] \o inbox'[d]) \o pipe'[d]
                                      IN  /\ Gapless(0, kept)
                                          /\ client'[d].pc # "done" => Len(kept) = Len(pushed'[d])
        BY <1>1, <1>2, <2>1 DEF KeptWithoutGap, Gapless
    <2>2. (pulled'[d] \o inbox'[d]) \o pipe'[d] = (pulled[d] \o inbox[d]) \o pipe[d]
        BY <1>1, <1>7, PipelineFacts
    <2> QED BY <1>1, <1>2, <2>2 DEF KeptWithoutGap
<1>12. Turns'
    <2>1. Pipeline!PulledOfClients' = Pipeline!PulledOfClients
        BY <1>1 DEF Pipeline!PulledOfClients
    <2> QED BY <1>1, <1>2, <2>1 DEF Turns, Received
<1>14. OwnInOrder'
    <2>1. (pulled'[Self] \o inbox'[Self]) \o pipe'[Self]
             = (pulled[Self] \o inbox[Self]) \o pipe[Self]
        BY <1>1, <1>7, PipelineFacts
    <2> QED BY <1>1, <1>2, <2>1 DEF OwnInOrder
<1>13. Pipeline!PolledIsReceived'
    <2>1. inbox'[p] # <<>>
        BY <1>4, <1>6, EmptySeq
    <2>2. Pipeline!Waiting' # {}
        BY <2>1 DEF Pipeline!Waiting
    <2> QED BY <2>2 DEF Pipeline!PolledIsReceived
<1> QED BY <1>8, <1>9, <1>10, <1>11, <1>12, <1>13, <1>14 DEF PipelineParts

\* What is lost with the server's socket: what has arrived, and with it, where
\* the server is a pusher itself, what it has not transmitted.
LEMMA SocketLossSplits ==
    ASSUME PipelineParts, NEW q \in Pipeline!Pushers
    PROVE  /\ Splits((pulled[q] \o <<>>) \o pipe[q],
                     lost[q] \cup Pipeline!Range(inbox[q]), Members(pushed[q]))
           /\ Splits((pulled[q] \o <<>>) \o <<>>,
                     (lost[q] \cup Pipeline!Range(inbox[q])) \cup Pipeline!Range(pipe[q]),
                     Members(pushed[q]))
           /\ Pipeline!Range(inbox[q]) \subseteq Pipeline!Job
           /\ Pipeline!Range(pipe[q]) \subseteq Pipeline!Job
<1> DEFINE e == <<>>
<1>1. /\ pulled[q] \in Seq(Pipeline!Job) /\ inbox[q] \in Seq(Pipeline!Job)
      /\ pipe[q] \in Seq(Pipeline!Job)
    BY DEF PipelineParts, PipelineTypes
<1>2. /\ pulled[q] \in Seq(Nat) /\ inbox[q] \in Seq(Nat) /\ pipe[q] \in Seq(Nat)
      /\ Pipeline!Range(inbox[q]) = Members(inbox[q])
      /\ Pipeline!Range(pipe[q]) = Members(pipe[q])
      /\ e \in Seq(Nat)
    BY <1>1, JobSequences
<1>3. Members(inbox[q]) \subseteq Pipeline!Job /\ Members(pipe[q]) \subseteq Pipeline!Job
    BY <1>1, ElementOfSeq DEF Members
<1>4. Splits((pulled[q] \o inbox[q]) \o pipe[q], lost[q], Members(pushed[q]))
    BY DEF PipelineParts, Balanced
<1>5. Splits((pulled[q] \o e) \o pipe[q], lost[q] \cup Members(inbox[q]), Members(pushed[q]))
    BY <1>2, <1>4, LosePartSplits
<1> HIDE DEF e
<1>6. Splits((pulled[q] \o e) \o <<>>,
             (lost[q] \cup Members(inbox[q])) \cup Members(pipe[q]), Members(pushed[q]))
    BY <1>2, <1>5, LosePartSplits
<1> QED BY <1>2, <1>3, <1>5, <1>6 DEF e

LEMMA KillKeeps ==
    ASSUME PipelineParts, Pipeline!Kill
    PROVE  PipelineParts'
<1> DEFINE e == <<>>
<1>1. /\ script = "pull" /\ server.pc = "recv"
      /\ server' = [server EXCEPT !.pc = "down"]
      /\ inbox' = [p \in Pipeline!Pushers |-> e]
      /\ lost' = [p \in Pipeline!Pushers |-> lost[p] \cup Pipeline!Range(inbox[p])]
      /\ UNCHANGED <<script, starts, client, pipe, pulled, pushed>>
    BY DEF Pipeline!Kill
<1>2. /\ PipelineTypes /\ ClientsPushed /\ SelfPushed /\ KeptWithoutGap
      /\ PushedInOrder /\ Turns /\ OwnInOrder
      /\ server \in Servers
      /\ lost \in [Pipeline!Pushers -> SUBSET Pipeline!Job]
    BY DEF PipelineParts, PipelineTypes
<1>3. e \in Seq(Pipeline!Job)
    OBVIOUS
<1>4. \A q \in Pipeline!Pushers :
         /\ Splits((pulled[q] \o e) \o pipe[q],
                   lost[q] \cup Pipeline!Range(inbox[q]), Members(pushed[q]))
         /\ Pipeline!Range(inbox[q]) \subseteq Pipeline!Job
    BY SocketLossSplits
<1> HIDE DEF e
<1>5. server' \in Servers /\ server'.pc = "down"
    BY <1>1, <1>2 DEF Servers
<1>6. PipelineTypes'
    <2>1. inbox' \in [Pipeline!Pushers -> Seq(Pipeline!Job)]
        BY <1>1, <1>3
    <2>2. lost' \in [Pipeline!Pushers -> SUBSET Pipeline!Job]
        BY <1>1, <1>2, <1>4
    <2> QED BY <1>1, <1>2, <1>5, <2>1, <2>2 DEF PipelineTypes, ServerPcs
<1>7. PushedInOrder' /\ SelfPushed' /\ ClientsPushed'
    BY <1>1, <1>2, <1>5 DEF PushedInOrder, SelfPushed, ClientsPushed
<1>8. Balanced'
    <2>1. ASSUME NEW q \in Pipeline!Pushers
          PROVE  Splits((pulled'[q] \o inbox'[q]) \o pipe'[q], lost'[q], Members(pushed'[q]))
        BY <1>1, <1>4
    <2> QED BY <2>1 DEF Balanced, Splits, Members, Increasing
<1>9. KeptWithoutGap'
    <2>1. starts # 0 /\ ~Serving'
        BY <1>1, <1>2, <1>5 DEF Serving, KeptWithoutGap
    <2> QED BY <1>1, <1>2, <1>5, <2>1 DEF KeptWithoutGap
<1>10. Turns' /\ OwnInOrder' /\ Pipeline!PolledIsReceived'
    <2>1. Pipeline!PulledOfClients' = Pipeline!PulledOfClients
        BY <1>1 DEF Pipeline!PulledOfClients
    <2> QED BY <1>1, <1>2, <1>5, <2>1
            DEF Turns, Received, OwnInOrder, Pipeline!PolledIsReceived
<1> QED BY <1>6, <1>7, <1>8, <1>9, <1>10 DEF PipelineParts

LEMMA CloseKeeps ==
    ASSUME PipelineParts, Pipeline!Close
    PROVE  PipelineParts'
<1> DEFINE e == <<>>
<1>1. /\ server.pc = "close"
      /\ server' = [server EXCEPT !.pc = "done"]
      /\ pipe' = [pipe EXCEPT ![Self] = e]
      /\ inbox' = [p \in Pipeline!Pushers |-> e]
      /\ lost' = [p \in Pipeline!Pushers |->
                    lost[p] \cup Pipeline!Range(inbox[p])
                            \cup (IF p = Self THEN Pipeline!Range(pipe[p]) ELSE {})]
      /\ UNCHANGED <<script, starts, client, pulled, pushed>>
    BY DEF Pipeline!Close
<1>2. /\ PipelineTypes /\ ClientsPushed /\ SelfPushed /\ KeptWithoutGap
      /\ PushedInOrder /\ Turns /\ OwnInOrder
      /\ server \in Servers
      /\ pipe \in [Pipeline!Pushers -> Seq(Pipeline!Job)]
      /\ lost \in [Pipeline!Pushers -> SUBSET Pipeline!Job]
    BY DEF PipelineParts, PipelineTypes
<1>3. e \in Seq(Pipeline!Job)
    OBVIOUS
<1>4. \A q \in Pipeline!Pushers :
         /\ Splits((pulled[q] \o e) \o pipe[q],
                   lost[q] \cup Pipeline!Range(inbox[q]), Members(pushed[q]))
         /\ Splits((pulled[q] \o e) \o e,
                   (lost[q] \cup Pipeline!Range(inbox[q])) \cup Pipeline!Range(pipe[q]),
                   Members(pushed[q]))
         /\ Pipeline!Range(inbox[q]) \subseteq Pipeline!Job
         /\ Pipeline!Range(pipe[q]) \subseteq Pipeline!Job
    BY SocketLossSplits
<1> HIDE DEF e
<1>5. server' \in Servers /\ server'.pc = "done"
    BY <1>1, <1>2 DEF Servers
<1>6. PipelineTypes'
    <2>1. inbox' \in [Pipeline!Pushers -> Seq(Pipeline!Job)]
        BY <1>1, <1>3
    <2>2. pipe' \in [Pipeline!Pushers -> Seq(Pipeline!Job)]
        BY <1>1, <1>2, <1>3
    <2>3. lost' \in [Pipeline!Pushers -> SUBSET Pipeline!Job]
        BY <1>1, <1>2, <1>4
    <2>4. script # "pull"
        BY <1>1, <1>2 DEF PipelineTypes, ServerPcs
    <2> QED BY <1>1, <1>2, <1>5, <2>1, <2>2, <2>3, <2>4 DEF PipelineTypes, ServerPcs
<1>7. PushedInOrder' /\ SelfPushed' /\ ClientsPushed'
    BY <1>1, <1>2, <1>5 DEF PushedInOrder, SelfPushed, ClientsPushed
<1>8. Balanced'
    <2>1. ASSUME NEW q \in Pipeline!Pushers
          PROVE  Splits((pulled'[q] \o inbox'[q]) \o pipe'[q], lost'[q], Members(pushed'[q]))
        <3>1. CASE q = Self
            <4>1. /\ pipe'[q] = e /\ inbox'[q] = e /\ pulled'[q] = pulled[q]
                  /\ pushed'[q] = pushed[q]
                  /\ lost'[q] = (lost[q] \cup Pipeline!Range(inbox[q]))
                                   \cup Pipeline!Range(pipe[q])
                BY <1>1, <1>2, <3>1
            <4> QED BY <1>4, <4>1
        <3>2. CASE q # Self
            <4>1. /\ pipe'[q] = pipe[q] /\ inbox'[q] = e /\ pulled'[q] = pulled[q]
                  /\ pushed'[q] = pushed[q]
                  /\ lost'[q] = lost[q] \cup Pipeline!Range(inbox[q])
                BY <1>1, <1>2, <3>2
            <4> QED BY <1>4, <4>1
        <3> QED BY <3>1, <3>2
    <2> QED BY <2>1 DEF Balanced, Splits, Members, Increasing
<1>9. KeptWithoutGap'
    <2>1. starts # 0 /\ ~Serving'
        BY <1>1, <1>2, <1>5 DEF Serving, KeptWithoutGap
    <2> QED BY <1>1, <1>2, <1>5, <2>1 DEF KeptWithoutGap
<1>10. Turns' /\ OwnInOrder' /\ Pipeline!PolledIsReceived'
    <2>1. Pipeline!PulledOfClients' = Pipeline!PulledOfClients
        BY <1>1 DEF Pipeline!PulledOfClients
    <2> QED BY <1>1, <1>2, <1>5, <2>1
            DEF Turns, Received, OwnInOrder, Pipeline!PolledIsReceived
<1> QED BY <1>6, <1>7, <1>8, <1>9, <1>10 DEF PipelineParts

LEMMA OneMorePulled ==
    ASSUME PipelineTypes, NEW p \in Clients, NEW x \in Pipeline!Job,
           pulled' = [pulled EXCEPT ![p] = Append(pulled[p], x)],
           IsFiniteSet(Pipeline!PulledOfClients)
    PROVE  /\ IsFiniteSet(Pipeline!PulledOfClients')
           /\ Cardinality(Pipeline!PulledOfClients) \in Nat
           /\ Cardinality(Pipeline!PulledOfClients') = Cardinality(Pipeline!PulledOfClients) + 1
<1> DEFINE n == Len(pulled[p])
           new == <<p, n + 1>>
<1>1. pulled \in [Pipeline!Pushers -> Seq(Pipeline!Job)]
    BY DEF PipelineTypes
<1>2. n \in Nat /\ Len(pulled'[p]) = n + 1
    BY <1>1, PipelineFacts, LenProperties, AppendProperties
<1>3. \A q \in Clients : q # p => Len(pulled'[q]) = Len(pulled[q])
    BY <1>1, PipelineFacts
<1> HIDE DEF n
<1>4. 1..Len(pulled'[p]) = 1..Len(pulled[p]) \cup {n + 1} /\ n + 1 \notin 1..Len(pulled[p])
    BY <1>2 DEF n
<1>5. \A z : z \in Pipeline!PulledOfClients
               <=> \E q \in Clients : \E i \in 1..Len(pulled[q]) : z = <<q, i>>
    BY DEF Pipeline!PulledOfClients
<1>6. \A z : z \in Pipeline!PulledOfClients'
               <=> \E q \in Clients : \E i \in 1..Len(pulled'[q]) : z = <<q, i>>
    BY DEF Pipeline!PulledOfClients
<1>7. ASSUME NEW z \in Pipeline!PulledOfClients' PROVE z \in Pipeline!PulledOfClients \cup {new}
    <2>1. PICK q \in Clients : \E i \in 1..Len(pulled'[q]) : z = <<q, i>>
        BY <1>6
    <2>2. PICK i \in 1..Len(pulled'[q]) : z = <<q, i>>
        BY <2>1
    <2> QED BY <1>3, <1>4, <1>5, <2>2
<1>8. ASSUME NEW z \in Pipeline!PulledOfClients PROVE z \in Pipeline!PulledOfClients'
    <2>1. PICK q \in Clients : \E i \in 1..Len(pulled[q]) : z = <<q, i>>
        BY <1>5
    <2>2. PICK i \in 1..Len(pulled[q]) : z = <<q, i>>
        BY <2>1
    <2>3. i \in 1..Len(pulled'[q])
        BY <1>3, <1>4, <2>2
    <2> QED BY <1>6, <2>2, <2>3
<1>9. new \in Pipeline!PulledOfClients'
    BY <1>4, <1>6
<1>10. new \notin Pipeline!PulledOfClients
    BY <1>4, <1>5
<1>11. Pipeline!PulledOfClients' = Pipeline!PulledOfClients \cup {new}
    BY <1>7, <1>8, <1>9
<1> DEFINE old == Pipeline!PulledOfClients
<1>12. IsFiniteSet(old) /\ new \notin old
    BY <1>10
<1> HIDE DEF old, new
<1>13. IsFiniteSet(old \cup {new}) /\ Cardinality(old \cup {new}) = Cardinality(old) + 1
    BY <1>12, FS_AddElement
<1> QED BY <1>11, <1>12, <1>13, FS_CardinalityType DEF old

LEMMA RecvKeeps ==
    ASSUME PipelineParts, Pipelines, Pipeline!Recv
    PROVE  PipelineParts'
<1>1. /\ server.pc = "recv" /\ Pipeline!NextRound
      /\ UNCHANGED <<script, starts, client, pipe, lost, pushed>>
    BY DEF Pipeline!Recv
<1>2. PICK p \in Pipeline!Waiting :
         /\ pulled' = [pulled EXCEPT ![p] = Append(pulled[p], Head(inbox[p]))]
         /\ inbox' = [inbox EXCEPT ![p] = Tail(inbox[p])]
    BY DEF Pipeline!Recv
<1>3. p \in Pipeline!Pushers /\ inbox[p] # <<>>
    BY DEF Pipeline!Waiting
<1>4. /\ PipelineTypes /\ ClientsPushed /\ SelfPushed /\ KeptWithoutGap /\ Balanced
      /\ PushedInOrder /\ Turns /\ OwnInOrder
      /\ server \in Servers
      /\ pipe \in [Pipeline!Pushers -> Seq(Pipeline!Job)]
      /\ inbox \in [Pipeline!Pushers -> Seq(Pipeline!Job)]
      /\ pulled \in [Pipeline!Pushers -> Seq(Pipeline!Job)]
    BY DEF PipelineParts, PipelineTypes
<1>5. /\ server' \in Servers /\ ServerPcs'
      /\ \/ script = "pull" /\ server' = server
         \/ script # "pull" /\ server'.pc = "close"
         \/ script = "poll" /\ server'.pc = "poll"
         \/ /\ script = "lockstep" /\ server'.pc = "push"
            /\ server'.loop = server.loop + 1
    <2>1. script' = script /\ server.pc \in {"poll", "recv"}
        BY <1>1
    <2> QED BY <1>1, <1>4, <2>1, NextRoundResult
<1>6. Head(inbox[p]) \in Pipeline!Job /\ Tail(inbox[p]) \in Seq(Pipeline!Job)
    BY <1>3, <1>4, HeadTailProperties
<1>7. Append(pulled[p], Head(inbox[p])) \in Seq(Pipeline!Job)
    BY <1>3, <1>4, <1>6, AppendProperties
<1>8. /\ inbox' \in [Pipeline!Pushers -> Seq(Pipeline!Job)]
      /\ pulled' \in [Pipeline!Pushers -> Seq(Pipeline!Job)]
    BY <1>2, <1>4, <1>6, <1>7
<1>9. /\ inbox'[p] = Tail(inbox[p]) /\ pulled'[p] = Append(pulled[p], Head(inbox[p]))
      /\ \A q \in Pipeline!Pushers : q # p => pulled'[q] = pulled[q] /\ inbox'[q] = inbox[q]
    BY <1>2, <1>3, <1>4
<1>10. \A q \in Pipeline!Pushers :
          (pulled'[q] \o inbox'[q]) \o pipe[q] = (pulled[q] \o inbox[q]) \o pipe[q]
    <2> SUFFICES ASSUME NEW q \in Pipeline!Pushers
                 PROVE  (pulled'[q] \o inbox'[q]) \o pipe[q] = (pulled[q] \o inbox[q]) \o pipe[q]
        OBVIOUS
    <2>1. CASE q = p
        <3> DEFINE a == pulled[p]
                   b == inbox[p]
                   c == pipe[p]
        <3>1. a \in Seq(Nat) /\ b \in Seq(Nat) /\ c \in Seq(Nat)
            BY <1>3, <1>4, JobSequences
        <3>2. b # <<>>
            BY <1>3
        <3> HIDE DEF a, b, c
        <3>3. (Append(a, Head(b)) \o Tail(b)) \o c = (a \o b) \o c
            BY <3>1, <3>2, NumbersMove, Zenon
        <3> QED BY <1>9, <2>1, <3>3 DEF a, b, c
    <2>2. CASE q # p
        BY <1>9, <2>2
    <2> QED BY <2>1, <2>2
<1>11. PipelineTypes'
    BY <1>1, <1>4, <1>5, <1>8 DEF PipelineTypes
<1>12. server'.pc \in {"recv", "close", "poll", "push"}
    BY <1>1, <1>5
<1>13. PushedInOrder' /\ ClientsPushed'
    BY <1>1, <1>4 DEF PushedInOrder, ClientsPushed
<1>14. SelfPushed'
    <2>1. CASE script # "lockstep"
        <3>1. Len(pushed[Self]) = 0 /\ server'.pc # "push"
            BY <1>1, <1>4, <1>5, <2>1 DEF SelfPushed
        <3> QED BY <1>1, <1>4, <2>1, <3>1 DEF SelfPushed
    <2>2. CASE script = "lockstep"
        <3>1. Len(pushed[Self]) = server.loop
            BY <1>1, <1>4, <2>2 DEF SelfPushed
        <3>2. /\ server.loop \in Nat
              /\ \/ server'.pc = "close"
                 \/ server'.pc = "push" /\ server'.loop = server.loop + 1
            <4>1. server.loop \in Nat
                BY <1>4, PipelineFacts DEF Servers
            <4>2. \/ server'.pc = "close"
                  \/ server'.pc = "push" /\ server'.loop = server.loop + 1
                BY <1>5, <2>2
            <4> QED BY <4>1, <4>2
        <3>3. server'.pc = "push" => Len(pushed[Self]) = server'.loop - 1
            BY <3>1, <3>2
        <3> QED BY <1>1, <1>4, <2>2, <3>2, <3>3 DEF SelfPushed
    <2> QED BY <2>1, <2>2
<1>15. Balanced'
    <2>1. ASSUME NEW q \in Pipeline!Pushers
          PROVE  Splits((pulled'[q] \o inbox'[q]) \o pipe'[q], lost'[q], Members(pushed'[q]))
        BY <1>1, <1>4, <1>10 DEF Balanced
    <2> QED BY <2>1 DEF Balanced, Splits, Members, Increasing
<1>16. KeptWithoutGap'
    <2>1. Serving' /\ Serving /\ starts # 0
        BY <1>1, <1>4, <1>12 DEF Serving, KeptWithoutGap
    <2> SUFFICES ASSUME starts <= 1, NEW d \in Clients
                 PROVE  /\ Gapless(0, pulled'[d])
                        /\ LET kept == (pulled'[d] \o inbox'[d]) \o pipe'[d]
                           IN  /\ Gapless(0, kept)
                               /\ client'[d].pc # "done" => Len(kept) = Len(pushed'[d])
        BY <1>1, <2>1 DEF KeptWithoutGap, Gapless
    <2>2. d \in Pipeline!Pushers
        BY PipelineFacts
    <2>3. (pulled'[d] \o inbox'[d]) \o pipe'[d] = (pulled[d] \o inbox[d]) \o pipe[d]
        BY <1>1, <1>10, <2>2
    <2>4. LET kept == (pulled'[d] \o inbox'[d]) \o pipe'[d]
          IN  /\ Gapless(0, kept)
              /\ client'[d].pc # "done" => Len(kept) = Len(pushed'[d])
        BY <1>1, <1>4, <2>1, <2>3 DEF KeptWithoutGap
    <2>5. /\ pulled'[d] \in Seq(Pipeline!Job) /\ inbox'[d] \in Seq(Pipeline!Job)
          /\ pipe'[d] \in Seq(Pipeline!Job)
        BY <1>1, <1>4, <1>8, <2>2
    <2>6. pulled'[d] \in Seq(Nat) /\ inbox'[d] \in Seq(Nat) /\ pipe'[d] \in Seq(Nat)
        BY <2>5, JobSequences
    <2>7. Gapless(0, pulled'[d])
        BY <2>4, <2>6, GaplessParts
    <2> QED BY <2>4, <2>7
<1>17. Turns'
    <2>1. IsFiniteSet(Pipeline!PulledOfClients') /\ Received' = Received + 1
        <3>1. /\ IsFiniteSet(Pipeline!PulledOfClients)
              /\ Cardinality(Pipeline!PulledOfClients) \in Nat
              /\ Len(pulled[Self]) \in Nat
            BY <1>4, PipelineFacts, LenProperties, FS_CardinalityType DEF Turns
        <3>2. CASE p = Self
            <4>1. Pipeline!PulledOfClients' = Pipeline!PulledOfClients
                <5>1. \A c \in Clients : pulled'[c] = pulled[c]
                    BY <1>9, <3>2, PipelineFacts
                <5> QED BY <5>1 DEF Pipeline!PulledOfClients
            <4>2. Len(pulled'[Self]) = Len(pulled[Self]) + 1
                BY <1>4, <1>6, <1>9, <3>2, PipelineFacts, AppendProperties
            <4> QED BY <3>1, <4>1, <4>2 DEF Received
        <3>3. CASE p \in Clients
            <4>1. pulled'[Self] = pulled[Self]
                BY <1>9, <3>3, PipelineFacts
            <4>2. /\ IsFiniteSet(Pipeline!PulledOfClients')
                  /\ Cardinality(Pipeline!PulledOfClients')
                        = Cardinality(Pipeline!PulledOfClients) + 1
                BY <1>2, <1>4, <1>6, <3>1, <3>3, OneMorePulled
            <4> QED BY <3>1, <4>1, <4>2 DEF Received
        <3> QED BY <1>3, <3>2, <3>3, PipelineFacts
    <2>2. script = "lockstep" => Len(pushed[Self]) = Received'
        BY <1>1, <1>4, <2>1 DEF Turns
    <2>3. script = "lockstep" => server'.pc # "recv"
        BY <1>5
    <2> QED BY <1>1, <2>1, <2>2, <2>3 DEF Turns
<1>19. OwnInOrder'
    <2> SUFFICES ASSUME script = "lockstep"
                 PROVE  /\ Gapless(1, pulled'[Self])
                        /\ LET kept == (pulled'[Self] \o inbox'[Self]) \o pipe'[Self]
                           IN  Gapless(1, kept) /\ Len(kept) = Len(pushed'[Self])
        BY <1>1 DEF OwnInOrder
    <2>1. (pulled'[Self] \o inbox'[Self]) \o pipe'[Self]
             = (pulled[Self] \o inbox[Self]) \o pipe[Self]
        BY <1>1, <1>10, PipelineFacts
    <2>2. LET kept == (pulled'[Self] \o inbox'[Self]) \o pipe'[Self]
          IN  Gapless(1, kept) /\ Len(kept) = Len(pushed'[Self])
        BY <1>1, <1>4, <2>1 DEF OwnInOrder
    <2>3. /\ pulled'[Self] \in Seq(Nat) /\ inbox'[Self] \in Seq(Nat)
          /\ pipe'[Self] \in Seq(Nat)
        BY <1>1, <1>4, <1>8, PipelineFacts, JobSequences
    <2>4. Gapless(1, pulled'[Self])
        BY <2>2, <2>3, GaplessParts
    <2> QED BY <2>2, <2>4
<1>18. Pipeline!PolledIsReceived'
    BY <1>1, <1>5 DEF Pipeline!PolledIsReceived
<1> QED BY <1>11, <1>13, <1>14, <1>15, <1>16, <1>17, <1>18, <1>19 DEF PipelineParts

\* One step of the scripts: of a pipeline, or nothing that it would notice.
LEMMA StepPipelineInv == PipelineInv /\ [Next]_vars => PipelineInv'
<1> SUFFICES ASSUME PipelineInv, [Next]_vars, Pipelines' PROVE PipelineParts'
    BY DEF PipelineInv
<1>1. CASE Pipelines /\ Pipeline!Next
    <2>1. PipelineParts
        BY <1>1 DEF PipelineInv
    <2>2. CASE Pipeline!Start \/ Pipeline!Poll \/ Pipeline!PollFails
                  \/ Pipeline!LockstepPushFails \/ Pipeline!LockstepRecvExpires
        BY <1>1, <2>1, <2>2, ServerStepsKeep
    <2>3. CASE Pipeline!Kill
        BY <2>1, <2>3, KillKeeps
    <2>4. CASE Pipeline!Recv
        BY <1>1, <2>1, <2>4, RecvKeeps
    <2>5. CASE Pipeline!LockstepPush
        BY <1>1, <2>1, <2>5, LockstepPushKeeps
    <2>6. CASE Pipeline!Close
        BY <2>1, <2>6, CloseKeeps
    <2>7. CASE \E c \in Clients :
                  Pipeline!Push(c) \/ Pipeline!PushFails(c) \/ Pipeline!Disconnect(c)
        BY <2>1, <2>7, PushKeeps, PushFailsKeeps, DisconnectKeeps
    <2>8. CASE \E p \in Pipeline!Pushers : Pipeline!Transmit(p)
        BY <2>1, <2>8, TransmitKeeps
    <2> QED BY <1>1, <2>2, <2>3, <2>4, <2>5, <2>6, <2>7, <2>8
            DEF Pipeline!Next, Pipeline!ServerStep
<1>2. CASE UNCHANGED vars
    <2>1. /\ UNCHANGED <<script, starts, server, client, pipe, inbox, pulled, lost, pushed>>
          /\ PipelineParts
        BY <1>2 DEF vars, pipeline, PipelineInv, Pipelines
    <2>2. UNCHANGED <<pipe, inbox, pulled, lost, pushed>>
        BY <2>1
    <2>3. /\ PushedInOrder' /\ Balanced'
          /\ Pipeline!PulledOfClients' = Pipeline!PulledOfClients
          /\ Pipeline!Waiting' = Pipeline!Waiting
        BY <2>1, <2>2, JobsStay
    <2>4. PipelineTypes'
        BY <2>1 DEF PipelineParts, PipelineTypes, ServerPcs
    <2>5. ClientsPushed' /\ SelfPushed'
        BY <2>1 DEF PipelineParts, ClientsPushed, SelfPushed
    <2>6. KeptWithoutGap'
        BY <2>1 DEF PipelineParts, KeptWithoutGap, Serving
    <2>7. Turns' /\ OwnInOrder' /\ Pipeline!PolledIsReceived'
        BY <2>1, <2>3
           DEF PipelineParts, Turns, Received, OwnInOrder, Pipeline!PolledIsReceived
    <2> QED BY <2>3, <2>4, <2>5, <2>6, <2>7 DEF PipelineParts
<1>3. CASE Publishes /\ Publish!Next
    <2>1. script' = script
        BY <1>3 DEF Publish!Next, Publish!Start, Publish!Kill, Publish!SendTopic,
                    Publish!SendTopicFails, Publish!SendPayload, Publish!SendPayloadFails,
                    Publish!Join, Publish!RecvTopic, Publish!RecvPayload,
                    Publish!RecvExpires, Publish!subSide
    <2> QED BY <1>3, <2>1 DEF Publishes, Pipelines
<1> QED BY <1>1, <1>2, <1>3 DEF Next

\* What the runs check of a pipeline follows.
LEMMA PipelineImplies ==
    ASSUME PipelineParts
    PROVE  /\ Pipeline!TypeOK
           /\ Pipeline!JobsBalance /\ Pipeline!PulledWithoutGap
           /\ Pipeline!LockstepTakesTurns /\ Pipeline!PolledIsReceived
<1>1. /\ PipelineTypes /\ Balanced /\ KeptWithoutGap /\ Turns /\ OwnInOrder
      /\ Pipeline!PolledIsReceived
    BY DEF PipelineParts
<1>2. Pipeline!TypeOK
    BY <1>1, PipelineFacts DEF PipelineTypes, Servers, Pipeline!TypeOK
<1>3. ASSUME NEW p \in Pipeline!Pushers
      PROVE  /\ Pipeline!Increasing(Pipeline!Kept(p))
             /\ Pipeline!Range(Pipeline!Kept(p)) \cup lost[p] = Pipeline!Range(pushed[p])
             /\ Pipeline!Range(Pipeline!Kept(p)) \cap lost[p] = {}
    <2> DEFINE kept == (pulled[p] \o inbox[p]) \o pipe[p]
    <2>1. /\ pulled[p] \in Seq(Pipeline!Job) /\ inbox[p] \in Seq(Pipeline!Job)
          /\ pipe[p] \in Seq(Pipeline!Job) /\ pushed[p] \in Seq(Pipeline!Job)
        BY <1>1 DEF PipelineTypes
    <2>2. kept \in Seq(Pipeline!Job)
        BY <2>1, ThreeParts
    <2>3. Pipeline!Kept(p) = kept
        BY DEF Pipeline!Kept
    <2>4. Splits(kept, lost[p], Members(pushed[p]))
        BY <1>1 DEF Balanced
    <2> HIDE DEF kept
    <2>5. Pipeline!Range(kept) = Members(kept) /\ Pipeline!Range(pushed[p]) = Members(pushed[p])
        BY <2>1, <2>2, JobSequences
    <2> QED BY <2>3, <2>4, <2>5, SameOrder DEF Splits
<1>4. Pipeline!JobsBalance
    BY <1>3 DEF Pipeline!JobsBalance
<1>5. Pipeline!PulledWithoutGap
    <2> SUFFICES ASSUME starts <= 1, NEW c \in Clients, NEW i \in 1..Len(pulled[c])
                 PROVE  pulled[c][i] = i - 1
        BY DEF Pipeline!PulledWithoutGap
    <2>1. pulled[c][i] = 0 + i - 1
        BY <1>1 DEF KeptWithoutGap, Gapless
    <2> QED BY <2>1
<1>6. Pipeline!LockstepTakesTurns
    <2> SUFFICES ASSUME script = "lockstep"
                 PROVE  LET outstanding == Len(pushed[Self]) - Len(pulled[Self])
                            taken == Cardinality(Pipeline!PulledOfClients)
                        IN  /\ outstanding \in {taken, taken + 1}
                            /\ server.pc = "push" => outstanding = taken
                            /\ server.pc = "recv" => outstanding = taken + 1
                            /\ \A i \in 1..Len(pulled[Self]) : pulled[Self][i] = i
        BY DEF Pipeline!LockstepTakesTurns, Pipeline!Cardinality, Cardinality
    <2> DEFINE own == Len(pulled[Self])
               all == Len(pushed[Self])
               taken == Cardinality(Pipeline!PulledOfClients)
    <2>1. own \in Nat /\ all \in Nat /\ taken \in Nat
        BY <1>1, PipelineFacts, LenProperties, FS_CardinalityType DEF PipelineTypes, Turns
    <2>2. /\ all \in {own + taken, own + taken + 1}
          /\ server.pc = "push" => all = own + taken
          /\ server.pc = "recv" => all = own + taken + 1
        BY <1>1 DEF Turns, Received
    <2>3. \A i \in 1..Len(pulled[Self]) : pulled[Self][i] = i
        BY <1>1 DEF OwnInOrder, Gapless
    <2> HIDE DEF own, all, taken
    <2>4. /\ all - own \in {taken, taken + 1}
          /\ server.pc = "push" => all - own = taken
          /\ server.pc = "recv" => all - own = taken + 1
        BY <2>1, <2>2
    <2> QED BY <2>3, <2>4 DEF own, all, taken
<1> QED BY <1>1, <1>2, <1>4, <1>5, <1>6

\* Of every job that a client or the lockstep script was told it had pushed,
\* exactly one thing has become: it was pulled, it waits in order at the
\* server or at its pusher, or it was lost with a socket; and a server that
\* is not started again pulls the first jobs of a client without a gap.
THEOREM JobsAlwaysBalance == Spec => []JobsBalance
<1>1. PipelineInv => JobsBalance
    BY PipelineImplies DEF PipelineInv, JobsBalance
<1> QED BY <1>1, InitPipelineInv, StepPipelineInv, PTL DEF Spec

\* The lockstep script pulls a job for each one it pushes, a client's or its
\* own, so that its own outstanding jobs are as many as it has pulled of the
\* clients', and one more while it receives and after a receive that found
\* nothing; those of its own that it has pulled are its first, in order. And
\* the receive of Poll.tbasic, which has no timeout, always finds the message
\* that the poll has found.
THEOREM ReceivesAlwaysInTurn == Spec => []ReceivesInTurn
<1>1. PipelineInv => ReceivesInTurn
    BY PipelineImplies DEF PipelineInv, ReceivesInTurn
<1> QED BY <1>1, InitPipelineInv, StepPipelineInv, PTL DEF Spec

-----------------------------------------------------------------------------
(* PubSub: the inductive invariant.                                        *)

Messages == Seq(Publish!Frame) \ {<<>>}

Subscribers == [pc : {"topic", "payload", "done"}, rest : Seq(Publish!Frame),
                loop : 1..SubRounds, printed : Seq(Publish!Frame), missed : SUBSET Nat]

PublishTypes ==
    /\ pub \in {"topic", "payload", "down", "done"}
    /\ round \in 1..(PubRounds + 1)
    /\ pub = "payload" => round <= PubRounds
    /\ open \in Seq({Publish!Topic})
    /\ audience \subseteq Subs /\ joined \subseteq Subs
    /\ queue \in [Subs -> Seq(Messages)]
    /\ \A s \in Subs : Len(queue[s]) <= Backlog
    /\ sub \in [Subs -> Subscribers]
    /\ failed \in [topic : Nat, payload : Nat]
    /\ kills \in Nat

Pairs == {<<Publish!Topic, n>> : n \in 1..PubRounds}

\* The queue q and the record r of a subscriber, when all messages are a topic
\* and a payload: at its second receive, and only there, it is inside one.
Whole(q, r) ==
    /\ q \in Seq(Pairs)
    /\ r.rest = <<>> <=> r.pc # "payload"
    /\ r.rest # <<>> => \E n \in 1..PubRounds : r.rest = <<n>>

MessagesWhole ==
    /\ open = IF pub = "payload" THEN <<Publish!Topic>> ELSE <<>>
    /\ \A s \in Subs : Whole(queue[s], sub[s])

Lasts(q) == [i \in 1..Len(q) |-> Publish!Last(q[i])]
Heard(q, r) == (r.printed \o r.rest) \o Lasts(q)

\* Of the payloads of n rounds, those that were heard, in order, are not those
\* that were missed; and there are no others.
InOrder(q, r, n) ==
    /\ Heard(q, r) \in Seq(1..n) /\ r.missed \subseteq 1..n
    /\ Increasing(Heard(q, r))
    /\ Members(Heard(q, r)) \cap r.missed = {}
Complete(q, r, n) == Members(Heard(q, r)) \cup r.missed = 1..n

HeardInOrder ==
    \A s \in Subs :
        /\ InOrder(queue[s], sub[s], round - 1)
        /\ failed.topic = 0 /\ kills = 0 => Complete(queue[s], sub[s], round - 1)

PublishParts ==
    /\ PublishTypes
    /\ failed.payload = 0 => MessagesWhole /\ HeardInOrder
PublishInv == Publishes => PublishParts

LEMMA PublishFacts ==
    /\ PubRounds \in Nat \ {0} /\ SubRounds \in Nat \ {0} /\ Backlog \in Nat \ {0}
    /\ Publish!Topic = 0 /\ 0 \in Publish!Frame
    /\ \A n \in 1..PubRounds : n \in Publish!Frame
    /\ Publish!Frame \subseteq Nat
BY BoundsAssumption DEF Publish!Topic, Publish!Frame

LEMMA InitPublishInv == Init => PublishInv
<1> SUFFICES ASSUME Init, Publishes PROVE PublishParts
    BY DEF PublishInv
<1>1. Publish!Init
    BY DEF Init, Pipeline!Init, Publishes
<1> DEFINE e == <<>>
           fresh == [pc |-> "topic", rest |-> e, loop |-> 1, printed |-> e, missed |-> {}]
<1>2. /\ pub = "down" /\ round = 1 /\ open = e /\ audience = {} /\ joined = {}
      /\ queue = [s \in Subs |-> e] /\ sub = [s \in Subs |-> fresh]
      /\ failed = [topic |-> 0, payload |-> 0] /\ kills = 0
    BY <1>1 DEF Publish!Init, Publish!FreshSub
<1>3. /\ e \in Seq(Messages) /\ e \in Seq({Publish!Topic}) /\ e \in Seq(Publish!Frame)
      /\ e \in Seq(Pairs) /\ e \in Seq(1..0) /\ Len(e) = 0
      /\ (e \o e) \o e = e /\ Increasing(e) /\ Members(e) = {}
    BY EmptyIsIncreasing, ConcatEmptySeq
<1>4. Lasts(e) = e
    BY <1>3 DEF Lasts
<1>5. 1 \in 1..SubRounds /\ 1 \in 1..(PubRounds + 1) /\ 0 <= Backlog
    BY PublishFacts
<1>6. Whole(e, fresh)
    BY <1>3 DEF Whole
<1>7. fresh.printed = e /\ fresh.rest = e /\ fresh.missed = {} /\ Heard(e, fresh) = e
    BY <1>3, <1>4 DEF Heard
<1>8. fresh \in Subscribers
    BY <1>3, <1>5 DEF Subscribers
<1> HIDE DEF fresh, e
<1>9. PublishTypes
    BY <1>2, <1>3, <1>5, <1>8 DEF PublishTypes
<1>10. 1 - 1 = 0 /\ 1..0 = {}
    OBVIOUS
<1>11. InOrder(e, fresh, 0) /\ Complete(e, fresh, 0)
    BY <1>3, <1>7, <1>10 DEF InOrder, Complete
<1>12. MessagesWhole
    BY <1>2, <1>6 DEF MessagesWhole, e
<1>13. HeardInOrder
    BY <1>2, <1>10, <1>11 DEF HeardInOrder
<1> QED BY <1>9, <1>12, <1>13 DEF PublishParts

\* The message the next frame is read from, and what taking it leaves.
LEMMA FrameTaken ==
    ASSUME PublishTypes, NEW s \in Subs, Publish!Available(s), Publish!TakeFrame(s)
    PROVE  /\ Publish!Frames(s) \in Messages
           /\ Head(Publish!Frames(s)) \in Publish!Frame
           /\ Tail(Publish!Frames(s)) \in Seq(Publish!Frame)
           /\ queue' \in [Subs -> Seq(Messages)]
           /\ \A t \in Subs : Len(queue'[t]) <= Backlog
           /\ \A t \in Subs : t # s => queue'[t] = queue[t]
<1>1. /\ queue \in [Subs -> Seq(Messages)] /\ sub \in [Subs -> Subscribers]
      /\ \A t \in Subs : Len(queue[t]) <= Backlog
    BY DEF PublishTypes
<1>2. sub[s].rest \in Seq(Publish!Frame) /\ queue[s] \in Seq(Messages)
    BY <1>1 DEF Subscribers
<1>3. CASE sub[s].rest # <<>>
    <2>1. Publish!Frames(s) = sub[s].rest /\ queue' = queue
        BY <1>3 DEF Publish!Frames, Publish!TakeFrame
    <2>2. Head(sub[s].rest) \in Publish!Frame /\ Tail(sub[s].rest) \in Seq(Publish!Frame)
        BY <1>2, <1>3, HeadTailProperties
    <2> QED BY <1>1, <1>2, <1>3, <2>1, <2>2 DEF Messages
<1>4. CASE sub[s].rest = <<>>
    <2>1. /\ Publish!Frames(s) = Head(queue[s]) /\ queue[s] # <<>>
          /\ queue' = [queue EXCEPT ![s] = Tail(queue[s])]
        BY <1>4 DEF Publish!Frames, Publish!TakeFrame, Publish!Available
    <2>2. /\ Head(queue[s]) \in Messages /\ Tail(queue[s]) \in Seq(Messages)
          /\ Len(Tail(queue[s])) = Len(queue[s]) - 1
        BY <1>2, <2>1, HeadTailProperties
    <2> DEFINE m == Head(queue[s])
    <2>3. m \in Seq(Publish!Frame) /\ m # <<>>
        BY <2>2 DEF Messages
    <2> HIDE DEF m
    <2>4. Head(m) \in Publish!Frame /\ Tail(m) \in Seq(Publish!Frame)
        BY <2>3, HeadTailProperties
    <2>5. Len(queue[s]) \in Nat
        BY <1>2, LenProperties
    <2>6. Len(Tail(queue[s])) <= Backlog
        BY <1>1, <2>2, <2>5, PublishFacts
    <2>7. queue' \in [Subs -> Seq(Messages)]
        BY <1>1, <2>1, <2>2
    <2>8. \A t \in Subs : t # s => queue'[t] = queue[t]
        BY <1>1, <2>1
    <2>9. queue'[s] = Tail(queue[s])
        BY <1>1, <2>1
    <2> QED BY <1>1, <2>1, <2>2, <2>4, <2>6, <2>7, <2>8, <2>9 DEF m
<1> QED BY <1>3, <1>4

\* The end of a subscriber's round leaves all but its next call and its loop.
LEMMA AfterRoundResult ==
    ASSUME NEW s, NEW r \in Subscribers
    PROVE  LET n == Publish!AfterRound(s, r)
           IN  /\ n \in Subscribers /\ n.pc \in {"topic", "done"}
               /\ n.rest = r.rest /\ n.printed = r.printed /\ n.missed = r.missed
               /\ script = "quotes" => n.pc = "topic"
<1> DEFINE n == Publish!AfterRound(s, r)
<1>1. CASE script = "quotes"
    <2>1. n = [r EXCEPT !.pc = "topic"]
        BY <1>1 DEF Publish!AfterRound
    <2> QED BY <2>1 DEF Subscribers
<1>2. CASE script # "quotes" /\ r.loop = SubRounds
    <2>1. n = [r EXCEPT !.pc = "done"]
        BY <1>2 DEF Publish!AfterRound
    <2> QED BY <1>2, <2>1 DEF Subscribers
<1>3. CASE script # "quotes" /\ r.loop # SubRounds
    <2>1. n = [r EXCEPT !.pc = "topic", !.loop = r.loop + 1]
        BY <1>3 DEF Publish!AfterRound
    <2>2. r.loop + 1 \in 1..SubRounds
        BY <1>3, PublishFacts DEF Subscribers
    <2> QED BY <1>3, <2>1, <2>2 DEF Subscribers
<1> QED BY <1>1, <1>2, <1>3

\* What a step of a subscriber makes of its record.
Topical(s) == [sub[s] EXCEPT !.pc = "payload", !.rest = Tail(Publish!Frames(s))]
Printing(s) == [sub[s] EXCEPT !.rest = Tail(Publish!Frames(s)),
                              !.printed = Append(sub[s].printed, Head(Publish!Frames(s)))]

LEMMA SubStepResult ==
    ASSUME PublishTypes, NEW s \in Subs,
           Publish!RecvTopic(s) \/ Publish!RecvPayload(s) \/ Publish!RecvExpires(s)
    PROVE  /\ \A t \in Subs : t # s => sub'[t] = sub[t] /\ queue'[t] = queue[t]
           /\ Publish!RecvTopic(s) => sub'[s] = Topical(s) /\ Topical(s) \in Subscribers
           /\ Publish!RecvPayload(s) => /\ sub'[s] = Publish!AfterRound(s, Printing(s))
                                        /\ Printing(s) \in Subscribers
           /\ Publish!RecvExpires(s) => /\ sub'[s] = Publish!AfterRound(s, sub[s])
                                        /\ queue' = queue
           /\ PublishTypes'
<1>1. /\ sub \in [Subs -> Subscribers] /\ sub[s] \in Subscribers
      /\ UNCHANGED <<script, pub, round, open, audience, joined, failed, kills>>
    BY DEF PublishTypes, Publish!RecvTopic, Publish!RecvPayload, Publish!RecvExpires,
           Publish!subSide
<1>2. CASE Publish!RecvTopic(s)
    <2>1. /\ Publish!Available(s) /\ Publish!TakeFrame(s)
          /\ sub' = [sub EXCEPT ![s] = [@ EXCEPT !.pc = "payload",
                                                !.rest = Tail(Publish!Frames(s))]]
        BY <1>2 DEF Publish!RecvTopic
    <2>2. /\ Publish!Frames(s) \in Messages
          /\ Tail(Publish!Frames(s)) \in Seq(Publish!Frame)
          /\ queue' \in [Subs -> Seq(Messages)]
          /\ \A t \in Subs : Len(queue'[t]) <= Backlog
          /\ \A t \in Subs : t # s => queue'[t] = queue[t]
        BY <2>1, FrameTaken
    <2>3. sub' = [sub EXCEPT ![s] = Topical(s)] /\ Topical(s) \in Subscribers
        BY <1>1, <2>1, <2>2 DEF Topical, Subscribers
    <2>4. sub' \in [Subs -> Subscribers] /\ sub'[s] = Topical(s)
          /\ \A t \in Subs : t # s => sub'[t] = sub[t]
        BY <1>1, <2>3
    <2>5. PublishTypes'
        BY <1>1, <2>2, <2>4 DEF PublishTypes
    <2> QED BY <1>2, <2>1, <2>2, <2>3, <2>4, <2>5
            DEF Publish!RecvTopic, Publish!RecvPayload, Publish!RecvExpires
<1>3. CASE Publish!RecvPayload(s)
    <2>1. /\ Publish!Available(s) /\ Publish!TakeFrame(s) /\ sub[s].pc = "payload"
          /\ sub' = [sub EXCEPT ![s] = Publish!AfterRound(s, Printing(s))]
        BY <1>3 DEF Publish!RecvPayload, Printing
    <2>2. /\ Head(Publish!Frames(s)) \in Publish!Frame
          /\ Tail(Publish!Frames(s)) \in Seq(Publish!Frame)
          /\ queue' \in [Subs -> Seq(Messages)]
          /\ \A t \in Subs : Len(queue'[t]) <= Backlog
          /\ \A t \in Subs : t # s => queue'[t] = queue[t]
        BY <2>1, FrameTaken
    <2>3. Printing(s) \in Subscribers
        <3>1. Append(sub[s].printed, Head(Publish!Frames(s))) \in Seq(Publish!Frame)
            BY <1>1, <2>2, AppendProperties DEF Subscribers
        <3> QED BY <1>1, <2>2, <3>1 DEF Printing, Subscribers
    <2>4. Publish!AfterRound(s, Printing(s)) \in Subscribers
        BY <2>3, AfterRoundResult
    <2>5. sub' \in [Subs -> Subscribers] /\ sub'[s] = Publish!AfterRound(s, Printing(s))
          /\ \A t \in Subs : t # s => sub'[t] = sub[t]
        BY <1>1, <2>1, <2>4
    <2>6. PublishTypes'
        BY <1>1, <2>2, <2>5 DEF PublishTypes
    <2> QED BY <1>3, <2>1, <2>2, <2>3, <2>5, <2>6
            DEF Publish!RecvTopic, Publish!RecvPayload, Publish!RecvExpires
<1>4. CASE Publish!RecvExpires(s)
    <2>1. /\ ~Publish!Available(s) /\ queue' = queue
          /\ sub' = [sub EXCEPT ![s] = Publish!AfterRound(s, sub[s])]
        BY <1>4 DEF Publish!RecvExpires
    <2>2. Publish!AfterRound(s, sub[s]) \in Subscribers
        BY <1>1, AfterRoundResult
    <2>3. sub' \in [Subs -> Subscribers] /\ sub'[s] = Publish!AfterRound(s, sub[s])
          /\ \A t \in Subs : t # s => sub'[t] = sub[t]
        BY <1>1, <2>1, <2>2
    <2>4. PublishTypes'
        BY <1>1, <2>1, <2>3 DEF PublishTypes
    <2> QED BY <1>4, <2>1, <2>3, <2>4
            DEF Publish!RecvTopic, Publish!RecvPayload, Publish!RecvExpires
<1> QED BY <1>2, <1>3, <1>4

\* The steps of the publisher that leave the subscribers alone.
Pauses ==
    \/ Publish!Start \/ Publish!Kill \/ Publish!SendTopic \/ Publish!SendTopicFails
    \/ Publish!SendPayloadFails \/ \E s \in Subs : Publish!Join(s)

LEMMA PauseResult ==
    ASSUME PublishTypes, Pauses
    PROVE  /\ queue' = queue /\ sub' = sub
           /\ PublishTypes'
           /\ \/ round' = round /\ failed' = failed /\ kills' = kills
              \/ /\ round' = round \/ round' = round + 1
                 /\ failed'.topic # 0 \/ kills' # 0 \/ failed'.payload # 0
           /\ failed'.payload = failed.payload \/ failed'.payload # 0
           /\ failed'.payload = 0
                 /\ open = (IF pub = "payload" THEN <<Publish!Topic>> ELSE <<>>)
              => open' = (IF pub' = "payload" THEN <<Publish!Topic>> ELSE <<>>)
<1>1. /\ round \in Nat /\ round <= PubRounds + 1 /\ PubRounds \in Nat /\ 1 <= round
      /\ failed \in [topic : Nat, payload : Nat] /\ kills \in Nat
      /\ pub = "payload" => round <= PubRounds
      /\ open \in Seq({Publish!Topic})
    BY PublishFacts DEF PublishTypes
<1>2. CASE Publish!Start
    BY <1>1, <1>2 DEF Publish!Start, PublishTypes
<1>3. CASE Publish!Kill
    <2>1. /\ pub \in {"topic", "payload"} /\ kills' = kills + 1
          /\ pub' = (IF script = "quotes" THEN "down" ELSE "done")
          /\ round' = (IF pub = "payload" THEN round + 1 ELSE round)
          /\ open' = <<>> /\ audience' = {} /\ joined' = {}
          /\ queue' = queue /\ sub' = sub /\ failed' = failed
        BY <1>3 DEF Publish!Kill
    <2>2. kills' # 0 /\ kills' \in Nat /\ round' \in 1..(PubRounds + 1)
        BY <1>1, <2>1
    <2>3. round' = round \/ round' = round + 1
        BY <2>1
    <2>4. pub' \in {"down", "done"} /\ open' \in Seq({Publish!Topic})
        BY <2>1
    <2>5. PublishTypes'
        BY <2>1, <2>2, <2>4 DEF PublishTypes
    <2> QED BY <2>1, <2>2, <2>3, <2>4, <2>5
<1>4. CASE Publish!SendTopic
    <2>1. /\ pub = "topic" /\ round <= PubRounds /\ pub' = "payload"
          /\ audience' = (IF open = <<>> THEN joined ELSE audience)
          /\ open' = Append(open, Publish!Topic)
          /\ UNCHANGED <<round, joined, queue, sub, failed, kills>>
        BY <1>4 DEF Publish!SendTopic, Publish!MaySend
    <2>2. open' \in Seq({Publish!Topic})
        BY <1>1, <2>1, AppendProperties
    <2>3. PublishTypes'
        BY <2>1, <2>2 DEF PublishTypes
    <2>4. open = <<>> => open' = <<Publish!Topic>>
        BY <2>1
    <2> QED BY <2>1, <2>3, <2>4
<1>5. CASE Publish!SendTopicFails
    <2>1. /\ pub = "topic" /\ round <= PubRounds
          /\ failed' = [failed EXCEPT !.topic = @ + 1]
          /\ round' = round + 1
          /\ pub' = (IF script = "weather" /\ round = PubRounds THEN "done" ELSE "topic")
          /\ UNCHANGED <<open, audience, joined, queue, sub, kills>>
        BY <1>5 DEF Publish!SendTopicFails, Publish!Sleep, Publish!MaySend
    <2>2. /\ failed' \in [topic : Nat, payload : Nat] /\ failed'.topic # 0
          /\ failed'.payload = failed.payload /\ round' \in 1..(PubRounds + 1)
        BY <1>1, <2>1
    <2>3. pub' \in {"done", "topic"}
        BY <2>1
    <2>4. PublishTypes'
        BY <2>1, <2>2, <2>3 DEF PublishTypes
    <2> QED BY <2>1, <2>2, <2>3, <2>4
<1>6. CASE Publish!SendPayloadFails
    <2>1. /\ pub = "payload" /\ failed' = [failed EXCEPT !.payload = @ + 1]
          /\ round' = round + 1
          /\ pub' = (IF script = "weather" /\ round = PubRounds THEN "done" ELSE "topic")
          /\ UNCHANGED <<open, audience, joined, queue, sub, kills>>
        BY <1>6 DEF Publish!SendPayloadFails, Publish!Sleep
    <2>2. /\ failed' \in [topic : Nat, payload : Nat] /\ failed'.payload # 0
          /\ round' \in 1..(PubRounds + 1)
        BY <1>1, <2>1
    <2>3. pub' \in {"done", "topic"}
        BY <2>1
    <2>4. PublishTypes'
        BY <2>1, <2>2, <2>3 DEF PublishTypes
    <2> QED BY <2>1, <2>2, <2>4
<1>7. ASSUME NEW s \in Subs, Publish!Join(s)
      PROVE  /\ UNCHANGED <<pub, round, open, audience, queue, sub, failed, kills>>
             /\ PublishTypes'
    BY <1>7 DEF Publish!Join, PublishTypes
<1> QED BY <1>2, <1>3, <1>4, <1>5, <1>6, <1>7 DEF Pauses

LEMMA SendPayloadResult ==
    ASSUME PublishTypes, Publish!SendPayload
    PROVE  /\ PublishTypes'
           /\ round <= PubRounds /\ round' = round + 1 /\ failed' = failed /\ kills' = kills
           /\ pub = "payload" /\ pub' # "payload" /\ open' = <<>>
           /\ \A s \in Subs :
                 \/ queue'[s] = Append(queue[s], Append(open, round)) /\ sub'[s] = sub[s]
                 \/ /\ queue'[s] = queue[s]
                    /\ sub'[s] = [sub[s] EXCEPT !.missed = @ \cup {round}]
<1>1. /\ round \in Nat /\ PubRounds \in Nat /\ 1 <= round
      /\ pub = "payload" => round <= PubRounds
      /\ open \in Seq({Publish!Topic})
      /\ queue \in [Subs -> Seq(Messages)] /\ sub \in [Subs -> Subscribers]
      /\ \A s \in Subs : Len(queue[s]) <= Backlog
    BY PublishFacts DEF PublishTypes
<1>2. PICK given \in SUBSET Subs :
         /\ Publish!Recipients(given)
         /\ queue' = [s \in Subs |-> IF s \in given
                                     THEN Append(queue[s], Append(open, round))
                                     ELSE queue[s]]
         /\ sub' = [s \in Subs |-> IF s \in given THEN sub[s]
                                   ELSE [sub[s] EXCEPT !.missed = @ \cup {round}]]
    BY DEF Publish!SendPayload
<1>3. /\ pub = "payload" /\ open' = <<>> /\ audience' = {}
      /\ round' = round + 1
      /\ pub' = (IF script = "weather" /\ round = PubRounds THEN "done" ELSE "topic")
      /\ UNCHANGED <<joined, failed, kills>>
    BY DEF Publish!SendPayload, Publish!Sleep
<1>4. \A s \in Subs :
         \/ /\ s \in given
            /\ queue'[s] = Append(queue[s], Append(open, round)) /\ sub'[s] = sub[s]
         \/ /\ queue'[s] = queue[s]
            /\ sub'[s] = [sub[s] EXCEPT !.missed = @ \cup {round}]
    BY <1>2
<1> DEFINE m == Append(open, round)
<1>5. m \in Messages
    <2>1. open \in Seq(Publish!Frame) /\ round \in Publish!Frame
        BY <1>1, <1>3, PublishFacts, SeqMonotonic
    <2>2. m \in Seq(Publish!Frame) /\ m # <<>>
        BY <2>1, AppendProperties
    <2> QED BY <2>2 DEF Messages
<1> HIDE DEF m
<1>6. \A s \in given : Len(queue[s]) <= Backlog - 1
    <2> SUFFICES ASSUME NEW s \in given PROVE Len(queue[s]) <= Backlog - 1
        OBVIOUS
    <2>1. Len(queue[s]) # Backlog /\ Len(queue[s]) <= Backlog /\ s \in Subs
        BY <1>1, <1>2 DEF Publish!Recipients
    <2>2. queue[s] \in Seq(Messages)
        BY <1>1, <2>1
    <2>3. Len(queue[s]) \in Nat
        BY <2>2, LenProperties
    <2> QED BY <2>1, <2>3, PublishFacts
<1>7. \A s \in Subs : /\ Append(queue[s], m) \in Seq(Messages)
                      /\ Len(Append(queue[s], m)) = Len(queue[s]) + 1
                      /\ Len(queue[s]) \in Nat
    <2> SUFFICES ASSUME NEW s \in Subs
                 PROVE  /\ Append(queue[s], m) \in Seq(Messages)
                        /\ Len(Append(queue[s], m)) = Len(queue[s]) + 1
                        /\ Len(queue[s]) \in Nat
        OBVIOUS
    <2>1. queue[s] \in Seq(Messages)
        BY <1>1
    <2> QED BY <1>5, <2>1, AppendProperties, LenProperties
<1>8. queue' \in [Subs -> Seq(Messages)]
    BY <1>1, <1>2, <1>7 DEF m
<1>9. sub' \in [Subs -> Subscribers]
    <2>1. \A s \in Subs : [sub[s] EXCEPT !.missed = @ \cup {round}] \in Subscribers
        BY <1>1 DEF Subscribers
    <2> QED BY <1>1, <1>2, <2>1
<1>10. ASSUME NEW s \in Subs PROVE Len(queue'[s]) <= Backlog
    <2>1. CASE s \in given
        <3>1. queue'[s] = Append(queue[s], m)
            BY <1>2, <2>1 DEF m
        <3> QED BY <1>6, <1>7, <2>1, <3>1, PublishFacts
    <2>2. CASE s \notin given
        BY <1>1, <1>2, <2>2
    <2> QED BY <2>1, <2>2
<1>11. round <= PubRounds /\ round' \in 1..(PubRounds + 1)
    BY <1>1, <1>3
<1>12. PublishTypes'
    BY <1>3, <1>8, <1>9, <1>10, <1>11 DEF PublishTypes
<1> QED BY <1>3, <1>4, <1>11, <1>12

-----------------------------------------------------------------------------
(* PubSub: what its steps do to what a subscriber hears.                   *)

LEMMA PairFacts ==
    ASSUME NEW m \in Pairs
    PROVE  \E n \in 1..PubRounds : /\ m = <<Publish!Topic, n>> /\ Publish!Last(m) = n
                                   /\ Tail(m) = <<n>> /\ Len(m) = 2
<1>1. PICK n \in 1..PubRounds : m = <<Publish!Topic, n>>
    BY DEF Pairs
<1>2. Len(m) = 2 /\ m[2] = n /\ Tail(m) = <<n>>
    BY <1>1
<1>3. Publish!Last(m) = n
    BY <1>2 DEF Publish!Last
<1> QED BY <1>1, <1>2, <1>3

LEMMA LastsFacts ==
    ASSUME NEW q \in Seq(Pairs)
    PROVE  /\ Lasts(q) \in Seq(Nat) /\ Len(Lasts(q)) = Len(q) /\ Len(q) \in Nat
           /\ \A i \in 1..Len(q) : Lasts(q)[i] = Publish!Last(q[i])
<1>1. Len(q) \in Nat
    BY LenProperties
<1>2. \A i \in 1..Len(q) : Publish!Last(q[i]) \in Nat
    <2> SUFFICES ASSUME NEW i \in 1..Len(q) PROVE Publish!Last(q[i]) \in Nat
        OBVIOUS
    <2>1. q[i] \in Pairs
        BY ElementOfSeq
    <2> QED BY <2>1, PairFacts
<1>3. Lasts(q) \in [1..Len(q) -> Nat]
    BY <1>2 DEF Lasts
<1> QED BY <1>1, <1>3 DEF Lasts

LEMMA LastsGrow ==
    ASSUME NEW q \in Seq(Pairs), NEW n \in 1..PubRounds
    PROVE  /\ Append(q, <<Publish!Topic, n>>) \in Seq(Pairs)
           /\ Lasts(Append(q, <<Publish!Topic, n>>)) = Append(Lasts(q), n)
<1> DEFINE m == <<Publish!Topic, n>>
           t == Append(q, m)
<1>1. m \in Pairs
    BY DEF Pairs
<1>2. Publish!Last(m) = n
    BY DEF Publish!Last
<1> HIDE DEF m
<1>3. /\ t \in Seq(Pairs) /\ Len(t) = Len(q) + 1 /\ t[Len(q) + 1] = m
      /\ \A i \in 1..Len(q) : t[i] = q[i]
    BY <1>1, AppendProperties
<1>4. t \in Seq(Pairs)
    BY <1>3
<1> HIDE DEF t
<1>5. /\ Lasts(q) \in Seq(Nat) /\ Len(Lasts(q)) = Len(q) /\ Len(q) \in Nat
      /\ \A i \in 1..Len(q) : Lasts(q)[i] = Publish!Last(q[i])
    BY LastsFacts
<1>6. /\ Lasts(t) \in Seq(Nat) /\ Len(Lasts(t)) = Len(t)
      /\ \A i \in 1..Len(t) : Lasts(t)[i] = Publish!Last(t[i])
    BY <1>4, LastsFacts
<1> DEFINE a == Append(Lasts(q), n)
<1>7. /\ a \in Seq(Nat) /\ Len(a) = Len(q) + 1 /\ a[Len(q) + 1] = n
      /\ \A i \in 1..Len(q) : a[i] = Lasts(q)[i]
    <2>1. Lasts(q) \in Seq(Nat) /\ n \in Nat
        BY <1>5
    <2>2. /\ a \in Seq(Nat) /\ Len(a) = Len(Lasts(q)) + 1 /\ a[Len(Lasts(q)) + 1] = n
          /\ \A i \in 1..Len(Lasts(q)) : a[i] = Lasts(q)[i]
        BY <2>1, AppendProperties
    <2> QED BY <1>5, <2>2
<1> HIDE DEF a
<1>8. ASSUME NEW i \in 1..Len(t) PROVE Lasts(t)[i] = a[i]
    <2>1. CASE i = Len(q) + 1
        BY <1>2, <1>3, <1>6, <1>7, <2>1
    <2>2. CASE i # Len(q) + 1
        <3>1. i \in 1..Len(q)
            BY <1>3, <1>5, <2>2
        <3> QED BY <1>3, <1>5, <1>6, <1>7, <3>1
    <2> QED BY <2>1, <2>2
<1>9. Lasts(t) = a
    BY <1>3, <1>6, <1>7, <1>8, SeqEqual
<1> QED BY <1>4, <1>9 DEF a, t, m

LEMMA LastsTaken ==
    ASSUME NEW q \in Seq(Pairs), q # <<>>
    PROVE  /\ Head(q) \in Pairs /\ Tail(q) \in Seq(Pairs)
           /\ Lasts(q) # <<>>
           /\ Head(Lasts(q)) = Publish!Last(Head(q))
           /\ Lasts(Tail(q)) = Tail(Lasts(q))
<1> DEFINE t == Tail(q)
           l == Lasts(q)
<1>1. /\ Head(q) \in Pairs /\ Head(q) = q[1] /\ t \in Seq(Pairs)
      /\ Len(t) = Len(q) - 1 /\ \A i \in 1..Len(t) : t[i] = q[i + 1]
    BY HeadTailProperties
<1>2. t \in Seq(Pairs)
    BY <1>1
<1> HIDE DEF t
<1>3. /\ l \in Seq(Nat) /\ Len(l) = Len(q) /\ Len(q) \in Nat
      /\ \A i \in 1..Len(q) : l[i] = Publish!Last(q[i])
    BY LastsFacts
<1>4. /\ Lasts(t) \in Seq(Nat) /\ Len(Lasts(t)) = Len(t)
      /\ \A i \in 1..Len(t) : Lasts(t)[i] = Publish!Last(t[i])
    BY <1>2, LastsFacts
<1>5. Len(q) # 0
    BY EmptySeq
<1>6. l \in Seq(Nat)
    BY <1>3
<1> HIDE DEF l
<1>7. l # <<>>
    BY <1>3, <1>5, <1>6
<1>8. /\ Head(l) = l[1] /\ Tail(l) \in Seq(Nat) /\ Len(Tail(l)) = Len(l) - 1
      /\ \A i \in 1..Len(Tail(l)) : Tail(l)[i] = l[i + 1]
    BY <1>6, <1>7, HeadTailProperties
<1>9. ASSUME NEW i \in 1..Len(t) PROVE Lasts(t)[i] = Tail(l)[i]
    <2>1. i + 1 \in 1..Len(q) /\ i \in 1..Len(Tail(l))
        BY <1>1, <1>3, <1>8
    <2> QED BY <1>1, <1>3, <1>4, <1>8, <2>1
<1>10. Lasts(t) = Tail(l)
    BY <1>1, <1>3, <1>4, <1>8, <1>9, SeqEqual
<1>11. Head(l) = Publish!Last(Head(q))
    BY <1>1, <1>3, <1>5, <1>8
<1> QED BY <1>1, <1>2, <1>7, <1>10, <1>11 DEF t, l

\* What a subscriber hears is a sequence of numbers.
LEMMA HeardType ==
    ASSUME NEW r \in Subscribers, NEW q \in Seq(Pairs)
    PROVE  /\ r.printed \in Seq(Nat) /\ r.rest \in Seq(Nat) /\ Lasts(q) \in Seq(Nat)
           /\ Heard(q, r) \in Seq(Nat)
<1>1. r.printed \in Seq(Publish!Frame) /\ r.rest \in Seq(Publish!Frame)
    BY DEF Subscribers
<1>2. r.printed \in Seq(Nat) /\ r.rest \in Seq(Nat)
    BY <1>1, PublishFacts, SeqMonotonic
<1>3. Lasts(q) \in Seq(Nat)
    BY LastsFacts
<1>4. Heard(q, r) \in Seq(Nat)
    BY <1>2, <1>3, ThreeParts DEF Heard
<1> QED BY <1>2, <1>3, <1>4

\* A round of which a subscriber is handed the payload, and one it misses.
LEMMA Delivered ==
    ASSUME NEW r \in Subscribers, NEW q \in Seq(Pairs), NEW n \in 1..PubRounds,
           InOrder(q, r, n - 1)
    PROVE  LET p == Append(q, <<Publish!Topic, n>>)
           IN  /\ InOrder(p, r, n)
               /\ Complete(q, r, n - 1) => Complete(p, r, n)
<1> DEFINE p == Append(q, <<Publish!Topic, n>>)
           h == Heard(q, r)
<1>1. n \in Nat /\ n - 1 \in Nat /\ (1..(n - 1)) \cup {n} = 1..n
    BY PublishFacts
<1>2. /\ h \in Seq(1..(n - 1)) /\ r.missed \subseteq 1..(n - 1)
      /\ Increasing(h) /\ Members(h) \cap r.missed = {}
    BY DEF InOrder
<1>3. h \in Seq(Nat)
    BY HeardType
<1>4. /\ r.printed \in Seq(Nat) /\ r.rest \in Seq(Nat) /\ Lasts(q) \in Seq(Nat)
      /\ Lasts(p) = Append(Lasts(q), n)
    BY HeardType, LastsGrow
<1>5. Heard(p, r) = Append(h, n)
    <2> DEFINE a == r.printed
               b == r.rest
               c == Lasts(q)
    <2>1. a \in Seq(Nat) /\ b \in Seq(Nat) /\ c \in Seq(Nat)
        BY <1>4
    <2>2. Heard(p, r) = (a \o b) \o Append(c, n) /\ h = (a \o b) \o c
        BY <1>4 DEF Heard
    <2> HIDE DEF a, b, c, h
    <2>3. (a \o b) \o Append(c, n) = Append((a \o b) \o c, n)
        <3>1. \A v \in Nat : (a \o b) \o Append(c, v) = Append((a \o b) \o c, v)
            BY <2>1, NumbersMove
        <3> QED BY <1>1, <3>1
    <2> QED BY <2>2, <2>3
<1>6. Members(h) \subseteq 1..(n - 1)
    BY <1>2, ElementOfSeq DEF Members
<1> HIDE DEF h
<1>7. \A y \in Members(h) : y < n
    BY <1>1, <1>6
<1>8. Increasing(Append(h, n)) /\ Members(Append(h, n)) = Members(h) \cup {n}
    BY <1>1, <1>2, <1>3, <1>7, AddLargest
<1>9. Append(h, n) \in Seq(1..n)
    <2>1. h \in Seq(1..n)
        <3>1. 1..(n - 1) \subseteq 1..n
            BY <1>1
        <3> QED BY <1>2, <3>1, SeqMonotonic
    <2> QED BY <1>1, <2>1, AppendProperties
<1>10. n \notin r.missed
    BY <1>1, <1>2
<1>11. InOrder(p, r, n)
    BY <1>1, <1>2, <1>5, <1>8, <1>9, <1>10 DEF InOrder
<1>12. Complete(q, r, n - 1) => Complete(p, r, n)
    BY <1>1, <1>5, <1>8 DEF Complete, h
<1> QED BY <1>11, <1>12

LEMMA Missed ==
    ASSUME NEW r \in Subscribers, NEW q \in Seq(Pairs), NEW n \in 1..PubRounds,
           InOrder(q, r, n - 1)
    PROVE  LET m == [r EXCEPT !.missed = @ \cup {n}]
           IN  /\ InOrder(q, m, n)
               /\ Complete(q, r, n - 1) => Complete(q, m, n)
<1> DEFINE m == [r EXCEPT !.missed = @ \cup {n}]
           h == Heard(q, r)
<1>1. n \in Nat /\ n - 1 \in Nat /\ (1..(n - 1)) \cup {n} = 1..n
    BY PublishFacts
<1>2. /\ h \in Seq(1..(n - 1)) /\ r.missed \subseteq 1..(n - 1)
      /\ Increasing(h) /\ Members(h) \cap r.missed = {}
    BY DEF InOrder
<1>3. /\ m.printed = r.printed /\ m.rest = r.rest /\ m.missed = r.missed \cup {n}
    BY DEF Subscribers
<1>4. Heard(q, m) = h
    BY <1>3 DEF Heard
<1>5. Members(h) \subseteq 1..(n - 1)
    BY <1>2, ElementOfSeq DEF Members
<1> HIDE DEF h, m
<1>6. h \in Seq(1..n)
    <2>1. 1..(n - 1) \subseteq 1..n
        BY <1>1
    <2> QED BY <1>2, <2>1, SeqMonotonic
<1>7. n \notin Members(h)
    BY <1>1, <1>5
<1>8. InOrder(q, m, n)
    BY <1>1, <1>2, <1>3, <1>4, <1>6, <1>7 DEF InOrder
<1>9. Complete(q, r, n - 1) => Complete(q, m, n)
    BY <1>1, <1>3, <1>4 DEF Complete, h
<1> QED BY <1>8, <1>9 DEF m

\* What is heard is all that counts, and it stays heard in later rounds.
LEMMA SameHeard ==
    ASSUME NEW q, NEW r, NEW p, NEW t, NEW n,
           Heard(p, t) = Heard(q, r), t.missed = r.missed
    PROVE  /\ InOrder(q, r, n) => InOrder(p, t, n)
           /\ Complete(q, r, n) => Complete(p, t, n)
BY DEF InOrder, Complete

LEMMA LaterRound ==
    ASSUME NEW q, NEW r, NEW n \in Nat, InOrder(q, r, n - 1)
    PROVE  InOrder(q, r, n)
<1>1. 1..(n - 1) \subseteq 1..n
    OBVIOUS
<1>2. Heard(q, r) \in Seq(1..(n - 1))
    BY DEF InOrder
<1>3. Heard(q, r) \in Seq(1..n)
    BY <1>1, <1>2, SeqMonotonic
<1> QED BY <1>1, <1>3 DEF InOrder

\* The topic is received, and the payload, when all messages are whole.
LEMMA TopicHeard ==
    ASSUME NEW r \in Subscribers, NEW q, Whole(q, r), r.rest = <<>>, q # <<>>
    PROVE  LET t == [r EXCEPT !.pc = "payload", !.rest = Tail(Head(q))]
           IN  /\ Whole(Tail(q), t)
               /\ Heard(Tail(q), t) = Heard(q, r) /\ t.missed = r.missed
<1> DEFINE t == [r EXCEPT !.pc = "payload", !.rest = Tail(Head(q))]
<1>1. q \in Seq(Pairs)
    BY DEF Whole
<1>2. /\ Head(q) \in Pairs /\ Tail(q) \in Seq(Pairs)
      /\ Lasts(q) # <<>> /\ Head(Lasts(q)) = Publish!Last(Head(q))
      /\ Lasts(Tail(q)) = Tail(Lasts(q))
    BY <1>1, LastsTaken
<1>3. PICK n \in 1..PubRounds : Publish!Last(Head(q)) = n /\ Tail(Head(q)) = <<n>>
    BY <1>2, PairFacts
<1>4. /\ t.pc = "payload" /\ t.rest = <<n>> /\ t.printed = r.printed
      /\ t.missed = r.missed
    BY <1>3 DEF Subscribers
<1> DEFINE e == <<>>
           a == r.printed
           l == Lasts(q)
<1>5. a \in Seq(Nat) /\ e \in Seq(Nat) /\ l \in Seq(Nat) /\ l # <<>>
    BY <1>1, <1>2, HeardType
<1>6. Append(e, Head(l)) = <<n>>
    BY <1>2, <1>3
<1>7. Heard(q, r) = (a \o e) \o l
    BY DEF Heard
<1>8. Heard(Tail(q), t) = (a \o Append(e, Head(l))) \o Tail(l)
    BY <1>2, <1>4, <1>6 DEF Heard
<1> HIDE DEF a, e, l, t
<1>9. (a \o Append(e, Head(l))) \o Tail(l) = (a \o e) \o l
    BY <1>5, NumbersMove, Zenon
<1>10. <<n>> # <<>>
    OBVIOUS
<1>11. Whole(Tail(q), t)
    BY <1>2, <1>4, <1>10 DEF Whole
<1> QED BY <1>4, <1>7, <1>8, <1>9, <1>11 DEF t

LEMMA PayloadHeard ==
    ASSUME NEW r \in Subscribers, NEW q, Whole(q, r), r.pc = "payload",
           NEW t \in Subscribers, t.pc \in {"topic", "done"}, t.missed = r.missed,
           t.rest = Tail(r.rest), t.printed = Append(r.printed, Head(r.rest))
    PROVE  Whole(q, t) /\ Heard(q, t) = Heard(q, r)
<1>1. q \in Seq(Pairs) /\ r.rest # <<>>
    BY DEF Whole
<1>2. PICK n \in 1..PubRounds : r.rest = <<n>>
    BY <1>1 DEF Whole
<1>3. Tail(r.rest) = <<>>
    BY <1>2
<1>4. Whole(q, t)
    BY <1>1, <1>3 DEF Whole
<1> DEFINE a == r.printed
           b == r.rest
           l == Lasts(q)
<1>5. a \in Seq(Nat) /\ b \in Seq(Nat) /\ l \in Seq(Nat) /\ b # <<>>
    BY <1>1, HeardType
<1>6. Heard(q, r) = (a \o b) \o l /\ Heard(q, t) = (Append(a, Head(b)) \o Tail(b)) \o l
    BY DEF Heard
<1> HIDE DEF a, b, l
<1>7. (Append(a, Head(b)) \o Tail(b)) \o l = (a \o b) \o l
    BY <1>5, NumbersMove, Zenon
<1> QED BY <1>4, <1>6, <1>7

-----------------------------------------------------------------------------
(* PubSub: the steps.                                                      *)

\* A step of one subscriber.
LEMMA SubStepKeeps ==
    ASSUME PublishParts, NEW s \in Subs,
           Publish!RecvTopic(s) \/ Publish!RecvPayload(s) \/ Publish!RecvExpires(s)
    PROVE  PublishParts'
<1>1. /\ PublishTypes /\ sub[s] \in Subscribers
      /\ UNCHANGED <<script, pub, round, open, failed, kills>>
    BY DEF PublishParts, PublishTypes, Publish!RecvTopic, Publish!RecvPayload,
           Publish!RecvExpires, Publish!subSide
<1>2. /\ \A t \in Subs : t # s => sub'[t] = sub[t] /\ queue'[t] = queue[t]
      /\ Publish!RecvTopic(s) => sub'[s] = Topical(s) /\ Topical(s) \in Subscribers
      /\ Publish!RecvPayload(s) => /\ sub'[s] = Publish!AfterRound(s, Printing(s))
                                   /\ Printing(s) \in Subscribers
      /\ Publish!RecvExpires(s) => /\ sub'[s] = Publish!AfterRound(s, sub[s])
                                   /\ queue' = queue
      /\ PublishTypes'
    BY <1>1, SubStepResult
<1> SUFFICES ASSUME failed.payload = 0 PROVE MessagesWhole' /\ HeardInOrder'
    BY <1>1, <1>2 DEF PublishParts
<1>3. MessagesWhole /\ HeardInOrder
    BY DEF PublishParts
<1>4. Whole(queue[s], sub[s])
    BY <1>3 DEF MessagesWhole
<1>5. sub'[s] \in Subscribers
    BY <1>2 DEF PublishTypes
<1>6. /\ Whole(queue'[s], sub'[s])
      /\ Heard(queue'[s], sub'[s]) = Heard(queue[s], sub[s])
      /\ sub'[s].missed = sub[s].missed
    <2>1. CASE Publish!RecvTopic(s)
        <3>1. sub[s].pc = "topic" /\ Publish!Available(s) /\ Publish!TakeFrame(s)
            BY <2>1 DEF Publish!RecvTopic
        <3>2. sub[s].rest = <<>>
            BY <1>4, <3>1 DEF Whole
        <3>3. /\ queue[s] # <<>> /\ Publish!Frames(s) = Head(queue[s])
              /\ queue' = [queue EXCEPT ![s] = Tail(queue[s])]
            BY <3>1, <3>2 DEF Publish!Available, Publish!Frames, Publish!TakeFrame
        <3>4. queue'[s] = Tail(queue[s])
            BY <1>1, <3>3 DEF PublishTypes
        <3>5. sub'[s] = [sub[s] EXCEPT !.pc = "payload", !.rest = Tail(Head(queue[s]))]
            BY <1>2, <2>1, <3>3 DEF Topical
        <3> DEFINE q == queue[s]
                   r == sub[s]
                   t == [r EXCEPT !.pc = "payload", !.rest = Tail(Head(q))]
        <3>6. r \in Subscribers /\ Whole(q, r) /\ r.rest = <<>> /\ q # <<>>
            BY <1>1, <1>4, <3>2, <3>3
        <3>7. queue'[s] = Tail(q) /\ sub'[s] = t
            BY <3>4, <3>5
        <3> HIDE DEF q, r
        <3>8. Whole(Tail(q), t) /\ Heard(Tail(q), t) = Heard(q, r) /\ t.missed = r.missed
            BY <3>6, TopicHeard
        <3> HIDE DEF t
        <3> QED BY <3>7, <3>8 DEF q, r
    <2>2. CASE Publish!RecvPayload(s)
        <3>1. sub[s].pc = "payload" /\ Publish!TakeFrame(s)
            BY <2>2 DEF Publish!RecvPayload
        <3>2. sub[s].rest # <<>>
            BY <1>4, <3>1 DEF Whole
        <3>3. Publish!Frames(s) = sub[s].rest /\ queue' = queue
            BY <3>1, <3>2 DEF Publish!Frames, Publish!TakeFrame
        <3>4. /\ sub'[s] = Publish!AfterRound(s, Printing(s)) /\ Printing(s) \in Subscribers
              /\ Printing(s).rest = Tail(sub[s].rest)
              /\ Printing(s).printed = Append(sub[s].printed, Head(sub[s].rest))
              /\ Printing(s).missed = sub[s].missed
            BY <1>1, <1>2, <2>2, <3>3 DEF Printing, Subscribers
        <3>5. /\ sub'[s].pc \in {"topic", "done"} /\ sub'[s].missed = sub[s].missed
              /\ sub'[s].rest = Tail(sub[s].rest)
              /\ sub'[s].printed = Append(sub[s].printed, Head(sub[s].rest))
            BY <3>4, AfterRoundResult
        <3> QED BY <1>1, <1>4, <1>5, <3>1, <3>3, <3>5, PayloadHeard
    <2>3. CASE Publish!RecvExpires(s)
        <3>1. /\ ~Publish!Available(s) /\ queue' = queue
              /\ sub'[s] = Publish!AfterRound(s, sub[s])
            BY <1>2, <2>3 DEF Publish!RecvExpires
        <3>2. sub[s].rest = <<>>
            BY <3>1 DEF Publish!Available
        <3>3. /\ sub'[s].pc \in {"topic", "done"} /\ sub'[s].missed = sub[s].missed
              /\ sub'[s].rest = sub[s].rest /\ sub'[s].printed = sub[s].printed
            BY <1>1, <3>1, AfterRoundResult
        <3>4. Whole(queue'[s], sub'[s])
            BY <1>4, <3>1, <3>2, <3>3 DEF Whole
        <3>5. Heard(queue'[s], sub'[s]) = Heard(queue[s], sub[s])
            BY <3>1, <3>3 DEF Heard
        <3> QED BY <3>3, <3>4, <3>5
    <2> QED BY <2>1, <2>2, <2>3
<1>7. MessagesWhole'
    <2>1. \A t \in Subs : Whole(queue'[t], sub'[t])
        BY <1>2, <1>3, <1>6 DEF MessagesWhole
    <2>2. open' = IF pub' = "payload" THEN <<Publish!Topic>> ELSE <<>>
        BY <1>1, <1>3 DEF MessagesWhole
    <2> QED BY <2>1, <2>2 DEF MessagesWhole, Whole, Pairs
<1>8. ASSUME NEW t \in Subs
      PROVE  /\ InOrder(queue'[t], sub'[t], round - 1)
             /\ failed.topic = 0 /\ kills = 0 => Complete(queue'[t], sub'[t], round - 1)
    <2>1. /\ InOrder(queue[t], sub[t], round - 1)
          /\ failed.topic = 0 /\ kills = 0 => Complete(queue[t], sub[t], round - 1)
        BY <1>3 DEF HeardInOrder
    <2>2. CASE t = s
        BY <1>6, <2>1, <2>2, SameHeard
    <2>3. CASE t # s
        BY <1>2, <2>1, <2>3
    <2> QED BY <2>2, <2>3
<1>9. HeardInOrder'
    <2>1. \A t \in Subs :
             /\ InOrder(queue'[t], sub'[t], round' - 1)
             /\ failed'.topic = 0 /\ kills' = 0 => Complete(queue'[t], sub'[t], round' - 1)
        BY <1>1, <1>8
    <2> QED BY <2>1 DEF HeardInOrder, InOrder, Complete, Heard, Lasts, Increasing, Members,
                        Publish!Last
<1> QED BY <1>7, <1>9

\* A step of the publisher that hands nothing over.
LEMMA PausesKeep ==
    ASSUME PublishParts, Pauses
    PROVE  PublishParts'
<1>1. PublishTypes
    BY DEF PublishParts
<1>2. /\ queue' = queue /\ sub' = sub
      /\ PublishTypes'
      /\ \/ round' = round /\ failed' = failed /\ kills' = kills
         \/ /\ round' = round \/ round' = round + 1
            /\ failed'.topic # 0 \/ kills' # 0 \/ failed'.payload # 0
      /\ failed'.payload = failed.payload \/ failed'.payload # 0
      /\ failed'.payload = 0
            /\ open = (IF pub = "payload" THEN <<Publish!Topic>> ELSE <<>>)
         => open' = (IF pub' = "payload" THEN <<Publish!Topic>> ELSE <<>>)
    BY <1>1, PauseResult
<1> SUFFICES ASSUME failed'.payload = 0 PROVE MessagesWhole' /\ HeardInOrder'
    BY <1>2 DEF PublishParts
<1>3. MessagesWhole /\ HeardInOrder
    BY <1>2 DEF PublishParts
<1>4. MessagesWhole'
    BY <1>2, <1>3 DEF MessagesWhole, Whole, Pairs
<1>5. round \in Nat
    BY <1>1 DEF PublishTypes
<1>6. ASSUME NEW s \in Subs
      PROVE  /\ InOrder(queue[s], sub[s], round' - 1)
             /\ failed'.topic = 0 /\ kills' = 0 => Complete(queue[s], sub[s], round' - 1)
    <2>1. /\ InOrder(queue[s], sub[s], round - 1)
          /\ failed.topic = 0 /\ kills = 0 => Complete(queue[s], sub[s], round - 1)
        BY <1>3 DEF HeardInOrder
    <2>2. CASE round' = round /\ failed' = failed /\ kills' = kills
        BY <2>1, <2>2
    <2>3. CASE round' = round /\ (failed'.topic # 0 \/ kills' # 0)
        BY <2>1, <2>3
    <2>4. CASE round' = round + 1 /\ (failed'.topic # 0 \/ kills' # 0)
        <3>1. round' - 1 = round
            BY <1>5, <2>4
        <3>2. InOrder(queue[s], sub[s], round)
            BY <1>5, <2>1, LaterRound
        <3> QED BY <2>4, <3>1, <3>2
    <2> QED BY <1>2, <2>2, <2>3, <2>4
<1>7. HeardInOrder'
    <2>1. \A s \in Subs :
             /\ InOrder(queue'[s], sub'[s], round' - 1)
             /\ failed'.topic = 0 /\ kills' = 0 => Complete(queue'[s], sub'[s], round' - 1)
        BY <1>2, <1>6
    <2> QED BY <2>1 DEF HeardInOrder, InOrder, Complete, Heard, Lasts, Increasing, Members,
                        Publish!Last
<1> QED BY <1>4, <1>7

LEMMA SendPayloadKeeps ==
    ASSUME PublishParts, Publish!SendPayload
    PROVE  PublishParts'
<1>1. PublishTypes
    BY DEF PublishParts
<1>2. /\ PublishTypes'
      /\ round <= PubRounds /\ round' = round + 1 /\ failed' = failed /\ kills' = kills
      /\ pub = "payload" /\ pub' # "payload" /\ open' = <<>>
      /\ \A s \in Subs :
            \/ queue'[s] = Append(queue[s], Append(open, round)) /\ sub'[s] = sub[s]
            \/ /\ queue'[s] = queue[s]
               /\ sub'[s] = [sub[s] EXCEPT !.missed = @ \cup {round}]
    BY <1>1, SendPayloadResult
<1> SUFFICES ASSUME failed.payload = 0 PROVE MessagesWhole' /\ HeardInOrder'
    BY <1>2 DEF PublishParts
<1>3. MessagesWhole /\ HeardInOrder
    BY DEF PublishParts
<1>4. round \in 1..PubRounds /\ round' - 1 = round /\ sub \in [Subs -> Subscribers]
    <2>1. round \in 1..(PubRounds + 1) /\ sub \in [Subs -> Subscribers]
        BY <1>1 DEF PublishTypes
    <2>2. round <= PubRounds /\ round' = round + 1
        BY <1>2
    <2> QED BY <2>1, <2>2, PublishFacts
<1>5. Append(open, round) = <<Publish!Topic, round>>
    <2>1. open = <<Publish!Topic>>
        BY <1>2, <1>3 DEF MessagesWhole
    <2> QED BY <2>1, PairOf
<1>6. ASSUME NEW s \in Subs
      PROVE  /\ Whole(queue'[s], sub'[s])
             /\ InOrder(queue'[s], sub'[s], round)
             /\ failed.topic = 0 /\ kills = 0 => Complete(queue'[s], sub'[s], round)
    <2> DEFINE q == queue[s]
               r == sub[s]
    <2>1. /\ Whole(q, r) /\ InOrder(q, r, round - 1)
          /\ failed.topic = 0 /\ kills = 0 => Complete(q, r, round - 1)
        BY <1>3 DEF MessagesWhole, HeardInOrder
    <2>2. r \in Subscribers /\ q \in Seq(Pairs)
        BY <1>4, <2>1 DEF Whole
    <2>3. CASE queue'[s] = Append(queue[s], Append(open, round)) /\ sub'[s] = sub[s]
        <3>1. queue'[s] = Append(q, <<Publish!Topic, round>>) /\ sub'[s] = r
            BY <1>5, <2>3
        <3> HIDE DEF q, r
        <3>2. /\ InOrder(Append(q, <<Publish!Topic, round>>), r, round)
              /\ Complete(q, r, round - 1)
                    => Complete(Append(q, <<Publish!Topic, round>>), r, round)
            BY <1>4, <2>1, <2>2, Delivered
        <3>3. Append(q, <<Publish!Topic, round>>) \in Seq(Pairs)
            BY <1>4, <2>2, LastsGrow
        <3>4. Whole(queue'[s], sub'[s])
            BY <2>1, <3>1, <3>3 DEF Whole
        <3> QED BY <2>1, <3>1, <3>2, <3>4
    <2>4. CASE /\ queue'[s] = queue[s]
               /\ sub'[s] = [sub[s] EXCEPT !.missed = @ \cup {round}]
        <3>1. queue'[s] = q /\ sub'[s] = [r EXCEPT !.missed = @ \cup {round}]
            BY <2>4
        <3> HIDE DEF q, r
        <3>2. /\ InOrder(queue'[s], sub'[s], round)
              /\ Complete(q, r, round - 1) => Complete(queue'[s], sub'[s], round)
            BY <1>4, <2>1, <2>2, <3>1, Missed
        <3>3. sub'[s].rest = r.rest /\ sub'[s].pc = r.pc
            BY <2>2, <3>1 DEF Subscribers
        <3>4. Whole(queue'[s], sub'[s])
            BY <2>1, <3>1, <3>3 DEF Whole
        <3> QED BY <2>1, <3>2, <3>4
    <2> QED BY <1>2, <2>3, <2>4
<1>7. MessagesWhole'
    <2>1. \A s \in Subs : Whole(queue'[s], sub'[s])
        BY <1>6
    <2>2. open' = IF pub' = "payload" THEN <<Publish!Topic>> ELSE <<>>
        BY <1>2
    <2> QED BY <2>1, <2>2 DEF MessagesWhole, Whole, Pairs
<1>8. HeardInOrder'
    <2>1. \A s \in Subs :
             /\ InOrder(queue'[s], sub'[s], round' - 1)
             /\ failed'.topic = 0 /\ kills' = 0 => Complete(queue'[s], sub'[s], round' - 1)
        BY <1>2, <1>4, <1>6
    <2> QED BY <2>1 DEF HeardInOrder, InOrder, Complete, Heard, Lasts, Increasing, Members,
                        Publish!Last
<1> QED BY <1>7, <1>8

LEMMA StepPublishInv == PublishInv /\ [Next]_vars => PublishInv'
<1> SUFFICES ASSUME PublishInv, [Next]_vars, Publishes' PROVE PublishParts'
    BY DEF PublishInv
<1>1. CASE Publishes /\ Publish!Next
    <2>1. PublishParts
        BY <1>1 DEF PublishInv
    <2>2. CASE Pauses
        BY <2>1, <2>2, PausesKeep
    <2>3. CASE Publish!SendPayload
        BY <2>1, <2>3, SendPayloadKeeps
    <2>4. CASE \E s \in Subs :
                  Publish!RecvTopic(s) \/ Publish!RecvPayload(s) \/ Publish!RecvExpires(s)
        BY <2>1, <2>4, SubStepKeeps
    <2> QED BY <1>1, <2>2, <2>3, <2>4 DEF Publish!Next, Pauses
<1>2. CASE UNCHANGED vars
    <2>1. /\ UNCHANGED <<script, pub, round, open, audience, joined, queue, sub, failed, kills>>
          /\ PublishParts
        BY <1>2 DEF vars, publish, PublishInv, Publishes
    <2>2. PublishTypes'
        BY <2>1 DEF PublishParts, PublishTypes
    <2>3. MessagesWhole => MessagesWhole'
        BY <2>1 DEF MessagesWhole, Whole, Pairs
    <2>4. HeardInOrder => HeardInOrder'
        <3>1. HeardInOrder =>
                 \A s \in Subs :
                    /\ InOrder(queue'[s], sub'[s], round' - 1)
                    /\ failed'.topic = 0 /\ kills' = 0
                          => Complete(queue'[s], sub'[s], round' - 1)
            BY <2>1 DEF HeardInOrder
        <3> QED BY <3>1 DEF HeardInOrder, InOrder, Complete, Heard, Lasts, Increasing,
                            Members, Publish!Last
    <2> QED BY <2>1, <2>2, <2>3, <2>4 DEF PublishParts
<1>3. CASE Pipelines /\ Pipeline!Next
    <2>1. script' = script
        BY <1>3 DEF Pipeline!Next, Pipeline!Start, Pipeline!Kill, Pipeline!ServerStep,
                    Pipeline!Poll, Pipeline!PollFails, Pipeline!Recv, Pipeline!LockstepPush,
                    Pipeline!LockstepPushFails, Pipeline!LockstepRecvExpires,
                    Pipeline!Close, Pipeline!Push, Pipeline!PushFails,
                    Pipeline!Disconnect, Pipeline!Transmit
    <2> QED BY <1>3, <2>1 DEF Publishes, Pipelines
<1> QED BY <1>1, <1>2, <1>3 DEF Next

\* What the runs check of a publisher and its subscribers follows.
LEMMA PublishImplies ==
    ASSUME PublishParts
    PROVE  Publish!TypeOK /\ Publish!PrintsPayloads /\ Publish!HearsAllButMissed
<1>1. PublishTypes
    BY DEF PublishParts
<1>2. Publish!TypeOK
    <2> SUFFICES ASSUME NEW s \in Subs
                 PROVE  /\ Len(queue[s]) <= Backlog
                        /\ \A i \in 1..Len(queue[s]) : queue[s][i] \in Seq(Publish!Frame)
                        /\ sub[s].pc \in {"topic", "payload", "done"}
                        /\ sub[s].loop \in 1..SubRounds
                        /\ sub[s].rest \in Seq(Publish!Frame)
                        /\ sub[s].printed \in Seq(Publish!Frame)
        BY <1>1 DEF PublishTypes, Publish!TypeOK
    <2>1. queue[s] \in Seq(Messages) /\ sub[s] \in Subscribers /\ Len(queue[s]) <= Backlog
        BY <1>1 DEF PublishTypes
    <2>2. \A i \in 1..Len(queue[s]) : queue[s][i] \in Seq(Publish!Frame)
        BY <2>1, ElementOfSeq DEF Messages
    <2> QED BY <2>1, <2>2 DEF Subscribers
<1>3. ASSUME failed.payload = 0, NEW s \in Subs
      PROVE  /\ Publish!Heard(s) = Heard(queue[s], sub[s])
             /\ InOrder(queue[s], sub[s], round - 1)
             /\ failed.topic = 0 /\ kills = 0 => Complete(queue[s], sub[s], round - 1)
             /\ Publish!Range(Heard(queue[s], sub[s])) = Members(Heard(queue[s], sub[s]))
             /\ \A i \in 1..Len(sub[s].printed) : sub[s].printed[i] # Publish!Topic
    <2>1. /\ InOrder(queue[s], sub[s], round - 1)
          /\ failed.topic = 0 /\ kills = 0 => Complete(queue[s], sub[s], round - 1)
        BY <1>3 DEF PublishParts, HeardInOrder
    <2>2. sub[s] \in Subscribers /\ queue[s] \in Seq(Pairs)
        BY <1>1, <1>3 DEF PublishTypes, PublishParts, MessagesWhole, Whole
    <2>3. Publish!Heard(s) = Heard(queue[s], sub[s])
        BY DEF Publish!Heard, Publish!Waiting, Heard, Lasts
    <2> DEFINE h == Heard(queue[s], sub[s])
               a == sub[s].printed
               b == sub[s].rest
               c == Lasts(queue[s])
    <2>4. h \in Seq(Nat) /\ a \in Seq(Nat) /\ b \in Seq(Nat) /\ c \in Seq(Nat)
        BY <2>2, HeardType
    <2>5. h = (a \o b) \o c
        BY DEF Heard
    <2>6. h \in Seq(1..(round - 1))
        BY <2>1 DEF InOrder
    <2> HIDE DEF a, b, c, h
    <2>7. Publish!Range(h) = Members(h)
        BY <2>4, RangesAreMembers
    <2>8. Members(a) \subseteq Members(h)
        BY <2>4, <2>5, MembersOfParts
    <2>9. Members(h) \subseteq 1..(round - 1)
        BY <2>6, ElementOfSeq DEF Members
    <2>10. ASSUME NEW i \in 1..Len(a) PROVE a[i] # Publish!Topic
        <3>1. a[i] \in Members(a)
            BY DEF Members
        <3>2. a[i] \in 1..(round - 1)
            BY <2>8, <2>9, <3>1
        <3> QED BY <3>2, PublishFacts
    <2> QED BY <2>1, <2>3, <2>7, <2>10 DEF a, h
<1>4. Publish!PrintsPayloads
    BY <1>3 DEF Publish!PrintsPayloads
<1>5. Publish!HearsAllButMissed
    BY <1>3, SameOrder DEF Publish!HearsAllButMissed, InOrder, Complete
<1> QED BY <1>2, <1>4, <1>5

LEMMA Parity ==
    ASSUME NEW n \in Nat \ {0}
    PROVE  /\ (n - 1) % 2 = 0 <=> n % 2 = 1
           /\ n % 2 = 0 <=> ~(n % 2 = 1)
           /\ 2 % 2 = 0 /\ 0 % 2 = 0
OBVIOUS

\* A receive reads a frame of the message that the subscriber is in. Outside
\* of one, it is out of step if it takes the frame for a payload.
LEMMA ReadsInStep ==
    ASSUME PublishParts, NEW s \in Subs, Publish!Available(s),
           NEW r \in Subscribers, r.rest = Tail(Publish!Frames(s)),
           r.pc # "topic" <=> sub[s].pc = "topic",
           sub[s].pc = "topic" \/ sub[s].pc = "payload"
    PROVE  \/ Publish!InStep(s) <=> (r.pc = "topic" <=> Len(r.rest) % 2 = 0)
           \/ failed.payload > 0 /\ Len(Publish!Frames(s)) % 2 = 1
<1> DEFINE f == Publish!Frames(s)
<1>1. /\ PublishTypes /\ sub[s] \in Subscribers /\ queue[s] \in Seq(Messages)
      /\ failed.payload \in Nat
    BY DEF PublishParts, PublishTypes
<1>2. sub[s].rest = <<>> => queue[s] # <<>> /\ f = Head(queue[s])
    BY DEF Publish!Available, Publish!Frames
<1>3. sub[s].rest # <<>> => f = sub[s].rest
    BY DEF Publish!Frames
<1>4. f \in Seq(Publish!Frame) /\ f # <<>>
    <2>1. CASE sub[s].rest = <<>>
        <3>1. Head(queue[s]) \in Messages
            BY <1>1, <1>2, <2>1, HeadTailProperties
        <3> QED BY <1>2, <2>1, <3>1 DEF Messages
    <2>2. CASE sub[s].rest # <<>>
        BY <1>1, <1>3, <2>2 DEF Subscribers
    <2> QED BY <2>1, <2>2
<1>5. failed.payload = 0 => Whole(queue[s], sub[s])
    BY DEF PublishParts, MessagesWhole
<1> HIDE DEF f
<1>6. Len(f) \in Nat \ {0} /\ Len(Tail(f)) = Len(f) - 1
    BY <1>4, HeadTailProperties, LenProperties, EmptySeq
<1>7. /\ (Len(f) - 1) % 2 = 0 <=> Len(f) % 2 = 1
      /\ Len(f) % 2 = 0 <=> ~(Len(f) % 2 = 1)
      /\ 2 % 2 = 0 /\ 0 % 2 = 0
    BY <1>6, Parity
<1>8. Len(r.rest) % 2 = 0 <=> Len(f) % 2 = 1
    BY <1>6, <1>7 DEF f
<1>9. CASE sub[s].rest # <<>>
    <2>1. Len(sub[s].rest) % 2 = 0 <=> ~(Len(f) % 2 = 1)
        BY <1>3, <1>7, <1>9
    <2> QED BY <1>8, <2>1 DEF Publish!InStep
<1>10. CASE sub[s].rest = <<>>
    <2>1. Len(sub[s].rest) % 2 = 0
        BY <1>7, <1>10
    <2>2. CASE failed.payload = 0
        <3>1. /\ queue[s] \in Seq(Pairs) /\ queue[s] # <<>> /\ sub[s].pc # "payload"
            BY <1>2, <1>5, <1>10, <2>2 DEF Whole
        <3>2. Head(queue[s]) \in Pairs
            BY <3>1, LastsTaken
        <3>3. Len(f) = 2
            BY <1>2, <1>10, <3>2, PairFacts
        <3>4. ~(Len(f) % 2 = 1)
            BY <1>7, <3>3
        <3> QED BY <1>8, <2>1, <3>1, <3>4 DEF Publish!InStep
    <2>3. CASE failed.payload # 0
        <3>1. failed.payload > 0
            BY <1>1, <2>3
        <3>2. CASE Len(f) % 2 = 1
            BY <3>1, <3>2 DEF f
        <3>3. CASE ~(Len(f) % 2 = 1)
            BY <1>8, <2>1, <3>3 DEF Publish!InStep
        <3> QED BY <3>2, <3>3
    <2> QED BY <2>2, <2>3
<1> QED BY <1>9, <1>10

\* What a step does to the step of a subscriber, and when a timeout expires.
Expires(s) ==
    sub[s].pc = "payload" /\ sub'[s].pc # "payload" /\ sub'[s].printed = sub[s].printed
StepKept(s) == Publish!InStep(s) <=> (sub'[s].pc = "topic" <=> Len(sub'[s].rest) % 2 = 0)
OddRead(s) == failed.payload > 0 /\ Len(Publish!Frames(s)) % 2 = 1

LEMMA SubStepInStep ==
    ASSUME PublishParts, NEW s \in Subs,
           Publish!RecvTopic(s) \/ Publish!RecvPayload(s) \/ Publish!RecvExpires(s)
    PROVE  /\ Expires(s) => failed.payload > 0
           /\ script = "quotes" => StepKept(s) \/ OddRead(s)
<1>1. /\ PublishTypes /\ sub[s] \in Subscribers /\ failed.payload \in Nat
    BY DEF PublishParts, PublishTypes
<1>2. /\ Publish!RecvTopic(s) => sub'[s] = Topical(s) /\ Topical(s) \in Subscribers
      /\ Publish!RecvPayload(s) => /\ sub'[s] = Publish!AfterRound(s, Printing(s))
                                   /\ Printing(s) \in Subscribers
      /\ Publish!RecvExpires(s) => sub'[s] = Publish!AfterRound(s, sub[s])
    BY <1>1, SubStepResult
<1>3. CASE Publish!RecvTopic(s)
    <2>1. sub[s].pc = "topic" /\ Publish!Available(s)
        BY <1>3 DEF Publish!RecvTopic
    <2>2. /\ sub'[s] \in Subscribers /\ sub'[s].pc = "payload"
          /\ sub'[s].rest = Tail(Publish!Frames(s))
        BY <1>1, <1>2, <1>3 DEF Topical, Subscribers
    <2>3. StepKept(s) \/ OddRead(s)
        BY <2>1, <2>2, ReadsInStep DEF StepKept, OddRead
    <2> QED BY <2>1, <2>3 DEF Expires
<1>4. CASE Publish!RecvPayload(s)
    <2>1. sub[s].pc = "payload" /\ Publish!Available(s) /\ Publish!TakeFrame(s)
        BY <1>4 DEF Publish!RecvPayload
    <2>2. /\ sub'[s] = Publish!AfterRound(s, Printing(s)) /\ Printing(s) \in Subscribers
          /\ Printing(s).rest = Tail(Publish!Frames(s))
          /\ Printing(s).printed = Append(sub[s].printed, Head(Publish!Frames(s)))
        BY <1>1, <1>2, <1>4 DEF Printing, Subscribers
    <2>3. /\ sub'[s] \in Subscribers /\ sub'[s].rest = Tail(Publish!Frames(s))
          /\ sub'[s].printed = Append(sub[s].printed, Head(Publish!Frames(s)))
          /\ script = "quotes" => sub'[s].pc = "topic"
        BY <2>2, AfterRoundResult
    <2>4. sub'[s].printed # sub[s].printed
        <3>1. sub[s].printed \in Seq(Publish!Frame)
            BY <1>1 DEF Subscribers
        <3>2. Head(Publish!Frames(s)) \in Publish!Frame
            BY <1>1, <2>1, FrameTaken
        <3>3. /\ Len(Append(sub[s].printed, Head(Publish!Frames(s))))
                    = Len(sub[s].printed) + 1
              /\ Len(sub[s].printed) \in Nat
            BY <3>1, <3>2, AppendProperties, LenProperties
        <3>4. Len(sub'[s].printed) # Len(sub[s].printed)
            BY <2>3, <3>3
        <3> QED BY <3>4
    <2>5. script = "quotes" => StepKept(s) \/ OddRead(s)
        BY <2>1, <2>3, ReadsInStep DEF StepKept, OddRead
    <2> QED BY <2>4, <2>5 DEF Expires
<1>5. CASE Publish!RecvExpires(s)
    <2>1. script = "weather" /\ ~Publish!Available(s)
        BY <1>5 DEF Publish!RecvExpires
    <2>2. sub[s].rest = <<>>
        BY <2>1 DEF Publish!Available
    <2>3. failed.payload = 0 => sub[s].pc # "payload"
        BY <2>2 DEF PublishParts, MessagesWhole, Whole
    <2>4. Expires(s) => failed.payload > 0
        BY <1>1, <2>3 DEF Expires
    <2> QED BY <2>1, <2>4
<1> QED BY <1>3, <1>4, <1>5

LEMMA StepsInStep ==
    ASSUME PublishInv, [Next]_vars, NEW s \in Subs
    PROVE  /\ Expires(s) => failed.payload > 0
           /\ script = "quotes" => StepKept(s) \/ OddRead(s)
<1>1. CASE Publishes /\ Publish!Next
    <2>1. PublishParts
        BY <1>1 DEF PublishInv
    <2>2. PublishTypes
        BY <2>1 DEF PublishParts
    <2>3. CASE Pauses
        <3>1. sub' = sub
            BY <2>2, <2>3, PauseResult
        <3> QED BY <3>1 DEF Expires, StepKept, Publish!InStep
    <2>4. CASE Publish!SendPayload
        <3>1. \/ sub'[s] = sub[s]
              \/ sub'[s] = [sub[s] EXCEPT !.missed = @ \cup {round}]
            BY <2>2, <2>4, SendPayloadResult
        <3>2. sub[s] \in Subscribers
            BY <2>2 DEF PublishTypes
        <3>3. sub'[s].pc = sub[s].pc /\ sub'[s].rest = sub[s].rest
            BY <3>1, <3>2 DEF Subscribers
        <3> QED BY <3>3 DEF Expires, StepKept, Publish!InStep
    <2>5. ASSUME NEW t \in Subs,
                 Publish!RecvTopic(t) \/ Publish!RecvPayload(t) \/ Publish!RecvExpires(t)
          PROVE  /\ Expires(s) => failed.payload > 0
                 /\ script = "quotes" => StepKept(s) \/ OddRead(s)
        <3>1. CASE t = s
            BY <2>1, <2>5, <3>1, SubStepInStep
        <3>2. CASE t # s
            <4>1. sub'[s] = sub[s]
                BY <2>2, <2>5, <3>2, SubStepResult
            <4> QED BY <4>1 DEF Expires, StepKept, Publish!InStep
        <3> QED BY <3>1, <3>2
    <2> QED BY <1>1, <2>3, <2>4, <2>5 DEF Publish!Next, Pauses
<1>2. CASE UNCHANGED sub
    BY <1>2 DEF Expires, StepKept, Publish!InStep
<1>3. CASE (Pipelines /\ Pipeline!Next /\ UNCHANGED publish) \/ UNCHANGED vars
    BY <1>2, <1>3 DEF publish, vars
<1> QED BY <1>1, <1>3 DEF Next

-----------------------------------------------------------------------------
(* The theorems of both.                                                   *)

IInv == PipelineInv /\ PublishInv

\* The inductive invariant: where each message and each job can be, what a
\* subscriber can be in the middle of, and how far each script has come.
THEOREM Invariance == Spec => []IInv
<1>1. Init => IInv
    BY InitPipelineInv, InitPublishInv DEF IInv
<1>2. IInv /\ [Next]_vars => IInv'
    BY StepPipelineInv, StepPublishInv DEF IInv
<1> QED BY <1>1, <1>2, PTL DEF Spec

\* Every variable keeps its type, whichever of the scripts runs.
THEOREM TypeCorrect == Spec => []TypeOK
<1>1. IInv => TypeOK
    BY PipelineImplies, PublishImplies DEF IInv, PipelineInv, PublishInv, TypeOK
<1> QED BY <1>1, Invariance, PTL

\* Until the send of a payload fails, a subscriber prints payloads only, and
\* hears each one once and in order but for those that it has missed, whoever
\* joins late, falls behind or is restarted, and whichever topics fail.
THEOREM HearsAlwaysAllButMissed == Spec => []HearsAllButMissed
<1>1. IInv => HearsAllButMissed
    BY PublishImplies DEF IInv, PublishInv, HearsAllButMissed
<1> QED BY <1>1, Invariance, PTL

\* Only a failed payload brings the two receives of a subscriber out of step
\* with the frames, and only after one can a timeout expire inside a message.
THEOREM StepChangesOnlyByFailure == Spec => OnlyFailureChangesStep
<1> DEFINE A == \A s \in Subs : Expires(s) => failed.payload > 0
           B == \A s \in Subs : script = "quotes"
                                   /\ (Publish!InStep(s) # Publish!InStep(s)')
                                => OddRead(s)
<1>1. IInv /\ [Next]_vars => A
    BY StepsInStep DEF IInv
<1>2. IInv /\ [Next]_vars => B
    <2> SUFFICES ASSUME PublishInv, [Next]_vars, NEW s \in Subs, script = "quotes",
                        Publish!InStep(s) # Publish!InStep(s)'
                 PROVE  OddRead(s)
        BY DEF IInv
    <2>1. StepKept(s) \/ OddRead(s)
        BY StepsInStep
    <2>2. Publish!InStep(s)' <=> (sub'[s].pc = "topic" <=> Len(sub'[s].rest) % 2 = 0)
        BY DEF Publish!InStep
    <2>3. ASSUME StepKept(s) PROVE Publish!InStep(s) = Publish!InStep(s)'
        <3>1. Publish!InStep(s) <=> Publish!InStep(s)'
            BY <2>2, <2>3 DEF StepKept
        <3> QED BY <3>1, Zenon DEF Publish!InStep
    <2> QED BY <2>1, <2>3
<1>3. IInv /\ [Next]_vars => [A /\ B]_Publish!vars
    BY <1>1, <1>2
<1>4. Spec => [][A /\ B]_Publish!vars
    BY <1>3, Invariance, PTL DEF Spec
<1>5. [A /\ B]_Publish!vars =>
          /\ [\A s \in Subs :
                 /\ sub[s].pc = "payload" /\ sub'[s].pc # "payload"
                 /\ sub'[s].printed = sub[s].printed
                 => failed.payload > 0]_Publish!vars
          /\ [\A s \in Subs :
                 script = "quotes" /\ (Publish!InStep(s) # Publish!InStep(s)')
                 => failed.payload > 0 /\ Len(Publish!Frames(s)) % 2 = 1]_Publish!vars
    BY DEF Expires, OddRead
<1> QED
    BY <1>4, <1>5, PTL DEF OnlyFailureChangesStep, Publish!ExpiresBetweenMessages,
                           Publish!QuotesChangeStepOnlyByFailure

=============================================================================
