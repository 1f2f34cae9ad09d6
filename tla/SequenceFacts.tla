---------------------------- MODULE SequenceFacts ----------------------------
(***************************************************************************)
(* What appending to a queue, taking its first element and removing one    *)
(* in the middle do to its elements: the facts that the proofs about the   *)
(* queues of the program's locks rest on.                                  *)
(***************************************************************************)
EXTENDS Integers, Sequences, SequencesExt, SequenceTheorems, TLAPS

\* What Append leaves alone and what it adds.
LEMMA AppendFacts ==
    ASSUME NEW S, NEW s \in Seq(S), NEW e \in S
    PROVE  /\ Append(s, e) \in Seq(S)
           /\ Len(Append(s, e)) = Len(s) + 1
           /\ \A i \in 1..Len(s) : Append(s, e)[i] = s[i]
           /\ Append(s, e)[Len(s) + 1] = e
  OBVIOUS

\* Tail drops the first element and moves the others up.
LEMMA TailFacts ==
    ASSUME NEW S, NEW s \in Seq(S), s # << >>
    PROVE  /\ Tail(s) \in Seq(S)
           /\ Len(s) \in Nat \ {0}
           /\ Len(Tail(s)) = Len(s) - 1
           /\ \A i \in 1..Len(Tail(s)) : Tail(s)[i] = s[i + 1]
           /\ Head(s) = s[1]
           /\ s[1] \in S
  OBVIOUS

\* RemoveAt keeps what comes before the index and moves the rest up.
LEMMA RemoveAtFacts ==
    ASSUME NEW S, NEW s \in Seq(S), NEW n \in 1..Len(s)
    PROVE  /\ RemoveAt(s, n) \in Seq(S)
           /\ Len(RemoveAt(s, n)) = Len(s) - 1
           /\ \A i \in 1..Len(s) - 1 :
                RemoveAt(s, n)[i] = IF i < n THEN s[i] ELSE s[i + 1]
  <1> DEFINE a == SubSeq(s, 1, n - 1)
             b == SubSeq(s, n + 1, Len(s))
  <1>1. /\ a \in Seq(S)
        /\ Len(a) = n - 1
        /\ \A i \in 1..n - 1 : a[i] = s[i]
    OBVIOUS
  <1>2. /\ b \in Seq(S)
        /\ Len(b) = Len(s) - n
        /\ \A i \in 1..Len(s) - n : b[i] = s[n + i]
    OBVIOUS
  <1>3. RemoveAt(s, n) = a \o b
    BY DEF RemoveAt
  <1>4. Len(s) \in Nat /\ n \in Nat /\ n >= 1 /\ n <= Len(s)
    OBVIOUS
  <1> HIDE DEF a, b
  <1>5. /\ a \o b \in Seq(S)
        /\ Len(a \o b) = Len(s) - 1
        /\ \A i \in 1..Len(s) - 1 :
            (a \o b)[i] = IF i <= n - 1 THEN a[i] ELSE b[i - (n - 1)]
    <2>1. Len(a) + Len(b) = Len(s) - 1
      BY <1>1, <1>2, <1>4
    <2>2. /\ a \o b \in Seq(S)
          /\ Len(a \o b) = Len(a) + Len(b)
          /\ \A i \in 1..Len(a) + Len(b) :
                (a \o b)[i] = IF i <= Len(a) THEN a[i] ELSE b[i - Len(a)]
      BY <1>1, <1>2, ConcatProperties
    <2> QED BY <1>1, <2>1, <2>2
  <1>6. ASSUME NEW i \in 1..Len(s) - 1
        PROVE  (a \o b)[i] = IF i < n THEN s[i] ELSE s[i + 1]
    <2>1. CASE i < n
      BY <1>1, <1>4, <1>5, <2>1
    <2>2. CASE i >= n
      <3>1. i - (n - 1) \in 1..Len(s) - n /\ n + (i - (n - 1)) = i + 1
        BY <1>4, <2>2
      <3>2. (a \o b)[i] = b[i - (n - 1)]
        BY <1>4, <1>5, <2>2
      <3>3. b[i - (n - 1)] = s[i + 1]
        BY <1>2, <3>1
      <3> QED BY <1>4, <2>2, <3>2, <3>3
    <2>3. i < n \/ i >= n
      BY <1>4
    <2> QED BY <2>1, <2>2, <2>3
  <1> QED BY <1>3, <1>5, <1>6

\* The first of a queue is removed by taking the rest.
LEMMA FirstLeaves ==
    ASSUME NEW S, NEW q \in Seq(S), q # << >>
    PROVE  RemoveAt(q, 1) = Tail(q)
  <1>1. /\ Tail(q) \in Seq(S)
        /\ Len(q) \in Nat \ {0}
        /\ Len(Tail(q)) = Len(q) - 1
        /\ \A i \in 1..Len(Tail(q)) : Tail(q)[i] = q[i + 1]
    BY TailFacts
  <1>2. 1 \in 1..Len(q)
    BY <1>1
  <1>3. /\ RemoveAt(q, 1) \in Seq(S)
        /\ Len(RemoveAt(q, 1)) = Len(q) - 1
        /\ \A i \in 1..Len(q) - 1 : RemoveAt(q, 1)[i] = IF i < 1 THEN q[i] ELSE q[i + 1]
    BY <1>2, RemoveAtFacts
  <1>4. ASSUME NEW a, NEW b, a = RemoveAt(q, 1), b = Tail(q)
        PROVE  a = b
    <2>1. a \in Seq(S) /\ b \in Seq(S) /\ Len(a) = Len(b)
      BY <1>1, <1>3, <1>4
    <2>2. \A i \in 1..Len(a) : a[i] = b[i]
      BY <1>1, <1>3, <1>4
    <2> QED BY <2>1, <2>2, SeqEqual
  <1> QED BY <1>4

\* The elements of a sequence, when one is appended or the first is taken.
LEMMA ToSetFacts ==
    ASSUME NEW S, NEW s \in Seq(S)
    PROVE  /\ \A i \in 1..Len(s) : s[i] \in ToSet(s)
           /\ \A e \in S : ToSet(Append(s, e)) = ToSet(s) \cup {e}
           /\ s # << >> => ToSet(Tail(s)) \subseteq ToSet(s) /\ Head(s) \in ToSet(s)
           /\ ToSet(<< >>) = {}
  <1>1. \A i \in 1..Len(s) : s[i] \in ToSet(s)
    BY DEF ToSet
  <1>2. ASSUME NEW e \in S PROVE ToSet(Append(s, e)) = ToSet(s) \cup {e}
    <2>1. /\ DOMAIN Append(s, e) = 1..Len(s) + 1
          /\ DOMAIN s = 1..Len(s)
          /\ Len(s) \in Nat
          /\ \A i \in 1..Len(s) : Append(s, e)[i] = s[i]
          /\ Append(s, e)[Len(s) + 1] = e
      BY AppendFacts
    <2>2. \A i \in 1..Len(s) + 1 : i \in 1..Len(s) \/ i = Len(s) + 1
      BY <2>1
    <2>3. ASSUME NEW x \in ToSet(Append(s, e)) PROVE x \in ToSet(s) \cup {e}
      BY <2>1, <2>2, <2>3 DEF ToSet
    <2>4. ASSUME NEW x \in ToSet(s) PROVE x \in ToSet(Append(s, e))
      <3>1. PICK i \in 1..Len(s) : x = s[i]
        BY <2>1, <2>4 DEF ToSet
      <3>2. i \in 1..Len(s) + 1
        BY <2>1
      <3> QED BY <2>1, <3>1, <3>2 DEF ToSet
    <2>5. e \in ToSet(Append(s, e))
      <3>1. Len(s) + 1 \in 1..Len(s) + 1
        BY <2>1
      <3> QED BY <2>1, <3>1 DEF ToSet
    <2> QED BY <2>3, <2>4, <2>5
  <1>3. ASSUME s # << >> PROVE ToSet(Tail(s)) \subseteq ToSet(s) /\ Head(s) \in ToSet(s)
    <2>1. /\ Len(s) \in Nat \ {0}
          /\ Tail(s) \in Seq(S)
          /\ Len(Tail(s)) = Len(s) - 1
          /\ \A i \in 1..Len(Tail(s)) : Tail(s)[i] = s[i + 1]
          /\ Head(s) = s[1]
      BY <1>3, TailFacts
    <2>2. \A i \in 1..Len(Tail(s)) : i + 1 \in 1..Len(s)
      BY <2>1
    <2>3. DOMAIN Tail(s) = 1..Len(Tail(s))
      BY <2>1
    <2>4. ASSUME NEW x \in ToSet(Tail(s)) PROVE x \in ToSet(s)
      <3>1. PICK i \in 1..Len(Tail(s)) : x = Tail(s)[i]
        BY <2>3, <2>4 DEF ToSet
      <3> QED BY <1>1, <2>1, <2>2, <3>1
    <2> QED BY <1>1, <2>1, <2>4
  <1>4. ToSet(<< >>) = {}
    BY DEF ToSet
  <1> QED BY <1>1, <1>2, <1>3, <1>4

\* A prefix and what is left after it consist of elements of the sequence.
LEMMA CutFacts ==
    ASSUME NEW S, NEW s \in Seq(S), NEW n \in 0..Len(s)
    PROVE  /\ SubSeq(s, 1, n) \in Seq(S)
           /\ Len(SubSeq(s, 1, n)) = n
           /\ ToSet(SubSeq(s, 1, n)) \subseteq ToSet(s)
           /\ SubSeq(s, n + 1, Len(s)) \in Seq(S)
           /\ ToSet(SubSeq(s, n + 1, Len(s))) \subseteq ToSet(s)
  <1> DEFINE a == SubSeq(s, 1, n)
             b == SubSeq(s, n + 1, Len(s))
  <1>1. /\ a \in Seq(S)
        /\ Len(a) = n
        /\ \A i \in 1..n : a[i] = s[i]
    OBVIOUS
  <1>2. /\ b \in Seq(S)
        /\ Len(b) = Len(s) - n
        /\ \A i \in 1..Len(s) - n : b[i] = s[n + i]
    OBVIOUS
  <1>3. Len(s) \in Nat /\ n \in Nat /\ n <= Len(s)
    OBVIOUS
  <1> HIDE DEF a, b
  <1>4. DOMAIN a = 1..n /\ DOMAIN b = 1..Len(s) - n
    BY <1>1, <1>2
  <1>5. ASSUME NEW x \in ToSet(a) PROVE x \in ToSet(s)
    <2>1. PICK i \in 1..n : x = a[i]
      BY <1>4, <1>5 DEF ToSet
    <2>2. i \in 1..Len(s)
      BY <1>3
    <2> QED BY <1>1, <2>1, <2>2, ToSetFacts
  <1>6. ASSUME NEW x \in ToSet(b) PROVE x \in ToSet(s)
    <2>1. PICK i \in 1..Len(s) - n : x = b[i]
      BY <1>4, <1>6 DEF ToSet
    <2>2. n + i \in 1..Len(s)
      BY <1>3
    <2> QED BY <1>2, <2>1, <2>2, ToSetFacts
  <1> QED BY <1>1, <1>2, <1>5, <1>6 DEF a, b

\* The empty sequence and one of a single element.
LEMMA ShortSequences ==
    /\ \A S : << >> \in Seq(S)
    /\ ToSet(<< >>) = {}
    /\ \A S : \A e \in S : <<e>> \in Seq(S)
    /\ \A e : ToSet(<<e>>) = {e}
  <1>1. \A S : << >> \in Seq(S)
    OBVIOUS
  <1>2. ToSet(<< >>) = {}
    BY DEF ToSet
  <1>3. \A S : \A e \in S : <<e>> \in Seq(S)
    OBVIOUS
  <1>4. \A e : ToSet(<<e>>) = {e}
    BY DEF ToSet
  <1> QED BY <1>1, <1>2, <1>3, <1>4

-----------------------------------------------------------------------------
(* Sequences whose elements are all different. *)

\* They stay different when one that is new is appended, and when the first
\* is taken, which is not among the others then.
LEMMA DifferentFacts ==
    ASSUME NEW S, NEW s \in Seq(S), IsInjective(s)
    PROVE  /\ \A e \in S : e \notin ToSet(s) => IsInjective(Append(s, e))
           /\ s # << >> => IsInjective(Tail(s)) /\ Head(s) \notin ToSet(Tail(s))
  <1>0. Len(s) \in Nat /\ DOMAIN s = 1..Len(s)
    OBVIOUS
  <1>1. ASSUME NEW e \in S, e \notin ToSet(s) PROVE IsInjective(Append(s, e))
    <2> DEFINE r == Append(s, e)
    <2>1. /\ r \in Seq(S)
          /\ Len(r) = Len(s) + 1
          /\ \A i \in 1..Len(s) : r[i] = s[i]
          /\ r[Len(s) + 1] = e
      BY AppendFacts
    <2>2. DOMAIN r = 1..Len(s) + 1
      BY <2>1
    <2> HIDE DEF r
    <2>3. \A i \in 1..Len(s) : s[i] # e
      BY <1>0, <1>1 DEF ToSet
    <2>4. \A i \in 1..Len(s) + 1 : i \in 1..Len(s) \/ i = Len(s) + 1
      BY <1>0
    <2>5. IsInjective(r)
      BY <1>0, <2>1, <2>2, <2>3, <2>4 DEF IsInjective
    <2> QED BY <2>5 DEF r
  <1>2. ASSUME s # << >> PROVE IsInjective(Tail(s)) /\ Head(s) \notin ToSet(Tail(s))
    <2> DEFINE r == Tail(s)
    <2>1. /\ r \in Seq(S)
          /\ Len(s) \in Nat \ {0}
          /\ Len(r) = Len(s) - 1
          /\ \A i \in 1..Len(s) - 1 : r[i] = s[i + 1]
          /\ Head(s) = s[1]
      BY <1>2, TailFacts
    <2>2. DOMAIN r = 1..Len(s) - 1
      BY <2>1
    <2> HIDE DEF r
    <2>3. \A i \in 1..Len(s) - 1 : i + 1 \in 1..Len(s) /\ i + 1 # 1
      BY <1>0
    <2>4. 1 \in 1..Len(s)
      BY <2>1
    <2>5. ASSUME NEW i \in 1..Len(s) - 1, NEW j \in 1..Len(s) - 1, r[i] = r[j]
          PROVE  i = j
      <3>1. s[i + 1] = s[j + 1] /\ i + 1 \in DOMAIN s /\ j + 1 \in DOMAIN s
        BY <1>0, <2>1, <2>3, <2>5
      <3>2. i + 1 = j + 1
        BY <3>1, Zenon DEF IsInjective
      <3> QED BY <3>2
    <2>6. ASSUME NEW i \in 1..Len(s) - 1 PROVE r[i] # s[1]
      BY <1>0, <2>1, <2>3, <2>4 DEF IsInjective
    <2>7. IsInjective(r)
      BY <2>2, <2>5 DEF IsInjective
    <2>8. s[1] \notin ToSet(r)
      BY <2>2, <2>6 DEF ToSet
    <2> QED BY <2>1, <2>7, <2>8 DEF r
  <1> QED BY <1>1, <1>2

\* They stay different in a prefix and in what is left after it, and no
\* element is in both.
LEMMA DifferentCuts ==
    ASSUME NEW S, NEW s \in Seq(S), IsInjective(s), NEW n \in 0..Len(s)
    PROVE  /\ IsInjective(SubSeq(s, 1, n))
           /\ IsInjective(SubSeq(s, n + 1, Len(s)))
           /\ \A k \in 1..n : s[k] \notin ToSet(SubSeq(s, n + 1, Len(s)))
  <1> DEFINE a == SubSeq(s, 1, n)
             b == SubSeq(s, n + 1, Len(s))
  <1>1. /\ a \in Seq(S)
        /\ Len(a) = n
        /\ \A i \in 1..n : a[i] = s[i]
    OBVIOUS
  <1>2. /\ b \in Seq(S)
        /\ Len(b) = Len(s) - n
        /\ \A i \in 1..Len(s) - n : b[i] = s[n + i]
    OBVIOUS
  <1>3. Len(s) \in Nat /\ n \in Nat /\ n <= Len(s) /\ DOMAIN s = 1..Len(s)
    OBVIOUS
  <1>4. DOMAIN a = 1..n /\ DOMAIN b = 1..Len(s) - n
    BY <1>1, <1>2
  <1> HIDE DEF a, b
  <1>5. \A i \in 1..Len(s) - n : n + i \in 1..Len(s) /\ n + i \notin 1..n
    BY <1>3
  <1>6. \A i \in 1..n : i \in 1..Len(s)
    BY <1>3
  <1>7. IsInjective(a)
    BY <1>1, <1>3, <1>4, <1>6 DEF IsInjective
  <1>8. IsInjective(b)
    <2>1. ASSUME NEW i \in 1..Len(s) - n, NEW j \in 1..Len(s) - n, b[i] = b[j]
          PROVE  i = j
      <3>1. n + i = n + j
        BY <1>2, <1>3, <1>5, <2>1 DEF IsInjective
      <3> QED BY <1>3, <3>1
    <2> QED BY <1>4, <2>1 DEF IsInjective
  <1>9. ASSUME NEW k \in 1..n PROVE s[k] \notin ToSet(b)
    <2>1. ASSUME NEW i \in 1..Len(s) - n PROVE b[i] # s[k]
      BY <1>2, <1>3, <1>5, <1>6 DEF IsInjective
    <2> QED BY <1>4, <2>1 DEF ToSet
  <1> QED BY <1>7, <1>8, <1>9 DEF a, b

\* At most one element is different from all others.
LEMMA DifferentShort == IsInjective(<< >>) /\ \A e : IsInjective(<<e>>)
  BY DEF IsInjective

-----------------------------------------------------------------------------
(* Sequences that show a queue through a function of its elements. *)

Mapped(q, f) == [i \in 1..Len(q) |-> f[q[i]]]

Shows(S, f) == {f[e] : e \in S}

\* What is shown is as long as the queue.
LEMMA MappedFacts ==
    ASSUME NEW S, NEW q \in Seq(S), NEW f
    PROVE  /\ Mapped(q, f) \in Seq(Shows(S, f))
           /\ Len(Mapped(q, f)) = Len(q)
           /\ \A i \in 1..Len(q) : Mapped(q, f)[i] = f[q[i]]
  <1>1. Len(q) \in Nat /\ \A i \in 1..Len(q) : q[i] \in S
    OBVIOUS
  <1>2. Mapped(q, f) \in [1..Len(q) -> Shows(S, f)]
    BY <1>1 DEF Mapped, Shows
  <1>3. Mapped(q, f) \in Seq(Shows(S, f))
    BY <1>1, <1>2, SeqDef
  <1>4. Len(Mapped(q, f)) = Len(q)
    BY <1>1, <1>2, <1>3, LenProperties
  <1> QED BY <1>1, <1>3, <1>4 DEF Mapped

\* What is shown has the type of what each element shows.
LEMMA MappedType ==
    ASSUME NEW S, NEW T, NEW q \in Seq(S), NEW f, \A e \in S : f[e] \in T
    PROVE  Mapped(q, f) \in Seq(T)
  <1>1. Len(q) \in Nat /\ \A i \in 1..Len(q) : q[i] \in S
    OBVIOUS
  <1>2. Mapped(q, f) \in [1..Len(q) -> T]
    BY <1>1 DEF Mapped
  <1> QED BY <1>1, <1>2, SeqDef

\* Who joins the queue is shown behind the others.
LEMMA MappedAppend ==
    ASSUME NEW S, NEW q \in Seq(S), NEW e \in S, NEW f
    PROVE  Mapped(Append(q, e), f) = Append(Mapped(q, f), f[e])
  <1> DEFINE r == Append(q, e)
             a == Mapped(r, f)
             b == Mapped(q, f)
             o == f[e]
             c == Append(b, o)
             T == Shows(S, f)
  <1> HIDE DEF T
  <1>1. /\ r \in Seq(S)
        /\ Len(q) \in Nat
        /\ Len(r) = Len(q) + 1
        /\ \A i \in 1..Len(q) : r[i] = q[i]
        /\ r[Len(q) + 1] = e
    BY AppendFacts
  <1> HIDE DEF r
  <1>2. /\ a \in Seq(T)
        /\ Len(a) = Len(q) + 1
        /\ \A i \in 1..Len(q) + 1 : a[i] = f[r[i]]
    BY <1>1, MappedFacts DEF T
  <1>3. /\ b \in Seq(T)
        /\ Len(b) = Len(q)
        /\ \A i \in 1..Len(q) : b[i] = f[q[i]]
    BY MappedFacts DEF T
  <1>4. o \in T
    BY DEF T, Shows
  <1> HIDE DEF a, b
  <1>5. /\ c \in Seq(T)
        /\ Len(c) = Len(q) + 1
        /\ \A i \in 1..Len(q) : c[i] = b[i]
        /\ c[Len(q) + 1] = o
    BY <1>3, <1>4, AppendFacts
  <1> HIDE DEF c
  <1>6. ASSUME NEW i \in 1..Len(q) + 1 PROVE a[i] = c[i]
    <2>1. CASE i \in 1..Len(q)
      BY <1>1, <1>2, <1>3, <1>5, <2>1
    <2>2. CASE i = Len(q) + 1
      BY <1>1, <1>2, <1>5, <2>2
    <2>3. i \in 1..Len(q) \/ i = Len(q) + 1
      BY <1>1
    <2> QED BY <2>1, <2>2, <2>3
  <1>7. a = c
    BY <1>2, <1>5, <1>6, SeqEqual
  <1> QED BY <1>7 DEF a, b, c, r

\* Who leaves the queue is shown no longer.
LEMMA MappedRemoveAt ==
    ASSUME NEW S, NEW q \in Seq(S), NEW n \in 1..Len(q), NEW f
    PROVE  Mapped(RemoveAt(q, n), f) = RemoveAt(Mapped(q, f), n)
  <1> DEFINE r == RemoveAt(q, n)
             a == Mapped(r, f)
             b == Mapped(q, f)
             c == RemoveAt(b, n)
             T == Shows(S, f)
  <1>0. Len(q) \in Nat
    OBVIOUS
  <1> HIDE DEF T
  <1>1. /\ r \in Seq(S)
        /\ Len(r) = Len(q) - 1
        /\ \A i \in 1..Len(q) - 1 : r[i] = IF i < n THEN q[i] ELSE q[i + 1]
    BY RemoveAtFacts
  <1> HIDE DEF r
  <1>2. /\ a \in Seq(T)
        /\ Len(a) = Len(q) - 1
        /\ \A i \in 1..Len(q) - 1 : a[i] = f[r[i]]
    BY <1>1, MappedFacts DEF T
  <1>3. /\ b \in Seq(T)
        /\ Len(b) = Len(q)
        /\ \A i \in 1..Len(q) : b[i] = f[q[i]]
    BY MappedFacts DEF T
  <1> HIDE DEF a, b
  <1>4. /\ c \in Seq(T)
        /\ Len(c) = Len(q) - 1
        /\ \A i \in 1..Len(q) - 1 : c[i] = IF i < n THEN b[i] ELSE b[i + 1]
    <2>1. b \in Seq(T) /\ n \in 1..Len(b) /\ Len(b) = Len(q)
      BY <1>3
    <2>2. /\ c \in Seq(T)
          /\ Len(c) = Len(b) - 1
          /\ \A i \in 1..Len(b) - 1 : c[i] = IF i < n THEN b[i] ELSE b[i + 1]
      BY <2>1, RemoveAtFacts
    <2> QED BY <2>1, <2>2
  <1> HIDE DEF c
  <1>5. ASSUME NEW i \in 1..Len(q) - 1 PROVE a[i] = c[i]
    <2>1. CASE i < n
      <3>1. i \in 1..Len(q)
        BY <1>0
      <3> QED BY <1>1, <1>2, <1>3, <1>4, <2>1, <3>1
    <2>2. CASE ~(i < n)
      <3>1. i + 1 \in 1..Len(q)
        BY <1>0
      <3>2. r[i] = q[i + 1] /\ c[i] = b[i + 1]
        BY <1>1, <1>4, <2>2
      <3>3. b[i + 1] = f[q[i + 1]]
        BY <1>3, <3>1
      <3> QED BY <1>2, <3>2, <3>3
    <2> QED BY <2>1, <2>2
  <1>6. a = c
    BY <1>2, <1>4, <1>5, SeqEqual
  <1> QED BY <1>6 DEF a, b, c, r

=============================================================================
