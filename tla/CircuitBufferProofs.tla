------------------------- MODULE CircuitBufferProofs -------------------------
(***************************************************************************)
(* Theorems about the sample buffer, for any samples, queue and batch      *)
(* sizes and any number of database errors: a sample counts once unless    *)
(* its batch was committed in doubt, and the buffer implements SampleLog.  *)
(***************************************************************************)
EXTENDS CircuitBuffer, SequenceTheorems, FiniteSetTheorems, TLAPS

-----------------------------------------------------------------------------
(* Sequences as sets                                                       *)

LEMMA SetOfConcat ==
  ASSUME NEW S, NEW a \in Seq(S), NEW b \in Seq(S)
  PROVE  ToSet(a \o b) = ToSet(a) \cup ToSet(b)
<1>1. /\ DOMAIN a = 1..Len(a) /\ DOMAIN b = 1..Len(b)
      /\ Len(a) \in Nat /\ Len(b) \in Nat
  BY LenProperties
<1>2. /\ a \o b \in Seq(S)
      /\ DOMAIN (a \o b) = 1..(Len(a) + Len(b))
      /\ \A i \in 1..(Len(a) + Len(b)) :
            (a \o b)[i] = IF i <= Len(a) THEN a[i] ELSE b[i - Len(a)]
  BY ConcatProperties, LenProperties
<1>3. ToSet(a \o b) \subseteq ToSet(a) \cup ToSet(b)
  <2> SUFFICES ASSUME NEW i \in 1..(Len(a) + Len(b))
               PROVE  (a \o b)[i] \in ToSet(a) \cup ToSet(b)
    BY <1>2 DEF ToSet
  <2>1. i <= Len(a) => i \in 1..Len(a)  BY <1>1
  <2>2. ~(i <= Len(a)) => i - Len(a) \in 1..Len(b)  BY <1>1
  <2> QED  BY <1>1, <1>2, <2>1, <2>2 DEF ToSet
<1>4. ToSet(a) \subseteq ToSet(a \o b)
  <2> SUFFICES ASSUME NEW i \in 1..Len(a)  PROVE  a[i] \in ToSet(a \o b)
    BY <1>1 DEF ToSet
  <2>1. i \in 1..(Len(a) + Len(b)) /\ (a \o b)[i] = a[i]  BY <1>1, <1>2
  <2> QED  BY <1>2, <2>1 DEF ToSet
<1>5. ToSet(b) \subseteq ToSet(a \o b)
  <2> SUFFICES ASSUME NEW i \in 1..Len(b)  PROVE  b[i] \in ToSet(a \o b)
    BY <1>1 DEF ToSet
  <2>1. /\ Len(a) + i \in 1..(Len(a) + Len(b)) /\ ~(Len(a) + i <= Len(a))
        /\ (Len(a) + i) - Len(a) = i
    BY <1>1
  <2>2. (a \o b)[Len(a) + i] = b[i]  BY <1>2, <2>1
  <2> QED  BY <1>2, <2>1, <2>2 DEF ToSet
<1> QED  BY <1>3, <1>4, <1>5

LEMMA SetOfOne ==
  ASSUME NEW x  PROVE  ToSet(<<x>>) = {x} /\ IsInjective(<<x>>)
<1>1. DOMAIN <<x>> = {1} /\ <<x>>[1] = x  OBVIOUS
<1> QED  BY <1>1 DEF ToSet, IsInjective

LEMMA SetOfNone ==
  ToSet(<<>>) = {} /\ IsInjective(<<>>)
<1>1. DOMAIN <<>> = {}  OBVIOUS
<1> QED  BY <1>1 DEF ToSet, IsInjective

LEMMA SetIsOf ==
  ASSUME NEW S, NEW a \in Seq(S)  PROVE  ToSet(a) \subseteq S
BY LenProperties, ElementOfSeq DEF ToSet

\* A sequence of different elements stays one when its head leaves, and the
\* head is not among the rest.
LEMMA SetOfTail ==
  ASSUME NEW S, NEW a \in Seq(S), a # <<>>
  PROVE  /\ Head(a) \in S /\ Tail(a) \in Seq(S) /\ Len(Tail(a)) = Len(a) - 1
         /\ ToSet(a) = {Head(a)} \cup ToSet(Tail(a))
         /\ IsInjective(a) => IsInjective(Tail(a)) /\ Head(a) \notin ToSet(Tail(a))
<1>1. Len(a) \in Nat \ {0} /\ DOMAIN a = 1..Len(a)  BY EmptySeq, LenProperties
<1>2. /\ Head(a) \in S /\ Tail(a) \in Seq(S) /\ Len(Tail(a)) = Len(a) - 1
      /\ \A i \in 1..Len(Tail(a)) : Tail(a)[i] = a[i + 1]
  BY HeadTailProperties
<1>3. DOMAIN Tail(a) = 1..(Len(a) - 1)  BY <1>2, LenProperties
<1>4. Head(a) = a[1]  BY <1>1
<1>5. ToSet(a) \subseteq {Head(a)} \cup ToSet(Tail(a))
  <2> SUFFICES ASSUME NEW i \in 1..Len(a), i # 1  PROVE  a[i] \in ToSet(Tail(a))
    BY <1>1, <1>4 DEF ToSet
  <2>1. i - 1 \in 1..(Len(a) - 1) /\ (i - 1) + 1 = i  BY <1>1
  <2> QED  BY <1>2, <1>3, <2>1 DEF ToSet
<1>6. {Head(a)} \cup ToSet(Tail(a)) \subseteq ToSet(a)
  <2>1. Head(a) \in ToSet(a)  BY <1>1, <1>4 DEF ToSet
  <2>2. ASSUME NEW i \in 1..(Len(a) - 1)  PROVE  Tail(a)[i] \in ToSet(a)
    <3>1. i + 1 \in 1..Len(a)  BY <1>1
    <3> QED  BY <1>1, <1>2, <3>1 DEF ToSet
  <2> QED  BY <1>3, <2>1, <2>2 DEF ToSet
<1>7. ASSUME IsInjective(a)
      PROVE  IsInjective(Tail(a)) /\ Head(a) \notin ToSet(Tail(a))
  <2>1. ASSUME NEW i \in 1..(Len(a) - 1), NEW j \in 1..(Len(a) - 1), Tail(a)[i] = Tail(a)[j]
        PROVE  i = j
    <3>1. i + 1 \in 1..Len(a) /\ j + 1 \in 1..Len(a)  BY <1>1
    <3>2. i + 1 = j + 1  BY <1>1, <1>2, <1>7, <2>1, <3>1 DEF IsInjective
    <3> QED  BY <3>2
  <2>2. ASSUME NEW i \in 1..(Len(a) - 1)  PROVE  Tail(a)[i] # Head(a)
    <3>1. i + 1 \in 1..Len(a) /\ 1 \in 1..Len(a) /\ i + 1 # 1  BY <1>1
    <3> QED  BY <1>1, <1>2, <1>4, <1>7, <3>1 DEF IsInjective
  <2> QED  BY <1>3, <2>1, <2>2 DEF ToSet, IsInjective
<1> QED  BY <1>2, <1>5, <1>6, <1>7

LEMMA SetOfAppend ==
  ASSUME NEW S, NEW a \in Seq(S), NEW x \in S
  PROVE  /\ Append(a, x) \in Seq(S) /\ Len(Append(a, x)) = Len(a) + 1
         /\ Append(a, x) # <<>>
         /\ ToSet(Append(a, x)) = ToSet(a) \cup {x}
         /\ IsInjective(a) /\ x \notin ToSet(a) => IsInjective(Append(a, x))
<1> DEFINE b == Append(a, x)
<1>1. Len(a) \in Nat /\ DOMAIN a = 1..Len(a)  BY LenProperties
<1>2. /\ b \in Seq(S) /\ Len(b) = Len(a) + 1 /\ b # <<>>
      /\ \A i \in 1..Len(a) : b[i] = a[i]
      /\ b[Len(a) + 1] = x
  BY AppendProperties
<1>3. DOMAIN b = 1..(Len(a) + 1)  BY <1>2, LenProperties
<1>4. ToSet(b) = ToSet(a) \cup {x}
  <2> DEFINE one == <<x>>
  <2>1. b = a \o one /\ one \in Seq(S)  BY AppendIsConcat
  <2>2. ToSet(one) = {x}  BY SetOfOne
  <2> HIDE DEF b, one
  <2> QED  BY <2>1, <2>2, SetOfConcat
<1>5. ASSUME IsInjective(a), x \notin ToSet(a)  PROVE  IsInjective(b)
  <2> SUFFICES ASSUME NEW i \in 1..(Len(a) + 1), NEW j \in 1..(Len(a) + 1), b[i] = b[j]
               PROVE  i = j
    BY <1>3 DEF IsInjective
  <2>1. \A k \in 1..Len(a) : a[k] # x  BY <1>1, <1>5 DEF ToSet
  <2>2. \A k \in 1..(Len(a) + 1) : k \in 1..Len(a) \/ k = Len(a) + 1  BY <1>1
  <2>3. CASE i \in 1..Len(a) /\ j \in 1..Len(a)
    BY <1>1, <1>2, <1>5, <2>3 DEF IsInjective
  <2>4. CASE i = Len(a) + 1 \/ j = Len(a) + 1
    BY <1>2, <2>1, <2>2, <2>4
  <2> QED  BY <2>2, <2>3, <2>4
<1> QED  BY <1>2, <1>4, <1>5

-----------------------------------------------------------------------------
(* Sequences put together and taken apart                                  *)

LEMMA Parts ==
  ASSUME NEW S, NEW a \in Seq(S), NEW b \in Seq(S)
  PROVE  /\ SubSeq(a \o b, 1, Len(a)) = a
         /\ SubSeq(a \o b, Len(a) + 1, Len(a \o b)) = b
<1> DEFINE c == a \o b  n == Len(a)  m == Len(b)
           x == SubSeq(c, 1, n)  y == SubSeq(c, n + 1, Len(c))
<1>1. n \in Nat /\ m \in Nat  BY LenProperties
<1>2. /\ c \in Seq(S) /\ Len(c) = n + m
      /\ \A i \in 1..(n + m) : c[i] = IF i <= n THEN a[i] ELSE b[i - n]
  BY ConcatProperties
<1> HIDE DEF c, n, m
<1>3. \A i \in 1..(n + m) : c[i] \in S  BY <1>2, ElementOfSeq
<1>4. x = a
  <2>1. \A i \in 1..n : c[i] \in S  BY <1>1, <1>3
  <2>2. /\ x \in Seq(S) /\ Len(x) = IF 1 <= n THEN n - 1 + 1 ELSE 0
        /\ \A i \in 1..(n - 1 + 1) : x[i] = c[1 + i - 1]
    BY <1>1, <2>1, SubSeqProperties
  <2> HIDE DEF x
  <2>3. Len(x) = n  BY <1>1, <2>2
  <2>4. \A i \in 1..n : x[i] = a[i]
    <3> SUFFICES ASSUME NEW i \in 1..n  PROVE x[i] = a[i]  OBVIOUS
    <3>1. i \in 1..(n - 1 + 1) /\ 1 + i - 1 = i /\ i \in 1..(n + m) /\ i <= n  BY <1>1
    <3> QED  BY <1>2, <2>2, <3>1
  <2> QED  BY <2>2, <2>3, <2>4, SeqEqual DEF n
<1>5. y = b
  <2>1. \A i \in (n + 1)..(n + m) : c[i] \in S  BY <1>1, <1>3
  <2>2. y = SubSeq(c, n + 1, n + m)  BY <1>2
  <2>3. /\ y \in Seq(S)
        /\ Len(y) = IF n + 1 <= n + m THEN (n + m) - (n + 1) + 1 ELSE 0
        /\ \A i \in 1..((n + m) - (n + 1) + 1) : y[i] = c[(n + 1) + i - 1]
    <3>1. n + 1 \in Int /\ n + m \in Int  BY <1>1
    <3> HIDE DEF y
    <3> QED  BY <2>1, <2>2, <3>1, SubSeqProperties
  <2> HIDE DEF y
  <2>4. Len(y) = m  BY <1>1, <2>3
  <2>5. \A i \in 1..m : y[i] = b[i]
    <3> SUFFICES ASSUME NEW i \in 1..m  PROVE y[i] = b[i]  OBVIOUS
    <3>1. /\ i \in 1..((n + m) - (n + 1) + 1) /\ (n + 1) + i - 1 = n + i
          /\ n + i \in 1..(n + m) /\ ~(n + i <= n) /\ (n + i) - n = i
      BY <1>1
    <3> QED  BY <1>2, <2>3, <3>1
  <2> QED  BY <2>3, <2>4, <2>5, SeqEqual DEF m
<1> QED  BY <1>4, <1>5 DEF c, n

LEMMA HeadAndTail ==
  ASSUME NEW S, NEW a \in Seq(S), a # <<>>
  PROVE  <<Head(a)>> \in Seq(S) /\ a = <<Head(a)>> \o Tail(a)
<1>1. Len(a) \in Nat \ {0}  BY EmptySeq, LenProperties
<1>2. /\ Head(a) \in S /\ Tail(a) \in Seq(S) /\ Len(Tail(a)) = Len(a) - 1
      /\ \A i \in 1..Len(Tail(a)) : Tail(a)[i] = a[i + 1]
  BY HeadTailProperties
<1> DEFINE one == <<Head(a)>>  t == Tail(a)  b == one \o t
<1>3. one \in Seq(S) /\ Len(one) = 1 /\ one[1] = a[1]  BY <1>1, <1>2
<1>4. /\ b \in Seq(S) /\ Len(b) = 1 + Len(t)
      /\ \A i \in 1..(1 + Len(t)) : b[i] = IF i <= 1 THEN one[i] ELSE t[i - 1]
  <2>1. t \in Seq(S)  BY <1>2
  <2> HIDE DEF one, t
  <2>2. /\ b \in Seq(S) /\ Len(b) = Len(one) + Len(t)
        /\ \A i \in 1..(Len(one) + Len(t)) :
              b[i] = IF i <= Len(one) THEN one[i] ELSE t[i - Len(one)]
    BY <1>3, <2>1, ConcatProperties
  <2> QED  BY <1>3, <2>2
<1> HIDE DEF one, b
<1>5. Len(b) = Len(a)  BY <1>1, <1>2, <1>4
<1>6. \A i \in 1..Len(a) : a[i] = b[i]
  <2> SUFFICES ASSUME NEW i \in 1..Len(a)  PROVE a[i] = b[i]  OBVIOUS
  <2>1. CASE i = 1  BY <1>1, <1>2, <1>3, <1>4, <2>1
  <2>2. CASE i # 1
    <3>1. /\ i \in 1..(1 + Len(Tail(a))) /\ ~(i <= 1) /\ i - 1 \in 1..Len(Tail(a))
          /\ (i - 1) + 1 = i
      BY <1>1, <1>2, <2>2
    <3> QED  BY <1>2, <1>4, <3>1
  <2> QED  BY <2>1, <2>2
<1>7. a = b  BY <1>4, <1>5, <1>6, SeqEqual
<1> QED  BY <1>3, <1>7 DEF one, b

\* The head of the second sequence moves to the end of the first.
LEMMA Shift ==
  ASSUME NEW S, NEW a \in Seq(S), NEW b \in Seq(S), b # <<>>
  PROVE  Append(a, Head(b)) \o Tail(b) = a \o b
<1> DEFINE one == <<Head(b)>>  t == Tail(b)
<1>1. Head(b) \in S /\ t \in Seq(S)  BY HeadTailProperties
<1>2. one \in Seq(S) /\ b = one \o t  BY HeadAndTail
<1>3. Append(a, Head(b)) = a \o one  BY <1>1, AppendIsConcat
<1>4. (a \o one) \o t = a \o (one \o t)
  <2> HIDE DEF one, t
  <2> QED  BY <1>1, <1>2, ConcatAssociative
<1> HIDE DEF one
<1> QED  BY <1>2, <1>3, <1>4

\* What is in front when a sequence stands before another one.
LEMMA InFront ==
  ASSUME NEW S, NEW a \in Seq(S), a # <<>>, NEW b \in Seq(S)
  PROVE  /\ a \o b \in Seq(S) /\ Tail(a) \o b \in Seq(S) /\ Len(a \o b) \in Nat \ {0}
         /\ Head(a \o b) = Head(a) /\ Tail(a \o b) = Tail(a) \o b
         /\ SubSeq(a \o b, 2, Len(a \o b)) = Tail(a) \o b
         /\ ToSet(SubSeq(a \o b, 1, 1)) = {Head(a)}
<1> DEFINE c == a \o b  t == Tail(a)  r == t \o b
<1>1. Len(a) \in Nat \ {0} /\ Len(b) \in Nat  BY EmptySeq, LenProperties
<1>2. /\ c \in Seq(S) /\ Len(c) = Len(a) + Len(b)
      /\ \A i \in 1..(Len(a) + Len(b)) : c[i] = IF i <= Len(a) THEN a[i] ELSE b[i - Len(a)]
  BY ConcatProperties
<1>3. /\ t \in Seq(S) /\ Len(t) = Len(a) - 1
      /\ \A i \in 1..Len(t) : t[i] = a[i + 1]
  BY HeadTailProperties
<1>4. /\ r \in Seq(S) /\ Len(r) = Len(t) + Len(b)
      /\ \A i \in 1..(Len(t) + Len(b)) : r[i] = IF i <= Len(t) THEN t[i] ELSE b[i - Len(t)]
  <2> HIDE DEF t
  <2> QED  BY <1>3, ConcatProperties
<1>5. Head(a) = a[1]  BY <1>1
<1> HIDE DEF c, t, r
<1>6. Len(c) \in Nat \ {0} /\ c # <<>>  BY <1>1, <1>2, EmptySeq
<1>7. Head(c) = c[1] /\ c[1] = a[1]  BY <1>1, <1>2, <1>6
<1>8. /\ Tail(c) \in Seq(S) /\ Len(Tail(c)) = Len(c) - 1
      /\ \A i \in 1..Len(Tail(c)) : Tail(c)[i] = c[i + 1]
  BY <1>2, <1>6, HeadTailProperties
<1>9. Len(Tail(c)) = Len(r)  BY <1>1, <1>2, <1>3, <1>4, <1>8
<1>10. \A i \in 1..Len(Tail(c)) : Tail(c)[i] = r[i]
  <2> SUFFICES ASSUME NEW i \in 1..Len(Tail(c))  PROVE c[i + 1] = r[i]  BY <1>8
  <2>1. i \in 1..(Len(t) + Len(b)) /\ i + 1 \in 1..(Len(a) + Len(b))
    BY <1>1, <1>2, <1>3, <1>8
  <2>2. CASE i <= Len(t)
    <3>1. i \in 1..Len(t) /\ i + 1 <= Len(a)  BY <1>1, <1>3, <2>1, <2>2
    <3> QED  BY <1>2, <1>3, <1>4, <2>1, <2>2, <3>1
  <2>3. CASE ~(i <= Len(t))
    <3>1. ~(i + 1 <= Len(a)) /\ i + 1 - Len(a) = i - Len(t)  BY <1>1, <1>3, <2>1, <2>3
    <3> QED  BY <1>2, <1>4, <2>1, <2>3, <3>1
  <2> QED  BY <2>2, <2>3
<1>11. Tail(c) = r  BY <1>4, <1>8, <1>9, <1>10, SeqEqual
<1>12. SubSeq(c, 2, Len(c)) = r  BY <1>2, <1>6, <1>11, TailIsSubSeq
<1>13. ToSet(SubSeq(c, 1, 1)) = {Head(c)}
  <2> DEFINE x == SubSeq(c, 1, 1)
  <2>1. c[1] \in S  BY <1>2, <1>6, ElementOfSeq
  <2>2. /\ x \in Seq(S) /\ Len(x) = IF 1 <= 1 THEN 1 - 1 + 1 ELSE 0
        /\ \A i \in 1..(1 - 1 + 1) : x[i] = c[1 + i - 1]
    <3>1. \A i \in 1..1 : c[i] \in S  BY <2>1
    <3> QED  BY <3>1, SubSeqProperties
  <2> HIDE DEF x
  <2>3. Len(x) = 1 /\ x[1] = c[1] /\ DOMAIN x = {1}  BY <2>2, LenProperties
  <2>4. ToSet(x) = {c[1]}  BY <2>3 DEF ToSet
  <2> QED  BY <1>7, <2>4 DEF x
<1> QED  BY <1>2, <1>4, <1>5, <1>6, <1>7, <1>11, <1>12, <1>13 DEF c, t, r

-----------------------------------------------------------------------------
(* The invariant                                                           *)

Untouched(s) == s \notin ToSet(applied) \cup lost \cup doubtful

\* A batch is flushed only when there is one, and replayed from its start.
Shaped ==
    /\ queue \in Seq(Samples) /\ Len(queue) <= QueueSize
    /\ batch \in Seq(Samples) /\ Len(batch) <= BatchSize
    /\ worker \in WorkerStates /\ phase \in Phases
    /\ worker = "select" => Len(batch) < BatchSize
    /\ worker \in {"write", "replay"} => batch # <<>>
    /\ written \in Nat /\ written <= Len(batch)
    /\ worker = "replay" => written = 0
    /\ caller \in [Samples -> {"busy", "sync", "done"}]
    /\ applied \in Seq(Samples)
    /\ lost \subseteq Samples /\ doubtful \subseteq Samples
    /\ server \in {"up", "closed", "exited"}
    /\ faults \in 0..MaxFaults

\* A sample is in one place: with its caller, in the queue or in the batch.
OnePlace ==
    /\ IsInjective(queue) /\ IsInjective(batch)
    /\ ToSet(queue) \cap ToSet(batch) = {}
    /\ \A s \in ToSet(queue) \cup ToSet(batch) : caller[s] = "done"

\* What still waits has not been flushed; a batch has not been flushed, or it
\* was committed in doubt and is being replayed: then it counts once so far.
Doubted(s) == s \in doubtful /\ s \in ToSet(applied) /\ Times(s) <= 1
Settling ==
    /\ \A s \in Samples : caller[s] # "done" \/ s \in ToSet(queue) => Untouched(s)
    /\ \/ \A s \in ToSet(batch) : Untouched(s)
       \/ worker = "replay" /\ \A s \in ToSet(batch) : Doubted(s)

BufferInv == Shaped /\ OnePlace /\ Settling /\ CountedOnce

LEMMA ShapedIsType == Shaped => TypeOK
<1> SUFFICES ASSUME Shaped  PROVE TypeOK  OBVIOUS
<1>1. Len(batch) \in Nat  BY LenProperties DEF Shaped
<1>2. written \in 0..BatchSize  BY <1>1, SizeAssumption DEF Shaped
<1> QED  BY <1>2 DEF Shaped, TypeOK

-----------------------------------------------------------------------------
(* The database                                                            *)

\* How often a sample counts after the samples of b, all different, committed.
LEMMA AppliedGrows ==
  ASSUME Shaped, NEW b \in Seq(Samples), IsInjective(b), applied' = applied \o b
  PROVE  /\ applied' \in Seq(Samples)
         /\ ToSet(applied') = ToSet(applied) \cup ToSet(b)
         /\ \A s \in Samples :
               /\ Times(s) \in Nat
               /\ s \notin ToSet(applied) => Times(s) = 0
               /\ Times(s)' = IF s \in ToSet(b) THEN Times(s) + 1 ELSE Times(s)
<1>1. /\ applied \in Seq(Samples) /\ Len(applied) \in Nat /\ Len(b) \in Nat
      /\ DOMAIN applied = 1..Len(applied) /\ DOMAIN b = 1..Len(b)
  BY LenProperties DEF Shaped
<1>2. /\ applied' \in Seq(Samples)
      /\ Len(applied') = Len(applied) + Len(b)
      /\ \A i \in 1..(Len(applied) + Len(b)) :
            applied'[i] = IF i <= Len(applied) THEN applied[i] ELSE b[i - Len(applied)]
  BY <1>1, ConcatProperties
<1>3. ToSet(applied') = ToSet(applied) \cup ToSet(b)  BY <1>1, SetOfConcat
<1>4. ASSUME NEW s \in Samples
      PROVE  /\ Times(s) \in Nat
             /\ s \notin ToSet(applied) => Times(s) = 0
             /\ Times(s)' = IF s \in ToSet(b) THEN Times(s) + 1 ELSE Times(s)
  <2> DEFINE old == {i \in 1..Len(applied) : applied[i] = s}
             new == {i \in 1..Len(applied') : applied'[i] = s}
  <2>1. Times(s) = Cardinality(old) /\ Times(s)' = Cardinality(new)  BY DEF Times
  <2>2. IsFiniteSet(old) /\ Cardinality(old) \in Nat
    <3>1. IsFiniteSet(1..Len(applied))  BY <1>1, FS_Interval
    <3>2. old \subseteq 1..Len(applied)  OBVIOUS
    <3>3. IsFiniteSet(old)  BY <3>1, <3>2, FS_Subset
    <3> QED  BY <3>3, FS_CardinalityType
  <2>3. s \notin ToSet(applied) => old = {}  BY <1>1 DEF ToSet
  <2>4. CASE s \notin ToSet(b)
    <3>1. \A j \in 1..Len(b) : b[j] # s  BY <1>1, <2>4 DEF ToSet
    <3>2. ASSUME NEW i \in 1..(Len(applied) + Len(b))
          PROVE  i \in new <=> i \in old
      <4>1. CASE i <= Len(applied)
        <5>1. i \in 1..Len(applied) /\ i \in 1..Len(applied')  BY <1>1, <1>2, <4>1
        <5>2. applied'[i] = applied[i]  BY <1>2, <4>1
        <5> QED  BY <5>1, <5>2
      <4>2. CASE ~(i <= Len(applied))
        <5>1. i - Len(applied) \in 1..Len(b) /\ i \notin old  BY <1>1, <4>2
        <5>2. applied'[i] = b[i - Len(applied)]  BY <1>2, <4>2
        <5> QED  BY <3>1, <5>1, <5>2
      <4> QED  BY <4>1, <4>2
    <3>3. new \subseteq 1..(Len(applied) + Len(b)) /\ old \subseteq 1..(Len(applied) + Len(b))
      BY <1>1, <1>2
    <3>4. new = old  BY <3>2, <3>3
    <3> QED  BY <2>1, <2>2, <2>3, <2>4, <3>4, FS_EmptySet
  <2>5. CASE s \in ToSet(b)
    <3>1. PICK j \in 1..Len(b) : b[j] = s  BY <1>1, <2>5 DEF ToSet
    <3>2. \A k \in 1..Len(b) : b[k] = s => k = j  BY <1>1, <3>1 DEF IsInjective
    <3> DEFINE at == Len(applied) + j
    <3>3. /\ at \in 1..(Len(applied) + Len(b)) /\ ~(at <= Len(applied)) /\ at - Len(applied) = j
          /\ at \notin old
      BY <1>1
    <3>4. at \in new
      <4>1. applied'[at] = s  BY <1>2, <3>1, <3>3
      <4> QED  BY <1>2, <3>3, <4>1
    <3>5. ASSUME NEW i \in 1..(Len(applied) + Len(b)), i # at
          PROVE  i \in new <=> i \in old
      <4>1. CASE i <= Len(applied)
        <5>1. i \in 1..Len(applied) /\ i \in 1..Len(applied')  BY <1>1, <1>2, <4>1
        <5>2. applied'[i] = applied[i]  BY <1>2, <4>1
        <5> QED  BY <5>1, <5>2
      <4>2. CASE ~(i <= Len(applied))
        <5>1. i - Len(applied) \in 1..Len(b) /\ i \notin old /\ i - Len(applied) # j
          BY <1>1, <3>5, <4>2
        <5>2. applied'[i] = b[i - Len(applied)]  BY <1>2, <4>2
        <5>3. applied'[i] # s  BY <3>2, <5>1, <5>2
        <5> QED  BY <5>1, <5>3
      <4> QED  BY <4>1, <4>2
    <3>6. new \subseteq 1..(Len(applied) + Len(b)) /\ old \subseteq 1..(Len(applied) + Len(b))
      BY <1>1, <1>2
    <3>7. new = old \cup {at}
      <4> HIDE DEF new, old, at
      <4> QED  BY <3>3, <3>4, <3>5, <3>6
    <3>8. Cardinality(new) = Cardinality(old) + 1
      <4> HIDE DEF new, old, at
      <4> QED  BY <2>2, <3>3, <3>7, FS_AddElement
    <3> QED  BY <2>1, <2>2, <2>3, <2>5, <3>8, FS_EmptySet
  <2> QED  BY <2>4, <2>5
<1> QED  BY <1>2, <1>3, <1>4

\* A sample flushed alone: it settles, and the others stay as they were.
LEMMA FlushedAlone ==
  ASSUME Shaped, NEW s \in Samples, FlushSync(s)
  PROVE  /\ applied' \in Seq(Samples) /\ lost' \subseteq Samples /\ faults' \in 0..MaxFaults
         /\ doubtful' = doubtful
         /\ ToSet(applied) \subseteq ToSet(applied')
         /\ ToSet(applied') \subseteq ToSet(applied) \cup {s}
         /\ lost \subseteq lost' /\ lost' \subseteq lost \cup {s}
         /\ s \in ToSet(applied') \cup lost'
         /\ \A q \in Samples :
               /\ Times(q) \in Nat /\ Times(q)' \in Nat
               /\ q # s => Times(q)' = Times(q)
               /\ Times(q)' <= Times(q) + 1
               /\ q \notin ToSet(applied) => Times(q) = 0
<1> DEFINE one == <<s>>  none == <<>>
<1>1. one \in Seq(Samples) /\ IsInjective(one) /\ ToSet(one) = {s}  BY SetOfOne
<1>2. none \in Seq(Samples) /\ IsInjective(none) /\ ToSet(none) = {}  BY SetOfNone
<1>3. applied = applied \o none  BY ConcatEmptySeq DEF Shaped
<1>4. faults' \in 0..MaxFaults /\ doubtful' = doubtful
  <2>1. UNCHANGED faults \/ Fault  BY DEF FlushSync, Commit, RollBack, CommitInDoubt
  <2>2. faults' \in 0..MaxFaults  BY <2>1, SizeAssumption DEF Fault, Shaped
  <2> QED  BY <2>2 DEF FlushSync, Commit, RollBack, CommitInDoubt
<1>5. CASE applied' = applied \o one /\ lost' = lost
  <2>1. /\ applied' \in Seq(Samples)
        /\ ToSet(applied') = ToSet(applied) \cup {s}
        /\ \A q \in Samples :
              /\ Times(q) \in Nat
              /\ q \notin ToSet(applied) => Times(q) = 0
              /\ Times(q)' = IF q \in {s} THEN Times(q) + 1 ELSE Times(q)
    <3> HIDE DEF one
    <3> QED  BY <1>1, <1>5, AppliedGrows
  <2>2. \A q \in Samples : Times(q)' \in Nat /\ Times(q)' <= Times(q) + 1  BY <2>1
  <2> QED  BY <1>4, <1>5, <2>1, <2>2 DEF Shaped
<1>6. CASE applied' = applied /\ lost' = lost \cup {s}
  <2>1. applied' = applied \o none  BY <1>3, <1>6
  <2>2. /\ applied' \in Seq(Samples)
        /\ ToSet(applied') = ToSet(applied) \cup {}
        /\ \A q \in Samples :
              /\ Times(q) \in Nat
              /\ q \notin ToSet(applied) => Times(q) = 0
              /\ Times(q)' = IF q \in {} THEN Times(q) + 1 ELSE Times(q)
    <3> HIDE DEF none
    <3> QED  BY <1>2, <2>1, AppliedGrows
  <2>3. \A q \in Samples : Times(q)' \in Nat /\ Times(q)' <= Times(q) + 1  BY <2>2
  <2> QED  BY <1>4, <1>6, <2>2, <2>3 DEF Shaped
<1> QED  BY <1>5, <1>6 DEF FlushSync, Commit, RollBack, CommitInDoubt

\* Steps that leave the database alone leave its counts alone.
LEMMA DatabaseStays ==
  ASSUME UNCHANGED dbVars
  PROVE  /\ \A s : Untouched(s)' <=> Untouched(s)
         /\ \A s : Times(s)' = Times(s)
         /\ \A s : Doubted(s)' <=> Doubted(s)
         /\ CountedOnce => CountedOnce'
<1>1. applied' = applied /\ lost' = lost /\ doubtful' = doubtful  BY DEF dbVars
<1>2. \A s : Times(s)' = Times(s)  BY <1>1 DEF Times
<1> QED  BY <1>1, <1>2 DEF Untouched, Doubted, CountedOnce

-----------------------------------------------------------------------------
(* The steps of the callers                                                *)

LEMMA EnqueueKeeps ==
  ASSUME BufferInv, NEW s \in Samples, Enqueue(s)
  PROVE  BufferInv'
<1> USE DEF BufferInv
<1>1. UNCHANGED <<workerVars, dbVars, server>> /\ caller[s] = "busy"  BY DEF Enqueue
<1>2. /\ UNCHANGED <<batch, worker, phase, written, applied, lost, doubtful, faults, server>>
  BY <1>1 DEF workerVars, dbVars
<1>3. s \notin ToSet(queue) /\ s \notin ToSet(batch) /\ Untouched(s)
  BY <1>1 DEF OnePlace, Settling
<1>4. CASE Len(queue) < QueueSize /\ queue' = Append(queue, s) /\ caller' = [caller EXCEPT ![s] = "done"]
  <2>1. /\ queue' \in Seq(Samples) /\ Len(queue') = Len(queue) + 1
        /\ ToSet(queue') = ToSet(queue) \cup {s}
        /\ IsInjective(queue')
    BY <1>3, <1>4, SetOfAppend DEF Shaped, OnePlace
  <2>2. Len(queue') <= QueueSize  BY <1>4, <2>1, LenProperties, SizeAssumption DEF Shaped
  <2>3. Shaped'  BY <1>2, <1>4, <2>1, <2>2 DEF Shaped
  <2>4. \A q \in ToSet(queue') \cup ToSet(batch') : caller'[q] = "done"
    BY <1>2, <1>4, <2>1, SetIsOf DEF OnePlace, Shaped
  <2>5. OnePlace'  BY <1>2, <1>3, <2>1, <2>4 DEF OnePlace
  <2>6. Settling'
    <3>1. \A q \in Samples : caller'[q] # "done" \/ q \in ToSet(queue') => Untouched(q)'
      BY <1>1, <1>3, <1>4, <2>1, DatabaseStays DEF Settling, Shaped
    <3> QED  BY <1>1, <1>2, <3>1, DatabaseStays DEF Settling
  <2> QED  BY <1>1, <2>3, <2>5, <2>6, DatabaseStays
<1>5. CASE caller' = [caller EXCEPT ![s] = "sync"] /\ UNCHANGED queue
  <2>1. Shaped'  BY <1>2, <1>5 DEF Shaped
  <2>2. OnePlace'  BY <1>2, <1>3, <1>5, SetIsOf DEF OnePlace, Shaped
  <2>3. Settling'
    <3>1. \A q \in Samples : caller'[q] # "done" \/ q \in ToSet(queue') => Untouched(q)'
      BY <1>1, <1>3, <1>5, DatabaseStays DEF Settling, Shaped
    <3> QED  BY <1>1, <1>2, <3>1, DatabaseStays DEF Settling
  <2> QED  BY <1>1, <2>1, <2>2, <2>3, DatabaseStays
<1> QED  BY <1>4, <1>5 DEF Enqueue

LEMMA SyncByCallerKeeps ==
  ASSUME BufferInv, NEW s \in Samples, SyncByCaller(s)
  PROVE  BufferInv'
<1> USE DEF BufferInv
<1>1. /\ caller[s] = "sync" /\ FlushSync(s) /\ caller' = [caller EXCEPT ![s] = "done"]
      /\ UNCHANGED <<queue, batch, worker, phase, written, server>>
  BY DEF SyncByCaller, workerVars
<1>2. s \notin ToSet(queue) /\ s \notin ToSet(batch) /\ Untouched(s)
  BY <1>1 DEF OnePlace, Settling
<1>3. Shaped'  BY <1>1, FlushedAlone DEF Shaped
<1>4. OnePlace'  BY <1>1, <1>2, SetIsOf DEF OnePlace, Shaped
<1>5. \A q \in Samples \ {s} : (Untouched(q) => Untouched(q)') /\ (Doubted(q) => Doubted(q)')
  BY <1>1, FlushedAlone DEF Untouched, Doubted
<1>6. Settling'
  <2>1. \A q \in Samples : caller'[q] # "done" \/ q \in ToSet(queue') => Untouched(q)'
    BY <1>1, <1>2, <1>5 DEF Settling, Shaped
  <2>2. ToSet(batch) \subseteq Samples \ {s}  BY <1>2, SetIsOf DEF Shaped
  <2> QED  BY <1>1, <1>5, <2>1, <2>2 DEF Settling
<1>7. CountedOnce'
  <2> SUFFICES ASSUME NEW q \in Samples
               PROVE  Times(q)' <= IF q \in doubtful' THEN 2 ELSE 1
    BY DEF CountedOnce
  <2>1. CASE q = s  BY <1>1, <1>2, <2>1, FlushedAlone DEF Untouched
  <2>2. CASE q # s  BY <1>1, <2>2, FlushedAlone DEF CountedOnce
  <2> QED  BY <2>1, <2>2
<1> QED  BY <1>3, <1>4, <1>6, <1>7

-----------------------------------------------------------------------------
(* The steps of the worker                                                 *)

\* Steps that move the worker and nothing else.
LEMMA WorkerMoves ==
  ASSUME BufferInv, Shaped', UNCHANGED <<queue, batch, caller, dbVars>>,
         worker # "replay"
  PROVE  BufferInv'
<1>1. OnePlace'  BY DEF OnePlace, BufferInv
<1>2. Settling'  BY DatabaseStays DEF Settling, BufferInv
<1> QED  BY <1>1, <1>2, DatabaseStays DEF BufferInv

LEMMA ReceiveKeeps ==
  ASSUME BufferInv, Receive
  PROVE  BufferInv'
<1> USE DEF BufferInv
<1> DEFINE s == Head(queue)
<1>1. /\ worker = "select" /\ queue # <<>>
      /\ batch' = Append(batch, s) /\ queue' = Tail(queue)
      /\ worker' = IF Len(batch') >= BatchSize THEN "write" ELSE "select"
      /\ UNCHANGED <<phase, written, caller, applied, lost, doubtful, faults, server>>
  BY DEF Receive, Selecting, dbVars
<1>2. /\ s \in Samples /\ Tail(queue) \in Seq(Samples) /\ Len(Tail(queue)) = Len(queue) - 1
      /\ ToSet(queue) = {s} \cup ToSet(Tail(queue))
      /\ IsInjective(Tail(queue)) /\ s \notin ToSet(Tail(queue))
  BY <1>1, SetOfTail DEF Shaped, OnePlace
<1>3. s \notin ToSet(batch)  BY <1>2 DEF OnePlace
<1> HIDE DEF s
<1>4. /\ batch' \in Seq(Samples) /\ Len(batch') = Len(batch) + 1 /\ batch' # <<>>
      /\ ToSet(batch') = ToSet(batch) \cup {s}
      /\ IsInjective(batch')
  BY <1>1, <1>2, <1>3, SetOfAppend DEF Shaped, OnePlace
<1>5. Len(batch) \in Nat /\ Len(queue) \in Nat  BY LenProperties DEF Shaped
<1>6. Shaped'
  <2>1. Len(queue') <= QueueSize  BY <1>1, <1>2, <1>5, SizeAssumption DEF Shaped
  <2>2. Len(batch') <= BatchSize  BY <1>1, <1>4, <1>5, SizeAssumption DEF Shaped
  <2>3. worker' = "select" => Len(batch') < BatchSize
    BY <1>1, <1>4, <1>5, SizeAssumption
  <2>4. written' \in Nat /\ written' <= Len(batch')  BY <1>1, <1>4, <1>5 DEF Shaped
  <2>5. worker' \in {"write", "select"}  BY <1>1
  <2> QED  BY <1>1, <1>2, <1>4, <2>1, <2>2, <2>3, <2>4, <2>5 DEF Shaped, WorkerStates
<1>7. OnePlace'  BY <1>1, <1>2, <1>3, <1>4 DEF OnePlace
<1>8. Settling'
  <2>1. \A q \in ToSet(batch) : Untouched(q)  BY <1>1 DEF Settling
  <2>2. Untouched(s)  BY <1>2 DEF Settling
  <2>3. \A q \in ToSet(batch') : Untouched(q)  BY <1>4, <2>1, <2>2
  <2>4. \A q : Untouched(q)' <=> Untouched(q)  BY <1>1, DatabaseStays DEF dbVars
  <2> QED  BY <1>1, <1>2, <2>3, <2>4 DEF Settling
<1> QED  BY <1>1, <1>6, <1>7, <1>8, DatabaseStays DEF dbVars

LEMMA MovesKeep ==
  ASSUME BufferInv, FlushTick \/ SeeDone \/ LastFlush \/ WriteSample
  PROVE  BufferInv'
<1> USE DEF BufferInv
<1>1. Len(batch) \in Nat  BY LenProperties DEF Shaped
<1>2. worker \in {"select", "write"} /\ UNCHANGED <<queue, batch, caller, dbVars, server>>
  BY DEF FlushTick, SeeDone, LastFlush, WriteSample, Selecting, Writing
<1>3. Shaped'
  <2>1. CASE FlushTick
    BY <1>2, <2>1 DEF FlushTick, Selecting, Shaped, WorkerStates, dbVars
  <2>2. CASE SeeDone
    BY <1>2, <2>2 DEF SeeDone, StartFlush, Selecting, Shaped, WorkerStates, Phases, dbVars
  <2>3. CASE LastFlush
    BY <1>2, <2>3 DEF LastFlush, Selecting, Shaped, WorkerStates, Phases, dbVars
  <2>4. CASE WriteSample
    <3>1. written' \in Nat /\ written' <= Len(batch')
      BY <1>1, <2>4 DEF WriteSample, Shaped
    <3> QED  BY <1>2, <2>4, <3>1 DEF WriteSample, Writing, Shaped, dbVars
  <2> QED  BY <2>1, <2>2, <2>3, <2>4
<1> QED  BY <1>2, <1>3, WorkerMoves

LEMMA FailBatchKeeps ==
  ASSUME BufferInv, FailBatch
  PROVE  BufferInv'
<1> USE DEF BufferInv
<1>1. /\ worker = "write" /\ Fault /\ lost' = lost \cup {}
      /\ worker' = "replay" /\ batch' = batch /\ written' = 0
      /\ UNCHANGED <<queue, phase, caller, server, applied, doubtful>>
  BY DEF FailBatch, Writing, RollBack, Fallback
<1>2. lost' = lost  BY <1>1
<1>3. faults' \in 0..MaxFaults  BY <1>1, SizeAssumption DEF Fault, Shaped
<1>4. Len(batch) \in Nat  BY LenProperties DEF Shaped
<1>5. Shaped'  BY <1>1, <1>2, <1>3, <1>4 DEF Shaped, WorkerStates
<1>6. \A s : (Untouched(s)' <=> Untouched(s)) /\ Times(s)' = Times(s)
  BY <1>1, <1>2 DEF Untouched, Times
<1>7. OnePlace'  BY <1>1 DEF OnePlace
<1>8. Settling'  BY <1>1, <1>6 DEF Settling
<1>9. CountedOnce'  BY <1>1, <1>6 DEF CountedOnce
<1> QED  BY <1>5, <1>7, <1>8, <1>9

\* What a batch that commits, for certain or in doubt, does to the counts.
LEMMA BatchCommits ==
  ASSUME BufferInv, worker = "write", applied' = applied \o batch, lost' = lost,
         doubtful \subseteq doubtful', doubtful' \subseteq doubtful \cup ToSet(batch)
  PROVE  /\ applied' \in Seq(Samples) /\ doubtful' \subseteq Samples
         /\ ToSet(applied') = ToSet(applied) \cup ToSet(batch)
         /\ \A s \in Samples \ ToSet(batch) : Untouched(s) => Untouched(s)'
         /\ \A s \in ToSet(batch) : Times(s)' <= 1
         /\ CountedOnce'
<1> USE DEF BufferInv
<1>1. /\ applied' \in Seq(Samples)
      /\ ToSet(applied') = ToSet(applied) \cup ToSet(batch)
      /\ \A s \in Samples :
            /\ Times(s) \in Nat
            /\ s \notin ToSet(applied) => Times(s) = 0
            /\ Times(s)' = IF s \in ToSet(batch) THEN Times(s) + 1 ELSE Times(s)
  BY AppliedGrows DEF Shaped, OnePlace
<1>2. ToSet(batch) \subseteq Samples  BY SetIsOf DEF Shaped
<1>3. \A s \in ToSet(batch) : s \notin ToSet(applied)  BY DEF Settling, Untouched
<1>4. \A s \in ToSet(batch) : Times(s)' <= 1  BY <1>1, <1>2, <1>3
<1>5. \A s \in Samples \ ToSet(batch) : Untouched(s) => Untouched(s)'
  BY <1>1 DEF Untouched
<1>6. CountedOnce'
  <2> SUFFICES ASSUME NEW s \in Samples
               PROVE  Times(s)' <= IF s \in doubtful' THEN 2 ELSE 1
    BY DEF CountedOnce
  <2>0. Times(s)' \in Nat  BY <1>1
  <2>1. CASE s \in ToSet(batch)  BY <1>4, <2>0, <2>1
  <2>2. CASE s \notin ToSet(batch)
    <3>1. Times(s)' = Times(s) /\ Times(s) \in Nat  BY <1>1, <2>2
    <3>2. Times(s) <= IF s \in doubtful THEN 2 ELSE 1  BY DEF CountedOnce
    <3> QED  BY <3>1, <3>2
  <2> QED  BY <2>1, <2>2
<1> QED  BY <1>1, <1>2, <1>4, <1>5, <1>6 DEF Shaped

LEMMA CommitBatchKeeps ==
  ASSUME BufferInv, CommitBatch
  PROVE  BufferInv'
<1> USE DEF BufferInv
<1>1. /\ worker = "write" /\ UNCHANGED <<queue, phase, caller, server>>
      /\ applied' = applied \o batch /\ lost' = lost
  BY DEF CommitBatch, Writing, Commit, CommitInDoubt
<1>2. ToSet(batch) \subseteq Samples  BY SetIsOf DEF Shaped
<1>3. \A s \in ToSet(queue) : s \notin ToSet(batch)  BY DEF OnePlace
<1>4. CASE Commit(batch) /\ Flushed
  <2>1. /\ doubtful' = doubtful /\ faults' = faults
        /\ batch' = <<>> /\ written' = 0 /\ worker' \in {"gone", "select"}
    BY <1>4 DEF Commit, Flushed, AfterFlush
  <2>2. /\ applied' \in Seq(Samples) /\ doubtful' \subseteq Samples
        /\ \A s \in Samples \ ToSet(batch) : Untouched(s) => Untouched(s)'
        /\ CountedOnce'
    BY <1>1, <2>1, BatchCommits
  <2>3. ToSet(batch') = {} /\ IsInjective(batch')  BY <2>1, SetOfNone
  <2>4. batch' \in Seq(Samples) /\ Len(batch') = 0  BY <2>1, EmptySeq
  <2>5. Shaped'
    BY <1>1, <2>1, <2>2, <2>4, SizeAssumption DEF Shaped, WorkerStates
  <2>6. OnePlace'  BY <1>1, <2>3 DEF OnePlace
  <2>7. Settling'
    <3>1. ASSUME NEW s \in Samples, caller'[s] # "done" \/ s \in ToSet(queue')
          PROVE  Untouched(s)'
      <4>1. Untouched(s) /\ s \notin ToSet(batch)  BY <1>1, <1>3, <3>1 DEF Settling, OnePlace
      <4> QED  BY <2>2, <4>1
    <3> QED  BY <2>3, <3>1 DEF Settling
  <2> QED  BY <2>2, <2>5, <2>6, <2>7
<1>5. CASE CommitInDoubt(batch, ToSet(batch)) /\ Fallback
  <2>1. /\ Fault /\ doubtful' = doubtful \cup ToSet(batch)
        /\ batch' = batch /\ written' = 0 /\ worker' = "replay"
    BY <1>5 DEF CommitInDoubt, Fallback
  <2>2. /\ applied' \in Seq(Samples) /\ doubtful' \subseteq Samples
        /\ ToSet(applied') = ToSet(applied) \cup ToSet(batch)
        /\ \A s \in Samples \ ToSet(batch) : Untouched(s) => Untouched(s)'
        /\ \A s \in ToSet(batch) : Times(s)' <= 1
        /\ CountedOnce'
    BY <1>1, <2>1, BatchCommits
  <2>3. faults' \in 0..MaxFaults  BY <2>1, SizeAssumption DEF Fault, Shaped
  <2>4. Len(batch) \in Nat  BY LenProperties DEF Shaped
  <2>5. Shaped'  BY <1>1, <2>1, <2>2, <2>3, <2>4 DEF Shaped, WorkerStates
  <2>6. OnePlace'  BY <1>1, <2>1 DEF OnePlace
  <2>7. Settling'
    <3>1. ASSUME NEW s \in Samples, caller'[s] # "done" \/ s \in ToSet(queue')
          PROVE  Untouched(s)'
      <4>1. Untouched(s) /\ s \notin ToSet(batch)  BY <1>1, <1>3, <3>1 DEF Settling, OnePlace
      <4> QED  BY <2>2, <4>1
    <3>2. \A s \in ToSet(batch') : Doubted(s)'  BY <2>1, <2>2 DEF Doubted
    <3> QED  BY <2>1, <3>1, <3>2 DEF Settling
  <2> QED  BY <2>2, <2>5, <2>6, <2>7
<1> QED  BY <1>4, <1>5 DEF CommitBatch

LEMMA ReplayKeeps ==
  ASSUME BufferInv, Replay
  PROVE  BufferInv'
<1> USE DEF BufferInv
<1> DEFINE s == Head(batch)
<1>1. /\ worker = "replay" /\ FlushSync(s) /\ batch' = Tail(batch)
      /\ worker' = IF batch' = <<>> THEN AfterFlush ELSE "replay"
      /\ UNCHANGED <<queue, phase, written, caller, server>>
  BY DEF Replay
<1>2. /\ s \in Samples /\ Tail(batch) \in Seq(Samples) /\ Len(Tail(batch)) = Len(batch) - 1
      /\ ToSet(batch) = {s} \cup ToSet(Tail(batch))
      /\ IsInjective(Tail(batch)) /\ s \notin ToSet(Tail(batch))
  BY <1>1, SetOfTail DEF Shaped, OnePlace
<1>3. s \notin ToSet(queue) /\ caller[s] = "done"  BY <1>2 DEF OnePlace
<1> HIDE DEF s
<1>4. Len(batch) \in Nat  BY LenProperties DEF Shaped
<1>5. Shaped'
  <2>1. worker' \in {"replay", "select", "gone"} /\ (batch' # <<>> => worker' = "replay")
        /\ (worker' = "replay" => batch' # <<>>)
    BY <1>1 DEF AfterFlush
  <2>2. Len(batch') <= BatchSize /\ Len(batch') < BatchSize
    BY <1>1, <1>2, <1>4, SizeAssumption DEF Shaped
  <2>3. Len(batch') \in Nat  BY <1>1, <1>2, LenProperties
  <2>4. written' = 0  BY <1>1 DEF Shaped
  <2>5. /\ applied' \in Seq(Samples) /\ lost' \subseteq Samples /\ faults' \in 0..MaxFaults
        /\ doubtful' = doubtful
    BY <1>1, <1>2, FlushedAlone
  <2> QED  BY <1>1, <1>2, <2>1, <2>2, <2>3, <2>4, <2>5 DEF Shaped, WorkerStates
<1>6. OnePlace'  BY <1>1, <1>2 DEF OnePlace
<1>7. ToSet(Tail(batch)) \subseteq Samples \ {s}  BY <1>2, SetIsOf
<1>8. \A q \in Samples \ {s} : (Untouched(q) => Untouched(q)') /\ (Doubted(q) => Doubted(q)')
  BY <1>1, <1>2, FlushedAlone DEF Untouched, Doubted
<1>9. Settling'
  <2>1. \A q \in Samples : caller'[q] # "done" \/ q \in ToSet(queue') => Untouched(q)'
    BY <1>1, <1>3, <1>8 DEF Settling
  <2>2. CASE \A q \in ToSet(batch) : Untouched(q)
    BY <1>1, <1>2, <1>7, <1>8, <2>1, <2>2 DEF Settling
  <2>3. CASE \A q \in ToSet(batch) : Doubted(q)
    <3>1. \A q \in ToSet(batch') : Doubted(q)'  BY <1>1, <1>2, <1>7, <1>8, <2>3
    <3>2. CASE batch' = <<>>  BY <2>1, <3>2, SetOfNone DEF Settling
    <3>3. CASE batch' # <<>>  BY <1>1, <2>1, <3>1, <3>3 DEF Settling
    <3> QED  BY <3>2, <3>3
  <2> QED  BY <2>2, <2>3 DEF Settling
<1>10. CountedOnce'
  <2> SUFFICES ASSUME NEW q \in Samples
               PROVE  Times(q)' <= IF q \in doubtful' THEN 2 ELSE 1
    BY DEF CountedOnce
  <2>1. /\ Times(q) \in Nat /\ Times(q)' \in Nat /\ doubtful' = doubtful
        /\ q # s => Times(q)' = Times(q)
        /\ Times(q)' <= Times(q) + 1
        /\ q \notin ToSet(applied) => Times(q) = 0
    BY <1>1, <1>2, FlushedAlone
  <2>2. CASE q # s  BY <2>1, <2>2 DEF CountedOnce
  <2>3. CASE q = s /\ Untouched(s)  BY <2>1, <2>3 DEF Untouched
  <2>4. CASE q = s /\ Doubted(s)  BY <2>1, <2>4 DEF Doubted
  <2> QED  BY <1>2, <2>2, <2>3, <2>4 DEF Settling
<1> QED  BY <1>5, <1>6, <1>9, <1>10

-----------------------------------------------------------------------------
(* The theorems                                                            *)

LEMMA BufferInvInitially == Init => BufferInv
<1> SUFFICES ASSUME Init  PROVE BufferInv  OBVIOUS
<1> USE DEF Init
<1>1. /\ ToSet(queue) = {} /\ IsInjective(queue) /\ ToSet(batch) = {} /\ IsInjective(batch)
      /\ ToSet(applied) = {}
  BY SetOfNone
<1>2. queue \in Seq(Samples) /\ Len(queue) = 0  BY EmptySeq
<1>3. Shaped
  <2>1. faults \in 0..MaxFaults /\ Len(queue) <= QueueSize /\ Len(queue) <= BatchSize
        /\ Len(queue) < BatchSize
    BY <1>2, SizeAssumption
  <2> QED  BY <1>2, <2>1 DEF Shaped, WorkerStates, Phases
<1>4. OnePlace  BY <1>1 DEF OnePlace
<1>5. Settling  BY <1>1 DEF Settling, Untouched
<1>6. CountedOnce
  <2> SUFFICES ASSUME NEW s \in Samples  PROVE Times(s) = 0  BY DEF CountedOnce
  <2>1. {i \in 1..Len(applied) : applied[i] = s} = {}  BY <1>2
  <2> QED  BY <2>1, FS_EmptySet DEF Times
<1> QED  BY <1>3, <1>4, <1>5, <1>6 DEF BufferInv

LEMMA BufferInvStep == BufferInv /\ [Next]_vars => BufferInv'
<1> SUFFICES ASSUME BufferInv, [Next]_vars  PROVE BufferInv'  OBVIOUS
<1>1. ASSUME NEW s \in Samples, Enqueue(s)  PROVE BufferInv'  BY <1>1, EnqueueKeeps
<1>2. ASSUME NEW s \in Samples, SyncByCaller(s)  PROVE BufferInv'  BY <1>2, SyncByCallerKeeps
<1>3. CASE Worker
  BY <1>3, ReceiveKeeps, MovesKeep, CommitBatchKeeps, FailBatchKeeps, ReplayKeeps DEF Worker
<1>4. CASE Close \/ Exit \/ UNCHANGED vars
  <2>1. /\ UNCHANGED <<queue, batch, worker, phase, written, caller, dbVars>>
        /\ server' \in {"closed", "exited", server}
    BY <1>4 DEF Close, Exit, vars, workerVars
  <2>2. Shaped'  BY <2>1 DEF BufferInv, Shaped, dbVars
  <2>3. OnePlace'  BY <2>1 DEF BufferInv, OnePlace
  <2>4. Settling'  BY <2>1, DatabaseStays DEF BufferInv, Settling
  <2> QED  BY <2>1, <2>2, <2>3, <2>4, DatabaseStays DEF BufferInv
<1> QED  BY <1>1, <1>2, <1>3, <1>4 DEF Next

LEMMA BufferInvHolds == Spec => []BufferInv
BY BufferInvInitially, BufferInvStep, PTL DEF Spec

\* The queue, the batch and the counters of the worker keep their types and
\* their limits (circuit_buffer.go 50-165).
THEOREM TypeCorrect == Spec => []TypeOK
<1>1. BufferInv => TypeOK  BY ShapedIsType DEF BufferInv
<1> QED  BY <1>1, BufferInvHolds, PTL

\* A sample enters the window of the circuit twice only if the batch that
\* carried it committed and reported an error (circuit_buffer.go 160-197).
THEOREM CountsOnce == Spec => []CountedOnce
<1>1. BufferInv => CountedOnce  BY DEF BufferInv
<1> QED  BY <1>1, BufferInvHolds, PTL

-----------------------------------------------------------------------------
(* The buffer implements SampleLog                                         *)

\* The line is the queue behind the batch, or behind nothing when the batch is
\* settled already; what is in line has not been flushed.
LEMMA LineIs ==
  ASSUME BufferInv
  PROVE  /\ (\A s \in ToSet(batch) : Untouched(s)) => Line = batch \o queue
         /\ (\A s \in ToSet(batch) : Doubted(s)) => Line = queue
         /\ Line \in Seq(Samples)
         /\ \A s \in ToSet(Line) : s \in Samples /\ Untouched(s) /\ caller[s] = "done"
<1> USE DEF BufferInv
<1>1. batch \in Seq(Samples) /\ queue \in Seq(Samples) /\ batch \o queue \in Seq(Samples)
  BY ConcatProperties DEF Shaped
<1>2. (\A s \in ToSet(batch) : Doubted(s)) => Line = queue  BY DEF Line, Doubted
<1>3. ASSUME \A s \in ToSet(batch) : Untouched(s)  PROVE Line = batch \o queue
  <2>1. CASE ToSet(batch) = {}
    <3>1. batch = <<>>
      <4>1. batch # <<>> => Head(batch) \in ToSet(batch)  BY <1>1, SetOfTail
      <4> QED  BY <2>1, <4>1
    <3> QED  BY <1>1, <2>1, <3>1, ConcatEmptySeq DEF Line
  <2>2. CASE ToSet(batch) # {}  BY <1>3, <2>2 DEF Line, Untouched
  <2> QED  BY <2>1, <2>2
<1>4. ToSet(batch \o queue) = ToSet(batch) \cup ToSet(queue)
      /\ ToSet(batch) \subseteq Samples /\ ToSet(queue) \subseteq Samples
  BY <1>1, SetOfConcat, SetIsOf
<1>5. CASE \A s \in ToSet(batch) : Untouched(s)
  BY <1>1, <1>2, <1>3, <1>4, <1>5 DEF Settling, OnePlace
<1>6. CASE \A s \in ToSet(batch) : Doubted(s)
  BY <1>1, <1>2, <1>3, <1>4, <1>6 DEF Settling, OnePlace
<1> QED  BY <1>5, <1>6 DEF Settling

\* What became of a sample follows from three sets.
LEMMA OutcomeIs ==
  ASSUME NEW s \in Samples
  PROVE  /\ Outcome[s] =
              IF s \in ToSet(applied) THEN "applied"
              ELSE IF s \in lost THEN "lost"
              ELSE IF s \in ToSet(Line) THEN "waiting" ELSE "new"
         /\ Outcome'[s] =
              IF s \in ToSet(applied') THEN "applied"
              ELSE IF s \in lost' THEN "lost"
              ELSE IF s \in ToSet(Line') THEN "waiting" ELSE "new"
<1>1. ToSet(applied)' = ToSet(applied') /\ ToSet(Line)' = ToSet(Line')  BY DEF ToSet
<1> QED  BY <1>1 DEF Outcome

\* A step that settles the samples of S in the same way and leaves the rest.
LEMMA OutcomeChanges ==
  ASSUME NEW S \in SUBSET Samples, NEW v,
         \A s \in S : Outcome'[s] = v,
         \A s \in Samples \ S :
            /\ s \in ToSet(applied') <=> s \in ToSet(applied)
            /\ s \in lost' <=> s \in lost
            /\ s \in ToSet(Line') <=> s \in ToSet(Line)
  PROVE  Outcome' = [s \in Samples |-> IF s \in S THEN v ELSE Outcome[s]]
<1>1. \A s \in Samples \ S : Outcome'[s] = Outcome[s]  BY OutcomeIs
<1>2. Outcome' = [s \in Samples |-> Outcome'[s]]  BY DEF Outcome
<1> HIDE DEF Outcome
<1> QED  BY <1>1, <1>2

LEMMA OutcomeOfOne ==
  ASSUME NEW s \in Samples, NEW v, Outcome'[s] = v,
         \A q \in Samples \ {s} :
            /\ q \in ToSet(applied') <=> q \in ToSet(applied)
            /\ q \in lost' <=> q \in lost
            /\ q \in ToSet(Line') <=> q \in ToSet(Line)
  PROVE  Outcome' = [Outcome EXCEPT ![s] = v]
<1>1. \A q \in Samples \ {s} : Outcome'[q] = Outcome[q]  BY OutcomeIs
<1>2. /\ Outcome' = [q \in Samples |-> Outcome'[q]]
      /\ Outcome = [q \in Samples |-> Outcome[q]]
  BY DEF Outcome
<1> HIDE DEF Outcome
<1> QED  BY <1>1, <1>2

\* Steps after which every sample is where it was.
LEMMA OutcomeStays ==
  ASSUME Line' = Line,
         \A s \in Samples : s \in ToSet(applied') <=> s \in ToSet(applied),
         \A s \in Samples \ ToSet(applied) : s \in lost' <=> s \in lost
  PROVE  UNCHANGED Promise!lineVars
<1>1. \A s \in Samples : Outcome'[s] = Outcome[s]  BY OutcomeIs
<1>2. /\ Outcome' = [s \in Samples |-> Outcome'[s]]
      /\ Outcome = [s \in Samples |-> Outcome[s]]
  BY DEF Outcome
<1>3. Outcome' = Outcome
  <2> HIDE DEF Outcome
  <2> QED  BY <1>1, <1>2
<1> QED  BY <1>3 DEF Promise!lineVars

LEMMA EnqueueImplements ==
  ASSUME BufferInv, NEW s \in Samples, Enqueue(s)
  PROVE  Promise!Accept(s) \/ UNCHANGED Promise!lineVars
<1> USE DEF BufferInv
<1>1. UNCHANGED <<batch, worker, applied, lost, doubtful>> /\ caller[s] = "busy"
  BY DEF Enqueue, workerVars, dbVars
<1>2. Line \in Seq(Samples) /\ Untouched(s) /\ s \notin ToSet(Line)
  BY <1>1, LineIs DEF Settling
<1>3. batch \in Seq(Samples) /\ queue \in Seq(Samples)  BY DEF Shaped
<1>4. CASE queue' = Append(queue, s)
  <2>1. batch \o Append(queue, s) = Append(batch \o queue, s)
    <3> DEFINE one == <<s>>
    <3>1. one \in Seq(Samples) /\ Append(queue, s) = queue \o one  BY <1>3, AppendIsConcat
    <3>2. batch \o queue \in Seq(Samples)  BY <1>3, ConcatProperties
    <3>3. Append(batch \o queue, s) = (batch \o queue) \o one  BY <3>2, AppendIsConcat
    <3>4. (batch \o queue) \o one = batch \o (queue \o one)
      <4> HIDE DEF one
      <4> QED  BY <1>3, <3>1, ConcatAssociative
    <3> QED  BY <3>1, <3>3, <3>4
  <2>2. Line' = Append(Line, s)  BY <1>1, <1>4, <2>1 DEF Line
  <2>3. ToSet(Line') = ToSet(Line) \cup {s}  BY <1>2, <2>2, SetOfAppend
  <2>4. Outcome[s] = "new" /\ Outcome'[s] = "waiting"
    BY <1>1, <1>2, <2>3, OutcomeIs DEF Untouched
  <2>5. Outcome' = [Outcome EXCEPT ![s] = "waiting"]
    BY <1>1, <2>3, <2>4, OutcomeOfOne
  <2> QED  BY <2>2, <2>4, <2>5 DEF Promise!Accept
<1>5. CASE UNCHANGED queue
  <2>1. Line' = Line  BY <1>1, <1>5 DEF Line
  <2> QED  BY <1>1, <2>1, OutcomeStays
<1> QED  BY <1>4, <1>5 DEF Enqueue

LEMMA SyncByCallerImplements ==
  ASSUME BufferInv, NEW s \in Samples, SyncByCaller(s)
  PROVE  Promise!Bypass(s)
<1> USE DEF BufferInv
<1>1. FlushSync(s) /\ caller[s] = "sync" /\ UNCHANGED <<queue, batch>>
  BY DEF SyncByCaller, workerVars
<1>2. Untouched(s) /\ s \notin ToSet(Line)  BY <1>1, LineIs DEF Settling
<1>3. /\ doubtful' = doubtful /\ s \in ToSet(applied') \cup lost'
      /\ ToSet(applied) \subseteq ToSet(applied') /\ ToSet(applied') \subseteq ToSet(applied) \cup {s}
      /\ lost \subseteq lost' /\ lost' \subseteq lost \cup {s}
  BY <1>1, FlushedAlone
<1>4. Line' = Line  BY <1>1, <1>3 DEF Line
<1>5. Outcome[s] = "new" /\ (Outcome'[s] = "applied" \/ Outcome'[s] = "lost")
  BY <1>2, <1>3, OutcomeIs DEF Untouched
<1>6. \A q \in Samples \ {s} :
         /\ q \in ToSet(applied') <=> q \in ToSet(applied)
         /\ q \in lost' <=> q \in lost
         /\ q \in ToSet(Line') <=> q \in ToSet(Line)
  BY <1>3, <1>4
<1>7. \/ Outcome' = [Outcome EXCEPT ![s] = "applied"]
      \/ Outcome' = [Outcome EXCEPT ![s] = "lost"]
  BY <1>5, <1>6, OutcomeOfOne
<1> QED  BY <1>4, <1>5, <1>7 DEF Promise!Bypass

LEMMA ReceiveImplements ==
  ASSUME BufferInv, Receive
  PROVE  UNCHANGED Promise!lineVars
<1> USE DEF BufferInv
<1> DEFINE s == Head(queue)
<1>1. /\ worker = "select" /\ queue # <<>>
      /\ batch' = Append(batch, s) /\ queue' = Tail(queue)
      /\ UNCHANGED <<applied, lost, doubtful>>
  BY DEF Receive, Selecting, dbVars
<1>2. s \in Samples /\ s \in ToSet(queue)  BY <1>1, SetOfTail DEF Shaped
<1>3. Line = batch \o queue  BY <1>1, LineIs DEF Settling
<1>4. batch' \o queue' = batch \o queue  BY <1>1, Shift DEF Shaped
<1>5. s \in ToSet(batch') /\ s \notin doubtful'
  BY <1>1, <1>2, SetOfAppend DEF Shaped, Settling, Untouched
<1>6. Line' = batch' \o queue'  BY <1>5 DEF Line
<1>7. Line' = Line  BY <1>3, <1>4, <1>6
<1> QED  BY <1>1, <1>7, OutcomeStays

\* A batch that commits serves as many samples as it holds.
LEMMA CommitBatchImplements ==
  ASSUME BufferInv, CommitBatch
  PROVE  \E n \in 1..Len(Line) : Promise!Serve(n)
<1> USE DEF BufferInv
<1>1. /\ worker = "write" /\ UNCHANGED <<queue, lost>>
      /\ applied' = applied \o batch
      /\ \/ batch' = <<>>
         \/ batch' = batch /\ doubtful' = doubtful \cup ToSet(batch)
  BY DEF CommitBatch, Writing, Commit, CommitInDoubt, Flushed, Fallback
<1>2. /\ batch \in Seq(Samples) /\ queue \in Seq(Samples) /\ batch # <<>>
      /\ ToSet(batch) \subseteq Samples
  BY <1>1, SetIsOf DEF Shaped
<1>3. Line = batch \o queue  BY <1>1, LineIs DEF Settling
<1>4. Line' = queue
  <2>1. ToSet(batch') \subseteq doubtful'  BY <1>1, SetOfNone
  <2> QED  BY <1>1, <2>1 DEF Line, ToSet
<1> DEFINE n == Len(batch)
<1>5. SubSeq(Line, 1, n) = batch /\ SubSeq(Line, n + 1, Len(Line)) = queue
  BY <1>2, <1>3, Parts
<1>6. n \in 1..Len(Line)
  <2>1. n \in Nat \ {0} /\ Len(queue) \in Nat  BY <1>2, EmptySeq, LenProperties
  <2>2. Len(Line) = n + Len(queue)  BY <1>2, <1>3, ConcatProperties
  <2> QED  BY <2>1, <2>2
<1>7. /\ ToSet(applied') = ToSet(applied) \cup ToSet(batch)
      /\ ToSet(Line) = ToSet(batch) \cup ToSet(queue)
  BY <1>1, <1>2, <1>3, SetOfConcat DEF Shaped
<1>8. \A s \in ToSet(batch) : Outcome'[s] = "applied"  BY <1>2, <1>7, OutcomeIs
<1>9. \A s \in Samples \ ToSet(batch) :
         /\ s \in ToSet(applied') <=> s \in ToSet(applied)
         /\ s \in lost' <=> s \in lost
         /\ s \in ToSet(Line') <=> s \in ToSet(Line)
  BY <1>1, <1>4, <1>7
<1>10. Outcome' = [s \in Samples |-> IF s \in ToSet(batch) THEN "applied" ELSE Outcome[s]]
  <2> DEFINE S == ToSet(batch)
  <2>1. \A s \in Samples \ S : Outcome'[s] = Outcome[s]  BY <1>9, OutcomeIs
  <2>2. Outcome' = [s \in Samples |-> Outcome'[s]]  BY DEF Outcome
  <2> HIDE DEF Outcome, S
  <2>3. Outcome' = [s \in Samples |-> IF s \in S THEN "applied" ELSE Outcome[s]]
    BY <1>8, <2>1, <2>2 DEF S
  <2> QED  BY <2>3 DEF S
<1>11. Promise!Serve(n)
  <2>1. Promise!ToSet(SubSeq(Line, 1, n)) = ToSet(batch)
    BY <1>5 DEF ToSet, Promise!ToSet
  <2> HIDE DEF Outcome, Line, n
  <2> QED  BY <1>4, <1>5, <1>10, <2>1 DEF Promise!Serve
<1> QED  BY <1>6, <1>11

\* The replay serves or gives up the sample in front; what was committed in
\* doubt has left the line before.
LEMMA ReplayImplements ==
  ASSUME BufferInv, Replay
  PROVE  \/ \E n \in 1..Len(Line) : Promise!Serve(n)
         \/ Promise!GiveUp
         \/ UNCHANGED Promise!lineVars
<1> USE DEF BufferInv
<1> DEFINE s == Head(batch)  t == Tail(batch)
<1>1. FlushSync(s) /\ batch # <<>> /\ batch' = t /\ queue' = queue
  BY DEF Replay, Shaped
<1>2. /\ batch \in Seq(Samples) /\ queue \in Seq(Samples)
      /\ s \in Samples /\ t \in Seq(Samples)
      /\ ToSet(batch) = {s} \cup ToSet(t) /\ s \notin ToSet(t)
  BY <1>1, SetOfTail DEF Shaped, OnePlace
<1>3. /\ doubtful' = doubtful /\ s \in ToSet(applied') \cup lost'
      /\ ToSet(applied) \subseteq ToSet(applied') /\ ToSet(applied') \subseteq ToSet(applied) \cup {s}
      /\ lost \subseteq lost' /\ lost' \subseteq lost \cup {s}
  <2> HIDE DEF s
  <2> QED  BY <1>1, <1>2, FlushedAlone
<1>4. CASE \A q \in ToSet(batch) : Doubted(q)
  <2>1. Line = queue  BY <1>4, LineIs
  <2>2. ToSet(t) \subseteq doubtful  BY <1>2, <1>4 DEF Doubted
  <2>3. Line' = Line  BY <1>1, <1>3, <2>1, <2>2 DEF Line
  <2>4. s \in ToSet(applied)  BY <1>2, <1>4 DEF Doubted
  <2>5. UNCHANGED Promise!lineVars  BY <1>3, <2>3, <2>4, OutcomeStays
  <2> QED  BY <2>5
<1>5. CASE \A q \in ToSet(batch) : Untouched(q)
  <2> DEFINE rest == t \o queue
  <2>1. Line = batch \o queue  BY <1>5, LineIs
  <2>2. Line' = rest
    <3>1. CASE t = <<>>
      <4>1. ToSet(t) = {} /\ t \o queue = queue  BY <1>2, <3>1, SetOfNone, ConcatEmptySeq
      <4> QED  BY <1>1, <4>1 DEF Line
    <3>2. CASE t # <<>>
      <4>1. Head(t) \in ToSet(t)
        <5> HIDE DEF t
        <5> QED  BY <1>2, <3>2, SetOfTail
      <4>2. Head(t) \notin doubtful'  BY <1>2, <1>3, <1>5, <4>1 DEF Untouched
      <4> QED  BY <1>1, <4>1, <4>2 DEF Line
    <3> QED  BY <3>1, <3>2
  <2>3. /\ Len(Line) \in Nat \ {0} /\ Line \in Seq(Samples)
        /\ Head(Line) = s /\ Tail(Line) = rest
        /\ SubSeq(Line, 2, Len(Line)) = rest
        /\ ToSet(SubSeq(Line, 1, 1)) = {s}
    <3>1. /\ batch \o queue \in Seq(Samples) /\ Tail(batch) \o queue \in Seq(Samples)
          /\ Len(batch \o queue) \in Nat \ {0}
          /\ Head(batch \o queue) = Head(batch) /\ Tail(batch \o queue) = Tail(batch) \o queue
          /\ SubSeq(batch \o queue, 2, Len(batch \o queue)) = Tail(batch) \o queue
          /\ ToSet(SubSeq(batch \o queue, 1, 1)) = {Head(batch)}
      BY <1>1, <1>2, InFront, Zenon
    <3> QED  BY <2>1, <3>1, Zenon
  <2>4. Line # <<>>  BY <2>3, EmptySeq
  <2>5. ToSet(Line) = {s} \cup ToSet(rest)
    <3> HIDE DEF Line, s, rest
    <3> QED  BY <2>3, <2>4, SetOfTail
  <2> HIDE DEF rest
  <2>6. \A q \in Samples \ {s} :
           /\ q \in ToSet(applied') <=> q \in ToSet(applied)
           /\ q \in lost' <=> q \in lost
           /\ q \in ToSet(Line') <=> q \in ToSet(Line)
    BY <1>3, <2>2, <2>5
  <2>7. CASE s \in ToSet(applied')
    <3>1. Outcome'[s] = "applied"  BY <1>2, <2>7, OutcomeIs
    <3>2. \A q \in Samples \ {s} : Outcome'[q] = Outcome[q]  BY <2>6, OutcomeIs
    <3>3. Outcome' = [q \in Samples |-> Outcome'[q]]  BY DEF Outcome
    <3>4. Outcome' = [q \in Samples |-> IF q \in {s} THEN "applied" ELSE Outcome[q]]
      <4> HIDE DEF Outcome, s
      <4> QED  BY <3>1, <3>2, <3>3
    <3>5. Promise!ToSet(SubSeq(Line, 1, 1)) = {s}  BY <2>3 DEF ToSet, Promise!ToSet
    <3>6. Promise!Serve(1)
      <4>1. 1 + 1 = 2  OBVIOUS
      <4> HIDE DEF Outcome, Line, s
      <4> QED  BY <2>2, <2>3, <3>4, <3>5, <4>1 DEF Promise!Serve
    <3>7. 1 \in 1..Len(Line)  BY <2>3
    <3> QED  BY <3>6, <3>7
  <2>8. CASE s \notin ToSet(applied')
    <3>1. Outcome'[s] = "lost"  BY <1>2, <1>3, <2>8, OutcomeIs
    <3>2. Outcome' = [Outcome EXCEPT ![s] = "lost"]
      <4> HIDE DEF s
      <4> QED  BY <1>2, <2>6, <3>1, OutcomeOfOne
    <3>3. Promise!GiveUp
      <4> HIDE DEF Outcome, Line, s
      <4> QED  BY <2>2, <2>3, <2>4, <3>2 DEF Promise!GiveUp
    <3> QED  BY <3>3
  <2> QED  BY <2>7, <2>8
<1> QED  BY <1>4, <1>5 DEF Settling

LEMMA StepImplements ==
  BufferInv /\ [Next]_vars => [Promise!Next]_(Promise!lineVars)
<1> SUFFICES ASSUME BufferInv, [Next]_vars
             PROVE  Promise!Next \/ UNCHANGED Promise!lineVars
  OBVIOUS
<1>1. ASSUME NEW s \in Samples, Enqueue(s)
      PROVE  Promise!Next \/ UNCHANGED Promise!lineVars
  BY <1>1, EnqueueImplements DEF Promise!Next
<1>2. ASSUME NEW s \in Samples, SyncByCaller(s)  PROVE Promise!Next
  BY <1>2, SyncByCallerImplements DEF Promise!Next
<1>3. ASSUME UNCHANGED <<queue, batch, applied, lost, doubtful>>
      PROVE  UNCHANGED Promise!lineVars
  <2>1. Line' = Line  BY <1>3 DEF Line
  <2> QED  BY <1>3, <2>1, OutcomeStays
<1>4. ASSUME Worker  PROVE Promise!Next \/ UNCHANGED Promise!lineVars
  <2>1. CASE Receive  BY <2>1, ReceiveImplements
  <2>2. CASE FlushTick \/ SeeDone \/ LastFlush \/ WriteSample
    BY <1>3, <2>2 DEF FlushTick, SeeDone, LastFlush, WriteSample, dbVars
  <2>3. CASE CommitBatch  BY <2>3, CommitBatchImplements DEF Promise!Next
  <2>4. CASE FailBatch
    <3>1. lost' = lost  BY <2>4 DEF FailBatch, RollBack
    <3> QED  BY <1>3, <2>4, <3>1 DEF FailBatch, RollBack, Fallback
  <2>5. CASE Replay  BY <2>5, ReplayImplements DEF Promise!Next
  <2> QED  BY <1>4, <2>1, <2>2, <2>3, <2>4, <2>5 DEF Worker
<1>5. CASE Close \/ Exit \/ UNCHANGED vars
  BY <1>3, <1>5 DEF Close, Exit, vars, workerVars, dbVars
<1> QED  BY <1>1, <1>2, <1>4, <1>5 DEF Next

LEMMA InitImplements == Init => Promise!Init
<1> SUFFICES ASSUME Init  PROVE Promise!Init  OBVIOUS
<1>1. ToSet(batch) = {} /\ ToSet(applied) = {} /\ queue = <<>> /\ lost = {}
  BY SetOfNone DEF Init
<1>2. Line = <<>> /\ ToSet(Line) = {}  BY <1>1, SetOfNone DEF Line
<1>3. \A s \in Samples : Outcome[s] = "new"  BY <1>1, <1>2, OutcomeIs
<1>4. Outcome = [s \in Samples |-> "new"]
  <2>1. Outcome = [s \in Samples |-> Outcome[s]]  BY DEF Outcome
  <2> HIDE DEF Outcome
  <2> QED  BY <1>3, <2>1
<1> QED  BY <1>2, <1>4 DEF Promise!Init

\* Every run of the buffer is a run of SampleLog: the line is served in order,
\* batch by batch or one by one, and a sample leaves it applied or reported
\* lost (circuit_buffer.go 5-10).
THEOREM ImplementsSampleLog == Spec => KeepsPromise
<1>1. Spec => Promise!Init /\ [][Promise!Next]_(Promise!lineVars)
  BY InitImplements, StepImplements, BufferInvHolds, PTL DEF Spec
<1> QED  BY <1>1 DEF KeepsPromise, Promise!Spec
=============================================================================
