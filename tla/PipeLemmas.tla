------------------------------- MODULE PipeLemmas -------------------------------
(***************************************************************************)
(* Facts about the pipes and channels of the system, sequences that one    *)
(* end appends to and the other takes the head of: which elements they     *)
(* hold, or which ids if they are of records.  The refinement proofs say   *)
(* that an id is in one place and there once.                              *)
(***************************************************************************)
EXTENDS Integers, Sequences, TLAPS, SequenceTheorems

Elems(s) == {s[k] : k \in DOMAIN s}
NoRepeat(s) == \A j, k \in DOMAIN s : s[j] = s[k] => j = k

SeqIds(s) == {s[k].id : k \in DOMAIN s}
Distinct(s) == \A j, k \in DOMAIN s : s[j].id = s[k].id => j = k

\* The elements of a tail are those of the sequence but the first.
LEMMA TailElems ==
  ASSUME NEW S, NEW s \in Seq(S), s # <<>>, NoRepeat(s)
  PROVE  /\ Head(s) \in Elems(s)
         /\ NoRepeat(Tail(s))
         /\ Elems(Tail(s)) = Elems(s) \ {Head(s)}
<1>1. /\ Len(s) \in Nat /\ Len(s) >= 1 /\ DOMAIN s = 1 .. Len(s)
      /\ Head(s) = s[1]
      /\ DOMAIN Tail(s) = 1 .. Len(s) - 1
      /\ \A k \in 1 .. Len(s) - 1 : Tail(s)[k] = s[k + 1]
  BY HeadTailProperties, EmptySeq
<1>2. \A k \in 1 .. Len(s) : k = 1 \/ k - 1 \in 1 .. Len(s) - 1
  BY <1>1
<1>3. \A k \in 1 .. Len(s) - 1 : k + 1 \in 1 .. Len(s) /\ k + 1 # 1
  BY <1>1
<1>4. NoRepeat(Tail(s))
  BY <1>1, <1>3 DEF NoRepeat
<1>5. Elems(Tail(s)) \subseteq Elems(s) \ {Head(s)}
  BY <1>1, <1>3 DEF NoRepeat, Elems
<1>6. ASSUME NEW k \in DOMAIN s, s[k] # Head(s)
      PROVE  s[k] \in Elems(Tail(s))
  <2>1. k - 1 \in DOMAIN Tail(s) /\ Tail(s)[k - 1] = s[k]
    BY <1>1, <1>2, <1>6
  <2> QED BY <2>1 DEF Elems
<1>7. Elems(s) \ {Head(s)} \subseteq Elems(Tail(s))
  BY <1>6 DEF Elems
<1>8. Head(s) \in Elems(s)
  BY <1>1 DEF Elems
<1> QED BY <1>4, <1>5, <1>7, <1>8

\* One more element, which was not there.
LEMMA AppendElems ==
  ASSUME NEW S, NEW s \in Seq(S), NEW e \in S, NoRepeat(s), e \notin Elems(s)
  PROVE  NoRepeat(Append(s, e)) /\ Elems(Append(s, e)) = Elems(s) \cup {e}
<1>1. /\ Len(s) \in Nat /\ DOMAIN s = 1 .. Len(s)
      /\ DOMAIN Append(s, e) = 1 .. Len(s) + 1
      /\ \A k \in 1 .. Len(s) : Append(s, e)[k] = s[k]
      /\ Append(s, e)[Len(s) + 1] = e
  BY AppendProperties
<1>2. \A k \in 1 .. Len(s) + 1 : k \in 1 .. Len(s) \/ k = Len(s) + 1
  BY <1>1
<1>3. (\A k \in 1 .. Len(s) : k \in 1 .. Len(s) + 1) /\ Len(s) + 1 \in 1 .. Len(s) + 1
  BY <1>1
<1>4. NoRepeat(Append(s, e))
  BY <1>1, <1>2 DEF NoRepeat, Elems
<1>5. Elems(Append(s, e)) \subseteq Elems(s) \cup {e}
  BY <1>1, <1>2 DEF Elems
<1>6. Elems(s) \cup {e} \subseteq Elems(Append(s, e))
  BY <1>1, <1>3 DEF Elems
<1> QED BY <1>4, <1>5, <1>6

\* The same where elements may repeat.
LEMMA TailHolds ==
  ASSUME NEW S, NEW s \in Seq(S), s # <<>>
  PROVE  /\ Head(s) \in S /\ Head(s) \in Elems(s)
         /\ Tail(s) \in Seq(S) /\ Elems(Tail(s)) \subseteq Elems(s)
<1>1. /\ Len(s) \in Nat /\ Len(s) >= 1 /\ DOMAIN s = 1 .. Len(s)
      /\ Head(s) = s[1] /\ Head(s) \in S /\ Tail(s) \in Seq(S)
      /\ DOMAIN Tail(s) = 1 .. Len(s) - 1
      /\ \A k \in 1 .. Len(s) - 1 : Tail(s)[k] = s[k + 1]
  BY HeadTailProperties, EmptySeq
<1>2. 1 \in DOMAIN s /\ \A k \in 1 .. Len(s) - 1 : k + 1 \in DOMAIN s
  BY <1>1
<1> QED BY <1>1, <1>2 DEF Elems

LEMMA AppendHolds ==
  ASSUME NEW S, NEW s \in Seq(S), NEW e \in S
  PROVE  /\ Elems(Append(s, e)) = Elems(s) \cup {e}
         /\ s # <<>> => Head(Append(s, e)) = Head(s)
<1>1. /\ Len(s) \in Nat /\ DOMAIN s = 1 .. Len(s)
      /\ DOMAIN Append(s, e) = 1 .. Len(s) + 1
      /\ \A k \in 1 .. Len(s) : Append(s, e)[k] = s[k]
      /\ Append(s, e)[Len(s) + 1] = e
  BY AppendProperties
<1>2. 1 .. Len(s) + 1 = (1 .. Len(s)) \cup {Len(s) + 1}
  BY <1>1
<1>3. s # <<>> => 1 \in 1 .. Len(s) /\ Head(s) = s[1]
  BY <1>1, HeadTailProperties, EmptySeq
<1>4. Head(Append(s, e)) = Append(s, e)[1]
  BY AppendProperties, HeadTailProperties
<1> QED BY <1>1, <1>2, <1>3, <1>4 DEF Elems

\* The same of the ids of records.
LEMMA TailIds ==
  ASSUME NEW S, NEW s \in Seq(S), s # <<>>, Distinct(s)
  PROVE  /\ Head(s) \in S /\ Head(s).id \in SeqIds(s)
         /\ Tail(s) \in Seq(S) /\ Distinct(Tail(s))
         /\ SeqIds(Tail(s)) = SeqIds(s) \ {Head(s).id}
<1>1. /\ Len(s) \in Nat /\ Len(s) >= 1 /\ DOMAIN s = 1 .. Len(s)
      /\ Head(s) = s[1] /\ Tail(s) \in Seq(S)
      /\ DOMAIN Tail(s) = 1 .. Len(s) - 1
      /\ \A k \in 1 .. Len(s) - 1 : Tail(s)[k] = s[k + 1]
  BY HeadTailProperties, EmptySeq
<1>2. \A k \in 1 .. Len(s) : k = 1 \/ k - 1 \in 1 .. Len(s) - 1
  BY <1>1
<1>3. \A k \in 1 .. Len(s) - 1 : k + 1 \in 1 .. Len(s) /\ k + 1 # 1
  BY <1>1
<1>4. Distinct(Tail(s))
  BY <1>1, <1>3 DEF Distinct
<1>5. SeqIds(Tail(s)) \subseteq SeqIds(s) \ {Head(s).id}
  BY <1>1, <1>3 DEF Distinct, SeqIds
<1>6. ASSUME NEW k \in DOMAIN s, s[k].id # Head(s).id
      PROVE  s[k].id \in SeqIds(Tail(s))
  <2>1. k - 1 \in DOMAIN Tail(s) /\ Tail(s)[k - 1] = s[k]
    BY <1>1, <1>2, <1>6
  <2> QED BY <2>1 DEF SeqIds
<1>7. SeqIds(s) \ {Head(s).id} \subseteq SeqIds(Tail(s))
  BY <1>6 DEF SeqIds
<1>8. Head(s) \in S /\ Head(s).id \in SeqIds(s)
  BY <1>1 DEF SeqIds
<1> QED BY <1>1, <1>4, <1>5, <1>7, <1>8

LEMMA AppendIds ==
  ASSUME NEW S, NEW s \in Seq(S), NEW t \in S, Distinct(s), t.id \notin SeqIds(s)
  PROVE  /\ Append(s, t) \in Seq(S) /\ Distinct(Append(s, t))
         /\ SeqIds(Append(s, t)) = SeqIds(s) \cup {t.id}
         /\ Append(s, t) # <<>>
<1>1. /\ Len(s) \in Nat /\ DOMAIN s = 1 .. Len(s)
      /\ Append(s, t) \in Seq(S)
      /\ DOMAIN Append(s, t) = 1 .. Len(s) + 1
      /\ \A k \in 1 .. Len(s) : Append(s, t)[k] = s[k]
      /\ Append(s, t)[Len(s) + 1] = t
      /\ Append(s, t) # <<>>
  BY AppendProperties
<1>2. \A k \in 1 .. Len(s) + 1 : k \in 1 .. Len(s) \/ k = Len(s) + 1
  BY <1>1
<1>3. \A k \in 1 .. Len(s) : k \in 1 .. Len(s) + 1
  BY <1>1
<1>4. Len(s) + 1 \in 1 .. Len(s) + 1
  BY <1>1
<1>5. Distinct(Append(s, t))
  BY <1>1, <1>2 DEF Distinct, SeqIds
<1>6. SeqIds(Append(s, t)) \subseteq SeqIds(s) \cup {t.id}
  BY <1>1, <1>2 DEF SeqIds
<1>7. SeqIds(s) \subseteq SeqIds(Append(s, t))
  BY <1>1, <1>3 DEF SeqIds
<1>8. t.id \in SeqIds(Append(s, t))
  BY <1>1, <1>4 DEF SeqIds
<1> QED BY <1>1, <1>5, <1>6, <1>7, <1>8

\* One sequence of records after another, with none of its ids.
LEMMA ConcatIds ==
  ASSUME NEW S, NEW s \in Seq(S), NEW t \in Seq(S), Distinct(s), Distinct(t),
         SeqIds(s) \cap SeqIds(t) = {}
  PROVE  Distinct(s \o t) /\ SeqIds(s \o t) = SeqIds(s) \cup SeqIds(t)
<1> PICK m \in Nat, n \in Nat : m = Len(s) /\ n = Len(t)
  BY LenProperties
<1>1. /\ DOMAIN s = 1 .. m /\ DOMAIN t = 1 .. n /\ DOMAIN (s \o t) = 1 .. m + n
      /\ \A k \in 1 .. m + n : (s \o t)[k] = IF k <= m THEN s[k] ELSE t[k - m]
  BY ConcatProperties, LenProperties
<1>2. \A k \in 1 .. m : k \in 1 .. m + n /\ (s \o t)[k] = s[k]
  BY <1>1
<1>3. \A k \in 1 .. n : k + m \in 1 .. m + n /\ (s \o t)[k + m] = t[k]
  <2> SUFFICES ASSUME NEW k \in 1 .. n
               PROVE  k + m \in 1 .. m + n /\ (s \o t)[k + m] = t[k]
    OBVIOUS
  <2>1. k + m \in 1 .. m + n /\ ~(k + m <= m) /\ (k + m) - m = k
    OBVIOUS
  <2> QED BY <1>1, <2>1
<1>4. \A k \in 1 .. m : s[k].id \in SeqIds(s)
  BY <1>1 DEF SeqIds
<1>5. \A k \in 1 .. n : t[k].id \in SeqIds(t)
  BY <1>1 DEF SeqIds
<1>6. ASSUME NEW k \in 1 .. m + n
      PROVE  \/ k \in 1 .. m /\ (s \o t)[k] = s[k] /\ s[k].id \in SeqIds(s)
             \/ k - m \in 1 .. n /\ (s \o t)[k] = t[k - m] /\ t[k - m].id \in SeqIds(t)
  <2>1. CASE k <= m
    <3>1. k \in 1 .. m
      BY <2>1
    <3> QED BY <1>2, <1>4, <3>1
  <2>2. CASE ~(k <= m)
    <3>1. k - m \in 1 .. n
      BY <2>2
    <3> QED BY <1>1, <1>5, <2>2, <3>1
  <2> QED BY <2>1, <2>2
<1>7. ASSUME NEW j \in 1 .. m + n, NEW k \in 1 .. m + n, (s \o t)[j].id = (s \o t)[k].id
      PROVE  j = k
  <2>1. CASE j \in 1 .. m /\ k \in 1 .. m
    BY <1>1, <1>2, <1>7, <2>1 DEF Distinct
  <2>2. CASE j - m \in 1 .. n /\ k - m \in 1 .. n
    <3>1. t[j - m].id = t[k - m].id
      BY <1>1, <1>6, <1>7, <2>2
    <3>2. j - m = k - m
      BY <1>1, <2>2, <3>1 DEF Distinct
    <3> QED BY <3>2
  <2> QED BY <1>6, <1>7, <2>1, <2>2
<1>8. Distinct(s \o t)
  BY <1>1, <1>7 DEF Distinct
<1>9. \A k \in 1 .. m + n : (s \o t)[k].id \in SeqIds(s) \cup SeqIds(t)
  BY <1>6
<1>10. \A k \in 1 .. m : s[k].id \in SeqIds(s \o t)
  BY <1>1, <1>2 DEF SeqIds
<1>11. \A k \in 1 .. n : t[k].id \in SeqIds(s \o t)
  <2> SUFFICES ASSUME NEW k \in 1 .. n PROVE t[k].id \in SeqIds(s \o t)
    OBVIOUS
  <2>1. k + m \in DOMAIN (s \o t) /\ (s \o t)[k + m] = t[k]
    BY <1>1, <1>3
  <2> QED BY <2>1 DEF SeqIds
<1>12. SeqIds(s \o t) \subseteq SeqIds(s) \cup SeqIds(t)
  BY <1>1, <1>9 DEF SeqIds
<1>13. SeqIds(s) \cup SeqIds(t) \subseteq SeqIds(s \o t)
  BY <1>1, <1>10, <1>11 DEF SeqIds
<1> QED BY <1>8, <1>12, <1>13

\* The elements of a tail and of a sequence with more behind it.
LEMMA TailElements ==
  ASSUME NEW S, NEW s \in Seq(S), s # <<>>
  PROVE  /\ \A k \in DOMAIN Tail(s) : k + 1 \in DOMAIN s /\ Tail(s)[k] = s[k + 1]
         /\ \A k \in DOMAIN s : k = 1 \/ (k - 1 \in DOMAIN Tail(s) /\ Tail(s)[k - 1] = s[k])
         /\ 1 \in DOMAIN s /\ Head(s) = s[1]
<1>1. /\ Len(s) \in Nat /\ Len(s) >= 1 /\ DOMAIN s = 1 .. Len(s)
      /\ Head(s) = s[1]
      /\ DOMAIN Tail(s) = 1 .. Len(s) - 1
      /\ \A k \in 1 .. Len(s) - 1 : Tail(s)[k] = s[k + 1]
  BY HeadTailProperties, EmptySeq
<1>2. \A k \in 1 .. Len(s) : k = 1 \/ (k - 1 \in 1 .. Len(s) - 1 /\ k - 1 + 1 = k)
  BY <1>1
<1>3. \A k \in 1 .. Len(s) - 1 : k + 1 \in 1 .. Len(s)
  BY <1>1
<1> QED BY <1>1, <1>2, <1>3

LEMMA AppendElements ==
  ASSUME NEW S, NEW s \in Seq(S), NEW m \in S
  PROVE  /\ \A k \in DOMAIN Append(s, m) :
              \/ k \in DOMAIN s /\ Append(s, m)[k] = s[k]
              \/ k = Len(s) + 1 /\ Append(s, m)[k] = m
         /\ \A k \in DOMAIN s : k \in DOMAIN Append(s, m) /\ Append(s, m)[k] = s[k]
                                /\ k < Len(s) + 1
         /\ Len(s) + 1 \in DOMAIN Append(s, m)
<1>1. /\ Len(s) \in Nat /\ DOMAIN s = 1 .. Len(s)
      /\ DOMAIN Append(s, m) = 1 .. Len(s) + 1
      /\ \A k \in 1 .. Len(s) : Append(s, m)[k] = s[k]
      /\ Append(s, m)[Len(s) + 1] = m
  BY AppendProperties
<1>2. /\ \A k \in 1 .. Len(s) + 1 : k \in 1 .. Len(s) \/ k = Len(s) + 1
      /\ \A k \in 1 .. Len(s) : k \in 1 .. Len(s) + 1 /\ k < Len(s) + 1
      /\ Len(s) + 1 \in 1 .. Len(s) + 1
  BY <1>1
<1> QED BY <1>1, <1>2

LEMMA ConcatElements ==
  ASSUME NEW S, NEW s \in Seq(S), NEW t \in Seq(S)
  PROVE  \A k \in DOMAIN (s \o t) :
           \/ k \in DOMAIN s /\ (s \o t)[k] = s[k]
           \/ \E j \in DOMAIN t : (s \o t)[k] = t[j]
<1> PICK m \in Nat, n \in Nat : m = Len(s) /\ n = Len(t)
  BY LenProperties
<1>1. /\ DOMAIN s = 1 .. m /\ DOMAIN t = 1 .. n /\ DOMAIN (s \o t) = 1 .. m + n
      /\ \A k \in 1 .. m + n : (s \o t)[k] = IF k <= m THEN s[k] ELSE t[k - m]
  BY ConcatProperties, LenProperties
<1>2. \A k \in 1 .. m + n : (k <= m /\ k \in 1 .. m) \/ (~(k <= m) /\ k - m \in 1 .. n)
  OBVIOUS
<1> QED BY <1>1, <1>2

================================================================================
