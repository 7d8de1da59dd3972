--------------------------- MODULE KafkaParserProofs ---------------------------
(***************************************************************************)
(* The parser against what a document says: whatever it finds is written   *)
(* in the Kafka section, and with unambiguous keys it finds what the first *)
(* path of the rules says.  Its walks are functions that are defined       *)
(* recursively; that there are such functions is proved first.             *)
(***************************************************************************)
EXTENDS PodInspection, SequenceTheorems, WellFoundedInduction, TLAPS

-----------------------------------------------------------------------------
(***************************************************************************)
(* Recursive functions.                                                    *)
(***************************************************************************)

LEMMA LeastNatural ==
  ASSUME NEW S \in SUBSET Nat, S # {}
  PROVE  \E x \in S : \A y \in S : x <= y
<1>1. PICK x \in S : \A y \in S : ~(<<y, x>> \in OpToRel(<, Nat))
  BY WFMin, NatLessThanWellFounded
<1>2. \A y \in S : ~(y < x)
  BY <1>1 DEF OpToRel
<1>3. \A y \in S : x \in Nat /\ y \in Nat
  OBVIOUS
<1>4. \A y \in S : x <= y
  BY <1>2, <1>3
<1>5. QED
  BY <1>4

\* Induction over an interval, for a property that is given as a set.
LEMMA IntervalInduction ==
  ASSUME NEW n \in Nat, NEW S, 0 \in S, \A i \in 1..n : i - 1 \in S => i \in S
  PROVE  \A i \in 0..n : i \in S
<1> SUFFICES ASSUME NEW i \in (0..n) \ S PROVE FALSE
  OBVIOUS
<1>1. (0..n) \ S \in SUBSET Nat
  OBVIOUS
<1>2. PICK x \in (0..n) \ S : \A y \in (0..n) \ S : x <= y
  BY <1>1, LeastNatural, Zenon
<1>3. x \in 1..n
  BY <1>2
<1>4. x - 1 \in 0..n /\ ~(x <= x - 1)
  BY <1>3
<1>5. QED
  BY <1>2, <1>3, <1>4

\* A first value and a step for each position make a function.
Steps(n, S) == [1..n -> [S -> S]]
IsBuilt(w, n, S, first, step) ==
  w \in [0..n -> S] /\ w[0] = first /\ \A i \in 1..n : w[i] = step[i][w[i - 1]]

LEMMA Recursion ==
  ASSUME NEW S, NEW n \in Nat, NEW first \in S, NEW step \in Steps(n, S)
  PROVE  \E w : IsBuilt(w, n, S, first, step)
<1>0. step \in [1..n -> [S -> S]]
  BY DEF Steps
<1> DEFINE Built == {m \in 0..n : \E w \in [0..m -> S] :
                       w[0] = first /\ \A i \in 1..m : w[i] = step[i][w[i - 1]]}
<1>1. 0 \in Built
  <2> DEFINE w == [i \in 0..0 |-> first]
  <2>1. w \in [0..0 -> S] /\ w[0] = first /\ (1..0) = {}
    OBVIOUS
  <2>2. \A i \in 1..0 : w[i] = step[i][w[i - 1]]
    BY <2>1
  <2> HIDE DEF w
  <2>3. QED
    BY <2>1, <2>2
<1>2. ASSUME NEW m \in 1..n, m - 1 \in Built PROVE m \in Built
  <2>1. PICK v \in [0..(m - 1) -> S] :
          v[0] = first /\ \A i \in 1..(m - 1) : v[i] = step[i][v[i - 1]]
    BY <1>2
  <2> DEFINE w == [i \in 0..m |-> IF i < m THEN v[i] ELSE step[m][v[m - 1]]]
  <2>2. step[m][v[m - 1]] \in S
    BY <1>0, <2>1
  <2>3. w \in [0..m -> S] /\ w[0] = first
    BY <2>1, <2>2
  <2>4. ASSUME NEW i \in 1..m PROVE w[i] = step[i][w[i - 1]]
    <3>1. w[i - 1] = v[i - 1]
      OBVIOUS
    <3>2. CASE i = m
      BY <3>1, <3>2
    <3>3. CASE i # m
      <4>1. i \in 1..(m - 1) /\ i < m
        BY <3>3
      <4>2. QED
        BY <2>1, <3>1, <4>1
    <3>4. QED
      BY <3>2, <3>3
  <2> HIDE DEF w
  <2>5. \E u \in [0..m -> S] : u[0] = first /\ \A i \in 1..m : u[i] = step[i][u[i - 1]]
    BY <2>3, <2>4
  <2>6. m \in 0..n
    OBVIOUS
  <2>7. QED
    BY <2>5, <2>6, Zenon
<1> HIDE DEF Built
<1>3. \A i \in 0..n : i \in Built
  BY <1>1, <1>2, IntervalInduction
<1>4. n \in Built
  BY <1>3
<1>5. QED
  BY <1>4 DEF Built, IsBuilt

-----------------------------------------------------------------------------
(***************************************************************************)
(* Trees: what a document has below some keys.                             *)
(***************************************************************************)

Leaf == [path : Seq(Keys), kind : STRING, says : Scalars]
Under(keys, l) == [l EXCEPT !.path = keys \o @]
Sub(tree, keys) == {l \in Leaf : Under(keys, l) \in tree}

LEMMA HeadAndTail ==
  ASSUME NEW S, NEW s \in Seq(S)
  PROVE  /\ s # <<>> => <<Head(s)>> \o Tail(s) = s
         /\ \A k \in S : /\ <<k>> \o s \in Seq(S) /\ <<k>> \o s # <<>>
                         /\ Len(<<k>> \o s) = Len(s) + 1
                         /\ Head(<<k>> \o s) = k /\ Tail(<<k>> \o s) = s
<1>1. ASSUME s # <<>> PROVE <<Head(s)>> \o Tail(s) = s
  <2>1. Head(s) \in S /\ Tail(s) \in Seq(S) /\ Len(Tail(s)) = Len(s) - 1
    BY <1>1, HeadTailProperties
  <2>2. \A i \in 1..Len(Tail(s)) : Tail(s)[i] = s[i + 1]
    BY <1>1, HeadTailProperties
  <2>3. <<Head(s)>> \in Seq(S) /\ Len(<<Head(s)>>) = 1 /\ Head(s) = s[1]
    BY <2>1
  <2>4. QED
    BY <2>1, <2>2, <2>3, SeqEqual, ConcatProperties
<1>2. ASSUME NEW k \in S
      PROVE  /\ <<k>> \o s \in Seq(S) /\ <<k>> \o s # <<>>
             /\ Len(<<k>> \o s) = Len(s) + 1
             /\ Head(<<k>> \o s) = k /\ Tail(<<k>> \o s) = s
  <2> DEFINE t == <<k>> \o s
  <2>1. <<k>> \in Seq(S) /\ Len(<<k>>) = 1 /\ <<k>>[1] = k
    OBVIOUS
  <2>2. t \in Seq(S) /\ Len(t) = Len(s) + 1 /\ t[1] = k
    BY <2>1, ConcatProperties
  <2>3. \A i \in 1..Len(s) : t[i + 1] = s[i]
    BY <2>1, ConcatProperties
  <2>4. t # <<>>
    BY <2>2, EmptySeq
  <2> HIDE DEF t
  <2>5. Head(t) = k
    BY <2>2
  <2>6. Tail(t) \in Seq(S) /\ Len(Tail(t)) = Len(s)
    BY <2>2, <2>4, HeadTailProperties
  <2>7. \A i \in 1..Len(s) : Tail(t)[i] = s[i]
    BY <2>2, <2>3, <2>4, <2>6, HeadTailProperties
  <2>8. Tail(t) = s
    BY <2>6, <2>7, SeqEqual
  <2>9. QED
    BY <2>2, <2>4, <2>5, <2>8 DEF t
<1>3. QED
  BY <1>1, <1>2

LEMMA UnderType ==
  ASSUME NEW keys \in Seq(Keys), NEW l \in Leaf
  PROVE  /\ Under(keys, l) \in Leaf /\ Under(keys, l).path = keys \o l.path
         /\ Under(keys, l).kind = l.kind /\ Under(keys, l).says = l.says
BY ConcatProperties DEF Under, Leaf

LEMMA SubAtTop ==
  ASSUME NEW tree \in SUBSET Leaf
  PROVE  Sub(tree, <<>>) = tree
<1>1. \A l \in Leaf : Under(<<>>, l) = l
  BY ConcatEmptySeq DEF Under, Leaf
<1>2. QED
  BY <1>1 DEF Sub

LEMMA SubOfSub ==
  ASSUME NEW tree, NEW keys \in Seq(Keys), NEW more \in Seq(Keys)
  PROVE  Sub(Sub(tree, keys), more) = Sub(tree, keys \o more)
<1>1. ASSUME NEW l \in Leaf
      PROVE  Under(more, l) \in Leaf /\ Under(keys, Under(more, l)) = Under(keys \o more, l)
  <2>1. l.path \in Seq(Keys) /\ l = [path |-> l.path, kind |-> l.kind, says |-> l.says]
    BY DEF Leaf
  <2>2. keys \o (more \o l.path) = (keys \o more) \o l.path
    BY <2>1, ConcatAssociative
  <2>3. QED
    BY <2>1, <2>2, UnderType DEF Under
<1>2. QED
  BY <1>1 DEF Sub

LEMMA BelowIsSub ==
  ASSUME NEW tree \in SUBSET Leaf, NEW k \in Keys
  PROVE  Below(tree, k) = Sub(tree, <<k>>) /\ Below(tree, k) \in SUBSET Leaf
<1>1. <<k>> \in Seq(Keys)
  OBVIOUS
<1>2. ASSUME NEW l \in Below(tree, k) PROVE l \in Sub(tree, <<k>>)
  <2>1. PICK m \in tree : m.path # <<>> /\ Head(m.path) = k /\ l = [m EXCEPT !.path = Tail(@)]
    BY <1>2 DEF Below
  <2>2. m \in Leaf /\ m.path \in Seq(Keys)
    BY DEF Leaf
  <2>3. Tail(m.path) \in Seq(Keys) /\ <<k>> \o Tail(m.path) = m.path
    BY <2>1, <2>2, HeadAndTail, HeadTailProperties
  <2>4. l \in Leaf /\ l.path = Tail(m.path) /\ l.kind = m.kind /\ l.says = m.says
    BY <2>1, <2>2, <2>3 DEF Leaf
  <2>5. Under(<<k>>, l) = m
    <3>1. Under(<<k>>, l) \in Leaf /\ Under(<<k>>, l).path = m.path
          /\ Under(<<k>>, l).kind = m.kind /\ Under(<<k>>, l).says = m.says
      BY <1>1, <2>3, <2>4, UnderType
    <3>2. QED
      BY <2>2, <3>1 DEF Leaf
  <2>6. QED
    BY <2>1, <2>4, <2>5 DEF Sub
<1>3. ASSUME NEW l \in Sub(tree, <<k>>) PROVE l \in Below(tree, k)
  <2>1. l \in Leaf /\ Under(<<k>>, l) \in tree /\ l.path \in Seq(Keys)
    BY <1>3 DEF Sub, Leaf
  <2> DEFINE m == Under(<<k>>, l)
  <2>2. m \in tree /\ m \in Leaf /\ m.path = <<k>> \o l.path /\ m.kind = l.kind /\ m.says = l.says
    BY <1>1, <2>1, UnderType
  <2> HIDE DEF m
  <2>3. m.path # <<>> /\ Head(m.path) = k /\ Tail(m.path) = l.path
    <3>1. l.path \in Seq(Keys)
      BY <2>1
    <3>2. <<k>> \o l.path # <<>> /\ Head(<<k>> \o l.path) = k /\ Tail(<<k>> \o l.path) = l.path
      BY <3>1, HeadAndTail
    <3>3. QED
      BY <2>2, <3>2
  <2>4. l = [m EXCEPT !.path = Tail(@)]
    BY <2>1, <2>2, <2>3 DEF Leaf
  <2>5. QED
    BY <2>2, <2>3, <2>4 DEF Below
<1>4. QED
  BY <1>2, <1>3 DEF Sub

\* A sequence is put together of two, and taken apart again.
LEMMA TakeApart ==
  ASSUME NEW S, NEW s \in Seq(S), NEW n \in 0..Len(s)
  PROVE  /\ SubSeq(s, 1, n) \in Seq(S) /\ Len(SubSeq(s, 1, n)) = n
         /\ SubSeq(s, n + 1, Len(s)) \in Seq(S) /\ Len(SubSeq(s, n + 1, Len(s))) = Len(s) - n
         /\ s = SubSeq(s, 1, n) \o SubSeq(s, n + 1, Len(s))
<1>1. Len(s) \in Nat /\ \A i \in 1..Len(s) : s[i] \in S
  BY LenProperties
<1>2. SubSeq(s, 1, n) \in Seq(S) /\ Len(SubSeq(s, 1, n)) = n
  <2>1. \A i \in 1..n : s[i] \in S
    BY <1>1
  <2>2. QED
    BY <1>1, <2>1, SubSeqProperties
<1>3. SubSeq(s, n + 1, Len(s)) \in Seq(S) /\ Len(SubSeq(s, n + 1, Len(s))) = Len(s) - n
  <2>1. \A i \in (n + 1)..Len(s) : s[i] \in S
    BY <1>1
  <2>2. n + 1 \in Int /\ Len(s) \in Int
    BY <1>1
  <2>3. QED
    BY <1>1, <2>1, <2>2, SubSeqProperties
<1>4. s = SubSeq(s, 1, n) \o SubSeq(s, n + 1, Len(s))
  <2>1. 1 \in 1..(Len(s) + 1) /\ n \in (1 - 1)..Len(s) /\ Len(s) \in n..Len(s)
    BY <1>1
  <2>2. SubSeq(s, 1, n) \o SubSeq(s, n + 1, Len(s)) = SubSeq(s, 1, Len(s))
    BY <2>1, ConcatAdjacentSubSeq
  <2>3. QED
    BY <2>2, SubSeqFull
<1>5. QED
  BY <1>2, <1>3, <1>4

LEMMA PutTogether ==
  ASSUME NEW S, NEW s \in Seq(S), NEW t \in Seq(S)
  PROVE  /\ s \o t \in Seq(S) /\ Len(s \o t) = Len(s) + Len(t)
         /\ SubSeq(s \o t, 1, Len(s)) = s
         /\ SubSeq(s \o t, Len(s) + 1, Len(s) + Len(t)) = t
<1>1. Len(s) \in Nat /\ Len(t) \in Nat
  BY LenProperties
<1>2. s \o t \in Seq(S) /\ Len(s \o t) = Len(s) + Len(t)
  BY ConcatProperties
<1>3. \A i \in 1..(Len(s) + Len(t)) :
        (s \o t)[i] = (IF i <= Len(s) THEN s[i] ELSE t[i - Len(s)]) /\ (s \o t)[i] \in S
  BY <1>1, <1>2, ConcatProperties, LenProperties
<1>4. SubSeq(s \o t, 1, Len(s)) = s
  <2>1. \A i \in 1..Len(s) : (s \o t)[i] \in S /\ (s \o t)[i] = s[i]
    BY <1>1, <1>3
  <2>2. /\ SubSeq(s \o t, 1, Len(s)) \in Seq(S) /\ Len(SubSeq(s \o t, 1, Len(s))) = Len(s)
        /\ \A i \in 1..Len(s) : SubSeq(s \o t, 1, Len(s))[i] = (s \o t)[i]
    BY <1>1, <2>1, SubSeqProperties
  <2>3. QED
    BY <2>1, <2>2, SeqEqual
<1>5. SubSeq(s \o t, Len(s) + 1, Len(s) + Len(t)) = t
  <2>1. PICK m \in Int : m = Len(s) + 1
    BY <1>1
  <2>2. PICK n \in Int : n = Len(s) + Len(t)
    BY <1>1
  <2>3. PICK u : u = s \o t
    OBVIOUS
  <2>4. \A i \in m..n : u[i] \in S
    BY <1>1, <1>3, <2>1, <2>2, <2>3
  <2>5. /\ SubSeq(u, m, n) \in Seq(S)
        /\ Len(SubSeq(u, m, n)) = IF m <= n THEN n - m + 1 ELSE 0
        /\ \A i \in 1..(n - m + 1) : SubSeq(u, m, n)[i] = u[m + i - 1]
    BY <2>4, SubSeqProperties
  <2>6. Len(SubSeq(u, m, n)) = Len(t) /\ n - m + 1 = Len(t)
    BY <1>1, <2>1, <2>2, <2>5
  <2>7. \A i \in 1..Len(t) : u[m + i - 1] = t[i]
    BY <1>1, <1>3, <2>1, <2>3
  <2>8. SubSeq(u, m, n) = t
    BY <2>5, <2>6, <2>7, SeqEqual
  <2>9. QED
    BY <2>1, <2>2, <2>3, <2>8
<1>6. QED
  BY <1>2, <1>4, <1>5

\* In a document, a leaf that is reached has no other beside it.
LEMMA OneLeafAlone ==
  ASSUME NEW doc, IsDocument(doc), NEW keys \in Seq(Keys),
         NEW l \in Sub(doc, keys), l.path = <<>>
  PROVE  Sub(doc, keys) = {l}
<1> SUFFICES ASSUME NEW m \in Sub(doc, keys) PROVE m = l
  OBVIOUS
<1>1. /\ l \in Leaf /\ m \in Leaf /\ Under(keys, l) \in doc /\ Under(keys, m) \in doc
      /\ l.path \in Seq(Keys) /\ m.path \in Seq(Keys)
  BY DEF Sub, Leaf
<1>2. Under(keys, l).path = keys
  <2>1. Under(keys, l).path = keys \o <<>>
    BY <1>1, UnderType
  <2>2. QED
    BY <2>1, ConcatEmptySeq
<1>3. Under(keys, m).path = keys \o m.path
  BY <1>1, UnderType
<1>4. /\ Len(keys) <= Len(keys \o m.path) /\ SubSeq(keys \o m.path, 1, Len(keys)) = keys
  BY <1>1, PutTogether, LenProperties
<1>5. Under(keys, l) = Under(keys, m)
  BY <1>1, <1>2, <1>3, <1>4 DEF IsDocument
<1>6. m.path = <<>>
  BY <1>1, <1>2, <1>3, <1>5, ConcatEqualIffEmpty
<1>7. m.kind = l.kind /\ m.says = l.says
  BY <1>1, <1>5, UnderType
<1>8. QED
  BY <1>1, <1>6, <1>7 DEF Leaf

\* A leaf of a document that lies below some keys.
LEMMA LeafBelow ==
  ASSUME NEW doc, IsDocument(doc), NEW keys \in Seq(Keys), NEW l \in doc,
         Len(keys) <= Len(l.path), SubSeq(l.path, 1, Len(keys)) = keys
  PROVE  \E m \in Sub(doc, keys) :
           /\ Under(keys, m) = l
           /\ m.path = SubSeq(l.path, Len(keys) + 1, Len(l.path))
           /\ Len(m.path) = Len(l.path) - Len(keys)
           /\ m.kind = l.kind /\ m.says = l.says
<1> DEFINE rest == SubSeq(l.path, Len(keys) + 1, Len(l.path))
<1> DEFINE m == [l EXCEPT !.path = SubSeq(@, Len(keys) + 1, Len(@))]
<1>1. l \in Leaf /\ l.path \in Seq(Keys) /\ Len(keys) \in 0..Len(l.path)
  <2>1. l \in Leaf /\ l.path \in Seq(Keys)
    BY DEF IsDocument, Leaf
  <2>2. Len(keys) \in Nat /\ Len(l.path) \in Nat
    BY <2>1, LenProperties
  <2>3. QED
    BY <2>1, <2>2
<1>2. rest \in Seq(Keys) /\ Len(rest) = Len(l.path) - Len(keys) /\ l.path = keys \o rest
  BY <1>1, TakeApart
<1> HIDE DEF rest
<1>3. m = [l EXCEPT !.path = rest] /\ m.path = rest /\ m.kind = l.kind /\ m.says = l.says
  BY <1>1 DEF rest, Leaf
<1>4. m \in Leaf
  BY <1>1, <1>2, <1>3 DEF Leaf
<1> HIDE DEF m
<1>5. Under(keys, m) = l
  <2>1. /\ Under(keys, m) \in Leaf /\ Under(keys, m).path = l.path
        /\ Under(keys, m).kind = l.kind /\ Under(keys, m).says = l.says
    <3>1. /\ Under(keys, m) \in Leaf /\ Under(keys, m).path = keys \o m.path
          /\ Under(keys, m).kind = m.kind /\ Under(keys, m).says = m.says
      BY <1>4, UnderType
    <3>2. QED
      BY <1>2, <1>3, <3>1
  <2>2. QED
    BY <1>1, <2>1 DEF Leaf
<1>6. m \in Sub(doc, keys)
  BY <1>4, <1>5 DEF Sub
<1>7. QED
  BY <1>2, <1>3, <1>5, <1>6 DEF rest

LEMMA MapIsMap ==
  ASSUME NEW doc, IsDocument(doc), NEW keys \in Seq(Keys)
  PROVE  IsMap(Sub(doc, keys)) <=> HasMapAt(doc, keys)
<1> DEFINE tree == Sub(doc, keys)
<1>1. ASSUME IsMap(tree) PROVE HasMapAt(doc, keys)
  <2>1. PICK m \in tree : m.path # <<>> \/ m.kind = "map"
    BY <1>1 DEF IsMap, Missing
  <2>2. m \in Leaf /\ m.path \in Seq(Keys) /\ Under(keys, m) \in doc
    BY DEF Sub, Leaf
  <2>3. Under(keys, m).path = keys \o m.path /\ Under(keys, m).kind = m.kind
    BY <2>2, UnderType
  <2>4. SubSeq(keys \o m.path, 1, Len(keys)) = keys
        /\ Len(keys \o m.path) = Len(keys) + Len(m.path)
    BY <2>2, PutTogether
  <2>5. Len(m.path) \in Nat /\ Len(keys) \in Nat /\ (Len(m.path) = 0 <=> m.path = <<>>)
    BY <2>2, EmptySeq, LenProperties
  <2>6. \/ Len(keys \o m.path) > Len(keys)
        \/ Len(keys \o m.path) = Len(keys) /\ m.kind = "map"
    <3>1. PICK n \in Nat, k \in Nat : n = Len(m.path) /\ k = Len(keys)
      BY <2>5
    <3>2. Len(keys \o m.path) = k + n /\ (n = 0 => m.kind = "map")
      BY <2>1, <2>4, <2>5, <3>1
    <3>3. CASE n = 0
      BY <3>1, <3>2, <3>3
    <3>4. CASE n # 0
      <4>1. k + n > k
        BY <3>4
      <4>2. QED
        BY <3>1, <3>2, <4>1
    <3>5. QED
      BY <3>3, <3>4
  <2>7. QED
    BY <2>2, <2>3, <2>4, <2>6 DEF HasMapAt
<1>2. ASSUME HasMapAt(doc, keys) PROVE IsMap(tree)
  <2>1. PICK l \in doc : /\ Len(l.path) > Len(keys) \/ (Len(l.path) = Len(keys) /\ l.kind = "map")
                         /\ SubSeq(l.path, 1, Len(keys)) = keys
    BY <1>2 DEF HasMapAt
  <2>2. Len(keys) \in Nat /\ Len(l.path) \in Nat
    BY LenProperties DEF IsDocument
  <2>3. PICK m \in tree : Len(m.path) = Len(l.path) - Len(keys) /\ m.kind = l.kind
    <3>1. Len(keys) <= Len(l.path)
      BY <2>1, <2>2
    <3>2. QED
      BY <2>1, <3>1, LeafBelow
  <2>4. m.path # <<>> \/ m.kind = "map"
    BY <2>1, <2>2, <2>3, EmptySeq
  <2>5. \A x \in tree : x.path = <<>> => x = m
    BY OneLeafAlone
  <2>6. \A x \in tree : x.path # <<>> \/ x.kind = "map"
    BY <2>4, <2>5
  <2>7. QED
    BY <2>3, <2>6 DEF IsMap, Missing
<1>3. QED
  BY <1>1, <1>2

\* The root is what lies below the Kafka section.
LEMMA RootIsSection ==
  ASSUME NEW doc, IsDocument(doc)
  PROVE  /\ Section(doc) \in Seq(Keys)
         /\ KafkaRoot(doc) = [data |-> Sub(doc, Section(doc)), converted |-> Section(doc) # <<>>]
<1> DEFINE kafka == Below(doc, "kafka")
<1> DEFINE nested == Below(Below(doc, "thirdParties"), "kafka")
<1>1. doc \in SUBSET Leaf
  BY DEF IsDocument, Leaf
<1>2. "kafka" \in Keys /\ "thirdParties" \in Keys
  BY ParserAssumption
<1>3. /\ <<"kafka">> \in Seq(Keys) /\ <<"thirdParties">> \in Seq(Keys)
      /\ <<"thirdParties", "kafka">> \in Seq(Keys) /\ <<>> \in Seq(Keys)
      /\ <<"thirdParties">> \o <<"kafka">> = <<"thirdParties", "kafka">>
      /\ <<"kafka">> # <<>> /\ <<"thirdParties", "kafka">> # <<>>
  <2>1. <<"kafka">> \in Seq(Keys) /\ <<"thirdParties">> \in Seq(Keys) /\ <<>> \in Seq(Keys)
    BY <1>2
  <2>2. <<"thirdParties", "kafka">> \in Seq(Keys)
    BY <1>2
  <2>3. <<"thirdParties">> \o <<"kafka">> = <<"thirdParties", "kafka">>
    <3> DEFINE s == <<"thirdParties">>
    <3> DEFINE t == <<"kafka">>
    <3>1. s \in Seq(Keys) /\ t \in Seq(Keys) /\ Len(s) = 1 /\ Len(t) = 1
          /\ s[1] = "thirdParties" /\ t[1] = "kafka"
      BY <2>1
    <3>2. /\ s \o t \in Seq(Keys) /\ Len(s \o t) = 2
          /\ (s \o t)[1] = "thirdParties" /\ (s \o t)[2] = "kafka"
      <4> HIDE DEF s, t
      <4>1. QED
        BY <3>1, ConcatProperties
    <3>3. PICK u \in Seq(Keys) : u = s \o t
      BY <3>2
    <3>4. PICK v \in Seq(Keys) : v = <<"thirdParties", "kafka">>
      BY <2>2
    <3>5. Len(u) = 2 /\ Len(v) = 2 /\ u[1] = v[1] /\ u[2] = v[2]
      BY <3>2, <3>3, <3>4
    <3>6. u = v
      BY <3>5, SeqEqual
    <3>7. QED
      BY <3>3, <3>4, <3>6
  <2>4. <<"kafka">> # <<>> /\ <<"thirdParties", "kafka">> # <<>>
    OBVIOUS
  <2>5. QED
    BY <2>1, <2>2, <2>3, <2>4
<1>4. kafka = Sub(doc, <<"kafka">>)
  BY <1>1, <1>2, BelowIsSub
<1>5. nested = Sub(doc, <<"thirdParties", "kafka">>)
  <2>1. /\ Below(doc, "thirdParties") = Sub(doc, <<"thirdParties">>)
        /\ Below(doc, "thirdParties") \in SUBSET Leaf
    BY <1>1, <1>2, BelowIsSub
  <2>2. nested = Sub(Below(doc, "thirdParties"), <<"kafka">>)
    BY <1>2, <2>1, BelowIsSub
  <2>3. Sub(Sub(doc, <<"thirdParties">>), <<"kafka">>)
          = Sub(doc, <<"thirdParties">> \o <<"kafka">>)
    BY <1>3, SubOfSub
  <2>4. QED
    BY <1>3, <2>1, <2>2, <2>3
<1>6. /\ IsMap(kafka) <=> HasMapAt(doc, <<"kafka">>)
      /\ IsMap(nested) <=> HasMapAt(doc, <<"thirdParties", "kafka">>)
  BY <1>3, <1>4, <1>5, MapIsMap
<1>7. Sub(doc, <<>>) = doc
  BY <1>1, SubAtTop
<1>8. KafkaRoot(doc) =
        CASE IsMap(kafka) -> [data |-> kafka, converted |-> TRUE]
          [] ~IsMap(kafka) /\ IsMap(nested) -> [data |-> nested, converted |-> TRUE]
          [] OTHER -> [data |-> doc, converted |-> FALSE]
  BY DEF KafkaRoot
<1> HIDE DEF kafka, nested
<1>9. CASE IsMap(kafka)
  BY <1>3, <1>4, <1>6, <1>8, <1>9 DEF Section
<1>10. CASE ~IsMap(kafka) /\ IsMap(nested)
  BY <1>3, <1>5, <1>6, <1>8, <1>10 DEF Section
<1>11. CASE ~IsMap(kafka) /\ ~IsMap(nested)
  BY <1>3, <1>6, <1>7, <1>8, <1>11 DEF Section
<1>12. QED
  BY <1>9, <1>10, <1>11

-----------------------------------------------------------------------------
(***************************************************************************)
(* The walk of a path.                                                     *)
(***************************************************************************)

\* One step of the walk (getValueFromPath).
Enter(root, path, tree, i) ==
  LET matching == {k \in TopKeys(tree) : Fold[k] = path[i]}
  IN  IF IsMap(tree) /\ (i = 1 \/ root.converted) /\ matching # {}
      THEN {Below(tree, k) : k \in matching}
      ELSE {Missing}

\* The trees a walk may have come to after each step.
IsWalk(walk, root, path) ==
  /\ walk \in [0..Len(path) -> SUBSET SUBSET Leaf]
  /\ walk[0] = {root.data}
  /\ \A i \in 1..Len(path) : walk[i] = UNION {Enter(root, path, t, i) : t \in walk[i - 1]}

LEMMA TopKeysType ==
  ASSUME NEW tree \in SUBSET Leaf
  PROVE  TopKeys(tree) \subseteq Keys
BY HeadTailProperties DEF TopKeys, Leaf

LEMMA EnterType ==
  ASSUME NEW root, NEW path, NEW tree \in SUBSET Leaf, NEW i
  PROVE  Enter(root, path, tree, i) \in SUBSET SUBSET Leaf /\ Enter(root, path, tree, i) # {}
<1>1. \A k \in TopKeys(tree) : Below(tree, k) \in SUBSET Leaf
  BY TopKeysType, BelowIsSub
<1>2. QED
  BY <1>1 DEF Enter, Missing

LEMMA WalkExists ==
  ASSUME NEW root, root.data \in SUBSET Leaf, NEW path \in Seq(Keys)
  PROVE  \E walk : IsWalk(walk, root, path) /\ ValueFromPath(root, path) = walk[Len(path)]
<1> DEFINE n == Len(path)
<1> DEFINE F(w) == [i \in 0..n |->
             IF i = 0 THEN {root.data} ELSE UNION {Enter(root, path, t, i) : t \in w[i - 1]}]
<1> DEFINE walk == CHOOSE w : w = F(w)
<1>1. ValueFromPath(root, path) = walk[n]
  BY DEF ValueFromPath, Enter
<1> DEFINE S == SUBSET SUBSET Leaf
<1> DEFINE step == [i \in 1..n |-> [x \in S |-> UNION {Enter(root, path, t, i) : t \in x}]]
<1>2. n \in Nat /\ {root.data} \in S /\ 0 \in 0..n
  BY LenProperties
<1> HIDE DEF n
<1>3. step \in Steps(n, S)
  <2>1. ASSUME NEW i \in 1..n, NEW x \in S PROVE UNION {Enter(root, path, t, i) : t \in x} \in S
    BY EnterType
  <2>2. QED
    BY <2>1 DEF Steps
<1>4. PICK w \in [0..n -> S] : w[0] = {root.data} /\ \A i \in 1..n : w[i] = step[i][w[i - 1]]
  <2> HIDE DEF step, S
  <2>1. \E w : IsBuilt(w, n, S, {root.data}, step)
    BY <1>2, <1>3, Recursion
  <2>2. QED
    BY <2>1 DEF IsBuilt
<1>5. \A i \in 1..n : w[i] = UNION {Enter(root, path, t, i) : t \in w[i - 1]}
  <2>1. ASSUME NEW i \in 1..n PROVE w[i] = UNION {Enter(root, path, t, i) : t \in w[i - 1]}
    <3>1. i - 1 \in 0..n
      BY <1>2
    <3>2. w[i - 1] \in S /\ w[i] = step[i][w[i - 1]]
      <4> HIDE DEF step, S
      <4>1. QED
        BY <1>4, <3>1
    <3>3. QED
      BY <3>2
  <2>2. QED
    BY <2>1
<1> HIDE DEF step
<1>6. w = F(w)
  <2>1. \A i \in 0..n : w[i] = IF i = 0 THEN {root.data}
                              ELSE UNION {Enter(root, path, t, i) : t \in w[i - 1]}
    BY <1>2, <1>4, <1>5
  <2>2. QED
    BY <1>4, <2>1
<1>7. walk = F(walk)
  BY <1>6
<1> HIDE DEF walk
<1>8. \A i \in 0..n : walk[i] = IF i = 0 THEN {root.data}
                               ELSE UNION {Enter(root, path, t, i) : t \in walk[i - 1]}
  BY <1>7
<1>9. \A i \in 0..n : walk[i] \in S
  <2> DEFINE Typed == {i \in 0..n : walk[i] \in S}
  <2>1. 0 \in Typed
    BY <1>2, <1>8
  <2>2. ASSUME NEW i \in 1..n, i - 1 \in Typed PROVE i \in Typed
    <3>1. walk[i - 1] \in S /\ i \in 0..n /\ i # 0
      BY <2>2
    <3>2. walk[i] = UNION {Enter(root, path, t, i) : t \in walk[i - 1]}
      BY <1>8, <3>1
    <3>3. walk[i] \in S
      BY <3>1, <3>2, EnterType
    <3>4. QED
      BY <3>1, <3>3
  <2> HIDE DEF Typed
  <2>3. \A i \in 0..n : i \in Typed
    BY <1>2, <2>1, <2>2, IntervalInduction
  <2>4. QED
    BY <2>3 DEF Typed
<1>10. IsWalk(walk, root, path)
  <2>1. walk \in [0..n -> S]
    <3>1. walk = [i \in 0..n |-> walk[i]]
      BY <1>7
    <3>2. QED
      BY <1>9, <3>1
  <2>2. walk[0] = {root.data}
    BY <1>2, <1>8
  <2>3. ASSUME NEW i \in 1..n PROVE walk[i] = UNION {Enter(root, path, t, i) : t \in walk[i - 1]}
    <3>1. i \in 0..n /\ i # 0
      BY <1>2
    <3>2. QED
      BY <1>8, <3>1
  <2>4. QED
    BY <2>1, <2>2, <2>3 DEF IsWalk, n
<1>11. QED
  BY <1>1, <1>10 DEF n

\* Wherever a walk ends, the keys on its way are those of the path.
LEMMA WalkIsSound ==
  ASSUME NEW doc, IsDocument(doc), NEW path \in Seq(Keys),
         NEW t \in ValueFromPath(KafkaRoot(doc), path), t # Missing
  PROVE  \E keys \in Seq(Keys) :
           /\ Len(keys) = Len(path) /\ Folded(keys) = path
           /\ t = Sub(doc, Section(doc) \o keys)
           /\ Len(Section(doc)) > 0 \/ Len(path) <= 1
<1> DEFINE root == KafkaRoot(doc)
<1> DEFINE n == Len(path)
<1> DEFINE Right(u, i) ==
      \E keys \in Seq(Keys) :
        /\ Len(keys) = i /\ \A j \in 1..i : Fold[keys[j]] = path[j]
        /\ u = Sub(root.data, keys) /\ (i <= 1 \/ root.converted)
<1>1. doc \in SUBSET Leaf
  BY DEF IsDocument, Leaf
<1>2. /\ Section(doc) \in Seq(Keys) /\ root.data = Sub(doc, Section(doc))
      /\ root.converted <=> Section(doc) # <<>>
  <2>1. /\ Section(doc) \in Seq(Keys)
        /\ root = [data |-> Sub(doc, Section(doc)), converted |-> Section(doc) # <<>>]
    BY RootIsSection
  <2>2. root.data = Sub(doc, Section(doc)) /\ root.converted = (Section(doc) # <<>>)
    BY <2>1
  <2>3. QED
    BY <2>1, <2>2
<1>3. root.data \in SUBSET Leaf
  BY <1>2 DEF Sub
<1>4. n \in Nat
  BY LenProperties
<1>5. PICK walk : IsWalk(walk, root, path) /\ t \in walk[n]
  BY <1>3, WalkExists
<1> DEFINE Sound == {i \in 0..n : \A u \in walk[i] : u # Missing => Right(u, i)}
<1> HIDE DEF root, n
<1>6. 0 \in Sound
  <2>1. walk[0] = {root.data}
    BY <1>5 DEF IsWalk
  <2>2. root.data = Sub(root.data, <<>>) /\ <<>> \in Seq(Keys) /\ Len(<<>>) = 0
    BY <1>3, SubAtTop, EmptySeq
  <2>3. PICK none \in Seq(Keys) : none = <<>>
    BY <2>2
  <2>4. Right(root.data, 0)
    <3>1. Len(none) = 0 /\ \A j \in 1..0 : Fold[none[j]] = path[j]
      BY <2>2, <2>3
    <3>2. root.data = Sub(root.data, none) /\ 0 <= 1
      BY <2>2, <2>3
    <3>3. QED
      BY <3>1, <3>2
  <2>5. \A u \in walk[0] : u = root.data
    BY <2>1
  <2> HIDE DEF Right
  <2>6. QED
    BY <1>4, <2>4, <2>5
<1>7. ASSUME NEW i \in 1..n, i - 1 \in Sound PROVE i \in Sound
  <2> SUFFICES ASSUME NEW u \in walk[i], u # Missing PROVE Right(u, i)
    BY <1>4
  <2>1. walk[i - 1] \in SUBSET SUBSET Leaf
        /\ walk[i] = UNION {Enter(root, path, x, i) : x \in walk[i - 1]}
    BY <1>4, <1>5 DEF IsWalk, n
  <2>2. PICK x \in walk[i - 1] : u \in Enter(root, path, x, i)
    BY <2>1
  <2>3. PICK k \in TopKeys(x) : Fold[k] = path[i] /\ u = Below(x, k)
    BY <2>2 DEF Enter
  <2>4. x # Missing /\ (i = 1 \/ root.converted)
    BY <2>2 DEF Enter, IsMap
  <2>5. k \in Keys /\ x \in SUBSET Leaf
    BY <2>1, TopKeysType
  <2>6. PICK keys \in Seq(Keys) :
          /\ Len(keys) = i - 1 /\ \A j \in 1..(i - 1) : Fold[keys[j]] = path[j]
          /\ x = Sub(root.data, keys)
    BY <1>7, <2>4
  <2>7. u = Sub(root.data, keys \o <<k>>)
    <3>1. u = Sub(x, <<k>>)
      BY <2>3, <2>5, BelowIsSub
    <3>2. <<k>> \in Seq(Keys)
      BY <2>5
    <3>3. QED
      BY <2>6, <3>1, <3>2, SubOfSub
  <2>8. /\ keys \o <<k>> \in Seq(Keys) /\ Len(keys \o <<k>>) = i
        /\ \A j \in 1..i : (keys \o <<k>>)[j] = IF j <= i - 1 THEN keys[j] ELSE k
    <3>1. <<k>> \in Seq(Keys) /\ Len(<<k>>) = 1 /\ <<k>>[1] = k
      BY <2>5
    <3>2. PICK last \in Seq(Keys) : last = <<k>>
      BY <3>1
    <3>3. /\ keys \o last \in Seq(Keys) /\ Len(keys \o last) = i - 1 + 1
          /\ \A j \in 1..(i - 1 + 1) :
               (keys \o last)[j] = IF j <= i - 1 THEN keys[j] ELSE last[j - (i - 1)]
      BY <2>6, <3>1, <3>2, ConcatProperties
    <3>4. i - 1 + 1 = i /\ \A j \in 1..i : ~(j <= i - 1) => j - (i - 1) = 1
      BY <1>4
    <3>5. QED
      BY <3>1, <3>2, <3>3, <3>4
  <2>9. \A j \in 1..i : Fold[(keys \o <<k>>)[j]] = path[j]
    <3>1. ASSUME NEW j \in 1..i PROVE Fold[(keys \o <<k>>)[j]] = path[j]
      <4>1. CASE j <= i - 1
        <5>1. j \in 1..(i - 1)
          BY <1>4, <4>1
        <5>2. QED
          BY <2>6, <2>8, <4>1, <5>1
      <4>2. CASE ~(j <= i - 1)
        <5>1. j = i
          BY <1>4, <4>2
        <5>2. QED
          BY <2>3, <2>8, <4>2, <5>1
      <4>3. QED
        BY <4>1, <4>2
    <3>2. QED
      BY <3>1
  <2>10. i <= 1 \/ root.converted
    BY <2>4
  <2>11. PICK more \in Seq(Keys) : more = keys \o <<k>>
    BY <2>8
  <2>12. QED
    BY <2>7, <2>8, <2>9, <2>10, <2>11
<1>8. \A i \in 0..n : i \in Sound
  <2> HIDE DEF Sound
  <2>1. QED
    BY <1>4, <1>6, <1>7, IntervalInduction
<1>9. Right(t, n)
  BY <1>4, <1>5, <1>8
<1>10. PICK keys \in Seq(Keys) :
         /\ Len(keys) = n /\ \A j \in 1..n : Fold[keys[j]] = path[j]
         /\ t = Sub(root.data, keys) /\ (n <= 1 \/ root.converted)
  BY <1>9
<1>11. Folded(keys) = path
  <2>1. /\ DOMAIN keys = 1..n /\ DOMAIN path = 1..n
        /\ path = [j \in 1..n |-> path[j]]
    BY <1>10, LenProperties DEF n
  <2>2. QED
    BY <1>10, <2>1 DEF Folded
<1>12. t = Sub(doc, Section(doc) \o keys)
  BY <1>2, <1>10, SubOfSub
<1>13. root.converted => Len(Section(doc)) > 0
  BY <1>2, EmptySeq
<1>14. QED
  BY <1>10, <1>11, <1>12, <1>13 DEF n

LEMMA WalkEnds ==
  ASSUME NEW root, root.data \in SUBSET Leaf, NEW path \in Seq(Keys)
  PROVE  /\ ValueFromPath(root, path) # {}
         /\ ValueFromPath(root, path) \in SUBSET SUBSET Leaf
<1> DEFINE n == Len(path)
<1>1. PICK walk : IsWalk(walk, root, path) /\ ValueFromPath(root, path) = walk[n]
  BY WalkExists
<1>2. n \in Nat
  BY LenProperties
<1> DEFINE Alive == {i \in 0..n : walk[i] # {}}
<1> HIDE DEF n
<1>3. 0 \in Alive
  <2>1. 0 \in 0..n /\ walk[0] = {root.data}
    BY <1>1, <1>2 DEF IsWalk
  <2>2. walk[0] # {}
    BY <2>1
  <2>3. QED
    BY <2>1, <2>2
<1>4. ASSUME NEW i \in 1..n, i - 1 \in Alive PROVE i \in Alive
  <2>1. walk[i - 1] \in SUBSET SUBSET Leaf
        /\ walk[i] = UNION {Enter(root, path, x, i) : x \in walk[i - 1]}
    BY <1>1, <1>2 DEF IsWalk, n
  <2>2. PICK x \in walk[i - 1] : TRUE
    BY <1>4
  <2>3. Enter(root, path, x, i) # {}
    BY <2>1, EnterType
  <2>4. walk[i] # {} /\ i \in 0..n
    BY <1>2, <2>1, <2>2, <2>3
  <2>5. QED
    BY <2>4
<1>5. \A i \in 0..n : i \in Alive
  <2> HIDE DEF Alive
  <2>1. QED
    BY <1>2, <1>3, <1>4, IntervalInduction
<1>6. n \in 0..n
  BY <1>2
<1>7. QED
  BY <1>1, <1>5, <1>6 DEF IsWalk, n

\* The leaves that are at a path in the Kafka section.
Hits(doc, path, kinds) ==
  LET n == Len(Section(doc))
  IN  {m \in doc :
         /\ Len(m.path) = n + Len(path) /\ m.kind \in kinds
         /\ SubSeq(m.path, 1, n) = Section(doc)
         /\ Folded(SubSeq(m.path, n + 1, n + Len(path))) = path
         /\ n > 0 \/ Len(path) = 1}

LEMMA SaidByHits ==
  ASSUME NEW doc, NEW path, NEW kinds
  PROVE  Said(doc, path, kinds) = {l.says : l \in Hits(doc, path, kinds)}
BY DEF Said, Hits

Fits(tree, kinds) == \E l \in tree : l.path = <<>> /\ l.kind \in kinds

OnlySays(tree, leaf) == {l.says : l \in tree} = {leaf.says}

\* A scalar that a walk ends at is written at the path.
LEMMA FitsAreSaid ==
  ASSUME NEW doc, IsDocument(doc), NEW path \in Seq(Keys), path # <<>>, NEW kinds,
         NEW t \in ValueFromPath(KafkaRoot(doc), path), Fits(t, kinds)
  PROVE  \E h \in Hits(doc, path, kinds) : OnlySays(t, h)
<1>1. PICK l \in t : l.path = <<>> /\ l.kind \in kinds
  BY DEF Fits
<1>2. PICK keys \in Seq(Keys) :
        /\ Len(keys) = Len(path) /\ Folded(keys) = path
        /\ t = Sub(doc, Section(doc) \o keys)
        /\ Len(Section(doc)) > 0 \/ Len(path) <= 1
  BY <1>1, WalkIsSound DEF Missing
<1>3. Section(doc) \in Seq(Keys)
  BY RootIsSection
<1>4. PICK whole \in Seq(Keys) : whole = Section(doc) \o keys
  BY <1>3, ConcatProperties
<1>5. t = {l} /\ l \in Leaf /\ Under(whole, l) \in doc
  BY <1>1, <1>2, <1>4, OneLeafAlone DEF Sub
<1> DEFINE h == Under(whole, l)
<1>6. h.path = whole /\ h.kind = l.kind /\ h.says = l.says
  <2>1. h.path = whole \o <<>> /\ h.kind = l.kind /\ h.says = l.says
    BY <1>1, <1>5, UnderType
  <2>2. QED
    BY <2>1, ConcatEmptySeq
<1> HIDE DEF h
<1>7. /\ Len(whole) = Len(Section(doc)) + Len(path)
      /\ SubSeq(whole, 1, Len(Section(doc))) = Section(doc)
      /\ SubSeq(whole, Len(Section(doc)) + 1, Len(Section(doc)) + Len(path)) = keys
  <2>1. PICK s \in Seq(Keys) : s = Section(doc)
    BY <1>3
  <2>2. /\ Len(s \o keys) = Len(s) + Len(keys)
        /\ SubSeq(s \o keys, 1, Len(s)) = s
        /\ SubSeq(s \o keys, Len(s) + 1, Len(s) + Len(keys)) = keys
    BY PutTogether
  <2>3. QED
    BY <1>2, <1>4, <2>1, <2>2
<1>8. Len(Section(doc)) > 0 \/ Len(path) = 1
  <2>1. Len(path) \in Nat \ {0}
    BY EmptySeq
  <2>2. QED
    BY <1>2, <2>1
<1>9. h \in Hits(doc, path, kinds)
  <2>1. h \in doc
    BY <1>5 DEF h
  <2>2. h.kind \in kinds
    BY <1>1, <1>6
  <2>3. QED
    BY <1>2, <1>6, <1>7, <1>8, <2>1, <2>2 DEF Hits
<1>10. {x.says : x \in t} = {h.says}
  BY <1>5, <1>6
<1>11. QED
  BY <1>9, <1>10 DEF OnlySays

LEMMA FirstKeys ==
  ASSUME NEW S, NEW s \in Seq(S), NEW n \in 0..Len(s)
  PROVE  /\ SubSeq(s, 1, n) \in Seq(S) /\ Len(SubSeq(s, 1, n)) = n
         /\ \A j \in 1..n : SubSeq(s, 1, n)[j] = s[j] /\ s[j] \in S
<1>1. n \in Nat /\ \A j \in 1..n : s[j] \in S
  BY LenProperties
<1>2. \A j \in 1..(n - 1 + 1) : SubSeq(s, 1, n)[j] = s[1 + j - 1]
  BY <1>1, SubSeqProperties
<1>3. \A j \in 1..n : SubSeq(s, 1, n)[j] = s[j]
  BY <1>1, <1>2
<1>4. QED
  BY <1>1, <1>3, TakeApart

\* Where no two keys of a map differ only in case, each step has one key to take.
LEMMA OneKeyFits ==
  ASSUME NEW doc, IsDocument(doc), Unambiguous(doc), NEW l \in doc,
         NEW n \in Nat, n < Len(l.path), NEW key \in Keys, key = Fold[l.path[n + 1]]
  PROVE  LET tree == Sub(doc, SubSeq(l.path, 1, n))
         IN  /\ IsMap(tree)
             /\ {k \in TopKeys(tree) : Fold[k] = key} = {l.path[n + 1]}
             /\ Below(tree, l.path[n + 1]) = Sub(doc, SubSeq(l.path, 1, n + 1))
<1>1. /\ l.path \in Seq(Keys) /\ l \in Leaf /\ Len(l.path) \in Nat
      /\ n \in 0..Len(l.path) /\ n + 1 \in 0..Len(l.path) /\ n + 1 \in 1..Len(l.path)
  <2>1. l.path \in Seq(Keys) /\ l \in Leaf
    BY DEF IsDocument, Leaf
  <2>2. Len(l.path) \in Nat
    BY <2>1, LenProperties
  <2>3. QED
    BY <2>1, <2>2
<1>2. SubSeq(l.path, 1, n) \in Seq(Keys) /\ Len(SubSeq(l.path, 1, n)) = n
  BY <1>1, FirstKeys
<1>3. PICK pre \in Seq(Keys) : pre = SubSeq(l.path, 1, n) /\ Len(pre) = n
  BY <1>2
<1>4. PICK k0 \in Keys : k0 = l.path[n + 1]
  BY <1>1, ElementOfSeq
<1> DEFINE tree == Sub(doc, pre)
<1>5. PICK m \in tree :
        /\ Under(pre, m) = l /\ m.path = SubSeq(l.path, n + 1, Len(l.path))
        /\ Len(m.path) = Len(l.path) - n
  <2>1. Len(pre) <= Len(l.path) /\ SubSeq(l.path, 1, Len(pre)) = pre
    BY <1>1, <1>3
  <2>2. \E m \in Sub(doc, pre) :
          /\ Under(pre, m) = l
          /\ m.path = SubSeq(l.path, Len(pre) + 1, Len(l.path))
          /\ Len(m.path) = Len(l.path) - Len(pre)
    BY <2>1, LeafBelow
  <2>3. QED
    BY <1>3, <2>2
<1>6. m.path \in Seq(Keys) /\ m.path # <<>> /\ m.path[1] = k0
  <2>1. m.path \in Seq(Keys)
    BY <1>5 DEF Sub, Leaf
  <2>2. m.path # <<>>
    <3>1. Len(m.path) # 0
      BY <1>1, <1>5
    <3>2. QED
      BY <3>1, EmptySeq
  <2>3. \A j \in (n + 1)..Len(l.path) : l.path[j] \in Keys
    <3>1. \A j \in 1..Len(l.path) : l.path[j] \in Keys
      BY <1>1, LenProperties
    <3>2. QED
      BY <1>1, <3>1
  <2>4. \A j \in 1..(Len(l.path) - (n + 1) + 1) :
          SubSeq(l.path, n + 1, Len(l.path))[j] = l.path[n + 1 + j - 1]
    BY <1>1, <2>3, SubSeqProperties
  <2>5. 1 \in 1..(Len(l.path) - (n + 1) + 1) /\ n + 1 + 1 - 1 = n + 1
    BY <1>1
  <2>6. QED
    BY <1>4, <1>5, <2>1, <2>2, <2>4, <2>5
<1>7. IsMap(tree)
  <2>1. HasMapAt(doc, pre)
    BY <1>3 DEF HasMapAt
  <2>2. QED
    BY <2>1, MapIsMap
<1>8. k0 \in TopKeys(tree)
  BY <1>5, <1>6 DEF TopKeys
<1>9. ASSUME NEW k \in TopKeys(tree), Fold[k] = key PROVE k = k0
  <2>1. PICK x \in tree : x.path # <<>> /\ k = Head(x.path)
    BY <1>9 DEF TopKeys
  <2>2. x \in Leaf /\ Under(pre, x) \in doc /\ x.path \in Seq(Keys)
    BY DEF Sub, Leaf
  <2> DEFINE y == Under(pre, x)
  <2>3. y.path = pre \o x.path
    BY <2>2, UnderType
  <2>4. Len(x.path) \in Nat \ {0} /\ x.path[1] = k
    BY <2>1, <2>2, EmptySeq
  <2>5. /\ y.path \in Seq(Keys) /\ Len(y.path) = n + Len(x.path)
        /\ \A j \in 1..(n + Len(x.path)) :
             y.path[j] = IF j <= n THEN pre[j] ELSE x.path[j - n]
    <3>1. PICK rest \in Seq(Keys) : rest = x.path
      BY <2>2
    <3>2. /\ pre \o rest \in Seq(Keys) /\ Len(pre \o rest) = Len(pre) + Len(rest)
          /\ \A j \in 1..(Len(pre) + Len(rest)) :
               (pre \o rest)[j] = IF j <= Len(pre) THEN pre[j] ELSE rest[j - Len(pre)]
      BY ConcatProperties
    <3>3. QED
      BY <1>3, <2>3, <3>1, <3>2
  <2> HIDE DEF y
  <2>6. \A j \in 1..(n + 1) :
          y.path[j] \in Keys /\ l.path[j] \in Keys /\ Fold[y.path[j]] = Fold[l.path[j]]
    <3> SUFFICES ASSUME NEW j \in 1..(n + 1)
                 PROVE  /\ y.path[j] \in Keys /\ l.path[j] \in Keys
                        /\ Fold[y.path[j]] = Fold[l.path[j]]
      OBVIOUS
    <3>1. j \in 1..Len(l.path) /\ j \in 1..Len(y.path) /\ j \in 1..(n + Len(x.path))
      BY <1>1, <2>4, <2>5
    <3>2. y.path[j] \in Keys /\ l.path[j] \in Keys
      BY <1>1, <2>5, <3>1, ElementOfSeq
    <3>3. CASE j <= n
      BY <1>1, <1>3, <2>5, <3>1, <3>2, <3>3, FirstKeys
    <3>4. CASE ~(j <= n)
      <4>1. j = n + 1 /\ j - n = 1
        BY <3>4
      <4>2. QED
        BY <1>4, <1>9, <2>4, <2>5, <3>1, <3>2, <3>4, <4>1
    <3>5. QED
      BY <3>2, <3>3, <3>4
  <2>7. /\ SubSeq(y.path, 1, n + 1) \in Seq(Keys) /\ Len(SubSeq(y.path, 1, n + 1)) = n + 1
        /\ \A j \in 1..(n + 1) : SubSeq(y.path, 1, n + 1)[j] = y.path[j]
    <3>1. PICK s \in Seq(Keys) : s = y.path
      BY <2>5
    <3>2. n + 1 \in 0..Len(s)
      BY <2>4, <2>5, <3>1
    <3>3. QED
      BY <3>1, <3>2, FirstKeys
  <2>8. /\ SubSeq(l.path, 1, n + 1) \in Seq(Keys) /\ Len(SubSeq(l.path, 1, n + 1)) = n + 1
        /\ \A j \in 1..(n + 1) : SubSeq(l.path, 1, n + 1)[j] = l.path[j]
    BY <1>1, FirstKeys
  <2>9. Folded(SubSeq(y.path, 1, n + 1)) = Folded(SubSeq(l.path, 1, n + 1))
    <3>1. DOMAIN SubSeq(y.path, 1, n + 1) = 1..(n + 1) /\ DOMAIN SubSeq(l.path, 1, n + 1) = 1..(n + 1)
      BY <2>7, <2>8, LenProperties
    <3>2. QED
      BY <2>6, <2>7, <2>8, <3>1 DEF Folded
  <2>10. n + 1 \in DOMAIN y.path \cap DOMAIN l.path
    <3>1. DOMAIN y.path = 1..Len(y.path) /\ DOMAIN l.path = 1..Len(l.path)
      BY <1>1, <2>5, LenProperties
    <3>2. QED
      BY <1>1, <2>4, <2>5, <3>1
  <2>11. SubSeq(y.path, 1, n + 1) = SubSeq(l.path, 1, n + 1)
    BY <2>2, <2>9, <2>10 DEF Unambiguous, y
  <2>12. y.path[n + 1] = l.path[n + 1]
    BY <2>7, <2>8, <2>11
  <2>13. y.path[n + 1] = x.path[1]
    <3>1. n + 1 \in 1..(n + Len(x.path)) /\ ~(n + 1 <= n) /\ n + 1 - n = 1
      BY <2>4
    <3>2. QED
      BY <2>5, <3>1
  <2>14. QED
    BY <1>4, <2>4, <2>12, <2>13
<1>10. Below(tree, k0) = Sub(doc, SubSeq(l.path, 1, n + 1))
  <2>1. tree \in SUBSET Leaf /\ <<k0>> \in Seq(Keys)
    BY DEF Sub
  <2>2. Below(tree, k0) = Sub(tree, <<k0>>)
    BY <2>1, BelowIsSub
  <2>3. Sub(tree, <<k0>>) = Sub(doc, pre \o <<k0>>)
    BY <2>1, SubOfSub
  <2>4. SubSeq(l.path, 1, n + 1) = SubSeq(l.path, 1, n + 1 - 1) \o <<l.path[n + 1]>>
    <3>1. 1 \in 1..Len(l.path) /\ n + 1 \in 1..Len(l.path)
      BY <1>1
    <3>2. QED
      BY <1>1, <3>1, SubSeqRecursiveSecond
  <2>5. n + 1 - 1 = n
    OBVIOUS
  <2>6. QED
    BY <1>3, <1>4, <2>2, <2>3, <2>4, <2>5
<1>11. Fold[k0] = key
  BY <1>4
<1> HIDE DEF tree
<1>12. {k \in TopKeys(tree) : Fold[k] = key} = {k0}
  BY <1>8, <1>9, <1>11
<1>13. QED
  BY <1>3, <1>4, <1>7, <1>10, <1>12 DEF tree

\* All walks end at the scalar of a leaf.
EndsAt(doc, path, m, h) ==
  /\ ValueFromPath(KafkaRoot(doc), path) = {{m}}
  /\ m.path = <<>> /\ m.kind = h.kind /\ m.says = h.says

\* A leaf that is written at the path in unambiguous keys is where the walk ends.
LEMMA WalkFindsIt ==
  ASSUME NEW doc, IsDocument(doc), Unambiguous(doc), NEW path \in Seq(Keys),
         NEW kinds, NEW h \in Hits(doc, path, kinds)
  PROVE  \E m : EndsAt(doc, path, m, h)
<1> DEFINE root == KafkaRoot(doc)
<1> DEFINE n == Len(Section(doc))
<1> DEFINE Here(i) == Sub(doc, SubSeq(h.path, 1, n + i))
<1>1. /\ h \in doc /\ Len(h.path) = n + Len(path)
      /\ SubSeq(h.path, 1, n) = Section(doc)
      /\ Folded(SubSeq(h.path, n + 1, n + Len(path))) = path
      /\ n > 0 \/ Len(path) = 1
  BY DEF Hits
<1>2. h.path \in Seq(Keys) /\ h \in Leaf /\ doc \in SUBSET Leaf
  BY <1>1 DEF IsDocument, Leaf
<1>3. /\ Section(doc) \in Seq(Keys)
      /\ root = [data |-> Sub(doc, Section(doc)), converted |-> Section(doc) # <<>>]
  BY RootIsSection
<1>4. n \in Nat /\ Len(path) \in Nat
  BY <1>3, LenProperties
<1>5. root.data = Here(0) /\ root.data \in SUBSET Leaf
  <2>1. SubSeq(h.path, 1, n + 0) = Section(doc)
    BY <1>1, <1>4
  <2>2. root.data = Sub(doc, Section(doc))
    BY <1>3
  <2>3. root.data \in SUBSET Leaf
    BY <2>2 DEF Sub
  <2> HIDE DEF root, n
  <2>4. QED
    BY <2>1, <2>2, <2>3
<1>6. root.converted \/ Len(path) = 1
  <2>1. n > 0 => Section(doc) # <<>>
    BY EmptySeq
  <2>2. root.converted = (Section(doc) # <<>>)
    BY <1>3
  <2>3. QED
    BY <1>1, <2>1, <2>2
<1>7. \A i \in 1..Len(path) : h.path[n + i] \in Keys /\ path[i] = Fold[h.path[n + i]]
  <2> SUFFICES ASSUME NEW i \in 1..Len(path)
               PROVE  h.path[n + i] \in Keys /\ path[i] = Fold[h.path[n + i]]
    OBVIOUS
  <2> DEFINE rest == SubSeq(h.path, n + 1, n + Len(path))
  <2>1. \A j \in 1..Len(h.path) : h.path[j] \in Keys
    BY <1>2, LenProperties
  <2>2. \A j \in (n + 1)..(n + Len(path)) : h.path[j] \in Keys
    BY <1>1, <1>4, <2>1
  <2>3. /\ rest \in Seq(Keys)
        /\ Len(rest) = IF n + 1 <= n + Len(path) THEN n + Len(path) - (n + 1) + 1 ELSE 0
        /\ \A j \in 1..(n + Len(path) - (n + 1) + 1) : rest[j] = h.path[n + 1 + j - 1]
    BY <1>4, <2>2, SubSeqProperties
  <2> HIDE DEF rest
  <2>4. n + Len(path) - (n + 1) + 1 = Len(path) /\ n + 1 <= n + Len(path) /\ n + 1 + i - 1 = n + i
    BY <1>4
  <2>5. i \in DOMAIN rest /\ rest[i] = h.path[n + i]
    BY <2>3, <2>4, LenProperties
  <2>6. Folded(rest) = path
    BY <1>1 DEF rest
  <2>7. path[i] = Fold[rest[i]]
    BY <2>5, <2>6 DEF Folded
  <2>8. n + i \in (n + 1)..(n + Len(path))
    BY <1>4
  <2>9. QED
    BY <2>2, <2>5, <2>7, <2>8
<1>8. PICK walk : IsWalk(walk, root, path) /\ ValueFromPath(root, path) = walk[Len(path)]
  <2> HIDE DEF root
  <2>1. QED
    BY <1>5, WalkExists
<1> DEFINE Right == {i \in 0..Len(path) : walk[i] = {Here(i)}}
<1> HIDE DEF root, n
<1>9. 0 \in Right
  BY <1>4, <1>5, <1>8 DEF IsWalk
<1>10. ASSUME NEW i \in 1..Len(path), i - 1 \in Right PROVE i \in Right
  <2>1. PICK j \in Nat : j = n + (i - 1)
    BY <1>4
  <2>2. j < Len(h.path) /\ j + 1 = n + i
    BY <1>1, <1>4, <2>1
  <2>3. path[i] \in Keys /\ path[i] = Fold[h.path[j + 1]]
    BY <1>7, <2>2, ElementOfSeq
  <2> DEFINE tree == Sub(doc, SubSeq(h.path, 1, j))
  <2>4. /\ IsMap(tree) /\ {k \in TopKeys(tree) : Fold[k] = path[i]} = {h.path[j + 1]}
        /\ Below(tree, h.path[j + 1]) = Sub(doc, SubSeq(h.path, 1, j + 1))
    BY <1>1, <2>2, <2>3, OneKeyFits
  <2>5. walk[i - 1] = {tree}
    BY <1>10, <2>1
  <2>6. walk[i] = UNION {Enter(root, path, t, i) : t \in walk[i - 1]}
    BY <1>4, <1>8 DEF IsWalk
  <2>7. i = 1 \/ root.converted
    BY <1>4, <1>6
  <2> HIDE DEF tree
  <2>8. Enter(root, path, tree, i) = {Below(tree, h.path[j + 1])}
    BY <2>4, <2>7 DEF Enter
  <2>9. walk[i] = {Here(i)}
    BY <2>2, <2>4, <2>5, <2>6, <2>8
  <2>10. QED
    BY <1>4, <2>9
<1>11. Len(path) \in Right
  <2>1. \A i \in 0..Len(path) : i \in Right
    <3> HIDE DEF Right
    <3>1. QED
      BY <1>4, <1>9, <1>10, IntervalInduction
  <2>2. QED
    BY <1>4, <2>1
<1>12. walk[Len(path)] = {Sub(doc, h.path)}
  <2>1. SubSeq(h.path, 1, n + Len(path)) = h.path
    BY <1>1, <1>2, SubSeqFull
  <2>2. QED
    BY <1>11, <2>1
<1>13. PICK m \in Sub(doc, h.path) :
         Len(m.path) = Len(h.path) - Len(h.path) /\ m.kind = h.kind /\ m.says = h.says
  <2>1. Len(h.path) <= Len(h.path) /\ SubSeq(h.path, 1, Len(h.path)) = h.path
    BY <1>1, <1>2, <1>4, SubSeqFull
  <2>2. QED
    BY <1>1, <1>2, <2>1, LeafBelow
<1>14. m.path = <<>>
  <2>1. m.path \in Seq(Keys) /\ Len(m.path) = 0
    BY <1>1, <1>4, <1>13 DEF Sub, Leaf
  <2>2. QED
    BY <2>1, EmptySeq
<1>15. Sub(doc, h.path) = {m}
  BY <1>2, <1>14, OneLeafAlone
<1>16. QED
  BY <1>8, <1>12, <1>13, <1>14, <1>15 DEF root, EndsAt

-----------------------------------------------------------------------------
(***************************************************************************)
(* The value of a field.                                                   *)
(***************************************************************************)

\* What is found from the i-th path on.
IsSearch(from, root, paths, kinds, zero) ==
  /\ from[Len(paths) + 1] = {zero}
  /\ \A i \in 1..Len(paths) :
       from[i] = UNION {IF Fits(t, kinds) THEN {l.says : l \in t} ELSE from[i + 1] :
                          t \in ValueFromPath(root, paths[i])}

LEMMA SearchExists ==
  ASSUME NEW root, root.data \in SUBSET Leaf, NEW field \in DOMAIN Rules,
         NEW kinds, NEW zero \in Scalars
  PROVE  \E from : /\ IsSearch(from, root, Rules[field], kinds, zero)
                   /\ Values(root, field, kinds, zero) = from[1]
<1> DEFINE paths == Rules[field]
<1> DEFINE n == Len(paths)
<1> DEFINE Found(i, x) ==
      UNION {IF Fits(t, kinds) THEN {l.says : l \in t} ELSE x : t \in ValueFromPath(root, paths[i])}
<1> DEFINE F(f) == [i \in 1..(n + 1) |-> IF i > n THEN {zero} ELSE Found(i, f[i + 1])]
<1> DEFINE from == CHOOSE f : f = F(f)
<1>1. Values(root, field, kinds, zero) = from[1]
  BY DEF Values, Fits
<1>2. paths \in Seq(Seq(Keys) \ {<<>>})
  BY ParserAssumption
<1>3. n \in Nat /\ \A i \in 1..n : paths[i] \in Seq(Keys)
  BY <1>2, LenProperties
<1> DEFINE S == SUBSET Scalars
<1> DEFINE step == [j \in 1..n |-> [x \in S |-> Found(n + 1 - j, x)]]
<1>4. ASSUME NEW i \in 1..n, NEW x \in S PROVE Found(i, x) \in S
  <2>1. ValueFromPath(root, paths[i]) \in SUBSET SUBSET Leaf
    BY <1>3, WalkEnds
  <2>2. \A t \in ValueFromPath(root, paths[i]) : {l.says : l \in t} \in S
    BY <2>1 DEF Leaf
  <2> HIDE DEF paths
  <2>3. QED
    BY <2>2
<1> HIDE DEF n, Found
<1>5. step \in Steps(n, S)
  <2>1. ASSUME NEW j \in 1..n, NEW x \in S PROVE Found(n + 1 - j, x) \in S
    <3>1. n + 1 - j \in 1..n
      BY <1>3
    <3>2. QED
      BY <1>4, <3>1
  <2> HIDE DEF S
  <2>2. QED
    BY <2>1 DEF Steps
<1>6. {zero} \in S
  OBVIOUS
<1>7. PICK w : IsBuilt(w, n, S, {zero}, step)
  <2> HIDE DEF step, S
  <2>1. QED
    BY <1>3, <1>5, <1>6, Recursion
<1> DEFINE f == [i \in 1..(n + 1) |-> w[n + 1 - i]]
<1>8. ASSUME NEW i \in 1..n PROVE f[i] = Found(i, f[i + 1])
  <2>1. PICK j \in 1..n : j = n + 1 - i
    BY <1>3
  <2>2. w[j] = step[j][w[j - 1]] /\ w[j - 1] \in S
    <3>1. j - 1 \in 0..n
      BY <1>3
    <3> HIDE DEF step, S
    <3>2. QED
      BY <1>7, <3>1 DEF IsBuilt
  <2>3. n + 1 - j = i /\ n + 1 - (i + 1) = j - 1 /\ i \in 1..(n + 1) /\ i + 1 \in 1..(n + 1)
    BY <1>3, <2>1
  <2>4. w[j] = Found(i, w[j - 1])
    <3> HIDE DEF S, f
    <3>1. step[j][w[j - 1]] = Found(n + 1 - j, w[j - 1])
      BY <2>2
    <3>2. QED
      BY <2>2, <2>3, <3>1
  <2>5. f[i] = w[j] /\ f[i + 1] = w[j - 1]
    BY <2>1, <2>3
  <2> HIDE DEF f
  <2>6. QED
    BY <2>4, <2>5
<1>9. f[n + 1] = {zero}
  <2>1. n + 1 \in 1..(n + 1) /\ n + 1 - (n + 1) = 0
    BY <1>3
  <2>2. w[0] = {zero}
    BY <1>7 DEF IsBuilt
  <2>3. f[n + 1] = w[n + 1 - (n + 1)]
    BY <2>1
  <2>4. QED
    BY <2>1, <2>2, <2>3
<1>10. f = F(f)
  <2>1. f = [i \in 1..(n + 1) |-> f[i]]
    OBVIOUS
  <2> HIDE DEF f
  <2>2. ASSUME NEW i \in 1..(n + 1) PROVE f[i] = IF i > n THEN {zero} ELSE Found(i, f[i + 1])
    <3>1. CASE i > n
      <4>1. i = n + 1
        BY <1>3, <3>1
      <4>2. QED
        BY <1>9, <3>1, <4>1
    <3>2. CASE ~(i > n)
      <4>1. i \in 1..n
        BY <1>3, <3>2
      <4>2. QED
        BY <1>8, <3>2, <4>1
    <3>3. QED
      BY <3>1, <3>2
  <2>3. QED
    BY <2>1, <2>2
<1>11. from = F(from)
  <2> HIDE DEF f
  <2>1. \E g : g = F(g)
    BY <1>10
  <2> HIDE DEF F
  <2>2. QED
    BY <2>1
<1> HIDE DEF from
<1>12. from[n + 1] = {zero}
  <2>1. n + 1 \in 1..(n + 1) /\ n + 1 > n
    BY <1>3
  <2>2. from[n + 1] = F(from)[n + 1]
    BY <1>11
  <2>3. QED
    BY <2>1, <2>2
<1>13. ASSUME NEW i \in 1..n PROVE from[i] = Found(i, from[i + 1])
  <2>1. i \in 1..(n + 1) /\ ~(i > n)
    BY <1>3
  <2>2. from[i] = F(from)[i]
    BY <1>11
  <2>3. QED
    BY <2>1, <2>2
<1>14. IsSearch(from, root, paths, kinds, zero)
  BY <1>12, <1>13 DEF IsSearch, n, Found
<1>15. QED
  BY <1>1, <1>14

LEMMA RulePaths ==
  ASSUME NEW field \in DOMAIN Rules
  PROVE  /\ Len(Rules[field]) \in Nat /\ DOMAIN Rules[field] = 1..Len(Rules[field])
         /\ \A i \in 1..Len(Rules[field]) : Rules[field][i] \in Seq(Keys) /\ Rules[field][i] # <<>>
<1>1. Rules[field] \in Seq(Seq(Keys) \ {<<>>})
  BY ParserAssumption
<1>2. QED
  BY <1>1, LenProperties, ElementOfSeq

LEMMA RootType ==
  ASSUME NEW doc, IsDocument(doc)
  PROVE  KafkaRoot(doc).data \in SUBSET Leaf
BY RootIsSection DEF Sub

\* A value that is found is written in the Kafka section, at a path of the rules.
THEOREM ValuesAreSaid ==
  ASSUME NEW doc, IsDocument(doc), NEW field \in DOMAIN Rules,
         NEW kinds, NEW zero \in Scalars
  PROVE  Values(KafkaRoot(doc), field, kinds, zero) \subseteq SaidAnywhere(doc, field, kinds) \cup {zero}
<1> DEFINE root == KafkaRoot(doc)
<1> DEFINE paths == Rules[field]
<1> DEFINE n == Len(paths)
<1> DEFINE written == SaidAnywhere(doc, field, kinds) \cup {zero}
<1>1. PICK from : /\ IsSearch(from, root, paths, kinds, zero)
                  /\ Values(root, field, kinds, zero) = from[1]
  BY RootType, SearchExists
<1>2. /\ n \in Nat /\ DOMAIN paths = 1..n
      /\ \A i \in 1..n : paths[i] \in Seq(Keys) /\ paths[i] # <<>>
  BY RulePaths
<1>3. ASSUME NEW i \in 1..n, NEW t \in ValueFromPath(root, paths[i]), Fits(t, kinds)
      PROVE  {l.says : l \in t} \subseteq written
  <2>1. PICK h \in Hits(doc, paths[i], kinds) : {l.says : l \in t} = {h.says}
    <3>1. PICK path \in Seq(Keys) : path = paths[i] /\ path # <<>>
      BY <1>2
    <3>2. t \in ValueFromPath(KafkaRoot(doc), path)
      BY <3>1
    <3> HIDE DEF root, paths
    <3>3. \E h \in Hits(doc, path, kinds) : OnlySays(t, h)
      BY <1>3, <3>1, <3>2, FitsAreSaid
    <3>4. QED
      BY <3>1, <3>3 DEF OnlySays
  <2>2. h.says \in Said(doc, paths[i], kinds)
    BY SaidByHits
  <2>3. Said(doc, paths[i], kinds) \subseteq SaidAnywhere(doc, field, kinds)
    BY <1>2 DEF SaidAnywhere
  <2>4. QED
    BY <2>1, <2>2, <2>3
<1> DEFINE Good == {j \in 0..n : from[n + 1 - j] \subseteq written}
<1> HIDE DEF root, paths, n, written
<1>4. 0 \in Good
  <2>1. n + 1 - 0 = n + 1 /\ from[n + 1] = {zero}
    BY <1>1, <1>2 DEF IsSearch, n
  <2>2. from[n + 1 - 0] \subseteq written
    BY <2>1 DEF written
  <2>3. QED
    BY <1>2, <2>2
<1>5. ASSUME NEW j \in 1..n, j - 1 \in Good PROVE j \in Good
  <2>1. PICK i \in 1..n : i = n + 1 - j /\ i + 1 = n + 1 - (j - 1)
    BY <1>2
  <2>2. from[i] = UNION {IF Fits(t, kinds) THEN {l.says : l \in t} ELSE from[i + 1] :
                            t \in ValueFromPath(root, paths[i])}
    BY <1>1 DEF IsSearch, n
  <2>3. from[i + 1] \subseteq written
    BY <1>5, <2>1
  <2>4. ASSUME NEW v \in from[i] PROVE v \in written
    <3>1. PICK t \in ValueFromPath(root, paths[i]) :
            v \in IF Fits(t, kinds) THEN {l.says : l \in t} ELSE from[i + 1]
      BY <2>2
    <3>2. CASE Fits(t, kinds)
      BY <1>3, <3>1, <3>2
    <3>3. CASE ~Fits(t, kinds)
      BY <2>3, <3>1, <3>3
    <3>4. QED
      BY <3>2, <3>3
  <2>5. from[n + 1 - j] \subseteq written
    BY <2>1, <2>4
  <2>6. QED
    BY <1>2, <2>5
<1>6. n \in Good
  <2>1. \A j \in 0..n : j \in Good
    <3> HIDE DEF Good
    <3>1. QED
      BY <1>2, <1>4, <1>5, IntervalInduction
  <2>2. QED
    BY <1>2, <2>1
<1>7. n + 1 - n = 1
  BY <1>2
<1>8. QED
  BY <1>1, <1>6, <1>7 DEF root, written

\* With unambiguous keys it is what the first path of the rules says.
THEOREM ValuesAreFirst ==
  ASSUME NEW doc, IsDocument(doc), Unambiguous(doc), NEW field \in DOMAIN Rules, NEW kinds
  PROVE  Values(KafkaRoot(doc), field, kinds, NoText) = FirstSaid(doc, field, kinds)
<1> DEFINE root == KafkaRoot(doc)
<1> DEFINE paths == Rules[field]
<1> DEFINE n == Len(paths)
<1> DEFINE hits == {i \in 1..n : Said(doc, paths[i], kinds) # {}}
<1>1. PICK from : /\ IsSearch(from, root, paths, kinds, NoText)
                  /\ Values(root, field, kinds, NoText) = from[1]
  <2>1. NoText \in Scalars /\ root.data \in SUBSET Leaf
    BY RootType, ParserAssumption
  <2> HIDE DEF root
  <2>2. QED
    BY <2>1, SearchExists
<1>2. /\ n \in Nat /\ DOMAIN paths = 1..n
      /\ \A i \in 1..n : paths[i] \in Seq(Keys) /\ paths[i] # <<>>
  BY RulePaths
<1>3. \A i \in 1..n :
        from[i] = UNION {IF Fits(t, kinds) THEN {l.says : l \in t} ELSE from[i + 1] :
                           t \in ValueFromPath(root, paths[i])}
  BY <1>1 DEF IsSearch
<1>4. ASSUME NEW i \in 1..n, i \notin hits PROVE from[i] = from[i + 1]
  <2>1. PICK path \in Seq(Keys) : path = paths[i] /\ path # <<>>
    BY <1>2
  <2>2. Hits(doc, path, kinds) = {}
    BY <1>4, <2>1, SaidByHits
  <2>3. \A t \in ValueFromPath(root, path) : ~Fits(t, kinds)
    BY <2>1, <2>2, FitsAreSaid
  <2>4. ValueFromPath(root, path) # {}
    BY RootType, WalkEnds
  <2>5. from[i] = UNION {IF Fits(t, kinds) THEN {l.says : l \in t} ELSE from[i + 1] :
                            t \in ValueFromPath(root, path)}
    BY <1>3, <2>1
  <2> HIDE DEF root, paths
  <2>6. {IF Fits(t, kinds) THEN {l.says : l \in t} ELSE from[i + 1] :
           t \in ValueFromPath(root, path)} = {from[i + 1]}
    BY <2>3, <2>4
  <2>7. QED
    BY <2>5, <2>6
<1>5. ASSUME NEW i \in hits PROVE from[i] = Said(doc, paths[i], kinds)
  <2>1. PICK path \in Seq(Keys) : path = paths[i]
    BY <1>2
  <2>2. PICK h \in Hits(doc, path, kinds) : TRUE
    BY <1>5, <2>1, SaidByHits
  <2>3. PICK m : /\ ValueFromPath(root, path) = {{m}}
                 /\ m.path = <<>> /\ m.kind = h.kind /\ m.says = h.says
    <3>1. \E m : EndsAt(doc, path, m, h)
      BY <2>1, <2>2, WalkFindsIt
    <3>2. QED
      BY <3>1 DEF EndsAt
  <2>4. Fits({m}, kinds)
    BY <2>3 DEF Fits, Hits
  <2>5. from[i] = UNION {IF Fits(t, kinds) THEN {l.says : l \in t} ELSE from[i + 1] : t \in {{m}}}
    BY <1>3, <2>1, <2>3
  <2>6. from[i] = {h.says}
    BY <2>3, <2>4, <2>5
  <2>7. ASSUME NEW g \in Hits(doc, path, kinds) PROVE g.says = h.says
    <3>1. PICK x : ValueFromPath(root, path) = {{x}} /\ x.says = g.says
      <4>1. \E x : EndsAt(doc, path, x, g)
        BY <2>1, WalkFindsIt
      <4>2. QED
        BY <4>1 DEF EndsAt
    <3> HIDE DEF root, paths
    <3>2. x = m
      BY <2>3, <3>1
    <3>3. QED
      BY <2>3, <3>1, <3>2
  <2> HIDE DEF paths
  <2>8. QED
    BY <2>1, <2>6, <2>7, SaidByHits
<1>6. ASSUME NEW h \in 1..(n + 1), \A i \in 1..(h - 1) : i \notin hits
      PROVE  from[1] = from[h]
  <2> DEFINE Same == {i \in 0..(h - 1) : from[1] = from[i + 1]}
  <2> HIDE DEF hits, n
  <2>1. h - 1 \in Nat
    BY <1>2
  <2>2. 0 \in Same
    BY <2>1
  <2>3. ASSUME NEW i \in 1..(h - 1), i - 1 \in Same PROVE i \in Same
    <3>1. i \in 1..n /\ i \notin hits /\ i - 1 + 1 = i /\ i \in 0..(h - 1)
      BY <1>2, <1>6
    <3>2. from[i] = from[i + 1]
      BY <1>4, <3>1
    <3>3. from[1] = from[i - 1 + 1]
      BY <2>3
    <3>4. from[1] = from[i + 1]
      BY <3>1, <3>2, <3>3
    <3>5. QED
      BY <3>1, <3>4
  <2>4. \A i \in 0..(h - 1) : i \in Same
    <3> HIDE DEF Same
    <3>1. QED
      BY <2>1, <2>2, <2>3, IntervalInduction
  <2>5. h - 1 \in Same
    BY <2>1, <2>4
  <2>6. h - 1 + 1 = h
    BY <2>1
  <2>7. QED
    BY <2>5, <2>6
<1>7. CASE hits = {}
  <2>1. n + 1 \in 1..(n + 1)
    BY <1>2
  <2>2. from[1] = from[n + 1]
    BY <1>6, <1>7, <2>1
  <2>3. from[n + 1] = {NoText}
    BY <1>1 DEF IsSearch
  <2>4. QED
    BY <1>1, <1>2, <1>7, <2>2, <2>3 DEF FirstSaid
<1>8. CASE hits # {}
  <2>1. PICK x \in hits : \A j \in hits : x <= j
    <3>1. hits \in SUBSET Nat
      BY <1>2
    <3>2. QED
      BY <1>8, <3>1, LeastNatural
  <2> DEFINE first == CHOOSE i \in hits : \A j \in hits : i <= j
  <2>2. first \in hits /\ \A j \in hits : first <= j
    BY <2>1
  <2> HIDE DEF first
  <2>3. first \in 1..(n + 1) /\ \A i \in 1..(first - 1) : i \notin hits
    BY <1>2, <2>2
  <2>4. from[1] = from[first]
    BY <1>6, <2>3
  <2>5. from[first] = Said(doc, paths[first], kinds)
    BY <1>5, <2>2
  <2>6. FirstSaid(doc, field, kinds) = Said(doc, paths[first], kinds)
    BY <1>2, <1>8 DEF FirstSaid, first
  <2>7. QED
    BY <1>1, <2>4, <2>5, <2>6
<1>9. QED
  BY <1>7, <1>8

\* With unambiguous keys one thing is said at a path.
LEMMA FirstIsOne ==
  ASSUME NEW doc, IsDocument(doc), Unambiguous(doc), NEW field \in DOMAIN Rules, NEW kinds
  PROVE  \E x : FirstSaid(doc, field, kinds) = {x}
<1> DEFINE paths == Rules[field]
<1> DEFINE hits == {i \in DOMAIN paths : Said(doc, paths[i], kinds) # {}}
<1>1. CASE hits = {}
  BY <1>1 DEF FirstSaid
<1>2. CASE hits # {}
  <2>1. DOMAIN paths = 1..Len(paths) /\ \A i \in 1..Len(paths) : paths[i] \in Seq(Keys)
    BY RulePaths
  <2>2. PICK n \in hits : \A j \in hits : n <= j
    <3>1. hits \in SUBSET Nat
      BY <2>1, RulePaths
    <3>2. QED
      BY <1>2, <3>1, LeastNatural
  <2> DEFINE first == CHOOSE i \in hits : \A j \in hits : i <= j
  <2>3. first \in hits
    BY <2>2
  <2>4. FirstSaid(doc, field, kinds) = Said(doc, paths[first], kinds)
    BY <1>2 DEF FirstSaid
  <2> HIDE DEF first
  <2>5. PICK path \in Seq(Keys) : path = paths[first]
    BY <2>1, <2>3
  <2>6. PICK h \in Hits(doc, path, kinds) : TRUE
    BY <2>3, <2>5, SaidByHits
  <2>7. PICK m : ValueFromPath(KafkaRoot(doc), path) = {{m}} /\ m.says = h.says
    <3>1. \E m : EndsAt(doc, path, m, h)
      BY WalkFindsIt
    <3>2. QED
      BY <3>1 DEF EndsAt
  <2>8. ASSUME NEW g \in Hits(doc, path, kinds) PROVE g.says = h.says
    <3>1. PICK x : ValueFromPath(KafkaRoot(doc), path) = {{x}} /\ x.says = g.says
      <4>1. \E x : EndsAt(doc, path, x, g)
        BY WalkFindsIt
      <4>2. QED
        BY <4>1 DEF EndsAt
    <3>2. x = m
      BY <2>7, <3>1
    <3>3. QED
      BY <2>7, <3>1, <3>2
  <2>9. Said(doc, path, kinds) = {h.says}
    BY <2>8, SaidByHits
  <2>10. QED
    BY <2>4, <2>5, <2>9
<1>3. QED
  BY <1>1, <1>2
=============================================================================
