----------------------------- MODULE LdifProofs -----------------------------
(* Proofs about the archive's text.  Lines are concatenated over a sequence *)
(* of entries, so these proofs need induction over data: it comes from the  *)
(* least element of a set of numbers, which the library proves for every    *)
(* well-founded relation.                                                   *)
EXTENDS Ldif, FiniteSetTheorems, SequenceTheorems, WellFoundedInduction, TLAPS

-----------------------------------------------------------------------------
(* Induction up to a number *)

\* Every set of numbers has a least one.
LEMMA LeastNumber ==
    ASSUME NEW T, T \subseteq Nat, T # {}
    PROVE  \E x \in T : \A y \in T : x <= y
<1> DEFINE R == {ss \in Nat \X Nat : ss[1] < ss[2]}
<1>1. IsWellFoundedOn(R, Nat)
  BY NatLessThanWellFounded DEF OpToRel
<1>2. PICK x \in T : \A y \in T : ~ (<<y, x>> \in R)
  BY <1>1, WFMin
<1>3. ASSUME NEW y \in T PROVE x <= y
  <2>1. y \in Nat /\ x \in Nat
    OBVIOUS
  <2>2. y < x => <<y, x>> \in R
    BY <2>1
  <2> QED BY <1>2, <2>1, <2>2
<1> QED BY <1>3

\* What holds of 0, and of a number's successor when it holds of the number,
\* holds of all numbers up to n.
LEMMA UpTo ==
    ASSUME NEW n \in Nat, NEW T, 0 \in T,
           \A i \in 0..n : i \in T /\ i < n => i + 1 \in T
    PROVE  \A i \in 0..n : i \in T
<1> DEFINE Missing == {i \in 0..n : i \notin T}
<1>1. SUFFICES ASSUME Missing # {} PROVE FALSE
  OBVIOUS
<1>2. PICK m \in Missing : \A y \in Missing : m <= y
  <2>1. Missing \subseteq Nat
    OBVIOUS
  <2> HIDE DEF Missing
  <2> QED BY <1>1, <2>1, LeastNumber
<1>3. m \in Nat /\ m <= n /\ m # 0 /\ m \notin T
  OBVIOUS
<1>4. m - 1 \in 0..n /\ m - 1 < n /\ ~ (m <= m - 1)
  BY <1>3
<1>5. m - 1 \in T
  BY <1>2, <1>4
<1>6. (m - 1) + 1 = m
  BY <1>3
<1> QED BY <1>3, <1>4, <1>5, <1>6

-----------------------------------------------------------------------------
(* FlattenSeq concatenates *)

\* The equation by which FlattenSeq is defined.
Solves(f, q, n) ==
    f = [i \in 1..n |-> IF i = 1 THEN q[i] ELSE f[i - 1] \o q[i]]

\* It has a solution.
LEMMA SolutionExists ==
    ASSUME NEW q, NEW n \in Nat
    PROVE  \E f : Solves(f, q, n)
<1> DEFINE T == {m \in 0..n : \E f : Solves(f, q, m)}
<1>1. 0 \in T
  <2>1. Solves(<<>>, q, 0)
    BY DEF Solves
  <2> QED BY <2>1
<1>2. ASSUME NEW m \in 0..n, m \in T, m < n PROVE m + 1 \in T
  <2>1. PICK f : Solves(f, q, m)
    BY <1>2
  <2> DEFINE v == IF m = 0 THEN q[1] ELSE f[m] \o q[m + 1]
             g == [i \in 1..(m + 1) |-> IF i = m + 1 THEN v ELSE f[i]]
  <2>2. ASSUME NEW i \in 1..(m + 1)
        PROVE  g[i] = IF i = 1 THEN q[i] ELSE g[i - 1] \o q[i]
    <3>1. CASE i = m + 1
      <4>1. g[i] = v
        BY <3>1
      <4>2. m # 0 => g[i - 1] = f[m]
        BY <3>1
      <4> QED BY <3>1, <4>1, <4>2
    <3>2. CASE i # m + 1
      <4>1. i \in 1..m /\ g[i] = f[i] /\ (i # 1 => g[i - 1] = f[i - 1])
        BY <3>2
      <4>2. f[i] = IF i = 1 THEN q[i] ELSE f[i - 1] \o q[i]
        BY <2>1, <4>1 DEF Solves
      <4> QED BY <4>1, <4>2
    <3> QED BY <3>1, <3>2
  <2>3. Solves(g, q, m + 1)
    <3> DEFINE h == [i \in 1..(m + 1) |-> IF i = 1 THEN q[i] ELSE g[i - 1] \o q[i]]
    <3>1. \A i \in 1..(m + 1) : g[i] = h[i]
      BY <2>2
    <3>2. DOMAIN g = 1..(m + 1) /\ DOMAIN h = 1..(m + 1)
      OBVIOUS
    <3>3. g = [i \in 1..(m + 1) |-> g[i]] /\ h = [i \in 1..(m + 1) |-> h[i]]
      OBVIOUS
    <3>4. g = h
      <4> HIDE DEF g, h
      <4> QED BY <3>1, <3>3
    <3> HIDE DEF g
    <3> QED BY <3>4 DEF Solves
  <2> HIDE DEF g
  <2> QED BY <1>2, <2>3
<1>3. n \in T
  <2> HIDE DEF T
  <2> QED BY <1>1, <1>2, UpTo
<1> QED BY <1>3

\* And no two.
LEMMA SolutionUnique ==
    ASSUME NEW q, NEW n \in Nat, NEW f, NEW g, Solves(f, q, n), Solves(g, q, n)
    PROVE  f = g
<1> DEFINE T == {m \in 0..n : \A i \in 1..m : f[i] = g[i]}
<1>1. 0 \in T
  OBVIOUS
<1>2. ASSUME NEW m \in 0..n, m \in T, m < n PROVE m + 1 \in T
  <2>1. m + 1 \in 1..n /\ (m + 1 # 1 => m \in 1..m)
    BY <1>2
  <2>2. /\ f[m + 1] = IF m + 1 = 1 THEN q[m + 1] ELSE f[m] \o q[m + 1]
        /\ g[m + 1] = IF m + 1 = 1 THEN q[m + 1] ELSE g[m] \o q[m + 1]
    <3>1. (m + 1) - 1 = m
      BY <1>2
    <3>2. f[m + 1] = IF m + 1 = 1 THEN q[m + 1] ELSE f[(m + 1) - 1] \o q[m + 1]
      BY <2>1 DEF Solves
    <3>3. g[m + 1] = IF m + 1 = 1 THEN q[m + 1] ELSE g[(m + 1) - 1] \o q[m + 1]
      BY <2>1 DEF Solves
    <3> QED BY <3>1, <3>2, <3>3
  <2>3. f[m + 1] = g[m + 1]
    BY <1>2, <2>1, <2>2
  <2> QED BY <1>2, <2>1, <2>3
<1>3. n \in T
  <2> HIDE DEF T
  <2> QED BY <1>1, <1>2, UpTo
<1>4. \A i \in 1..n : f[i] = g[i]
  BY <1>3
<1>5. f = [i \in 1..n |-> f[i]] /\ g = [i \in 1..n |-> g[i]]
  BY DEF Solves
<1> QED BY <1>4, <1>5

\* What FlattenSeq returns.
LEMMA FlattenSolves ==
    ASSUME NEW q, Len(q) \in Nat, NEW f, Solves(f, q, Len(q))
    PROVE  FlattenSeq(q) = IF Len(q) = 0 THEN q ELSE f[Len(q)]
<1> DEFINE c == CHOOSE flatten : flatten = [i \in 1..Len(q) |->
                    IF i = 1 THEN q[i] ELSE flatten[i - 1] \o q[i]]
<1>1. FlattenSeq(q) = IF Len(q) = 0 THEN q ELSE c[Len(q)]
  BY DEF FlattenSeq
<1>2. Solves(c, q, Len(q))
  BY DEF Solves
<1>3. c = f
  <2> HIDE DEF c
  <2> QED BY <1>2, SolutionUnique
<1> QED BY <1>1, <1>3

\* It returns a sequence of what the parts are sequences of.
LEMMA FlattenType ==
    ASSUME NEW S, NEW q \in Seq(Seq(S))
    PROVE  FlattenSeq(q) \in Seq(S)
<1>2. PICK n \in Nat : n = Len(q)
  OBVIOUS
<1>1. PICK f : Solves(f, q, n)
  BY SolutionExists
<1> DEFINE T == {m \in 0..n : \A i \in 1..m : f[i] \in Seq(S)}
<1>3. 0 \in T
  BY <1>2
<1>4. ASSUME NEW m \in 0..n, m \in T, m < n PROVE m + 1 \in T
  <2>1. m + 1 \in 1..n /\ (m + 1 # 1 => m \in 1..m) /\ (m + 1) - 1 = m
    BY <1>2, <1>4
  <2>2. f[m + 1] = IF m + 1 = 1 THEN q[m + 1] ELSE f[(m + 1) - 1] \o q[m + 1]
    BY <1>1, <2>1 DEF Solves
  <2>3. q[m + 1] \in Seq(S)
    BY <1>2, <2>1
  <2>4. f[m + 1] \in Seq(S)
    <3>1. CASE m + 1 = 1
      BY <2>2, <2>3, <3>1
    <3>2. CASE m + 1 # 1
      <4>1. f[m] \in Seq(S)
        BY <1>4, <2>1, <3>2
      <4>2. f[m + 1] = f[m] \o q[m + 1]
        BY <2>1, <2>2, <3>2
      <4> QED BY <2>3, <4>1, <4>2
    <3> QED BY <3>1, <3>2
  <2> QED BY <1>2, <1>4, <2>1, <2>4
<1>5. n \in T
  <2> HIDE DEF T
  <2>1. n \in Nat
    BY <1>2
  <2>2. 0 \in T /\ \A i \in 0..n : i \in T /\ i < n => i + 1 \in T
    BY <1>3, <1>4
  <2>3. \A i \in 0..n : i \in T
    BY <2>1, <2>2, UpTo
  <2> QED BY <2>1, <2>3
<1>6. CASE n = 0
  <2>1. q = <<>> /\ <<>> \in Seq(S)
    <3>1. Len(q) = 0
      BY <1>2, <1>6
    <3> QED BY <3>1
  <2> QED BY <1>1, <1>2, <1>6, <2>1, FlattenSolves
<1>7. CASE n # 0
  <2>1. f[n] \in Seq(S)
    BY <1>2, <1>5, <1>7
  <2> QED BY <1>1, <1>2, <1>7, <2>1, FlattenSolves
<1> QED BY <1>6, <1>7

\* The parts before the i-th, and with it.
LEMMA FlattenPart ==
    ASSUME NEW S, NEW q \in Seq(Seq(S)), NEW f, Solves(f, q, Len(q)), NEW m \in 1..Len(q)
    PROVE  FlattenSeq(SubSeq(q, 1, m)) = f[m]
<1> DEFINE p == SubSeq(q, 1, m)
           g == [i \in 1..m |-> f[i]]
<1>1. m \in Nat /\ Len(p) = m /\ p \in Seq(Seq(S)) /\ \A i \in 1..m : p[i] = q[i]
  OBVIOUS
<1>2. Solves(g, p, m)
  <2> DEFINE h == [i \in 1..m |-> IF i = 1 THEN p[i] ELSE g[i - 1] \o p[i]]
  <2>1. ASSUME NEW i \in 1..m PROVE g[i] = h[i]
    <3>1. i \in 1..Len(q) /\ g[i] = f[i] /\ (i # 1 => i - 1 \in 1..m /\ g[i - 1] = f[i - 1])
      OBVIOUS
    <3>2. f[i] = IF i = 1 THEN q[i] ELSE f[i - 1] \o q[i]
      BY <3>1 DEF Solves
    <3>3. h[i] = IF i = 1 THEN p[i] ELSE g[i - 1] \o p[i]
      OBVIOUS
    <3> HIDE DEF g, h, p
    <3> QED BY <1>1, <3>1, <3>2, <3>3
  <2>2. g = [i \in 1..m |-> g[i]] /\ h = [i \in 1..m |-> h[i]]
    OBVIOUS
  <2>3. g = h
    <3> HIDE DEF g, h
    <3> QED BY <2>1, <2>2
  <2> HIDE DEF g, p
  <2> QED BY <2>3 DEF Solves
<1>3. FlattenSeq(p) = g[m]
  <2> HIDE DEF g, p
  <2> QED BY <1>1, <1>2, FlattenSolves
<1> QED BY <1>3

LEMMA FlattenNext ==
    ASSUME NEW S, NEW q \in Seq(Seq(S)), NEW m \in 1..Len(q)
    PROVE  /\ FlattenSeq(SubSeq(q, 1, 0)) = <<>>
           /\ FlattenSeq(SubSeq(q, 1, m)) = FlattenSeq(SubSeq(q, 1, m - 1)) \o q[m]
<1>0. Len(q) \in Nat
  OBVIOUS
<1>1. PICK f : Solves(f, q, Len(q))
  BY <1>0, SolutionExists
<1>2. FlattenSeq(SubSeq(q, 1, 0)) = <<>>
  <2>1. SubSeq(q, 1, 0) = <<>> /\ Len(<<>>) = 0
    OBVIOUS
  <2>2. PICK g : Solves(g, <<>>, 0)
    BY SolutionExists
  <2> QED BY <2>1, <2>2, FlattenSolves
<1>3. f[m] = IF m = 1 THEN q[m] ELSE f[m - 1] \o q[m]
  BY <1>1 DEF Solves
<1>4. FlattenSeq(SubSeq(q, 1, m)) = f[m]
  BY <1>1, FlattenPart
<1>5. CASE m = 1
  <2>1. q[m] \in Seq(S) /\ <<>> \o q[m] = q[m] /\ m - 1 = 0
    BY <1>5
  <2> QED BY <1>2, <1>3, <1>4, <1>5, <2>1
<1>6. CASE m # 1
  <2>1. m - 1 \in 1..Len(q)
    BY <1>6
  <2>2. FlattenSeq(SubSeq(q, 1, m - 1)) = f[m - 1]
    BY <1>1, <2>1, FlattenPart
  <2> QED BY <1>2, <1>3, <1>4, <1>6, <2>2
<1> QED BY <1>5, <1>6

\* Parts of one element each give the sequence of those elements.
LEMMA FlattenSingles ==
    ASSUME NEW S, NEW q \in Seq(Seq(S)), \A i \in DOMAIN q : Len(q[i]) = 1
    PROVE  /\ Len(FlattenSeq(q)) = Len(q)
           /\ \A i \in DOMAIN q : FlattenSeq(q)[i] = q[i][1]
<1>1. PICK n \in Nat : n = Len(q)
  OBVIOUS
<1> DEFINE F(m) == FlattenSeq(SubSeq(q, 1, m))
           T == {m \in 0..n : Len(F(m)) = m /\ \A i \in 1..m : F(m)[i] = q[i][1]}
<1>2. \A m \in 0..n : SubSeq(q, 1, m) \in Seq(Seq(S))
  BY <1>1
<1>3. \A m \in 0..n : F(m) \in Seq(S)
  BY <1>2, FlattenType
<1>4. 0 \in T
  <2>1. FlattenSeq(<<>>) = <<>>
    <3>1. PICK g : Solves(g, <<>>, 0)
      BY SolutionExists
    <3> QED BY <3>1, FlattenSolves
  <2>2. F(0) = <<>>
    <3>1. SubSeq(q, 1, 0) = <<>>
      OBVIOUS
    <3> QED BY <2>1, <3>1
  <2>3. Len(F(0)) = 0 /\ 1..0 = {}
    BY <2>2
  <2> HIDE DEF F
  <2> QED BY <1>1, <2>3
<1>5. ASSUME NEW m \in 0..n, m \in T, m < n PROVE m + 1 \in T
  <2>1. m + 1 \in 1..n /\ (m + 1) - 1 = m
    BY <1>1, <1>5
  <2>2. F(m + 1) = F(m) \o q[m + 1]
    <3>1. FlattenSeq(SubSeq(q, 1, m + 1)) = FlattenSeq(SubSeq(q, 1, (m + 1) - 1)) \o q[m + 1]
      BY <1>1, <2>1, FlattenNext
    <3> QED BY <2>1, <3>1
  <2>3. q[m + 1] \in Seq(S) /\ Len(q[m + 1]) = 1
    <3>1. m + 1 \in 1..Len(q) /\ DOMAIN q = 1..Len(q)
      BY <1>1, <2>1
    <3> QED BY <3>1
  <2>4. F(m) \in Seq(S) /\ Len(F(m)) = m /\ \A i \in 1..m : F(m)[i] = q[i][1]
    BY <1>3, <1>5
  <2> HIDE DEF F
  <2>a. PICK s \in Seq(S), t \in Seq(S) : s = F(m) /\ t = q[m + 1]
    BY <2>3, <2>4
  <2>5. Len(F(m + 1)) = m + 1
    <3>1. Len(s \o t) = Len(s) + Len(t)
      OBVIOUS
    <3> QED BY <2>2, <2>3, <2>4, <2>a, <3>1
  <2>6. ASSUME NEW i \in 1..(m + 1) PROVE F(m + 1)[i] = q[i][1]
    <3>1. CASE i \in 1..m
      <4>1. (s \o t)[i] = s[i]
        BY <2>3, <2>4, <2>a, <3>1
      <4> QED BY <2>2, <2>4, <2>a, <3>1, <4>1
    <3>2. CASE i = m + 1
      <4>1. (s \o t)[i] = t[1]
        BY <2>3, <2>4, <2>a, <3>2
      <4> QED BY <2>2, <2>a, <3>2, <4>1
    <3> QED BY <3>1, <3>2
  <2> QED BY <2>1, <2>5, <2>6
<1>6. n \in T
  <2> HIDE DEF T
  <2>1. n \in Nat
    BY <1>1
  <2>2. 0 \in T /\ \A i \in 0..n : i \in T /\ i < n => i + 1 \in T
    BY <1>4, <1>5
  <2>3. \A i \in 0..n : i \in T
    BY <2>1, <2>2, UpTo
  <2> QED BY <2>1, <2>3
<1>7. SubSeq(q, 1, n) = q /\ DOMAIN q = 1..n
  BY <1>1
<1> QED BY <1>1, <1>6, <1>7

-----------------------------------------------------------------------------
(* What backup_to_ldif writes *)

\* The lines of an entry's values, and the lines an entry may have.
ValueLines(e) == [i \in DOMAIN e.values |->
    <<AttrLine(e.values[i].attr, Head(e.values[i].pieces), e.values[i].coded)>>
        \o Tail(e.values[i].pieces)]
LinesOf(e) ==
    {DnLine(e.dn), Blank}
        \cup {AttrLine(e.values[i].attr, Head(e.values[i].pieces), e.values[i].coded) :
                 i \in DOMAIN e.values}
        \cup UNION {ToSet(e.values[i].pieces) : i \in DOMAIN e.values}

LEMMA FunctionIsSeq ==
    ASSUME NEW S, NEW n \in Nat, NEW f \in [1..n -> S]
    PROVE  f \in Seq(S) /\ Len(f) = n /\ DOMAIN f = 1..n
<1>1. f \in Seq(S)
  BY SeqDef
<1>2. DOMAIN f = 1..n
  OBVIOUS
<1>3. Len(f) \in Nat /\ DOMAIN f = 1..Len(f)
  BY <1>1, LenProperties
<1>4. Len(f) = n
  BY <1>2, <1>3
<1> QED BY <1>1, <1>2, <1>4

\* They are what a reader can read.
LEMMA LinesAreLines ==
    ASSUME NEW e, IsEntry(e), e.dn # None
    PROVE  \A l \in LinesOf(e) : IsLine(l)
<1>1. e.dn \in Dns /\ e.values \in Seq(ToSet(e.values))
  BY DEF IsEntry
<1>2. \A i \in DOMAIN e.values : e.values[i] \in ToSet(e.values)
  BY <1>1 DEF ToSet
<1>3. \A i \in DOMAIN e.values : \A l \in ToSet(e.values[i].pieces) : IsLine(l)
  BY <1>2 DEF IsEntry
<1>4. IsLine(DnLine(e.dn)) /\ IsLine(Blank)
  BY <1>1 DEF IsLine, DnLine, Blank
<1>5. \A a, p, c : IsLine(AttrLine(a, p, c))
  BY DEF IsLine, AttrLine
<1> QED BY <1>3, <1>4, <1>5 DEF LinesOf

LEMMA ValueLinesType ==
    ASSUME NEW e, IsEntry(e)
    PROVE  /\ ValueLines(e) \in Seq(Seq(LinesOf(e)))
           /\ Len(ValueLines(e)) = Len(e.values)
           /\ DOMAIN ValueLines(e) = 1..Len(e.values)
<1>1. e.values \in Seq(ToSet(e.values))
  BY DEF IsEntry
<1>2. Len(e.values) \in Nat /\ DOMAIN e.values = 1..Len(e.values)
  BY <1>1
<1>3. ASSUME NEW i \in DOMAIN e.values
      PROVE  <<AttrLine(e.values[i].attr, Head(e.values[i].pieces), e.values[i].coded)>>
                \o Tail(e.values[i].pieces) \in Seq(LinesOf(e))
  <2>1. e.values[i] \in ToSet(e.values)
    BY <1>1 DEF ToSet
  <2>2. e.values[i].pieces \in Seq(ToSet(e.values[i].pieces)) /\ e.values[i].pieces # <<>>
    BY <2>1 DEF IsEntry
  <2>3. Tail(e.values[i].pieces) \in Seq(ToSet(e.values[i].pieces))
    BY <2>2, HeadTailProperties
  <2>4. ToSet(e.values[i].pieces) \subseteq LinesOf(e)
    BY DEF LinesOf
  <2>5. Tail(e.values[i].pieces) \in Seq(LinesOf(e))
    BY <2>3, <2>4, SeqMonotonic
  <2>6. <<AttrLine(e.values[i].attr, Head(e.values[i].pieces), e.values[i].coded)>>
            \in Seq(LinesOf(e))
    <3>1. AttrLine(e.values[i].attr, Head(e.values[i].pieces), e.values[i].coded) \in LinesOf(e)
      BY DEF LinesOf
    <3> QED BY <3>1
  <2> QED BY <2>5, <2>6
<1>4. \A i \in 1..Len(e.values) : ValueLines(e)[i] \in Seq(LinesOf(e))
  BY <1>2, <1>3 DEF ValueLines
<1>5. ValueLines(e) = [i \in 1..Len(e.values) |-> ValueLines(e)[i]]
  BY <1>2 DEF ValueLines
<1>6. ValueLines(e) \in [1..Len(e.values) -> Seq(LinesOf(e))]
  BY <1>4, <1>5
<1> QED BY <1>2, <1>6, FunctionIsSeq

\* An entry begins with its name and ends with the only blank line that is
\* sure; a plain one has one line per value between.
LEMMA EntryShape ==
    ASSUME NEW e, IsEntry(e)
    PROVE  LET ls == EntryLines(e) IN
           /\ ls \in Seq(LinesOf(e))
           /\ Len(ls) >= 2
           /\ ls[1] = DnLine(e.dn) /\ ls[Len(ls)] = Blank
           /\ Plain(e) =>
                /\ Len(ls) = Len(e.values) + 2
                /\ \A k \in 1..Len(e.values) :
                     ls[k + 1] = AttrLine(e.values[k].attr, Head(e.values[k].pieces), FALSE)
<1> DEFINE b == FlattenSeq(ValueLines(e))
           A == <<DnLine(e.dn)>>
           Z == <<Blank>>
           ls == EntryLines(e)
<1>1. b \in Seq(LinesOf(e))
  BY ValueLinesType, FlattenType
<1>2. A \in Seq(LinesOf(e)) /\ Z \in Seq(LinesOf(e)) /\ Len(A) = 1 /\ Len(Z) = 1
  BY DEF LinesOf
<1>3. A[1] = DnLine(e.dn) /\ Z[1] = Blank
  OBVIOUS
<1>4. ls = A \o b \o Z
  BY DEF EntryLines, ValueLines
<1>5. Plain(e) =>
        /\ Len(b) = Len(e.values)
        /\ \A k \in 1..Len(e.values) :
             b[k] = AttrLine(e.values[k].attr, Head(e.values[k].pieces), FALSE)
  <2> SUFFICES ASSUME Plain(e)
               PROVE  /\ Len(b) = Len(e.values)
                      /\ \A k \in 1..Len(e.values) :
                           b[k] = AttrLine(e.values[k].attr, Head(e.values[k].pieces), FALSE)
    OBVIOUS
  <2>1. e.values \in Seq(ToSet(e.values)) /\ DOMAIN e.values = 1..Len(e.values)
    BY DEF IsEntry
  <2>2. ASSUME NEW i \in DOMAIN e.values
        PROVE  ValueLines(e)[i] = <<AttrLine(e.values[i].attr, Head(e.values[i].pieces), FALSE)>>
    <3>1. Len(e.values[i].pieces) = 1 /\ e.values[i].coded = FALSE
      BY DEF Plain, Single
    <3>2. e.values[i].pieces \in Seq(ToSet(e.values[i].pieces))
      BY DEF IsEntry, ToSet
    <3>3. Tail(e.values[i].pieces) = <<>>
      <4>1. e.values[i].pieces # <<>>
        BY <3>1
      <4>2. /\ Tail(e.values[i].pieces) \in Seq(ToSet(e.values[i].pieces))
            /\ Len(Tail(e.values[i].pieces)) = 0
        <5>1. PICK p \in Seq(ToSet(e.values[i].pieces)) : p = e.values[i].pieces
          BY <3>2
        <5>2. Tail(p) \in Seq(ToSet(e.values[i].pieces)) /\ Len(Tail(p)) = Len(p) - 1
          BY <4>1, <5>1, HeadTailProperties
        <5> QED BY <3>1, <5>1, <5>2
      <4> QED BY <4>2, EmptySeq
    <3>4. ValueLines(e)[i] = <<AttrLine(e.values[i].attr, Head(e.values[i].pieces), FALSE)>> \o <<>>
      BY <3>1, <3>3 DEF ValueLines
    <3> QED BY <3>4
  <2>3. \A i \in DOMAIN ValueLines(e) : Len(ValueLines(e)[i]) = 1
    <3>1. DOMAIN ValueLines(e) = DOMAIN e.values
      BY DEF ValueLines
    <3>2. \A x : Len(<<x>>) = 1
      OBVIOUS
    <3> QED BY <2>2, <3>1, <3>2
  <2>4. /\ Len(b) = Len(ValueLines(e))
        /\ \A i \in DOMAIN ValueLines(e) : b[i] = ValueLines(e)[i][1]
    BY <2>3, ValueLinesType, FlattenSingles
  <2>5. DOMAIN ValueLines(e) = DOMAIN e.values /\ Len(ValueLines(e)) = Len(e.values)
    BY <2>1, ValueLinesType
  <2>6. \A x : <<x>>[1] = x
    OBVIOUS
  <2>7. \A k \in 1..Len(e.values) : b[k] = ValueLines(e)[k][1]
    BY <2>1, <2>4, <2>5
  <2> HIDE DEF b
  <2> QED BY <2>1, <2>2, <2>4, <2>5, <2>6, <2>7
<1> HIDE DEF b, A, Z, ls
<1>6. A \o b \in Seq(LinesOf(e)) /\ Len(A \o b) = 1 + Len(b) /\ Len(b) \in Nat
  BY <1>1, <1>2, ConcatProperties, LenProperties
<1>7. ls \in Seq(LinesOf(e)) /\ Len(ls) = Len(b) + 2
  BY <1>2, <1>4, <1>6
<1>8. ls[1] = DnLine(e.dn)
  <2>1. (A \o b)[1] = A[1]
    BY <1>1, <1>2, <1>6, ConcatProperties
  <2>2. ls[1] = (A \o b)[1]
    BY <1>2, <1>4, <1>6
  <2> QED BY <1>3, <2>1, <2>2
<1>9. ls[Len(b) + 2] = Blank
  BY <1>2, <1>3, <1>4, <1>6
<1>10. ASSUME NEW k \in 1..Len(b) PROVE ls[k + 1] = b[k]
  <2>1. (A \o b)[k + 1] = b[k]
    <3>1. k + 1 \in 1..(Len(A) + Len(b)) /\ ~ (k + 1 <= Len(A)) /\ (k + 1) - Len(A) = k
      BY <1>2, <1>6
    <3>2. \A i \in 1..(Len(A) + Len(b)) :
            (A \o b)[i] = IF i <= Len(A) THEN A[i] ELSE b[i - Len(A)]
      BY <1>1, <1>2, ConcatProperties
    <3> QED BY <3>1, <3>2
  <2>2. ls[k + 1] = (A \o b)[k + 1]
    BY <1>2, <1>4, <1>6
  <2> QED BY <2>1, <2>2
<1>11. Plain(e) =>
         /\ Len(ls) = Len(e.values) + 2
         /\ \A k \in 1..Len(e.values) :
              ls[k + 1] = AttrLine(e.values[k].attr, Head(e.values[k].pieces), FALSE)
  BY <1>5, <1>7, <1>10
<1>12. Len(ls) >= 2 /\ ls[Len(ls)] = Blank
  BY <1>6, <1>7, <1>9
<1> QED BY <1>7, <1>8, <1>11, <1>12 DEF ls

\* The lines of one entry, of the first i entries, and all lines of the archive.
Own(i)  == IF entries[i].dn = None THEN <<>> ELSE EntryLines(entries[i])
Part(i) == BackupToLdif(SubSeq(entries, 1, i))
Size    == Len(entries)
Text    == UNION {LinesOf(entries[i]) : i \in {j \in DOMAIN entries : entries[j].dn # None}}

LEMMA EntriesType ==
    ASSUME entries \in Sources
    PROVE  /\ Size \in Nat /\ DOMAIN entries = 1..Size
           /\ \A i \in 1..Size : IsEntry(entries[i])
           /\ \A l \in Text : IsLine(l)
<1>1. entries \in Seq(ToSet(entries)) /\ \A e \in ToSet(entries) : IsEntry(e)
  BY SourcesAssumption
<1>2. Size \in Nat /\ DOMAIN entries = 1..Size
  BY <1>1, LenProperties DEF Size
<1>3. \A i \in 1..Size : IsEntry(entries[i])
  BY <1>1, <1>2 DEF ToSet
<1>4. \A l \in Text : IsLine(l)
  BY <1>2, <1>3, LinesAreLines DEF Text
<1> QED BY <1>2, <1>3, <1>4

\* The archive of one more entry has that entry's lines at its end.
LEMMA PartGrows ==
    ASSUME entries \in Sources
    PROVE  /\ \A i \in 0..Size : Part(i) \in Seq(Text)
           /\ Part(0) = <<>> /\ Part(Size) = BackupToLdif(entries)
           /\ \A i \in 1..Size : Own(i) \in Seq(Text) /\ Part(i) = Part(i - 1) \o Own(i)
<1> DEFINE q == [i \in DOMAIN entries |-> Own(i)]
<1>1. Size \in Nat /\ DOMAIN entries = 1..Size /\ entries \in Seq(ToSet(entries))
  BY EntriesType, SourcesAssumption
<1>2. \A i \in 1..Size : Own(i) \in Seq(Text)
  <2> SUFFICES ASSUME NEW i \in 1..Size PROVE Own(i) \in Seq(Text)
    OBVIOUS
  <2>1. CASE entries[i].dn = None
    BY <2>1, EmptySeq DEF Own
  <2>2. CASE entries[i].dn # None
    <3>1. EntryLines(entries[i]) \in Seq(LinesOf(entries[i]))
      BY EntriesType, EntryShape
    <3>2. LinesOf(entries[i]) \subseteq Text
      BY <1>1, <2>2 DEF Text
    <3>3. EntryLines(entries[i]) \in Seq(Text)
      BY <3>1, <3>2, SeqMonotonic
    <3> QED BY <2>2, <3>3 DEF Own
  <2> QED BY <2>1, <2>2
<1>3. q \in Seq(Seq(Text)) /\ Len(q) = Size /\ \A i \in 1..Size : q[i] = Own(i)
  <2>1. q \in [1..Size -> Seq(Text)]
    BY <1>1, <1>2
  <2>2. q \in Seq(Seq(Text)) /\ Len(q) = Size
    <3> HIDE DEF q
    <3> QED BY <1>1, <2>1, FunctionIsSeq
  <2> QED BY <1>1, <2>2
<1>4. ASSUME NEW i \in 0..Size PROVE Part(i) = FlattenSeq(SubSeq(q, 1, i))
  <2> DEFINE es == SubSeq(entries, 1, i)
             r  == [j \in DOMAIN es |-> IF es[j].dn = None THEN <<>> ELSE EntryLines(es[j])]
  <2>1. i \in Nat /\ i <= Size
    BY <1>1
  <2>2. DOMAIN es = 1..i /\ \A j \in 1..i : es[j] = entries[j]
    BY <1>1, <2>1 DEF Size
  <2>3. \A j \in 1..i : r[j] = q[j]
    BY <1>1, <2>1, <2>2 DEF Own
  <2>4. r = [j \in 1..i |-> r[j]]
    BY <2>2
  <2>5. SubSeq(q, 1, i) = [j \in 1..i |-> q[j]]
    <3>1. q \in Seq(Seq(Text)) /\ Len(q) = Size
      BY <1>3
    <3> HIDE DEF q
    <3> QED BY <2>1, <3>1
  <2>6. r = SubSeq(q, 1, i)
    <3> HIDE DEF r, q
    <3> QED BY <2>3, <2>4, <2>5
  <2>7. Part(i) = FlattenSeq(r)
    BY DEF Part, BackupToLdif
  <2> QED BY <2>6, <2>7
<1> HIDE DEF q
<1>5. \A i \in 0..Size : SubSeq(q, 1, i) \in Seq(Seq(Text))
  BY <1>1, <1>3
<1>6. \A i \in 0..Size : Part(i) \in Seq(Text)
  BY <1>4, <1>5, FlattenType
<1>7. Part(Size) = BackupToLdif(entries)
  <2>1. SubSeq(entries, 1, Size) = entries
    BY <1>1 DEF Size
  <2> QED BY <2>1 DEF Part
<1>8. ASSUME NEW i \in 1..Size PROVE Part(i) = Part(i - 1) \o Own(i)
  <2>1. i \in 0..Size /\ i - 1 \in 0..Size /\ i \in 1..Len(q)
    BY <1>1, <1>3
  <2>2. FlattenSeq(SubSeq(q, 1, i)) = FlattenSeq(SubSeq(q, 1, i - 1)) \o q[i]
    BY <1>3, <2>1, FlattenNext
  <2> QED BY <1>3, <1>4, <2>1, <2>2
<1>9. Part(0) = <<>>
  <2>1. SubSeq(q, 1, 0) = <<>>
    BY <1>3
  <2>2. FlattenSeq(<<>>) = <<>>
    <3>1. PICK g : Solves(g, <<>>, 0)
      BY SolutionExists
    <3> QED BY <3>1, FlattenSolves
  <2>3. 0 \in 0..Size
    BY <1>1
  <2>4. Part(0) = FlattenSeq(SubSeq(q, 1, 0))
    BY <1>4, <2>3
  <2> QED BY <2>1, <2>2, <2>4
<1> QED BY <1>2, <1>6, <1>7, <1>8, <1>9

\* It begins with the archive of fewer entries.
LEMMA PartIsPrefix ==
    ASSUME entries \in Sources, NEW j \in 0..Size, NEW i \in 0..j
    PROVE  /\ End(i) \in Nat /\ End(j) \in Nat /\ End(i) <= End(j)
           /\ \A k \in 1..End(i) : Part(i)[k] = Part(j)[k]
<1> DEFINE T == {m \in 0..Size : m >= i =>
                    End(i) <= End(m) /\ \A k \in 1..End(i) : Part(i)[k] = Part(m)[k]}
<1>1. Size \in Nat /\ \A m \in 0..Size : Part(m) \in Seq(Text) /\ End(m) = Len(Part(m))
  BY EntriesType, PartGrows DEF End, Part
<1>2. \A m \in 0..Size : End(m) \in Nat
  BY <1>1, LenProperties
<1>3. i \in 0..Size
  BY <1>1
<1>4. i \in T
  BY <1>2, <1>3
<1>5. 0 \in T
  BY <1>1, <1>2, <1>3, <1>4
<1>6. ASSUME NEW m \in 0..Size, m \in T, m < Size PROVE m + 1 \in T
  <2>1. CASE m + 1 <= i
    <3>1. m + 1 = i \/ ~ (m + 1 >= i)
      BY <1>3, <2>1
    <3>2. m + 1 \in 0..Size
      BY <1>1, <1>6
    <3> QED BY <1>4, <3>1, <3>2
  <2>2. CASE ~ (m + 1 <= i)
    <3>1. m + 1 \in 1..Size /\ (m + 1) - 1 = m /\ m >= i /\ m + 1 \in 0..Size
      BY <1>1, <1>3, <1>6, <2>2
    <3>2. Part(m + 1) = Part(m) \o Own(m + 1) /\ Own(m + 1) \in Seq(Text)
      <4>1. Part(m + 1) = Part((m + 1) - 1) \o Own(m + 1) /\ Own(m + 1) \in Seq(Text)
        BY <3>1, PartGrows
      <4> QED BY <3>1, <4>1
    <3>3. PICK s \in Seq(Text), t \in Seq(Text) : s = Part(m) /\ t = Own(m + 1)
      BY <1>1, <3>2
    <3>4. Len(s \o t) = Len(s) + Len(t) /\ \A k \in 1..Len(s) : (s \o t)[k] = s[k]
      OBVIOUS
    <3>5. End(m) <= End(m + 1) /\ \A k \in 1..End(m) : Part(m + 1)[k] = Part(m)[k]
      <4>1. End(m) = Len(s) /\ End(m + 1) = Len(s \o t)
        BY <1>1, <3>1, <3>2, <3>3
      <4> QED BY <3>2, <3>3, <3>4, <4>1
    <3>6. End(i) <= End(m) /\ \A k \in 1..End(i) : Part(i)[k] = Part(m)[k]
      BY <1>6, <3>1
    <3> QED BY <1>2, <1>3, <3>1, <3>5, <3>6
  <2> QED BY <2>1, <2>2
<1>7. j \in T
  <2> HIDE DEF T
  <2>1. 0 \in T /\ \A m \in 0..Size : m \in T /\ m < Size => m + 1 \in T
    BY <1>5, <1>6
  <2>2. \A m \in 0..Size : m \in T
    BY <1>1, <2>1, UpTo
  <2> QED BY <2>2
<1>8. j >= i
  BY <1>1
<1> QED BY <1>2, <1>3, <1>7, <1>8

\* Where the lines of each entry are, and how they read.
ArchiveOK ==
    /\ file \in Seq(Text)
    /\ \A i \in 0..Size : End(i) \in 0..Len(file)
    /\ \A i \in 1..Size : entries[i].dn # None =>
         /\ End(i - 1) + 2 <= End(i)
         /\ file[End(i - 1) + 1] = DnLine(entries[i].dn)
         /\ file[End(i)] = Blank
         /\ Plain(entries[i]) =>
              LET vs == entries[i].values IN
              /\ End(i) = End(i - 1) + 2 + Len(vs)
              /\ \A k \in 1..Len(vs) : file[End(i - 1) + 1 + k]
                                         = AttrLine(vs[k].attr, Head(vs[k].pieces), FALSE)
    /\ \A j \in 0..Size : \A i \in 0..j : End(i) <= End(j)
    /\ \A i \in 0..Size : End(i) = 0 \/ file[End(i)] = Blank

LEMMA ArchiveShape ==
    ASSUME entries \in Sources, file = BackupToLdif(entries)
    PROVE  ArchiveOK
<1>1. /\ Size \in Nat
      /\ \A m \in 0..Size : Part(m) \in Seq(Text) /\ End(m) = Len(Part(m)) /\ End(m) \in Nat
  <2>1. Size \in Nat /\ \A m \in 0..Size : Part(m) \in Seq(Text) /\ End(m) = Len(Part(m))
    BY EntriesType, PartGrows DEF End, Part
  <2> QED BY <2>1, LenProperties
<1>2. file = Part(Size) /\ Size \in 0..Size /\ file \in Seq(Text) /\ End(Size) = Len(file)
  BY <1>1, PartGrows
<1>3. \A j \in 0..Size : \A i \in 0..j : End(i) <= End(j)
  BY PartIsPrefix
<1>4. \A i \in 0..Size : End(i) \in 0..Len(file)
  <2> SUFFICES ASSUME NEW i \in 0..Size PROVE End(i) \in 0..Len(file)
    OBVIOUS
  <2>1. End(i) <= End(Size)
    BY <1>2, <1>3
  <2> QED BY <1>1, <1>2, <2>1
<1>5. \A i \in 0..Size : \A k \in 1..End(i) : file[k] = Part(i)[k]
  BY <1>2, PartIsPrefix
<1>6. ASSUME NEW i \in 1..Size, entries[i].dn # None
      PROVE  /\ End(i) = End(i - 1) + Len(EntryLines(entries[i]))
             /\ Len(EntryLines(entries[i])) \in Nat
             /\ \A k \in 1..Len(EntryLines(entries[i])) :
                  file[End(i - 1) + k] = EntryLines(entries[i])[k]
  <2>1. i \in 0..Size /\ i - 1 \in 0..Size
    BY <1>1
  <2>2. Own(i) = EntryLines(entries[i]) /\ Own(i) \in Seq(Text) /\ Part(i) = Part(i - 1) \o Own(i)
    BY <1>6, PartGrows DEF Own
  <2>3. PICK s \in Seq(Text), t \in Seq(Text) : s = Part(i - 1) /\ t = Own(i)
    BY <1>1, <2>1, <2>2
  <2>4. Len(s) \in Nat /\ Len(t) \in Nat /\ Len(s \o t) = Len(s) + Len(t)
    OBVIOUS
  <2>5. \A k \in 1..Len(t) : (s \o t)[Len(s) + k] = t[k]
    OBVIOUS
  <2>6. End(i - 1) = Len(s) /\ End(i) = Len(s) + Len(t)
    BY <1>1, <2>1, <2>2, <2>3, <2>4
  <2>7. \A k \in 1..Len(t) : file[Len(s) + k] = t[k]
    <3> SUFFICES ASSUME NEW k \in 1..Len(t) PROVE file[Len(s) + k] = t[k]
      OBVIOUS
    <3>1. Len(s) + k \in 1..End(i)
      BY <2>4, <2>6
    <3>2. file[Len(s) + k] = Part(i)[Len(s) + k]
      BY <1>5, <2>1, <3>1
    <3> QED BY <2>2, <2>3, <2>5, <3>2
  <2> QED BY <2>2, <2>3, <2>4, <2>6, <2>7
<1>7. ASSUME NEW i \in 1..Size, entries[i].dn # None
      PROVE  /\ End(i - 1) + 2 <= End(i)
             /\ file[End(i - 1) + 1] = DnLine(entries[i].dn)
             /\ file[End(i)] = Blank
             /\ Plain(entries[i]) =>
                  LET vs == entries[i].values IN
                  /\ End(i) = End(i - 1) + 2 + Len(vs)
                  /\ \A k \in 1..Len(vs) : file[End(i - 1) + 1 + k]
                                             = AttrLine(vs[k].attr, Head(vs[k].pieces), FALSE)
  <2> DEFINE e == entries[i]
             ls == EntryLines(e)
  <2>1. /\ Len(ls) >= 2
        /\ ls[1] = DnLine(e.dn) /\ ls[Len(ls)] = Blank
        /\ Plain(e) =>
             /\ Len(ls) = Len(e.values) + 2
             /\ \A k \in 1..Len(e.values) :
                  ls[k + 1] = AttrLine(e.values[k].attr, Head(e.values[k].pieces), FALSE)
    BY EntriesType, EntryShape
  <2>2. /\ End(i) = End(i - 1) + Len(ls)
        /\ Len(ls) \in Nat
        /\ \A k \in 1..Len(ls) : file[End(i - 1) + k] = ls[k]
    BY <1>6, <1>7
  <2>3. End(i - 1) \in Nat /\ Len(e.values) \in Nat
    <3>1. i - 1 \in 0..Size
      BY <1>1
    <3>2. e.values \in Seq(ToSet(e.values))
      BY EntriesType DEF IsEntry
    <3> QED BY <1>1, <3>1, <3>2, LenProperties
  <2> HIDE DEF e, ls
  <2>4. End(i - 1) + 2 <= End(i) /\ file[End(i - 1) + 1] = DnLine(e.dn) /\ file[End(i)] = Blank
    <3>1. 1 \in 1..Len(ls) /\ Len(ls) \in 1..Len(ls)
      BY <2>1, <2>2
    <3>2. Len(ls) >= 2 /\ End(i) = End(i - 1) + Len(ls)
      BY <2>1, <2>2
    <3>3. End(i - 1) + 2 <= End(i)
      BY <2>2, <2>3, <3>2
    <3>4. file[End(i - 1) + 1] = DnLine(e.dn)
      <4>1. file[End(i - 1) + 1] = ls[1]
        BY <2>2, <3>1
      <4> QED BY <2>1, <4>1
    <3>5. file[End(i)] = Blank
      <4>1. file[End(i - 1) + Len(ls)] = ls[Len(ls)]
        BY <2>2, <3>1
      <4> QED BY <2>1, <3>2, <4>1
    <3> QED BY <3>3, <3>4, <3>5
  <2>5. ASSUME Plain(e)
        PROVE  /\ End(i) = End(i - 1) + 2 + Len(e.values)
               /\ \A k \in 1..Len(e.values) : file[End(i - 1) + 1 + k]
                     = AttrLine(e.values[k].attr, Head(e.values[k].pieces), FALSE)
    <3>1. End(i) = End(i - 1) + 2 + Len(e.values)
      <4>1. Len(ls) = Len(e.values) + 2
        BY <2>1, <2>5
      <4>2. End(i) = End(i - 1) + Len(ls)
        BY <2>2
      <4> QED BY <2>3, <4>1, <4>2
    <3>2. ASSUME NEW k \in 1..Len(e.values)
          PROVE  file[End(i - 1) + 1 + k]
                    = AttrLine(e.values[k].attr, Head(e.values[k].pieces), FALSE)
      <4>1. k + 1 \in 1..Len(ls) /\ End(i - 1) + 1 + k = End(i - 1) + (k + 1)
        BY <2>1, <2>3, <2>5
      <4> QED BY <2>1, <2>2, <2>5, <4>1
    <3> QED BY <3>1, <3>2
  <2> QED BY <2>4, <2>5 DEF e
<1>8. \A i \in 0..Size : End(i) = 0 \/ file[End(i)] = Blank
  <2> DEFINE T == {m \in 0..Size : End(m) = 0 \/ file[End(m)] = Blank}
  <2>1. 0 \in T
    <3>1. Part(0) = <<>> /\ 0 \in 0..Size
      BY <1>1, PartGrows
    <3>2. End(0) = 0
      BY <1>1, <3>1
    <3> QED BY <3>1, <3>2
  <2>2. ASSUME NEW m \in 0..Size, m \in T, m < Size PROVE m + 1 \in T
    <3>1. m + 1 \in 1..Size /\ m + 1 \in 0..Size /\ (m + 1) - 1 = m
      BY <1>1, <2>2
    <3>2. CASE entries[m + 1].dn = None
      <4>1. Own(m + 1) = <<>> /\ Part(m + 1) = Part(m) \o Own(m + 1)
        <5>1. Part(m + 1) = Part((m + 1) - 1) \o Own(m + 1)
          BY <3>1, PartGrows
        <5> QED BY <3>1, <3>2, <5>1 DEF Own
      <4>2. Part(m + 1) = Part(m)
        BY <1>1, <4>1, ConcatEmptySeq
      <4>3. End(m + 1) = End(m)
        BY <1>1, <3>1, <4>2
      <4> QED BY <2>2, <3>1, <4>3
    <3>3. CASE entries[m + 1].dn # None
      BY <1>7, <3>1, <3>3
    <3> QED BY <3>2, <3>3
  <2>3. 0 \in T /\ \A m \in 0..Size : m \in T /\ m < Size => m + 1 \in T
    BY <2>1, <2>2
  <2> HIDE DEF T
  <2>4. \A m \in 0..Size : m \in T
    BY <1>1, <2>3, UpTo
  <2> QED BY <2>4 DEF T
<1> QED BY <1>2, <1>3, <1>4, <1>7, <1>8 DEF ArchiveOK

-----------------------------------------------------------------------------
(* What the steps do *)

\* Nothing rewrites the archive or what the directory was.
LEMMA ArchiveStays ==
    ASSUME [LdifNext]_ldifVars
    PROVE  UNCHANGED <<entries, file, had>>
BY DEF LdifNext, ldifVars, Open, ReadDn, ReadAttr, ReadOther, ReadBlank, Close,
       LoseReply, LoseConnection, Die

\* So neither does what is said of them change.
LEMMA ReadingStays ==
    ASSUME UNCHANGED <<entries, file, had>>
    PROVE  /\ \A i : End(i)' = End(i) /\ Sound(i)' = Sound(i)
           /\ \A i : Unmistaken(entries[i])' = Unmistaken(entries[i])
           /\ Size' = Size /\ Written' = Written /\ ArchiveOK' = ArchiveOK
<1>1. \A i : End(i)' = End(i)
  BY DEF End
<1>2. \A i : Sound(i)' = Sound(i)
  BY DEF Sound, HangTogether
<1>3. \A i : Unmistaken(entries[i])' = Unmistaken(entries[i])
  BY DEF Unmistaken
<1>4. Size' = Size /\ Written' = Written
  BY DEF Size, Written
<1>5. Text' = Text
  BY DEF Text
<1>6. ArchiveOK' = ArchiveOK
  BY <1>1, <1>4, <1>5 DEF ArchiveOK
<1> QED BY <1>1, <1>2, <1>3, <1>4, <1>6

\* A line is read; the connection may go with it.
Advances ==
    /\ reader.status = "reading" /\ reader.line <= Len(file)
    /\ DOMAIN reader' = DOMAIN NoReader
    /\ reader'.line = reader.line + 1
    /\ reader'.online = reader.online \/ reader'.online = FALSE
    /\ reader'.status = "reading" /\ reader'.before = reader.before
    /\ runs' = runs

\* The end of an entry that the server takes.
Takes ==
    /\ reader.dn # None /\ reader.attrs # <<>>
    /\ reader.online /\ Accepts(directory, reader.dn, reader.attrs)

LEMMA LineSteps ==
    ASSUME DOMAIN reader = DOMAIN NoReader
    PROVE  /\ ReadDn =>
                /\ Advances /\ Line.kind = "dn" /\ directory' = directory
                /\ reader'.dn = Line.dn /\ reader'.attrs = reader.attrs
                /\ reader'.restored = reader.restored
           /\ ReadAttr =>
                /\ Advances /\ Line.kind = "attr" /\ directory' = directory
                /\ reader'.dn = reader.dn
                /\ reader'.attrs = Append(reader.attrs,
                     [attr |-> Line.attr, value |-> Line.value, coded |-> Line.coded])
                /\ reader'.restored = reader.restored
           /\ ReadOther =>
                /\ Advances /\ Line.kind = "word" /\ directory' = directory
                /\ reader'.dn = reader.dn /\ reader'.attrs = reader.attrs
                /\ reader'.restored = reader.restored
           /\ ReadBlank =>
                /\ Advances /\ Line.kind = "blank"
                /\ reader'.dn = None /\ reader'.attrs = <<>>
                /\ Takes => /\ directory' = Added(directory, reader.dn, reader.attrs)
                            /\ reader'.restored = reader.restored + 1
                /\ ~ Takes => directory' = directory /\ reader'.restored = reader.restored
           /\ LoseReply =>
                /\ Advances /\ Line.kind = "blank" /\ Takes
                /\ reader'.dn = None /\ reader'.attrs = <<>> /\ reader'.online = FALSE
                /\ directory' = Added(directory, reader.dn, reader.attrs)
                /\ reader'.restored = reader.restored
<1> DEFINE names == {"line", "dn", "attrs", "online", "restored", "before", "status"}
<1>1. DOMAIN reader = names
  BY DEF NoReader
<1>2. DOMAIN NoReader = names
  BY DEF NoReader
<1>3. ASSUME ReadDn
      PROVE  /\ Advances /\ Line.kind = "dn" /\ directory' = directory
             /\ reader'.dn = Line.dn /\ reader'.attrs = reader.attrs
             /\ reader'.restored = reader.restored
  BY <1>1, <1>2, <1>3 DEF ReadDn, Advances, Step, Reading
<1>4. ASSUME ReadAttr
      PROVE  /\ Advances /\ Line.kind = "attr" /\ directory' = directory
             /\ reader'.dn = reader.dn
             /\ reader'.attrs = Append(reader.attrs,
                  [attr |-> Line.attr, value |-> Line.value, coded |-> Line.coded])
             /\ reader'.restored = reader.restored
  BY <1>1, <1>2, <1>4 DEF ReadAttr, Advances, Step, Reading
<1>5. ASSUME ReadOther
      PROVE  /\ Advances /\ Line.kind = "word" /\ directory' = directory
             /\ reader'.dn = reader.dn /\ reader'.attrs = reader.attrs
             /\ reader'.restored = reader.restored
  BY <1>1, <1>2, <1>5 DEF ReadOther, Advances, Step, Reading
<1>6. ASSUME ReadBlank
      PROVE  /\ Advances /\ Line.kind = "blank"
             /\ reader'.dn = None /\ reader'.attrs = <<>>
             /\ Takes => /\ directory' = Added(directory, reader.dn, reader.attrs)
                         /\ reader'.restored = reader.restored + 1
             /\ ~ Takes => directory' = directory /\ reader'.restored = reader.restored
  <2>1. CASE Takes
    BY <1>1, <1>2, <1>6, <2>1 DEF ReadBlank, Advances, Step, Reading, Takes
  <2>2. CASE ~ Takes
    BY <1>1, <1>2, <1>6, <2>2 DEF ReadBlank, Advances, Step, Reading, Takes
  <2> QED BY <2>1, <2>2
<1>7. ASSUME LoseReply
      PROVE  /\ Advances /\ Line.kind = "blank" /\ Takes
             /\ reader'.dn = None /\ reader'.attrs = <<>> /\ reader'.online = FALSE
             /\ directory' = Added(directory, reader.dn, reader.attrs)
             /\ reader'.restored = reader.restored
  BY <1>1, <1>2, <1>7 DEF LoseReply, Advances, Step, Reading, Takes
<1> QED BY <1>3, <1>4, <1>5, <1>6, <1>7

LEMMA OtherSteps ==
    ASSUME DOMAIN reader = DOMAIN NoReader
    PROVE  /\ Open =>
                /\ reader' = [NoReader EXCEPT !.line = 1, !.online = TRUE, !.status = "reading",
                                              !.before = DOMAIN directory]
                /\ DOMAIN reader' = DOMAIN NoReader
                /\ reader'.line = 1 /\ reader'.dn = None /\ reader'.attrs = <<>>
                /\ reader'.online = TRUE /\ reader'.restored = 0
                /\ reader'.before = DOMAIN directory /\ reader'.status = "reading"
                /\ directory' = directory
                /\ reader.status # "reading" /\ runs < MaxRuns /\ runs' = runs + 1
           /\ Close =>
                /\ reader.status = "reading" /\ reader.line = Len(file) + 1
                /\ DOMAIN reader' = DOMAIN NoReader
                /\ reader'.line = reader.line /\ reader'.dn = reader.dn
                /\ reader'.attrs = reader.attrs /\ reader'.online = reader.online
                /\ reader'.restored = reader.restored /\ reader'.before = reader.before
                /\ reader'.status = "completed"
                /\ directory' = directory /\ runs' = runs
           /\ LoseConnection =>
                /\ reader.status = "reading"
                /\ DOMAIN reader' = DOMAIN NoReader
                /\ reader'.line = reader.line /\ reader'.dn = reader.dn
                /\ reader'.attrs = reader.attrs /\ reader'.online = FALSE
                /\ reader'.restored = reader.restored /\ reader'.before = reader.before
                /\ reader'.status = reader.status
                /\ directory' = directory /\ runs' = runs
           /\ Die =>
                /\ reader' = NoReader /\ DOMAIN reader' = DOMAIN NoReader
                /\ reader'.line = 0 /\ reader'.dn = None /\ reader'.online = FALSE
                /\ reader'.restored = 0 /\ reader'.before = {} /\ reader'.status = "idle"
                /\ directory' = directory /\ runs' = runs
<1> USE DEF Reading
<1>1. DOMAIN NoReader = {"line", "dn", "attrs", "online", "restored", "before", "status"}
  BY DEF NoReader
<1>2. ASSUME Open
      PROVE  /\ reader' = [NoReader EXCEPT !.line = 1, !.online = TRUE, !.status = "reading",
                                           !.before = DOMAIN directory]
             /\ DOMAIN reader' = DOMAIN NoReader
             /\ reader'.line = 1 /\ reader'.dn = None /\ reader'.attrs = <<>>
             /\ reader'.online = TRUE /\ reader'.restored = 0
             /\ reader'.before = DOMAIN directory /\ reader'.status = "reading"
             /\ directory' = directory
             /\ reader.status # "reading" /\ runs < MaxRuns /\ runs' = runs + 1
  BY <1>2 DEF Open, NoReader
<1>3. ASSUME Close
      PROVE  /\ reader.status = "reading" /\ reader.line = Len(file) + 1
             /\ DOMAIN reader' = DOMAIN NoReader
             /\ reader'.line = reader.line /\ reader'.dn = reader.dn
             /\ reader'.attrs = reader.attrs /\ reader'.online = reader.online
             /\ reader'.restored = reader.restored /\ reader'.before = reader.before
             /\ reader'.status = "completed"
             /\ directory' = directory /\ runs' = runs
  BY <1>1, <1>3 DEF Close
<1>4. ASSUME LoseConnection
      PROVE  /\ reader.status = "reading"
             /\ DOMAIN reader' = DOMAIN NoReader
             /\ reader'.line = reader.line /\ reader'.dn = reader.dn
             /\ reader'.attrs = reader.attrs /\ reader'.online = FALSE
             /\ reader'.restored = reader.restored /\ reader'.before = reader.before
             /\ reader'.status = reader.status
             /\ directory' = directory /\ runs' = runs
  BY <1>1, <1>4 DEF LoseConnection
<1>5. ASSUME Die
      PROVE  /\ reader' = NoReader /\ DOMAIN reader' = DOMAIN NoReader
             /\ reader'.line = 0 /\ reader'.dn = None /\ reader'.online = FALSE
             /\ reader'.restored = 0 /\ reader'.before = {} /\ reader'.status = "idle"
             /\ directory' = directory /\ runs' = runs
  BY <1>5 DEF Die, NoReader
<1> QED BY <1>2, <1>3, <1>4, <1>5

-----------------------------------------------------------------------------
(* The invariant *)

LEMMA WrittenArchive ==
    ASSUME Written
    PROVE  /\ ArchiveOK /\ Size \in Nat /\ DOMAIN entries = 1..Size
           /\ Len(file) \in Nat /\ DOMAIN file = 1..Len(file)
           /\ \A i \in 1..Size : IsEntry(entries[i])
           /\ \A l \in 1..Len(file) : IsLine(file[l])
<1>1. ArchiveOK
  BY ArchiveShape DEF Written
<1>2. file \in Seq(Text)
  BY <1>1 DEF ArchiveOK
<1>3. Len(file) \in Nat /\ DOMAIN file = 1..Len(file) /\ \A l \in 1..Len(file) : file[l] \in Text
  BY <1>2, LenProperties, ElementOfSeq
<1> QED BY <1>1, <1>3, EntriesType DEF Written

LEMMA InitLdif ==
    ASSUME LdifInit
    PROVE  LdifInv
<1>1. Written
  BY DEF LdifInit, Written
<1>2. Len(file) \in Nat
  BY <1>1, WrittenArchive
<1>3. /\ DOMAIN reader = DOMAIN NoReader /\ reader.line = 0 /\ reader.dn = None
      /\ reader.online = FALSE /\ reader.restored = 0 /\ reader.before = {}
      /\ reader.status = "idle"
  BY DEF LdifInit, NoReader
<1>4. IsFiniteSet(DOMAIN directory) /\ DOMAIN directory \subseteq Dns /\ directory = had
  BY LdifAssumption DEF LdifInit
<1>5. runs \in 0..MaxRuns
  BY LdifAssumption DEF LdifInit
<1>6. LdifTypeOK
  <2>1. reader.online \in BOOLEAN
    BY <1>3, Zenon
  <2>2. reader.line \in 0..Len(file) + 1 /\ reader.dn \in Dns \cup {None}
    BY <1>2, <1>3
  <2> QED BY <1>3, <1>4, <1>5, <2>1, <2>2 DEF LdifTypeOK
<1>7. ReaderFollows
  BY <1>3 DEF ReaderFollows
<1>8. DirectoryFollows
  BY <1>3, <1>4 DEF DirectoryFollows
<1>9. CountFollows
  BY <1>3, <1>4 DEF CountFollows, CountIsAdded
<1>10. BlockFollows
  <2>1. directory = had /\ runs = 0
    BY DEF LdifInit
  <2> QED BY <1>3, <2>1 DEF BlockFollows
<1> QED BY <1>1, <1>6, <1>7, <1>8, <1>9, <1>10 DEF LdifInv

\* A directory gains entries and changes none.
LEMMA DirectorySteps ==
    ASSUME LdifTypeOK, [LdifNext]_ldifVars
    PROVE  \/ directory' = directory
           \/ /\ (ReadBlank \/ LoseReply) /\ Takes
              /\ reader.dn \in Dns /\ reader.dn \notin DOMAIN directory
              /\ directory' = Added(directory, reader.dn, reader.attrs)
              /\ DOMAIN directory' = DOMAIN directory \cup {reader.dn}
              /\ \A d \in DOMAIN directory : directory'[d] = directory[d]
              /\ directory'[reader.dn] = {reader.attrs[j] : j \in DOMAIN reader.attrs}
<1>1. DOMAIN reader = DOMAIN NoReader /\ reader.dn \in Dns \cup {None}
  BY DEF LdifTypeOK
<1>2. CASE (ReadBlank \/ LoseReply) /\ Takes
  <2>1. directory' = Added(directory, reader.dn, reader.attrs)
    BY <1>1, <1>2, LineSteps
  <2>2. reader.dn \in Dns /\ reader.dn \notin DOMAIN directory
    BY <1>1, <1>2 DEF Takes, Accepts
  <2> QED BY <1>2, <2>1, <2>2 DEF Added
<1>3. CASE ~ ((ReadBlank \/ LoseReply) /\ Takes)
  BY <1>1, <1>3, LineSteps, OtherSteps DEF LdifNext, ldifVars
<1> QED BY <1>2, <1>3

LEMMA TypeStep ==
    ASSUME LdifInv, [LdifNext]_ldifVars
    PROVE  LdifTypeOK'
<1>1. /\ DOMAIN had \subseteq DOMAIN directory /\ DOMAIN directory \subseteq Dns
      /\ DOMAIN reader = DOMAIN NoReader
      /\ reader.line \in 0..Len(file) + 1
      /\ reader.dn \in Dns \cup {None}
      /\ reader.online \in BOOLEAN
      /\ reader.status \in {"idle", "reading", "completed"}
      /\ runs \in 0..MaxRuns
  BY DEF LdifInv, LdifTypeOK
<1>2. file' = file /\ had' = had
  BY ArchiveStays
<1>3. /\ Len(file) \in Nat /\ MaxRuns \in Nat
      /\ \A l \in 1..Len(file) : IsLine(file[l])
  BY WrittenArchive, LdifAssumption DEF LdifInv
<1>4. DOMAIN had' \subseteq DOMAIN directory' /\ DOMAIN directory' \subseteq Dns
  BY <1>1, <1>2, DirectorySteps DEF LdifInv
<1>5. reader.status = "reading" => reader.line >= 1
  BY DEF LdifInv, ReaderFollows
<1> DEFINE Rest == /\ DOMAIN reader' = DOMAIN NoReader
                   /\ reader'.line \in 0..Len(file) + 1
                   /\ reader'.dn \in Dns \cup {None}
                   /\ reader'.online \in BOOLEAN
                   /\ reader'.status \in {"idle", "reading", "completed"}
                   /\ runs' \in 0..MaxRuns
<1>6. ASSUME Advances, reader'.dn \in Dns \cup {None} PROVE Rest
  <2>1. reader'.online \in BOOLEAN
    <3>1. reader'.online = reader.online \/ reader'.online = FALSE
      BY <1>6 DEF Advances
    <3> QED BY <1>1, <3>1, Zenon
  <2> QED BY <1>1, <1>3, <1>6, <2>1 DEF Advances
<1>7. ASSUME ReadDn PROVE Rest
  <2>1. Advances /\ Line.kind = "dn" /\ reader'.dn = Line.dn
    BY <1>1, <1>7, LineSteps
  <2>2. reader.line \in 1..Len(file)
    BY <1>1, <1>3, <1>5, <2>1 DEF Advances
  <2>3. Line.dn \in Dns
    BY <1>3, <2>1, <2>2 DEF Line, IsLine
  <2> HIDE DEF Rest
  <2> QED BY <1>6, <2>1, <2>3
<1>8. ASSUME ReadAttr \/ ReadOther \/ ReadBlank \/ LoseReply PROVE Rest
  <2>1. Advances /\ reader'.dn \in {reader.dn, None}
    BY <1>1, <1>8, LineSteps
  <2> HIDE DEF Rest
  <2> QED BY <1>1, <1>6, <2>1
<1>9. ASSUME Open PROVE Rest
  <2>1. /\ DOMAIN reader' = DOMAIN NoReader /\ reader'.line = 1 /\ reader'.dn = None
        /\ reader'.status = "reading" /\ runs < MaxRuns /\ runs' = runs + 1
    BY <1>1, <1>9, OtherSteps
  <2>2. reader'.online \in BOOLEAN
    <3>1. reader'.online = TRUE
      BY <1>1, <1>9, OtherSteps
    <3> QED BY <3>1, Zenon
  <2> QED BY <1>1, <1>3, <2>1, <2>2
<1>10. ASSUME Close PROVE Rest
  BY <1>1, <1>3, <1>10, OtherSteps
<1>11. ASSUME LoseConnection PROVE Rest
  BY <1>1, <1>3, <1>11, OtherSteps
<1>12. ASSUME Die PROVE Rest
  <2>1. /\ DOMAIN reader' = DOMAIN NoReader /\ reader'.line = 0 /\ reader'.dn = None
        /\ reader'.status = "idle" /\ runs' = runs
    BY <1>1, <1>12, OtherSteps
  <2>2. reader'.online \in BOOLEAN
    <3>1. reader'.online = FALSE
      BY <1>1, <1>12, OtherSteps
    <3> QED BY <3>1, Zenon
  <2> QED BY <1>1, <1>3, <2>1, <2>2
<1>13. ASSUME UNCHANGED ldifVars PROVE Rest
  BY <1>1, <1>13 DEF ldifVars
<1>14. Rest
  <2> HIDE DEF Rest
  <2> QED BY <1>7, <1>8, <1>9, <1>10, <1>11, <1>12, <1>13 DEF LdifNext
<1> QED BY <1>2, <1>4, <1>14 DEF LdifTypeOK, NoReader

LEMMA CountStep ==
    ASSUME LdifInv, [LdifNext]_ldifVars
    PROVE  CountFollows'
<1>1. /\ DOMAIN reader = DOMAIN NoReader
      /\ IsFiniteSet(DOMAIN directory) /\ reader.before \subseteq DOMAIN directory
      /\ reader.restored \in Nat
      /\ reader.status # "idle" =>
           \/ reader.restored = Cardinality(DOMAIN directory) - Cardinality(reader.before)
           \/ /\ ~ reader.online
              /\ reader.restored + 1
                     = Cardinality(DOMAIN directory) - Cardinality(reader.before)
  BY DEF LdifInv, LdifTypeOK, CountFollows, CountIsAdded
<1> DEFINE Goal == /\ IsFiniteSet(DOMAIN directory')
                   /\ reader'.before \subseteq DOMAIN directory'
                   /\ reader'.restored \in Nat
                   /\ reader'.status # "idle" =>
                        \/ reader'.restored = Cardinality(DOMAIN directory')
                                                - Cardinality(reader'.before)
                        \/ /\ ~ reader'.online
                           /\ reader'.restored + 1 = Cardinality(DOMAIN directory')
                                                       - Cardinality(reader'.before)
<1>2. ASSUME (ReadBlank \/ LoseReply) /\ Takes PROVE Goal
  <2>1. /\ reader.dn \notin DOMAIN directory
        /\ DOMAIN directory' = DOMAIN directory \cup {reader.dn}
    BY <1>1, <1>2, LineSteps DEF Takes, Accepts, Added
  <2>2. /\ IsFiniteSet(DOMAIN directory')
        /\ Cardinality(DOMAIN directory') = Cardinality(DOMAIN directory) + 1
    BY <1>1, <2>1, FS_AddElement
  <2>3. /\ reader.status = "reading" /\ reader'.before = reader.before /\ reader.online
        /\ \/ reader'.restored = reader.restored + 1
           \/ reader'.restored = reader.restored /\ ~ reader'.online
    BY <1>1, <1>2, LineSteps DEF Advances, Takes
  <2>4. Cardinality(DOMAIN directory) \in Nat /\ Cardinality(reader.before) \in Nat
    BY <1>1, FS_CardinalityType, FS_Subset
  <2>5. \/ reader'.restored = Cardinality(DOMAIN directory') - Cardinality(reader'.before)
        \/ /\ ~ reader'.online
           /\ reader'.restored + 1 = Cardinality(DOMAIN directory') - Cardinality(reader'.before)
    BY <1>1, <2>2, <2>3, <2>4
  <2> QED BY <1>1, <2>1, <2>2, <2>3, <2>5
<1>3. ASSUME ReadDn \/ ReadAttr \/ ReadOther \/ (ReadBlank /\ ~ Takes) PROVE Goal
  <2>1. /\ directory' = directory /\ reader.status = "reading"
        /\ reader'.before = reader.before /\ reader'.restored = reader.restored
        /\ reader'.online => reader.online
    BY <1>1, <1>3, LineSteps DEF Advances
  <2> QED BY <1>1, <2>1
<1>4. ASSUME Open PROVE Goal
  <2>1. Cardinality(DOMAIN directory) \in Nat
    BY <1>1, FS_CardinalityType
  <2>2. /\ directory' = directory /\ reader'.before = DOMAIN directory
        /\ reader'.restored = 0
    BY <1>1, <1>4, OtherSteps
  <2> QED BY <1>1, <2>1, <2>2
<1>5. ASSUME Close \/ LoseConnection PROVE Goal
  <2>1. /\ directory' = directory /\ reader.status = "reading"
        /\ reader'.before = reader.before /\ reader'.restored = reader.restored
        /\ reader'.online => reader.online
    BY <1>1, <1>5, OtherSteps
  <2> QED BY <1>1, <2>1
<1>6. ASSUME Die PROVE Goal
  BY <1>1, <1>6, OtherSteps
<1>7. ASSUME UNCHANGED ldifVars PROVE Goal
  BY <1>1, <1>7 DEF ldifVars
<1>8. Goal
  <2> HIDE DEF Goal
  <2>1. LoseReply => Takes
    BY <1>1, LineSteps
  <2> QED BY <1>2, <1>3, <1>4, <1>5, <1>6, <1>7, <2>1 DEF LdifNext
<1> QED BY <1>8 DEF CountFollows, CountIsAdded

\* Where the lines of a plain entry are, and that they are no others.
LEMMA PlainLines ==
    ASSUME Written, NEW i \in DOMAIN entries, Plain(entries[i])
    PROVE  LET e  == entries[i]
               vs == e.values
           IN /\ i \in 1..Size /\ e.dn \in Dns /\ e.dn # None /\ IsEntry(e)
              /\ Len(vs) \in Nat \ {0} /\ DOMAIN vs = 1..Len(vs)
              /\ End(i - 1) \in Nat /\ End(i) = End(i - 1) + 2 + Len(vs) /\ End(i) <= Len(file)
              /\ End(i - 1) = 0 \/ file[End(i - 1)] = Blank
              /\ file[End(i - 1) + 1] = DnLine(e.dn)
              /\ \A k \in 1..Len(vs) : file[End(i - 1) + 1 + k]
                                         = AttrLine(vs[k].attr, Head(vs[k].pieces), FALSE)
              /\ \A k \in 1..Len(vs) : Read(vs[k]) = [attr |-> vs[k].attr,
                                         value |-> Head(vs[k].pieces), coded |-> FALSE]
              /\ file[End(i)] = Blank
<1> DEFINE e == entries[i]
<1>1. /\ ArchiveOK /\ Size \in Nat /\ i \in 1..Size /\ IsEntry(e) /\ Len(file) \in Nat
  BY WrittenArchive
<1>2. e.dn # None /\ e.values # <<>>
  BY DEF Plain
<1>3. e.dn \in Dns /\ e.values \in Seq(ToSet(e.values))
  BY <1>1, <1>2 DEF IsEntry
<1>4. Len(e.values) \in Nat \ {0} /\ DOMAIN e.values = 1..Len(e.values)
  BY <1>2, <1>3, LenProperties, EmptySeq
<1>5. i \in 0..Size /\ i - 1 \in 0..Size
  BY <1>1
<1>6. End(i - 1) \in Nat /\ End(i) <= Len(file)
  BY <1>1, <1>5 DEF ArchiveOK
<1>7. End(i - 1) = 0 \/ file[End(i - 1)] = Blank
  BY <1>1, <1>5 DEF ArchiveOK
<1>8. /\ file[End(i - 1) + 1] = DnLine(e.dn) /\ file[End(i)] = Blank
      /\ End(i) = End(i - 1) + 2 + Len(e.values)
      /\ \A k \in 1..Len(e.values) : file[End(i - 1) + 1 + k]
             = AttrLine(e.values[k].attr, Head(e.values[k].pieces), FALSE)
  BY <1>1, <1>2 DEF ArchiveOK
<1>9. \A k \in 1..Len(e.values) :
        Read(e.values[k]) = [attr |-> e.values[k].attr,
                             value |-> Head(e.values[k].pieces), coded |-> FALSE]
  <2> SUFFICES ASSUME NEW k \in 1..Len(e.values)
               PROVE  Read(e.values[k]) = [attr |-> e.values[k].attr,
                          value |-> Head(e.values[k].pieces), coded |-> FALSE]
    OBVIOUS
  <2>1. e.values[k].coded = FALSE
    BY <1>4 DEF Plain, Single
  <2> QED BY <2>1 DEF Read
<1> QED BY <1>1, <1>2, <1>3, <1>4, <1>6, <1>7, <1>8, <1>9

LEMMA ReaderStep ==
    ASSUME LdifInv, [LdifNext]_ldifVars
    PROVE  ReaderFollows'
<1>1. /\ Written /\ DOMAIN reader = DOMAIN NoReader
      /\ reader.line \in 0..Len(file) + 1
      /\ Len(file) \in Nat /\ DOMAIN file = 1..Len(file)
      /\ \A l \in 1..Len(file) : IsLine(file[l])
  BY WrittenArchive DEF LdifInv, LdifTypeOK
<1>2. UNCHANGED <<entries, file, had>>
  BY ArchiveStays
<1>3. /\ \A i : End(i)' = End(i)
      /\ \A i : Unmistaken(entries[i])' = Unmistaken(entries[i])
  BY <1>2, ReadingStays
<1> DEFINE
      Clean(r) == r.line = 1 \/ file[r.line - 1].kind = "blank" => r.dn = None /\ r.attrs = <<>>
      Inside(r, i) == \A k \in 0..Len(entries[i].values) :
          r.line = End(i - 1) + 2 + k =>
              r.dn = entries[i].dn /\ r.attrs = [j \in 1..k |-> Read(entries[i].values[j])]
      Named(r, i) == Unmistaken(entries[i]) /\ r.dn = entries[i].dn =>
          r.line \in End(i - 1) + 2 .. End(i)
      Follows(r) == /\ r.line >= 1 /\ Clean(r)
                    /\ \A i \in DOMAIN entries :
                          Plain(entries[i]) => Inside(r, i) /\ Named(r, i)
<1>4. reader.status = "reading" => Follows(reader)
  BY DEF LdifInv, ReaderFollows
<1>5. ASSUME Advances, reader.line \in 1..Len(file),
             \/ /\ Line.kind = "dn" /\ reader'.dn = Line.dn
                /\ reader'.attrs = reader.attrs
             \/ /\ Line.kind = "attr" /\ reader'.dn = reader.dn
                /\ reader'.attrs = Append(reader.attrs,
                     [attr |-> Line.attr, value |-> Line.value, coded |-> Line.coded])
             \/ /\ Line.kind = "word" /\ reader'.dn = reader.dn
                /\ reader'.attrs = reader.attrs
             \/ /\ Line.kind = "blank" /\ reader'.dn = None /\ reader'.attrs = <<>>
      PROVE  Follows(reader')
  <2>1. /\ reader'.line = reader.line + 1 /\ Follows(reader)
        /\ Line = file[reader.line] /\ IsLine(Line)
    BY <1>1, <1>4, <1>5 DEF Advances, Line
  <2>2. Clean(reader')
    <3>1. (reader'.line) - 1 = reader.line /\ reader'.line # 1
      BY <1>5, <2>1
    <3> QED BY <1>5, <2>1, <3>1
  <2>3. ASSUME NEW i \in DOMAIN entries, Plain(entries[i]) PROVE Inside(reader', i)
    <3> DEFINE e == entries[i]
               vs == e.values
    <3> SUFFICES ASSUME NEW k \in 0..Len(vs), reader'.line = End(i - 1) + 2 + k
                 PROVE  /\ reader'.dn = e.dn
                        /\ reader'.attrs = [j \in 1..k |-> Read(vs[j])]
      OBVIOUS
    <3>1. /\ Len(vs) \in Nat /\ End(i - 1) \in Nat
          /\ End(i - 1) = 0 \/ file[End(i - 1)] = Blank
          /\ file[End(i - 1) + 1] = DnLine(e.dn)
          /\ \A m \in 1..Len(vs) : file[End(i - 1) + 1 + m]
                                     = AttrLine(vs[m].attr, Head(vs[m].pieces), FALSE)
          /\ \A m \in 1..Len(vs) : Read(vs[m]) = [attr |-> vs[m].attr,
                                     value |-> Head(vs[m].pieces), coded |-> FALSE]
      BY <1>1, <2>3, PlainLines
    <3>2. reader.line = End(i - 1) + 1 + k
      BY <1>5, <2>1, <3>1
    <3>3. CASE k = 0
      <4>1. Line = DnLine(e.dn)
        BY <2>1, <3>1, <3>2, <3>3
      <4>2. reader'.dn = e.dn /\ reader'.attrs = reader.attrs
        BY <1>5, <4>1 DEF DnLine
      <4>3. reader.line = 1 \/ file[reader.line - 1].kind = "blank"
        BY <3>1, <3>2, <3>3 DEF Blank
      <4>4. reader.attrs = <<>>
        BY <2>1, <4>3
      <4>5. [j \in 1..k |-> Read(vs[j])] = <<>>
        BY <3>3
      <4> QED BY <4>2, <4>4, <4>5
    <3>4. CASE k # 0
      <4>1. k \in 1..Len(vs) /\ k - 1 \in 0..Len(vs) /\ reader.line = End(i - 1) + 2 + (k - 1)
        BY <3>1, <3>2, <3>4
      <4>2. Line = AttrLine(vs[k].attr, Head(vs[k].pieces), FALSE)
        BY <2>1, <3>1, <3>2, <4>1
      <4>3. /\ reader'.dn = reader.dn
            /\ reader'.attrs = Append(reader.attrs,
                 [attr |-> Line.attr, value |-> Line.value, coded |-> Line.coded])
        BY <1>5, <4>2 DEF AttrLine
      <4>4. [attr |-> Line.attr, value |-> Line.value, coded |-> Line.coded] = Read(vs[k])
        BY <3>1, <4>1, <4>2 DEF AttrLine
      <4>5. reader.dn = e.dn /\ reader.attrs = [j \in 1..(k - 1) |-> Read(vs[j])]
        BY <2>1, <2>3, <4>1
      <4>6. Append([j \in 1..(k - 1) |-> Read(vs[j])], Read(vs[k])) = [j \in 1..k |-> Read(vs[j])]
        <5> DEFINE a == [j \in 1..(k - 1) |-> Read(vs[j])]
                   b == [j \in 1..k |-> Read(vs[j])]
                   S == {Read(vs[j]) : j \in 1..k}
        <5>1. k \in Nat /\ k - 1 \in Nat
          BY <3>1, <4>1
        <5>2. a \in [1..(k - 1) -> S] /\ b \in [1..k -> S] /\ Read(vs[k]) \in S
          BY <5>1, <3>4
        <5>3. /\ \A j \in 1..(k - 1) : a[j] = Read(vs[j])
              /\ \A j \in 1..k : b[j] = Read(vs[j])
          OBVIOUS
        <5> HIDE DEF a, b, S
        <5>4. a \in Seq(S) /\ Len(a) = k - 1 /\ b \in Seq(S) /\ Len(b) = k
          BY <5>1, <5>2, FunctionIsSeq
        <5>5. /\ Append(a, Read(vs[k])) \in Seq(S) /\ Len(Append(a, Read(vs[k]))) = k
              /\ \A j \in 1..(k - 1) : Append(a, Read(vs[k]))[j] = a[j]
              /\ Append(a, Read(vs[k]))[k] = Read(vs[k])
          BY <5>1, <5>2, <5>4, AppendProperties
        <5>6. \A j \in 1..k : Append(a, Read(vs[k]))[j] = b[j]
          BY <5>1, <5>3, <5>5
        <5>7. Append(a, Read(vs[k])) = b
          BY <5>4, <5>5, <5>6, SeqEqual
        <5> QED BY <5>7 DEF a, b
      <4> QED BY <4>3, <4>4, <4>5, <4>6
    <3> QED BY <3>3, <3>4
  <2>4. ASSUME NEW i \in DOMAIN entries, Plain(entries[i]) PROVE Named(reader', i)
    <3> DEFINE e == entries[i]
    <3> SUFFICES ASSUME Unmistaken(e), reader'.dn = e.dn
                 PROVE  reader'.line \in End(i - 1) + 2 .. End(i)
      OBVIOUS
    <3>1. /\ e.dn # None /\ End(i - 1) \in Nat /\ End(i) \in Nat
          /\ End(i - 1) + 2 <= End(i) /\ End(i) <= Len(file)
          /\ file[End(i - 1) + 1] = DnLine(e.dn) /\ file[End(i)].kind = "blank"
      <4>1. /\ e.dn # None /\ Len(e.values) \in Nat /\ End(i - 1) \in Nat
            /\ End(i) = End(i - 1) + 2 + Len(e.values) /\ End(i) <= Len(file)
            /\ file[End(i - 1) + 1] = DnLine(e.dn) /\ file[End(i)] = Blank
        BY <1>1, <2>4, PlainLines
      <4>2. file[End(i)].kind = "blank"
        BY <4>1 DEF Blank
      <4> HIDE DEF e
      <4> QED BY <4>1, <4>2
    <3>2. CASE Line.kind = "dn"
      <4>1. Line = DnLine(e.dn)
        BY <1>5, <2>1, <3>2 DEF IsLine
      <4>2. End(i - 1) + 1 \in DOMAIN file /\ reader.line \in DOMAIN file
        BY <1>1, <1>5, <3>1
      <4>3. reader.line = End(i - 1) + 1
        BY <2>1, <3>1, <4>1, <4>2 DEF Unmistaken
      <4> QED BY <2>1, <3>1, <4>3
    <3>3. CASE Line.kind = "attr" \/ Line.kind = "word"
      <4>1. reader'.dn = reader.dn
        BY <1>5, <3>3
      <4>2. reader.line \in End(i - 1) + 2 .. End(i)
        BY <2>1, <2>4, <4>1
      <4>3. reader.line # End(i)
        BY <2>1, <3>1, <3>3
      <4> QED BY <2>1, <3>1, <4>2, <4>3
    <3>4. CASE Line.kind = "blank"
      BY <1>5, <3>1, <3>4
    <3> QED BY <1>5, <3>2, <3>3, <3>4
  <2>5. reader'.line >= 1
    BY <1>5, <2>1
  <2> QED BY <2>2, <2>3, <2>4, <2>5
<1>6. ASSUME Advances PROVE reader.line \in 1..Len(file)
  BY <1>1, <1>4, <1>6 DEF Advances
<1>7. ASSUME ReadDn \/ ReadAttr \/ ReadOther \/ ReadBlank \/ LoseReply PROVE Follows(reader')
  <2>1. /\ Advances
        /\ \/ /\ Line.kind = "dn" /\ reader'.dn = Line.dn
              /\ reader'.attrs = reader.attrs
           \/ /\ Line.kind = "attr" /\ reader'.dn = reader.dn
              /\ reader'.attrs = Append(reader.attrs,
                   [attr |-> Line.attr, value |-> Line.value, coded |-> Line.coded])
           \/ /\ Line.kind = "word" /\ reader'.dn = reader.dn
              /\ reader'.attrs = reader.attrs
           \/ /\ Line.kind = "blank" /\ reader'.dn = None /\ reader'.attrs = <<>>
    BY <1>1, <1>7, LineSteps
  <2> HIDE DEF Follows
  <2> QED BY <1>5, <1>6, <2>1
<1>8. ASSUME Open PROVE Follows(reader')
  <2>1. reader'.line = 1 /\ reader'.dn = None /\ reader'.attrs = <<>>
    BY <1>1, <1>8, OtherSteps
  <2>2. ASSUME NEW i \in DOMAIN entries, Plain(entries[i])
        PROVE  Inside(reader', i) /\ Named(reader', i)
    <3>1. entries[i].dn # None /\ End(i - 1) \in Nat /\ Len(entries[i].values) \in Nat
      BY <1>1, <2>2, PlainLines
    <3>2. \A k \in 0..Len(entries[i].values) : 1 # End(i - 1) + 2 + k
      BY <3>1
    <3> QED BY <2>1, <3>1, <3>2
  <2>3. reader'.line >= 1 /\ Clean(reader')
    BY <2>1
  <2> HIDE DEF Inside, Named, Clean
  <2> QED BY <2>2, <2>3
<1>9. ASSUME LoseConnection, reader'.status = "reading" PROVE Follows(reader')
  <2>1. /\ reader'.line = reader.line /\ reader'.dn = reader.dn /\ reader'.attrs = reader.attrs
        /\ Follows(reader)
    BY <1>1, <1>4, <1>9, OtherSteps
  <2> QED BY <2>1
<1>10. ASSUME UNCHANGED ldifVars, reader'.status = "reading" PROVE Follows(reader')
  BY <1>4, <1>10 DEF ldifVars
<1>11. Close \/ Die => reader'.status # "reading"
  BY <1>1, OtherSteps
<1>12. reader'.status = "reading" => Follows(reader')
  <2> HIDE DEF Follows
  <2> QED BY <1>7, <1>8, <1>9, <1>10, <1>11 DEF LdifNext
<1> QED BY <1>2, <1>3, <1>12 DEF ReaderFollows

\* The attributes of a plain entry are told apart by what is read of them.
LEMMA PlainDistinct ==
    ASSUME NEW e, IsEntry(e), Plain(e), NEW a \in DOMAIN e.values, NEW b \in DOMAIN e.values,
           Read(e.values[a]) = Read(e.values[b])
    PROVE  a = b
<1> DEFINE p == e.values[a].pieces
           q == e.values[b].pieces
<1>1. /\ e.values[a].attr = e.values[b].attr
      /\ e.values[a].coded = e.values[b].coded
      /\ Head(p) = Head(q)
  BY DEF Read
<1>2. Len(p) = 1 /\ Len(q) = 1
  BY DEF Plain, Single
<1>3. p \in Seq(ToSet(p)) /\ q \in Seq(ToSet(q))
  BY DEF IsEntry, ToSet
<1>4. p = q
  <2> HIDE DEF p, q
  <2> DEFINE S == ToSet(p) \cup ToSet(q)
  <2>1. p \in Seq(S) /\ q \in Seq(S)
    BY <1>3, SeqMonotonic
  <2>2. p[1] = q[1]
    BY <1>1, <1>2, <2>1
  <2> HIDE DEF S
  <2> QED BY <1>2, <2>1, <2>2, SeqEqual
<1> QED BY <1>1, <1>4 DEF IsEntry

\* At the end of a plain entry the reader holds all of it.
LEMMA WholeEntryRead ==
    ASSUME LdifInv, reader.status = "reading", NEW i \in DOMAIN entries, Plain(entries[i]),
           reader.line = End(i)
    PROVE  LET e == entries[i] IN
           /\ reader.dn = e.dn /\ reader.attrs # <<>>
           /\ DOMAIN reader.attrs = DOMAIN e.values
           /\ \A j \in DOMAIN e.values : reader.attrs[j] = Read(e.values[j])
<1> DEFINE vs == entries[i].values
           all == [j \in 1..Len(vs) |-> Read(vs[j])]
<1>1. /\ Len(vs) \in Nat \ {0} /\ DOMAIN vs = 1..Len(vs)
      /\ End(i - 1) \in Nat /\ End(i) = End(i - 1) + 2 + Len(vs)
  BY PlainLines DEF LdifInv
<1>2. Len(vs) \in 0..Len(vs)
  BY <1>1
<1>3. reader.dn = entries[i].dn /\ reader.attrs = all
  BY <1>1, <1>2 DEF LdifInv, ReaderFollows
<1>4. DOMAIN all = 1..Len(vs) /\ \A j \in 1..Len(vs) : all[j] = Read(vs[j])
  OBVIOUS
<1>5. all # <<>>
  <2>1. 1 \in DOMAIN all /\ DOMAIN <<>> = {}
    BY <1>1, <1>4
  <2> QED BY <2>1
<1> QED BY <1>1, <1>3, <1>4, <1>5

\* A sound entry that was read with the connection up is there: its parent is.
LEMMA SoundArrives ==
    ASSUME LdifInv, [LdifNext]_ldifVars, NEW i \in DOMAIN entries, Sound(i),
           reader'.online, End(i) < reader'.line
    PROVE  entries[i].dn \in DOMAIN directory'
<1> DEFINE e == entries[i]
<1>1. /\ Written /\ DOMAIN reader = DOMAIN NoReader
      /\ reader.line \in 0..Len(file) + 1
      /\ Len(file) \in Nat /\ Size \in Nat /\ DOMAIN entries = 1..Size /\ ArchiveOK
      /\ DOMAIN had \subseteq DOMAIN directory
      /\ reader.online /\ End(i) < reader.line => e.dn \in DOMAIN directory
  BY WrittenArchive DEF LdifInv, LdifTypeOK, DirectoryFollows
<1>2. PICK G \in SUBSET DOMAIN entries : i \in G /\ HangTogether(G)
  BY DEF Sound
<1>3. Plain(e)
  BY <1>2 DEF HangTogether
<1>4. /\ e.dn \in Dns /\ e.dn # None /\ IsEntry(e)
      /\ Len(e.values) \in Nat \ {0}
      /\ End(i - 1) \in Nat /\ End(i) = End(i - 1) + 2 + Len(e.values)
      /\ End(i) <= Len(file) /\ file[End(i)] = Blank
      /\ \A k \in 1..Len(e.values) : Read(e.values[k]).coded = FALSE
      /\ DOMAIN e.values = 1..Len(e.values)
  <2>1. /\ e.dn \in Dns /\ e.dn # None /\ IsEntry(e)
        /\ Len(e.values) \in Nat \ {0}
        /\ End(i - 1) \in Nat /\ End(i) = End(i - 1) + 2 + Len(e.values)
        /\ End(i) <= Len(file) /\ file[End(i)] = Blank
        /\ DOMAIN e.values = 1..Len(e.values)
    BY <1>1, <1>3, PlainLines
  <2>2. ASSUME NEW k \in 1..Len(e.values) PROVE Read(e.values[k]).coded = FALSE
    <3>1. Read(e.values[k]) = [attr |-> e.values[k].attr,
                               value |-> Head(e.values[k].pieces), coded |-> FALSE]
      BY <1>1, <1>3, PlainLines
    <3> QED BY <3>1
  <2> QED BY <2>1, <2>2
<1>5. DOMAIN directory \subseteq DOMAIN directory'
  BY DirectorySteps DEF LdifInv
<1>6. ASSUME Advances PROVE e.dn \in DOMAIN directory'
  <2>1. reader.online /\ reader'.line = reader.line + 1 /\ reader.status = "reading"
    BY <1>6 DEF Advances
  <2>2. CASE End(i) < reader.line
    BY <1>1, <1>5, <2>1, <2>2
  <2>3. CASE ~ (End(i) < reader.line)
    <3>1. reader.line = End(i)
      BY <1>1, <1>4, <2>1, <2>3
    <3>2. Line.kind = "blank"
      BY <1>4, <3>1 DEF Line, Blank
    <3>3. ReadBlank
      BY <1>1, <1>6, <2>1, <3>2, LineSteps, OtherSteps DEF LdifNext, ldifVars
    <3>4. /\ reader.dn = e.dn /\ reader.attrs # <<>>
          /\ DOMAIN reader.attrs = DOMAIN e.values
          /\ \A j \in DOMAIN e.values : reader.attrs[j] = Read(e.values[j])
      BY <1>3, <2>1, <3>1, WholeEntryRead
    <3>5. CASE e.dn \in DOMAIN directory
      BY <1>5, <3>5
    <3>6. CASE e.dn \notin DOMAIN directory
      <4>1. Parent[e.dn] \in DOMAIN directory \cup {Root}
        <5>1. CASE Parent[e.dn] \in DOMAIN had \cup {Root}
          BY <1>1, <5>1
        <5>2. CASE Parent[e.dn] \notin DOMAIN had \cup {Root}
          <6>1. PICK j \in G : j < i /\ entries[j].dn = Parent[e.dn]
            BY <1>2, <5>2 DEF HangTogether
          <6>2. Sound(j) /\ j \in DOMAIN entries
            BY <1>2, <6>1 DEF Sound
          <6>3. i - 1 \in 0..Size /\ j \in 0..(i - 1)
            BY <1>1, <6>1, <6>2
          <6>4. End(j) <= End(i - 1) /\ End(j) \in Nat
            <7>1. j \in 0..Size
              BY <1>1, <6>2
            <7>2. End(j) \in 0..Len(file)
              BY <1>1, <7>1 DEF ArchiveOK
            <7> QED BY <1>1, <6>3, <7>2 DEF ArchiveOK
          <6>5. End(j) < reader.line
            BY <1>4, <3>1, <6>4
          <6>6. entries[j].dn \in DOMAIN directory
            BY <2>1, <6>2, <6>5 DEF LdifInv, DirectoryFollows
          <6> QED BY <6>1, <6>6
        <5> QED BY <5>1, <5>2
      <4>2. \A a, b \in DOMAIN reader.attrs : reader.attrs[a] = reader.attrs[b] => a = b
        BY <1>3, <1>4, <3>4, PlainDistinct
      <4>3. \A a \in DOMAIN reader.attrs : ~ reader.attrs[a].coded
        BY <1>4, <3>4
      <4>4. Takes
        BY <1>4, <2>1, <3>4, <3>6, <4>1, <4>2, <4>3 DEF Takes, Accepts
      <4>5. directory' = Added(directory, reader.dn, reader.attrs)
        BY <1>1, <3>3, <4>4, LineSteps
      <4> QED BY <3>4, <4>5 DEF Added
    <3> QED BY <3>5, <3>6
  <2> QED BY <2>2, <2>3
<1>7. ASSUME Open PROVE FALSE
  <2>1. reader'.line = 1
    BY <1>1, <1>7, OtherSteps
  <2> QED BY <1>4, <2>1
<1>8. ASSUME LoseConnection \/ Die PROVE FALSE
  <2>1. reader'.online = FALSE
    BY <1>1, <1>8, OtherSteps
  <2> QED BY <2>1
<1>9. ASSUME Close \/ UNCHANGED ldifVars PROVE e.dn \in DOMAIN directory'
  <2>1. /\ reader'.online = reader.online /\ reader'.line = reader.line
        /\ directory' = directory
    BY <1>1, <1>9, OtherSteps DEF ldifVars
  <2> QED BY <1>1, <2>1
<1>10. ReadDn \/ ReadAttr \/ ReadOther \/ ReadBlank \/ LoseReply => Advances
  BY <1>1, LineSteps
<1> QED BY <1>6, <1>7, <1>8, <1>9, <1>10 DEF LdifNext

\* What is added under the name of an unmistaken entry is its content.
LEMMA ContentAdded ==
    ASSUME LdifInv, ReadBlank \/ LoseReply, Takes, NEW i \in DOMAIN entries, Plain(entries[i]),
           Unmistaken(entries[i]), reader.dn = entries[i].dn
    PROVE  {reader.attrs[j] : j \in DOMAIN reader.attrs} = Content(entries[i])
<1> DEFINE e == entries[i]
<1>1. DOMAIN reader = DOMAIN NoReader /\ Written
  BY DEF LdifInv, LdifTypeOK
<1>2. reader.status = "reading" /\ Line.kind = "blank"
  BY <1>1, LineSteps DEF Advances
<1>3. reader.line \in End(i - 1) + 2 .. End(i)
  BY <1>2 DEF LdifInv, ReaderFollows
<1>4. /\ Len(e.values) \in Nat /\ End(i - 1) \in Nat
      /\ End(i) = End(i - 1) + 2 + Len(e.values)
      /\ \A k \in 1..Len(e.values) : file[End(i - 1) + 1 + k]
             = AttrLine(e.values[k].attr, Head(e.values[k].pieces), FALSE)
  BY <1>1, PlainLines
<1>5. reader.line = End(i)
  <2>1. SUFFICES ASSUME reader.line # End(i) PROVE FALSE
    OBVIOUS
  <2> DEFINE k == reader.line - (End(i - 1) + 1)
  <2>2. k \in 1..Len(e.values) /\ reader.line = End(i - 1) + 1 + k
    BY <1>3, <1>4, <2>1
  <2> HIDE DEF k
  <2>3. Line.kind = "attr"
    <3>1. file[End(i - 1) + 1 + k]
            = AttrLine(e.values[k].attr, Head(e.values[k].pieces), FALSE)
      BY <1>4, <2>2
    <3>2. Line = AttrLine(e.values[k].attr, Head(e.values[k].pieces), FALSE)
      BY <2>2, <3>1 DEF Line
    <3> HIDE DEF e
    <3> QED BY <3>2 DEF AttrLine
  <2> QED BY <1>2, <2>3
<1>6. /\ DOMAIN reader.attrs = DOMAIN e.values
      /\ \A j \in DOMAIN e.values : reader.attrs[j] = Read(e.values[j])
  BY <1>2, <1>5, WholeEntryRead
<1> QED BY <1>6 DEF Content

LEMMA DirectoryStep ==
    ASSUME LdifInv, [LdifNext]_ldifVars
    PROVE  DirectoryFollows'
<1>1. UNCHANGED <<entries, file, had>>
  BY ArchiveStays
<1>2. /\ \A i : End(i)' = End(i) /\ Sound(i)' = Sound(i)
      /\ \A i : Unmistaken(entries[i])' = Unmistaken(entries[i])
  BY <1>1, ReadingStays
<1>3. LdifTypeOK /\ DirectoryFollows
  BY DEF LdifInv
<1>4. \A d \in DOMAIN had : d \in DOMAIN directory' /\ directory'[d] = had[d]
  <2> SUFFICES ASSUME NEW d \in DOMAIN had
               PROVE  d \in DOMAIN directory' /\ directory'[d] = had[d]
    OBVIOUS
  <2>1. d \in DOMAIN directory /\ directory[d] = had[d]
    BY <1>3 DEF DirectoryFollows
  <2> QED BY <1>3, <2>1, DirectorySteps
<1>5. ASSUME NEW i \in DOMAIN entries, Plain(entries[i]), Unmistaken(entries[i]),
             entries[i].dn \in DOMAIN directory' \ DOMAIN had
      PROVE  directory'[entries[i].dn] = Content(entries[i])
  <2>1. CASE entries[i].dn \in DOMAIN directory
    <3>1. directory[entries[i].dn] = Content(entries[i])
      BY <1>3, <1>5, <2>1 DEF DirectoryFollows
    <3> QED BY <1>3, <2>1, <3>1, DirectorySteps
  <2>2. CASE entries[i].dn \notin DOMAIN directory
    <3>1. /\ ReadBlank \/ LoseReply
          /\ Takes /\ reader.dn = entries[i].dn
          /\ directory'[reader.dn] = {reader.attrs[j] : j \in DOMAIN reader.attrs}
      BY <1>3, <1>5, <2>2, DirectorySteps
    <3> QED BY <1>5, <3>1, ContentAdded
  <2> QED BY <2>1, <2>2
<1>6. \A i \in DOMAIN entries :
        reader'.online /\ Sound(i) /\ End(i) < reader'.line => entries[i].dn \in DOMAIN directory'
  BY SoundArrives
<1>7. reader'.status = "completed" => reader'.line = Len(file) + 1
  <2>1. DOMAIN reader = DOMAIN NoReader
    BY <1>3 DEF LdifTypeOK
  <2>2. reader.status = "completed" => reader.line = Len(file) + 1
    BY <1>3 DEF DirectoryFollows
  <2>3. CASE Close \/ UNCHANGED ldifVars
    BY <2>1, <2>2, <2>3, OtherSteps DEF ldifVars
  <2>4. CASE ~ (Close \/ UNCHANGED ldifVars)
    <3>1. reader'.status # "completed"
      BY <2>1, <2>4, LineSteps, OtherSteps DEF LdifNext, Advances
    <3> QED BY <3>1
  <2> QED BY <2>3, <2>4
<1> QED BY <1>1, <1>2, <1>4, <1>5, <1>6, <1>7 DEF DirectoryFollows

-----------------------------------------------------------------------------
(* The archive as blocks, and the reference *)

\* How a block grows by a line.
LEMMA BlockNext ==
    ASSUME Len(file) \in Nat, NEW n \in 1..Len(file)
    PROVE  /\ Block(n) \subseteq 1..(n - 1)
           /\ file[n].kind = "blank" => Block(n + 1) = {}
           /\ file[n].kind # "blank" => Block(n + 1) = Block(n) \cup {n}
<1>1. (n + 1) - 1 = n /\ n \in Nat
  OBVIOUS
<1>2. Block(n) \subseteq 1..(n - 1)
  BY DEF Block
<1>3. Block(n + 1) = {i \in 1..n : \A k \in i..n : file[k].kind # "blank"}
  BY <1>1 DEF Block
<1>4. ASSUME file[n].kind = "blank" PROVE Block(n + 1) = {}
  <2>1. \A i \in 1..n : n \in i..n
    BY <1>1
  <2> QED BY <1>3, <1>4, <2>1
<1>5. ASSUME file[n].kind # "blank" PROVE Block(n + 1) = Block(n) \cup {n}
  <2>1. ASSUME NEW i \in Block(n + 1) PROVE i \in Block(n) \cup {n}
    <3>1. i \in 1..n /\ \A k \in i..n : file[k].kind # "blank"
      BY <1>3
    <3>2. \A k \in i..(n - 1) : k \in i..n
      BY <1>1, <3>1
    <3>3. CASE i = n
      BY <3>3
    <3>4. CASE i # n
      <4>1. i \in 1..(n - 1)
        BY <1>1, <3>1, <3>4
      <4> QED BY <3>1, <3>2, <4>1 DEF Block
    <3> QED BY <3>3, <3>4
  <2>2. ASSUME NEW i \in Block(n) PROVE i \in Block(n + 1)
    <3>1. i \in 1..(n - 1) /\ \A k \in i..(n - 1) : file[k].kind # "blank"
      BY DEF Block
    <3>2. \A k \in i..n : k \in i..(n - 1) \/ k = n
      BY <1>1, <3>1
    <3> QED BY <1>1, <1>3, <1>5, <3>1, <3>2
  <2>3. n \in Block(n + 1)
    <3>1. n \in 1..n /\ \A k \in n..n : k = n
      BY <1>1
    <3> QED BY <1>3, <1>5, <3>1
  <2> QED BY <2>1, <2>2, <2>3
<1> QED BY <1>2, <1>4, <1>5

LEMMA NameNext ==
    ASSUME Len(file) \in Nat, NEW n \in 1..Len(file)
    PROVE  /\ file[n].kind = "dn" => NameAt(n + 1) = file[n].dn
           /\ file[n].kind \in {"attr", "word"} => NameAt(n + 1) = NameAt(n)
           /\ file[n].kind = "blank" => NameAt(n + 1) = None
<1>1. ASSUME file[n].kind = "dn" PROVE NameAt(n + 1) = file[n].dn
  <2>1. /\ n \in Names(n + 1) /\ Names(n + 1) \subseteq 1..n
    BY <1>1, BlockNext DEF Names
  <2> DEFINE last == CHOOSE i \in Names(n + 1) : \A j \in Names(n + 1) : j <= i
  <2>2. last \in Names(n + 1) /\ \A j \in Names(n + 1) : j <= last
    <3>1. \A j \in Names(n + 1) : j <= n
      BY <2>1
    <3> QED BY <2>1, <3>1
  <2> HIDE DEF last
  <2>3. last = n
    BY <2>1, <2>2
  <2> QED BY <2>1, <2>3 DEF NameAt, last
<1>2. ASSUME file[n].kind \in {"attr", "word"} PROVE NameAt(n + 1) = NameAt(n)
  <2>1. Names(n + 1) = Names(n)
    BY <1>2, BlockNext DEF Names
  <2> DEFINE last(N) == IF N = {} THEN None
                        ELSE file[CHOOSE i \in N : \A j \in N : j <= i].dn
  <2>2. NameAt(n) = last(Names(n)) /\ NameAt(n + 1) = last(Names(n + 1))
    BY DEF NameAt
  <2> HIDE DEF last
  <2> QED BY <2>1, <2>2
<1>3. ASSUME file[n].kind = "blank" PROVE NameAt(n + 1) = None
  BY <1>3, BlockNext DEF Names, NameAt
<1> QED BY <1>1, <1>2, <1>3

LEMMA AttrsNext ==
    ASSUME Len(file) \in Nat, NEW n \in 1..Len(file)
    PROVE  /\ file[n].kind = "attr" =>
                /\ n \notin DOMAIN AttrsAt(n)
                /\ DOMAIN AttrsAt(n + 1) = DOMAIN AttrsAt(n) \cup {n}
                /\ \A i \in DOMAIN AttrsAt(n) : AttrsAt(n + 1)[i] = AttrsAt(n)[i]
                /\ AttrsAt(n + 1)[n] = [attr |-> file[n].attr, value |-> file[n].value,
                                        coded |-> file[n].coded]
           /\ file[n].kind \in {"dn", "word"} => AttrsAt(n + 1) = AttrsAt(n)
           /\ file[n].kind = "blank" => DOMAIN AttrsAt(n + 1) = {}
<1> DEFINE A(m) == {j \in Block(m) : file[j].kind = "attr"}
<1>1. \A m : DOMAIN AttrsAt(m) = A(m)
  BY DEF AttrsAt
<1>2. ASSUME file[n].kind = "attr"
      PROVE  /\ n \notin DOMAIN AttrsAt(n)
             /\ DOMAIN AttrsAt(n + 1) = DOMAIN AttrsAt(n) \cup {n}
             /\ \A i \in DOMAIN AttrsAt(n) : AttrsAt(n + 1)[i] = AttrsAt(n)[i]
             /\ AttrsAt(n + 1)[n] = [attr |-> file[n].attr, value |-> file[n].value,
                                     coded |-> file[n].coded]
  <2>1. A(n + 1) = A(n) \cup {n} /\ n \notin A(n)
    BY <1>2, BlockNext
  <2> QED BY <1>1, <2>1 DEF AttrsAt
<1>3. ASSUME file[n].kind \in {"dn", "word"} PROVE AttrsAt(n + 1) = AttrsAt(n)
  <2>1. A(n + 1) = A(n)
    BY <1>3, BlockNext
  <2> QED BY <2>1 DEF AttrsAt
<1>4. ASSUME file[n].kind = "blank" PROVE DOMAIN AttrsAt(n + 1) = {}
  <2>1. Block(n + 1) = {}
    BY <1>4, BlockNext
  <2>2. A(n + 1) = {}
    BY <2>1
  <2> QED BY <1>1, <2>2
<1> QED BY <1>2, <1>3, <1>4

\* One line of the reference.
Turn(dir, n) ==
    IF /\ file[n].kind = "blank"
       /\ NameAt(n) # None /\ DOMAIN AttrsAt(n) # {}
       /\ Accepts(dir, NameAt(n), AttrsAt(n))
    THEN Added(dir, NameAt(n), AttrsAt(n))
    ELSE dir

Turns(f, n) == f = [m \in 0..n |-> IF m = 0 THEN had ELSE Turn(f[m - 1], m)]

LEMMA TurnsExist ==
    ASSUME NEW n \in Nat
    PROVE  \E f : Turns(f, n)
<1> DEFINE T == {m \in 0..n : \E f : Turns(f, m)}
<1>1. 0 \in T
  <2> DEFINE f == [m \in 0..0 |-> had]
             g == [m \in 0..0 |-> IF m = 0 THEN had ELSE Turn(f[m - 1], m)]
  <2>1. \A m \in 0..0 : m = 0
    OBVIOUS
  <2>2. \A m \in 0..0 : f[m] = g[m]
    BY <2>1
  <2>3. f = [m \in 0..0 |-> f[m]] /\ g = [m \in 0..0 |-> g[m]]
    OBVIOUS
  <2>4. f = g
    <3> HIDE DEF f, g
    <3> QED BY <2>2, <2>3
  <2>5. Turns(f, 0)
    <3> HIDE DEF f
    <3> QED BY <2>4 DEF Turns
  <2> HIDE DEF f
  <2> QED BY <2>5
<1>2. ASSUME NEW m \in 0..n, m \in T, m < n PROVE m + 1 \in T
  <2>1. PICK f : Turns(f, m)
    BY <1>2
  <2> DEFINE g == [i \in 0..(m + 1) |-> IF i = m + 1 THEN Turn(f[m], m + 1) ELSE f[i]]
             h == [i \in 0..(m + 1) |-> IF i = 0 THEN had ELSE Turn(g[i - 1], i)]
  <2>2. ASSUME NEW i \in 0..(m + 1) PROVE g[i] = h[i]
    <3>1. CASE i = m + 1
      <4>1. i # 0 /\ i - 1 = m /\ m \in 0..(m + 1) /\ m # m + 1
        BY <3>1
      <4>2. g[i] = Turn(f[m], i) /\ g[i - 1] = f[m]
        BY <3>1, <4>1
      <4>3. h[i] = Turn(g[i - 1], i)
        BY <4>1
      <4> QED BY <4>2, <4>3
    <3>2. CASE i # m + 1
      <4>1. i \in 0..m /\ g[i] = f[i] /\ (i # 0 => g[i - 1] = f[i - 1])
        BY <3>2
      <4>2. f[i] = IF i = 0 THEN had ELSE Turn(f[i - 1], i)
        BY <2>1, <4>1 DEF Turns
      <4>3. h[i] = IF i = 0 THEN had ELSE Turn(g[i - 1], i)
        OBVIOUS
      <4> QED BY <4>1, <4>2, <4>3
    <3> QED BY <3>1, <3>2
  <2>3. g = [i \in 0..(m + 1) |-> g[i]] /\ h = [i \in 0..(m + 1) |-> h[i]]
    OBVIOUS
  <2>4. g = h
    <3> HIDE DEF g, h
    <3> QED BY <2>2, <2>3
  <2>5. Turns(g, m + 1)
    <3> HIDE DEF g
    <3> QED BY <2>4 DEF Turns
  <2> HIDE DEF g
  <2> QED BY <1>2, <2>5
<1>3. n \in T
  <2> HIDE DEF T
  <2> QED BY <1>1, <1>2, UpTo
<1> QED BY <1>3

\* What the reference does at a line.
LEMMA ReferenceNext ==
    ASSUME Len(file) \in Nat
    PROVE  /\ Reference[0] = had
           /\ \A n \in 1..Len(file) : Reference[n] = Turn(Reference[n - 1], n)
<1>1. \E f : Turns(f, Len(file))
  BY TurnsExist
<1>2. Turns(Reference, Len(file))
  <2> DEFINE c == CHOOSE f : f = [n \in 0..Len(file) |->
                      IF n = 0 THEN had ELSE Turn(f[n - 1], n)]
  <2>1. c = [n \in 0..Len(file) |-> IF n = 0 THEN had ELSE Turn(c[n - 1], n)]
    BY <1>1 DEF Turns
  <2>2. Reference = c
    BY DEF Reference, Turn
  <2> HIDE DEF c
  <2> QED BY <2>1, <2>2 DEF Turns
<1>3. 0 \in 0..Len(file) /\ \A n \in 1..Len(file) : n \in 0..Len(file) /\ n # 0
  OBVIOUS
<1> QED BY <1>2, <1>3 DEF Turns

LEMMA ReferenceStays ==
    ASSUME UNCHANGED <<file, had>>, Len(file) \in Nat
    PROVE  /\ Reference' = Reference
           /\ \A n : NameAt(n)' = NameAt(n) /\ AttrsAt(n)' = AttrsAt(n)
<1>1. \A n : Block(n)' = Block(n)
  BY DEF Block
<1>2. \A n : Names(n)' = Names(n)
  BY <1>1 DEF Names
<1>3. \A n : NameAt(n)' = NameAt(n)
  <2> DEFINE last(f, N) == IF N = {} THEN None
                           ELSE f[CHOOSE i \in N : \A j \in N : j <= i].dn
  <2>1. \A n : NameAt(n) = last(file, Names(n)) /\ NameAt(n)' = last(file', Names(n)')
    BY DEF NameAt
  <2> HIDE DEF last
  <2> QED BY <1>2, <2>1
<1>4. \A n : AttrsAt(n)' = AttrsAt(n)
  BY <1>1 DEF AttrsAt
<1>5. Reference' = Reference
  BY <1>3, <1>4 DEF Reference
<1> QED BY <1>3, <1>4, <1>5

\* For the server the attributes of a block are those that were read of it.
LEMMA SameAttrs ==
    ASSUME NEW a, a \in Seq(ToSet(a)), NEW b, NEW p \in Bijection(DOMAIN a, DOMAIN b),
           \A j \in DOMAIN a : a[j] = b[p[j]]
    PROVE  /\ a = <<>> <=> DOMAIN b = {}
           /\ \A dir, dn : Accepts(dir, dn, a) <=> Accepts(dir, dn, b)
           /\ \A dir, dn : Added(dir, dn, a) = Added(dir, dn, b)
<1>1. /\ p \in [DOMAIN a -> DOMAIN b]
      /\ \A i, j \in DOMAIN a : p[i] = p[j] => i = j
      /\ \A t \in DOMAIN b : \E j \in DOMAIN a : p[j] = t
  BY DEF Bijection, Injection, Surjection, IsInjective
<1>2. a = <<>> <=> DOMAIN a = {}
  <2>1. DOMAIN a = 1..Len(a) /\ Len(a) \in Nat
    BY LenProperties
  <2>2. a # <<>> => Len(a) # 0
    BY EmptySeq
  <2> QED BY <2>1, <2>2
<1>3. a = <<>> <=> DOMAIN b = {}
  BY <1>1, <1>2
<1>4. (\A i, j \in DOMAIN a : a[i] = a[j] => i = j) <=> (\A i, j \in DOMAIN b : b[i] = b[j] => i = j)
  BY <1>1
<1>5. (\A i \in DOMAIN a : ~ a[i].coded) <=> (\A i \in DOMAIN b : ~ b[i].coded)
  BY <1>1
<1>6. {a[i] : i \in DOMAIN a} = {b[i] : i \in DOMAIN b}
  BY <1>1
<1> QED BY <1>3, <1>4, <1>5, <1>6 DEF Accepts, Added

\* The block is held across each line.
LEMMA BlockHeld ==
    ASSUME LdifInv, [LdifNext]_ldifVars, reader'.status = "reading"
    PROVE  /\ reader'.dn = NameAt(reader'.line)
           /\ reader'.attrs \in Seq(ToSet(reader'.attrs))
           /\ \E p \in Bijection(DOMAIN reader'.attrs, DOMAIN AttrsAt(reader'.line)) :
                \A j \in DOMAIN reader'.attrs : reader'.attrs[j] = AttrsAt(reader'.line)[p[j]]
<1> DEFINE Held(r) ==
      /\ r.dn = NameAt(r.line)
      /\ r.attrs \in Seq(ToSet(r.attrs))
      /\ \E p \in Bijection(DOMAIN r.attrs, DOMAIN AttrsAt(r.line)) :
           \A j \in DOMAIN r.attrs : r.attrs[j] = AttrsAt(r.line)[p[j]]
<1>1. /\ DOMAIN reader = DOMAIN NoReader /\ Len(file) \in Nat
      /\ reader.line \in 0..Len(file) + 1
      /\ reader.status = "reading" => reader.line >= 1 /\ Held(reader)
  BY WrittenArchive DEF LdifInv, LdifTypeOK, ReaderFollows, BlockFollows
<1> DEFINE n == reader.line
<1>2. ASSUME Advances
      PROVE  n \in 1..Len(file) /\ reader'.line = n + 1 /\ Held(reader) /\ Line = file[n]
  BY <1>1, <1>2 DEF Advances, Line
<1>3. ASSUME NEW r, r.dn = NameAt(r.line), r.attrs = <<>>, DOMAIN AttrsAt(r.line) = {}
      PROVE  Held(r)
  <2>1. <<>> \in Seq(ToSet(<<>>)) /\ DOMAIN <<>> = {}
    BY EmptySeq
  <2>2. <<>> \in [{} -> {}]
    BY <2>1
  <2>3. <<>> \in Bijection({}, {})
    BY <2>1, <2>2 DEF Bijection, Injection, Surjection, IsInjective
  <2>4. r.attrs \in Seq(ToSet(r.attrs)) /\ DOMAIN r.attrs = {}
    BY <1>3, <2>1
  <2> QED BY <1>3, <2>3, <2>4
<1>4. ASSUME ReadDn PROVE Held(reader')
  <2>1. /\ Advances /\ Line.kind = "dn" /\ reader'.dn = Line.dn /\ reader'.attrs = reader.attrs
    BY <1>1, <1>4, LineSteps
  <2>2. n \in 1..Len(file) /\ reader'.line = n + 1 /\ Held(reader) /\ Line = file[n]
    BY <1>2, <2>1
  <2>3. NameAt(n + 1) = Line.dn /\ AttrsAt(n + 1) = AttrsAt(n)
    BY <1>1, <2>1, <2>2, NameNext, AttrsNext
  <2> QED BY <2>1, <2>2, <2>3
<1>5. ASSUME ReadOther PROVE Held(reader')
  <2>1. /\ Advances /\ Line.kind = "word" /\ reader'.dn = reader.dn /\ reader'.attrs = reader.attrs
    BY <1>1, <1>5, LineSteps
  <2>2. n \in 1..Len(file) /\ reader'.line = n + 1 /\ Held(reader) /\ Line = file[n]
    BY <1>2, <2>1
  <2>3. NameAt(n + 1) = NameAt(n) /\ AttrsAt(n + 1) = AttrsAt(n)
    BY <1>1, <2>1, <2>2, NameNext, AttrsNext
  <2> QED BY <2>1, <2>2, <2>3
<1>6. ASSUME ReadBlank \/ LoseReply PROVE Held(reader')
  <2>1. /\ Advances /\ Line.kind = "blank" /\ reader'.dn = None /\ reader'.attrs = <<>>
    BY <1>1, <1>6, LineSteps
  <2>2. n \in 1..Len(file) /\ reader'.line = n + 1 /\ Line = file[n]
    BY <1>2, <2>1
  <2>3. NameAt(n + 1) = None /\ DOMAIN AttrsAt(n + 1) = {}
    BY <1>1, <2>1, <2>2, NameNext, AttrsNext
  <2> HIDE DEF Held
  <2> QED BY <1>3, <2>1, <2>2, <2>3
<1>7. ASSUME ReadAttr PROVE Held(reader')
  <2> DEFINE x == [attr |-> Line.attr, value |-> Line.value, coded |-> Line.coded]
             a == reader.attrs
             b == AttrsAt(n)
  <2>1. /\ Advances /\ Line.kind = "attr" /\ reader'.dn = reader.dn
        /\ reader'.attrs = Append(a, x)
    BY <1>1, <1>7, LineSteps
  <2>2. n \in 1..Len(file) /\ reader'.line = n + 1 /\ Held(reader) /\ Line = file[n]
    BY <1>2, <2>1
  <2>3. /\ NameAt(n + 1) = NameAt(n)
        /\ n \notin DOMAIN b /\ DOMAIN AttrsAt(n + 1) = DOMAIN b \cup {n}
        /\ \A i \in DOMAIN b : AttrsAt(n + 1)[i] = b[i]
        /\ AttrsAt(n + 1)[n] = x
    BY <1>1, <2>1, <2>2, NameNext, AttrsNext
  <2>4. PICK p \in Bijection(DOMAIN a, DOMAIN b) : \A j \in DOMAIN a : a[j] = b[p[j]]
    BY <2>2
  <2>5. /\ p \in [DOMAIN a -> DOMAIN b]
        /\ \A i, j \in DOMAIN a : p[i] = p[j] => i = j
        /\ \A t \in DOMAIN b : \E j \in DOMAIN a : p[j] = t
    BY <2>4 DEF Bijection, Injection, Surjection, IsInjective
  <2> DEFINE S == ToSet(a) \cup {x}
             k == Len(a)
             c == Append(a, x)
             q == [j \in 1..(k + 1) |-> IF j = k + 1 THEN n ELSE p[j]]
  <2>6. a \in Seq(S) /\ x \in S /\ k \in Nat /\ DOMAIN a = 1..k
    <3>1. a \in Seq(ToSet(a))
      BY <2>2
    <3> QED BY <3>1, SeqMonotonic, LenProperties
  <2>7. /\ c \in Seq(S) /\ DOMAIN c = 1..(k + 1)
        /\ \A j \in 1..k : c[j] = a[j]
        /\ c[k + 1] = x
    <3> HIDE DEF a, x, S
    <3> QED BY <2>6, AppendProperties, LenProperties
  <2>8. c \in Seq(ToSet(c))
    <3> HIDE DEF c, S, k
    <3>1. c \in [1..(k + 1) -> ToSet(c)]
      <4>1. c \in [1..Len(c) -> S] /\ DOMAIN c = 1..Len(c)
        BY <2>7, LenProperties
      <4>2. \A j \in DOMAIN c : c[j] \in ToSet(c)
        BY DEF ToSet
      <4> QED BY <2>7, <4>1, <4>2
    <3>2. k + 1 \in Nat
      BY <2>6
    <3> QED BY <3>1, <3>2, FunctionIsSeq
  <2>9. q \in Bijection(DOMAIN c, DOMAIN AttrsAt(n + 1))
    <3> DEFINE B == DOMAIN AttrsAt(n + 1)
    <3>1. /\ \A j \in 1..k : j \in 1..(k + 1) /\ q[j] = p[j] /\ p[j] \in DOMAIN b
          /\ k + 1 \in 1..(k + 1) /\ q[k + 1] = n
          /\ \A j \in 1..(k + 1) : j \in 1..k \/ j = k + 1
          /\ DOMAIN q = 1..(k + 1)
      BY <2>5, <2>6
    <3> HIDE DEF q, c, a, b, k
    <3>2. \A j \in 1..(k + 1) : q[j] \in B
      BY <2>3, <3>1
    <3>3. \A i, j \in 1..(k + 1) : q[i] = q[j] => i = j
      BY <2>3, <2>5, <2>6, <3>1
    <3>4. \A t \in B : \E j \in 1..(k + 1) : q[j] = t
      <4> SUFFICES ASSUME NEW t \in B PROVE \E j \in 1..(k + 1) : q[j] = t
        OBVIOUS
      <4>1. CASE t = n
        BY <3>1, <4>1
      <4>2. CASE t \in DOMAIN b
        <5>1. PICK j \in 1..k : p[j] = t
          BY <2>5, <2>6, <4>2
        <5> QED BY <3>1, <5>1
      <4> QED BY <2>3, <4>1, <4>2
    <3>5. q = [j \in 1..(k + 1) |-> q[j]]
      BY DEF q
    <3>6. q \in [1..(k + 1) -> B]
      BY <3>2, <3>5
    <3> HIDE DEF B
    <3> QED BY <2>7, <3>1, <3>3, <3>4, <3>6 DEF Bijection, Injection, Surjection, IsInjective, B
  <2>10. \A j \in DOMAIN c : c[j] = AttrsAt(n + 1)[q[j]]
    <3>1. \A j \in 1..k : q[j] = p[j] /\ p[j] \in DOMAIN b /\ a[j] = b[p[j]]
      BY <2>4, <2>5, <2>6
    <3>2. q[k + 1] = n /\ \A j \in 1..(k + 1) : j \in 1..k \/ j = k + 1
      BY <2>6
    <3> HIDE DEF q, c, a, b, k, x
    <3> QED BY <2>3, <2>7, <3>1, <3>2
  <2>11. /\ reader'.attrs = c /\ reader'.line = n + 1 /\ reader'.dn = NameAt(n + 1)
    BY <2>1, <2>2, <2>3
  <2> HIDE DEF q, c
  <2> QED BY <2>8, <2>9, <2>10, <2>11
<1>8. ASSUME Open PROVE Held(reader')
  <2>1. reader'.line = 1 /\ reader'.dn = None /\ reader'.attrs = <<>>
    BY <1>1, <1>8, OtherSteps
  <2>2. Block(1) = {}
    BY DEF Block
  <2>3. NameAt(1) = None /\ DOMAIN AttrsAt(1) = {}
    BY <2>2 DEF NameAt, Names, AttrsAt
  <2> HIDE DEF Held
  <2> QED BY <1>3, <2>1, <2>3
<1>9. ASSUME LoseConnection \/ UNCHANGED ldifVars PROVE Held(reader')
  <2>1. /\ reader'.line = reader.line /\ reader'.dn = reader.dn /\ reader'.attrs = reader.attrs
        /\ reader'.status = reader.status
    BY <1>1, <1>9, OtherSteps DEF ldifVars
  <2> QED BY <1>1, <2>1
<1>10. ~ Close /\ ~ Die
  BY <1>1, OtherSteps
<1>11. Held(reader')
  <2> HIDE DEF Held
  <2> QED BY <1>4, <1>5, <1>6, <1>7, <1>8, <1>9, <1>10 DEF LdifNext
<1> QED BY <1>11

\* With the connection up the directory keeps up with the reference.
LEMMA ReferenceFollowed ==
    ASSUME LdifInv, [LdifNext]_ldifVars, reader'.online
    PROVE  /\ reader'.line \in 1..Len(file) + 1
           /\ DOMAIN Reference[reader'.line - 1] \subseteq DOMAIN directory'
           /\ runs' = 1 => directory' = Reference[reader'.line - 1]
<1> DEFINE n == reader.line
<1>1. /\ DOMAIN reader = DOMAIN NoReader /\ Len(file) \in Nat /\ runs \in Nat
      /\ reader.line \in 0..Len(file) + 1
      /\ reader.status = "reading" => reader.line >= 1
      /\ DOMAIN had \subseteq DOMAIN directory
      /\ runs = 0 => directory = had
  BY WrittenArchive DEF LdifInv, LdifTypeOK, ReaderFollows, BlockFollows
<1>2. reader.online =>
        /\ n \in 1..Len(file) + 1
        /\ DOMAIN Reference[n - 1] \subseteq DOMAIN directory
        /\ runs = 1 => directory = Reference[n - 1]
  BY DEF LdifInv, BlockFollows
<1> DEFINE Goal == /\ reader'.line \in 1..Len(file) + 1
                   /\ DOMAIN Reference[reader'.line - 1] \subseteq DOMAIN directory'
                   /\ runs' = 1 => directory' = Reference[reader'.line - 1]
<1>3. ASSUME Advances
      PROVE  /\ n \in 1..Len(file) /\ reader'.line = n + 1 /\ (n + 1) - 1 = n
             /\ Line = file[n] /\ runs' = runs /\ reader.online
             /\ Reference[n] = Turn(Reference[n - 1], n)
  <2>3. reader.online
    BY <1>3 DEF Advances
  <2>1. /\ n \in 1..Len(file) /\ reader'.line = n + 1 /\ (n + 1) - 1 = n
        /\ Line = file[n] /\ runs' = runs /\ reader.online
    BY <1>1, <1>3, <2>3 DEF Advances, Line
  <2>2. Reference[n] = Turn(Reference[n - 1], n)
    BY <1>1, <2>1, ReferenceNext
  <2> QED BY <2>1, <2>2
<1>4. ASSUME ReadDn \/ ReadAttr \/ ReadOther PROVE Goal
  <2>1. Advances /\ Line.kind # "blank" /\ directory' = directory
    BY <1>1, <1>4, LineSteps
  <2>2. Reference[n] = Reference[n - 1]
    BY <1>3, <2>1 DEF Turn
  <2> QED BY <1>1, <1>2, <1>3, <2>1, <2>2
<1>5. ASSUME ReadBlank PROVE Goal
  <2>1. /\ Advances /\ Line.kind = "blank"
        /\ Takes => directory' = Added(directory, reader.dn, reader.attrs)
        /\ ~ Takes => directory' = directory
    BY <1>1, <1>5, LineSteps
  <2> DEFINE R == Reference[n - 1]
             b == AttrsAt(n)
             a == reader.attrs
  <2>2. /\ n \in 1..Len(file) /\ reader'.line = n + 1 /\ (n + 1) - 1 = n
        /\ file[n].kind = "blank" /\ runs' = runs /\ reader.online
        /\ Reference[n] = Turn(R, n)
        /\ DOMAIN R \subseteq DOMAIN directory
        /\ runs = 1 => directory = R
    BY <1>2, <1>3, <2>1
  <2>3. /\ reader.dn = NameAt(n) /\ a \in Seq(ToSet(a))
        /\ \E p \in Bijection(DOMAIN a, DOMAIN b) : \A j \in DOMAIN a : a[j] = b[p[j]]
    BY <2>1 DEF LdifInv, BlockFollows, Advances
  <2>4. /\ a = <<>> <=> DOMAIN b = {}
        /\ \A dir, dn : Accepts(dir, dn, a) <=> Accepts(dir, dn, b)
        /\ \A dir, dn : Added(dir, dn, a) = Added(dir, dn, b)
    <3> HIDE DEF a, b
    <3> QED BY <2>3, SameAttrs
  <2> DEFINE Takable == reader.dn # None /\ a # <<>> /\ Accepts(R, reader.dn, a)
  <2>5. Reference[n] = IF Takable THEN Added(R, reader.dn, a) ELSE R
    <3>1. Reference[n] = IF NameAt(n) # None /\ DOMAIN b # {} /\ Accepts(R, NameAt(n), b)
                         THEN Added(R, NameAt(n), b) ELSE R
      BY <2>2 DEF Turn
    <3> HIDE DEF R, a, b
    <3> QED BY <2>3, <2>4, <3>1
  <2>6. Takes <=> reader.dn # None /\ a # <<>> /\ Accepts(directory, reader.dn, a)
    BY <2>2 DEF Takes
  <2>7. DOMAIN Reference[n] \subseteq DOMAIN directory'
    <3>1. DOMAIN directory \subseteq DOMAIN directory'
      BY <2>1 DEF Added
    <3>2. ASSUME Takable PROVE reader.dn \in DOMAIN directory'
      <4>1. CASE reader.dn \in DOMAIN directory
        BY <3>1, <4>1
      <4>2. CASE reader.dn \notin DOMAIN directory
        <5>1. Accepts(directory, reader.dn, a)
          BY <2>2, <3>2, <4>2 DEF Accepts
        <5>2. Takes
          BY <2>6, <3>2, <5>1
        <5> QED BY <2>1, <5>2 DEF Added
      <4> QED BY <4>1, <4>2
    <3>3. Takable => DOMAIN Reference[n] = DOMAIN R \cup {reader.dn}
      BY <2>5 DEF Added
    <3> HIDE DEF Takable
    <3> QED BY <2>2, <2>5, <3>1, <3>2, <3>3
  <2>8. runs' = 1 => directory' = Reference[n]
    <3> SUFFICES ASSUME runs' = 1 PROVE directory' = Reference[n]
      OBVIOUS
    <3>1. directory = R
      BY <2>2
    <3>2. Takes <=> Takable
      BY <2>6, <3>1
    <3> HIDE DEF Takable, R
    <3> QED BY <2>1, <2>5, <3>1, <3>2
  <2> QED BY <2>2, <2>7, <2>8
<1>6. ASSUME Open PROVE Goal
  <2>1. /\ reader'.line = 1 /\ directory' = directory /\ runs' = runs + 1
    BY <1>1, <1>6, OtherSteps
  <2>2. Reference[0] = had
    BY <1>1, ReferenceNext
  <2>3. runs' = 1 => runs = 0
    BY <1>1, <2>1
  <2> QED BY <1>1, <2>1, <2>2, <2>3
<1>7. ASSUME LoseReply \/ LoseConnection \/ Die PROVE FALSE
  <2>1. reader'.online = FALSE
    BY <1>1, <1>7, LineSteps, OtherSteps
  <2> QED BY <2>1
<1>8. ASSUME Close \/ UNCHANGED ldifVars PROVE Goal
  <2>1. /\ reader'.line = reader.line /\ reader'.online = reader.online
        /\ directory' = directory /\ runs' = runs
    BY <1>1, <1>8, OtherSteps DEF ldifVars
  <2> QED BY <1>2, <2>1
<1>9. Goal
  <2> HIDE DEF Goal
  <2> QED BY <1>4, <1>5, <1>6, <1>7, <1>8 DEF LdifNext
<1> QED BY <1>9

LEMMA BlockStep ==
    ASSUME LdifInv, [LdifNext]_ldifVars
    PROVE  BlockFollows'
<1>1. UNCHANGED <<file, had>> /\ Len(file) \in Nat
  BY ArchiveStays, WrittenArchive DEF LdifInv
<1>2. Reference' = Reference /\ \A n : NameAt(n)' = NameAt(n) /\ AttrsAt(n)' = AttrsAt(n)
  BY <1>1, ReferenceStays
<1>3. ASSUME runs' = 0 PROVE directory' = had /\ reader'.status = "idle"
  <2>1. /\ DOMAIN reader = DOMAIN NoReader /\ runs \in Nat
        /\ runs = 0 => directory = had /\ reader.status = "idle"
    BY LdifAssumption DEF LdifInv, LdifTypeOK, BlockFollows
  <2>2. ~ Open
    <3>1. Open => runs' = runs + 1
      BY <2>1, OtherSteps
    <3> QED BY <1>3, <2>1, <3>1
  <2>3. runs = 0
    BY <1>3, <2>1, <2>2, LineSteps, OtherSteps DEF LdifNext, ldifVars, Advances
  <2>4. reader.status # "reading"
    BY <2>1, <2>3
  <2>5. Die \/ UNCHANGED ldifVars
    BY <2>1, <2>2, <2>4, LineSteps, OtherSteps DEF LdifNext, Advances
  <2> QED BY <2>1, <2>3, <2>5, OtherSteps DEF ldifVars
<1>4. reader'.status = "reading" =>
        /\ reader'.dn = NameAt(reader'.line)
        /\ reader'.attrs \in Seq(ToSet(reader'.attrs))
        /\ \E p \in Bijection(DOMAIN reader'.attrs, DOMAIN AttrsAt(reader'.line)) :
             \A j \in DOMAIN reader'.attrs : reader'.attrs[j] = AttrsAt(reader'.line)[p[j]]
  BY BlockHeld
<1>5. reader'.online =>
        /\ reader'.line \in 1..Len(file) + 1
        /\ DOMAIN Reference[reader'.line - 1] \subseteq DOMAIN directory'
        /\ runs' = 1 => directory' = Reference[reader'.line - 1]
  BY ReferenceFollowed
<1> QED BY <1>1, <1>2, <1>3, <1>4, <1>5 DEF BlockFollows

-----------------------------------------------------------------------------
(* What follows *)

\* What the proofs carry from line to line holds in every state: the reader
\* follows the file, and the directory what was read of it.
THEOREM LdifInvariance == LdifSpec => []LdifInv
<1>1. LdifInit => LdifInv
  BY InitLdif
<1>2. LdifInv /\ [LdifNext]_ldifVars => LdifInv'
  <2> SUFFICES ASSUME LdifInv, [LdifNext]_ldifVars PROVE LdifInv'
    OBVIOUS
  <2>1. Written'
    BY ArchiveStays, ReadingStays DEF LdifInv
  <2> QED BY <2>1, TypeStep, ReaderStep, DirectoryStep, CountStep, BlockStep DEF LdifInv
<1> QED BY <1>1, <1>2, PTL DEF LdifSpec

\* A directory loses no entry it had, the reader stays within the file, and
\* names only entries that exist.
THEOREM LdifTypes == LdifSpec => []LdifTypeOK
<1>1. LdifInv => LdifTypeOK
  BY DEF LdifInv
<1> QED BY <1>1, LdifInvariance, PTL

\* entries_restored of every restore is the number of entries it added.
THEOREM CountsAdded == LdifSpec => []CountIsAdded
<1>1. LdifInv => CountIsAdded
  BY DEF LdifInv, CountFollows
<1> QED BY <1>1, LdifInvariance, PTL

\* The round trip: what backup_to_ldif wrote of a plain entry whose ancestors
\* are plain or there comes back from restore_from_ldif exactly, for archives
\* of any length with any entries beside it.
THEOREM PlainEntriesComeBack == LdifSpec => []PlainComesBack
<1>1. ASSUME LdifInv PROVE PlainComesBack
  <2> SUFFICES ASSUME Undisturbed, NEW i \in DOMAIN entries, Sound(i), Unmistaken(entries[i])
               PROVE  LET e == entries[i] IN
                      /\ e.dn \in DOMAIN directory
                      /\ directory[e.dn] = IF e.dn \in DOMAIN had THEN had[e.dn] ELSE Content(e)
    BY DEF PlainComesBack
  <2>1. Written /\ DirectoryFollows
    BY <1>1 DEF LdifInv
  <2>2. Plain(entries[i])
    BY DEF Sound, HangTogether
  <2>3. End(i) < reader.line
    <3>1. reader.line = Len(file) + 1
      BY <2>1 DEF Undisturbed, DirectoryFollows
    <3>2. End(i) <= Len(file) /\ Len(file) \in Nat /\ End(i) \in Nat
      <4>1. /\ Len(entries[i].values) \in Nat /\ End(i - 1) \in Nat
            /\ End(i) = End(i - 1) + 2 + Len(entries[i].values) /\ End(i) <= Len(file)
        BY <2>1, <2>2, PlainLines
      <4> QED BY <2>1, <4>1, WrittenArchive
    <3> QED BY <3>1, <3>2
  <2>4. entries[i].dn \in DOMAIN directory
    BY <2>1, <2>3 DEF Undisturbed, DirectoryFollows
  <2>5. CASE entries[i].dn \in DOMAIN had
    BY <2>1, <2>4, <2>5 DEF DirectoryFollows
  <2>6. CASE entries[i].dn \notin DOMAIN had
    BY <2>1, <2>2, <2>4, <2>6 DEF DirectoryFollows
  <2> QED BY <2>4, <2>5, <2>6
<1> QED BY <1>1, LdifInvariance, PTL

\* A restore that was not disturbed reaches every entry that the archive, read
\* block by block, adds to what the directory first held; the first restore
\* reaches exactly that.
THEOREM RepeatsReach == LdifSpec => []RepeatReaches
<1>1. ASSUME LdifInv PROVE RepeatReaches
  <2> SUFFICES ASSUME Undisturbed
               PROVE  /\ DOMAIN Reference[Len(file)] \subseteq DOMAIN directory
                      /\ runs = 1 => directory = Reference[Len(file)]
    BY DEF RepeatReaches
  <2>1. reader.line = Len(file) + 1 /\ Len(file) \in Nat
    BY <1>1, WrittenArchive DEF LdifInv, DirectoryFollows, Undisturbed
  <2>2. reader.line - 1 = Len(file)
    BY <2>1
  <2> QED BY <1>1, <2>2 DEF LdifInv, BlockFollows, Undisturbed
<1> QED BY <1>1, LdifInvariance, PTL
=============================================================================
