--------------------------- MODULE RequestProofs ---------------------------
(***************************************************************************)
(* What the adapters make of a conversation, whatever its items: how the   *)
(* requests of ChatRequest, AnthropicRequest and GeminiRequest come about  *)
(* item by item, the signatures that are in them, and where in them an     *)
(* answer stands to its call.                                              *)
(***************************************************************************)
EXTENDS Adapters, SequenceTheorems, WellFoundedInduction, TLAPS

(* Induction on the naturals, for a set. *)
LEMMA NaturalSteps ==
  ASSUME NEW S, 0 \in S, \A n \in Nat : n \in S => n + 1 \in S
  PROVE  \A n \in Nat : n \in S
<1> DEFINE R == OpToRel(<, Nat)
           T == Nat \ S
<1>1. IsWellFoundedOn(R, Nat) /\ \A x, y \in Nat : <<y, x>> \in R <=> y < x
  BY NatLessThanWellFounded DEF OpToRel
<1> HIDE DEF R
<1> SUFFICES ASSUME T # {} PROVE FALSE
  OBVIOUS
<1>2. PICK x \in T : \A y \in T : ~(<<y, x>> \in R)
  <2>1. T \subseteq Nat /\ T # {}
    OBVIOUS
  <2> HIDE DEF T
  <2> QED BY <1>1, <2>1, WFMin
<1>3. x # 0 /\ x - 1 \in Nat /\ x - 1 < x
  OBVIOUS
<1>4. x - 1 \in S
  BY <1>1, <1>2, <1>3
<1> QED BY <1>2, <1>3, <1>4

-----------------------------------------------------------------------------
(* The lists that FlattenSeq goes through: they exist, and are unique. *)
Flat(ss, n, f) == f = [i \in 1..n |-> IF i = 1 THEN ss[i] ELSE f[i - 1] \o ss[i]]

LEMMA FlatExists ==
  ASSUME NEW ss
  PROVE  \A n \in Nat : \E f : Flat(ss, n, f)
<1> DEFINE Good == {n \in Nat : \E f : Flat(ss, n, f)}
<1>1. 0 \in Good
  <2> DEFINE f == [i \in 1..0 |-> ss[i]]
  <2>1. Flat(ss, 0, f)
    BY DEF Flat
  <2> QED BY <2>1
<1>2. ASSUME NEW n \in Nat, n \in Good
      PROVE  n + 1 \in Good
  <2>1. PICK f : Flat(ss, n, f)
    BY <1>2
  <2> DEFINE g == [i \in 1..n + 1 |-> IF i = 1 THEN ss[i] ELSE f[i - 1] \o ss[i]]
  <2>2. \A i \in 1..n : f[i] = IF i = 1 THEN ss[i] ELSE f[i - 1] \o ss[i]
    BY <2>1 DEF Flat
  <2>3. \A i \in 1..n + 1 : i # 1 => i - 1 \in 1..n
    OBVIOUS
  <2>4. \A i \in 1..n : g[i] = f[i]
    BY <2>2
  <2>5. \A i \in 1..n + 1 : g[i] = IF i = 1 THEN ss[i] ELSE g[i - 1] \o ss[i]
    BY <2>3, <2>4
  <2>6. g = [i \in 1..n + 1 |-> g[i]]
    OBVIOUS
  <2> HIDE DEF g
  <2>7. Flat(ss, n + 1, g)
    BY <2>5, <2>6 DEF Flat
  <2> QED BY <2>7
<1> HIDE DEF Good
<1>3. \A n \in Nat : n \in Good
  BY <1>1, <1>2, NaturalSteps
<1> QED BY <1>3 DEF Good

LEMMA FlatSame ==
  ASSUME NEW S, NEW n \in Nat, NEW m \in Nat, n <= m, NEW ss, NEW tt, NEW f, NEW g,
         Flat(ss, n, f), Flat(tt, m, g), \A i \in 1..n : ss[i] = tt[i] /\ ss[i] \in Seq(S)
  PROVE  \A i \in 1..n : f[i] = g[i] /\ f[i] \in Seq(S)
<1> DEFINE Good == {i \in Nat : i \in 1..n => f[i] = g[i] /\ f[i] \in Seq(S)}
<1>1. /\ \A i \in 1..n : f[i] = IF i = 1 THEN ss[i] ELSE f[i - 1] \o ss[i]
      /\ \A i \in 1..m : g[i] = IF i = 1 THEN tt[i] ELSE g[i - 1] \o tt[i]
  BY DEF Flat
<1>2. 0 \in Good
  OBVIOUS
<1>3. ASSUME NEW i \in Nat, i \in Good
      PROVE  i + 1 \in Good
  <2> SUFFICES ASSUME i + 1 \in 1..n
               PROVE  f[i + 1] = g[i + 1] /\ f[i + 1] \in Seq(S)
    OBVIOUS
  <2>1. ss[i + 1] = tt[i + 1] /\ ss[i + 1] \in Seq(S) /\ i + 1 \in 1..m
    OBVIOUS
  <2>2. CASE i = 0
    BY <1>1, <2>1, <2>2
  <2>3. CASE i # 0
    <3>1. f[i] = g[i] /\ f[i] \in Seq(S)
      BY <1>3, <2>3
    <3>2. i + 1 # 1 /\ (i + 1) - 1 = i
      BY <2>3
    <3>3. f[i + 1] = f[i] \o ss[i + 1] /\ g[i + 1] = g[i] \o tt[i + 1]
      BY <1>1, <2>1, <3>2, Zenon
    <3> QED BY <2>1, <3>1, <3>3, ConcatProperties
  <2> QED BY <2>2, <2>3
<1> HIDE DEF Good
<1>4. \A i \in Nat : i \in Good
  BY <1>2, <1>3, NaturalSteps
<1> QED BY <1>4 DEF Good

LEMMA FlattenIs ==
  ASSUME NEW ss, Len(ss) \in Nat, Len(ss) # 0
  PROVE  \E f : Flat(ss, Len(ss), f) /\ FlattenSeq(ss) = f[Len(ss)]
<1>1. FlattenSeq(ss) = (CHOOSE f : Flat(ss, Len(ss), f))[Len(ss)]
  BY DEF FlattenSeq, Flat
<1>2. Flat(ss, Len(ss), CHOOSE f : Flat(ss, Len(ss), f))
  BY FlatExists
<1> QED BY <1>1, <1>2

(* What FlattenSeq returns: nothing of nothing, and one list more at the end. *)
LEMMA FlattenEmpty == FlattenSeq(<<>>) = <<>>
BY DEF FlattenSeq

LEMMA FlattenTyped ==
  ASSUME NEW S, NEW ss \in Seq(Seq(S))
  PROVE  FlattenSeq(ss) \in Seq(S)
<1>1. Len(ss) \in Nat /\ \A i \in 1..Len(ss) : ss[i] \in Seq(S)
  BY LenProperties, ElementOfSeq
<1>2. CASE Len(ss) = 0
  BY <1>2, FlattenEmpty, EmptySeq
<1>3. CASE Len(ss) # 0
  <2>1. PICK f : Flat(ss, Len(ss), f) /\ FlattenSeq(ss) = f[Len(ss)]
    BY <1>1, <1>3, FlattenIs
  <2>2. \A i \in 1..Len(ss) : f[i] \in Seq(S)
    BY <1>1, <2>1, FlatSame
  <2> QED BY <1>1, <1>3, <2>1, <2>2
<1> QED BY <1>2, <1>3

LEMMA FlattenAppend ==
  ASSUME NEW S, NEW ss \in Seq(Seq(S)), NEW x \in Seq(S)
  PROVE  FlattenSeq(Append(ss, x)) = FlattenSeq(ss) \o x
<1> DEFINE tt == Append(ss, x)
           n  == Len(ss)
<1>1. /\ n \in Nat /\ Len(tt) = n + 1 /\ tt[n + 1] = x
      /\ \A i \in 1..n : tt[i] = ss[i] /\ ss[i] \in Seq(S)
  BY AppendProperties, ElementOfSeq
<1> HIDE DEF tt, n
<1>2. PICK g : Flat(tt, n + 1, g) /\ FlattenSeq(tt) = g[n + 1]
  BY <1>1, FlattenIs
<1>3. g[n + 1] = IF n = 0 THEN x ELSE g[n] \o x
  <2>1. n + 1 \in 1..n + 1 /\ (n + 1) - 1 = n /\ (n + 1 = 1 <=> n = 0)
    BY <1>1
  <2>2. \A i \in 1..n + 1 : g[i] = IF i = 1 THEN tt[i] ELSE g[i - 1] \o tt[i]
    BY <1>2 DEF Flat
  <2>3. g[n + 1] = IF n + 1 = 1 THEN tt[n + 1] ELSE g[(n + 1) - 1] \o tt[n + 1]
    BY <2>1, <2>2
  <2> QED BY <1>1, <2>1, <2>3
<1>4. CASE n = 0
  <2>1. ss = <<>>
    BY <1>4, EmptySeq DEF n
  <2> QED BY <1>2, <1>3, <1>4, <2>1, FlattenEmpty, ConcatEmptySeq DEF tt
<1>5. CASE n # 0
  <2>1. PICK f : Flat(ss, n, f) /\ FlattenSeq(ss) = f[n]
    BY <1>1, <1>5, FlattenIs DEF n
  <2>2. n + 1 \in Nat /\ n <= n + 1 /\ n \in 1..n /\ \A i \in 1..n : ss[i] = tt[i] /\ ss[i] \in Seq(S)
    BY <1>1, <1>5
  <2>3. \A i \in 1..n : f[i] = g[i]
    <3>1. PICK k : k = n + 1
      OBVIOUS
    <3>2. k \in Nat /\ n <= k /\ Flat(tt, k, g)
      BY <1>2, <2>2, <3>1
    <3>3. \A i \in 1..n : ss[i] = tt[i] /\ ss[i] \in Seq(S)
      BY <2>2
    <3>4. \A i \in 1..n : f[i] = g[i] /\ f[i] \in Seq(S)
      BY <1>1, <2>1, <3>2, <3>3, FlatSame
    <3> QED BY <3>4
  <2> QED BY <1>2, <1>3, <1>5, <2>1, <2>2, <2>3 DEF tt
<1> QED BY <1>4, <1>5

(* Induction on lists, for a set of lists. *)
LEMMA ListSteps ==
  ASSUME NEW S, NEW G, <<>> \in G, \A s \in Seq(S), x \in S : s \in G => Append(s, x) \in G
  PROVE  \A s \in Seq(S) : s \in G
<1> DEFINE Good == {n \in Nat : \A s \in Seq(S) : Len(s) = n => s \in G}
<1>1. 0 \in Good
  BY EmptySeq
<1>2. ASSUME NEW n \in Nat, n \in Good
      PROVE  n + 1 \in Good
  <2> SUFFICES ASSUME NEW s \in Seq(S), Len(s) = n + 1
               PROVE  s \in G
    OBVIOUS
  <2>1. s # <<>>
    BY EmptySeq
  <2>2. PICK t \in Seq(S), x \in S : s = Append(t, x)
    BY <2>1, SequenceEmptyOrAppend
  <2>3. Len(t) = n
    BY <2>2, AppendProperties, LenProperties
  <2> QED BY <1>2, <2>2, <2>3
<1>3. \A n \in Nat : n \in Good
  <2> HIDE DEF Good
  <2> QED BY <1>1, <1>2, NaturalSteps
<1> QED BY <1>3, LenProperties

(* What a function makes of each element of a list, one after the other. *)
Spread(f, s) == FlattenSeq([i \in 1..Len(s) |-> f[s[i]]])

LEMMA SpreadEmpty ==
  ASSUME NEW f
  PROVE  Spread(f, <<>>) = <<>>
<1> DEFINE ss == [i \in 1..Len(<<>>) |-> f[<<>>[i]]]
<1>1. ss = <<>>
  BY EmptySeq
<1> HIDE DEF ss
<1>2. FlattenSeq(ss) = <<>>
  BY <1>1, FlattenEmpty
<1> QED BY <1>2 DEF Spread, ss

LEMMA EachTyped ==
  ASSUME NEW S, NEW T, NEW f \in [S -> T], NEW s \in Seq(S)
  PROVE  [i \in 1..Len(s) |-> f[s[i]]] \in Seq(T)
<1>1. Len(s) \in Nat /\ \A i \in 1..Len(s) : f[s[i]] \in T
  BY LenProperties, ElementOfSeq
<1> QED BY <1>1, IsASeq

LEMMA SpreadTyped ==
  ASSUME NEW S, NEW T, NEW f \in [S -> Seq(T)], NEW s \in Seq(S)
  PROVE  Spread(f, s) \in Seq(T)
<1> DEFINE ss == [i \in 1..Len(s) |-> f[s[i]]]
<1>1. ss \in Seq(Seq(T))
  BY EachTyped
<1> HIDE DEF ss
<1>2. FlattenSeq(ss) \in Seq(T)
  BY <1>1, FlattenTyped
<1> QED BY <1>2 DEF Spread, ss

LEMMA SpreadAppend ==
  ASSUME NEW S, NEW T, NEW f \in [S -> Seq(T)], NEW s \in Seq(S), NEW x \in S
  PROVE  Spread(f, Append(s, x)) = Spread(f, s) \o f[x]
<1> DEFINE ss == [i \in 1..Len(s) |-> f[s[i]]]
           tt == [i \in 1..Len(Append(s, x)) |-> f[Append(s, x)[i]]]
<1>1. ss \in Seq(Seq(T)) /\ f[x] \in Seq(T) /\ tt \in Seq(Seq(T))
  BY EachTyped, AppendProperties
<1>2. tt = Append(ss, f[x])
  <2>1. /\ Len(s) \in Nat /\ Len(Append(s, x)) = Len(s) + 1 /\ Append(s, x)[Len(s) + 1] = x
        /\ \A i \in 1..Len(s) : Append(s, x)[i] = s[i]
    BY LenProperties, AppendProperties
  <2>2. Len(ss) = Len(s) /\ Len(tt) = Len(s) + 1
    BY <2>1
  <2>3. Append(ss, f[x]) \in Seq(Seq(T)) /\ Len(Append(ss, f[x])) = Len(s) + 1
    BY <1>1, <2>1, <2>2
  <2>4. \A i \in 1..Len(s) + 1 : tt[i] = Append(ss, f[x])[i]
    BY <1>1, <2>1, <2>2
  <2> HIDE DEF ss, tt
  <2> QED BY <1>1, <2>2, <2>3, <2>4, SeqEqual
<1> HIDE DEF ss, tt
<1>3. FlattenSeq(tt) = FlattenSeq(ss) \o f[x]
  BY <1>1, <1>2, FlattenAppend
<1> QED BY <1>3 DEF Spread, ss, tt

LEMMA SpreadConcat ==
  ASSUME NEW S, NEW T, NEW f \in [S -> Seq(T)], NEW s \in Seq(S)
  PROVE  \A t \in Seq(S) : Spread(f, s \o t) = Spread(f, s) \o Spread(f, t)
<1> DEFINE G == {t \in Seq(S) : Spread(f, s \o t) = Spread(f, s) \o Spread(f, t)}
<1>1. <<>> \in G
  <2>1. Spread(f, s) \in Seq(T) /\ <<>> \in Seq(S)
    BY SpreadTyped, EmptySeq
  <2>2. s \o <<>> = s /\ Spread(f, s) \o <<>> = Spread(f, s) /\ Spread(f, <<>>) = <<>>
    BY <2>1, SpreadEmpty, ConcatEmptySeq
  <2> QED BY <2>1, <2>2
<1>2. ASSUME NEW t \in Seq(S), NEW x \in S, t \in G
      PROVE  Append(t, x) \in G
  <2>1. s \o Append(t, x) = Append(s \o t, x) /\ s \o t \in Seq(S) /\ Append(t, x) \in Seq(S)
    BY ConcatSimplifications, ConcatProperties, AppendProperties
  <2>2. /\ Spread(f, s) \in Seq(T) /\ Spread(f, t) \in Seq(T) /\ f[x] \in Seq(T)
        /\ Spread(f, s \o t) = Spread(f, s) \o Spread(f, t)
    BY <1>2, SpreadTyped
  <2>3. /\ Spread(f, Append(s \o t, x)) = Spread(f, s \o t) \o f[x]
        /\ Spread(f, Append(t, x)) = Spread(f, t) \o f[x]
    BY <2>1, SpreadAppend
  <2>4. (Spread(f, s) \o Spread(f, t)) \o f[x] = Spread(f, s) \o (Spread(f, t) \o f[x])
    BY <2>2, ConcatAssociative
  <2> QED BY <2>1, <2>2, <2>3, <2>4
<1> HIDE DEF G
<1>3. \A t \in Seq(S) : t \in G
  BY <1>1, <1>2, ListSteps
<1> QED BY <1>3 DEF G

(* A function that makes nothing of the elements of a list. *)
LEMMA SpreadNothing ==
  ASSUME NEW S, NEW T, NEW f \in [S -> Seq(T)]
  PROVE  \A s \in Seq(S) : (\A i \in 1..Len(s) : f[s[i]] = <<>>) => Spread(f, s) = <<>>
<1> DEFINE Void(s) == \A i \in 1..Len(s) : f[s[i]] = <<>>
           G == {s \in Seq(S) : Void(s) => Spread(f, s) = <<>>}
<1>1. <<>> \in G
  BY SpreadEmpty, EmptySeq
<1>2. ASSUME NEW s \in Seq(S), NEW x \in S, s \in G
      PROVE  Append(s, x) \in G
  <2>1. /\ Append(s, x) \in Seq(S)
        /\ Len(s) \in Nat /\ Len(Append(s, x)) = Len(s) + 1 /\ Append(s, x)[Len(s) + 1] = x
        /\ \A i \in 1..Len(s) : Append(s, x)[i] = s[i]
    BY LenProperties, AppendProperties
  <2> SUFFICES ASSUME Void(Append(s, x))
               PROVE  Spread(f, Append(s, x)) = <<>>
    BY <2>1
  <2>2. f[x] = <<>> /\ Void(s)
    <3>1. \A i \in 1..Len(s) + 1 : f[Append(s, x)[i]] = <<>>
      BY <2>1
    <3>2. \A i \in 1..Len(s) : i \in 1..Len(s) + 1
      BY <2>1
    <3>3. Len(s) + 1 \in 1..Len(s) + 1
      BY <2>1
    <3> QED BY <2>1, <3>1, <3>2, <3>3, Zenon
  <2>3. Spread(f, s) = <<>>
    BY <1>2, <2>2
  <2> QED BY <2>2, <2>3, SpreadAppend
<1>3. \A s \in Seq(S) : s \in G
  <2> HIDE DEF G
  <2> QED BY <1>1, <1>2, ListSteps
<1> QED BY <1>3

(* The same of a function that is known to make lists only. *)
Makes(f, S, T) == f \in [S -> Seq(T)]

LEMMA Spreads ==
  ASSUME NEW S, NEW T, NEW f, Makes(f, S, T)
  PROVE  /\ \A s \in Seq(S) : Spread(f, s) \in Seq(T)
         /\ \A s \in Seq(S), x \in S : Spread(f, Append(s, x)) = Spread(f, s) \o f[x]
         /\ \A s, t \in Seq(S) : Spread(f, s \o t) = Spread(f, s) \o Spread(f, t)
         /\ \A s \in Seq(S) : (\A i \in 1..Len(s) : f[s[i]] = <<>>) => Spread(f, s) = <<>>
         /\ \A x \in S : f[x] \in Seq(T)
<1> f \in [S -> Seq(T)]
  BY DEF Makes
<1>1. \A s \in Seq(S) : Spread(f, s) \in Seq(T)
  BY SpreadTyped
<1>2. \A s \in Seq(S), x \in S : Spread(f, Append(s, x)) = Spread(f, s) \o f[x]
  BY SpreadAppend
<1>3. \A s, t \in Seq(S) : Spread(f, s \o t) = Spread(f, s) \o Spread(f, t)
  BY SpreadConcat
<1>4. \A s \in Seq(S) : (\A i \in 1..Len(s) : f[s[i]] = <<>>) => Spread(f, s) = <<>>
  BY SpreadNothing
<1> QED BY <1>1, <1>2, <1>3, <1>4

LEMMA SpreadOver ==
  ASSUME NEW S, NEW T, NEW f, Makes(f, S, T), NEW s \in Seq(S), NEW t \in Seq(S)
  PROVE  Spread(f, s \o t) = Spread(f, s) \o Spread(f, t)
<1> f \in [S -> Seq(T)]
  BY DEF Makes
<1> QED BY SpreadConcat

LEMMA Associates ==
  ASSUME NEW S
  PROVE  \A x, y, z \in Seq(S) : x \o (y \o z) = (x \o y) \o z
<1> TAKE x, y, z \in Seq(S)
<1> QED BY ConcatAssociative

(* Twice in a row. *)
LEMMA SpreadTwice ==
  ASSUME NEW A, NEW B, NEW C, NEW f, NEW g, NEW h, Makes(f, A, B), Makes(g, B, C), Makes(h, A, C),
         \A x \in A : h[x] = Spread(g, f[x])
  PROVE  \A s \in Seq(A) : Spread(g, Spread(f, s)) = Spread(h, s)
<1> DEFINE G == {s \in Seq(A) : Spread(g, Spread(f, s)) = Spread(h, s)}
<1>2. <<>> \in G
  BY SpreadEmpty, EmptySeq
<1>3. ASSUME NEW s \in Seq(A), NEW x \in A, s \in G
      PROVE  Append(s, x) \in G
  <2>1. Append(s, x) \in Seq(A) /\ f[x] \in Seq(B) /\ Spread(f, s) \in Seq(B) /\ h[x] = Spread(g, f[x])
    <3>1. Append(s, x) \in Seq(A)
      BY AppendProperties
    <3>2. f[x] \in Seq(B) /\ Spread(f, s) \in Seq(B)
      BY Spreads
    <3> QED BY <3>1, <3>2
  <2>2. Spread(f, Append(s, x)) = Spread(f, s) \o f[x]
    BY Spreads
  <2>3. Spread(g, Spread(f, s) \o f[x]) = Spread(g, Spread(f, s)) \o Spread(g, f[x])
    <3>1. \A p, q \in Seq(B) : Spread(g, p \o q) = Spread(g, p) \o Spread(g, q)
      BY Spreads
    <3> QED BY <2>1, <3>1
  <2>4. Spread(h, Append(s, x)) = Spread(h, s) \o h[x]
    BY Spreads
  <2> QED BY <1>3, <2>1, <2>2, <2>3, <2>4
<1> HIDE DEF G
<1>4. \A s \in Seq(A) : s \in G
  BY <1>2, <1>3, ListSteps
<1> QED BY <1>4 DEF G

(* The elements of what is spread out, and where they come from. *)
LEMMA SpreadElements ==
  ASSUME NEW S, NEW T, NEW f \in [S -> Seq(T)]
  PROVE  \A s \in Seq(S) : \A y : y \in Range(Spread(f, s)) <=> \E i \in 1..Len(s) : y \in Range(f[s[i]])
<1> DEFINE From(s) == UNION {Range(f[s[i]]) : i \in 1..Len(s)}
           G == {s \in Seq(S) : Range(Spread(f, s)) = From(s)}
<1>1. <<>> \in G
  <2>1. From(<<>>) = {}
    BY EmptySeq
  <2>2. Range(<<>>) = {}
    BY EmptySeq DEF Range
  <2> QED BY <2>1, <2>2, SpreadEmpty, EmptySeq
<1>2. ASSUME NEW s \in Seq(S), NEW x \in S, s \in G
      PROVE  Append(s, x) \in G
  <2>1. /\ Append(s, x) \in Seq(S)
        /\ Len(s) \in Nat /\ Len(Append(s, x)) = Len(s) + 1 /\ Append(s, x)[Len(s) + 1] = x
        /\ \A i \in 1..Len(s) : Append(s, x)[i] = s[i]
    BY LenProperties, AppendProperties
  <2>2. From(Append(s, x)) = From(s) \cup Range(f[x])
    <3>1. 1..Len(s) + 1 = 1..Len(s) \cup {Len(s) + 1}
      BY <2>1
    <3> QED BY <2>1, <3>1
  <2>3. f[x] \in Seq(T) /\ Spread(f, s) \in Seq(T)
    BY SpreadTyped
  <2>4. Range(Spread(f, s) \o f[x]) = Range(Spread(f, s)) \cup Range(f[x])
    BY <2>3, RangeConcatenation
  <2>5. Spread(f, Append(s, x)) = Spread(f, s) \o f[x]
    BY SpreadAppend
  <2>6. Range(Spread(f, s)) = From(s)
    BY <1>2
  <2>7. Range(Spread(f, Append(s, x))) = From(Append(s, x))
    BY <2>2, <2>4, <2>5, <2>6, Zenon
  <2> QED BY <2>1, <2>7
<1>3. \A s \in Seq(S) : s \in G
  <2> HIDE DEF G
  <2> QED BY <1>1, <1>2, ListSteps
<1>4. \A s \in Seq(S) : Range(Spread(f, s)) = From(s)
  BY <1>3
<1>5. \A s : \A y : y \in From(s) <=> \E i \in 1..Len(s) : y \in Range(f[s[i]])
  OBVIOUS
<1> HIDE DEF From
<1> QED BY <1>4, <1>5

LEMMA SpreadSame ==
  ASSUME NEW f, NEW s, NEW t, Len(s) = Len(t), \A i \in 1..Len(s) : f[s[i]] = f[t[i]]
  PROVE  Spread(f, s) = Spread(f, t)
<1>1. [i \in 1..Len(s) |-> f[s[i]]] = [i \in 1..Len(t) |-> f[t[i]]]
  OBVIOUS
<1> QED BY <1>1, Zenon DEF Spread

LEMMA SpreadOne ==
  ASSUME NEW S, NEW T, NEW f, Makes(f, S, T), NEW x \in S
  PROVE  Spread(f, <<x>>) = f[x]
<1>1. PICK none : none = <<>>
  OBVIOUS
<1>2. none \in Seq(S) /\ <<x>> = Append(none, x)
  BY <1>1, EmptySeq
<1>3. Spread(f, Append(none, x)) = Spread(f, none) \o f[x] /\ f[x] \in Seq(T)
  BY <1>2, Spreads
<1>4. Spread(f, none) = <<>>
  BY <1>1, SpreadEmpty
<1> QED BY <1>2, <1>3, <1>4, ConcatEmptySeq

(* A list that is not empty is what is before its last element, and that. *)
LEMMA EndOf ==
  ASSUME NEW S, NEW s \in Seq(S), s # <<>>
  PROVE  \E t \in Seq(S) : s = Append(t, Last(s)) /\ Last(s) \in S /\ Last(s) = s[Len(s)] /\ Len(t) = Len(s) - 1
<1>1. PICK t \in Seq(S), x \in S : s = Append(t, x)
  BY SequenceEmptyOrAppend
<1>2. Len(s) = Len(t) + 1 /\ s[Len(t) + 1] = x /\ Len(t) \in Nat
  BY <1>1, AppendProperties
<1>3. Last(s) = x /\ Last(s) = s[Len(s)]
  BY <1>2 DEF Last
<1> QED BY <1>1, <1>2, <1>3

LEMMA ChangedLast ==
  ASSUME NEW S, NEW s \in Seq(S), NEW x \in S, NEW y \in S
  PROVE  [Append(s, x) EXCEPT ![Len(Append(s, x))] = y] = Append(s, y)
<1>1. /\ Append(s, x) \in Seq(S) /\ Append(s, y) \in Seq(S) /\ Len(s) \in Nat
      /\ Len(Append(s, x)) = Len(s) + 1 /\ Len(Append(s, y)) = Len(s) + 1
      /\ Append(s, y)[Len(s) + 1] = y
      /\ \A i \in 1..Len(s) : Append(s, x)[i] = s[i] /\ Append(s, y)[i] = s[i]
  BY AppendProperties, LenProperties
<1>2. PICK t : t = Append(s, x)
  OBVIOUS
<1>3. PICK u : u = [t EXCEPT ![Len(t)] = y]
  OBVIOUS
<1>4. t \in Seq(S) /\ Len(t) = Len(s) + 1 /\ Len(t) \in 1..Len(t)
  BY <1>1, <1>2
<1>5. u \in Seq(S) /\ Len(u) = Len(t) /\ \A j \in 1..Len(t) : u[j] = IF j = Len(t) THEN y ELSE t[j]
  BY <1>3, <1>4, ExceptSeq
<1>6. \A j \in 1..Len(s) + 1 : u[j] = Append(s, y)[j]
  BY <1>1, <1>2, <1>4, <1>5
<1>7. u = Append(s, y)
  BY <1>1, <1>4, <1>5, <1>6, SeqEqual
<1> QED BY <1>2, <1>3, <1>7

-----------------------------------------------------------------------------
(* The types of what is said, of the blocks and of the messages. *)
WordKinds  == PieceKinds \cup WriterOps
Words      == [k: WordKinds, n: Nat]
BlockKinds == WordKinds \cup { "text", "media", "reasoning", "tool_use", "tool_result", "thinking", "extension",
                                "thought", "call", "response" }
Signature  == Seq(Nat)
Blocks     == [k: BlockKinds, id: Nat, said: Seq(Words), sig: Signature]
Speakers   == Roles \cup {"model", "tool"}
Messages   == [role: Speakers, blocks: Seq(Blocks)]

LEMMA Speak == "user" \in Speakers /\ "assistant" \in Speakers /\ "model" \in Speakers /\ "tool" \in Speakers
<1>1. "user" \in Roles /\ "assistant" \in Roles
  BY Zenon DEF Roles
<1> QED BY <1>1 DEF Speakers

LEMMA BlockTyped ==
  ASSUME NEW k \in BlockKinds, NEW id \in Nat, NEW said \in Seq(Words), NEW sig \in Signature
  PROVE  Block(k, id, said, sig) \in Blocks
BY DEF Block, Blocks

LEMMA TurnTyped ==
  ASSUME NEW role \in Speakers, NEW blocks \in Seq(Blocks)
  PROVE  Turn(role, blocks) \in Messages /\ Turn(role, blocks).role = role /\ Turn(role, blocks).blocks = blocks
BY DEF Turn, Messages

LEMMA TurnIs ==
  ASSUME NEW t \in Messages
  PROVE  t = Turn(t.role, t.blocks) /\ t.role \in Speakers /\ t.blocks \in Seq(Blocks)
BY DEF Turn, Messages

(* Blocks join the last message, if it has their role, or are a new one. *)
LEMMA JoinIs ==
  ASSUME NEW turns \in Seq(Messages), NEW role \in Speakers, NEW blocks \in Seq(Blocks)
  PROVE  \/ /\ Join(turns, role, blocks) = Append(turns, Turn(role, blocks))
            /\ ~(turns # <<>> /\ Last(turns).role = role)
         \/ \E u \in Seq(Messages), bs \in Seq(Blocks) :
              turns = Append(u, Turn(role, bs)) /\ Join(turns, role, blocks) = Append(u, Turn(role, bs \o blocks))
<1>1. CASE ~(turns # <<>> /\ Last(turns).role = role)
  BY <1>1 DEF Join
<1>2. CASE turns # <<>> /\ Last(turns).role = role
  <2>1. PICK u \in Seq(Messages) : turns = Append(u, Last(turns)) /\ Last(turns) \in Messages /\ Last(turns) = turns[Len(turns)]
    BY <1>2, EndOf
  <2>2. PICK t \in Messages : t = Last(turns)
    BY <2>1
  <2>3. PICK bs \in Seq(Blocks) : bs = t.blocks
    BY DEF Messages
  <2>4. t = Turn(role, bs)
    BY <1>2, <2>2, <2>3, TurnIs
  <2>5. [t EXCEPT !.blocks = bs \o blocks] = Turn(role, bs \o blocks)
    <3>1. \A x : [[role |-> role, blocks |-> bs] EXCEPT !.blocks = x] = [role |-> role, blocks |-> x]
      OBVIOUS
    <3> QED BY <2>4, <3>1 DEF Turn
  <2>6. [turns EXCEPT ![Len(turns)].blocks = @ \o blocks] =
          [turns EXCEPT ![Len(turns)] = [turns[Len(turns)] EXCEPT !.blocks = turns[Len(turns)].blocks \o blocks]]
    OBVIOUS
  <2>7. Join(turns, role, blocks) = [turns EXCEPT ![Len(turns)] = Turn(role, bs \o blocks)]
    BY <1>2, <2>1, <2>2, <2>3, <2>5, <2>6 DEF Join
  <2>8. bs \o blocks \in Seq(Blocks)
    BY ConcatProperties
  <2>9. Turn(role, bs \o blocks) \in Messages
    BY <2>8, TurnTyped
  <2>10. Join(turns, role, blocks) = Append(u, Turn(role, bs \o blocks))
    <3>1. PICK y \in Messages : y = Turn(role, bs \o blocks)
      BY <2>9
    <3>2. turns = Append(u, t)
      BY <2>1, <2>2
    <3>3. [turns EXCEPT ![Len(turns)] = y] = Append(u, y)
      BY <3>2, ChangedLast
    <3> QED BY <2>7, <3>1, <3>3
  <2> QED BY <2>1, <2>2, <2>4, <2>10
<1> QED BY <1>1, <1>2

LEMMA JoinTyped ==
  ASSUME NEW turns \in Seq(Messages), NEW role \in Speakers, NEW blocks \in Seq(Blocks)
  PROVE  Join(turns, role, blocks) \in Seq(Messages)
<1>1. CASE Join(turns, role, blocks) = Append(turns, Turn(role, blocks))
  BY <1>1, TurnTyped, AppendProperties
<1>2. ASSUME NEW u \in Seq(Messages), NEW bs \in Seq(Blocks), Join(turns, role, blocks) = Append(u, Turn(role, bs \o blocks))
      PROVE  Join(turns, role, blocks) \in Seq(Messages)
  <2>1. Turn(role, bs \o blocks) \in Messages
    BY ConcatProperties, TurnTyped
  <2> QED BY <1>2, <2>1, AppendProperties
<1> QED BY <1>1, <1>2, JoinIs

-----------------------------------------------------------------------------
(* The signatures of blocks, of messages and of a whole request. *)
ShownIn  == [b \in Blocks |-> Shown(b.sig)]
BlocksIn == [t \in Messages |-> t.blocks]
SignedIn == [t \in Messages |-> SignaturesOf(t.blocks)]
SignedSoFar(turns) == SignaturesOf(AllBlocks(turns))

LEMMA ShownTyped ==
  ASSUME NEW sig \in Signature
  PROVE  Shown(sig) \in Seq(Signature)
BY EmptySeq DEF Shown, OwnFiller

LEMMA SignaturesSpread ==
  /\ Makes(ShownIn, Blocks, Signature)
  /\ \A blocks \in Seq(Blocks) : SignaturesOf(blocks) = Spread(ShownIn, blocks) /\ SignaturesOf(blocks) \in Seq(Signature)
<1>1. \A b \in Blocks : b.sig \in Signature
  BY DEF Blocks
<1>2. \A b \in Blocks : Shown(b.sig) \in Seq(Signature)
  BY <1>1, ShownTyped
<1>3. Makes(ShownIn, Blocks, Signature)
  BY <1>2 DEF Makes, ShownIn
<1>4. ASSUME NEW blocks \in Seq(Blocks)
      PROVE  SignaturesOf(blocks) = Spread(ShownIn, blocks)
  <2>1. \A i \in 1..Len(blocks) : ShownIn[blocks[i]] = Shown(blocks[i].sig)
    BY ElementOfSeq DEF ShownIn
  <2>2. [i \in 1..Len(blocks) |-> Shown(blocks[i].sig)] = [i \in 1..Len(blocks) |-> ShownIn[blocks[i]]]
    BY <2>1
  <2> QED BY <2>2, Zenon DEF SignaturesOf, Spread
<1>5. \A blocks \in Seq(Blocks) : Spread(ShownIn, blocks) \in Seq(Signature)
  BY <1>3, Spreads
<1> QED BY <1>3, <1>4, <1>5

LEMMA SignaturesConcat ==
  ASSUME NEW a \in Seq(Blocks), NEW b \in Seq(Blocks)
  PROVE  SignaturesOf(a \o b) = SignaturesOf(a) \o SignaturesOf(b)
<1>1. a \o b \in Seq(Blocks)
  BY ConcatProperties
<1>2. Makes(ShownIn, Blocks, Signature)
  BY SignaturesSpread
<1>3. Spread(ShownIn, a \o b) = Spread(ShownIn, a) \o Spread(ShownIn, b)
  BY <1>2, SpreadOver
<1>4. /\ SignaturesOf(a \o b) = Spread(ShownIn, a \o b)
      /\ SignaturesOf(a) = Spread(ShownIn, a) /\ SignaturesOf(b) = Spread(ShownIn, b)
  BY <1>1, SignaturesSpread
<1> QED BY <1>3, <1>4

LEMMA SignaturesSame ==
  ASSUME NEW a \in Seq(Blocks), NEW b \in Seq(Blocks), Len(a) = Len(b),
         \A i \in 1..Len(a) : Shown(a[i].sig) = Shown(b[i].sig)
  PROVE  SignaturesOf(a) = SignaturesOf(b)
<1>1. [i \in 1..Len(a) |-> Shown(a[i].sig)] = [i \in 1..Len(b) |-> Shown(b[i].sig)]
  OBVIOUS
<1> QED BY <1>1, Zenon DEF SignaturesOf

LEMMA SignatureOfBlock ==
  ASSUME NEW b \in Blocks
  PROVE  SignaturesOf(<<b>>) = Shown(b.sig) /\ <<b>> \in Seq(Blocks)
<1>1. <<b>> \in Seq(Blocks)
  OBVIOUS
<1>2. Spread(ShownIn, <<b>>) = ShownIn[b]
  BY SignaturesSpread, SpreadOne
<1> QED BY <1>1, <1>2, SignaturesSpread DEF ShownIn

(* Blocks that no signature comes with. *)
Unsigned(blocks) == blocks \in Seq(Blocks) /\ \A i \in 1..Len(blocks) : blocks[i].sig = <<>>

LEMMA SignaturesNone ==
  ASSUME NEW blocks, Unsigned(blocks)
  PROVE  SignaturesOf(blocks) = <<>>
<1> blocks \in Seq(Blocks)
  BY DEF Unsigned
<1>1. Shown(<<>>) = <<>>
  BY DEF Shown, OwnFiller
<1>2. \A i \in 1..Len(blocks) : ShownIn[blocks[i]] = <<>>
  BY <1>1, ElementOfSeq DEF Unsigned, ShownIn
<1>3. \A s \in Seq(Blocks) : (\A i \in 1..Len(s) : ShownIn[s[i]] = <<>>) => Spread(ShownIn, s) = <<>>
  BY SignaturesSpread, Spreads
<1> QED BY <1>2, <1>3, SignaturesSpread

LEMMA BlocksSpread ==
  /\ Makes(BlocksIn, Messages, Blocks)
  /\ \A turns \in Seq(Messages) : AllBlocks(turns) = Spread(BlocksIn, turns) /\ AllBlocks(turns) \in Seq(Blocks)
<1>1. Makes(BlocksIn, Messages, Blocks)
  BY DEF Makes, BlocksIn, Messages
<1>2. ASSUME NEW turns \in Seq(Messages)
      PROVE  AllBlocks(turns) = Spread(BlocksIn, turns)
  <2>1. \A i \in 1..Len(turns) : BlocksIn[turns[i]] = turns[i].blocks
    BY ElementOfSeq DEF BlocksIn
  <2>2. [i \in 1..Len(turns) |-> turns[i].blocks] = [i \in 1..Len(turns) |-> BlocksIn[turns[i]]]
    BY <2>1
  <2> QED BY <2>2, Zenon DEF AllBlocks, Spread
<1>3. \A turns \in Seq(Messages) : Spread(BlocksIn, turns) \in Seq(Blocks)
  BY <1>1, Spreads
<1> QED BY <1>1, <1>2, <1>3

LEMMA SignedSpread ==
  /\ Makes(SignedIn, Messages, Signature)
  /\ \A turns \in Seq(Messages) : SignedSoFar(turns) = Spread(SignedIn, turns) /\ SignedSoFar(turns) \in Seq(Signature)
<1>1. \A t \in Messages : SignedIn[t] = SignaturesOf(t.blocks) /\ t.blocks \in Seq(Blocks) /\ BlocksIn[t] = t.blocks
  BY DEF SignedIn, Messages, BlocksIn
<1>2. \A t \in Messages : SignedIn[t] = Spread(ShownIn, BlocksIn[t]) /\ SignaturesOf(t.blocks) \in Seq(Signature)
  BY <1>1, SignaturesSpread
<1>3. Makes(SignedIn, Messages, Signature)
  BY <1>1, <1>2 DEF Makes, SignedIn
<1>4. \A turns \in Seq(Messages) : Spread(ShownIn, Spread(BlocksIn, turns)) = Spread(SignedIn, turns)
  BY <1>2, <1>3, SignaturesSpread, BlocksSpread, SpreadTwice
<1>5. \A turns \in Seq(Messages) : SignedSoFar(turns) = Spread(ShownIn, Spread(BlocksIn, turns)) /\ SignedSoFar(turns) \in Seq(Signature)
  BY SignaturesSpread, BlocksSpread DEF SignedSoFar
<1> QED BY <1>3, <1>4, <1>5

LEMMA SignedEmpty == SignedSoFar(<<>>) = <<>> /\ <<>> \in Seq(Messages)
<1>1. PICK none \in Seq(Messages) : none = <<>>
  BY EmptySeq
<1>2. Spread(SignedIn, none) = <<>>
  BY <1>1, SpreadEmpty
<1> QED BY <1>1, <1>2, SignedSpread

LEMMA SignedAppend ==
  ASSUME NEW turns \in Seq(Messages), NEW role \in Speakers, NEW blocks \in Seq(Blocks)
  PROVE  /\ Append(turns, Turn(role, blocks)) \in Seq(Messages)
         /\ SignedSoFar(Append(turns, Turn(role, blocks))) = SignedSoFar(turns) \o SignaturesOf(blocks)
<1>1. PICK t \in Messages : t = Turn(role, blocks) /\ t.blocks = blocks
  BY TurnTyped
<1>2. Append(turns, t) \in Seq(Messages)
  BY AppendProperties
<1>3. Spread(SignedIn, Append(turns, t)) = Spread(SignedIn, turns) \o SignedIn[t]
  BY SignedSpread, Spreads
<1>4. SignedIn[t] = SignaturesOf(blocks)
  BY <1>1 DEF SignedIn
<1> QED BY <1>1, <1>2, <1>3, <1>4, SignedSpread

LEMMA SignedJoin ==
  ASSUME NEW turns \in Seq(Messages), NEW role \in Speakers, NEW blocks \in Seq(Blocks)
  PROVE  /\ Join(turns, role, blocks) \in Seq(Messages)
         /\ SignedSoFar(Join(turns, role, blocks)) = SignedSoFar(turns) \o SignaturesOf(blocks)
<1>0. \A x, y, z \in Seq(Signature) : x \o (y \o z) = (x \o y) \o z
  BY Associates
<1>1. CASE Join(turns, role, blocks) = Append(turns, Turn(role, blocks))
  BY <1>1, SignedAppend
<1>2. ASSUME NEW u \in Seq(Messages), NEW bs \in Seq(Blocks), turns = Append(u, Turn(role, bs)),
             Join(turns, role, blocks) = Append(u, Turn(role, bs \o blocks))
      PROVE  SignedSoFar(Join(turns, role, blocks)) = SignedSoFar(turns) \o SignaturesOf(blocks)
  <2>1. PICK all \in Seq(Blocks) : all = bs \o blocks
    BY ConcatProperties
  <2>2. SignedSoFar(Append(u, Turn(role, all))) = SignedSoFar(u) \o SignaturesOf(all)
    BY SignedAppend
  <2>3. SignedSoFar(Append(u, Turn(role, bs))) = SignedSoFar(u) \o SignaturesOf(bs)
    BY SignedAppend
  <2>4. SignaturesOf(all) = SignaturesOf(bs) \o SignaturesOf(blocks)
    BY <2>1, SignaturesConcat
  <2>5. SignedSoFar(u) \in Seq(Signature) /\ SignaturesOf(bs) \in Seq(Signature) /\ SignaturesOf(blocks) \in Seq(Signature)
    BY SignedSpread, SignaturesSpread
  <2>6. SignedSoFar(u) \o (SignaturesOf(bs) \o SignaturesOf(blocks)) = (SignedSoFar(u) \o SignaturesOf(bs)) \o SignaturesOf(blocks)
    BY <1>0, <2>5, Zenon
  <2> QED BY <1>2, <2>1, <2>2, <2>3, <2>4, <2>6
<1>3. Join(turns, role, blocks) \in Seq(Messages)
  BY JoinTyped
<1>4. \/ Join(turns, role, blocks) = Append(turns, Turn(role, blocks))
      \/ \E u \in Seq(Messages), bs \in Seq(Blocks) :
           turns = Append(u, Turn(role, bs)) /\ Join(turns, role, blocks) = Append(u, Turn(role, bs \o blocks))
  BY JoinIs
<1>5. SignedSoFar(Join(turns, role, blocks)) = SignedSoFar(turns) \o SignaturesOf(blocks)
  BY <1>1, <1>2, <1>4
<1> QED BY <1>3, <1>5

-----------------------------------------------------------------------------
(* The elements of a list that are in a set. *)
LEMMA AmongIs ==
  ASSUME NEW S, NEW s \in Seq(S), NEW set
  PROVE  Among(s, set) \in Seq(S) /\ Range(Among(s, set)) = Range(s) \cap set
<1> DEFINE f == [x \in S |-> IF x \in set THEN <<x>> ELSE <<>>]
<1>1. f \in [S -> Seq(S)]
  <2>1. \A x \in S : <<x>> \in Seq(S) /\ <<>> \in Seq(S)
    BY EmptySeq
  <2> QED BY <2>1
<1>2. Among(s, set) = Spread(f, s)
  <2>1. \A i \in 1..Len(s) : f[s[i]] = IF s[i] \in set THEN <<s[i]>> ELSE <<>>
    BY ElementOfSeq
  <2>2. [i \in 1..Len(s) |-> IF s[i] \in set THEN <<s[i]>> ELSE <<>>] = [i \in 1..Len(s) |-> f[s[i]]]
    BY <2>1
  <2> HIDE DEF f
  <2> QED BY <2>2, Zenon DEF Among, Spread
<1>3. \A x \in S : Range(f[x]) = {x} \cap set
  <2> SUFFICES ASSUME NEW x \in S
               PROVE  Range(f[x]) = {x} \cap set
    OBVIOUS
  <2>1. CASE x \in set
    <3>1. f[x] = <<x>>
      BY <2>1
    <3>2. Range(<<x>>) = {x}
      BY DEF Range
    <3> QED BY <2>1, <3>1, <3>2
  <2>2. CASE x \notin set
    <3>1. f[x] = <<>>
      BY <2>2
    <3>2. Range(<<>>) = {}
      BY EmptySeq DEF Range
    <3> QED BY <2>2, <3>1, <3>2
  <2> QED BY <2>1, <2>2
<1> HIDE DEF f
<1>4. \A y : y \in Range(Spread(f, s)) <=> \E i \in 1..Len(s) : y \in Range(f[s[i]])
  BY <1>1, SpreadElements
<1>7. Spread(f, s) \in Seq(S)
  BY <1>1, SpreadTyped
<1>5. Range(s) = {s[i] : i \in 1..Len(s)} /\ \A i \in 1..Len(s) : s[i] \in S
  BY RangeEquality, ElementOfSeq
<1>6. \A y : (\E i \in 1..Len(s) : y \in Range(f[s[i]])) <=> y \in Range(s) \cap set
  BY <1>3, <1>5
<1> QED BY <1>2, <1>4, <1>6, <1>7

LEMMA ElementIn ==
  ASSUME NEW S, NEW s \in Seq(S)
  PROVE  /\ \A i \in 1..Len(s) : s[i] \in Range(s) /\ s[i] \in S
         /\ \A x \in Range(s) : \E i \in 1..Len(s) : x = s[i]
BY RangeEquality, ElementOfSeq

LEMMA PiecesTyped ==
  ASSUME NEW said \in Seq(Words), NEW kinds
  PROVE  /\ Of(said, kinds) \in Seq(Words) /\ Without(said, kinds) \in Seq(Words)
         /\ \A i \in 1..Len(Without(said, kinds)) :
              \E j \in 1..Len(said) : Without(said, kinds)[i] = said[j] /\ said[j].k \notin kinds
<1> DEFINE some  == {p \in Range(said) : p.k \in kinds}
           other == {p \in Range(said) : p.k \notin kinds}
<1>1. Of(said, kinds) = Among(said, some) /\ Without(said, kinds) = Among(said, other)
  BY DEF Of, Without
<1>2. \A p \in other : \E j \in 1..Len(said) : p = said[j] /\ said[j].k \notin kinds
  BY ElementIn
<1> HIDE DEF some, other
<1>3. Among(said, some) \in Seq(Words) /\ Among(said, other) \in Seq(Words) /\ Range(Among(said, other)) \subseteq other
  BY AmongIs
<1>4. \A i \in 1..Len(Among(said, other)) : Among(said, other)[i] \in other
  BY <1>3, ElementIn
<1> QED BY <1>1, <1>2, <1>3, <1>4

-----------------------------------------------------------------------------
(***************************************************************************)
(* A request is built item by item: the encoders' states, for each number  *)
(* of items, exist and are the ones the recursive definitions choose.      *)
(***************************************************************************)
EncodeStart(p) ==
  CASE p = "chatcompletions" -> ChatStart [] p = "anthropic" -> ClaudeStart [] OTHER -> GeminiStart
EncodeStep(p, m, it, calls) ==
  CASE p = "chatcompletions" -> ChatStep(m, it) [] p = "anthropic" -> ClaudeStep(m, it) [] OTHER -> GeminiStep(m, it, calls)
Encodes(p, items, calls, n, s) ==
  s = [k \in 0..n |-> IF k = 0 THEN EncodeStart(p) ELSE EncodeStep(p, s[k - 1], items[k], calls)]

LEMMA EncodesExists ==
  ASSUME NEW p, NEW items, NEW calls
  PROVE  \A n \in Nat : \E s : Encodes(p, items, calls, n, s)
<1> DEFINE Good == {n \in Nat : \E s : Encodes(p, items, calls, n, s)}
<1>1. 0 \in Good
  <2> DEFINE s == [k \in 0..0 |-> EncodeStart(p)]
  <2>1. s = [k \in 0..0 |-> IF k = 0 THEN EncodeStart(p) ELSE EncodeStep(p, s[k - 1], items[k], calls)]
    OBVIOUS
  <2> QED BY <2>1 DEF Encodes
<1>2. ASSUME NEW n \in Nat, n \in Good
      PROVE  n + 1 \in Good
  <2>1. PICK s : Encodes(p, items, calls, n, s)
    BY <1>2
  <2> DEFINE t == [k \in 0..n + 1 |-> IF k = 0 THEN EncodeStart(p) ELSE EncodeStep(p, s[k - 1], items[k], calls)]
  <2>2. \A k \in 0..n : s[k] = IF k = 0 THEN EncodeStart(p) ELSE EncodeStep(p, s[k - 1], items[k], calls)
    BY <2>1 DEF Encodes
  <2>3. \A k \in 0..n + 1 : k # 0 => k - 1 \in 0..n
    OBVIOUS
  <2>4. \A k \in 0..n : t[k] = s[k]
    BY <2>2
  <2>5. \A k \in 0..n + 1 : t[k] = IF k = 0 THEN EncodeStart(p) ELSE EncodeStep(p, t[k - 1], items[k], calls)
    BY <2>3, <2>4
  <2>6. t = [k \in 0..n + 1 |-> t[k]]
    OBVIOUS
  <2> HIDE DEF t
  <2>7. Encodes(p, items, calls, n + 1, t)
    BY <2>5, <2>6 DEF Encodes
  <2> QED BY <2>7
<1> HIDE DEF Good
<1>3. \A n \in Nat : n \in Good
  BY <1>1, <1>2, NaturalSteps
<1> QED BY <1>3 DEF Good

(* The states of an encoder that has read the items, one after the other. *)
Run(p, items, calls, s) ==
  /\ s[0] = EncodeStart(p)
  /\ \A k \in 0..Len(items) - 1 : s[k + 1] = EncodeStep(p, s[k], items[k + 1], calls)

LEMMA RunOfEncodes ==
  ASSUME NEW p, NEW items, Len(items) \in Nat, NEW calls, NEW s, Encodes(p, items, calls, Len(items), s)
  PROVE  Run(p, items, calls, s)
<1>1. \A k \in 0..Len(items) : s[k] = IF k = 0 THEN EncodeStart(p) ELSE EncodeStep(p, s[k - 1], items[k], calls)
  BY DEF Encodes
<1>2. ASSUME NEW k \in 0..Len(items) - 1
      PROVE  s[k + 1] = EncodeStep(p, s[k], items[k + 1], calls)
  <2>1. k + 1 \in 0..Len(items) /\ k + 1 # 0 /\ (k + 1) - 1 = k
    OBVIOUS
  <2> QED BY <1>1, <2>1, Zenon
<1> QED BY <1>1, <1>2 DEF Run

LEMMA ChatRun ==
  ASSUME NEW items, Len(items) \in Nat
  PROVE  \E s : /\ Run("chatcompletions", items, {}, s)
                /\ ChatInput(items) = IF s[Len(items)].err THEN s[Len(items)] ELSE FlushMedia(s[Len(items)], CompactionItem)
<1> DEFINE Steps(s) == s = [n \in 0..Len(items) |-> IF n = 0 THEN ChatStart ELSE ChatStep(s[n - 1], items[n])]
           m == CHOOSE s : Steps(s)
<1>1. \A s : Steps(s) <=> Encodes("chatcompletions", items, {}, Len(items), s)
  BY DEF Encodes, EncodeStart, EncodeStep
<1>2. \E s : Encodes("chatcompletions", items, {}, Len(items), s)
  BY EncodesExists
<1>3. ChatInput(items) = IF m[Len(items)].err THEN m[Len(items)] ELSE FlushMedia(m[Len(items)], CompactionItem)
  BY DEF ChatInput
<1> HIDE DEF Steps
<1>4. Steps(m)
  BY <1>1, <1>2
<1> HIDE DEF m
<1>5. Run("chatcompletions", items, {}, m)
  BY <1>1, <1>4, RunOfEncodes
<1> QED BY <1>3, <1>5

LEMMA ClaudeRun ==
  ASSUME NEW items, Len(items) \in Nat
  PROVE  \E s : /\ Run("anthropic", items, {}, s)
                /\ AnthropicInput(items) = [s[Len(items)] EXCEPT !.turns = ResultsFirst(@)]
<1> DEFINE Steps(s) == s = [n \in 0..Len(items) |-> IF n = 0 THEN ClaudeStart ELSE ClaudeStep(s[n - 1], items[n])]
           m == CHOOSE s : Steps(s)
<1>1. \A s : Steps(s) <=> Encodes("anthropic", items, {}, Len(items), s)
  BY DEF Encodes, EncodeStart, EncodeStep
<1>2. \E s : Encodes("anthropic", items, {}, Len(items), s)
  BY EncodesExists
<1>3. AnthropicInput(items) = [m[Len(items)] EXCEPT !.turns = ResultsFirst(@)]
  BY DEF AnthropicInput
<1> HIDE DEF Steps
<1>4. Steps(m)
  BY <1>1, <1>2
<1> HIDE DEF m
<1>5. Run("anthropic", items, {}, m)
  BY <1>1, <1>4, RunOfEncodes
<1> QED BY <1>3, <1>5

LEMMA GeminiRun ==
  ASSUME NEW items, Len(items) \in Nat
  PROVE  \E s : /\ Run("gemini", items, CallsIn(items), s)
                /\ GeminiInput(items) = FlushSignature(s[Len(items)])
<1> DEFINE Steps(s) == s = [n \in 0..Len(items) |-> IF n = 0 THEN GeminiStart ELSE GeminiStep(s[n - 1], items[n], CallsIn(items))]
           m == CHOOSE s : Steps(s)
<1>1. \A s : Steps(s) <=> Encodes("gemini", items, CallsIn(items), Len(items), s)
  BY DEF Encodes, EncodeStart, EncodeStep
<1>2. \E s : Encodes("gemini", items, CallsIn(items), Len(items), s)
  BY EncodesExists
<1>3. GeminiInput(items) = FlushSignature(m[Len(items)])
  BY DEF GeminiInput
<1> HIDE DEF Steps
<1>4. Steps(m)
  BY <1>1, <1>2
<1> HIDE DEF m
<1>5. Run("gemini", items, CallsIn(items), m)
  BY <1>1, <1>4, RunOfEncodes
<1> QED BY <1>3, <1>5

-----------------------------------------------------------------------------
(***************************************************************************)
(* The items of a conversation: a signature is one that a provider gave,   *)
(* and no placeholder.                                                     *)
(***************************************************************************)
Tagged(sig) == sig = <<>> \/ \E n \in Nat \ {0} : sig = <<n>>
Entry(it) ==
  /\ it.type \in ItemTypes /\ it.role \in Roles
  /\ it.id \in Nat /\ it.said \in Seq(Words)
  /\ Tagged(it.sig)
Conversation(items) == \E T : items \in Seq(T) /\ \A it \in T : Entry(it)

LEMMA ItemsOf ==
  ASSUME NEW items, Conversation(items)
  PROVE  Len(items) \in Nat /\ \A i \in 1..Len(items) : Entry(items[i])
<1>1. PICK T : items \in Seq(T) /\ \A it \in T : Entry(it)
  BY DEF Conversation
<1> QED BY <1>1, LenProperties, ElementOfSeq

LEMMA EntryFields ==
  ASSUME NEW it, Entry(it)
  PROVE  it.id \in Nat /\ it.said \in Seq(Words) /\ it.role \in Speakers /\ it.role \in Roles /\ it.type \in ItemTypes
BY DEF Entry, Speakers

LEMMA OwnSignature ==
  ASSUME NEW it, Entry(it), it.sig # <<>>
  PROVE  it.sig \in Signature /\ Shown(it.sig) = <<it.sig>> /\ <<it.sig>> \in Seq(Signature)
<1>1. PICK n \in Nat \ {0} : it.sig = <<n>>
  BY DEF Entry, Tagged
<1>2. PICK sig : sig = it.sig
  OBVIOUS
<1>3. sig \in Seq(Nat) /\ sig # <<>> /\ sig # Placeholder
  BY <1>1, <1>2 DEF Placeholder
<1>4. Shown(sig) = <<sig>> /\ <<sig>> \in Seq(Signature) /\ sig \in Signature
  BY <1>3 DEF Shown, OwnFiller, Signature
<1> QED BY <1>2, <1>4

LEMMA TextTyped ==
  ASSUME NEW it, Entry(it), NEW first, NEW second
  PROVE  TextOf(it, first, second) \in Seq(Words)
<1>1. \A kinds : Of(it.said, kinds) \in Seq(Words)
  BY EntryFields, PiecesTyped
<1> QED BY <1>1 DEF TextOf

LEMMA NoSignature == <<>> \in Signature
BY EmptySeq DEF Signature

LEMMA NothingUnsigned == Unsigned(<<>>)
BY EmptySeq DEF Unsigned

LEMMA BlockUnsigned ==
  ASSUME NEW k \in BlockKinds, NEW id \in Nat, NEW said \in Seq(Words)
  PROVE  Unsigned(<<Block(k, id, said, <<>>)>>)
<1>1. PICK b \in Blocks : b = Block(k, id, said, <<>>) /\ b.sig = <<>>
  BY BlockTyped, NoSignature DEF Block
<1>2. <<b>> \in Seq(Blocks) /\ Len(<<b>>) = 1 /\ <<b>>[1] = b
  OBVIOUS
<1>3. Unsigned(<<b>>)
  BY <1>1, <1>2 DEF Unsigned
<1> QED BY <1>1, <1>3

LEMMA UnsignedConcat ==
  ASSUME NEW a, NEW b, Unsigned(a), Unsigned(b)
  PROVE  Unsigned(a \o b)
<1> a \in Seq(Blocks) /\ b \in Seq(Blocks)
  BY DEF Unsigned
<1>1. /\ a \o b \in Seq(Blocks) /\ Len(a) \in Nat /\ Len(b) \in Nat /\ Len(a \o b) = Len(a) + Len(b)
      /\ \A i \in 1..Len(a) + Len(b) : (a \o b)[i] = IF i <= Len(a) THEN a[i] ELSE b[i - Len(a)]
  BY ConcatProperties, LenProperties
<1>2. \A i \in 1..Len(a) + Len(b) : (a \o b)[i].sig = <<>>
  <2> SUFFICES ASSUME NEW i \in 1..Len(a) + Len(b)
               PROVE  (a \o b)[i].sig = <<>>
    OBVIOUS
  <2>1. CASE i <= Len(a)
    BY <1>1, <2>1 DEF Unsigned
  <2>2. CASE ~(i <= Len(a))
    <3>1. i - Len(a) \in 1..Len(b)
      BY <1>1, <2>2
    <3> QED BY <1>1, <2>2, <3>1 DEF Unsigned
  <2> QED BY <2>1, <2>2
<1> QED BY <1>1, <1>2 DEF Unsigned

(* Pieces that are blocks of their own. *)
LEMMA PiecesUnsigned ==
  ASSUME NEW said \in Seq(Words), NEW bs, bs = [i \in 1..Len(said) |-> bs[i]], NEW id \in Nat,
         \A i \in 1..Len(said) : \E k \in BlockKinds : bs[i] = Block(k, id, <<said[i]>>, <<>>)
  PROVE  Unsigned(bs)
<1>1. Len(said) \in Nat /\ \A i \in 1..Len(said) : said[i] \in Words
  BY LenProperties, ElementOfSeq
<1>2. ASSUME NEW i \in 1..Len(said)
      PROVE  bs[i] \in Blocks /\ bs[i].sig = <<>>
  <2>1. PICK k \in BlockKinds : bs[i] = Block(k, id, <<said[i]>>, <<>>)
    OBVIOUS
  <2>2. PICK p \in Words : p = said[i]
    BY <1>1
  <2>3. <<p>> \in Seq(Words)
    OBVIOUS
  <2>4. Block(k, id, <<p>>, <<>>) \in Blocks
    BY <2>3, BlockTyped, NoSignature
  <2> QED BY <2>1, <2>2, <2>4 DEF Block
<1>3. bs \in Seq(Blocks)
  <2>1. [i \in 1..Len(said) |-> bs[i]] \in Seq(Blocks)
    BY <1>1, <1>2, IsASeq
  <2> QED BY <2>1
<1>4. Len(bs) = Len(said)
  BY <1>1
<1> QED BY <1>2, <1>3, <1>4 DEF Unsigned

LEMMA WordKind ==
  ASSUME NEW p \in Words
  PROVE  p.k \in WordKinds /\ p.k \in BlockKinds
BY DEF Words, BlockKinds

LEMMA BlocksOfPieces ==
  ASSUME NEW said \in Seq(Words)
  PROVE  Unsigned(BlocksOf(said)) /\ Len(BlocksOf(said)) = Len(said)
<1>1. Len(said) \in Nat /\ \A i \in 1..Len(said) : said[i] \in Words
  BY LenProperties, ElementOfSeq
<1>2. Len(BlocksOf(said)) = Len(said) /\ BlocksOf(said) = [i \in 1..Len(said) |-> BlocksOf(said)[i]]
  BY <1>1 DEF BlocksOf
<1>3. \A i \in 1..Len(said) : BlocksOf(said)[i] = Block(IF said[i].k \in {"text", "refusal"} THEN "text" ELSE said[i].k, 0, <<said[i]>>, <<>>)
  BY DEF BlocksOf, BlockOf
<1>4. \A i \in 1..Len(said) : (IF said[i].k \in {"text", "refusal"} THEN "text" ELSE said[i].k) \in BlockKinds
  BY <1>1, WordKind DEF BlockKinds
<1>5. PICK bs : bs = BlocksOf(said)
  OBVIOUS
<1>6. 0 \in Nat /\ bs = [i \in 1..Len(said) |-> bs[i]]
  BY <1>2, <1>5
<1>7. \A i \in 1..Len(said) : \E k \in BlockKinds : bs[i] = Block(k, 0, <<said[i]>>, <<>>)
  BY <1>3, <1>4, <1>5
<1>8. Unsigned(bs)
  BY <1>6, <1>7, PiecesUnsigned
<1> QED BY <1>2, <1>5, <1>8

-----------------------------------------------------------------------------
(***************************************************************************)
(* Chat Completions: no message carries a signature.                       *)
(***************************************************************************)
ChatState(t, d, e) == [turns |-> t, media |-> d, err |-> e]
Quiet(turns) == turns \in Seq(Messages) /\ SignedSoFar(turns) = <<>>
ChatGood(m) == \E t, d, e : m = ChatState(t, d, e) /\ Quiet(t) /\ Unsigned(d)

LEMMA ChatChanged ==
  ASSUME NEW t, NEW d, NEW e, NEW m, m = ChatState(t, d, e)
  PROVE  /\ m.turns = t /\ m.media = d /\ m.err = e
         /\ \A x : [m EXCEPT !.turns = x] = ChatState(x, d, e)
         /\ \A x : [m EXCEPT !.err = x] = ChatState(t, d, x)
         /\ \A x : [m EXCEPT !.media = x] = ChatState(t, x, e)
<1>1. m.turns = t /\ m.media = d /\ m.err = e
  BY DEF ChatState
<1>2. \A x : [m EXCEPT !.turns = x] = ChatState(x, d, e)
  BY DEF ChatState
<1>3. \A x : [m EXCEPT !.err = x] = ChatState(t, d, x)
  BY DEF ChatState
<1>4. \A x : [m EXCEPT !.media = x] = ChatState(t, x, e)
  BY DEF ChatState
<1> QED BY <1>1, <1>2, <1>3, <1>4

LEMMA QuietGrows ==
  ASSUME NEW t, Quiet(t), NEW role \in Speakers, NEW bs, Unsigned(bs)
  PROVE  Quiet(Append(t, Turn(role, bs))) /\ Quiet(Join(t, role, bs))
<1> t \in Seq(Messages) /\ bs \in Seq(Blocks)
  BY DEF Quiet, Unsigned
<1>1. SignedSoFar(t) = <<>> /\ SignaturesOf(bs) = <<>>
  BY SignaturesNone DEF Quiet
<1>2. <<>> \o <<>> = <<>>
  OBVIOUS
<1>3. Quiet(Append(t, Turn(role, bs)))
  BY <1>1, <1>2, SignedAppend DEF Quiet
<1>4. Quiet(Join(t, role, bs))
  BY <1>1, <1>2, SignedJoin DEF Quiet
<1> QED BY <1>3, <1>4

LEMMA ChatSaid ==
  ASSUME NEW m, ChatGood(m), NEW role \in Speakers, NEW bs, Unsigned(bs)
  PROVE  /\ ChatGood([m EXCEPT !.turns = Append(@, Turn(role, bs))])
         /\ ChatGood([m EXCEPT !.turns = Join(@, role, bs)])
         /\ \A e : ChatGood([m EXCEPT !.err = e])
<1>1. PICK t, d, e : m = ChatState(t, d, e) /\ Quiet(t) /\ Unsigned(d)
  BY DEF ChatGood
<1>2. Quiet(Append(t, Turn(role, bs))) /\ Quiet(Join(t, role, bs))
  BY <1>1, QuietGrows
<1>3. [m EXCEPT !.turns = Append(@, Turn(role, bs))] = ChatState(Append(t, Turn(role, bs)), d, e)
  <2>1. PICK u : u = Append(t, Turn(role, bs))
    OBVIOUS
  <2>2. m.turns = t /\ [m EXCEPT !.turns = u] = ChatState(u, d, e)
    BY <1>1, ChatChanged
  <2> QED BY <2>1, <2>2
<1>4. [m EXCEPT !.turns = Join(@, role, bs)] = ChatState(Join(t, role, bs), d, e)
  BY <1>1, ChatChanged
<1>5. \A x : [m EXCEPT !.err = x] = ChatState(t, d, x)
  BY <1>1, ChatChanged
<1> QED BY <1>1, <1>2, <1>3, <1>4, <1>5 DEF ChatGood

LEMMA ChatFlushed ==
  ASSUME NEW m, ChatGood(m), NEW it
  PROVE  ChatGood(FlushMedia(m, it))
<1>1. PICK t, d, e : m = ChatState(t, d, e) /\ Quiet(t) /\ Unsigned(d)
  BY DEF ChatGood
<1>2. PICK u : u = Append(t, Turn("user", d)) /\ Quiet(u)
  BY <1>1, QuietGrows, Speak
<1>3. m.turns = t /\ m.media = d /\ [m EXCEPT !.turns = u] = ChatState(u, d, e)
  BY <1>1, ChatChanged
<1>4. \A x : [ChatState(u, d, e) EXCEPT !.media = x] = ChatState(u, x, e)
  BY ChatChanged
<1>5. [m EXCEPT !.turns = Append(@, Turn("user", m.media)), !.media = <<>>] = ChatState(u, <<>>, e)
  <2>1. [m EXCEPT !.turns = Append(@, Turn("user", m.media)), !.media = <<>>] = [[m EXCEPT !.turns = u] EXCEPT !.media = <<>>]
    BY <1>2, <1>3
  <2> QED BY <1>3, <1>4, <2>1
<1>6. ChatGood([m EXCEPT !.turns = Append(@, Turn("user", m.media)), !.media = <<>>])
  BY <1>2, <1>5, NothingUnsigned DEF ChatGood
<1> QED BY <1>6 DEF FlushMedia

(* The parts of a message, and the media of a function output. *)
ChatParts(it) ==
  [i \in 1..Len(ChatReadable(it.said)) |-> Block(ChatReadable(it.said)[i].k, 0, <<ChatReadable(it.said)[i]>>, <<>>)]
ChatMedia(it) ==
  [i \in 1..Len(Of(it.said, {"media"})) |-> Block("media", it.id, <<Of(it.said, {"media"})[i]>>, <<>>)]

LEMMA EachUnsigned ==
  ASSUME NEW said \in Seq(Words), NEW id \in Nat
  PROVE  /\ Unsigned([i \in 1..Len(said) |-> Block(said[i].k, id, <<said[i]>>, <<>>)])
         /\ \A k \in BlockKinds : Unsigned([i \in 1..Len(said) |-> Block(k, id, <<said[i]>>, <<>>)])
<1>1. Len(said) \in Nat /\ \A i \in 1..Len(said) : said[i] \in Words /\ said[i].k \in BlockKinds
  BY LenProperties, ElementOfSeq, WordKind
<1>2. Unsigned([i \in 1..Len(said) |-> Block(said[i].k, id, <<said[i]>>, <<>>)])
  <2> DEFINE bs == [i \in 1..Len(said) |-> Block(said[i].k, id, <<said[i]>>, <<>>)]
  <2>1. bs = [i \in 1..Len(said) |-> bs[i]] /\ \A i \in 1..Len(said) : bs[i] = Block(said[i].k, id, <<said[i]>>, <<>>)
    OBVIOUS
  <2> HIDE DEF bs
  <2>2. Unsigned(bs)
    BY <1>1, <2>1, PiecesUnsigned
  <2> QED BY <2>2 DEF bs
<1>3. ASSUME NEW k \in BlockKinds
      PROVE  Unsigned([i \in 1..Len(said) |-> Block(k, id, <<said[i]>>, <<>>)])
  <2> DEFINE bs == [i \in 1..Len(said) |-> Block(k, id, <<said[i]>>, <<>>)]
  <2>1. bs = [i \in 1..Len(said) |-> bs[i]] /\ \A i \in 1..Len(said) : bs[i] = Block(k, id, <<said[i]>>, <<>>)
    OBVIOUS
  <2> HIDE DEF bs
  <2>2. Unsigned(bs)
    BY <2>1, PiecesUnsigned
  <2> QED BY <2>2 DEF bs
<1> QED BY <1>2, <1>3

LEMMA ChatUnsigned ==
  ASSUME NEW it, Entry(it)
  PROVE  Unsigned(ChatParts(it)) /\ Unsigned(ChatMedia(it))
<1>1. it.said \in Seq(Words) /\ it.id \in Nat /\ "media" \in BlockKinds
  BY EntryFields DEF BlockKinds
<1>2. PICK parts \in Seq(Words) : parts = ChatReadable(it.said)
  BY <1>1, PiecesTyped DEF ChatReadable
<1>3. PICK media \in Seq(Words) : media = Of(it.said, {"media"})
  BY <1>1, PiecesTyped
<1>4. Unsigned(ChatParts(it))
  BY <1>2, EachUnsigned DEF ChatParts
<1>5. Unsigned(ChatMedia(it))
  BY <1>1, <1>3, EachUnsigned DEF ChatMedia
<1> QED BY <1>4, <1>5

LEMMA ChatAnswered ==
  ASSUME NEW m, ChatGood(m), NEW it, Entry(it)
  PROVE  ChatGood(ChatAnswers(m, it))
<1>1. PICK t, d, e : m = ChatState(t, d, e) /\ Quiet(t) /\ Unsigned(d)
  BY DEF ChatGood
<1>2. PICK bs : bs = <<Block("tool_result", it.id, Of(it.said, {"text"}), <<>>)>> /\ Unsigned(bs)
  <2>1. it.id \in Nat /\ Of(it.said, {"text"}) \in Seq(Words) /\ "tool_result" \in BlockKinds
    BY EntryFields, PiecesTyped DEF BlockKinds
  <2> QED BY <2>1, BlockUnsigned
<1>3. PICK u : u = Append(t, Turn("tool", bs)) /\ Quiet(u)
  BY <1>1, <1>2, QuietGrows, Speak
<1>4. PICK more : more = ChatMedia(it) /\ Unsigned(d \o more)
  BY <1>1, ChatUnsigned, UnsignedConcat
<1>5. m.turns = t /\ m.media = d /\ [m EXCEPT !.turns = u] = ChatState(u, d, e)
  BY <1>1, ChatChanged
<1>6. \A x : [ChatState(u, d, e) EXCEPT !.media = x] = ChatState(u, x, e)
  BY ChatChanged
<1>7. ChatAnswers(m, it) = [m EXCEPT !.turns = Append(@, Turn("tool", bs)), !.media = @ \o more]
  BY <1>2, <1>4 DEF ChatAnswers, ChatMedia
<1>8. ChatAnswers(m, it) = [[m EXCEPT !.turns = u] EXCEPT !.media = d \o more]
  BY <1>3, <1>5, <1>7
<1>9. ChatAnswers(m, it) = ChatState(u, d \o more, e)
  BY <1>5, <1>6, <1>8
<1> QED BY <1>3, <1>4, <1>9 DEF ChatGood

LEMMA ChatEncoded ==
  ASSUME NEW m, ChatGood(m), NEW it, Entry(it)
  PROVE  ChatGood(ChatEncode(m, it))
<1>1. it.role \in Speakers /\ it.said \in Seq(Words) /\ it.id \in Nat /\ "assistant" \in Speakers
  BY EntryFields, Speak
<1>2. Unsigned(ChatParts(it))
  BY ChatUnsigned
<1>3. /\ Unsigned(<<Block("tool_use", it.id, it.said, <<>>)>>)
      /\ Unsigned(<<Block("reasoning", 0, TextOf(it, "reasoning_text", "summary"), <<>>)>>)
  <2>1. "tool_use" \in BlockKinds /\ "reasoning" \in BlockKinds /\ TextOf(it, "reasoning_text", "summary") \in Seq(Words)
    BY TextTyped DEF BlockKinds
  <2> QED BY <1>1, <2>1, BlockUnsigned
<1>4. \A role \in Speakers : \A bs : Unsigned(bs) =>
        ChatGood([m EXCEPT !.turns = Append(@, Turn(role, bs))]) /\ ChatGood(ChatAssistant(m, bs))
  BY <1>1, ChatSaid DEF ChatAssistant
<1>5. ChatGood([m EXCEPT !.err = TRUE])
  BY <1>1, <1>2, ChatSaid
<1>6. CASE it.type = "message" /\ it.role = "assistant"
  <2>1. ChatEncode(m, it) = IF ChatSupported(it, "assistant") THEN ChatAssistant(m, ChatParts(it)) ELSE [m EXCEPT !.err = TRUE]
    BY <1>6 DEF ChatEncode, ChatParts
  <2> QED BY <1>1, <1>2, <1>4, <1>5, <2>1
<1>7. CASE it.type = "message" /\ it.role # "assistant"
  <2>1. ChatEncode(m, it) = IF ChatSupported(it, it.role) THEN [m EXCEPT !.turns = Append(@, Turn(it.role, ChatParts(it)))]
                            ELSE [m EXCEPT !.err = TRUE]
    BY <1>7 DEF ChatEncode, ChatParts
  <2> QED BY <1>1, <1>2, <1>4, <1>5, <2>1
<1>8. CASE it.type = "function_call"
  <2>1. ChatEncode(m, it) = ChatAssistant(m, <<Block("tool_use", it.id, it.said, <<>>)>>)
    BY <1>8 DEF ChatEncode
  <2> QED BY <1>1, <1>3, <1>4, <2>1
<1>9. CASE it.type = "function_call_output"
  <2>1. ChatEncode(m, it) = IF ChatSupported(it, "output") THEN ChatAnswers(m, it) ELSE [m EXCEPT !.err = TRUE]
    BY <1>9 DEF ChatEncode
  <2> QED BY <1>5, <2>1, ChatAnswered
<1>10. CASE it.type = "reasoning"
  <2>1. ChatEncode(m, it) = ChatAssistant(m, <<Block("reasoning", 0, TextOf(it, "reasoning_text", "summary"), <<>>)>>)
    BY <1>10 DEF ChatEncode
  <2> QED BY <1>1, <1>3, <1>4, <2>1
<1>11. CASE it.type \notin {"message", "function_call", "function_call_output", "reasoning"}
  <2>1. ChatEncode(m, it) = [m EXCEPT !.err = TRUE]
    BY <1>11 DEF ChatEncode
  <2> QED BY <1>5, <2>1
<1> QED BY <1>6, <1>7, <1>8, <1>9, <1>10, <1>11

(* Whatever the conversation holds, no signature reaches Chat Completions  *)
(* (request.go: reasoning is sent as text).                                *)
THEOREM ChatSendsNone ==
  ASSUME NEW items, Conversation(items)
  PROVE  Quiet(ChatInput(items).turns)
<1>1. Len(items) \in Nat /\ \A i \in 1..Len(items) : Entry(items[i])
  BY ItemsOf
<1>2. PICK s : /\ Run("chatcompletions", items, {}, s)
               /\ ChatInput(items) = IF s[Len(items)].err THEN s[Len(items)] ELSE FlushMedia(s[Len(items)], CompactionItem)
  BY <1>1, ChatRun
<1> DEFINE S == {k \in Nat : k <= Len(items) => ChatGood(s[k])}
<1>3. 0 \in S
  <2>1. s[0] = ChatState(<<>>, <<>>, FALSE)
    BY <1>2 DEF Run, EncodeStart, ChatStart, ChatState
  <2> QED BY <2>1, SignedEmpty, NothingUnsigned DEF ChatGood, Quiet
<1>4. ASSUME NEW k \in Nat, k \in S
      PROVE  k + 1 \in S
  <2> SUFFICES ASSUME k + 1 <= Len(items)
               PROVE  ChatGood(s[k + 1])
    OBVIOUS
  <2>1. ChatGood(s[k]) /\ k \in 0..Len(items) - 1 /\ k + 1 \in 1..Len(items)
    BY <1>1, <1>4
  <2>2. s[k + 1] = ChatStep(s[k], items[k + 1]) /\ Entry(items[k + 1])
    BY <1>1, <1>2, <2>1 DEF Run, EncodeStep
  <2>3. ChatGood(ChatEncode(FlushMedia(s[k], items[k + 1]), items[k + 1]))
    BY <2>1, <2>2, ChatFlushed, ChatEncoded
  <2> QED BY <2>1, <2>2, <2>3 DEF ChatStep
<1> HIDE DEF S
<1>5. \A k \in Nat : k \in S
  BY <1>3, <1>4, NaturalSteps
<1>6. ChatGood(s[Len(items)])
  BY <1>1, <1>5 DEF S
<1>7. ChatGood(ChatInput(items))
  BY <1>2, <1>6, ChatFlushed
<1>8. \A m : ChatGood(m) => Quiet(m.turns)
  BY ChatChanged DEF ChatGood
<1> QED BY <1>7, <1>8

-----------------------------------------------------------------------------
(* The first items of a conversation. *)
Prefix(items, k) == [i \in 1..k |-> items[i]]

LEMMA PrefixGrows ==
  ASSUME NEW T, NEW items \in Seq(T)
  PROVE  /\ Prefix(items, 0) = <<>> /\ Prefix(items, Len(items)) = items
         /\ \A k \in 0..Len(items) - 1 :
              Prefix(items, k) \in Seq(T) /\ Prefix(items, k + 1) = Append(Prefix(items, k), items[k + 1])
<1>1. Len(items) \in Nat /\ items = [i \in 1..Len(items) |-> items[i]] /\ \A i \in 1..Len(items) : items[i] \in T
  BY LenProperties, ElementOfSeq
<1>2. Prefix(items, 0) = <<>>
  BY DEF Prefix
<1>3. ASSUME NEW k \in 0..Len(items) - 1
      PROVE  Prefix(items, k) \in Seq(T) /\ Prefix(items, k + 1) = Append(Prefix(items, k), items[k + 1])
  <2>1. k \in Nat /\ k + 1 \in 1..Len(items) /\ \A i \in 1..k : items[i] \in T
    BY <1>1
  <2>2. [i \in 1..k |-> items[i]] \in Seq(T)
    BY <2>1, IsASeq
  <2>3. PICK s \in Seq(T) : s = [i \in 1..k |-> items[i]]
    BY <2>2
  <2>4. Append(s, items[k + 1]) = [i \in 1..k + 1 |-> items[i]]
    BY <2>1, <2>3
  <2>5. Prefix(items, k) = s /\ Prefix(items, k + 1) = [i \in 1..k + 1 |-> items[i]]
    BY <2>3 DEF Prefix
  <2> QED BY <2>3, <2>4, <2>5
<1>4. Prefix(items, Len(items)) = items
  BY <1>1 DEF Prefix
<1> QED BY <1>2, <1>3, <1>4

(***************************************************************************)
(* Anthropic: Claude's own thinking goes back with its signature.          *)
(***************************************************************************)
ClaudeState(t, s, l, e) == [turns |-> t, system |-> s, leading |-> l, err |-> e]
ClaudeSigned(it) == IF it.type = "reasoning" /\ Replayable(it) THEN <<it.sig>> ELSE <<>>
UserUnsigned(turns) == \A i \in 1..Len(turns) : turns[i].role = "user" => Unsigned(turns[i].blocks)
ClaudeSound(m) == \E t, s, l, e : m = ClaudeState(t, s, l, e) /\ t \in Seq(Messages) /\ UserUnsigned(t)
ClaudeSays(m, n, more) == ClaudeSound(n) /\ (n.err \/ SignedSoFar(n.turns) = SignedSoFar(m.turns) \o more)

LEMMA ClaudeChanged ==
  ASSUME NEW t, NEW s, NEW l, NEW e, NEW m, m = ClaudeState(t, s, l, e)
  PROVE  /\ m.turns = t /\ m.system = s /\ m.leading = l /\ m.err = e
         /\ \A x : [m EXCEPT !.turns = x] = ClaudeState(x, s, l, e)
         /\ \A x : [m EXCEPT !.system = x] = ClaudeState(t, x, l, e)
         /\ \A x : [m EXCEPT !.leading = x] = ClaudeState(t, s, x, e)
         /\ \A x : [m EXCEPT !.err = x] = ClaudeState(t, s, l, x)
<1>1. m.turns = t /\ m.system = s /\ m.leading = l /\ m.err = e
  BY DEF ClaudeState
<1>2. \A x : [m EXCEPT !.turns = x] = ClaudeState(x, s, l, e)
  BY DEF ClaudeState
<1>3. \A x : [m EXCEPT !.system = x] = ClaudeState(t, x, l, e)
  BY DEF ClaudeState
<1>4. \A x : [m EXCEPT !.leading = x] = ClaudeState(t, s, x, e)
  BY DEF ClaudeState
<1>5. \A x : [m EXCEPT !.err = x] = ClaudeState(t, s, l, x)
  BY DEF ClaudeState
<1> QED BY <1>1, <1>2, <1>3, <1>4, <1>5

LEMMA UserAppend ==
  ASSUME NEW t \in Seq(Messages), NEW role \in Speakers, NEW bs \in Seq(Blocks)
  PROVE  UserUnsigned(Append(t, Turn(role, bs))) <=> UserUnsigned(t) /\ (role = "user" => Unsigned(bs))
<1>1. PICK x \in Messages : x = Turn(role, bs) /\ x.role = role /\ x.blocks = bs
  BY TurnTyped
<1>2. /\ Len(t) \in Nat /\ Len(Append(t, x)) = Len(t) + 1 /\ Append(t, x)[Len(t) + 1] = x
      /\ \A i \in 1..Len(t) : Append(t, x)[i] = t[i]
  BY LenProperties, AppendProperties
<1>3. \A i : i \in 1..Len(t) + 1 <=> (i \in 1..Len(t) \/ i = Len(t) + 1)
  BY <1>2
<1> QED BY <1>1, <1>2, <1>3 DEF UserUnsigned

LEMMA UserJoin ==
  ASSUME NEW t \in Seq(Messages), UserUnsigned(t), NEW role \in Speakers, NEW bs \in Seq(Blocks), role = "user" => Unsigned(bs)
  PROVE  UserUnsigned(Join(t, role, bs))
<1>1. CASE Join(t, role, bs) = Append(t, Turn(role, bs))
  BY <1>1, UserAppend
<1>2. CASE \E u \in Seq(Messages), cs \in Seq(Blocks) :
             t = Append(u, Turn(role, cs)) /\ Join(t, role, bs) = Append(u, Turn(role, cs \o bs))
  <2>1. PICK u \in Seq(Messages), cs \in Seq(Blocks) :
          t = Append(u, Turn(role, cs)) /\ Join(t, role, bs) = Append(u, Turn(role, cs \o bs))
    BY <1>2
  <2>2. UserUnsigned(u) /\ (role = "user" => Unsigned(cs))
    BY <2>1, UserAppend
  <2>3. PICK ds \in Seq(Blocks) : ds = cs \o bs /\ (role = "user" => Unsigned(ds))
    BY <2>2, UnsignedConcat, ConcatProperties
  <2>4. UserUnsigned(Append(u, Turn(role, ds)))
    BY <2>2, <2>3, UserAppend
  <2> QED BY <2>1, <2>3, <2>4
<1> QED BY <1>1, <1>2, JoinIs

LEMMA ClaudeAdded ==
  ASSUME NEW m, ClaudeSound(m), NEW role \in Speakers, NEW bs \in Seq(Blocks), role = "user" => Unsigned(bs)
  PROVE  ClaudeSays(m, ClaudeAdd(m, role, bs), SignaturesOf(bs))
<1>1. PICK t, s, l, e : m = ClaudeState(t, s, l, e) /\ t \in Seq(Messages) /\ UserUnsigned(t)
  BY DEF ClaudeSound
<1>2. SignedSoFar(t) \in Seq(Signature) /\ SignedSoFar(t) \o <<>> = SignedSoFar(t)
  <2>1. PICK sigs \in Seq(Signature) : sigs = SignedSoFar(t)
    BY <1>1, SignedSpread
  <2> QED BY <2>1, ConcatEmptySeq
<1>3. m.turns = t
  BY <1>1, ClaudeChanged
<1>4. CASE bs = <<>>
  <2>1. SignaturesOf(bs) = <<>> /\ ClaudeAdd(m, role, bs) = m
    BY <1>4, SignaturesNone, NothingUnsigned DEF ClaudeAdd
  <2> QED BY <1>2, <1>3, <2>1 DEF ClaudeSays
<1>5. CASE bs # <<>>
  <2>1. PICK u : u = Join(t, role, bs) /\ u \in Seq(Messages) /\ UserUnsigned(u)
                 /\ SignedSoFar(u) = SignedSoFar(t) \o SignaturesOf(bs)
    BY <1>1, SignedJoin, UserJoin
  <2>2. ClaudeAdd(m, role, bs) = [m EXCEPT !.turns = u]
    BY <1>3, <1>5, <2>1 DEF ClaudeAdd
  <2>3. ClaudeAdd(m, role, bs) = ClaudeState(u, s, l, e)
    BY <1>1, <2>2, ClaudeChanged
  <2>4. ClaudeSound(ClaudeAdd(m, role, bs)) /\ ClaudeAdd(m, role, bs).turns = u
    BY <2>1, <2>3, ClaudeChanged DEF ClaudeSound
  <2> QED BY <1>3, <2>1, <2>4 DEF ClaudeSays
<1> QED BY <1>4, <1>5

LEMMA ClaudeKept ==
  ASSUME NEW m, ClaudeSound(m)
  PROVE  /\ ClaudeSays(m, m, <<>>)
         /\ \A x : ClaudeSays(m, [m EXCEPT !.system = x], <<>>)
         /\ \A more : ClaudeSays(m, [m EXCEPT !.err = TRUE], more)
         /\ \A x : ClaudeSound([m EXCEPT !.leading = x])
                   /\ [m EXCEPT !.leading = x].turns = m.turns /\ [m EXCEPT !.leading = x].err = m.err
<1>1. PICK t, s, l, e : m = ClaudeState(t, s, l, e) /\ t \in Seq(Messages) /\ UserUnsigned(t)
  BY DEF ClaudeSound
<1>2. SignedSoFar(t) \o <<>> = SignedSoFar(t)
  <2>1. PICK sigs \in Seq(Signature) : sigs = SignedSoFar(t)
    BY <1>1, SignedSpread
  <2> QED BY <2>1, ConcatEmptySeq
<1>3. m.turns = t /\ m.err = e
  BY <1>1, ClaudeChanged
<1>4. ClaudeSays(m, m, <<>>)
  BY <1>2, <1>3 DEF ClaudeSays
<1>5. ASSUME NEW x
      PROVE  ClaudeSays(m, [m EXCEPT !.system = x], <<>>)
  <2>1. [m EXCEPT !.system = x] = ClaudeState(t, x, l, e)
    BY <1>1, ClaudeChanged
  <2>2. ClaudeSound([m EXCEPT !.system = x]) /\ [m EXCEPT !.system = x].turns = t
    BY <1>1, <2>1, ClaudeChanged DEF ClaudeSound
  <2> QED BY <1>2, <1>3, <2>2 DEF ClaudeSays
<1>6. ASSUME NEW more, NEW x, x
      PROVE  ClaudeSays(m, [m EXCEPT !.err = x], more)
  <2>1. [m EXCEPT !.err = x] = ClaudeState(t, s, l, x)
    BY <1>1, ClaudeChanged
  <2>2. ClaudeSound([m EXCEPT !.err = x]) /\ [m EXCEPT !.err = x].err = x
    BY <1>1, <2>1, ClaudeChanged DEF ClaudeSound
  <2> QED BY <1>6, <2>2 DEF ClaudeSays
<1>7. ASSUME NEW x
      PROVE  ClaudeSound([m EXCEPT !.leading = x])
             /\ [m EXCEPT !.leading = x].turns = m.turns /\ [m EXCEPT !.leading = x].err = m.err
  <2>1. [m EXCEPT !.leading = x] = ClaudeState(t, s, x, e)
    BY <1>1, ClaudeChanged
  <2>2. PICK n : n = [m EXCEPT !.leading = x] /\ n = ClaudeState(t, s, x, e)
    BY <2>1
  <2>3. n.turns = t
    BY <2>2 DEF ClaudeState
  <2>4. n.err = e
    BY <2>2 DEF ClaudeState
  <2> QED BY <1>1, <1>3, <2>2, <2>3, <2>4 DEF ClaudeSound
<1> QED BY <1>4, <1>5, <1>6, <1>7

LEMMA ClaudeMessage ==
  ASSUME NEW m, ClaudeSound(m), NEW it, Entry(it)
  PROVE  ClaudeSays(m, ClaudeEncodeMessage(m, it), <<>>)
<1>1. PICK bs : bs = BlocksOf(ClaudeReadable(it.said)) /\ Unsigned(bs) /\ bs \in Seq(Blocks)
  <2>1. PICK said \in Seq(Words) : said = ClaudeReadable(it.said)
    BY EntryFields, PiecesTyped DEF ClaudeReadable
  <2> QED BY <2>1, BlocksOfPieces DEF Unsigned
<1>2. ClaudeSays(m, [m EXCEPT !.err = TRUE], <<>>) /\ ClaudeSays(m, [m EXCEPT !.system = @ \o bs], <<>>)
  BY ClaudeKept
<1>3. PICK role \in Speakers : role = IF it.role = "assistant" THEN "assistant" ELSE "user"
  BY Speak
<1>4. ClaudeSays(m, ClaudeAdd(m, role, bs), <<>>)
  BY <1>1, ClaudeAdded, SignaturesNone
<1>5. \/ ClaudeEncodeMessage(m, it) = [m EXCEPT !.err = TRUE]
      \/ ClaudeEncodeMessage(m, it) = [m EXCEPT !.system = @ \o bs]
      \/ ClaudeEncodeMessage(m, it) = ClaudeAdd(m, role, bs)
  BY <1>1, <1>3 DEF ClaudeEncodeMessage
<1> QED BY <1>2, <1>4, <1>5

(* An item whose block is one of the assistant's, or of the user's. *)
LEMMA ClaudeOne ==
  ASSUME NEW m, ClaudeSound(m), NEW role \in Speakers, NEW k \in BlockKinds, NEW id \in Nat, NEW said \in Seq(Words)
  PROVE  ClaudeSays(m, ClaudeAdd(m, role, <<Block(k, id, said, <<>>)>>), <<>>)
<1>1. PICK bs \in Seq(Blocks) : bs = <<Block(k, id, said, <<>>)>> /\ Unsigned(bs)
  BY BlockUnsigned DEF Unsigned
<1>2. SignaturesOf(bs) = <<>>
  BY <1>1, SignaturesNone
<1>3. ClaudeSays(m, ClaudeAdd(m, role, bs), <<>>)
  BY <1>1, <1>2, ClaudeAdded
<1> QED BY <1>1, <1>3

LEMMA ClaudeThinks ==
  ASSUME NEW m, ClaudeSound(m), NEW it, Entry(it), it.sig # <<>>, NEW said \in Seq(Words)
  PROVE  ClaudeSays(m, ClaudeAdd(m, "assistant", <<Block("thinking", 0, said, it.sig)>>), <<it.sig>>)
<1>1. it.sig \in Signature /\ Shown(it.sig) = <<it.sig>> /\ "thinking" \in BlockKinds
  BY OwnSignature DEF BlockKinds
<1>2. PICK b \in Blocks : b = Block("thinking", 0, said, it.sig) /\ b.sig = it.sig
  <2>1. PICK sig \in Signature : sig = it.sig
    BY <1>1
  <2>2. Block("thinking", 0, said, sig) \in Blocks
    BY <1>1, BlockTyped
  <2>3. Block("thinking", 0, said, sig).sig = sig
    BY DEF Block
  <2> QED BY <2>1, <2>2, <2>3
<1>3. PICK bs \in Seq(Blocks) : bs = <<b>> /\ SignaturesOf(bs) = <<it.sig>>
  BY <1>1, <1>2, SignatureOfBlock
<1>4. "assistant" \in Speakers /\ "assistant" # "user"
  BY Speak
<1>5. ClaudeSays(m, ClaudeAdd(m, "assistant", bs), <<it.sig>>)
  BY <1>3, <1>4, ClaudeAdded
<1> QED BY <1>2, <1>3, <1>5

LEMMA ClaudeEncoded ==
  ASSUME NEW m, ClaudeSound(m), NEW it, Entry(it)
  PROVE  ClaudeSays(m, ClaudeEncodeItem(m, it), ClaudeSigned(it))
<1>1. it.said \in Seq(Words) /\ it.id \in Nat /\ "assistant" \in Speakers /\ "user" \in Speakers
  BY EntryFields, Speak
<1>2. /\ "tool_use" \in BlockKinds /\ "tool_result" \in BlockKinds /\ "extension" \in BlockKinds
      /\ ClaudeReadable(it.said) \in Seq(Words) /\ TextOf(it, "summary", "reasoning_text") \in Seq(Words)
  BY <1>1, PiecesTyped, TextTyped DEF BlockKinds, ClaudeReadable
<1>3. ClaudeSays(m, m, <<>>) /\ \A more : ClaudeSays(m, [m EXCEPT !.err = TRUE], more)
  BY ClaudeKept
<1>4. CASE it.type = "message"
  <2>1. ClaudeEncodeItem(m, it) = ClaudeEncodeMessage(m, it) /\ ClaudeSigned(it) = <<>>
    BY <1>4 DEF ClaudeEncodeItem, ClaudeSigned
  <2> QED BY <2>1, ClaudeMessage
<1>5. CASE it.type = "function_call"
  <2>1. ClaudeEncodeItem(m, it) = ClaudeAdd(m, "assistant", <<Block("tool_use", it.id, it.said, <<>>)>>) /\ ClaudeSigned(it) = <<>>
    BY <1>5 DEF ClaudeEncodeItem, ClaudeSigned
  <2> QED BY <1>1, <1>2, <2>1, ClaudeOne
<1>6. CASE it.type = "function_call_output"
  <2>1. /\ \/ ClaudeEncodeItem(m, it) = ClaudeAdd(m, "user", <<Block("tool_result", it.id, ClaudeReadable(it.said), <<>>)>>)
           \/ ClaudeEncodeItem(m, it) = [m EXCEPT !.err = TRUE]
        /\ ClaudeSigned(it) = <<>>
    BY <1>6 DEF ClaudeEncodeItem, ClaudeSigned
  <2>2. ClaudeSays(m, ClaudeAdd(m, "user", <<Block("tool_result", it.id, ClaudeReadable(it.said), <<>>)>>), <<>>)
    BY <1>1, <1>2, ClaudeOne
  <2> QED BY <1>3, <2>1, <2>2
<1>7. CASE it.type = "reasoning"
  <2>1. CASE Replayable(it)
    <3>1. /\ ClaudeEncodeItem(m, it)
             = ClaudeAdd(m, "assistant", <<Block("thinking", 0, TextOf(it, "summary", "reasoning_text"), it.sig)>>)
          /\ ClaudeSigned(it) = <<it.sig>> /\ it.sig # <<>>
      BY <1>7, <2>1 DEF ClaudeEncodeItem, ClaudeSigned, Replayable
    <3> QED BY <1>2, <3>1, ClaudeThinks
  <2>2. CASE ~Replayable(it)
    <3>1. ClaudeEncodeItem(m, it) = m /\ ClaudeSigned(it) = <<>>
      BY <1>7, <2>2 DEF ClaudeEncodeItem, ClaudeSigned
    <3> QED BY <1>3, <3>1
  <2> QED BY <2>1, <2>2
<1>8. CASE it.type = "extension"
  <2>1. /\ \/ ClaudeEncodeItem(m, it) = m
           \/ ClaudeEncodeItem(m, it) = ClaudeAdd(m, "assistant", <<Block("extension", 0, it.said, <<>>)>>)
           \/ ClaudeEncodeItem(m, it) = [m EXCEPT !.err = TRUE]
        /\ ClaudeSigned(it) = <<>>
    BY <1>8 DEF ClaudeEncodeItem, ClaudeSigned
  <2>2. ClaudeSays(m, ClaudeAdd(m, "assistant", <<Block("extension", 0, it.said, <<>>)>>), <<>>)
    BY <1>1, <1>2, ClaudeOne
  <2> QED BY <1>3, <2>1, <2>2
<1>9. CASE it.type \notin {"message", "function_call", "function_call_output", "reasoning", "extension"}
  <2>1. ClaudeEncodeItem(m, it) = [m EXCEPT !.err = TRUE]
    BY <1>9 DEF ClaudeEncodeItem
  <2> QED BY <1>3, <2>1
<1> QED BY <1>4, <1>5, <1>6, <1>7, <1>8, <1>9

LEMMA ClaudeStepped ==
  ASSUME NEW m, ClaudeSound(m), NEW it, Entry(it)
  PROVE  ClaudeSays(m, ClaudeStep(m, it), ClaudeSigned(it))
<1>1. PICK n : n = [m EXCEPT !.leading = @ /\ ClaudeLeads(it)] /\ ClaudeSound(n) /\ n.turns = m.turns
  BY ClaudeKept
<1>2. ClaudeSays(n, ClaudeEncodeItem(n, it), ClaudeSigned(it))
  BY <1>1, ClaudeEncoded
<1>3. ClaudeSays(m, ClaudeEncodeItem(n, it), ClaudeSigned(it))
  BY <1>1, <1>2 DEF ClaudeSays
<1>4. CASE m.err
  BY <1>4 DEF ClaudeStep, ClaudeSays
<1>5. CASE ~m.err
  BY <1>1, <1>3, <1>5 DEF ClaudeStep
<1> QED BY <1>4, <1>5

LEMMA OrderedUnsigned ==
  ASSUME NEW bs, Unsigned(bs)
  PROVE  Unsigned(ToolResultsFirst(bs))
<1>1. bs \in Seq(Blocks) /\ \A b \in Range(bs) : b.sig = <<>>
  BY ElementIn DEF Unsigned
<1>2. ASSUME NEW set
      PROVE  Unsigned(Among(bs, set))
  <2>1. PICK a \in Seq(Blocks) : a = Among(bs, set) /\ Range(a) = Range(bs) \cap set
    BY <1>1, AmongIs
  <2>2. \A i \in 1..Len(a) : a[i] \in Range(a)
    BY ElementIn
  <2> QED BY <1>1, <2>1, <2>2 DEF Unsigned
<1> QED BY <1>2, UnsignedConcat DEF ToolResultsFirst

LEMMA OrderedSignatures ==
  ASSUME NEW turns \in Seq(Messages), UserUnsigned(turns)
  PROVE  ResultsFirst(turns) \in Seq(Messages) /\ SignedSoFar(ResultsFirst(turns)) = SignedSoFar(turns)
<1>1. Len(turns) \in Nat /\ \A i \in 1..Len(turns) : turns[i] \in Messages
  BY LenProperties, ElementOfSeq
<1>2. ASSUME NEW i \in 1..Len(turns)
      PROVE  ResultsFirst(turns)[i] \in Messages /\ SignaturesOf(ResultsFirst(turns)[i].blocks) = SignaturesOf(turns[i].blocks)
  <2>1. CASE turns[i].role = "user"
    <3>1. PICK bs : bs = ToolResultsFirst(turns[i].blocks) /\ Unsigned(bs) /\ Unsigned(turns[i].blocks)
      BY <2>1, OrderedUnsigned DEF UserUnsigned
    <3>2. SignaturesOf(bs) = <<>> /\ SignaturesOf(turns[i].blocks) = <<>> /\ bs \in Seq(Blocks)
      BY <3>1, SignaturesNone DEF Unsigned
    <3>3. ResultsFirst(turns)[i] = Turn("user", bs)
      BY <2>1, <3>1 DEF ResultsFirst
    <3>4. Turn("user", bs) \in Messages /\ Turn("user", bs).blocks = bs
      BY <3>2, TurnTyped, Speak
    <3> QED BY <3>2, <3>3, <3>4
  <2>2. CASE turns[i].role # "user"
    BY <1>1, <2>2 DEF ResultsFirst
  <2> QED BY <2>1, <2>2
<1>3. PICK sent \in Seq(Messages) : sent = ResultsFirst(turns) /\ Len(sent) = Len(turns)
  <2>1. ResultsFirst(turns) = [i \in 1..Len(turns) |-> ResultsFirst(turns)[i]]
    BY DEF ResultsFirst
  <2>2. [i \in 1..Len(turns) |-> ResultsFirst(turns)[i]] \in Seq(Messages)
    BY <1>1, <1>2, IsASeq
  <2>3. Len(ResultsFirst(turns)) = Len(turns)
    BY <1>1 DEF ResultsFirst
  <2> QED BY <2>1, <2>2, <2>3
<1>4. \A i \in 1..Len(turns) : SignedIn[sent[i]] = SignedIn[turns[i]]
  BY <1>1, <1>2, <1>3 DEF SignedIn
<1>5. Spread(SignedIn, sent) = Spread(SignedIn, turns)
  BY <1>3, <1>4, SpreadSame
<1> QED BY <1>3, <1>5, SignedSpread

(* The signatures of the first items, as a spread over them. *)
LEMMA ClaudeOwns ==
  ASSUME NEW T, \A it \in T : Entry(it)
  PROVE  Makes([it \in T |-> ClaudeSigned(it)], T, Signature)
<1>1. ASSUME NEW it \in T
      PROVE  ClaudeSigned(it) \in Seq(Signature)
  <2>1. it.sig # <<>> => <<it.sig>> \in Seq(Signature)
    BY OwnSignature
  <2> QED BY <2>1, EmptySeq DEF ClaudeSigned, Replayable
<1> QED BY <1>1 DEF Makes

(* Every signature that may go back to Claude goes back once and in order, *)
(* and no other does (request.go, encodeReasoning).                        *)
THEOREM ClaudeSendsItsOwn ==
  ASSUME NEW items, Conversation(items), ~AnthropicInput(items).err
  PROVE  SignaturesOf(AllBlocks(AnthropicInput(items).turns)) = FlattenSeq([i \in 1..Len(items) |-> ClaudeSigned(items[i])])
<1>1. PICK T : items \in Seq(T) /\ \A it \in T : Entry(it)
  BY DEF Conversation
<1>2. Len(items) \in Nat /\ \A i \in 1..Len(items) : items[i] \in T
  BY <1>1, LenProperties, ElementOfSeq
<1>3. PICK s : /\ Run("anthropic", items, {}, s)
               /\ AnthropicInput(items) = [s[Len(items)] EXCEPT !.turns = ResultsFirst(@)]
  BY <1>2, ClaudeRun
<1>4. PICK f : Makes(f, T, Signature) /\ \A it \in T : f[it] = ClaudeSigned(it)
  <2> DEFINE g == [it \in T |-> ClaudeSigned(it)]
  <2>1. Makes(g, T, Signature)
    BY <1>1, ClaudeOwns
  <2>2. \A it \in T : g[it] = ClaudeSigned(it)
    OBVIOUS
  <2> HIDE DEF g
  <2> QED BY <2>1, <2>2
<1>5. \A p \in Seq(T), it \in T : Spread(f, Append(p, it)) = Spread(f, p) \o ClaudeSigned(it)
  <2>1. \A p \in Seq(T), it \in T : Spread(f, Append(p, it)) = Spread(f, p) \o f[it]
    BY <1>4, Spreads
  <2>2. \A it \in T : f[it] = ClaudeSigned(it)
    BY <1>4
  <2> QED BY <2>1, <2>2
<1> DEFINE S == {k \in Nat : k <= Len(items) =>
                   ClaudeSound(s[k]) /\ (s[k].err \/ SignedSoFar(s[k].turns) = Spread(f, Prefix(items, k)))}
<1>6. 0 \in S
  <2>1. s[0] = ClaudeState(<<>>, <<>>, TRUE, FALSE)
    BY <1>3 DEF Run, EncodeStart, ClaudeStart, ClaudeState
  <2>2. s[0].turns = <<>>
    BY <2>1 DEF ClaudeState
  <2>3. ClaudeSound(s[0])
    <3>1. UserUnsigned(<<>>)
      BY DEF UserUnsigned
    <3> QED BY <2>1, <3>1, SignedEmpty DEF ClaudeSound
  <2> QED BY <1>1, <2>2, <2>3, SignedEmpty, SpreadEmpty, PrefixGrows
<1>7. ASSUME NEW k \in Nat, k \in S
      PROVE  k + 1 \in S
  <2> SUFFICES ASSUME k + 1 <= Len(items)
               PROVE  /\ ClaudeSound(s[k + 1])
                      /\ s[k + 1].err \/ SignedSoFar(s[k + 1].turns) = Spread(f, Prefix(items, k + 1))
    OBVIOUS
  <2>1. ClaudeSound(s[k]) /\ k \in 0..Len(items) - 1 /\ k + 1 \in 1..Len(items)
    BY <1>2, <1>7
  <2>2. PICK it \in T : it = items[k + 1] /\ Entry(it)
    BY <1>1, <1>2, <2>1
  <2>3. s[k + 1] = ClaudeStep(s[k], it)
    BY <1>3, <2>1, <2>2 DEF Run, EncodeStep
  <2>4. ClaudeSays(s[k], s[k + 1], ClaudeSigned(it))
    BY <2>1, <2>2, <2>3, ClaudeStepped
  <2>5. s[k].err => s[k + 1].err
    BY <2>3 DEF ClaudeStep
  <2>6. PICK p \in Seq(T) : p = Prefix(items, k) /\ Prefix(items, k + 1) = Append(p, it)
    BY <1>1, <2>1, <2>2, PrefixGrows
  <2>7. Spread(f, Prefix(items, k + 1)) = Spread(f, Prefix(items, k)) \o ClaudeSigned(it)
    BY <1>5, <2>6
  <2>8. s[k].err \/ SignedSoFar(s[k].turns) = Spread(f, Prefix(items, k))
    BY <1>7, <2>1
  <2> QED BY <2>4, <2>5, <2>7, <2>8 DEF ClaudeSays
<1> HIDE DEF S
<1>8. \A k \in Nat : k \in S
  BY <1>6, <1>7, NaturalSteps
<1>9. PICK m : /\ m = s[Len(items)] /\ ClaudeSound(m)
               /\ m.err \/ SignedSoFar(m.turns) = Spread(f, items)
  BY <1>1, <1>2, <1>8, PrefixGrows DEF S
<1>10. PICK t, sy, l, e : m = ClaudeState(t, sy, l, e) /\ t \in Seq(Messages) /\ UserUnsigned(t)
  BY <1>9 DEF ClaudeSound
<1>11. m.turns = t /\ m.err = e
  BY <1>10 DEF ClaudeState
<1>12. PICK u : u = ResultsFirst(t) /\ SignedSoFar(u) = SignedSoFar(t)
  BY <1>10, OrderedSignatures
<1>13. AnthropicInput(items) = ClaudeState(u, sy, l, e)
  <2>1. AnthropicInput(items) = [m EXCEPT !.turns = u]
    BY <1>3, <1>9, <1>11, <1>12
  <2> QED BY <1>10, <2>1, ClaudeChanged
<1>14. AnthropicInput(items).turns = u /\ AnthropicInput(items).err = e
  BY <1>13 DEF ClaudeState
<1>15. Spread(f, items) = FlattenSeq([i \in 1..Len(items) |-> ClaudeSigned(items[i])])
  <2>1. \A i \in 1..Len(items) : f[items[i]] = ClaudeSigned(items[i])
    BY <1>2, <1>4
  <2>2. [i \in 1..Len(items) |-> f[items[i]]] = [i \in 1..Len(items) |-> ClaudeSigned(items[i])]
    BY <2>1, Zenon
  <2> QED BY <2>2 DEF Spread
<1> QED BY <1>9, <1>11, <1>12, <1>14, <1>15 DEF SignedSoFar

-----------------------------------------------------------------------------
(***************************************************************************)
(* Gemini: a signature waits for the part it belongs to, or gets a part of *)
(* its own.                                                                *)
(***************************************************************************)
GeminiState(t, s, p, l, e) == [turns |-> t, system |-> s, pending |-> p, leading |-> l, err |-> e]
Renews(it) == it.type = "reasoning" /\ it.by = "gemini" /\ it.sig # <<>>
OwnExtension(it) == it.type = "extension" /\ it.by = "gemini" /\ it.sig # <<>>
GeminiSigned(it) == IF Renews(it) \/ OwnExtension(it) THEN <<it.sig>> ELSE <<>>

NoCalls(blocks) == \A i \in 1..Len(blocks) : blocks[i].k # "call"
CallsInModel(turns) == \A i \in 1..Len(turns) : turns[i].role # "model" => NoCalls(turns[i].blocks)
GeminiSound(m) == \E t, s, p, l, e : m = GeminiState(t, s, p, l, e) /\ t \in Seq(Messages) /\ CallsInModel(t) /\ Tagged(p)

(* What is signed, and what is about to be. *)
Carried(m) == SignedSoFar(m.turns) \o Shown(m.pending)
GeminiSays(m, n, more) ==
  /\ GeminiSound(n)
  /\ Range(AllBlocks(m.turns)) \subseteq Range(AllBlocks(n.turns))
  /\ n.err \/ Carried(n) = Carried(m) \o more

LEMMA GeminiChanged ==
  ASSUME NEW t, NEW s, NEW p, NEW l, NEW e, NEW m, m = GeminiState(t, s, p, l, e)
  PROVE  /\ m.turns = t /\ m.system = s /\ m.pending = p /\ m.leading = l /\ m.err = e
         /\ \A x : [m EXCEPT !.turns = x] = GeminiState(x, s, p, l, e)
         /\ \A x : [m EXCEPT !.system = x] = GeminiState(t, x, p, l, e)
         /\ \A x : [m EXCEPT !.pending = x] = GeminiState(t, s, x, l, e)
         /\ \A x : [m EXCEPT !.leading = x] = GeminiState(t, s, p, x, e)
         /\ \A x : [m EXCEPT !.err = x] = GeminiState(t, s, p, l, x)
<1>1. m.turns = t /\ m.system = s /\ m.pending = p /\ m.leading = l /\ m.err = e
  BY DEF GeminiState
<1>2. \A x : [m EXCEPT !.turns = x] = GeminiState(x, s, p, l, e)
  BY DEF GeminiState
<1>3. \A x : [m EXCEPT !.system = x] = GeminiState(t, x, p, l, e)
  BY DEF GeminiState
<1>4. \A x : [m EXCEPT !.pending = x] = GeminiState(t, s, x, l, e)
  BY DEF GeminiState
<1>5. \A x : [m EXCEPT !.leading = x] = GeminiState(t, s, p, x, e)
  BY DEF GeminiState
<1>6. \A x : [m EXCEPT !.err = x] = GeminiState(t, s, p, l, x)
  BY DEF GeminiState
<1> QED BY <1>1, <1>2, <1>3, <1>4, <1>5, <1>6

LEMMA TaggedTyped ==
  ASSUME NEW sig, Tagged(sig)
  PROVE  sig \in Signature /\ (sig # <<>> => Shown(sig) = <<sig>>) /\ Shown(sig) \in Seq(Signature)
<1>1. CASE sig = <<>>
  BY <1>1, NoSignature, EmptySeq DEF Shown, OwnFiller
<1>2. CASE \E n \in Nat \ {0} : sig = <<n>>
  <2>1. PICK n \in Nat \ {0} : sig = <<n>>
    BY <1>2
  <2>2. sig \in Seq(Nat) /\ sig # <<>> /\ sig # Placeholder
    BY <2>1 DEF Placeholder
  <2>3. Shown(sig) = <<sig>> /\ <<sig>> \in Seq(Signature) /\ sig \in Signature
    BY <2>2 DEF Shown, OwnFiller, Signature
  <2> QED BY <2>3
<1> QED BY <1>1, <1>2 DEF Tagged

LEMMA CallsAppend ==
  ASSUME NEW t \in Seq(Messages), NEW role \in Speakers, NEW bs \in Seq(Blocks)
  PROVE  CallsInModel(Append(t, Turn(role, bs))) <=> CallsInModel(t) /\ (role # "model" => NoCalls(bs))
<1>1. PICK x \in Messages : x = Turn(role, bs) /\ x.role = role /\ x.blocks = bs
  BY TurnTyped
<1>2. /\ Len(t) \in Nat /\ Len(Append(t, x)) = Len(t) + 1 /\ Append(t, x)[Len(t) + 1] = x
      /\ \A i \in 1..Len(t) : Append(t, x)[i] = t[i]
  BY LenProperties, AppendProperties
<1>3. \A i : i \in 1..Len(t) + 1 <=> (i \in 1..Len(t) \/ i = Len(t) + 1)
  BY <1>2
<1> QED BY <1>1, <1>2, <1>3 DEF CallsInModel

LEMMA NoCallsConcat ==
  ASSUME NEW a \in Seq(Blocks), NEW b \in Seq(Blocks), NoCalls(a), NoCalls(b)
  PROVE  NoCalls(a \o b)
<1>1. /\ Len(a) \in Nat /\ Len(b) \in Nat /\ Len(a \o b) = Len(a) + Len(b)
      /\ \A i \in 1..Len(a) + Len(b) : (a \o b)[i] = IF i <= Len(a) THEN a[i] ELSE b[i - Len(a)]
  BY ConcatProperties, LenProperties
<1> SUFFICES ASSUME NEW i \in 1..Len(a) + Len(b)
             PROVE  (a \o b)[i].k # "call"
  BY <1>1 DEF NoCalls
<1>2. CASE i <= Len(a)
  BY <1>1, <1>2 DEF NoCalls
<1>3. CASE ~(i <= Len(a))
  <2>1. i - Len(a) \in 1..Len(b)
    BY <1>1, <1>3
  <2> QED BY <1>1, <1>3, <2>1 DEF NoCalls
<1> QED BY <1>2, <1>3

LEMMA CallsJoin ==
  ASSUME NEW t \in Seq(Messages), CallsInModel(t), NEW role \in Speakers, NEW bs \in Seq(Blocks), role # "model" => NoCalls(bs)
  PROVE  CallsInModel(Join(t, role, bs))
<1>1. CASE Join(t, role, bs) = Append(t, Turn(role, bs))
  BY <1>1, CallsAppend
<1>2. CASE \E u \in Seq(Messages), cs \in Seq(Blocks) :
             t = Append(u, Turn(role, cs)) /\ Join(t, role, bs) = Append(u, Turn(role, cs \o bs))
  <2>1. PICK u \in Seq(Messages), cs \in Seq(Blocks) :
          t = Append(u, Turn(role, cs)) /\ Join(t, role, bs) = Append(u, Turn(role, cs \o bs))
    BY <1>2
  <2>2. CallsInModel(u) /\ (role # "model" => NoCalls(cs))
    BY <2>1, CallsAppend
  <2>3. PICK ds \in Seq(Blocks) : ds = cs \o bs /\ (role # "model" => NoCalls(ds))
    BY <2>2, NoCallsConcat, ConcatProperties
  <2>4. CallsInModel(Append(u, Turn(role, ds)))
    BY <2>2, <2>3, CallsAppend
  <2> QED BY <2>1, <2>3, <2>4
<1> QED BY <1>1, <1>2, JoinIs

(* The blocks of a conversation only become more. *)
LEMMA BlocksJoin ==
  ASSUME NEW t \in Seq(Messages), NEW role \in Speakers, NEW bs \in Seq(Blocks)
  PROVE  AllBlocks(Join(t, role, bs)) = AllBlocks(t) \o bs
<1>1. /\ \A u \in Seq(Messages) : AllBlocks(u) = Spread(BlocksIn, u) /\ AllBlocks(u) \in Seq(Blocks)
      /\ \A u \in Seq(Messages), x \in Messages : Spread(BlocksIn, Append(u, x)) = Spread(BlocksIn, u) \o BlocksIn[x]
  <2>1. Makes(BlocksIn, Messages, Blocks)
    BY BlocksSpread
  <2>2. \A u \in Seq(Messages), x \in Messages : Spread(BlocksIn, Append(u, x)) = Spread(BlocksIn, u) \o BlocksIn[x]
    BY <2>1, Spreads
  <2> QED BY <2>2, BlocksSpread
<1>2. ASSUME NEW u \in Seq(Messages), NEW cs \in Seq(Blocks)
      PROVE  AllBlocks(Append(u, Turn(role, cs))) = AllBlocks(u) \o cs
  <2>1. PICK x \in Messages : x = Turn(role, cs) /\ x.blocks = cs
    BY TurnTyped
  <2>2. BlocksIn[x] = cs /\ Append(u, x) \in Seq(Messages)
    BY <2>1 DEF BlocksIn
  <2>3. AllBlocks(Append(u, x)) = AllBlocks(u) \o cs
    BY <1>1, <2>2
  <2> QED BY <2>1, <2>3
<1>3. CASE Join(t, role, bs) = Append(t, Turn(role, bs))
  BY <1>2, <1>3
<1>4. CASE \E u \in Seq(Messages), cs \in Seq(Blocks) :
             t = Append(u, Turn(role, cs)) /\ Join(t, role, bs) = Append(u, Turn(role, cs \o bs))
  <2>1. PICK u \in Seq(Messages), cs \in Seq(Blocks) :
          t = Append(u, Turn(role, cs)) /\ Join(t, role, bs) = Append(u, Turn(role, cs \o bs))
    BY <1>4
  <2>2. PICK ds \in Seq(Blocks) : ds = cs \o bs
    BY ConcatProperties
  <2>3. AllBlocks(t) = AllBlocks(u) \o cs /\ AllBlocks(Join(t, role, bs)) = AllBlocks(u) \o ds
    BY <1>2, <2>1, <2>2
  <2>4. PICK v \in Seq(Blocks) : v = AllBlocks(u)
    BY <1>1
  <2>5. v \o (cs \o bs) = (v \o cs) \o bs
    BY Associates
  <2> QED BY <2>2, <2>3, <2>4, <2>5
<1> QED BY <1>3, <1>4, JoinIs

LEMMA RangeConcat ==
  ASSUME NEW S, NEW a \in Seq(S), NEW b \in Seq(S)
  PROVE  Range(a) \subseteq Range(a \o b) /\ Range(b) \subseteq Range(a \o b)
<1>1. /\ Len(a) \in Nat /\ Len(b) \in Nat /\ Len(a \o b) = Len(a) + Len(b) /\ a \o b \in Seq(S)
      /\ \A i \in 1..Len(a) + Len(b) : (a \o b)[i] = IF i <= Len(a) THEN a[i] ELSE b[i - Len(a)]
  BY ConcatProperties, LenProperties
<1>2. ASSUME NEW x \in Range(a)
      PROVE  x \in Range(a \o b)
  <2>1. PICK i \in 1..Len(a) : x = a[i]
    BY ElementIn
  <2>2. i \in 1..Len(a \o b) /\ (a \o b)[i] = x
    BY <1>1, <2>1
  <2> QED BY <1>1, <2>2, ElementIn
<1>3. ASSUME NEW x \in Range(b)
      PROVE  x \in Range(a \o b)
  <2>1. PICK i \in 1..Len(b) : x = b[i]
    BY ElementIn
  <2>2. i + Len(a) \in 1..Len(a \o b) /\ (i + Len(a)) - Len(a) = i /\ ~(i + Len(a) <= Len(a))
    BY <1>1, <2>1
  <2>3. (a \o b)[i + Len(a)] = x
    BY <1>1, <2>1, <2>2
  <2> QED BY <1>1, <2>2, <2>3, ElementIn
<1> QED BY <1>2, <1>3

(* The first block takes the signature that waited for it. *)
LeadSigned(blocks, sig) == [blocks EXCEPT ![1].sig = sig]

LEMMA LeadSignedIs ==
  ASSUME NEW bs \in Seq(Blocks), bs # <<>>, NEW sig \in Signature, bs[1].sig = <<>>
  PROVE  /\ LeadSigned(bs, sig) \in Seq(Blocks)
         /\ SignaturesOf(LeadSigned(bs, sig)) = Shown(sig) \o SignaturesOf(bs)
         /\ NoCalls(bs) => NoCalls(LeadSigned(bs, sig))
         /\ \E b \in Range(LeadSigned(bs, sig)) : b.id = bs[1].id /\ b.sig = sig
<1>1. Len(bs) \in Nat /\ 1 \in 1..Len(bs) /\ \A i \in 1..Len(bs) : bs[i] \in Blocks
  BY LenProperties, ElementOfSeq
<1>2. PICK h \in Blocks : h = bs[1]
  BY <1>1
<1>3. PICK b \in Blocks : b = [h EXCEPT !.sig = sig] /\ b.sig = sig /\ b.id = h.id /\ b.k = h.k
  <2>1. PICK b : b = [h EXCEPT !.sig = sig]
    OBVIOUS
  <2>2. b \in Blocks
    BY <2>1 DEF Blocks
  <2>3. b.sig = sig /\ b.id = h.id /\ b.k = h.k
    BY <2>1 DEF Blocks
  <2> QED BY <2>1, <2>2, <2>3
<1>4. PICK cs \in Seq(Blocks) : cs = [bs EXCEPT ![1] = b] /\ Len(cs) = Len(bs)
                                /\ \A j \in 1..Len(bs) : cs[j] = IF j = 1 THEN b ELSE bs[j]
  <2>1. [bs EXCEPT ![1] = b] \in Seq(Blocks)
    BY <1>1, ExceptSeq
  <2>2. PICK cs : cs = [bs EXCEPT ![1] = b]
    OBVIOUS
  <2>3. Len(cs) = Len(bs)
    BY <1>1, <2>2
  <2>4. \A j \in 1..Len(bs) : cs[j] = IF j = 1 THEN b ELSE bs[j]
    BY <1>1, <2>2
  <2> QED BY <2>1, <2>2, <2>3, <2>4
<1>5. LeadSigned(bs, sig) = cs
  BY <1>2, <1>3, <1>4 DEF LeadSigned
<1>6. b \in Range(cs)
  <2>1. cs[1] = b /\ 1 \in 1..Len(cs)
    BY <1>1, <1>4
  <2> QED BY <2>1, ElementIn
<1>7. NoCalls(bs) => NoCalls(cs)
  BY <1>1, <1>2, <1>3, <1>4 DEF NoCalls
<1>8. SignaturesOf(cs) = Shown(sig) \o SignaturesOf(bs)
  <2>1. PICK rest \in Seq(Blocks) : Len(rest) = Len(bs) - 1 /\ \A i \in 1..Len(rest) : rest[i] = bs[i + 1]
    BY HeadTailProperties
  <2>2. ASSUME NEW x \in Blocks, NEW xs \in Seq(Blocks), Len(xs) = Len(bs), xs[1] = x, \A j \in 2..Len(bs) : xs[j] = bs[j]
        PROVE  SignaturesOf(xs) = Shown(x.sig) \o SignaturesOf(rest)
    <3>1. PICK one \in Seq(Blocks) : one = <<x>> /\ SignaturesOf(one) = Shown(x.sig) /\ Len(one) = 1 /\ one[1] = x
      BY SignatureOfBlock
    <3>2. /\ one \o rest \in Seq(Blocks) /\ Len(one \o rest) = 1 + Len(rest)
          /\ \A i \in 1..1 + Len(rest) : (one \o rest)[i] = IF i <= 1 THEN one[i] ELSE rest[i - 1]
      BY <3>1, ConcatProperties
    <3>3. Len(one \o rest) = Len(xs) /\ \A i \in 1..Len(xs) : (one \o rest)[i] = xs[i]
      <4>1. Len(one \o rest) = Len(xs)
        BY <1>1, <2>1, <2>2, <3>2
      <4>2. ASSUME NEW i \in 1..Len(xs), i # 1
            PROVE  (one \o rest)[i] = xs[i]
        <5>1. i - 1 \in 1..Len(rest) /\ (i - 1) + 1 = i /\ i \in 2..Len(bs)
          BY <1>1, <2>1, <2>2, <4>2
        <5>2. rest[i - 1] = bs[i]
          BY <2>1, <5>1
        <5>3. (one \o rest)[i] = rest[i - 1]
          BY <1>1, <2>1, <3>2, <5>1
        <5> QED BY <2>2, <5>1, <5>2, <5>3
      <4>3. (one \o rest)[1] = xs[1]
        BY <1>1, <2>1, <2>2, <3>1, <3>2
      <4> QED BY <4>1, <4>2, <4>3
    <3>4. one \o rest = xs
      BY <3>2, <3>3, SeqEqual
    <3> QED BY <3>1, <3>4, SignaturesConcat
  <2>3. SignaturesOf(bs) = Shown(h.sig) \o SignaturesOf(rest)
    BY <1>2, <2>2
  <2>4. SignaturesOf(cs) = Shown(b.sig) \o SignaturesOf(rest)
    <3>1. cs[1] = b /\ \A j \in 2..Len(bs) : cs[j] = bs[j]
      BY <1>1, <1>4
    <3> QED BY <1>4, <2>2, <3>1
  <2>5. Shown(h.sig) = <<>>
    BY <1>2 DEF Shown, OwnFiller
  <2>6. PICK r \in Seq(Signature) : r = SignaturesOf(rest)
    BY SignaturesSpread
  <2>7. <<>> \o r = r
    BY ConcatEmptySeq
  <2> QED BY <1>3, <2>3, <2>4, <2>5, <2>6, <2>7
<1> QED BY <1>2, <1>3, <1>4, <1>5, <1>6, <1>7, <1>8

(* Blocks that join the last message or begin one. *)
Joined(m, role, bs) == [m EXCEPT !.turns = Join(@, role, bs)]
Waiting(m, sig)     == [m EXCEPT !.pending = sig]

GeminiGrows(m, n, bs) ==
  /\ GeminiSound(n) /\ n.pending = m.pending /\ n.err = m.err
  /\ SignedSoFar(n.turns) = SignedSoFar(m.turns) \o SignaturesOf(bs)
  /\ Range(AllBlocks(m.turns)) \subseteq Range(AllBlocks(n.turns)) /\ Range(bs) \subseteq Range(AllBlocks(n.turns))

LEMMA GeminiJoined ==
  ASSUME NEW m, GeminiSound(m), NEW role \in Speakers, NEW bs \in Seq(Blocks), role # "model" => NoCalls(bs), NEW n,
         n = Joined(m, role, bs)
  PROVE  GeminiGrows(m, n, bs)
<1>1. PICK t, s, p, l, e : m = GeminiState(t, s, p, l, e) /\ t \in Seq(Messages) /\ CallsInModel(t) /\ Tagged(p)
  BY DEF GeminiSound
<1>2. m.turns = t /\ m.pending = p /\ m.err = e
  BY <1>1 DEF GeminiState
<1>3. PICK u \in Seq(Messages) : u = Join(t, role, bs) /\ CallsInModel(u) /\ SignedSoFar(u) = SignedSoFar(t) \o SignaturesOf(bs)
  BY <1>1, SignedJoin, CallsJoin
<1>4. n = [m EXCEPT !.turns = u]
  BY <1>2, <1>3 DEF Joined
<1>5. n = GeminiState(u, s, p, l, e)
  BY <1>1, <1>4, GeminiChanged
<1>6. n.turns = u /\ n.pending = p /\ n.err = e
  BY <1>5 DEF GeminiState
<1>7. PICK a \in Seq(Blocks) : a = AllBlocks(t) /\ AllBlocks(u) = a \o bs
  BY <1>1, <1>3, BlocksJoin, BlocksSpread
<1>8. Range(a) \subseteq Range(a \o bs) /\ Range(bs) \subseteq Range(a \o bs)
  BY RangeConcat
<1>9. GeminiSound(n)
  BY <1>1, <1>3, <1>5 DEF GeminiSound
<1> QED BY <1>2, <1>3, <1>6, <1>7, <1>8, <1>9 DEF GeminiGrows

LEMMA GeminiWaits ==
  ASSUME NEW m, GeminiSound(m), NEW sig, Tagged(sig), NEW n, n = Waiting(m, sig)
  PROVE  GeminiSound(n) /\ n.pending = sig /\ n.err = m.err /\ n.turns = m.turns
<1>1. PICK t, s, p, l, e : m = GeminiState(t, s, p, l, e) /\ t \in Seq(Messages) /\ CallsInModel(t) /\ Tagged(p)
  BY DEF GeminiSound
<1>2. m.turns = t /\ m.err = e
  BY <1>1 DEF GeminiState
<1>3. n = GeminiState(t, s, sig, l, e)
  BY <1>1, GeminiChanged DEF Waiting
<1>4. n.turns = t /\ n.pending = sig /\ n.err = e
  BY <1>3 DEF GeminiState
<1>5. GeminiSound(n)
  BY <1>1, <1>3 DEF GeminiSound
<1> QED BY <1>2, <1>4, <1>5

LEMMA HeldTyped ==
  ASSUME NEW m, GeminiSound(m)
  PROVE  /\ SignedSoFar(m.turns) \in Seq(Signature) /\ Shown(m.pending) \in Seq(Signature) /\ Tagged(m.pending)
         /\ Carried(m) \in Seq(Signature) /\ AllBlocks(m.turns) \in Seq(Blocks)
         /\ m.pending = <<>> => Carried(m) = SignedSoFar(m.turns)
<1>1. PICK t, s, p, l, e : m = GeminiState(t, s, p, l, e) /\ t \in Seq(Messages) /\ CallsInModel(t) /\ Tagged(p)
  BY DEF GeminiSound
<1>2. m.turns = t /\ m.pending = p
  BY <1>1 DEF GeminiState
<1>3. PICK a, b \in Seq(Signature) : a = SignedSoFar(t) /\ b = Shown(p)
  BY <1>1, SignedSpread, TaggedTyped
<1>4. a \o b \in Seq(Signature) /\ a \o <<>> = a
  BY ConcatProperties, ConcatEmptySeq
<1>5. AllBlocks(t) \in Seq(Blocks)
  BY <1>1, BlocksSpread
<1>6. p = <<>> => Shown(p) = <<>>
  BY DEF Shown, OwnFiller
<1> QED BY <1>1, <1>2, <1>3, <1>4, <1>5, <1>6 DEF Carried

LEMMA GeminiFlushed ==
  ASSUME NEW m, GeminiSound(m)
  PROVE  /\ GeminiSound(FlushSignature(m)) /\ FlushSignature(m).pending = <<>> /\ FlushSignature(m).err = m.err
         /\ SignedSoFar(FlushSignature(m).turns) = Carried(m)
         /\ Range(AllBlocks(m.turns)) \subseteq Range(AllBlocks(FlushSignature(m).turns))
<1>1. CASE m.pending = <<>>
  <2>1. FlushSignature(m) = m
    BY <1>1 DEF FlushSignature
  <2> QED BY <1>1, <2>1, HeldTyped
<1>2. CASE m.pending # <<>>
  <2>1. m.pending \in Signature /\ Tagged(m.pending) /\ "thought" \in BlockKinds /\ <<>> \in Seq(Words)
    BY HeldTyped, TaggedTyped, EmptySeq DEF BlockKinds
  <2>2. PICK b \in Blocks : b = Block("thought", 0, <<>>, m.pending) /\ b.sig = m.pending
    <3>1. PICK sig \in Signature : sig = m.pending
      BY <2>1
    <3>2. Block("thought", 0, <<>>, sig) \in Blocks
      BY <2>1, BlockTyped
    <3>3. Block("thought", 0, <<>>, sig).sig = sig
      BY DEF Block
    <3> QED BY <3>1, <3>2, <3>3
  <2>3. PICK bs \in Seq(Blocks) : bs = <<b>> /\ SignaturesOf(bs) = Shown(m.pending)
    BY <2>2, SignatureOfBlock
  <2>10. PICK role \in Speakers : role = "model"
    BY Speak
  <2>11. role # "model" => NoCalls(bs)
    BY <2>10
  <2>4. PICK n : n = Joined(m, role, bs)
    OBVIOUS
  <2>5. /\ GeminiSound(n) /\ n.err = m.err
        /\ SignedSoFar(n.turns) = SignedSoFar(m.turns) \o SignaturesOf(bs)
        /\ Range(AllBlocks(m.turns)) \subseteq Range(AllBlocks(n.turns))
    <3>1. GeminiGrows(m, n, bs)
      BY <2>11, <2>4, GeminiJoined
    <3> QED BY <3>1 DEF GeminiGrows
  <2>6. PICK q : q = Waiting(n, <<>>) /\ GeminiSound(q) /\ q.pending = <<>> /\ q.err = n.err /\ q.turns = n.turns
    BY <2>5, GeminiWaits DEF Tagged
  <2>7. FlushSignature(m) = q
    BY <1>2, <2>2, <2>3, <2>10, <2>4, <2>6 DEF FlushSignature, Joined, Waiting
  <2> QED BY <2>3, <2>5, <2>6, <2>7 DEF Carried
<1> QED BY <1>1, <1>2

(* What was added is signed by what waited, if it is what it waited for. *)
LEMMA GeminiAdded ==
  ASSUME NEW m, GeminiSound(m), NEW role \in Speakers, NEW bs \in Seq(Blocks), role # "model" => NoCalls(bs),
         bs # <<>> /\ bs[1].k = "thought" => SignaturesOf(bs) = <<>>
  PROVE  /\ GeminiSays(m, GeminiAdd(m, role, bs), SignaturesOf(bs))
         /\ GeminiAdd(m, role, bs).err = m.err
         /\ bs # <<>> /\ role = "model" /\ m.pending # <<>> /\ bs[1].k # "thought" /\ bs[1].sig = <<>> =>
              \E b \in Range(AllBlocks(GeminiAdd(m, role, bs).turns)) : b.id = bs[1].id /\ b.sig = m.pending
<1>1. PICK a, p, c \in Seq(Signature) : a = SignedSoFar(m.turns) /\ p = Shown(m.pending) /\ c = SignaturesOf(bs) /\ Carried(m) = a \o p
  BY HeldTyped, SignaturesSpread DEF Carried
<1>2. /\ a \o <<>> = a /\ c \o <<>> = c /\ <<>> \o c = c /\ p \o <<>> = p /\ (a \o p) \o c = a \o (p \o c)
      /\ (a \o p) \o <<>> = a \o p /\ (a \o c) \o <<>> = a \o c
  <2>1. a \o p \in Seq(Signature) /\ a \o c \in Seq(Signature)
    BY ConcatProperties
  <2>2. \A x \in Seq(Signature) : x \o <<>> = x /\ <<>> \o x = x
    BY ConcatEmptySeq
  <2>3. (a \o p) \o c = a \o (p \o c)
    BY Associates
  <2> QED BY <2>1, <2>2, <2>3
<1>3. CASE bs = <<>>
  <2>1. GeminiAdd(m, role, bs) = m /\ c = <<>>
    BY <1>1, <1>3, SignaturesNone, NothingUnsigned DEF GeminiAdd
  <2> QED BY <1>1, <1>2, <1>3, <2>1 DEF GeminiSays
<1> SUFFICES ASSUME bs # <<>>
             PROVE  /\ GeminiSays(m, GeminiAdd(m, role, bs), SignaturesOf(bs))
                    /\ GeminiAdd(m, role, bs).err = m.err
                    /\ role = "model" /\ m.pending # <<>> /\ bs[1].k # "thought" /\ bs[1].sig = <<>> =>
                         \E b \in Range(AllBlocks(GeminiAdd(m, role, bs).turns)) : b.id = bs[1].id /\ b.sig = m.pending
  BY <1>3
<1> Head(bs) = bs[1]
  OBVIOUS
(* The signature waits on, or there is none. *)
<1>4. CASE m.pending = <<>> \/ (role = "model" /\ bs[1].k = "thought")
  <2>1. PICK n : n = Joined(m, role, bs)
    OBVIOUS
  <2>2. /\ GeminiSound(n) /\ n.pending = m.pending /\ n.err = m.err
        /\ SignedSoFar(n.turns) = a \o c
        /\ Range(AllBlocks(m.turns)) \subseteq Range(AllBlocks(n.turns))
    <3>1. GeminiGrows(m, n, bs)
      BY <2>1, GeminiJoined
    <3> QED BY <1>1, <3>1 DEF GeminiGrows
  <2>3. GeminiAdd(m, role, bs) = n
    <3>1. m.pending = <<>> => FlushSignature(m) = m
      BY DEF FlushSignature
    <3> QED BY <1>4, <2>1, <3>1 DEF GeminiAdd, Joined
  <2>4. c = <<>> \/ p = <<>>
    BY <1>1, <1>4 DEF Shown, OwnFiller
  <2>5. Carried(n) = Carried(m) \o c
    BY <1>1, <1>2, <2>2, <2>4 DEF Carried
  <2> QED BY <1>1, <1>4, <2>2, <2>3, <2>5 DEF GeminiSays
(* It is flushed before the part. *)
<1>5. CASE m.pending # <<>> /\ (role # "model" \/ (bs[1].k # "thought" /\ bs[1].sig # <<>>))
  <2>1. PICK q : /\ q = FlushSignature(m) /\ GeminiSound(q) /\ q.pending = <<>> /\ q.err = m.err /\ SignedSoFar(q.turns) = a \o p
                 /\ Range(AllBlocks(m.turns)) \subseteq Range(AllBlocks(q.turns))
    BY <1>1, GeminiFlushed
  <2>2. PICK n : n = Joined(q, role, bs)
    OBVIOUS
  <2>3. /\ GeminiSound(n) /\ n.pending = <<>> /\ n.err = m.err
        /\ SignedSoFar(n.turns) = (a \o p) \o c
        /\ Range(AllBlocks(q.turns)) \subseteq Range(AllBlocks(n.turns))
    <3>1. /\ GeminiSound(n) /\ n.pending = q.pending /\ n.err = q.err
          /\ SignedSoFar(n.turns) = SignedSoFar(q.turns) \o SignaturesOf(bs)
          /\ Range(AllBlocks(q.turns)) \subseteq Range(AllBlocks(n.turns))
      <4>1. GeminiGrows(q, n, bs)
        BY <2>1, <2>2, GeminiJoined
      <4> QED BY <4>1 DEF GeminiGrows
    <3> QED BY <1>1, <2>1, <3>1
  <2>4. GeminiAdd(m, role, bs) = n
    BY <1>5, <2>1, <2>2 DEF GeminiAdd, Joined
  <2>5. Carried(n) = Carried(m) \o c
    BY <1>1, <2>3, HeldTyped
  <2> QED BY <1>1, <1>5, <2>1, <2>3, <2>4, <2>5 DEF GeminiSays
(* The part takes it. *)
<1>6. CASE m.pending # <<>> /\ role = "model" /\ bs[1].k # "thought" /\ bs[1].sig = <<>>
  <2>1. m.pending \in Signature
    BY HeldTyped, TaggedTyped
  <2>2. PICK cs \in Seq(Blocks) : /\ cs = LeadSigned(bs, m.pending) /\ SignaturesOf(cs) = p \o c
                                  /\ \E b \in Range(cs) : b.id = bs[1].id /\ b.sig = m.pending
    BY <1>1, <1>6, <2>1, LeadSignedIs
  <2>8. role # "model" => NoCalls(cs)
    BY <1>6
  <2>3. PICK n : n = Joined(m, role, cs)
    OBVIOUS
  <2>4. /\ GeminiSound(n) /\ n.pending = m.pending /\ n.err = m.err
        /\ SignedSoFar(n.turns) = a \o (p \o c)
        /\ Range(AllBlocks(m.turns)) \subseteq Range(AllBlocks(n.turns)) /\ Range(cs) \subseteq Range(AllBlocks(n.turns))
    <3>1. /\ GeminiSound(n) /\ n.pending = m.pending /\ n.err = m.err
          /\ SignedSoFar(n.turns) = SignedSoFar(m.turns) \o SignaturesOf(cs)
          /\ Range(AllBlocks(m.turns)) \subseteq Range(AllBlocks(n.turns)) /\ Range(cs) \subseteq Range(AllBlocks(n.turns))
      <4>1. GeminiGrows(m, n, cs)
        BY <2>3, <2>8, GeminiJoined
      <4> QED BY <4>1 DEF GeminiGrows
    <3> QED BY <1>1, <2>2, <3>1
  <2>5. PICK q : q = Waiting(n, <<>>) /\ GeminiSound(q) /\ q.pending = <<>> /\ q.err = n.err /\ q.turns = n.turns
    BY <2>4, GeminiWaits DEF Tagged
  <2>6. GeminiAdd(m, role, bs) = q
    BY <1>6, <2>2, <2>3, <2>5 DEF GeminiAdd, LeadSigned, Joined, Waiting
  <2>7. Carried(q) = Carried(m) \o c
    BY <1>1, <1>2, <2>4, <2>5, HeldTyped
  <2> QED BY <1>1, <2>2, <2>4, <2>5, <2>6, <2>7 DEF GeminiSays
<1> QED BY <1>4, <1>5, <1>6

LEMMA GeminiKept ==
  ASSUME NEW m, GeminiSound(m)
  PROVE  /\ GeminiSays(m, m, <<>>)
         /\ \A x : GeminiSays(m, [m EXCEPT !.system = x], <<>>)
         /\ \A more : GeminiSays(m, [m EXCEPT !.err = TRUE], more)
         /\ \A x : GeminiSound([m EXCEPT !.leading = x]) /\ [m EXCEPT !.leading = x].turns = m.turns
                   /\ [m EXCEPT !.leading = x].pending = m.pending /\ [m EXCEPT !.leading = x].err = m.err
<1>1. PICK t, s, p, l, e : m = GeminiState(t, s, p, l, e) /\ t \in Seq(Messages) /\ CallsInModel(t) /\ Tagged(p)
  BY DEF GeminiSound
<1>2. m.turns = t /\ m.pending = p /\ m.err = e
  BY <1>1 DEF GeminiState
<1>3. Carried(m) \o <<>> = Carried(m)
  <2>1. PICK h \in Seq(Signature) : h = Carried(m)
    BY HeldTyped
  <2> QED BY <2>1, ConcatEmptySeq
<1>4. GeminiSays(m, m, <<>>)
  BY <1>3 DEF GeminiSays
<1>5. ASSUME NEW x
      PROVE  GeminiSays(m, [m EXCEPT !.system = x], <<>>)
  <2>1. PICK n : n = [m EXCEPT !.system = x]
    OBVIOUS
  <2>2. n = GeminiState(t, x, p, l, e)
    BY <1>1, <2>1, GeminiChanged
  <2>3. n.turns = t /\ n.pending = p
    BY <2>2 DEF GeminiState
  <2>4. GeminiSound(n)
    BY <1>1, <2>2 DEF GeminiSound
  <2>5. Carried(n) = Carried(m)
    BY <1>2, <2>3 DEF Carried
  <2> QED BY <1>2, <1>3, <2>1, <2>3, <2>4, <2>5 DEF GeminiSays
<1>6. ASSUME NEW more, NEW x, x
      PROVE  GeminiSays(m, [m EXCEPT !.err = x], more)
  <2>1. PICK n : n = [m EXCEPT !.err = x]
    OBVIOUS
  <2>2. n = GeminiState(t, s, p, l, x)
    BY <1>1, <2>1, GeminiChanged
  <2>3. n.turns = t /\ n.err = x
    BY <2>2 DEF GeminiState
  <2>4. GeminiSound(n)
    BY <1>1, <2>2 DEF GeminiSound
  <2> QED BY <1>2, <1>6, <2>1, <2>3, <2>4 DEF GeminiSays
<1>7. ASSUME NEW x
      PROVE  GeminiSound([m EXCEPT !.leading = x]) /\ [m EXCEPT !.leading = x].turns = m.turns
             /\ [m EXCEPT !.leading = x].pending = m.pending /\ [m EXCEPT !.leading = x].err = m.err
  <2>1. PICK n : n = [m EXCEPT !.leading = x]
    OBVIOUS
  <2>2. n = GeminiState(t, s, p, x, e)
    BY <1>1, <2>1, GeminiChanged
  <2>3. n.turns = t /\ n.pending = p /\ n.err = e
    BY <2>2 DEF GeminiState
  <2>4. GeminiSound(n)
    BY <1>1, <2>2 DEF GeminiSound
  <2> QED BY <1>2, <2>1, <2>3, <2>4
<1> QED BY <1>4, <1>5, <1>6, <1>7

(* What a message of supported parts becomes holds no call. *)
LEMMA NoCallsInMessages ==
  ASSUME NEW it, Entry(it), GeminiSupported(it, {"text", "refusal", "media"})
  PROVE  NoCalls(BlocksOf(GeminiReadable(it.said)))
<1>1. PICK said \in Seq(Words) : said = it.said
  BY EntryFields
<1>2. PICK ws \in Seq(Words) : /\ ws = GeminiReadable(it.said)
                               /\ \A i \in 1..Len(ws) : \E j \in 1..Len(said) : ws[i] = said[j] /\ said[j].k \notin GeminiForeign
  BY <1>1, PiecesTyped DEF GeminiReadable
<1>3. \A j \in 1..Len(said) : said[j].k \in {"text", "refusal", "media"} \cup GeminiForeign
  BY <1>1 DEF GeminiSupported
<1>4. \A i \in 1..Len(ws) : ws[i].k \in {"text", "refusal", "media"}
  BY <1>2, <1>3
<1>5. Len(ws) \in Nat /\ Len(BlocksOf(ws)) = Len(ws)
  BY LenProperties, BlocksOfPieces
<1>6. \A i \in 1..Len(ws) : BlocksOf(ws)[i].k \in {"text", "media"}
  BY <1>4 DEF BlocksOf, BlockOf, Block
<1> QED BY <1>2, <1>5, <1>6 DEF NoCalls

LEMMA GeminiMessage ==
  ASSUME NEW m, GeminiSound(m), NEW it, Entry(it)
  PROVE  GeminiSays(m, GeminiEncodeMessage(m, it), <<>>)
<1>1. PICK bs : bs = BlocksOf(GeminiReadable(it.said)) /\ Unsigned(bs) /\ bs \in Seq(Blocks)
  <2>1. PICK said \in Seq(Words) : said = GeminiReadable(it.said)
    BY EntryFields, PiecesTyped DEF GeminiReadable
  <2> QED BY <2>1, BlocksOfPieces DEF Unsigned
<1>2. /\ \A x : GeminiSays(m, [m EXCEPT !.system = x], <<>>)
      /\ \A more : GeminiSays(m, [m EXCEPT !.err = TRUE], more)
  BY GeminiKept
<1>3. PICK role \in Speakers : role = IF it.role = "assistant" THEN "model" ELSE "user"
  BY Speak
<1>4. CASE ~GeminiSupported(it, {"text", "refusal", "media"})
  BY <1>2, <1>4 DEF GeminiEncodeMessage
<1>5. CASE GeminiSupported(it, {"text", "refusal", "media"})
  <2>1. role # "model" => NoCalls(bs)
    BY <1>1, <1>5, NoCallsInMessages
  <2>2. SignaturesOf(bs) = <<>>
    BY <1>1, SignaturesNone
  <2>3. GeminiSays(m, GeminiAdd(m, role, bs), SignaturesOf(bs))
    BY <1>1, <2>1, <2>2, GeminiAdded
  <2>4. \/ GeminiEncodeMessage(m, it) = [m EXCEPT !.err = TRUE]
        \/ GeminiEncodeMessage(m, it) = [m EXCEPT !.system = @ \o bs]
        \/ GeminiEncodeMessage(m, it) = GeminiAdd(m, role, bs)
    BY <1>1, <1>3 DEF GeminiEncodeMessage
  <2> QED BY <1>2, <2>2, <2>3, <2>4
<1> QED BY <1>4, <1>5

(* An item that is one unsigned block. *)
LEMMA GeminiOne ==
  ASSUME NEW m, GeminiSound(m), NEW role \in Speakers, NEW k \in BlockKinds, NEW id \in Nat, NEW said \in Seq(Words),
         role # "model" => k # "call"
  PROVE  /\ GeminiSays(m, GeminiAdd(m, role, <<Block(k, id, said, <<>>)>>), <<>>)
         /\ GeminiAdd(m, role, <<Block(k, id, said, <<>>)>>).err = m.err
         /\ role = "model" /\ m.pending # <<>> /\ k # "thought" =>
              \E b \in Range(AllBlocks(GeminiAdd(m, role, <<Block(k, id, said, <<>>)>>).turns)) : b.id = id /\ b.sig = m.pending
<1>1. PICK bs \in Seq(Blocks) : bs = <<Block(k, id, said, <<>>)>> /\ Unsigned(bs)
  BY BlockUnsigned DEF Unsigned
<1>2. SignaturesOf(bs) = <<>>
  BY <1>1, SignaturesNone
<1>3. Len(bs) = 1 /\ bs # <<>> /\ bs[1].k = k /\ bs[1].id = id /\ bs[1].sig = <<>>
  BY <1>1 DEF Block
<1>4. role # "model" => NoCalls(bs)
  BY <1>3 DEF NoCalls
<1>5. PICK n : /\ n = GeminiAdd(m, role, bs) /\ GeminiSays(m, n, SignaturesOf(bs)) /\ n.err = m.err
               /\ bs # <<>> /\ role = "model" /\ m.pending # <<>> /\ bs[1].k # "thought" /\ bs[1].sig = <<>> =>
                    \E b \in Range(AllBlocks(n.turns)) : b.id = bs[1].id /\ b.sig = m.pending
  BY <1>2, <1>4, GeminiAdded
<1> QED BY <1>1, <1>2, <1>3, <1>5

(* A part of Gemini's own, with the signature it had. *)
LEMMA GeminiReturns ==
  ASSUME NEW m, GeminiSound(m), NEW it, Entry(it)
  PROVE  GeminiSays(m, GeminiAdd(m, "model", <<Block("extension", 0, it.said, it.sig)>>), Shown(it.sig))
<1>1. Tagged(it.sig) /\ it.said \in Seq(Words) /\ "extension" \in BlockKinds
  BY EntryFields DEF Entry, BlockKinds
<1>2. PICK sig \in Signature : sig = it.sig
  BY <1>1, TaggedTyped
<1>3. PICK said \in Seq(Words) : said = it.said
  BY <1>1
<1>4. PICK b \in Blocks : b = Block("extension", 0, said, sig) /\ b.sig = sig /\ b.k = "extension"
  <2>1. Block("extension", 0, said, sig) \in Blocks
    BY <1>1, BlockTyped
  <2> QED BY <2>1 DEF Block
<1>5. PICK bs \in Seq(Blocks) : bs = <<b>> /\ SignaturesOf(bs) = Shown(sig)
  BY <1>4, SignatureOfBlock
<1>6. Len(bs) = 1 /\ bs[1].k # "thought"
  BY <1>4, <1>5
<1>7. PICK role \in Speakers : role = "model"
  BY Speak
<1>8. role # "model" => NoCalls(bs)
  BY <1>7
<1>9. bs # <<>> /\ bs[1].k = "thought" => SignaturesOf(bs) = <<>>
  BY <1>6
<1>10. GeminiSays(m, GeminiAdd(m, role, bs), SignaturesOf(bs))
  BY <1>8, <1>9, GeminiAdded
<1> QED BY <1>2, <1>3, <1>4, <1>5, <1>7, <1>10

(* Thoughts are added, and their signature waits. *)
LEMMA GeminiReasoned ==
  ASSUME NEW m, GeminiSound(m), NEW it, Entry(it), it.type = "reasoning"
  PROVE  /\ GeminiSays(m, GeminiEncodeReasoning(m, it), GeminiSigned(it))
         /\ Renews(it) => GeminiEncodeReasoning(m, it).pending = it.sig
<1>1. PICK text \in Seq(Words) : text = TextOf(it, "summary", "reasoning_text")
  BY TextTyped
<1>2. PICK n : n = IF text = <<>> THEN m ELSE GeminiAdd(m, "model", <<Block("thought", 0, text, <<>>)>>)
  OBVIOUS
<1>3. GeminiSays(m, n, <<>>) /\ n.err = m.err
  <2>1. PICK role \in Speakers : role = "model"
    BY Speak
  <2>2. PICK k \in BlockKinds : k = "thought"
    BY DEF BlockKinds
  <2>3. role # "model" => k # "call"
    BY <2>1
  <2>4. GeminiSays(m, GeminiAdd(m, role, <<Block(k, 0, text, <<>>)>>), <<>>) /\ GeminiAdd(m, role, <<Block(k, 0, text, <<>>)>>).err = m.err
    BY <2>3, GeminiOne
  <2>5. GeminiSays(m, m, <<>>)
    BY GeminiKept
  <2> QED BY <1>2, <2>1, <2>2, <2>4, <2>5
<1>4. CASE it.by # "gemini"
  <2>1. GeminiEncodeReasoning(m, it) = m /\ GeminiSigned(it) = <<>> /\ ~Renews(it)
    BY <1>4 DEF GeminiEncodeReasoning, GeminiSigned, Renews, OwnExtension
  <2> QED BY <2>1, GeminiKept
<1>5. CASE it.by = "gemini" /\ it.sig = <<>>
  <2>1. GeminiEncodeReasoning(m, it) = n
    BY <1>1, <1>2, <1>5 DEF GeminiEncodeReasoning
  <2>2. GeminiSigned(it) = <<>> /\ ~Renews(it)
    BY <1>5 DEF GeminiSigned, Renews, OwnExtension
  <2> QED BY <1>3, <2>1, <2>2
<1>6. CASE it.by = "gemini" /\ it.sig # <<>>
  <2>1. PICK q : /\ q = FlushSignature(n) /\ GeminiSound(q) /\ q.err = n.err /\ SignedSoFar(q.turns) = Carried(n)
                 /\ Range(AllBlocks(n.turns)) \subseteq Range(AllBlocks(q.turns))
    BY <1>3, GeminiFlushed DEF GeminiSays
  <2>2. PICK sig : sig = it.sig /\ Tagged(sig) /\ Shown(sig) = <<sig>>
    BY <1>6, OwnSignature DEF Entry
  <2>3. PICK r : r = Waiting(q, sig) /\ GeminiSound(r) /\ r.pending = sig /\ r.err = q.err /\ r.turns = q.turns
    BY <2>1, <2>2, GeminiWaits
  <2>4. GeminiEncodeReasoning(m, it) = r
    BY <1>1, <1>2, <1>6, <2>1, <2>2, <2>3 DEF GeminiEncodeReasoning, Waiting
  <2>5. GeminiSigned(it) = <<sig>>
    BY <1>6, <2>2 DEF GeminiSigned, Renews, OwnExtension
  <2>6. Carried(r) = Carried(n) \o <<sig>>
    BY <2>1, <2>2, <2>3 DEF Carried
  <2>7. n.err \/ Carried(n) = Carried(m)
    <3>1. PICK h \in Seq(Signature) : h = Carried(m)
      BY HeldTyped
    <3>2. h \o <<>> = h
      BY ConcatEmptySeq
    <3> QED BY <1>3, <3>1, <3>2 DEF GeminiSays
  <2>8. Range(AllBlocks(m.turns)) \subseteq Range(AllBlocks(r.turns))
    BY <1>3, <2>1, <2>3 DEF GeminiSays
  <2>9. GeminiSays(m, r, <<sig>>)
    BY <2>1, <2>3, <2>6, <2>7, <2>8 DEF GeminiSays
  <2> QED BY <2>2, <2>3, <2>4, <2>5, <2>9
<1> QED BY <1>4, <1>5, <1>6

LEMMA GeminiEncoded ==
  ASSUME NEW m, GeminiSound(m), NEW it, Entry(it), NEW calls
  PROVE  /\ GeminiSays(m, GeminiEncodeItem(m, it, calls), GeminiSigned(it))
         /\ Renews(it) => GeminiEncodeItem(m, it, calls).pending = it.sig
         /\ it.type = "function_call" /\ m.pending # <<>> =>
              \E b \in Range(AllBlocks(GeminiEncodeItem(m, it, calls).turns)) : b.id = it.id /\ b.sig = m.pending
<1>1. it.said \in Seq(Words) /\ it.id \in Nat
  BY EntryFields
<1>2. PICK rest \in Seq(Words) : rest = GeminiReadable(it.said)
  BY <1>1, PiecesTyped DEF GeminiReadable
<1>3. GeminiSays(m, m, <<>>) /\ \A more : GeminiSays(m, [m EXCEPT !.err = TRUE], more)
  BY GeminiKept
<1>4. PICK model, user \in Speakers : model = "model" /\ user = "user"
  BY Speak
<1>5. CASE it.type = "message"
  <2>1. GeminiEncodeItem(m, it, calls) = GeminiEncodeMessage(m, it) /\ GeminiSigned(it) = <<>> /\ ~Renews(it)
    BY <1>5 DEF GeminiEncodeItem, GeminiSigned, Renews, OwnExtension
  <2> QED BY <1>5, <2>1, GeminiMessage
<1>6. CASE it.type = "function_call"
  <2>1. PICK k \in BlockKinds : k = "call"
    BY DEF BlockKinds
  <2>2. model # "model" => k # "call"
    BY <1>4
  <2>3. PICK n : n = GeminiAdd(m, model, <<Block(k, it.id, it.said, <<>>)>>)
    OBVIOUS
  <2>4. /\ GeminiSays(m, n, <<>>)
        /\ model = "model" /\ m.pending # <<>> /\ k # "thought" =>
             \E b \in Range(AllBlocks(n.turns)) : b.id = it.id /\ b.sig = m.pending
    <3>1. PICK id \in Nat, said \in Seq(Words) : id = it.id /\ said = it.said
      BY <1>1
    <3>2. n = GeminiAdd(m, model, <<Block(k, id, said, <<>>)>>)
      BY <2>3, <3>1
    <3>3. /\ GeminiSays(m, GeminiAdd(m, model, <<Block(k, id, said, <<>>)>>), <<>>)
          /\ model = "model" /\ m.pending # <<>> /\ k # "thought" =>
               \E b \in Range(AllBlocks(GeminiAdd(m, model, <<Block(k, id, said, <<>>)>>).turns)) : b.id = id /\ b.sig = m.pending
      BY <2>2, GeminiOne
    <3> QED BY <3>1, <3>2, <3>3
  <2>5. GeminiEncodeItem(m, it, calls) = n /\ GeminiSigned(it) = <<>> /\ ~Renews(it)
    BY <1>4, <1>6, <2>1, <2>3 DEF GeminiEncodeItem, GeminiSigned, Renews, OwnExtension
  <2> QED BY <1>4, <2>1, <2>4, <2>5
<1>7. CASE it.type = "function_call_output"
  <2>1. PICK k \in BlockKinds : k = "response"
    BY DEF BlockKinds
  <2>2. user # "model" => k # "call"
    BY <2>1
  <2>3. PICK id \in Nat : id = it.id
    BY <1>1
  <2>4. GeminiSays(m, GeminiAdd(m, user, <<Block(k, id, rest, <<>>)>>), <<>>)
    BY <2>2, GeminiOne
  <2>5. /\ \/ GeminiEncodeItem(m, it, calls) = GeminiAdd(m, user, <<Block(k, id, rest, <<>>)>>)
           \/ GeminiEncodeItem(m, it, calls) = [m EXCEPT !.err = TRUE]
        /\ GeminiSigned(it) = <<>> /\ ~Renews(it)
    BY <1>2, <1>4, <1>7, <2>1, <2>3 DEF GeminiEncodeItem, GeminiSigned, Renews, OwnExtension
  <2> QED BY <1>3, <1>7, <2>4, <2>5
<1>8. CASE it.type = "reasoning"
  <2>1. GeminiEncodeItem(m, it, calls) = GeminiEncodeReasoning(m, it)
    BY <1>8 DEF GeminiEncodeItem
  <2> QED BY <1>8, <2>1, GeminiReasoned
<1>9. CASE it.type = "extension"
  <2>1. CASE it.by = "gemini"
    <3>1. GeminiEncodeItem(m, it, calls) = GeminiAdd(m, "model", <<Block("extension", 0, it.said, it.sig)>>)
      BY <1>9, <2>1 DEF GeminiEncodeItem, GeminiForeign
    <3>2. GeminiSigned(it) = Shown(it.sig) /\ ~Renews(it)
      <4>1. it.sig # <<>> => Shown(it.sig) = <<it.sig>>
        BY OwnSignature
      <4>2. it.sig = <<>> => Shown(it.sig) = <<>>
        BY DEF Shown, OwnFiller
      <4> QED BY <1>9, <2>1, <4>1, <4>2 DEF GeminiSigned, Renews, OwnExtension
    <3> QED BY <1>9, <3>1, <3>2, GeminiReturns
  <2>2. CASE it.by # "gemini"
    <3>1. /\ \/ GeminiEncodeItem(m, it, calls) = m
             \/ GeminiEncodeItem(m, it, calls) = [m EXCEPT !.err = TRUE]
          /\ GeminiSigned(it) = <<>> /\ ~Renews(it)
      BY <1>9, <2>2 DEF GeminiEncodeItem, GeminiSigned, Renews, OwnExtension
    <3> QED BY <1>3, <1>9, <3>1
  <2> QED BY <2>1, <2>2
<1>10. CASE it.type \notin {"message", "function_call", "function_call_output", "reasoning", "extension"}
  <2>1. GeminiEncodeItem(m, it, calls) = [m EXCEPT !.err = TRUE] /\ ~Renews(it)
    BY <1>10 DEF GeminiEncodeItem, Renews
  <2> QED BY <1>3, <1>10, <2>1
<1> QED BY <1>5, <1>6, <1>7, <1>8, <1>9, <1>10

LEMMA GeminiStepped ==
  ASSUME NEW m, GeminiSound(m), NEW it, Entry(it), NEW calls
  PROVE  /\ GeminiSays(m, GeminiStep(m, it, calls), GeminiSigned(it))
         /\ m.err => GeminiStep(m, it, calls).err
         /\ Renews(it) /\ ~m.err => GeminiStep(m, it, calls).pending = it.sig
         /\ it.type = "function_call" /\ m.pending # <<>> /\ ~m.err =>
              \E b \in Range(AllBlocks(GeminiStep(m, it, calls).turns)) : b.id = it.id /\ b.sig = m.pending
<1>1. PICK n : /\ n = [m EXCEPT !.leading = @ /\ GeminiLeads(it)] /\ GeminiSound(n)
               /\ n.turns = m.turns /\ n.pending = m.pending /\ n.err = m.err
  BY GeminiKept
<1>2. PICK r : /\ r = GeminiEncodeItem(n, it, calls)
               /\ GeminiSays(n, r, GeminiSigned(it))
               /\ Renews(it) => r.pending = it.sig
               /\ it.type = "function_call" /\ n.pending # <<>> =>
                    \E b \in Range(AllBlocks(r.turns)) : b.id = it.id /\ b.sig = n.pending
  <2>2. GeminiSound(n)
    BY <1>1
  <2>1. /\ GeminiSays(n, GeminiEncodeItem(n, it, calls), GeminiSigned(it))
        /\ Renews(it) => GeminiEncodeItem(n, it, calls).pending = it.sig
        /\ it.type = "function_call" /\ n.pending # <<>> =>
             \E b \in Range(AllBlocks(GeminiEncodeItem(n, it, calls).turns)) : b.id = it.id /\ b.sig = n.pending
    BY <2>2, GeminiEncoded
  <2> QED BY <2>1
<1>3. GeminiSays(m, r, GeminiSigned(it))
  BY <1>1, <1>2 DEF GeminiSays, Carried
<1>4. CASE m.err
  <2>1. GeminiStep(m, it, calls) = m
    BY <1>4 DEF GeminiStep
  <2> QED BY <1>4, <2>1 DEF GeminiSays
<1>5. CASE ~m.err
  <2>1. GeminiStep(m, it, calls) = r
    BY <1>1, <1>2, <1>5 DEF GeminiStep
  <2> QED BY <1>1, <1>2, <1>3, <1>5, <2>1
<1> QED BY <1>4, <1>5

-----------------------------------------------------------------------------
(* The placeholders that every unsigned first call gets. *)
PlaceSigned(blocks, c) == [blocks EXCEPT ![c].sig = Placeholder]

LEMMA FirstCallIs ==
  ASSUME NEW bs \in Seq(Blocks)
  PROVE  /\ FirstCall(bs) = 0 => NoCalls(bs)
         /\ FirstCall(bs) # 0 => FirstCall(bs) \in 1..Len(bs) /\ bs[FirstCall(bs)].k = "call"
<1> DEFINE I == {i \in 1..Len(bs) : bs[i].k = "call"}
<1>1. Len(bs) \in Nat
  BY LenProperties
<1>2. FirstCall(bs) = IF I # {} THEN Min(I) ELSE 0
  BY DEF FirstCall, SelectInSeq
<1>3. I # {} => Min(I) \in I
  <2>1. SUFFICES ASSUME I # {} PROVE Min(I) \in I
    OBVIOUS
  <2>2. I \subseteq Nat
    BY <1>1
  <2>3. \E x \in I : \A y \in I : x <= y
    <3> HIDE DEF I
    <3>1. PICK x \in I : \A y \in I : ~(<<y, x>> \in OpToRel(<, Nat))
      BY <2>1, <2>2, NatLessThanWellFounded, WFMin
    <3>2. \A y \in I : ~(y < x)
      BY <2>2, <3>1 DEF OpToRel
    <3> QED BY <2>2, <3>2
  <2> HIDE DEF I
  <2> QED BY <2>3 DEF Min
<1>4. \A i \in I : i \in 1..Len(bs) /\ bs[i].k = "call" /\ i # 0
  BY <1>1
<1>5. I = {} => NoCalls(bs)
  BY DEF NoCalls
<1> HIDE DEF I
<1> QED BY <1>2, <1>3, <1>4, <1>5

LEMMA FirstCallSame ==
  ASSUME NEW a, NEW b, Len(a) = Len(b), \A i \in 1..Len(a) : a[i].k = b[i].k
  PROVE  FirstCall(a) = FirstCall(b)
<1>1. {i \in 1..Len(a) : a[i].k = "call"} = {i \in 1..Len(b) : b[i].k = "call"}
  OBVIOUS
<1> QED BY <1>1 DEF FirstCall, SelectInSeq

LEMMA PlaceSignedIs ==
  ASSUME NEW bs \in Seq(Blocks), NEW c \in 1..Len(bs), bs[c].sig = <<>>, NEW cs, cs = PlaceSigned(bs, c)
  PROVE  /\ cs \in Seq(Blocks) /\ Len(cs) = Len(bs) /\ cs[c].sig = Placeholder
         /\ \A i \in 1..Len(bs) : cs[i].k = bs[i].k /\ cs[i].id = bs[i].id /\ (bs[i].sig # <<>> => cs[i].sig = bs[i].sig)
         /\ Validates => SignaturesOf(cs) = SignaturesOf(bs)
<1>1. Len(bs) \in Nat /\ \A i \in 1..Len(bs) : bs[i] \in Blocks
  BY LenProperties, ElementOfSeq
<1>2. PICK h \in Blocks : h = bs[c]
  BY <1>1
<1>3. PICK b \in Blocks : b = [h EXCEPT !.sig = Placeholder] /\ b.sig = Placeholder /\ b.id = h.id /\ b.k = h.k
  <2>1. PICK p \in Signature : p = Placeholder
    <3>1. <<0>> \in Seq(Nat)
      OBVIOUS
    <3> QED BY <3>1 DEF Placeholder, Signature
  <2>2. PICK b : b = [h EXCEPT !.sig = p]
    OBVIOUS
  <2>3. b \in Blocks
    BY <2>2 DEF Blocks
  <2>4. b.sig = p /\ b.id = h.id /\ b.k = h.k
    BY <2>2 DEF Blocks
  <2> QED BY <2>1, <2>2, <2>3, <2>4
<1>4. cs = [bs EXCEPT ![c] = b]
  BY <1>2, <1>3 DEF PlaceSigned
<1>5. cs \in Seq(Blocks)
  BY <1>4, ExceptSeq
<1>6. Len(cs) = Len(bs) /\ \A j \in 1..Len(bs) : cs[j] = IF j = c THEN b ELSE bs[j]
  BY <1>1, <1>4
<1>7. \A i \in 1..Len(bs) : cs[i].k = bs[i].k /\ cs[i].id = bs[i].id /\ (bs[i].sig # <<>> => cs[i].sig = bs[i].sig)
  BY <1>2, <1>3, <1>6
<1>8. ASSUME Validates
      PROVE  \A i \in 1..Len(bs) : Shown(cs[i].sig) = Shown(bs[i].sig)
  <2>1. Shown(Placeholder) = <<>> /\ Shown(<<>>) = <<>>
    BY <1>8 DEF Shown, OwnFiller
  <2> QED BY <1>2, <1>3, <1>6, <2>1
<1> QED BY <1>3, <1>5, <1>6, <1>7, <1>8, SignaturesSame

(* A block that carries a signature to a call. *)
Leads(blocks, id, sig) == \E b \in Range(blocks) : b.id = id /\ b.sig = sig

LEMMA PlaceholderIn ==
  ASSUME NEW t \in Seq(Messages), NEW i \in 1..Len(t), CallsInModel(t), Validates, NEW u, u = PlaceholderSignatures(t)[i]
  PROVE  /\ u \in Messages /\ SignaturesOf(u.blocks) = SignaturesOf(t[i].blocks)
         /\ FirstCall(u.blocks) # 0 => u.blocks[FirstCall(u.blocks)].sig # <<>>
         /\ Len(u.blocks) = Len(t[i].blocks)
         /\ \A b \in 1..Len(t[i].blocks) :
              u.blocks[b].id = t[i].blocks[b].id /\ (t[i].blocks[b].sig # <<>> => u.blocks[b].sig = t[i].blocks[b].sig)
<1>1. t[i] \in Messages
  BY ElementOfSeq, LenProperties
<1>2. PICK bs \in Seq(Blocks) : bs = t[i].blocks
  BY <1>1, TurnIs
<1>3. PICK c : c = FirstCall(bs)
  OBVIOUS
<1>4. c # 0 => c \in 1..Len(bs) /\ bs[c].k = "call"
  BY <1>3, FirstCallIs
<1>5. CASE t[i].role = "model" /\ c # 0 /\ bs[c].sig = <<>>
  <2>1. PICK cs \in Seq(Blocks) :
          /\ cs = PlaceSigned(bs, c) /\ Len(cs) = Len(bs) /\ cs[c].sig = Placeholder
          /\ \A j \in 1..Len(bs) : cs[j].k = bs[j].k /\ cs[j].id = bs[j].id /\ (bs[j].sig # <<>> => cs[j].sig = bs[j].sig)
          /\ SignaturesOf(cs) = SignaturesOf(bs)
    BY <1>4, <1>5, PlaceSignedIs
  <2>2. u = Turn("model", cs)
    BY <1>2, <1>3, <1>5, <2>1 DEF PlaceholderSignatures, PlaceSigned
  <2>3. u \in Messages /\ u.blocks = cs
    BY <2>1, <2>2, TurnTyped, Speak
  <2>4. FirstCall(cs) = c
    BY <1>3, <2>1, FirstCallSame
  <2>5. cs[FirstCall(cs)].sig # <<>>
    <3>1. <<0>> # <<>>
      OBVIOUS
    <3> QED BY <2>1, <2>4, <3>1 DEF Placeholder
  <2> QED BY <1>2, <2>1, <2>3, <2>5
<1>6. CASE ~(t[i].role = "model" /\ c # 0 /\ bs[c].sig = <<>>)
  <2>1. u = t[i]
    BY <1>2, <1>3, <1>6 DEF PlaceholderSignatures
  <2>2. c # 0 => t[i].role = "model"
    BY <1>2, <1>4 DEF CallsInModel, NoCalls
  <2>3. c # 0 => bs[c].sig # <<>>
    BY <1>6, <2>2
  <2> QED BY <1>1, <1>2, <1>3, <2>1, <2>3
<1> QED BY <1>5, <1>6

LEMMA LeadsInTurn ==
  ASSUME NEW t \in Seq(Messages), NEW id, NEW sig, Leads(AllBlocks(t), id, sig)
  PROVE  \E i \in 1..Len(t) : \E b \in 1..Len(t[i].blocks) : t[i].blocks[b].id = id /\ t[i].blocks[b].sig = sig
<1>1. \A i \in 1..Len(t) : t[i] \in Messages
  BY LenProperties, ElementOfSeq
<1>2. PICK y \in Range(AllBlocks(t)) : y.id = id /\ y.sig = sig
  BY DEF Leads
<1>3. AllBlocks(t) = Spread(BlocksIn, t)
  BY BlocksSpread
<1>4. BlocksIn \in [Messages -> Seq(Blocks)]
  BY BlocksSpread DEF Makes
<1>5. PICK i \in 1..Len(t) : y \in Range(BlocksIn[t[i]])
  BY <1>2, <1>3, <1>4, SpreadElements
<1>6. BlocksIn[t[i]] = t[i].blocks /\ t[i].blocks \in Seq(Blocks)
  BY <1>1, TurnIs DEF BlocksIn
<1>7. PICK b \in 1..Len(t[i].blocks) : y = t[i].blocks[b]
  BY <1>5, <1>6, ElementIn
<1> QED BY <1>2, <1>7

LEMMA PlaceholdersSent ==
  ASSUME NEW t \in Seq(Messages), CallsInModel(t), Validates, NEW u, u = PlaceholderSignatures(t)
  PROVE  /\ SignaturesOf(AllBlocks(u)) = SignaturesOf(AllBlocks(t))
         /\ \A i \in 1..Len(u) : FirstCall(u[i].blocks) # 0 => u[i].blocks[FirstCall(u[i].blocks)].sig # <<>>
         /\ \A id, sig : Leads(AllBlocks(t), id, sig) /\ sig # <<>> =>
              \E i \in 1..Len(u) : \E b \in 1..Len(u[i].blocks) : u[i].blocks[b].id = id /\ u[i].blocks[b].sig = sig
<1>1. Len(t) \in Nat /\ \A i \in 1..Len(t) : t[i] \in Messages
  BY LenProperties, ElementOfSeq
<1>2. ASSUME NEW i \in 1..Len(t)
      PROVE  /\ u[i] \in Messages /\ SignaturesOf(u[i].blocks) = SignaturesOf(t[i].blocks)
             /\ FirstCall(u[i].blocks) # 0 => u[i].blocks[FirstCall(u[i].blocks)].sig # <<>>
             /\ Len(u[i].blocks) = Len(t[i].blocks)
             /\ \A b \in 1..Len(t[i].blocks) :
                  u[i].blocks[b].id = t[i].blocks[b].id /\ (t[i].blocks[b].sig # <<>> => u[i].blocks[b].sig = t[i].blocks[b].sig)
  <2>1. PICK x : x = u[i]
    OBVIOUS
  <2>2. /\ x \in Messages /\ SignaturesOf(x.blocks) = SignaturesOf(t[i].blocks)
        /\ FirstCall(x.blocks) # 0 => x.blocks[FirstCall(x.blocks)].sig # <<>>
        /\ Len(x.blocks) = Len(t[i].blocks)
        /\ \A b \in 1..Len(t[i].blocks) :
             x.blocks[b].id = t[i].blocks[b].id /\ (t[i].blocks[b].sig # <<>> => x.blocks[b].sig = t[i].blocks[b].sig)
    BY <2>1, PlaceholderIn
  <2> QED BY <2>1, <2>2
<1>3. u \in Seq(Messages) /\ Len(u) = Len(t)
  <2>1. u = [i \in 1..Len(t) |-> u[i]]
    BY DEF PlaceholderSignatures
  <2>2. [i \in 1..Len(t) |-> u[i]] \in Seq(Messages)
    BY <1>1, <1>2, IsASeq
  <2>3. Len(u) = Len(t)
    BY <1>1 DEF PlaceholderSignatures
  <2> QED BY <2>1, <2>2, <2>3
<1>4. SignaturesOf(AllBlocks(u)) = SignaturesOf(AllBlocks(t))
  <2>1. \A i \in 1..Len(u) : SignedIn[u[i]] = SignedIn[t[i]]
    BY <1>1, <1>2, <1>3 DEF SignedIn
  <2>2. Spread(SignedIn, u) = Spread(SignedIn, t)
    BY <1>3, <2>1, SpreadSame
  <2>3. SignedSoFar(u) = SignedSoFar(t)
    BY <1>3, <2>2, SignedSpread
  <2> QED BY <2>3 DEF SignedSoFar
<1>5. ASSUME NEW id, NEW sig, Leads(AllBlocks(t), id, sig), sig # <<>>
      PROVE  \E i \in 1..Len(u) : \E b \in 1..Len(u[i].blocks) : u[i].blocks[b].id = id /\ u[i].blocks[b].sig = sig
  <2>1. PICK i \in 1..Len(t) : \E b \in 1..Len(t[i].blocks) : t[i].blocks[b].id = id /\ t[i].blocks[b].sig = sig
    BY <1>5, LeadsInTurn
  <2>2. PICK b \in 1..Len(t[i].blocks) : t[i].blocks[b].id = id /\ t[i].blocks[b].sig = sig
    BY <2>1
  <2>3. b \in 1..Len(u[i].blocks) /\ u[i].blocks[b].id = id /\ u[i].blocks[b].sig = sig
    BY <1>2, <1>5, <2>2
  <2> QED BY <1>3, <2>3
<1> QED BY <1>2, <1>3, <1>4, <1>5

LEMMA GeminiOwns ==
  ASSUME NEW T, \A it \in T : Entry(it)
  PROVE  \E f : Makes(f, T, Signature) /\ \A it \in T : f[it] = GeminiSigned(it)
<1> DEFINE f == [it \in T |-> GeminiSigned(it)]
<1>1. ASSUME NEW it \in T
      PROVE  GeminiSigned(it) \in Seq(Signature)
  <2>1. it.sig # <<>> => <<it.sig>> \in Seq(Signature)
    BY OwnSignature
  <2> QED BY <2>1, EmptySeq DEF GeminiSigned, Renews, OwnExtension
<1>2. Makes(f, T, Signature)
  BY <1>1 DEF Makes
<1>3. \A it \in T : f[it] = GeminiSigned(it)
  OBVIOUS
<1> HIDE DEF f
<1> QED BY <1>2, <1>3

(***************************************************************************)
(* Before any placeholder is added, Gemini's contents hold the signatures  *)
(* of its own items once and in order, and a thought that a call followed  *)
(* has put its signature on that call (request.go, flushSignature and      *)
(* addPart).                                                               *)
(***************************************************************************)
THEOREM GeminiSendsItsOwn ==
  ASSUME NEW items, Conversation(items), ~GeminiInput(items).err
  PROVE  /\ GeminiInput(items).turns \in Seq(Messages) /\ CallsInModel(GeminiInput(items).turns)
         /\ SignaturesOf(AllBlocks(GeminiInput(items).turns)) = FlattenSeq([i \in 1..Len(items) |-> GeminiSigned(items[i])])
         /\ \A i \in 1..Len(items) - 1 :
              Renews(items[i]) /\ items[i + 1].type = "function_call" =>
                Leads(AllBlocks(GeminiInput(items).turns), items[i + 1].id, items[i].sig)
<1>1. PICK T : items \in Seq(T) /\ \A it \in T : Entry(it)
  BY DEF Conversation
<1>2. Len(items) \in Nat /\ \A i \in 1..Len(items) : items[i] \in T
  BY <1>1, LenProperties, ElementOfSeq
<1>3. PICK s : Run("gemini", items, CallsIn(items), s) /\ GeminiInput(items) = FlushSignature(s[Len(items)])
  BY <1>2, GeminiRun
<1>4. PICK f : Makes(f, T, Signature) /\ \A it \in T : f[it] = GeminiSigned(it)
  BY <1>1, GeminiOwns
<1>5. \A p \in Seq(T), it \in T : Spread(f, Append(p, it)) = Spread(f, p) \o GeminiSigned(it)
  <2>1. \A p \in Seq(T), it \in T : Spread(f, Append(p, it)) = Spread(f, p) \o f[it]
    BY <1>4, Spreads
  <2> QED BY <1>4, <2>1
<1> DEFINE Led(i, m) == Leads(AllBlocks(m.turns), items[i + 1].id, items[i].sig)
           Wanted(i) == Renews(items[i]) /\ items[i + 1].type = "function_call"
           Good(k) == /\ Carried(s[k]) = Spread(f, Prefix(items, k))
                      /\ \A i \in 1..k - 1 : Wanted(i) => Led(i, s[k])
                      /\ k # 0 /\ Renews(items[k]) => s[k].pending = items[k].sig
           S == {k \in Nat : k <= Len(items) => GeminiSound(s[k]) /\ (s[k].err \/ Good(k))}
<1>6. 0 \in S
  <2>1. s[0] = GeminiState(<<>>, <<>>, <<>>, TRUE, FALSE)
    BY <1>3 DEF Run, EncodeStart, GeminiStart, GeminiState
  <2>2. s[0].turns = <<>> /\ s[0].pending = <<>>
    BY <2>1 DEF GeminiState
  <2>3. GeminiSound(s[0])
    <3>1. CallsInModel(<<>>) /\ Tagged(<<>>)
      BY DEF CallsInModel, Tagged
    <3> QED BY <2>1, <3>1, SignedEmpty DEF GeminiSound
  <2>4. Carried(s[0]) = <<>>
    BY <2>2, <2>3, SignedEmpty, HeldTyped
  <2>5. Spread(f, Prefix(items, 0)) = <<>>
    BY <1>1, SpreadEmpty, PrefixGrows
  <2> QED BY <2>3, <2>4, <2>5
<1>7. ASSUME NEW k \in Nat, k \in S
      PROVE  k + 1 \in S
  <2> HIDE DEF Led, Wanted
  <2> SUFFICES ASSUME k + 1 <= Len(items)
               PROVE  GeminiSound(s[k + 1]) /\ (s[k + 1].err \/ Good(k + 1))
    OBVIOUS
  <2>1. GeminiSound(s[k]) /\ (s[k].err \/ Good(k)) /\ k \in 0..Len(items) - 1 /\ k + 1 \in 1..Len(items)
    BY <1>2, <1>7
  <2>2. PICK it \in T : it = items[k + 1] /\ Entry(it)
    BY <1>1, <1>2, <2>1
  <2>3. PICK m, n : m = s[k] /\ n = s[k + 1] /\ n = GeminiStep(m, it, CallsIn(items)) /\ GeminiSound(m)
    BY <1>3, <2>1, <2>2 DEF Run, EncodeStep
  <2>4. /\ GeminiSays(m, n, GeminiSigned(it))
        /\ m.err => n.err
        /\ Renews(it) /\ ~m.err => n.pending = it.sig
        /\ it.type = "function_call" /\ m.pending # <<>> /\ ~m.err => Leads(AllBlocks(n.turns), it.id, m.pending)
    BY <2>2, <2>3, GeminiStepped DEF Leads
  <2>5. PICK p \in Seq(T) : p = Prefix(items, k) /\ Prefix(items, k + 1) = Append(p, it)
    BY <1>1, <2>1, <2>2, PrefixGrows
  <2>6. CASE n.err
    BY <2>3, <2>4, <2>6 DEF GeminiSays
  <2>7. CASE ~n.err
    <3>1. Good(k) /\ ~m.err
      BY <2>1, <2>3, <2>4, <2>7
    <3>2. Carried(n) = Spread(f, Prefix(items, k + 1))
      <4>1. Carried(n) = Carried(m) \o GeminiSigned(it)
        BY <2>4, <2>7 DEF GeminiSays
      <4> QED BY <1>5, <2>3, <2>5, <3>1, <4>1
    <3>3. ASSUME NEW i \in 1..k, Wanted(i)
          PROVE  Led(i, n)
      <4>1. CASE i \in 1..k - 1
        <5>1. Led(i, m)
          BY <2>3, <3>1, <3>3, <4>1
        <5> QED BY <2>4, <5>1 DEF GeminiSays, Leads, Led
      <4>2. CASE i = k /\ k # 0
        <5>1. Renews(items[k]) /\ it.type = "function_call"
          BY <2>2, <3>3, <4>2 DEF Wanted
        <5>2. m.pending = items[k].sig /\ items[k].sig # <<>>
          BY <2>3, <3>1, <4>2, <5>1 DEF Renews
        <5>3. Leads(AllBlocks(n.turns), it.id, items[k].sig)
          BY <2>4, <3>1, <5>1, <5>2
        <5> QED BY <2>2, <4>2, <5>3 DEF Led
      <4>3. i \in 1..k - 1 \/ (i = k /\ k # 0)
        OBVIOUS
      <4> QED BY <4>1, <4>2, <4>3
    <3>4. (k + 1) - 1 = k
      OBVIOUS
    <3>5. Renews(items[k + 1]) => n.pending = items[k + 1].sig
      BY <2>2, <2>4, <3>1
    <3>6. Good(k + 1)
      BY <2>3, <3>2, <3>3, <3>4, <3>5
    <3> QED BY <2>3, <2>4, <3>6 DEF GeminiSays
  <2> QED BY <2>6, <2>7
<1> HIDE DEF S
<1>8. \A k \in Nat : k \in S
  BY <1>6, <1>7, NaturalSteps
<1>9. PICK m : m = s[Len(items)] /\ GeminiSound(m) /\ (m.err \/ Good(Len(items)))
  BY <1>2, <1>8 DEF S
<1>10. PICK q : /\ q = GeminiInput(items) /\ GeminiSound(q) /\ q.err = m.err /\ SignedSoFar(q.turns) = Carried(m)
                /\ Range(AllBlocks(m.turns)) \subseteq Range(AllBlocks(q.turns))
  BY <1>3, <1>9, GeminiFlushed
<1>11. Good(Len(items))
  BY <1>9, <1>10
<1>12. q.turns \in Seq(Messages) /\ CallsInModel(q.turns)
  <2>1. PICK t, sy, p, l, e : q = GeminiState(t, sy, p, l, e) /\ t \in Seq(Messages) /\ CallsInModel(t) /\ Tagged(p)
    BY <1>10 DEF GeminiSound
  <2>2. q.turns = t
    BY <2>1 DEF GeminiState
  <2> QED BY <2>1, <2>2
<1>13. Spread(f, items) = FlattenSeq([i \in 1..Len(items) |-> GeminiSigned(items[i])])
  <2>1. \A i \in 1..Len(items) : f[items[i]] = GeminiSigned(items[i])
    BY <1>2, <1>4
  <2>2. [i \in 1..Len(items) |-> f[items[i]]] = [i \in 1..Len(items) |-> GeminiSigned(items[i])]
    BY <2>1, Zenon
  <2> QED BY <2>2 DEF Spread
<1>14. SignaturesOf(AllBlocks(q.turns)) = FlattenSeq([i \in 1..Len(items) |-> GeminiSigned(items[i])])
  BY <1>1, <1>9, <1>10, <1>11, <1>13, PrefixGrows DEF SignedSoFar
<1>15. ASSUME NEW i \in 1..Len(items) - 1, Wanted(i)
       PROVE  Led(i, q)
  <2> HIDE DEF Wanted
  <2>1. Led(i, m)
    BY <1>9, <1>11, <1>15
  <2> QED BY <1>10, <2>1 DEF Leads
<1> QED BY <1>10, <1>12, <1>14, <1>15

-----------------------------------------------------------------------------
(***************************************************************************)
(* Where the messages of a request are: what a message that is added, or   *)
(* blocks that join the last one, leave as it was.                         *)
(***************************************************************************)
Carries(blocks, k, id) == \E b \in 1..Len(blocks) : blocks[b].k = k /\ blocks[b].id = id
Lacks(blocks, k)     == \A b \in 1..Len(blocks) : blocks[b].k # k
OnlyFrom(turns, role, k) == \A i \in 1..Len(turns) : turns[i].role # role => Lacks(turns[i].blocks, k)
Prolonged(t, u) ==
  /\ Len(t) <= Len(u)
  /\ \A i \in 1..Len(t) : u[i].role = t[i].role /\ \A k, id : Carries(t[i].blocks, k, id) => Carries(u[i].blocks, k, id)

LEMMA CarriesConcat ==
  ASSUME NEW a \in Seq(Blocks), NEW b \in Seq(Blocks)
  PROVE  /\ \A k, id : Carries(a, k, id) \/ Carries(b, k, id) => Carries(a \o b, k, id)
         /\ \A k : Lacks(a, k) /\ Lacks(b, k) => Lacks(a \o b, k)
<1>1. /\ Len(a) \in Nat /\ Len(b) \in Nat /\ Len(a \o b) = Len(a) + Len(b)
      /\ \A i \in 1..Len(a) + Len(b) : (a \o b)[i] = IF i <= Len(a) THEN a[i] ELSE b[i - Len(a)]
  BY ConcatProperties, LenProperties
<1>2. \A i \in 1..Len(a) : i \in 1..Len(a \o b) /\ (a \o b)[i] = a[i]
  BY <1>1
<1>3. ASSUME NEW i \in 1..Len(b)
      PROVE  i + Len(a) \in 1..Len(a \o b) /\ (a \o b)[i + Len(a)] = b[i]
  <2>1. i + Len(a) \in 1..Len(a) + Len(b) /\ (i + Len(a)) - Len(a) = i /\ ~(i + Len(a) <= Len(a))
    BY <1>1
  <2> QED BY <1>1, <2>1
<1>4. ASSUME NEW k, Lacks(a, k), Lacks(b, k), NEW i \in 1..Len(a) + Len(b)
      PROVE  (a \o b)[i].k # k
  <2>1. CASE i <= Len(a)
    <3>1. i \in 1..Len(a)
      BY <1>1, <2>1
    <3> QED BY <1>2, <1>4, <3>1 DEF Lacks
  <2>2. CASE ~(i <= Len(a))
    <3>1. i - Len(a) \in 1..Len(b)
      BY <1>1, <2>2
    <3> QED BY <1>1, <1>4, <2>2, <3>1 DEF Lacks
  <2> QED BY <2>1, <2>2
<1>5. \A k, id : Carries(a, k, id) \/ Carries(b, k, id) => Carries(a \o b, k, id)
  <2>1. ASSUME NEW k, NEW id, Carries(a, k, id)
        PROVE  Carries(a \o b, k, id)
    BY <1>2, <2>1 DEF Carries
  <2>2. ASSUME NEW k, NEW id, Carries(b, k, id)
        PROVE  Carries(a \o b, k, id)
    BY <1>3, <2>2 DEF Carries
  <2> QED BY <2>1, <2>2
<1>6. \A k : Lacks(a, k) /\ Lacks(b, k) => Lacks(a \o b, k)
  BY <1>1, <1>4 DEF Lacks
<1> QED BY <1>5, <1>6

LEMMA ProlongedAgain ==
  ASSUME NEW t, NEW u, NEW v, Len(t) \in Nat, Len(u) \in Nat, Len(v) \in Nat, Prolonged(t, u), Prolonged(u, v)
  PROVE  Prolonged(t, v)
<1>1. Len(t) <= Len(v) /\ \A i \in 1..Len(t) : i \in 1..Len(u)
  BY DEF Prolonged
<1> QED BY <1>1 DEF Prolonged

LEMMA AppendPlaces ==
  ASSUME NEW t \in Seq(Messages), NEW x \in Messages, NEW u, u = Append(t, x)
  PROVE  /\ u \in Seq(Messages) /\ Len(t) \in Nat /\ Len(u) = Len(t) + 1 /\ Prolonged(t, u) /\ u[Len(u)] = x
         /\ \A i \in 1..Len(t) : u[i] = t[i]
<1>1. /\ u \in Seq(Messages) /\ Len(t) \in Nat /\ Len(u) = Len(t) + 1 /\ u[Len(t) + 1] = x
      /\ \A i \in 1..Len(t) : u[i] = t[i]
  BY LenProperties, AppendProperties
<1> QED BY <1>1 DEF Prolonged

LEMMA JoinPlaces ==
  ASSUME NEW t \in Seq(Messages), NEW role \in Speakers, NEW bs \in Seq(Blocks), NEW u, u = Join(t, role, bs)
  PROVE  /\ u \in Seq(Messages) /\ Len(t) \in Nat /\ Prolonged(t, u)
         /\ Len(u) = IF Len(t) # 0 /\ t[Len(t)].role = role THEN Len(t) ELSE Len(t) + 1
         /\ u[Len(u)].role = role /\ \A k, id : Carries(bs, k, id) => Carries(u[Len(u)].blocks, k, id)
         /\ \A k, r : OnlyFrom(t, r, k) /\ (role # r => Lacks(bs, k)) => OnlyFrom(u, r, k)
<1>1. Len(t) \in Nat /\ (t = <<>> <=> Len(t) = 0) /\ (t # <<>> => Last(t) = t[Len(t)])
  BY LenProperties, EmptySeq, EndOf
<1>2. CASE u = Append(t, Turn(role, bs)) /\ ~(t # <<>> /\ Last(t).role = role)
  <2>1. /\ u \in Seq(Messages) /\ Len(u) = Len(t) + 1 /\ Prolonged(t, u)
        /\ u[Len(u)].role = role /\ u[Len(u)].blocks = bs /\ \A i \in 1..Len(t) : u[i] = t[i]
    <3>1. PICK x \in Messages : x = Turn(role, bs) /\ x.role = role /\ x.blocks = bs
      BY TurnTyped
    <3>2. u = Append(t, x)
      BY <1>2, <3>1
    <3>3. u \in Seq(Messages) /\ Len(u) = Len(t) + 1
      BY <3>2, AppendPlaces
    <3>4. \A i \in 1..Len(t) : u[i] = t[i]
      BY <3>2, AppendPlaces
    <3>5. u[Len(u)] = x
      BY <3>2, AppendPlaces
    <3>6. Prolonged(t, u)
      BY <1>1, <3>3, <3>4 DEF Prolonged
    <3> QED BY <3>1, <3>3, <3>4, <3>5, <3>6
  <2>2. ASSUME NEW k, NEW r, OnlyFrom(t, r, k), role # r => Lacks(bs, k), NEW i \in 1..Len(u), u[i].role # r
        PROVE  Lacks(u[i].blocks, k)
    <3>1. i \in 1..Len(t) \/ i = Len(u)
      BY <1>1, <2>1
    <3> QED BY <2>1, <2>2, <3>1 DEF OnlyFrom
  <2>3. \A k, r : OnlyFrom(t, r, k) /\ (role # r => Lacks(bs, k)) => OnlyFrom(u, r, k)
    BY <2>2 DEF OnlyFrom
  <2>4. ~(Len(t) # 0 /\ t[Len(t)].role = role)
    BY <1>1, <1>2
  <2> QED BY <1>1, <2>1, <2>3, <2>4
<1>3. CASE \E v \in Seq(Messages), cs \in Seq(Blocks) :
             t = Append(v, Turn(role, cs)) /\ u = Append(v, Turn(role, cs \o bs))
  <2>1. PICK v \in Seq(Messages), cs \in Seq(Blocks) :
          t = Append(v, Turn(role, cs)) /\ u = Append(v, Turn(role, cs \o bs))
    BY <1>3
  <2>2. PICK ds \in Seq(Blocks) : /\ ds = cs \o bs
                                  /\ \A k, id : Carries(cs, k, id) \/ Carries(bs, k, id) => Carries(ds, k, id)
                                  /\ \A k : Lacks(cs, k) /\ Lacks(bs, k) => Lacks(ds, k)
    BY ConcatProperties, CarriesConcat
  <2>3. /\ Len(v) \in Nat /\ Len(t) = Len(v) + 1 /\ t[Len(t)].role = role /\ t[Len(t)].blocks = cs
        /\ \A i \in 1..Len(v) : t[i] = v[i]
    <3>1. PICK x \in Messages : x = Turn(role, cs) /\ x.role = role /\ x.blocks = cs
      BY TurnTyped
    <3>2. t = Append(v, x)
      BY <2>1, <3>1
    <3> QED BY <3>1, <3>2, AppendPlaces
  <2>4. /\ u \in Seq(Messages) /\ Len(u) = Len(v) + 1 /\ u[Len(u)].role = role /\ u[Len(u)].blocks = ds
        /\ \A i \in 1..Len(v) : u[i] = v[i]
    <3>1. PICK x \in Messages : x = Turn(role, ds) /\ x.role = role /\ x.blocks = ds
      BY TurnTyped
    <3>2. u = Append(v, x)
      BY <2>1, <2>2, <3>1
    <3> QED BY <3>1, <3>2, AppendPlaces
  <2>5. Len(u) = Len(t) /\ \A i \in 1..Len(t) : i = Len(t) \/ (i \in 1..Len(v) /\ u[i] = t[i])
    <3>1. \A i \in 1..Len(t) : i = Len(t) \/ i \in 1..Len(v)
      BY <2>3
    <3> QED BY <2>3, <2>4, <3>1
  <2>6. Prolonged(t, u)
    <3>1. Len(t) <= Len(u)
      BY <1>1, <2>5
    <3>2. ASSUME NEW i \in 1..Len(t)
          PROVE  u[i].role = t[i].role /\ \A k, id : Carries(t[i].blocks, k, id) => Carries(u[i].blocks, k, id)
      <4>1. CASE i = Len(t)
        <5>1. u[i].role = t[i].role /\ u[i].blocks = ds /\ t[i].blocks = cs
          BY <2>3, <2>4, <2>5, <4>1
        <5> QED BY <2>2, <5>1
      <4>2. CASE i # Len(t)
        BY <2>5, <4>2
      <4> QED BY <4>1, <4>2
    <3> QED BY <3>1, <3>2 DEF Prolonged
  <2>7. ASSUME NEW k, NEW r, OnlyFrom(t, r, k), role # r => Lacks(bs, k), NEW i \in 1..Len(u), u[i].role # r
        PROVE  Lacks(u[i].blocks, k)
    <3>1. CASE i = Len(t)
      <4>1. Len(t) \in 1..Len(t)
        BY <2>3
      <4>2. Lacks(cs, k)
        BY <2>3, <2>4, <2>5, <2>7, <3>1, <4>1 DEF OnlyFrom
      <4> QED BY <2>2, <2>4, <2>5, <2>7, <3>1, <4>2
    <3>2. CASE i # Len(t)
      <4>1. u[i] = t[i] /\ i \in 1..Len(t)
        BY <2>5, <2>7, <3>2
      <4> QED BY <2>7, <4>1 DEF OnlyFrom
    <3> QED BY <3>1, <3>2
  <2>8. \A k, r : OnlyFrom(t, r, k) /\ (role # r => Lacks(bs, k)) => OnlyFrom(u, r, k)
    BY <2>7 DEF OnlyFrom
  <2>9. Len(u) = IF Len(t) # 0 /\ t[Len(t)].role = role THEN Len(t) ELSE Len(t) + 1
    <3>1. Len(t) # 0 /\ t[Len(t)].role = role
      BY <2>3
    <3> QED BY <2>5, <3>1
  <2>10. \A k, id : Carries(bs, k, id) => Carries(u[Len(u)].blocks, k, id)
    BY <2>2, <2>4
  <2>11. u \in Seq(Messages) /\ u[Len(u)].role = role
    BY <2>4
  <2> QED BY <1>1, <2>6, <2>8, <2>9, <2>10, <2>11, Zenon
<1>4. \/ u = Append(t, Turn(role, bs)) /\ ~(t # <<>> /\ Last(t).role = role)
      \/ \E v \in Seq(Messages), cs \in Seq(Blocks) :
           t = Append(v, Turn(role, cs)) /\ u = Append(v, Turn(role, cs \o bs))
  BY JoinIs
<1> QED BY <1>2, <1>3, <1>4, Zenon

(* The call is in the last message; or before the user's, which is last;   *)
(* or it has its answer in the message after it.                           *)
AtCall(t, role, k, id) == Len(t) # 0 /\ t[Len(t)].role = role /\ Carries(t[Len(t)].blocks, k, id)
AfterCall(t, k, id)    == Len(t) > 1 /\ t[Len(t)].role = "user" /\ Carries(t[Len(t) - 1].blocks, k, id)
Met(t, k, a, id)       == \E i \in 1..Len(t) - 1 : Carries(t[i].blocks, k, id) /\ Carries(t[i + 1].blocks, a, id)

LEMMA CallJoined ==
  ASSUME NEW t \in Seq(Messages), NEW role \in Speakers, NEW bs \in Seq(Blocks), NEW u, u = Join(t, role, bs), NEW k, NEW id,
         AtCall(t, role, k, id) \/ Carries(bs, k, id)
  PROVE  AtCall(u, role, k, id)
<1>1. /\ Len(t) \in Nat /\ Prolonged(t, u)
      /\ Len(u) = IF Len(t) # 0 /\ t[Len(t)].role = role THEN Len(t) ELSE Len(t) + 1
      /\ u[Len(u)].role = role /\ Carries(bs, k, id) => Carries(u[Len(u)].blocks, k, id)
  BY JoinPlaces
<1>2. Len(u) # 0
  BY <1>1
<1>3. AtCall(t, role, k, id) => Len(t) \in 1..Len(t) /\ Len(u) = Len(t)
  BY <1>1 DEF AtCall
<1>4. u[Len(u)].role = role /\ \A x, y : Carries(bs, x, y) => Carries(u[Len(u)].blocks, x, y)
  BY JoinPlaces
<1> QED BY <1>1, <1>2, <1>3, <1>4 DEF AtCall, Prolonged

LEMMA UserJoined ==
  ASSUME NEW t \in Seq(Messages), NEW role \in Speakers, role # "user", NEW bs \in Seq(Blocks), NEW u, u = Join(t, "user", bs),
         NEW k, NEW a, NEW id, AtCall(t, role, k, id) \/ AfterCall(t, k, id)
  PROVE  AfterCall(u, k, id) /\ (Carries(bs, a, id) => Met(u, k, a, id))
<1>1. PICK user \in Speakers : user = "user"
  BY Speak
<1>2. /\ Len(t) \in Nat /\ Prolonged(t, u)
      /\ Len(u) = IF Len(t) # 0 /\ t[Len(t)].role = user THEN Len(t) ELSE Len(t) + 1
      /\ u[Len(u)].role = user /\ \A x, y : Carries(bs, x, y) => Carries(u[Len(u)].blocks, x, y)
  <2>1. u = Join(t, user, bs)
    BY <1>1
  <2> QED BY <2>1, JoinPlaces
<1>3. Len(u) > 1 /\ Len(u) - 1 \in 1..Len(t) /\ Carries(t[Len(u) - 1].blocks, k, id)
  BY <1>1, <1>2 DEF AtCall, AfterCall
<1>4. Carries(u[Len(u) - 1].blocks, k, id)
  BY <1>2, <1>3 DEF Prolonged
<1>5. Len(u) - 1 \in 1..Len(u) - 1 /\ (Len(u) - 1) + 1 = Len(u)
  BY <1>2, <1>3
<1>6. AfterCall(u, k, id)
  BY <1>1, <1>2, <1>3, <1>4 DEF AfterCall
<1>7. Carries(bs, a, id) => Met(u, k, a, id)
  BY <1>2, <1>4, <1>5 DEF Met
<1> QED BY <1>6, <1>7

LEMMA MetGrown ==
  ASSUME NEW t, NEW u, Len(t) \in Nat, Len(u) \in Nat, Prolonged(t, u), NEW k, NEW a, NEW id, Met(t, k, a, id)
  PROVE  Met(u, k, a, id)
<1>1. PICK i \in 1..Len(t) - 1 : Carries(t[i].blocks, k, id) /\ Carries(t[i + 1].blocks, a, id)
  BY DEF Met
<1>2. i \in 1..Len(t) /\ i + 1 \in 1..Len(t) /\ i \in 1..Len(u) - 1
  BY DEF Prolonged
<1> QED BY <1>1, <1>2 DEF Met, Prolonged

(***************************************************************************)
(* From the call at i to the answer at j: nothing happens at the quiet     *)
(* items, the assistant's keep the call in the last message, the user's    *)
(* come after it, and once one of them has come no other kind does.        *)
(***************************************************************************)
(* What takes a conversation of n items from its call, item i, through its answer, item j, to its end. *)
Conveys(n, i, j, at, after, met, user, quiet) ==
  /\ i \in at
  /\ \A k \in i..j - 2 : k + 1 \in quiet => (k \in at => k + 1 \in at) /\ (k \in after => k + 1 \in after)
  /\ \A k \in i..j - 2 : k + 1 \notin quiet /\ k + 1 \notin user /\ k \in at => k + 1 \in at
  /\ \A k \in i..j - 2 : k + 1 \notin quiet /\ k + 1 \in user /\ k \in at \cup after => k + 1 \in at \cup after
  /\ j - 1 \in at \cup after => j \in met
  /\ \A k \in j..n - 1 : k \in met => k + 1 \in met
  /\ \A k, l \in i..j : k < l /\ k \notin quiet /\ l \notin quiet /\ k \in user => l \in user

LEMMA Reached ==
  ASSUME NEW n \in Nat, NEW i \in 1..n, NEW j \in 1..n, i < j,
         NEW at, NEW after, NEW met, NEW user, NEW quiet, Conveys(n, i, j, at, after, met, user, quiet)
  PROVE  n \in met
<1>0. /\ i \in at
      /\ \A k \in i..j - 2 : k + 1 \in quiet => (k \in at => k + 1 \in at) /\ (k \in after => k + 1 \in after)
      /\ \A k \in i..j - 2 : k + 1 \notin quiet /\ k + 1 \notin user /\ k \in at => k + 1 \in at
      /\ \A k \in i..j - 2 : k + 1 \notin quiet /\ k + 1 \in user /\ k \in at \cup after => k + 1 \in at \cup after
      /\ j - 1 \in at \cup after => j \in met
      /\ \A k \in j..n - 1 : k \in met => k + 1 \in met
      /\ \A k, l \in i..j : k < l /\ k \notin quiet /\ l \notin quiet /\ k \in user => l \in user
  BY DEF Conveys
<1> DEFINE Heard(k) == \E h \in i..k : h \notin quiet /\ h \in user
           S == {k \in Nat : k \in i..j - 1 => k \in at \/ (k \in after /\ Heard(k))}
           M == {k \in Nat : k \in j..n => k \in met}
<1>1. 0 \in S /\ 0 \in M
  OBVIOUS
<1>2. ASSUME NEW k \in Nat, k \in S
      PROVE  k + 1 \in S
  <2> SUFFICES ASSUME k + 1 \in i..j - 1
               PROVE  k + 1 \in at \/ (k + 1 \in after /\ Heard(k + 1))
    OBVIOUS
  <2>1. CASE k + 1 = i
    BY <1>0, <2>1
  <2>2. CASE k + 1 # i
    <3>1. k \in i..j - 1 /\ k \in i..j - 2 /\ k < k + 1 /\ k + 1 \in i..j
      BY <2>2
    <3>2. k \in at \/ (k \in after /\ Heard(k))
      BY <1>2, <3>1
    <3>3. Heard(k) => Heard(k + 1)
      BY <3>1
    <3>4. CASE k + 1 \in quiet
      BY <1>0, <3>1, <3>2, <3>3, <3>4
    <3>5. CASE k + 1 \notin quiet /\ k + 1 \notin user
      <4>1. ~Heard(k)
        <5> SUFFICES ASSUME NEW h \in i..k, h \notin quiet, h \in user
                     PROVE  FALSE
          OBVIOUS
        <5>1. h \in i..j /\ h < k + 1
          BY <3>1
        <5> QED BY <1>0, <3>1, <3>5, <5>1
      <4> QED BY <1>0, <3>1, <3>2, <3>5, <4>1
    <3>6. CASE k + 1 \notin quiet /\ k + 1 \in user
      <4>1. Heard(k + 1)
        BY <3>1, <3>6
      <4>2. k + 1 \in at \cup after
        BY <1>0, <3>1, <3>2, <3>6
      <4> QED BY <4>1, <4>2
    <3> QED BY <3>4, <3>5, <3>6
  <2> QED BY <2>1, <2>2
<1>3. \A k \in Nat : k \in S
  <2> HIDE DEF S
  <2> QED BY <1>1, <1>2, NaturalSteps
<1>4. j \in met
  <2>1. j - 1 \in Nat /\ j - 1 \in i..j - 1
    OBVIOUS
  <2>2. j - 1 \in at \cup after
    BY <1>3, <2>1
  <2> QED BY <1>0, <2>2
<1>5. ASSUME NEW k \in Nat, k \in M
      PROVE  k + 1 \in M
  <2> SUFFICES ASSUME k + 1 \in j..n
               PROVE  k + 1 \in met
    OBVIOUS
  <2>1. CASE k + 1 = j
    BY <1>4, <2>1
  <2>2. CASE k + 1 # j
    <3>1. k \in j..n /\ k \in j..n - 1
      BY <2>2
    <3> QED BY <1>0, <1>5, <3>1
  <2> QED BY <2>1, <2>2
<1>6. \A k \in Nat : k \in M
  <2> HIDE DEF M
  <2> QED BY <1>1, <1>5, NaturalSteps
<1> QED BY <1>6

(* The same, from what every single item does. *)
Walks(k, i, j, at, after, met, user, quiet, ask, answer) ==
  /\ k + 1 \in ask => k + 1 \in at
  /\ k + 1 \in quiet => (k \in at => k + 1 \in at) /\ (k \in after => k + 1 \in after)
  /\ k + 1 \notin quiet /\ k + 1 \notin user /\ k \in at => k + 1 \in at
  /\ k + 1 \in i..j /\ k + 1 \notin quiet /\ k + 1 \in user /\ k \in at \cup after => k + 1 \in at \cup after
  /\ k + 1 \in answer /\ k \in at \cup after => k + 1 \in met
  /\ k \in met => k + 1 \in met

Walk(n, i, j, at, after, met, user, quiet, ask, answer) ==
  /\ i \in ask /\ j \in answer
  /\ \A k \in 0..n - 1 : Walks(k, i, j, at, after, met, user, quiet, ask, answer)
  /\ \A k, l \in i..j : k < l /\ k \notin quiet /\ l \notin quiet /\ k \in user => l \in user

LEMMA Walked ==
  ASSUME NEW n \in Nat, NEW i \in 1..n, NEW j \in 1..n, i < j,
         NEW at, NEW after, NEW met, NEW user, NEW quiet, NEW ask, NEW answer,
         Walk(n, i, j, at, after, met, user, quiet, ask, answer)
  PROVE  n \in met
<1>0. /\ i \in ask /\ j \in answer
      /\ \A k \in 0..n - 1 : Walks(k, i, j, at, after, met, user, quiet, ask, answer)
      /\ \A k, l \in i..j : k < l /\ k \notin quiet /\ l \notin quiet /\ k \in user => l \in user
  BY DEF Walk
<1>1. i \in at
  <2>1. i - 1 \in 0..n - 1 /\ (i - 1) + 1 = i
    OBVIOUS
  <2> QED BY <1>0, <2>1 DEF Walks
<1>2. j - 1 \in at \cup after => j \in met
  <2>1. j - 1 \in 0..n - 1 /\ (j - 1) + 1 = j
    OBVIOUS
  <2> QED BY <1>0, <2>1 DEF Walks
<1>3. \A k \in i..j - 2 : k \in 0..n - 1 /\ k + 1 \in i..j
  OBVIOUS
<1>4. \A k \in j..n - 1 : k \in 0..n - 1
  OBVIOUS
<1>5. Conveys(n, i, j, at, after, met, user, quiet)
  <2>1. \A k \in i..j - 2 : k + 1 \in quiet => (k \in at => k + 1 \in at) /\ (k \in after => k + 1 \in after)
    BY <1>0, <1>3 DEF Walks
  <2>2. \A k \in i..j - 2 : k + 1 \notin quiet /\ k + 1 \notin user /\ k \in at => k + 1 \in at
    BY <1>0, <1>3 DEF Walks
  <2>3. \A k \in i..j - 2 : k + 1 \notin quiet /\ k + 1 \in user /\ k \in at \cup after => k + 1 \in at \cup after
    BY <1>0, <1>3 DEF Walks
  <2>4. \A k \in j..n - 1 : k \in met => k + 1 \in met
    BY <1>0, <1>4 DEF Walks
  <2> QED BY <1>0, <1>1, <1>2, <2>1, <2>2, <2>3, <2>4, Zenon DEF Conveys
<1> QED BY <1>5, Reached

-----------------------------------------------------------------------------
(***************************************************************************)
(* Anthropic: what an item adds, and to whose message.                     *)
(***************************************************************************)
ClaudeSide(it) == IF UserSide(it) THEN "user" ELSE "assistant"
ClaudePart(it) ==
  CASE it.type = "message"              -> BlocksOf(ClaudeReadable(it.said))
    [] it.type = "function_call"        -> <<Block("tool_use", it.id, it.said, <<>>)>>
    [] it.type = "function_call_output" -> <<Block("tool_result", it.id, ClaudeReadable(it.said), <<>>)>>
    [] it.type = "reasoning" /\ Replayable(it) ->
         <<Block("thinking", 0, TextOf(it, "summary", "reasoning_text"), it.sig)>>
    [] it.type = "extension" /\ it.by = "anthropic" -> <<Block("extension", 0, it.said, <<>>)>>
    [] OTHER                            -> <<>>
ClaudeRefuses(it) ==
  \/ it.type = "message" /\ ~ClaudeSupported(it, {"text", "refusal", "media", "anthropic"})
  \/ it.type = "function_call_output" /\ ~ClaudeSupported(it, {"text", "media", "anthropic"})
  \/ it.type = "extension" /\ it.by \notin ClaudeForeign \cup {"anthropic"}
  \/ it.type \notin {"message", "function_call", "function_call_output", "reasoning", "extension"}

LEMMA ClaudeEffect ==
  ASSUME NEW m, ~m.leading, NEW it
  PROVE  ClaudeEncodeItem(m, it) =
           IF ClaudeRefuses(it) THEN [m EXCEPT !.err = TRUE] ELSE ClaudeAdd(m, ClaudeSide(it), ClaudePart(it))
<1>1. \A role : ClaudeAdd(m, role, <<>>) = m
  BY DEF ClaudeAdd
<1>2. PICK refused : refused = [m EXCEPT !.err = TRUE]
  OBVIOUS
<1>3. CASE it.type = "message"
  <2>1. ClaudeEncodeItem(m, it) = ClaudeEncodeMessage(m, it)
    BY <1>3 DEF ClaudeEncodeItem
  <2>2. ClaudePart(it) = BlocksOf(ClaudeReadable(it.said))
    BY <1>3 DEF ClaudePart
  <2>3. ClaudeRefuses(it) <=> ~ClaudeSupported(it, {"text", "refusal", "media", "anthropic"})
    BY <1>3 DEF ClaudeRefuses
  <2>4. ClaudeSide(it) = IF it.role = "assistant" THEN "assistant" ELSE "user"
    BY <1>3 DEF ClaudeSide, UserSide
  <2> QED BY <2>1, <2>2, <2>3, <2>4 DEF ClaudeEncodeMessage
<1>4. CASE it.type = "function_call"
  <2>1. ClaudeEncodeItem(m, it) = ClaudeAdd(m, "assistant", <<Block("tool_use", it.id, it.said, <<>>)>>)
    BY <1>4 DEF ClaudeEncodeItem
  <2>2. ~ClaudeRefuses(it) /\ ClaudeSide(it) = "assistant"
    BY <1>4 DEF ClaudeRefuses, ClaudeSide, UserSide
  <2>3. ClaudePart(it) = <<Block("tool_use", it.id, it.said, <<>>)>>
    BY <1>4 DEF ClaudePart
  <2> QED BY <2>1, <2>2, <2>3
<1>5. CASE it.type = "function_call_output"
  <2>1. PICK bs : bs = <<Block("tool_result", it.id, ClaudeReadable(it.said), <<>>)>>
    OBVIOUS
  <2>2. ClaudeEncodeItem(m, it) =
          IF ClaudeSupported(it, {"text", "media", "anthropic"}) THEN ClaudeAdd(m, "user", bs) ELSE refused
    BY <1>2, <1>5, <2>1 DEF ClaudeEncodeItem
  <2>3. (ClaudeRefuses(it) <=> ~ClaudeSupported(it, {"text", "media", "anthropic"})) /\ ClaudeSide(it) = "user"
    BY <1>5 DEF ClaudeRefuses, ClaudeSide, UserSide
  <2>4. ClaudePart(it) = bs
    BY <1>5, <2>1 DEF ClaudePart
  <2> QED BY <1>2, <2>2, <2>3, <2>4
<1>6. CASE it.type = "reasoning"
  <2>1. PICK bs : bs = <<Block("thinking", 0, TextOf(it, "summary", "reasoning_text"), it.sig)>>
    OBVIOUS
  <2>2. ClaudeEncodeItem(m, it) = IF Replayable(it) THEN ClaudeAdd(m, "assistant", bs) ELSE m
    BY <1>6, <2>1 DEF ClaudeEncodeItem
  <2>3. ~ClaudeRefuses(it) /\ ClaudeSide(it) = "assistant"
    BY <1>6 DEF ClaudeRefuses, ClaudeSide, UserSide
  <2>4. ClaudePart(it) = IF Replayable(it) THEN bs ELSE <<>>
    BY <1>6, <2>1 DEF ClaudePart
  <2> QED BY <1>1, <2>2, <2>3, <2>4
<1>7. CASE it.type = "extension"
  <2>1. PICK bs : bs = <<Block("extension", 0, it.said, <<>>)>>
    OBVIOUS
  <2>2. ClaudeEncodeItem(m, it) =
          IF it.by \in ClaudeForeign THEN m ELSE IF it.by = "anthropic" THEN ClaudeAdd(m, "assistant", bs) ELSE refused
    BY <1>2, <1>7, <2>1 DEF ClaudeEncodeItem
  <2>3. (ClaudeRefuses(it) <=> it.by \notin ClaudeForeign \cup {"anthropic"}) /\ ClaudeSide(it) = "assistant"
    BY <1>7 DEF ClaudeRefuses, ClaudeSide, UserSide
  <2>4. ClaudePart(it) = IF it.by = "anthropic" THEN bs ELSE <<>>
    BY <1>7, <2>1 DEF ClaudePart
  <2>5. "anthropic" \notin ClaudeForeign
    BY DEF ClaudeForeign
  <2> QED BY <1>1, <1>2, <2>2, <2>3, <2>4, <2>5
<1>8. CASE it.type \notin {"message", "function_call", "function_call_output", "reasoning", "extension"}
  <2>1. ClaudeEncodeItem(m, it) = refused
    BY <1>2, <1>8 DEF ClaudeEncodeItem
  <2>2. ClaudeRefuses(it)
    BY <1>8 DEF ClaudeRefuses
  <2> QED BY <1>2, <2>1, <2>2
<1> QED BY <1>3, <1>4, <1>5, <1>6, <1>7, <1>8

LEMMA ClaudePartTyped ==
  ASSUME NEW it, Entry(it)
  PROVE  /\ ClaudePart(it) \in Seq(Blocks) /\ ClaudeSide(it) \in Speakers
         /\ it.type = "function_call" => Carries(ClaudePart(it), "tool_use", it.id)
         /\ it.type = "function_call_output" => Carries(ClaudePart(it), "tool_result", it.id)
         /\ ~UserSide(it) /\ ~ClaudeRefuses(it) => Lacks(ClaudePart(it), "tool_result")
<1>1. PICK id \in Nat, said \in Seq(Words), rest \in Seq(Words), text \in Seq(Words) :
        id = it.id /\ said = it.said /\ rest = ClaudeReadable(it.said) /\ text = TextOf(it, "summary", "reasoning_text")
  BY EntryFields, PiecesTyped, TextTyped DEF ClaudeReadable
<1>2. \A k, n, w, sig : <<Block(k, n, w, sig)>>[1].k = k /\ <<Block(k, n, w, sig)>>[1].id = n /\ Len(<<Block(k, n, w, sig)>>) = 1
  BY DEF Block
<1>3. \A k, n, w, sig : Carries(<<Block(k, n, w, sig)>>, k, n) /\ \A x : x # k => Lacks(<<Block(k, n, w, sig)>>, x)
  BY <1>2 DEF Carries, Lacks
<1>4. \A k \in BlockKinds, n \in Nat, w \in Seq(Words), sig \in Signature : <<Block(k, n, w, sig)>> \in Seq(Blocks)
  BY BlockTyped
<1>5. /\ "tool_use" \in BlockKinds /\ "tool_result" \in BlockKinds /\ "thinking" \in BlockKinds /\ "extension" \in BlockKinds
      /\ <<>> \in Signature /\ 0 \in Nat /\ <<>> \in Seq(Blocks)
  BY NoSignature, EmptySeq DEF BlockKinds
<1>6. PICK ask, output, thinking, extension :
        /\ ask = "tool_use" /\ output = "tool_result" /\ thinking = "thinking" /\ extension = "extension"
        /\ {ask, output, thinking, extension} \subseteq BlockKinds /\ output \notin {ask, thinking, extension}
  BY <1>5
<1>7. ClaudeSide(it) \in Speakers
  BY Speak DEF ClaudeSide
<1>8. CASE it.type = "message"
  <2>1. ClaudePart(it) = BlocksOf(rest) /\ ClaudePart(it) \in Seq(Blocks)
    BY <1>1, <1>8, BlocksOfPieces DEF ClaudePart, Unsigned
  <2>2. ASSUME ~ClaudeRefuses(it)
        PROVE  Lacks(BlocksOf(rest), "tool_result")
    <3>1. \A i \in 1..Len(said) : said[i].k \in {"text", "refusal", "media", "anthropic"} \cup ClaudeForeign
      BY <1>1, <1>8, <2>2 DEF ClaudeRefuses, ClaudeSupported
    <3>2. \A i \in 1..Len(rest) : \E j \in 1..Len(said) : rest[i] = said[j] /\ said[j].k \notin ClaudeForeign
      <4>1. PICK kinds : kinds = ClaudeForeign
        OBVIOUS
      <4>2. \A i \in 1..Len(Without(said, kinds)) :
              \E j \in 1..Len(said) : Without(said, kinds)[i] = said[j] /\ said[j].k \notin kinds
        BY PiecesTyped
      <4>3. rest = Without(said, kinds)
        BY <1>1, <4>1 DEF ClaudeReadable
      <4> QED BY <4>1, <4>2, <4>3
    <3>3. \A i \in 1..Len(rest) : rest[i].k \in {"text", "refusal", "media", "anthropic"}
      BY <3>1, <3>2
    <3>4. Len(BlocksOf(rest)) = Len(rest)
      BY BlocksOfPieces
    <3>5. \A i \in 1..Len(rest) : BlocksOf(rest)[i].k \in {"text", "media", "anthropic"}
      BY <3>3 DEF BlocksOf, BlockOf, Block
    <3> QED BY <3>4, <3>5 DEF Lacks
  <2> QED BY <1>7, <1>8, <2>1, <2>2
<1>9. CASE it.type = "function_call"
  <2>1. ClaudePart(it) = <<Block(ask, id, said, <<>>)>>
    BY <1>1, <1>6, <1>9 DEF ClaudePart
  <2>2. <<Block(ask, id, said, <<>>)>> \in Seq(Blocks)
    BY <1>4, <1>5, <1>6
  <2>3. Carries(<<Block(ask, id, said, <<>>)>>, ask, id) /\ Lacks(<<Block(ask, id, said, <<>>)>>, output)
    BY <1>3, <1>6
  <2>4. PICK part \in Seq(Blocks) : part = ClaudePart(it) /\ Carries(part, ask, id) /\ Lacks(part, output)
    BY <2>1, <2>2, <2>3
  <2> QED BY <1>1, <1>6, <1>7, <1>9, <2>4
<1>10. CASE it.type = "function_call_output"
  <2>1. ClaudePart(it) = <<Block(output, id, rest, <<>>)>> /\ UserSide(it)
    BY <1>1, <1>6, <1>10 DEF ClaudePart, UserSide
  <2>2. <<Block(output, id, rest, <<>>)>> \in Seq(Blocks)
    BY <1>4, <1>5, <1>6
  <2>3. Carries(<<Block(output, id, rest, <<>>)>>, output, id)
    BY <1>3
  <2>4. PICK part \in Seq(Blocks) : part = ClaudePart(it) /\ Carries(part, output, id)
    BY <2>1, <2>2, <2>3
  <2> QED BY <1>1, <1>6, <1>7, <1>10, <2>1, <2>4
<1>11. CASE it.type = "reasoning" /\ Replayable(it)
  <2>1. PICK sig \in Signature : sig = it.sig
    BY <1>11, OwnSignature DEF Replayable
  <2>2. ClaudePart(it) = <<Block(thinking, 0, text, sig)>>
    BY <1>1, <1>6, <1>11, <2>1 DEF ClaudePart
  <2>3. <<Block(thinking, 0, text, sig)>> \in Seq(Blocks)
    BY <1>4, <1>5, <1>6
  <2>4. Lacks(<<Block(thinking, 0, text, sig)>>, output)
    BY <1>3, <1>6
  <2> QED BY <1>6, <1>7, <1>11, <2>2, <2>3, <2>4
<1>12. CASE it.type = "extension" /\ it.by = "anthropic"
  <2>1. ClaudePart(it) = <<Block(extension, 0, said, <<>>)>>
    BY <1>1, <1>6, <1>12 DEF ClaudePart
  <2>2. <<Block(extension, 0, said, <<>>)>> \in Seq(Blocks)
    BY <1>4, <1>5, <1>6
  <2>3. Lacks(<<Block(extension, 0, said, <<>>)>>, output)
    BY <1>3, <1>6
  <2> QED BY <1>6, <1>7, <1>12, <2>1, <2>2, <2>3
<1>13. CASE /\ it.type \notin {"message", "function_call", "function_call_output"}
            /\ ~(it.type = "reasoning" /\ Replayable(it)) /\ ~(it.type = "extension" /\ it.by = "anthropic")
  <2>1. ClaudePart(it) = <<>>
    BY <1>13 DEF ClaudePart
  <2>2. Lacks(<<>>, "tool_result")
    BY EmptySeq DEF Lacks
  <2> QED BY <1>5, <1>7, <1>13, <2>1, <2>2
<1> QED BY <1>8, <1>9, <1>10, <1>11, <1>12, <1>13

(* What a step does to the messages. *)
LEMMA ClaudeMoves ==
  ASSUME NEW m, ClaudeSound(m), ~m.err, NEW it, Entry(it), NEW n, n = ClaudeStep(m, it)
  PROVE  /\ m.leading /\ ClaudeLeads(it) => n.err \/ n.turns = m.turns
         /\ ~(m.leading /\ ClaudeLeads(it)) =>
              IF ClaudeRefuses(it) THEN n.err
              ELSE /\ ~n.err /\ ~n.leading
                   /\ n.turns = IF ClaudePart(it) = <<>> THEN m.turns ELSE Join(m.turns, ClaudeSide(it), ClaudePart(it))
<1>1. PICK t, s, l, e : m = ClaudeState(t, s, l, e) /\ t \in Seq(Messages) /\ UserUnsigned(t)
  BY DEF ClaudeSound
<1>2. m.turns = t /\ m.leading = l /\ m.err = e
  BY <1>1, ClaudeChanged
<1>3. PICK b : b = (l /\ ClaudeLeads(it))
  OBVIOUS
<1>4. PICK q : q = ClaudeState(t, s, b, e) /\ q.turns = t /\ q.leading = b /\ q.err = e
  <2>1. PICK q : q = ClaudeState(t, s, b, e)
    OBVIOUS
  <2>2. q.turns = t /\ q.leading = b /\ q.err = e
    BY <2>1, ClaudeChanged
  <2> QED BY <2>1, <2>2
<1>5. n = ClaudeEncodeItem(q, it)
  <2>1. [m EXCEPT !.leading = b] = q
    BY <1>1, <1>4, ClaudeChanged
  <2>2. [m EXCEPT !.leading = @ /\ ClaudeLeads(it)] = [m EXCEPT !.leading = b]
    BY <1>2, <1>3
  <2> QED BY <2>1, <2>2 DEF ClaudeStep
<1>6. \A x : [q EXCEPT !.err = x].err = x
  BY <1>4 DEF ClaudeState
<1>7. \A x : [q EXCEPT !.system = x].turns = t
  BY <1>4 DEF ClaudeState
<1>8. CASE m.leading /\ ClaudeLeads(it)
  <2>1. n = ClaudeEncodeMessage(q, it)
    BY <1>5, <1>8 DEF ClaudeEncodeItem, ClaudeLeads
  <2>2. PICK x : x = q.system \o BlocksOf(ClaudeReadable(it.said))
    OBVIOUS
  <2>3. q.leading /\ it.role = "system"
    BY <1>2, <1>3, <1>4, <1>8 DEF ClaudeLeads
  <2>4. n = [q EXCEPT !.err = TRUE] \/ n = [q EXCEPT !.system = x]
    BY <2>1, <2>2, <2>3 DEF ClaudeEncodeMessage
  <2>5. n.err \/ n.turns = t
    BY <1>6, <1>7, <2>4
  <2> QED BY <1>2, <1>8, <2>5
<1>9. CASE ~(m.leading /\ ClaudeLeads(it))
  <2>1. ~q.leading
    BY <1>2, <1>3, <1>4, <1>9
  <2>2. n = IF ClaudeRefuses(it) THEN [q EXCEPT !.err = TRUE] ELSE ClaudeAdd(q, ClaudeSide(it), ClaudePart(it))
    BY <1>5, <2>1, ClaudeEffect
  <2>3. CASE ClaudeRefuses(it)
    BY <1>6, <1>9, <2>2, <2>3
  <2>4. CASE ~ClaudeRefuses(it) /\ ClaudePart(it) = <<>>
    <3>1. n = q
      BY <2>2, <2>4 DEF ClaudeAdd
    <3> QED BY <1>2, <1>4, <1>9, <2>1, <2>4, <3>1
  <2>5. CASE ~ClaudeRefuses(it) /\ ClaudePart(it) # <<>>
    <3>1. PICK u : u = Join(t, ClaudeSide(it), ClaudePart(it))
      OBVIOUS
    <3>2. n = [q EXCEPT !.turns = u]
      BY <1>4, <2>2, <2>5, <3>1 DEF ClaudeAdd
    <3>3. n = ClaudeState(u, s, b, e)
      BY <1>4, <3>2, ClaudeChanged
    <3>4. n.turns = u /\ n.leading = b /\ n.err = e
      BY <3>3, ClaudeChanged
    <3> QED BY <1>2, <1>4, <1>9, <2>1, <2>5, <3>1, <3>4
  <2> QED BY <2>3, <2>4, <2>5
<1> QED BY <1>8, <1>9

(* An item that alone sends nothing adds nothing. *)
ClaudeMute(it) == it.type # "function_call_output" /\ it.role # "system" /\ AnthropicInput(<<it>>).turns = <<>>

LEMMA ClaudeMuteAdds ==
  ASSUME NEW it, Entry(it), ClaudeMute(it), ~ClaudeRefuses(it)
  PROVE  ClaudePart(it) = <<>>
<1>1. PICK items : items = <<it>> /\ Len(items) = 1 /\ items[1] = it
  <2>1. PICK items : items = <<it>>
    OBVIOUS
  <2>2. Len(items) = 1 /\ items[1] = it
    BY <2>1
  <2> QED BY <2>1, <2>2
<1>2. PICK s : Run("anthropic", items, {}, s) /\ AnthropicInput(items) = [s[Len(items)] EXCEPT !.turns = ResultsFirst(@)]
  BY <1>1, ClaudeRun
<1>3. PICK m : m = ClaudeStart
  OBVIOUS
<1>4. PICK n : n = ClaudeStep(m, it) /\ n = s[1]
  <2>1. 0 \in 0..Len(items) - 1 /\ 0 + 1 = 1
    BY <1>1
  <2>2. s[0 + 1] = EncodeStep("anthropic", s[0], items[0 + 1], {}) /\ s[0] = ClaudeStart
    BY <1>2, <2>1 DEF Run, EncodeStart
  <2> QED BY <1>1, <1>3, <2>1, <2>2 DEF EncodeStep
<1>5. ClaudeSound(m) /\ ~m.err /\ m.turns = <<>>
  <2>1. m = ClaudeState(<<>>, <<>>, TRUE, FALSE)
    BY <1>3 DEF ClaudeStart, ClaudeState
  <2>2. UserUnsigned(<<>>)
    BY DEF UserUnsigned
  <2>3. ClaudeSound(m)
    BY <2>1, <2>2, SignedEmpty DEF ClaudeSound
  <2>4. m.err = FALSE /\ m.turns = <<>>
    BY <2>1 DEF ClaudeState
  <2> QED BY <2>3, <2>4
<1>6. ~n.err /\ n.turns = IF ClaudePart(it) = <<>> THEN <<>> ELSE Join(<<>>, ClaudeSide(it), ClaudePart(it))
  <2>1. ~ClaudeLeads(it)
    BY DEF ClaudeMute, ClaudeLeads
  <2>2. IF ClaudeRefuses(it) THEN n.err
        ELSE /\ ~n.err /\ ~n.leading
             /\ n.turns = IF ClaudePart(it) = <<>> THEN m.turns ELSE Join(m.turns, ClaudeSide(it), ClaudePart(it))
    BY <1>4, <1>5, <2>1, ClaudeMoves
  <2> QED BY <1>5, <2>2
<1>7. ClaudeSound(n)
  BY <1>4, <1>5, ClaudeStepped DEF ClaudeSays
<1>8. AnthropicInput(items).turns = ResultsFirst(n.turns)
  <2>1. PICK t, sy, l, e : n = ClaudeState(t, sy, l, e) /\ t \in Seq(Messages) /\ UserUnsigned(t)
    BY <1>7 DEF ClaudeSound
  <2>2. n.turns = t
    BY <2>1, ClaudeChanged
  <2>3. PICK u : u = ResultsFirst(t)
    OBVIOUS
  <2>4. AnthropicInput(items) = [n EXCEPT !.turns = u]
    BY <1>1, <1>2, <1>4, <2>2, <2>3
  <2>5. AnthropicInput(items) = ClaudeState(u, sy, l, e)
    BY <2>1, <2>4, ClaudeChanged
  <2>6. AnthropicInput(items).turns = u
    BY <2>5, ClaudeChanged
  <2> QED BY <2>2, <2>3, <2>6
<1>9. Len(n.turns) = 0
  <2>1. Len(ResultsFirst(n.turns)) = 0
    BY <1>1, <1>8 DEF ClaudeMute
  <2>2. n.turns \in Seq(Messages)
    BY <1>7, ClaudeChanged DEF ClaudeSound
  <2>3. Len(n.turns) \in Nat
    BY <2>2, LenProperties
  <2> QED BY <2>1, <2>3 DEF ResultsFirst
<1>10. ASSUME ClaudePart(it) # <<>>
       PROVE  FALSE
  <2>1. PICK t \in Seq(Messages), role \in Speakers, bs \in Seq(Blocks) :
          t = <<>> /\ role = ClaudeSide(it) /\ bs = ClaudePart(it)
    BY SignedEmpty, ClaudePartTyped
  <2>2. PICK u : u = n.turns /\ u = Join(t, role, bs)
    BY <1>6, <1>10, <2>1
  <2>3. Len(t) = 0 /\ Len(u) = 0
    BY <1>9, <2>1, <2>2
  <2>4. Len(u) = IF Len(t) # 0 /\ t[Len(t)].role = role THEN Len(t) ELSE Len(t) + 1
    BY <2>2, JoinPlaces
  <2> QED BY <2>3, <2>4
<1> QED BY <1>10

ClaudeAt(m, id)    == m.err \/ (~m.leading /\ AtCall(m.turns, "assistant", "tool_use", id))
ClaudeAfter(m, id) == m.err \/ (~m.leading /\ AfterCall(m.turns, "tool_use", id))
ClaudeMet(m, id)   == m.err \/ (~m.leading /\ Met(m.turns, "tool_use", "tool_result", id))

LEMMA ClaudeGoesOn ==
  ASSUME NEW m, ClaudeSound(m), NEW it, Entry(it), NEW n, n = ClaudeStep(m, it), NEW id
  PROVE  /\ ClaudeSound(n)
         /\ it.type = "function_call" /\ it.id = id => ClaudeAt(n, id)
         /\ ClaudeMute(it) => (ClaudeAt(m, id) => ClaudeAt(n, id)) /\ (ClaudeAfter(m, id) => ClaudeAfter(n, id))
         /\ ~UserSide(it) /\ ClaudeAt(m, id) => ClaudeAt(n, id)
         /\ UserSide(it) /\ (ClaudeAt(m, id) \/ ClaudeAfter(m, id)) => ClaudeAt(n, id) \/ ClaudeAfter(n, id)
         /\ /\ it.type = "function_call_output" /\ it.id = id
            /\ ClaudeAt(m, id) \/ ClaudeAfter(m, id)
            => ClaudeMet(n, id)
         /\ ClaudeMet(m, id) => ClaudeMet(n, id)
         /\ m.err \/ OnlyFrom(m.turns, "user", "tool_result") => n.err \/ OnlyFrom(n.turns, "user", "tool_result")
<1>1. ClaudeSound(n)
  BY ClaudeStepped DEF ClaudeSays
<1>2. CASE m.err
  <2>1. n = m
    BY <1>2 DEF ClaudeStep
  <2> QED BY <1>1, <1>2, <2>1 DEF ClaudeAt, ClaudeAfter, ClaudeMet
<1>3. CASE n.err
  BY <1>1, <1>3 DEF ClaudeAt, ClaudeAfter, ClaudeMet
<1> SUFFICES ASSUME ~m.err, ~n.err
             PROVE  /\ it.type = "function_call" /\ it.id = id => ClaudeAt(n, id)
                    /\ ClaudeMute(it) => (ClaudeAt(m, id) => ClaudeAt(n, id)) /\ (ClaudeAfter(m, id) => ClaudeAfter(n, id))
                    /\ ~UserSide(it) /\ ClaudeAt(m, id) => ClaudeAt(n, id)
                    /\ UserSide(it) /\ (ClaudeAt(m, id) \/ ClaudeAfter(m, id)) => ClaudeAt(n, id) \/ ClaudeAfter(n, id)
                    /\ /\ it.type = "function_call_output" /\ it.id = id
                       /\ ClaudeAt(m, id) \/ ClaudeAfter(m, id)
                       => ClaudeMet(n, id)
                    /\ ClaudeMet(m, id) => ClaudeMet(n, id)
                    /\ OnlyFrom(m.turns, "user", "tool_result") => OnlyFrom(n.turns, "user", "tool_result")
  BY <1>1, <1>2, <1>3
<1>4. CASE m.leading /\ ClaudeLeads(it)
  <2>1. n.turns = m.turns
    BY <1>4, ClaudeMoves
  <2>2. it.type # "function_call" /\ it.type # "function_call_output"
    BY <1>4 DEF ClaudeLeads
  <2>3. UserSide(it) /\ ~ClaudeMute(it)
    BY <1>4 DEF ClaudeLeads, UserSide, ClaudeMute
  <2> QED BY <1>4, <2>1, <2>2, <2>3 DEF ClaudeAt, ClaudeAfter, ClaudeMet
<1>5. CASE ~(m.leading /\ ClaudeLeads(it))
  <2>1. PICK t \in Seq(Messages), role \in Speakers, bs \in Seq(Blocks) :
          t = m.turns /\ role = ClaudeSide(it) /\ bs = ClaudePart(it)
    <3>1. m.turns \in Seq(Messages)
      BY ClaudeChanged DEF ClaudeSound
    <3> QED BY <3>1, ClaudePartTyped
  <2>2. PICK u : /\ u = n.turns /\ u = IF bs = <<>> THEN t ELSE Join(t, role, bs)
                 /\ ~n.leading /\ ~ClaudeRefuses(it)
    BY <1>5, <2>1, ClaudeMoves
  <2>3. /\ it.type = "function_call" /\ it.id = id => Carries(bs, "tool_use", id)
        /\ it.type = "function_call_output" /\ it.id = id => Carries(bs, "tool_result", id)
        /\ ~UserSide(it) => Lacks(bs, "tool_result")
    BY <2>1, <2>2, ClaudePartTyped
  <2>4. role = IF UserSide(it) THEN "user" ELSE "assistant"
    BY <2>1 DEF ClaudeSide
  <2>5. CASE bs = <<>>
    <3>1. \A k : ~Carries(bs, k, id)
      BY <2>5, EmptySeq DEF Carries
    <3>2. u = t
      BY <2>2, <2>5
    <3> QED BY <2>1, <2>2, <2>3, <3>1, <3>2 DEF ClaudeAt, ClaudeAfter, ClaudeMet
  <2>6. CASE bs # <<>>
    <3>1. u = Join(t, role, bs)
      BY <2>2, <2>6
    <3>2. ~ClaudeMute(it)
      BY <2>1, <2>2, <2>6, ClaudeMuteAdds
    <3>3. CASE ~UserSide(it)
      <4>1. role = "assistant" /\ it.type # "function_call_output"
        BY <2>4, <3>3 DEF UserSide
      <4>2. AtCall(t, role, "tool_use", id) \/ Carries(bs, "tool_use", id) => AtCall(u, role, "tool_use", id)
        BY <3>1, CallJoined
      <4>3. Met(t, "tool_use", "tool_result", id) => Met(u, "tool_use", "tool_result", id)
        <5>1. Len(t) \in Nat /\ Len(u) \in Nat /\ Prolonged(t, u)
          BY <3>1, JoinPlaces
        <5> QED BY <5>1, MetGrown
      <4>4. OnlyFrom(t, "user", "tool_result") => OnlyFrom(u, "user", "tool_result")
        <5>1. Lacks(bs, "tool_result")
          BY <2>3, <3>3
        <5>2. \A k, r : OnlyFrom(t, r, k) /\ (role # r => Lacks(bs, k)) => OnlyFrom(u, r, k)
          BY <3>1, JoinPlaces
        <5> QED BY <5>1, <5>2
      <4> QED BY <2>1, <2>2, <2>3, <3>2, <3>3, <4>1, <4>2, <4>3, <4>4 DEF ClaudeAt, ClaudeAfter, ClaudeMet
    <3>4. CASE UserSide(it)
      <4>1. role = "user" /\ it.type # "function_call"
        BY <2>4, <3>4 DEF UserSide
      <4>2. PICK other \in Speakers : other = "assistant" /\ other # "user"
        BY Speak
      <4>3. AtCall(t, other, "tool_use", id) \/ AfterCall(t, "tool_use", id) =>
              AfterCall(u, "tool_use", id) /\ (Carries(bs, "tool_result", id) => Met(u, "tool_use", "tool_result", id))
        <5>1. u = Join(t, "user", bs)
          BY <3>1, <4>1
        <5> QED BY <4>2, <5>1, UserJoined
      <4>4. Met(t, "tool_use", "tool_result", id) => Met(u, "tool_use", "tool_result", id)
        <5>1. Len(t) \in Nat /\ Len(u) \in Nat /\ Prolonged(t, u)
          BY <3>1, JoinPlaces
        <5> QED BY <5>1, MetGrown
      <4>5. OnlyFrom(t, "user", "tool_result") => OnlyFrom(u, "user", "tool_result")
        <5>1. \A k, r : OnlyFrom(t, r, k) /\ (role # r => Lacks(bs, k)) => OnlyFrom(u, r, k)
          BY <3>1, JoinPlaces
        <5> QED BY <4>1, <5>1
      <4> QED BY <2>1, <2>2, <2>3, <3>2, <3>4, <4>1, <4>2, <4>3, <4>4, <4>5 DEF ClaudeAt, ClaudeAfter, ClaudeMet
    <3> QED BY <3>3, <3>4
  <2> QED BY <2>5, <2>6
<1> QED BY <1>4, <1>5

(* The turns as they are sent: every result before the other blocks. *)
Ordered(blocks) == \A a, b \in 1..Len(blocks) : a < b /\ blocks[b].k = "tool_result" => blocks[a].k = "tool_result"

LEMMA ResultsLead ==
  ASSUME NEW bs \in Seq(Blocks), NEW cs, cs = ToolResultsFirst(bs)
  PROVE  cs \in Seq(Blocks) /\ Ordered(cs) /\ \A k, id : Carries(bs, k, id) => Carries(cs, k, id)
<1>1. PICK results : results = {b \in Range(bs) : b.k = "tool_result"}
  OBVIOUS
<1>2. PICK others : others = Range(bs) \ results
  OBVIOUS
<1>3. PICK p \in Seq(Blocks) : p = Among(bs, results) /\ Range(p) = Range(bs) \cap results
  BY AmongIs
<1>4. PICK q \in Seq(Blocks) : q = Among(bs, others) /\ Range(q) = Range(bs) \cap others
  BY AmongIs
<1>5. cs = p \o q
  BY <1>1, <1>2, <1>3, <1>4 DEF ToolResultsFirst
<1>6. /\ Len(p) \in Nat /\ Len(q) \in Nat /\ Len(p \o q) = Len(p) + Len(q) /\ p \o q \in Seq(Blocks)
      /\ \A i \in 1..Len(p) + Len(q) : (p \o q)[i] = IF i <= Len(p) THEN p[i] ELSE q[i - Len(p)]
  BY ConcatProperties, LenProperties
<1>7. \A i \in 1..Len(p) : p[i].k = "tool_result"
  <2>1. \A i \in 1..Len(p) : p[i] \in Range(p)
    BY ElementIn
  <2> QED BY <1>1, <1>3, <2>1
<1>8. \A i \in 1..Len(q) : q[i].k # "tool_result"
  <2>1. \A i \in 1..Len(q) : q[i] \in Range(q)
    BY ElementIn
  <2> QED BY <1>1, <1>2, <1>4, <2>1
<1>9. Ordered(cs)
  <2> SUFFICES ASSUME NEW a \in 1..Len(p) + Len(q), NEW b \in 1..Len(p) + Len(q), a < b, cs[b].k = "tool_result"
               PROVE  cs[a].k = "tool_result"
    BY <1>5, <1>6 DEF Ordered
  <2>1. b <= Len(p)
    <3> SUFFICES ASSUME ~(b <= Len(p))
                 PROVE  FALSE
      OBVIOUS
    <3>1. b - Len(p) \in 1..Len(q) /\ cs[b] = q[b - Len(p)]
      BY <1>5, <1>6
    <3> QED BY <1>8, <3>1
  <2>2. a \in 1..Len(p) /\ cs[a] = p[a]
    BY <1>5, <1>6, <2>1
  <2> QED BY <1>7, <2>2
<1>10. ASSUME NEW k, NEW id, Carries(bs, k, id)
       PROVE  Carries(cs, k, id)
  <2>1. PICK i \in 1..Len(bs) : bs[i].k = k /\ bs[i].id = id
    BY <1>10 DEF Carries
  <2>2. PICK b : b = bs[i] /\ b \in Range(bs)
    BY ElementIn
  <2>3. b \in Range(p) \/ b \in Range(q)
    BY <1>2, <1>3, <1>4, <2>2
  <2>4. Carries(p, k, id) \/ Carries(q, k, id)
    BY <2>1, <2>2, <2>3, ElementIn DEF Carries
  <2> QED BY <1>5, <2>4, CarriesConcat
<1> QED BY <1>5, <1>6, <1>9, <1>10

LEMMA OrderedPlaces ==
  ASSUME NEW t \in Seq(Messages), OnlyFrom(t, "user", "tool_result"), NEW u, u = ResultsFirst(t)
  PROVE  Len(t) \in Nat /\ Len(u) = Len(t) /\ Prolonged(t, u) /\ \A i \in 1..Len(u) : Ordered(u[i].blocks)
<1>1. Len(t) \in Nat /\ \A i \in 1..Len(t) : t[i] \in Messages
  BY LenProperties, ElementOfSeq
<1>2. Len(u) = Len(t)
  BY <1>1 DEF ResultsFirst
<1>3. ASSUME NEW i \in 1..Len(t)
      PROVE  /\ u[i].role = t[i].role /\ Ordered(u[i].blocks)
             /\ \A k, id : Carries(t[i].blocks, k, id) => Carries(u[i].blocks, k, id)
  <2>1. PICK bs \in Seq(Blocks) : bs = t[i].blocks
    BY <1>1, TurnIs
  <2>2. CASE t[i].role = "user"
    <3>1. PICK cs : /\ cs = ToolResultsFirst(bs) /\ Ordered(cs)
                    /\ \A k, id : Carries(bs, k, id) => Carries(cs, k, id)
      BY ResultsLead
    <3>2. u[i] = Turn("user", cs)
      BY <2>1, <2>2, <3>1 DEF ResultsFirst
    <3>3. u[i].role = "user" /\ u[i].blocks = cs
      BY <3>2 DEF Turn
    <3> QED BY <2>1, <2>2, <3>1, <3>3
  <2>3. CASE t[i].role # "user"
    <3>1. u[i] = t[i]
      BY <2>3 DEF ResultsFirst
    <3>2. Lacks(bs, "tool_result")
      BY <2>1, <2>3 DEF OnlyFrom
    <3>3. Ordered(bs)
      BY <3>2 DEF Ordered, Lacks
    <3> QED BY <2>1, <3>1, <3>3
  <2> QED BY <2>2, <2>3
<1>4. \A i \in 1..Len(t) : u[i].role = t[i].role /\ \A k, id : Carries(t[i].blocks, k, id) => Carries(u[i].blocks, k, id)
  BY <1>3
<1>5. \A i \in 1..Len(t) : Ordered(u[i].blocks)
  BY <1>3
<1>6. Prolonged(t, u)
  BY <1>1, <1>2, <1>4 DEF Prolonged
<1>7. \A i \in 1..Len(u) : Ordered(u[i].blocks)
  BY <1>2, <1>5
<1> QED BY <1>1, <1>2, <1>6, <1>7

(***************************************************************************)
(* Claude gets a tool result in the user turn right after the turn that    *)
(* made the call, unless the client itself put another turn in between,    *)
(* and before everything else in that turn (request.go, encodeInput and    *)
(* toolResultsFirst).                                                      *)
(***************************************************************************)
THEOREM ClaudeAnswersFollow ==
  ASSUME NEW items, Conversation(items), ~AnthropicInput(items).err
  PROVE  /\ \A i, j \in 1..Len(items) :
              /\ i < j /\ items[i].type = "function_call" /\ items[j].type = "function_call_output"
              /\ items[i].id = items[j].id
              /\ \A k, l \in i..j : k < l /\ ~ClaudeMute(items[k]) /\ ~ClaudeMute(items[l]) /\ UserSide(items[k]) => UserSide(items[l])
              => Met(AnthropicInput(items).turns, "tool_use", "tool_result", items[i].id)
         /\ Len(AnthropicInput(items).turns) \in Nat
         /\ \A t \in 1..Len(AnthropicInput(items).turns) : Ordered(AnthropicInput(items).turns[t].blocks)
<1>1. Len(items) \in Nat /\ \A i \in 1..Len(items) : Entry(items[i])
  BY ItemsOf
<1>2. PICK s : /\ Run("anthropic", items, {}, s)
               /\ AnthropicInput(items) = [s[Len(items)] EXCEPT !.turns = ResultsFirst(@)]
  BY <1>1, ClaudeRun
<1>3. \A k \in 0..Len(items) - 1 : s[k + 1] = ClaudeStep(s[k], items[k + 1]) /\ Entry(items[k + 1])
  <2>1. \A k \in 0..Len(items) - 1 : k + 1 \in 1..Len(items)
    BY <1>1
  <2> QED BY <1>1, <1>2, <2>1 DEF Run, EncodeStep
<1> DEFINE Good(m) == ClaudeSound(m) /\ (m.err \/ OnlyFrom(m.turns, "user", "tool_result"))
           S == {k \in Nat : k <= Len(items) => Good(s[k])}
<1>4. 0 \in S
  <2>1. s[0] = ClaudeState(<<>>, <<>>, TRUE, FALSE)
    BY <1>2 DEF Run, EncodeStart, ClaudeStart, ClaudeState
  <2>2. s[0].turns = <<>>
    BY <2>1 DEF ClaudeState
  <2>3. UserUnsigned(<<>>) /\ OnlyFrom(<<>>, "user", "tool_result")
    BY DEF UserUnsigned, OnlyFrom
  <2>4. ClaudeSound(s[0])
    BY <2>1, <2>3, SignedEmpty DEF ClaudeSound
  <2> QED BY <2>2, <2>3, <2>4
<1>5. ASSUME NEW k \in Nat, k \in S
      PROVE  k + 1 \in S
  <2> SUFFICES ASSUME k + 1 <= Len(items)
               PROVE  Good(s[k + 1])
    OBVIOUS
  <2>1. Good(s[k]) /\ k \in 0..Len(items) - 1
    BY <1>1, <1>5
  <2>2. PICK m, n, it : m = s[k] /\ n = s[k + 1] /\ it = items[k + 1] /\ n = ClaudeStep(m, it) /\ Entry(it)
    BY <1>3, <2>1
  <2>3. Good(n)
    BY <2>1, <2>2, ClaudeGoesOn
  <2> QED BY <2>2, <2>3
<1>6. \A k \in 0..Len(items) : Good(s[k])
  <2>1. \A k \in Nat : k \in S
    <3> HIDE DEF S
    <3> QED BY <1>4, <1>5, NaturalSteps
  <2> QED BY <1>1, <2>1
<1> HIDE DEF S
<1>7. PICK m, t : /\ m = s[Len(items)] /\ t = m.turns /\ ClaudeSound(m) /\ t \in Seq(Messages)
                  /\ m.err \/ OnlyFrom(t, "user", "tool_result")
  <2>1. Good(s[Len(items)])
    BY <1>1, <1>6
  <2>2. \A m : ClaudeSound(m) => m.turns \in Seq(Messages)
    BY ClaudeChanged DEF ClaudeSound
  <2> QED BY <2>1, <2>2
<1>8. PICK u : u = ResultsFirst(t) /\ u = AnthropicInput(items).turns /\ ~m.err
  <2>1. PICK x, sy, l, e : m = ClaudeState(x, sy, l, e)
    BY <1>7 DEF ClaudeSound
  <2>2. PICK u : u = ResultsFirst(t) /\ m.turns = x /\ m.err = e
    BY <2>1, ClaudeChanged
  <2>3. AnthropicInput(items) = [m EXCEPT !.turns = u]
    BY <1>2, <1>7, <2>2
  <2>4. AnthropicInput(items) = ClaudeState(u, sy, l, e)
    BY <2>1, <2>3, ClaudeChanged
  <2>5. AnthropicInput(items).turns = u /\ AnthropicInput(items).err = e
    BY <2>4, ClaudeChanged
  <2> QED BY <2>2, <2>5
<1>9. Len(t) \in Nat /\ Len(u) = Len(t) /\ Prolonged(t, u) /\ \A i \in 1..Len(u) : Ordered(u[i].blocks)
  BY <1>7, <1>8, OrderedPlaces
<1>10. ASSUME NEW i \in 1..Len(items), NEW j \in 1..Len(items), i < j,
              items[i].type = "function_call", items[j].type = "function_call_output", items[i].id = items[j].id,
              \A k, l \in i..j : k < l /\ ~ClaudeMute(items[k]) /\ ~ClaudeMute(items[l]) /\ UserSide(items[k]) => UserSide(items[l])
       PROVE  Met(u, "tool_use", "tool_result", items[i].id)
  <2>1. PICK id : id = items[i].id
    OBVIOUS
  <2> DEFINE N     == 0..Len(items)
             at    == {k \in N : ClaudeAt(s[k], id)}
             after == {k \in N : ClaudeAfter(s[k], id)}
             met   == {k \in N : ClaudeMet(s[k], id)}
             user  == {k \in N : UserSide(items[k])}
             quiet == {k \in N : ClaudeMute(items[k])}
             ask   == {k \in N : items[k].type = "function_call" /\ items[k].id = id}
             answer == {k \in N : items[k].type = "function_call_output" /\ items[k].id = id}
  <2>2. ASSUME NEW k \in 0..Len(items) - 1
        PROVE  Walks(k, i, j, at, after, met, user, quiet, ask, answer)
    <3>1. PICK p, n, it : p = s[k] /\ n = s[k + 1] /\ it = items[k + 1] /\ n = ClaudeStep(p, it) /\ Entry(it) /\ ClaudeSound(p)
      BY <1>1, <1>3, <1>6
    <3>2. k \in N /\ k + 1 \in N
      BY <1>1
    <3>3. /\ it.type = "function_call" /\ it.id = id => ClaudeAt(n, id)
          /\ ClaudeMute(it) => (ClaudeAt(p, id) => ClaudeAt(n, id)) /\ (ClaudeAfter(p, id) => ClaudeAfter(n, id))
          /\ ~UserSide(it) /\ ClaudeAt(p, id) => ClaudeAt(n, id)
          /\ UserSide(it) /\ (ClaudeAt(p, id) \/ ClaudeAfter(p, id)) => ClaudeAt(n, id) \/ ClaudeAfter(n, id)
          /\ /\ it.type = "function_call_output" /\ it.id = id
             /\ ClaudeAt(p, id) \/ ClaudeAfter(p, id)
             => ClaudeMet(n, id)
          /\ ClaudeMet(p, id) => ClaudeMet(n, id)
      BY <3>1, ClaudeGoesOn
    <3> QED BY <3>1, <3>2, <3>3 DEF Walks
  <2>3. \A k, l \in i..j : k < l /\ k \notin quiet /\ l \notin quiet /\ k \in user => l \in user
    <3>1. \A k \in i..j : k \in N
      BY <1>1
    <3> QED BY <1>10, <3>1
  <2>4. i \in ask /\ j \in answer
    BY <1>1, <1>10, <2>1
  <2> HIDE DEF at, after, met, user, quiet, ask, answer
  <2>11. PICK len \in Nat : len = Len(items)
    BY <1>1
  <2>12. i \in 1..len /\ j \in 1..len /\ i < j /\ Walk(len, i, j, at, after, met, user, quiet, ask, answer)
    BY <1>10, <2>2, <2>3, <2>4, <2>11 DEF Walk
  <2>13. len \in met
    BY <2>11, <2>12, Walked
  <2>14. ClaudeMet(m, id)
    BY <1>7, <2>11, <2>13 DEF met
  <2>15. Met(t, "tool_use", "tool_result", id)
    BY <1>7, <1>8, <2>14 DEF ClaudeMet
  <2>16. Met(u, "tool_use", "tool_result", id)
    BY <1>9, <2>15, MetGrown
  <2> QED BY <2>1, <2>16
<1> QED BY <1>8, <1>9, <1>10

-----------------------------------------------------------------------------
(***************************************************************************)
(* Gemini: what an item adds, and to whose content.                        *)
(***************************************************************************)
GeminiTyped(m) == \E t, s, p, l, e : m = GeminiState(t, s, p, l, e) /\ t \in Seq(Messages) /\ p \in Signature

LEMMA SoundIsTyped ==
  ASSUME NEW m, GeminiSound(m)
  PROVE  GeminiTyped(m)
BY TaggedTyped DEF GeminiSound, GeminiTyped

LEMMA LeadSignedCarries ==
  ASSUME NEW bs \in Seq(Blocks), bs # <<>>, NEW sig \in Signature
  PROVE  /\ LeadSigned(bs, sig) \in Seq(Blocks)
         /\ \A k, id : Carries(bs, k, id) => Carries(LeadSigned(bs, sig), k, id)
<1>1. Len(bs) \in Nat /\ 1 \in 1..Len(bs) /\ \A i \in 1..Len(bs) : bs[i] \in Blocks
  BY LenProperties, ElementOfSeq
<1>2. PICK h \in Blocks : h = bs[1]
  BY <1>1
<1>3. PICK b \in Blocks : b = [h EXCEPT !.sig = sig] /\ b.id = h.id /\ b.k = h.k
  <2>1. PICK b : b = [h EXCEPT !.sig = sig]
    OBVIOUS
  <2>2. b \in Blocks
    BY <2>1 DEF Blocks
  <2>3. b.id = h.id /\ b.k = h.k
    BY <2>1 DEF Blocks
  <2> QED BY <2>1, <2>2, <2>3
<1>4. PICK cs \in Seq(Blocks) : cs = [bs EXCEPT ![1] = b]
  <2>1. [bs EXCEPT ![1] = b] \in Seq(Blocks)
    BY <1>1, ExceptSeq
  <2> QED BY <2>1
<1>5. Len(cs) = Len(bs) /\ \A j \in 1..Len(bs) : cs[j] = IF j = 1 THEN b ELSE bs[j]
  BY <1>1, <1>4, ExceptSeq
<1>6. LeadSigned(bs, sig) = cs
  BY <1>2, <1>3, <1>4 DEF LeadSigned
<1>7. \A j \in 1..Len(bs) : cs[j].k = bs[j].k /\ cs[j].id = bs[j].id
  BY <1>2, <1>3, <1>5
<1> QED BY <1>5, <1>6, <1>7 DEF Carries

LEMMA JoinedTyped ==
  ASSUME NEW m, GeminiTyped(m), NEW role \in Speakers, NEW bs \in Seq(Blocks), NEW n, n = Joined(m, role, bs)
  PROVE  /\ GeminiTyped(n) /\ n.turns = Join(m.turns, role, bs) /\ m.turns \in Seq(Messages)
         /\ n.pending = m.pending /\ n.leading = m.leading /\ n.err = m.err
<1>1. PICK t, s, p, l, e : m = GeminiState(t, s, p, l, e) /\ t \in Seq(Messages) /\ p \in Signature
  BY DEF GeminiTyped
<1>2. m.turns = t /\ m.pending = p /\ m.leading = l /\ m.err = e
  BY <1>1 DEF GeminiState
<1>3. PICK u \in Seq(Messages) : u = Join(t, role, bs)
  BY <1>1, JoinTyped
<1>4. n = [m EXCEPT !.turns = u]
  BY <1>2, <1>3 DEF Joined
<1>5. n = GeminiState(u, s, p, l, e)
  BY <1>1, <1>4, GeminiChanged
<1>6. n.turns = u /\ n.pending = p /\ n.leading = l /\ n.err = e
  BY <1>5 DEF GeminiState
<1>7. GeminiTyped(n)
  BY <1>1, <1>3, <1>5 DEF GeminiTyped
<1> QED BY <1>1, <1>2, <1>3, <1>6, <1>7

LEMMA WaitingTyped ==
  ASSUME NEW m, GeminiTyped(m), NEW sig \in Signature, NEW n, n = Waiting(m, sig)
  PROVE  /\ GeminiTyped(n) /\ n.turns = m.turns /\ n.pending = sig /\ n.leading = m.leading /\ n.err = m.err
<1>1. PICK t, s, p, l, e : m = GeminiState(t, s, p, l, e) /\ t \in Seq(Messages) /\ p \in Signature
  BY DEF GeminiTyped
<1>2. m.turns = t /\ m.leading = l /\ m.err = e
  BY <1>1 DEF GeminiState
<1>3. n = GeminiState(t, s, sig, l, e)
  BY <1>1, GeminiChanged DEF Waiting
<1>4. n.turns = t /\ n.pending = sig /\ n.leading = l /\ n.err = e
  BY <1>3 DEF GeminiState
<1>5. GeminiTyped(n)
  BY <1>1, <1>3 DEF GeminiTyped
<1> QED BY <1>2, <1>4, <1>5

(* A signature that waited begins a thought, or goes to the last one. *)
LEMMA FlushPlaces ==
  ASSUME NEW m, GeminiTyped(m), NEW n, n = FlushSignature(m)
  PROVE  /\ GeminiTyped(n) /\ n.pending = <<>> /\ n.leading = m.leading /\ n.err = m.err
         /\ m.pending = <<>> => n = m
         /\ m.pending # <<>> => Len(n.turns) # 0
         /\ m.turns \in Seq(Messages) /\ n.turns \in Seq(Messages)
         /\ Len(m.turns) \in Nat /\ Len(n.turns) \in Nat /\ Prolonged(m.turns, n.turns)
         /\ \A k, id : AtCall(m.turns, "model", k, id) => AtCall(n.turns, "model", k, id)
<1>1. PICK t, s, p, l, e : m = GeminiState(t, s, p, l, e) /\ t \in Seq(Messages) /\ p \in Signature
  BY DEF GeminiTyped
<1>2. m.turns = t /\ m.pending = p
  BY <1>1 DEF GeminiState
<1>3. CASE p = <<>>
  <2>1. n = m
    BY <1>2, <1>3 DEF FlushSignature
  <2>2. Len(t) \in Nat /\ Prolonged(t, t)
    BY <1>1, LenProperties DEF Prolonged
  <2> QED BY <1>1, <1>2, <1>3, <2>1, <2>2
<1>4. CASE p # <<>>
  <2>1. PICK bs \in Seq(Blocks) : bs = <<Block("thought", 0, <<>>, p)>>
    <3>1. "thought" \in BlockKinds /\ <<>> \in Seq(Words)
      BY EmptySeq DEF BlockKinds
    <3>2. PICK b \in Blocks : b = Block("thought", 0, <<>>, p)
      BY <1>1, <3>1, BlockTyped
    <3>3. <<b>> \in Seq(Blocks)
      OBVIOUS
    <3> QED BY <3>2, <3>3
  <2>2. PICK role \in Speakers : role = "model"
    BY Speak
  <2>3. PICK q : q = Joined(m, role, bs)
    OBVIOUS
  <2>4. /\ GeminiTyped(q) /\ q.turns = Join(t, role, bs) /\ q.leading = m.leading /\ q.err = m.err
    BY <1>2, <2>3, JoinedTyped
  <2>5. <<>> \in Signature
    BY NoSignature
  <2>6. n = Waiting(q, <<>>)
    BY <1>2, <1>4, <2>1, <2>2, <2>3 DEF FlushSignature, Waiting, Joined
  <2>7. GeminiTyped(n) /\ n.turns = q.turns /\ n.pending = <<>> /\ n.leading = q.leading /\ n.err = q.err
    BY <2>4, <2>5, <2>6, WaitingTyped
  <2>8. PICK u : u = Join(t, role, bs)
    OBVIOUS
  <2>9. /\ u \in Seq(Messages) /\ Len(t) \in Nat /\ Prolonged(t, u)
        /\ Len(u) = IF Len(t) # 0 /\ t[Len(t)].role = role THEN Len(t) ELSE Len(t) + 1
    BY <1>1, <2>8, JoinPlaces
  <2>10. \A k, id : AtCall(t, role, k, id) => AtCall(u, role, k, id)
    BY <1>1, <2>8, CallJoined
  <2>11. Len(u) \in Nat /\ Len(u) # 0
    BY <2>9
  <2> QED BY <1>1, <1>2, <1>4, <2>2, <2>4, <2>7, <2>8, <2>9, <2>10, <2>11
<1> QED BY <1>3, <1>4

(* What blocks that are added do to a call and to its answer. *)
GeminiTells(m, n, role, bs, k, a, id) ==
  /\ GeminiTyped(n) /\ n.leading = m.leading /\ n.err = m.err /\ Len(n.turns) # 0
  /\ role = "model" => (AtCall(m.turns, "model", k, id) \/ Carries(bs, k, id) => AtCall(n.turns, "model", k, id))
  /\ role = "user" /\ (AtCall(m.turns, "model", k, id) \/ (AfterCall(m.turns, k, id) /\ m.pending = <<>>)) =>
       /\ AfterCall(n.turns, k, id) /\ n.pending = <<>>
       /\ Carries(bs, a, id) => Met(n.turns, k, a, id)
  /\ Met(m.turns, k, a, id) => Met(n.turns, k, a, id)

LEMMA GeminiTold ==
  ASSUME NEW m, GeminiTyped(m), NEW role \in Speakers, role \in {"model", "user"}, NEW bs \in Seq(Blocks), bs # <<>>,
         NEW n, n = GeminiAdd(m, role, bs), NEW k, NEW a, NEW id
  PROVE  GeminiTells(m, n, role, bs, k, a, id)
<1>1. PICK f : f = FlushSignature(m)
  OBVIOUS
<1>2. /\ GeminiTyped(f) /\ f.pending = <<>> /\ f.leading = m.leading /\ f.err = m.err
      /\ m.pending = <<>> => f = m
      /\ m.turns \in Seq(Messages) /\ f.turns \in Seq(Messages)
      /\ Len(m.turns) \in Nat /\ Len(f.turns) \in Nat /\ Prolonged(m.turns, f.turns)
      /\ AtCall(m.turns, "model", k, id) => AtCall(f.turns, "model", k, id)
  BY <1>1, FlushPlaces
<1>3. m.pending \in Signature /\ <<>> \in Signature
  <2>1. \A t, s, p, l, e : GeminiState(t, s, p, l, e).pending = p
    BY DEF GeminiState
  <2> QED BY <2>1, NoSignature DEF GeminiTyped
<1>4. Head(bs) = bs[1]
  OBVIOUS
(* Joined to the content as it is, or to the content with what waited. *)
<1>5. \E v, q, cs :
        /\ cs \in Seq(Blocks)
        /\ v = m \/ v = f
        /\ role = "user" => v = f
        /\ q = Joined(v, role, cs) /\ (n = q \/ n = Waiting(q, <<>>))
        /\ \A x, y : Carries(bs, x, y) => Carries(cs, x, y)
  <2>1. CASE m.pending # <<>> /\ bs[1].k # "thought" /\ role = "model" /\ bs[1].sig = <<>>
    <3>1. PICK sig \in Signature : sig = m.pending
      BY <1>3
    <3>2. PICK cs \in Seq(Blocks) : cs = LeadSigned(bs, sig) /\ \A x, y : Carries(bs, x, y) => Carries(cs, x, y)
      BY LeadSignedCarries
    <3>3. PICK q : q = Joined(m, role, cs)
      OBVIOUS
    <3>4. n = Waiting(q, <<>>)
      BY <1>4, <2>1, <3>1, <3>2, <3>3 DEF GeminiAdd, LeadSigned, Joined, Waiting
    <3>5. role # "user"
      BY <2>1
    <3> QED BY <3>2, <3>3, <3>4, <3>5
  <2>2. CASE ~(m.pending # <<>> /\ bs[1].k # "thought" /\ role = "model" /\ bs[1].sig = <<>>)
    <3>1. n = Joined(IF role # "model" \/ (m.pending # <<>> /\ bs[1].k # "thought") THEN f ELSE m, role, bs)
      BY <1>1, <1>4, <2>2 DEF GeminiAdd, Joined
    <3>2. PICK v : v = IF role # "model" \/ (m.pending # <<>> /\ bs[1].k # "thought") THEN f ELSE m
      OBVIOUS
    <3>3. PICK q : q = Joined(v, role, bs)
      OBVIOUS
    <3>4. role = "user" => v = f
      BY <3>2
    <3> QED BY <3>1, <3>2, <3>3, <3>4
  <2> QED BY <2>1, <2>2
<1>6. PICK v, q, cs :
        /\ cs \in Seq(Blocks)
        /\ v = m \/ v = f
        /\ role = "user" => v = f
        /\ q = Joined(v, role, cs) /\ (n = q \/ n = Waiting(q, <<>>))
        /\ \A x, y : Carries(bs, x, y) => Carries(cs, x, y)
  BY <1>5
<1>7. PICK t : /\ t = v.turns /\ t \in Seq(Messages) /\ Len(t) \in Nat /\ Prolonged(m.turns, t)
               /\ AtCall(m.turns, "model", k, id) => AtCall(t, "model", k, id)
               /\ GeminiTyped(v) /\ v.leading = m.leading /\ v.err = m.err
  <2>1. Prolonged(m.turns, m.turns)
    BY <1>2 DEF Prolonged
  <2> QED BY <1>2, <1>6, <2>1
<1>8. PICK u : /\ u = n.turns /\ u = Join(t, role, cs) /\ GeminiTyped(n) /\ n.leading = m.leading /\ n.err = m.err
               /\ v.pending = <<>> => n.pending = <<>>
  <2>1. cs \in Seq(Blocks) /\ q = Joined(v, role, cs) /\ GeminiTyped(v) /\ v.turns = t
    BY <1>6, <1>7
  <2>2. GeminiTyped(q) /\ q.turns = Join(t, role, cs) /\ q.pending = v.pending /\ q.leading = v.leading /\ q.err = v.err
    BY <2>1, JoinedTyped
  <2>3. PICK none \in Signature : none = <<>>
    BY <1>3
  <2>4. PICK w : w = Waiting(q, none)
    OBVIOUS
  <2>5. GeminiTyped(w) /\ w.turns = q.turns /\ w.pending = none /\ w.leading = q.leading /\ w.err = q.err
    BY <2>2, <2>4, WaitingTyped
  <2>6. n = q \/ n = w
    BY <1>6, <2>3, <2>4
  <2> QED BY <1>7, <2>2, <2>3, <2>5, <2>6
<1>9. /\ u \in Seq(Messages) /\ Len(t) \in Nat /\ Prolonged(t, u)
      /\ Len(u) = IF Len(t) # 0 /\ t[Len(t)].role = role THEN Len(t) ELSE Len(t) + 1
  <2>1. t \in Seq(Messages) /\ cs \in Seq(Blocks) /\ u = Join(t, role, cs)
    BY <1>6, <1>7, <1>8
  <2>2. u \in Seq(Messages) /\ Len(t) \in Nat /\ Prolonged(t, u)
    BY <2>1, JoinPlaces
  <2>3. Len(u) = IF Len(t) # 0 /\ t[Len(t)].role = role THEN Len(t) ELSE Len(t) + 1
    BY <2>1, JoinPlaces
  <2> QED BY <2>2, <2>3, Zenon
<1>10. Len(u) \in Nat /\ Len(u) # 0
  BY <1>9
<1>11. ASSUME role = "model", AtCall(m.turns, "model", k, id) \/ Carries(bs, k, id)
       PROVE  AtCall(u, "model", k, id)
  <2>1. AtCall(t, role, k, id) \/ Carries(cs, k, id)
    BY <1>6, <1>7, <1>11
  <2>2. AtCall(u, role, k, id)
    BY <1>6, <1>7, <1>8, <2>1, CallJoined
  <2> QED BY <1>11, <2>2
<1>12. ASSUME role = "user", AtCall(m.turns, "model", k, id) \/ (AfterCall(m.turns, k, id) /\ m.pending = <<>>)
       PROVE  AfterCall(u, k, id) /\ n.pending = <<>> /\ (Carries(bs, a, id) => Met(u, k, a, id))
  <2>1. PICK other \in Speakers : other = "model" /\ other # "user"
    BY Speak
  <2>2. AtCall(t, other, k, id) \/ AfterCall(t, k, id)
    BY <1>2, <1>6, <1>7, <1>12, <2>1
  <2>3. u = Join(t, "user", cs)
    BY <1>8, <1>12
  <2>4. AfterCall(u, k, id) /\ (Carries(cs, a, id) => Met(u, k, a, id))
    BY <1>6, <1>7, <2>1, <2>2, <2>3, UserJoined
  <2>5. n.pending = <<>>
    BY <1>2, <1>6, <1>8, <1>12
  <2> QED BY <1>6, <2>4, <2>5
<1>13. ASSUME Met(m.turns, k, a, id)
       PROVE  Met(u, k, a, id)
  <2>1. Met(t, k, a, id)
    BY <1>2, <1>7, <1>13, MetGrown
  <2> QED BY <1>9, <1>10, <2>1, MetGrown
<1> QED BY <1>8, <1>10, <1>11, <1>12, <1>13 DEF GeminiTells

GeminiSide(it) == IF UserSide(it) THEN "user" ELSE "model"
GeminiAddition(it) ==
  CASE it.type = "message"              -> BlocksOf(GeminiReadable(it.said))
    [] it.type = "function_call"        -> <<Block("call", it.id, it.said, <<>>)>>
    [] it.type = "function_call_output" -> <<Block("response", it.id, GeminiReadable(it.said), <<>>)>>
    [] it.type = "reasoning" /\ it.by = "gemini" /\ TextOf(it, "summary", "reasoning_text") # <<>> ->
         <<Block("thought", 0, TextOf(it, "summary", "reasoning_text"), <<>>)>>
    [] it.type = "extension" /\ it.by = "gemini" -> <<Block("extension", 0, it.said, it.sig)>>
    [] OTHER                            -> <<>>
GeminiRefuses(it, calls) ==
  \/ /\ it.type = "message"
     /\ \/ ~GeminiSupported(it, {"text", "refusal", "media"})
        \/ it.role = "system" /\ \E i \in 1..Len(GeminiAddition(it)) : GeminiAddition(it)[i].k # "text"
  \/ it.type = "function_call_output" /\ ~(it.id \in calls /\ GeminiSupported(it, {"text", "media"}))
  \/ it.type = "extension" /\ it.by \notin GeminiForeign \cup {"gemini"}
  \/ it.type \notin {"message", "function_call", "function_call_output", "reasoning", "extension"}

(* A reasoning item's signature waits after what it said. *)
LEMMA GeminiEffect ==
  ASSUME NEW m, ~m.leading, NEW it, NEW calls
  PROVE  GeminiEncodeItem(m, it, calls) =
           IF GeminiRefuses(it, calls) THEN [m EXCEPT !.err = TRUE]
           ELSE IF Renews(it) THEN Waiting(FlushSignature(GeminiAdd(m, GeminiSide(it), GeminiAddition(it))), it.sig)
           ELSE GeminiAdd(m, GeminiSide(it), GeminiAddition(it))
<1>1. \A role : GeminiAdd(m, role, <<>>) = m
  BY DEF GeminiAdd
<1>2. PICK refused : refused = [m EXCEPT !.err = TRUE]
  OBVIOUS
<1>3. CASE it.type = "message"
  <2>1. GeminiEncodeItem(m, it, calls) = GeminiEncodeMessage(m, it)
    BY <1>3 DEF GeminiEncodeItem
  <2>2. GeminiAddition(it) = BlocksOf(GeminiReadable(it.said)) /\ ~Renews(it)
    BY <1>3 DEF GeminiAddition, Renews
  <2>3. PICK bs : bs = GeminiAddition(it)
    OBVIOUS
  <2>4. GeminiRefuses(it, calls) <=> \/ ~GeminiSupported(it, {"text", "refusal", "media"})
                                     \/ it.role = "system" /\ \E i \in 1..Len(bs) : bs[i].k # "text"
    BY <1>3, <2>3 DEF GeminiRefuses
  <2>5. GeminiSide(it) = IF it.role = "assistant" THEN "model" ELSE "user"
    BY <1>3 DEF GeminiSide, UserSide
  <2>6. GeminiEncodeMessage(m, it) =
          IF \/ ~GeminiSupported(it, {"text", "refusal", "media"})
             \/ it.role = "system" /\ \E i \in 1..Len(bs) : bs[i].k # "text"
          THEN refused ELSE GeminiAdd(m, IF it.role = "assistant" THEN "model" ELSE "user", bs)
    BY <1>2, <2>2, <2>3 DEF GeminiEncodeMessage
  <2> QED BY <1>2, <2>1, <2>2, <2>3, <2>4, <2>5, <2>6
<1>4. CASE it.type = "function_call"
  <2>1. GeminiEncodeItem(m, it, calls) = GeminiAdd(m, "model", <<Block("call", it.id, it.said, <<>>)>>)
    BY <1>4 DEF GeminiEncodeItem
  <2>2. ~GeminiRefuses(it, calls) /\ GeminiSide(it) = "model" /\ ~Renews(it)
    BY <1>4 DEF GeminiRefuses, GeminiSide, UserSide, Renews
  <2>3. GeminiAddition(it) = <<Block("call", it.id, it.said, <<>>)>>
    BY <1>4 DEF GeminiAddition
  <2> QED BY <2>1, <2>2, <2>3
<1>5. CASE it.type = "function_call_output"
  <2>1. PICK bs : bs = <<Block("response", it.id, GeminiReadable(it.said), <<>>)>>
    OBVIOUS
  <2>2. GeminiEncodeItem(m, it, calls) =
          IF it.id \in calls /\ GeminiSupported(it, {"text", "media"}) THEN GeminiAdd(m, "user", bs) ELSE refused
    BY <1>2, <1>5, <2>1 DEF GeminiEncodeItem
  <2>3. /\ GeminiRefuses(it, calls) <=> ~(it.id \in calls /\ GeminiSupported(it, {"text", "media"}))
        /\ GeminiSide(it) = "user" /\ ~Renews(it)
    BY <1>5 DEF GeminiRefuses, GeminiSide, UserSide, Renews
  <2>4. GeminiAddition(it) = bs
    BY <1>5, <2>1 DEF GeminiAddition
  <2> QED BY <1>2, <2>2, <2>3, <2>4
<1>6. CASE it.type = "reasoning"
  <2>1. PICK bs : bs = <<Block("thought", 0, TextOf(it, "summary", "reasoning_text"), <<>>)>>
    OBVIOUS
  <2>2. PICK n : n = IF TextOf(it, "summary", "reasoning_text") = <<>> THEN m ELSE GeminiAdd(m, "model", bs)
    OBVIOUS
  <2>3. GeminiEncodeItem(m, it, calls) =
          IF it.by # "gemini" THEN m ELSE IF it.sig = <<>> THEN n ELSE Waiting(FlushSignature(n), it.sig)
    BY <1>6, <2>1, <2>2 DEF GeminiEncodeItem, GeminiEncodeReasoning, Waiting
  <2>4. ~GeminiRefuses(it, calls) /\ GeminiSide(it) = "model" /\ (Renews(it) <=> it.by = "gemini" /\ it.sig # <<>>)
    BY <1>6 DEF GeminiRefuses, GeminiSide, UserSide, Renews
  <2>5. GeminiAddition(it) = IF it.by = "gemini" /\ TextOf(it, "summary", "reasoning_text") # <<>> THEN bs ELSE <<>>
    BY <1>6, <2>1 DEF GeminiAddition
  <2>6. it.by = "gemini" => n = GeminiAdd(m, "model", GeminiAddition(it))
    BY <1>1, <2>2, <2>5
  <2> QED BY <1>1, <2>3, <2>4, <2>5, <2>6
<1>7. CASE it.type = "extension"
  <2>1. PICK bs : bs = <<Block("extension", 0, it.said, it.sig)>>
    OBVIOUS
  <2>2. GeminiEncodeItem(m, it, calls) =
          IF it.by \in GeminiForeign THEN m ELSE IF it.by = "gemini" THEN GeminiAdd(m, "model", bs) ELSE refused
    BY <1>2, <1>7, <2>1 DEF GeminiEncodeItem
  <2>3. (GeminiRefuses(it, calls) <=> it.by \notin GeminiForeign \cup {"gemini"}) /\ GeminiSide(it) = "model" /\ ~Renews(it)
    BY <1>7 DEF GeminiRefuses, GeminiSide, UserSide, Renews
  <2>4. GeminiAddition(it) = IF it.by = "gemini" THEN bs ELSE <<>>
    BY <1>7, <2>1 DEF GeminiAddition
  <2>5. "gemini" \notin GeminiForeign
    BY DEF GeminiForeign
  <2> QED BY <1>1, <1>2, <2>2, <2>3, <2>4, <2>5
<1>8. CASE it.type \notin {"message", "function_call", "function_call_output", "reasoning", "extension"}
  <2>1. GeminiEncodeItem(m, it, calls) = refused
    BY <1>2, <1>8 DEF GeminiEncodeItem
  <2>2. GeminiRefuses(it, calls)
    BY <1>8 DEF GeminiRefuses
  <2> QED BY <1>2, <2>1, <2>2
<1> QED BY <1>3, <1>4, <1>5, <1>6, <1>7, <1>8

LEMMA GeminiAdditionTyped ==
  ASSUME NEW it, Entry(it)
  PROVE  /\ GeminiAddition(it) \in Seq(Blocks) /\ GeminiSide(it) \in Speakers /\ GeminiSide(it) \in {"model", "user"}
         /\ it.type = "function_call" => Carries(GeminiAddition(it), "call", it.id)
         /\ it.type = "function_call_output" => Carries(GeminiAddition(it), "response", it.id)
<1>1. PICK id \in Nat, said \in Seq(Words), rest \in Seq(Words), text \in Seq(Words), sig \in Signature :
        /\ id = it.id /\ said = it.said /\ rest = GeminiReadable(it.said) /\ text = TextOf(it, "summary", "reasoning_text")
        /\ sig = it.sig
  <2>1. it.sig \in Signature
    BY TaggedTyped DEF Entry
  <2> QED BY <2>1, EntryFields, PiecesTyped, TextTyped DEF GeminiReadable
<1>2. \A k, n, w, s : <<Block(k, n, w, s)>>[1].k = k /\ <<Block(k, n, w, s)>>[1].id = n /\ Len(<<Block(k, n, w, s)>>) = 1
  BY DEF Block
<1>3. \A k, n, w, s : Carries(<<Block(k, n, w, s)>>, k, n)
  BY <1>2 DEF Carries
<1>4. \A k \in BlockKinds, n \in Nat, w \in Seq(Words), s \in Signature : <<Block(k, n, w, s)>> \in Seq(Blocks)
  BY BlockTyped
<1>5. <<>> \in Signature /\ 0 \in Nat /\ <<>> \in Seq(Blocks)
  BY NoSignature, EmptySeq
<1>6. PICK ask, output, thought, extension :
        /\ ask = "call" /\ output = "response" /\ thought = "thought" /\ extension = "extension"
        /\ {ask, output, thought, extension} \subseteq BlockKinds
  BY DEF BlockKinds
<1>7. GeminiSide(it) \in Speakers /\ GeminiSide(it) \in {"model", "user"}
  BY Speak DEF GeminiSide
<1>8. CASE it.type = "message"
  <2>1. GeminiAddition(it) = BlocksOf(rest) /\ GeminiAddition(it) \in Seq(Blocks)
    BY <1>1, <1>8, BlocksOfPieces DEF GeminiAddition, Unsigned
  <2> QED BY <1>7, <1>8, <2>1
<1>9. CASE it.type = "function_call"
  <2>1. GeminiAddition(it) = <<Block(ask, id, said, <<>>)>>
    BY <1>1, <1>6, <1>9 DEF GeminiAddition
  <2>2. <<Block(ask, id, said, <<>>)>> \in Seq(Blocks)
    BY <1>4, <1>5, <1>6
  <2> QED BY <1>1, <1>3, <1>6, <1>7, <1>9, <2>1, <2>2
<1>10. CASE it.type = "function_call_output"
  <2>1. GeminiAddition(it) = <<Block(output, id, rest, <<>>)>>
    BY <1>1, <1>6, <1>10 DEF GeminiAddition
  <2>2. <<Block(output, id, rest, <<>>)>> \in Seq(Blocks)
    BY <1>4, <1>5, <1>6
  <2> QED BY <1>1, <1>3, <1>6, <1>7, <1>10, <2>1, <2>2
<1>11. CASE it.type = "reasoning" /\ it.by = "gemini" /\ text # <<>>
  <2>1. GeminiAddition(it) = <<Block(thought, 0, text, <<>>)>>
    BY <1>1, <1>6, <1>11 DEF GeminiAddition
  <2>2. <<Block(thought, 0, text, <<>>)>> \in Seq(Blocks)
    BY <1>4, <1>5, <1>6
  <2> QED BY <1>7, <1>11, <2>1, <2>2
<1>12. CASE it.type = "extension" /\ it.by = "gemini"
  <2>1. GeminiAddition(it) = <<Block(extension, 0, said, sig)>>
    BY <1>1, <1>6, <1>12 DEF GeminiAddition
  <2>2. <<Block(extension, 0, said, sig)>> \in Seq(Blocks)
    BY <1>4, <1>5, <1>6
  <2> QED BY <1>7, <1>12, <2>1, <2>2
<1>13. CASE /\ it.type \notin {"message", "function_call", "function_call_output"}
            /\ ~(it.type = "reasoning" /\ it.by = "gemini" /\ text # <<>>) /\ ~(it.type = "extension" /\ it.by = "gemini")
  <2>1. GeminiAddition(it) = <<>>
    BY <1>1, <1>13 DEF GeminiAddition
  <2> QED BY <1>5, <1>7, <1>13, <2>1
<1> QED BY <1>8, <1>9, <1>10, <1>11, <1>12, <1>13

(* What a step does to the contents. *)
GeminiMoved(m, n, it, id) ==
  /\ GeminiAddition(it) = <<>> /\ ~Renews(it) => n.turns = m.turns /\ n.pending = m.pending
  /\ GeminiAddition(it) # <<>> \/ Renews(it) => Len(n.turns) # 0 \/ n.pending # <<>>
  /\ ~UserSide(it) => (AtCall(m.turns, "model", "call", id) \/ Carries(GeminiAddition(it), "call", id) => AtCall(n.turns, "model", "call", id))
  /\ /\ UserSide(it) /\ GeminiAddition(it) # <<>>
     /\ AtCall(m.turns, "model", "call", id) \/ (AfterCall(m.turns, "call", id) /\ m.pending = <<>>)
     => /\ AfterCall(n.turns, "call", id) /\ n.pending = <<>>
        /\ Carries(GeminiAddition(it), "response", id) => Met(n.turns, "call", "response", id)
  /\ Met(m.turns, "call", "response", id) => Met(n.turns, "call", "response", id)

LEMMA GeminiMovesOn ==
  ASSUME NEW m, GeminiTyped(m), ~m.leading, NEW it, Entry(it), NEW calls, ~GeminiRefuses(it, calls),
         NEW n, n = GeminiEncodeItem(m, it, calls), NEW id
  PROVE  GeminiTyped(n) /\ n.leading = m.leading /\ n.err = m.err /\ GeminiMoved(m, n, it, id)
<1>1. PICK role \in Speakers, bs \in Seq(Blocks) : role = GeminiSide(it) /\ bs = GeminiAddition(it) /\ role \in {"model", "user"}
  BY GeminiAdditionTyped
<1>2. PICK q : q = GeminiAdd(m, role, bs)
  OBVIOUS
<1>3. n = IF Renews(it) THEN Waiting(FlushSignature(q), it.sig) ELSE q
  BY <1>1, <1>2, GeminiEffect
<1>4. role = IF UserSide(it) THEN "user" ELSE "model"
  BY <1>1 DEF GeminiSide
<1>5. m.turns \in Seq(Messages) /\ Len(m.turns) \in Nat /\ Prolonged(m.turns, m.turns)
  <2>1. \A t, s, p, l, e : GeminiState(t, s, p, l, e).turns = t
    BY DEF GeminiState
  <2>2. m.turns \in Seq(Messages)
    BY <2>1 DEF GeminiTyped
  <2> QED BY <2>2, LenProperties DEF Prolonged
<1>6. \A k : Carries(<<>>, k, id) => FALSE
  BY EmptySeq DEF Carries
<1>7. bs = <<>> => q = m
  BY <1>2 DEF GeminiAdd
<1>8. bs # <<>> => GeminiTells(m, q, role, bs, "call", "response", id)
  BY <1>1, <1>2, GeminiTold
<1>9. GeminiTyped(q) /\ q.leading = m.leading /\ q.err = m.err
  BY <1>7, <1>8 DEF GeminiTells
<1>10. CASE ~Renews(it)
  <2>1. n = q
    BY <1>3, <1>10
  <2>2. CASE bs = <<>>
    BY <1>1, <1>6, <1>7, <1>9, <1>10, <2>1, <2>2 DEF GeminiMoved
  <2>3. CASE bs # <<>>
    <3>1. /\ Len(n.turns) # 0
          /\ role = "model" => (AtCall(m.turns, "model", "call", id) \/ Carries(bs, "call", id) => AtCall(n.turns, "model", "call", id))
          /\ role = "user" /\ (AtCall(m.turns, "model", "call", id) \/ (AfterCall(m.turns, "call", id) /\ m.pending = <<>>)) =>
               /\ AfterCall(n.turns, "call", id) /\ n.pending = <<>>
               /\ Carries(bs, "response", id) => Met(n.turns, "call", "response", id)
          /\ Met(m.turns, "call", "response", id) => Met(n.turns, "call", "response", id)
      BY <1>8, <2>1, <2>3 DEF GeminiTells
    <3> QED BY <1>1, <1>4, <1>9, <2>1, <2>3, <3>1 DEF GeminiMoved
  <2> QED BY <2>2, <2>3
<1>11. CASE Renews(it)
  <2>1. it.sig \in Signature /\ it.sig # <<>> /\ ~UserSide(it)
    BY <1>11, TaggedTyped DEF Entry, Renews, UserSide
  <2>2. PICK f, sig : f = FlushSignature(q) /\ sig = it.sig
    OBVIOUS
  <2>3. /\ GeminiTyped(f) /\ f.leading = q.leading /\ f.err = q.err
        /\ Len(q.turns) \in Nat /\ Len(f.turns) \in Nat /\ Prolonged(q.turns, f.turns)
        /\ AtCall(q.turns, "model", "call", id) => AtCall(f.turns, "model", "call", id)
    BY <1>9, <2>2, FlushPlaces
  <2>4. n = Waiting(f, sig)
    BY <1>3, <1>11, <2>2
  <2>5. GeminiTyped(n) /\ n.turns = f.turns /\ n.pending = sig /\ n.leading = f.leading /\ n.err = f.err
    BY <2>1, <2>2, <2>3, <2>4, WaitingTyped
  <2>6. AtCall(m.turns, "model", "call", id) \/ Carries(bs, "call", id) => AtCall(q.turns, "model", "call", id)
    <3>1. role = "model"
      BY <1>4, <2>1
    <3> QED BY <1>6, <1>7, <1>8, <3>1 DEF GeminiTells
  <2>7. Met(m.turns, "call", "response", id) => Met(q.turns, "call", "response", id)
    BY <1>7, <1>8 DEF GeminiTells
  <2>8. Met(q.turns, "call", "response", id) => Met(f.turns, "call", "response", id)
    BY <2>3, MetGrown
  <2>9. n.pending # <<>>
    BY <2>1, <2>2, <2>5
  <2> QED BY <1>1, <1>9, <1>11, <2>1, <2>3, <2>5, <2>6, <2>7, <2>8, <2>9 DEF GeminiMoved
<1> QED BY <1>10, <1>11

LEMMA GeminiMoves ==
  ASSUME NEW m, GeminiSound(m), ~m.err, NEW it, Entry(it), NEW calls, NEW n, n = GeminiStep(m, it, calls), NEW id
  PROVE  /\ m.leading /\ GeminiLeads(it) => n.err \/ (n.turns = m.turns /\ n.pending = m.pending)
         /\ ~(m.leading /\ GeminiLeads(it)) =>
              IF GeminiRefuses(it, calls) THEN n.err ELSE ~n.err /\ ~n.leading /\ GeminiMoved(m, n, it, id)
<1>1. PICK t, s, p, l, e : m = GeminiState(t, s, p, l, e) /\ t \in Seq(Messages) /\ Tagged(p)
  BY DEF GeminiSound
<1>2. m.turns = t /\ m.pending = p /\ m.leading = l /\ m.err = e
  BY <1>1 DEF GeminiState
<1>3. PICK b : b = (l /\ GeminiLeads(it))
  OBVIOUS
<1>4. PICK q : q = GeminiState(t, s, p, b, e) /\ q.turns = t /\ q.pending = p /\ q.leading = b /\ q.err = e
  <2>1. PICK q : q = GeminiState(t, s, p, b, e)
    OBVIOUS
  <2>2. q.turns = t /\ q.pending = p /\ q.leading = b /\ q.err = e
    BY <2>1 DEF GeminiState
  <2> QED BY <2>1, <2>2
<1>5. n = GeminiEncodeItem(q, it, calls)
  <2>1. [m EXCEPT !.leading = b] = q
    BY <1>1, <1>4, GeminiChanged
  <2>2. [m EXCEPT !.leading = @ /\ GeminiLeads(it)] = [m EXCEPT !.leading = b]
    BY <1>2, <1>3
  <2> QED BY <2>1, <2>2 DEF GeminiStep
<1>6. \A x : [q EXCEPT !.err = x].err = x
  BY <1>4 DEF GeminiState
<1>7. \A x : [q EXCEPT !.system = x].turns = t /\ [q EXCEPT !.system = x].pending = p
  BY <1>4 DEF GeminiState
<1>8. CASE m.leading /\ GeminiLeads(it)
  <2>1. n = GeminiEncodeMessage(q, it)
    BY <1>5, <1>8 DEF GeminiEncodeItem, GeminiLeads
  <2>2. q.leading /\ it.role = "system"
    BY <1>2, <1>3, <1>4, <1>8 DEF GeminiLeads
  <2>3. PICK x : x = q.system \o BlocksOf(GeminiReadable(it.said))
    OBVIOUS
  <2>4. n = [q EXCEPT !.err = TRUE] \/ n = [q EXCEPT !.system = x]
    BY <2>1, <2>2, <2>3 DEF GeminiEncodeMessage
  <2>5. n.err \/ (n.turns = t /\ n.pending = p)
    BY <1>6, <1>7, <2>4
  <2> QED BY <1>2, <1>8, <2>5
<1>9. CASE ~(m.leading /\ GeminiLeads(it))
  <2>1. ~q.leading
    BY <1>2, <1>3, <1>4, <1>9
  <2>2. CASE GeminiRefuses(it, calls)
    <3>1. n = [q EXCEPT !.err = TRUE]
      BY <1>5, <2>1, <2>2, GeminiEffect
    <3> QED BY <1>6, <1>9, <2>2, <3>1
  <2>3. CASE ~GeminiRefuses(it, calls)
    <3>1. GeminiTyped(q)
      BY <1>1, <1>4, TaggedTyped DEF GeminiTyped
    <3>2. n.leading = q.leading /\ n.err = q.err /\ GeminiMoved(q, n, it, id)
      BY <1>5, <2>1, <2>3, <3>1, GeminiMovesOn
    <3>3. GeminiMoved(m, n, it, id)
      BY <1>2, <1>4, <3>2 DEF GeminiMoved
    <3> QED BY <1>2, <1>4, <1>9, <2>1, <2>3, <3>2, <3>3
  <2> QED BY <2>2, <2>3
<1> QED BY <1>8, <1>9

(* An item that alone sends nothing adds nothing. *)
GeminiMute(it) == it.type # "function_call_output" /\ it.role # "system" /\ GeminiInput(<<it>>).turns = <<>>

LEMMA GeminiMuteAdds ==
  ASSUME NEW it, Entry(it), GeminiMute(it), NEW calls, ~GeminiRefuses(it, calls)
  PROVE  GeminiAddition(it) = <<>> /\ ~Renews(it)
<1>1. PICK items : items = <<it>> /\ Len(items) = 1 /\ items[1] = it
  <2>1. PICK items : items = <<it>>
    OBVIOUS
  <2>2. Len(items) = 1 /\ items[1] = it
    BY <2>1
  <2> QED BY <2>1, <2>2
<1>2. PICK own : own = CallsIn(items)
  OBVIOUS
<1>3. PICK s : Run("gemini", items, own, s) /\ GeminiInput(items) = FlushSignature(s[Len(items)])
  BY <1>1, <1>2, GeminiRun
<1>4. PICK m : m = GeminiStart
  OBVIOUS
<1>5. PICK n : n = GeminiStep(m, it, own) /\ n = s[1]
  <2>1. 0 \in 0..Len(items) - 1 /\ 0 + 1 = 1
    BY <1>1
  <2>2. s[0 + 1] = EncodeStep("gemini", s[0], items[0 + 1], own) /\ s[0] = GeminiStart
    BY <1>3, <2>1 DEF Run, EncodeStart
  <2> QED BY <1>1, <1>4, <2>1, <2>2 DEF EncodeStep
<1>6. GeminiSound(m) /\ ~m.err
  <2>1. m = GeminiState(<<>>, <<>>, <<>>, TRUE, FALSE)
    BY <1>4 DEF GeminiStart, GeminiState
  <2>2. CallsInModel(<<>>) /\ Tagged(<<>>)
    BY DEF CallsInModel, Tagged
  <2>3. GeminiSound(m)
    BY <2>1, <2>2, SignedEmpty DEF GeminiSound
  <2>4. m.err = FALSE
    BY <2>1 DEF GeminiState
  <2> QED BY <2>3, <2>4
<1>7. GeminiMoved(m, n, it, 0)
  <2>1. ~GeminiLeads(it)
    BY DEF GeminiMute, GeminiLeads
  <2>2. ~GeminiRefuses(it, own)
    BY DEF GeminiMute, GeminiRefuses
  <2>3. IF GeminiRefuses(it, own) THEN n.err ELSE ~n.err /\ ~n.leading /\ GeminiMoved(m, n, it, 0)
    BY <1>5, <1>6, <2>1, GeminiMoves
  <2> QED BY <2>2, <2>3
<1>8. GeminiAddition(it) # <<>> \/ Renews(it) => Len(n.turns) # 0 \/ n.pending # <<>>
  BY <1>7 DEF GeminiMoved
<1>9. PICK f : f = FlushSignature(n) /\ f.turns = <<>>
  BY <1>1, <1>3, <1>5 DEF GeminiMute
<1>10. GeminiTyped(n)
  BY <1>5, <1>6, GeminiStepped, SoundIsTyped DEF GeminiSays
<1>11. Len(n.turns) = 0 /\ n.pending = <<>>
  <2>1. /\ Len(n.turns) \in Nat /\ Len(f.turns) \in Nat /\ Prolonged(n.turns, f.turns)
        /\ n.pending # <<>> => Len(f.turns) # 0
    BY <1>9, <1>10, FlushPlaces
  <2>2. Len(f.turns) = 0
    BY <1>9
  <2> QED BY <2>1, <2>2 DEF Prolonged
<1> QED BY <1>8, <1>11

GeminiAt(m, id)    == m.err \/ (~m.leading /\ AtCall(m.turns, "model", "call", id))
GeminiAfter(m, id) == m.err \/ (~m.leading /\ AfterCall(m.turns, "call", id) /\ m.pending = <<>>)
GeminiMet(m, id)   == m.err \/ (~m.leading /\ Met(m.turns, "call", "response", id))

LEMMA GeminiGoesOn ==
  ASSUME NEW m, GeminiSound(m), NEW it, Entry(it), NEW calls, NEW n, n = GeminiStep(m, it, calls), NEW id
  PROVE  /\ GeminiSound(n)
         /\ it.type = "function_call" /\ it.id = id => GeminiAt(n, id)
         /\ GeminiMute(it) => (GeminiAt(m, id) => GeminiAt(n, id)) /\ (GeminiAfter(m, id) => GeminiAfter(n, id))
         /\ ~UserSide(it) /\ GeminiAt(m, id) => GeminiAt(n, id)
         /\ UserSide(it) /\ (GeminiAt(m, id) \/ GeminiAfter(m, id)) => GeminiAt(n, id) \/ GeminiAfter(n, id)
         /\ /\ it.type = "function_call_output" /\ it.id = id
            /\ GeminiAt(m, id) \/ GeminiAfter(m, id)
            => GeminiMet(n, id)
         /\ GeminiMet(m, id) => GeminiMet(n, id)
<1>1. GeminiSound(n)
  BY GeminiStepped DEF GeminiSays
<1>2. CASE m.err
  <2>1. n = m
    BY <1>2 DEF GeminiStep
  <2> QED BY <1>1, <1>2, <2>1 DEF GeminiAt, GeminiAfter, GeminiMet
<1>3. CASE n.err
  BY <1>1, <1>3 DEF GeminiAt, GeminiAfter, GeminiMet
<1> SUFFICES ASSUME ~m.err, ~n.err
             PROVE  /\ it.type = "function_call" /\ it.id = id => GeminiAt(n, id)
                    /\ GeminiMute(it) => (GeminiAt(m, id) => GeminiAt(n, id)) /\ (GeminiAfter(m, id) => GeminiAfter(n, id))
                    /\ ~UserSide(it) /\ GeminiAt(m, id) => GeminiAt(n, id)
                    /\ UserSide(it) /\ (GeminiAt(m, id) \/ GeminiAfter(m, id)) => GeminiAt(n, id) \/ GeminiAfter(n, id)
                    /\ /\ it.type = "function_call_output" /\ it.id = id
                       /\ GeminiAt(m, id) \/ GeminiAfter(m, id)
                       => GeminiMet(n, id)
                    /\ GeminiMet(m, id) => GeminiMet(n, id)
  BY <1>1, <1>2, <1>3
<1>4. CASE m.leading /\ GeminiLeads(it)
  <2>1. n.turns = m.turns
    BY <1>4, GeminiMoves
  <2>2. it.type # "function_call" /\ it.type # "function_call_output"
    BY <1>4 DEF GeminiLeads
  <2>3. UserSide(it) /\ ~GeminiMute(it)
    BY <1>4 DEF GeminiLeads, UserSide, GeminiMute
  <2> QED BY <1>4, <2>1, <2>2, <2>3 DEF GeminiAt, GeminiAfter, GeminiMet
<1>5. CASE ~(m.leading /\ GeminiLeads(it))
  <2>1. ~GeminiRefuses(it, calls) /\ ~n.leading /\ GeminiMoved(m, n, it, id)
    BY <1>5, GeminiMoves
  <2>2. PICK t, u, p, q, bs : t = m.turns /\ u = n.turns /\ p = m.pending /\ q = n.pending /\ bs = GeminiAddition(it)
    OBVIOUS
  <2>3. /\ bs = <<>> /\ ~Renews(it) => u = t /\ q = p
        /\ ~UserSide(it) => (AtCall(t, "model", "call", id) \/ Carries(bs, "call", id) => AtCall(u, "model", "call", id))
        /\ /\ UserSide(it) /\ bs # <<>>
           /\ AtCall(t, "model", "call", id) \/ (AfterCall(t, "call", id) /\ p = <<>>)
           => /\ AfterCall(u, "call", id) /\ q = <<>>
              /\ Carries(bs, "response", id) => Met(u, "call", "response", id)
        /\ Met(t, "call", "response", id) => Met(u, "call", "response", id)
    BY <2>1, <2>2 DEF GeminiMoved
  <2>4. /\ it.type = "function_call" /\ it.id = id => Carries(bs, "call", id) /\ ~UserSide(it)
        /\ it.type = "function_call_output" /\ it.id = id => Carries(bs, "response", id) /\ UserSide(it)
    BY <2>2, GeminiAdditionTyped DEF UserSide
  <2>5. GeminiMute(it) => bs = <<>> /\ ~Renews(it)
    BY <2>1, <2>2, GeminiMuteAdds
  <2>6. UserSide(it) => ~Renews(it)
    BY DEF UserSide, Renews
  <2>7. \A k : ~Carries(<<>>, k, id)
    BY EmptySeq DEF Carries
  <2>8. it.type = "function_call" /\ it.id = id => GeminiAt(n, id)
    BY <2>1, <2>2, <2>3, <2>4 DEF GeminiAt
  <2>9. GeminiMute(it) => (GeminiAt(m, id) => GeminiAt(n, id)) /\ (GeminiAfter(m, id) => GeminiAfter(n, id))
    BY <2>1, <2>2, <2>3, <2>5 DEF GeminiAt, GeminiAfter
  <2>10. ~UserSide(it) /\ GeminiAt(m, id) => GeminiAt(n, id)
    BY <2>1, <2>2, <2>3 DEF GeminiAt
  <2>11. UserSide(it) /\ (GeminiAt(m, id) \/ GeminiAfter(m, id)) => GeminiAt(n, id) \/ GeminiAfter(n, id)
    BY <2>1, <2>2, <2>3, <2>6 DEF GeminiAt, GeminiAfter
  <2>12. /\ it.type = "function_call_output" /\ it.id = id
         /\ GeminiAt(m, id) \/ GeminiAfter(m, id)
         => GeminiMet(n, id)
    BY <2>1, <2>2, <2>3, <2>4, <2>7 DEF GeminiAt, GeminiAfter, GeminiMet
  <2>13. GeminiMet(m, id) => GeminiMet(n, id)
    BY <2>1, <2>2, <2>3 DEF GeminiMet
  <2> QED BY <2>8, <2>9, <2>10, <2>11, <2>12, <2>13
<1> QED BY <1>4, <1>5

(* The placeholders change no block's kind or id. *)
LEMMA PlaceholdersKeep ==
  ASSUME NEW t \in Seq(Messages), NEW u, u = PlaceholderSignatures(t)
  PROVE  Len(t) \in Nat /\ Len(u) = Len(t) /\ Prolonged(t, u)
<1>1. Len(t) \in Nat /\ \A i \in 1..Len(t) : t[i] \in Messages
  BY LenProperties, ElementOfSeq
<1>2. Len(u) = Len(t)
  BY <1>1 DEF PlaceholderSignatures
<1>3. ASSUME NEW i \in 1..Len(t)
      PROVE  u[i].role = t[i].role /\ \A k, id : Carries(t[i].blocks, k, id) => Carries(u[i].blocks, k, id)
  <2>1. PICK bs \in Seq(Blocks) : bs = t[i].blocks
    BY <1>1, TurnIs
  <2>2. PICK c : c = FirstCall(bs)
    OBVIOUS
  <2>3. c # 0 => c \in 1..Len(bs)
    BY <2>2, FirstCallIs
  <2>4. CASE t[i].role = "model" /\ c # 0 /\ bs[c].sig = <<>>
    <3>1. PICK cs : cs = PlaceSigned(bs, c)
      OBVIOUS
    <3>2. Len(cs) = Len(bs) /\ \A j \in 1..Len(bs) : cs[j].k = bs[j].k /\ cs[j].id = bs[j].id
      BY <2>3, <2>4, <3>1, PlaceSignedIs
    <3>3. u[i] = Turn("model", cs)
      BY <2>1, <2>2, <2>4, <3>1 DEF PlaceholderSignatures, PlaceSigned
    <3>4. u[i].role = "model" /\ u[i].blocks = cs
      BY <3>3 DEF Turn
    <3> QED BY <2>1, <2>4, <3>2, <3>4 DEF Carries
  <2>5. CASE ~(t[i].role = "model" /\ c # 0 /\ bs[c].sig = <<>>)
    <3>1. u[i] = t[i]
      BY <2>1, <2>2, <2>5 DEF PlaceholderSignatures
    <3> QED BY <3>1
  <2> QED BY <2>4, <2>5
<1> QED BY <1>1, <1>2, <1>3 DEF Prolonged

(***************************************************************************)
(* Gemini gets a function response in the user content right after the     *)
(* model content that made the call, unless the client itself put another  *)
(* one in between (request.go, encodeInput): no thought part is flushed    *)
(* between the two.                                                        *)
(***************************************************************************)
THEOREM GeminiAnswersFollow ==
  ASSUME NEW items, Conversation(items), ~GeminiInput(items).err,
         NEW sent \in {GeminiInput(items).turns, PlaceholderSignatures(GeminiInput(items).turns)}
  PROVE  \A i, j \in 1..Len(items) :
           /\ i < j /\ items[i].type = "function_call" /\ items[j].type = "function_call_output"
           /\ items[i].id = items[j].id
           /\ \A k, l \in i..j : k < l /\ ~GeminiMute(items[k]) /\ ~GeminiMute(items[l]) /\ UserSide(items[k]) => UserSide(items[l])
           => Met(sent, "call", "response", items[i].id)
<1>1. Len(items) \in Nat /\ \A i \in 1..Len(items) : Entry(items[i])
  BY ItemsOf
<1>2. PICK s, calls : /\ calls = CallsIn(items) /\ Run("gemini", items, calls, s)
                      /\ GeminiInput(items) = FlushSignature(s[Len(items)])
  BY <1>1, GeminiRun
<1>3. \A k \in 0..Len(items) - 1 : s[k + 1] = GeminiStep(s[k], items[k + 1], calls) /\ Entry(items[k + 1])
  <2>1. \A k \in 0..Len(items) - 1 : k + 1 \in 1..Len(items)
    BY <1>1
  <2> QED BY <1>1, <1>2, <2>1 DEF Run, EncodeStep
<1> DEFINE S == {k \in Nat : k <= Len(items) => GeminiSound(s[k])}
<1>4. 0 \in S
  <2>1. s[0] = GeminiState(<<>>, <<>>, <<>>, TRUE, FALSE)
    BY <1>2 DEF Run, EncodeStart, GeminiStart, GeminiState
  <2>2. CallsInModel(<<>>) /\ Tagged(<<>>)
    BY DEF CallsInModel, Tagged
  <2>3. GeminiSound(s[0])
    BY <2>1, <2>2, SignedEmpty DEF GeminiSound
  <2> QED BY <2>3
<1>5. ASSUME NEW k \in Nat, k \in S
      PROVE  k + 1 \in S
  <2> SUFFICES ASSUME k + 1 <= Len(items)
               PROVE  GeminiSound(s[k + 1])
    OBVIOUS
  <2>1. GeminiSound(s[k]) /\ k \in 0..Len(items) - 1
    BY <1>1, <1>5
  <2>2. PICK m, n, it : m = s[k] /\ n = s[k + 1] /\ it = items[k + 1] /\ n = GeminiStep(m, it, calls) /\ Entry(it)
    BY <1>3, <2>1
  <2>3. GeminiSound(n)
    BY <2>1, <2>2, GeminiStepped DEF GeminiSays
  <2> QED BY <2>2, <2>3
<1>6. \A k \in 0..Len(items) : GeminiSound(s[k])
  <2>1. \A k \in Nat : k \in S
    <3> HIDE DEF S
    <3> QED BY <1>4, <1>5, NaturalSteps
  <2> QED BY <1>1, <2>1
<1> HIDE DEF S
<1>7. PICK m, f, t : m = s[Len(items)] /\ f = FlushSignature(m) /\ t = f.turns /\ GeminiSound(m) /\ f = GeminiInput(items)
  BY <1>1, <1>2, <1>6
<1>8. /\ ~m.err /\ t \in Seq(Messages)
      /\ Len(m.turns) \in Nat /\ Len(t) \in Nat /\ Prolonged(m.turns, t)
  <2>1. GeminiTyped(m)
    BY <1>7, SoundIsTyped
  <2> QED BY <1>7, <2>1, FlushPlaces
<1>9. PICK u : u = sent /\ Len(u) = Len(t) /\ Prolonged(t, u)
  <2>1. CASE sent = t
    BY <1>8, <2>1 DEF Prolonged
  <2>2. CASE sent = PlaceholderSignatures(t)
    BY <1>8, <2>2, PlaceholdersKeep
  <2> QED BY <1>7, <2>1, <2>2
<1>10. ASSUME NEW i \in 1..Len(items), NEW j \in 1..Len(items), i < j,
              items[i].type = "function_call", items[j].type = "function_call_output", items[i].id = items[j].id,
              \A k, l \in i..j : k < l /\ ~GeminiMute(items[k]) /\ ~GeminiMute(items[l]) /\ UserSide(items[k]) => UserSide(items[l])
       PROVE  Met(u, "call", "response", items[i].id)
  <2>1. PICK id : id = items[i].id
    OBVIOUS
  <2> DEFINE N      == 0..Len(items)
             at     == {k \in N : GeminiAt(s[k], id)}
             after  == {k \in N : GeminiAfter(s[k], id)}
             met    == {k \in N : GeminiMet(s[k], id)}
             user   == {k \in N : UserSide(items[k])}
             quiet  == {k \in N : GeminiMute(items[k])}
             ask   == {k \in N : items[k].type = "function_call" /\ items[k].id = id}
             answer == {k \in N : items[k].type = "function_call_output" /\ items[k].id = id}
  <2>2. ASSUME NEW k \in 0..Len(items) - 1
        PROVE  Walks(k, i, j, at, after, met, user, quiet, ask, answer)
    <3>1. PICK p, n, it : p = s[k] /\ n = s[k + 1] /\ it = items[k + 1] /\ n = GeminiStep(p, it, calls) /\ Entry(it) /\ GeminiSound(p)
      BY <1>1, <1>3, <1>6
    <3>2. k \in N /\ k + 1 \in N
      BY <1>1
    <3>3. /\ it.type = "function_call" /\ it.id = id => GeminiAt(n, id)
          /\ GeminiMute(it) => (GeminiAt(p, id) => GeminiAt(n, id)) /\ (GeminiAfter(p, id) => GeminiAfter(n, id))
          /\ ~UserSide(it) /\ GeminiAt(p, id) => GeminiAt(n, id)
          /\ UserSide(it) /\ (GeminiAt(p, id) \/ GeminiAfter(p, id)) => GeminiAt(n, id) \/ GeminiAfter(n, id)
          /\ /\ it.type = "function_call_output" /\ it.id = id
             /\ GeminiAt(p, id) \/ GeminiAfter(p, id)
             => GeminiMet(n, id)
          /\ GeminiMet(p, id) => GeminiMet(n, id)
      BY <3>1, GeminiGoesOn
    <3> QED BY <3>1, <3>2, <3>3 DEF Walks
  <2>3. \A k, l \in i..j : k < l /\ k \notin quiet /\ l \notin quiet /\ k \in user => l \in user
    <3>1. \A k \in i..j : k \in N
      BY <1>1
    <3> QED BY <1>10, <3>1
  <2>4. i \in ask /\ j \in answer
    BY <1>1, <1>10, <2>1
  <2> HIDE DEF at, after, met, user, quiet, ask, answer
  <2>5. PICK len \in Nat : len = Len(items)
    BY <1>1
  <2>6. i \in 1..len /\ j \in 1..len /\ i < j /\ Walk(len, i, j, at, after, met, user, quiet, ask, answer)
    BY <1>10, <2>2, <2>3, <2>4, <2>5 DEF Walk
  <2>7. len \in met
    BY <2>5, <2>6, Walked
  <2>8. GeminiMet(m, id)
    BY <1>7, <2>5, <2>7 DEF met
  <2>9. Met(m.turns, "call", "response", id)
    BY <1>8, <2>8 DEF GeminiMet
  <2>10. Met(t, "call", "response", id)
    BY <1>8, <2>9, MetGrown
  <2>11. Met(u, "call", "response", id)
    BY <1>8, <1>9, <2>10, MetGrown
  <2> QED BY <2>1, <2>11
<1> QED BY <1>7, <1>9, <1>10

-----------------------------------------------------------------------------
(***************************************************************************)
(* Chat Completions: what an item adds, in a message of which role.        *)
(***************************************************************************)
IsOutput(it) == it.type = "function_call_output"
ChatRole(it) == IF IsOutput(it) THEN "tool" ELSE IF it.type = "message" THEN it.role ELSE "assistant"
ChatPart(it) ==
  CASE it.type = "message"              -> ChatParts(it)
    [] it.type = "function_call"        -> <<Block("tool_use", it.id, it.said, <<>>)>>
    [] it.type = "function_call_output" -> <<Block("tool_result", it.id, Of(it.said, {"text"}), <<>>)>>
    [] OTHER                            -> <<Block("reasoning", 0, TextOf(it, "reasoning_text", "summary"), <<>>)>>
ChatRefuses(it) ==
  \/ it.type = "message" /\ ~ChatSupported(it, it.role)
  \/ it.type = "function_call_output" /\ ~ChatSupported(it, "output")
  \/ it.type \notin {"message", "function_call", "function_call_output", "reasoning"}

LEMMA ChatPartTyped ==
  ASSUME NEW it, Entry(it)
  PROVE  /\ ChatPart(it) \in Seq(Blocks) /\ ChatRole(it) \in Speakers
         /\ it.type = "function_call" => Carries(ChatPart(it), "tool_use", it.id)
         /\ it.type = "function_call_output" => Carries(ChatPart(it), "tool_result", it.id)
<1>1. PICK id \in Nat, said \in Seq(Words), words \in Seq(Words), text \in Seq(Words) :
        id = it.id /\ said = it.said /\ words = Of(it.said, {"text"}) /\ text = TextOf(it, "reasoning_text", "summary")
  BY EntryFields, PiecesTyped, TextTyped
<1>2. \A k, n, w, sig : <<Block(k, n, w, sig)>>[1].k = k /\ <<Block(k, n, w, sig)>>[1].id = n /\ Len(<<Block(k, n, w, sig)>>) = 1
  BY DEF Block
<1>3. \A k, n, w, sig : Carries(<<Block(k, n, w, sig)>>, k, n)
  BY <1>2 DEF Carries
<1>4. \A k \in BlockKinds, n \in Nat, w \in Seq(Words), sig \in Signature : <<Block(k, n, w, sig)>> \in Seq(Blocks)
  BY BlockTyped
<1>5. PICK ask \in BlockKinds, output \in BlockKinds, reasoning \in BlockKinds :
        ask = "tool_use" /\ output = "tool_result" /\ reasoning = "reasoning"
  BY DEF BlockKinds
<1>6. <<>> \in Signature /\ 0 \in Nat
  BY NoSignature
<1>7. ChatRole(it) \in Speakers
  BY Speak, EntryFields DEF ChatRole
<1>8. CASE it.type = "message"
  BY <1>7, <1>8, ChatUnsigned DEF ChatPart, Unsigned
<1>9. CASE it.type = "function_call"
  <2>1. ChatPart(it) = <<Block(ask, id, said, <<>>)>>
    BY <1>1, <1>5, <1>9 DEF ChatPart
  <2>2. <<Block(ask, id, said, <<>>)>> \in Seq(Blocks)
    BY <1>4, <1>6
  <2> QED BY <1>1, <1>3, <1>5, <1>7, <1>9, <2>1, <2>2
<1>10. CASE it.type = "function_call_output"
  <2>1. ChatPart(it) = <<Block(output, id, words, <<>>)>>
    BY <1>1, <1>5, <1>10 DEF ChatPart
  <2>2. <<Block(output, id, words, <<>>)>> \in Seq(Blocks)
    BY <1>4, <1>6
  <2> QED BY <1>1, <1>3, <1>5, <1>7, <1>10, <2>1, <2>2
<1>11. CASE it.type \notin {"message", "function_call", "function_call_output"}
  <2>1. ChatPart(it) = <<Block(reasoning, 0, text, <<>>)>>
    BY <1>1, <1>5, <1>11 DEF ChatPart
  <2>2. <<Block(reasoning, 0, text, <<>>)>> \in Seq(Blocks)
    BY <1>4, <1>6
  <2> QED BY <1>7, <1>11, <2>1, <2>2
<1> QED BY <1>8, <1>9, <1>10, <1>11

LEMMA ChatIsTyped ==
  ASSUME NEW m, ChatGood(m)
  PROVE  m.turns \in Seq(Messages) /\ m.media \in Seq(Blocks) /\ Len(m.turns) \in Nat
<1>1. PICK t, d, e : m = ChatState(t, d, e) /\ Quiet(t) /\ Unsigned(d)
  BY DEF ChatGood
<1>2. m.turns = t /\ m.media = d
  BY <1>1, ChatChanged
<1>3. t \in Seq(Messages) /\ d \in Seq(Blocks)
  BY <1>1 DEF Quiet, Unsigned
<1>4. Len(t) \in Nat
  BY <1>3, LenProperties
<1> QED BY <1>2, <1>3, <1>4

(* What the media that waits leaves as it was. *)
LEMMA FlushKeeps ==
  ASSUME NEW m, ChatGood(m), NEW it, NEW n, n = FlushMedia(m, it)
  PROVE  /\ ChatGood(n) /\ n.err = m.err /\ Prolonged(m.turns, n.turns)
         /\ m.media = <<>> \/ IsOutput(it) => n = m
         /\ n.media = <<>> \/ IsOutput(it)
<1>1. ChatGood(n)
  BY ChatFlushed
<1>2. CASE m.media = <<>> \/ IsOutput(it)
  <2>1. n = m
    BY <1>2 DEF FlushMedia, IsOutput
  <2>2. Prolonged(m.turns, m.turns)
    BY ChatIsTyped DEF Prolonged
  <2> QED BY <1>1, <1>2, <2>1, <2>2
<1>3. CASE ~(m.media = <<>> \/ IsOutput(it))
  <2>1. PICK t, d, e : m = ChatState(t, d, e) /\ Quiet(t) /\ Unsigned(d)
    BY DEF ChatGood
  <2>2. m.turns = t /\ m.media = d /\ m.err = e
    BY <2>1, ChatChanged
  <2>3. t \in Seq(Messages) /\ d \in Seq(Blocks)
    BY <2>1 DEF Quiet, Unsigned
  <2>4. PICK x \in Messages : x = Turn("user", d)
    BY <2>3, Speak, TurnTyped
  <2>5. PICK u : u = Append(t, x) /\ Prolonged(t, u)
    BY <2>3, AppendPlaces
  <2>6. PICK q : q = ChatState(u, d, e)
    OBVIOUS
  <2>7. [m EXCEPT !.turns = u] = q /\ \A y : [q EXCEPT !.media = y] = ChatState(u, y, e)
    BY <2>1, <2>6, ChatChanged
  <2>8. n = [[m EXCEPT !.turns = u] EXCEPT !.media = <<>>]
    BY <1>3, <2>2, <2>4, <2>5 DEF FlushMedia, IsOutput
  <2>9. n = ChatState(u, <<>>, e)
    BY <2>7, <2>8
  <2>10. n.turns = u /\ n.media = <<>> /\ n.err = e
    BY <2>9, ChatChanged
  <2> QED BY <1>1, <1>3, <2>2, <2>5, <2>10
<1> QED BY <1>2, <1>3

LEMMA ChatAdds ==
  ASSUME NEW m, ChatGood(m), ~m.err, NEW it, Entry(it), NEW n, n = ChatEncode(m, it)
  PROVE  /\ ChatGood(n)
         /\ ChatRefuses(it) => n.err /\ n.turns = m.turns /\ n.media = m.media
         /\ ~ChatRefuses(it) =>
              /\ ~n.err /\ (~IsOutput(it) => n.media = m.media)
              /\ IF ~IsOutput(it) /\ ChatRole(it) = "assistant" THEN n.turns = Join(m.turns, "assistant", ChatPart(it))
                 ELSE n.turns = Append(m.turns, Turn(ChatRole(it), ChatPart(it)))
<1>1. ChatGood(n)
  BY ChatEncoded
<1>2. PICK t, d, e : m = ChatState(t, d, e)
  BY DEF ChatGood
<1>3. m.turns = t /\ m.media = d /\ m.err = e
  BY <1>2, ChatChanged
<1>4. ASSUME NEW x
      PROVE  /\ [m EXCEPT !.turns = x].turns = x /\ [m EXCEPT !.turns = x].media = d /\ [m EXCEPT !.turns = x].err = e
  <2>1. PICK q : q = ChatState(x, d, e)
    OBVIOUS
  <2>2. q.turns = x /\ q.media = d /\ q.err = e
    BY <2>1, ChatChanged
  <2>3. [m EXCEPT !.turns = x] = q
    BY <1>2, <2>1, ChatChanged
  <2> QED BY <2>2, <2>3
<1>5. PICK refused : /\ refused = [m EXCEPT !.err = TRUE]
                     /\ refused.err /\ refused.turns = t /\ refused.media = d
  <2>1. PICK b : b = TRUE
    OBVIOUS
  <2>2. PICK q : q = ChatState(t, d, b)
    OBVIOUS
  <2>3. q.turns = t /\ q.media = d /\ q.err = b
    BY <2>2, ChatChanged
  <2>4. [m EXCEPT !.err = b] = q
    BY <1>2, <2>2, ChatChanged
  <2> QED BY <2>1, <2>3, <2>4
<1>6. PICK bs, role : bs = ChatPart(it) /\ role = ChatRole(it)
  OBVIOUS
<1>7. PICK u, v : u = Join(t, "assistant", bs) /\ v = Append(t, Turn(role, bs))
  OBVIOUS
<1>8. [m EXCEPT !.turns = u] = ChatAssistant(m, bs) /\ [m EXCEPT !.turns = v] = [m EXCEPT !.turns = Append(@, Turn(role, bs))]
  BY <1>3, <1>7 DEF ChatAssistant
<1>9. CASE ChatRefuses(it)
  <2>1. n = refused
    <3>1. CASE it.type = "message" /\ it.role = "assistant" /\ ~ChatSupported(it, "assistant")
      BY <1>5, <3>1 DEF ChatEncode
    <3>2. CASE it.type = "message" /\ it.role # "assistant" /\ ~ChatSupported(it, it.role)
      BY <1>5, <3>2 DEF ChatEncode
    <3>3. CASE it.type = "function_call_output" /\ ~ChatSupported(it, "output")
      BY <1>5, <3>3 DEF ChatEncode
    <3>4. CASE it.type \notin {"message", "function_call", "function_call_output", "reasoning"}
      BY <1>5, <3>4 DEF ChatEncode
    <3> QED BY <1>9, <3>1, <3>2, <3>3, <3>4 DEF ChatRefuses
  <2> QED BY <1>1, <1>3, <1>5, <1>9, <2>1
<1>10. CASE ~ChatRefuses(it) /\ ~IsOutput(it) /\ ChatRole(it) = "assistant"
  <2>1. n = ChatAssistant(m, bs)
    <3>1. CASE it.type = "message"
      <4>1. it.role = "assistant" /\ ChatSupported(it, "assistant")
        BY <1>10, <3>1 DEF ChatRole, ChatRefuses
      <4>2. bs = ChatParts(it)
        BY <1>6, <3>1 DEF ChatPart
      <4> QED BY <3>1, <4>1, <4>2 DEF ChatEncode, ChatParts
    <3>2. CASE it.type = "function_call"
      BY <1>6, <3>2 DEF ChatEncode, ChatPart
    <3>3. CASE it.type = "reasoning"
      BY <1>6, <3>3 DEF ChatEncode, ChatPart
    <3> QED BY <1>10, <3>1, <3>2, <3>3 DEF ChatRefuses, IsOutput
  <2> QED BY <1>1, <1>3, <1>4, <1>6, <1>7, <1>8, <1>10, <2>1
<1>11. CASE ~ChatRefuses(it) /\ ~IsOutput(it) /\ ChatRole(it) # "assistant"
  <2>1. n = [m EXCEPT !.turns = Append(@, Turn(role, bs))]
    <3>1. it.type = "message" /\ it.role = role /\ it.role # "assistant" /\ ChatSupported(it, it.role)
      BY <1>6, <1>11 DEF ChatRole, ChatRefuses
    <3>2. bs = ChatParts(it)
      BY <1>6, <3>1 DEF ChatPart
    <3> QED BY <3>1, <3>2 DEF ChatEncode, ChatParts
  <2> QED BY <1>1, <1>3, <1>4, <1>6, <1>7, <1>8, <1>11, <2>1
<1>12. CASE ~ChatRefuses(it) /\ IsOutput(it)
  <2>1. it.type = "function_call_output" /\ ChatSupported(it, "output") /\ role = "tool"
    BY <1>6, <1>12 DEF IsOutput, ChatRefuses, ChatRole
  <2>2. n = ChatAnswers(m, it)
    BY <2>1 DEF ChatEncode
  <2>3. bs = <<Block("tool_result", it.id, Of(it.said, {"text"}), <<>>)>>
    BY <1>6, <2>1 DEF ChatPart
  <2>4. PICK more : more = d \o ChatMedia(it)
    OBVIOUS
  <2>5. n = [[m EXCEPT !.turns = v] EXCEPT !.media = more]
    BY <1>3, <1>7, <2>1, <2>2, <2>3, <2>4 DEF ChatAnswers, ChatMedia
  <2>6. n = ChatState(v, more, e)
    <3>1. PICK q : q = ChatState(v, d, e)
      OBVIOUS
    <3>2. [m EXCEPT !.turns = v] = q
      BY <1>2, <3>1, ChatChanged
    <3>3. [q EXCEPT !.media = more] = ChatState(v, more, e)
      BY <3>1, ChatChanged
    <3> QED BY <2>5, <3>2, <3>3
  <2>7. n.turns = v /\ n.err = e
    BY <2>6, ChatChanged
  <2> QED BY <1>1, <1>3, <1>6, <1>7, <1>12, <2>7
<1> QED BY <1>9, <1>10, <1>11, <1>12

(* An item that alone sends nothing adds nothing. *)
ChatMute(it) == it.type # "function_call_output" /\ it.role # "system" /\ ChatInput(<<it>>).turns = <<>>

LEMMA ChatMuteAdds ==
  ASSUME NEW it, Entry(it), ChatMute(it)
  PROVE  LeftOut(it) \/ ChatRefuses(it)
<1> SUFFICES ASSUME ~LeftOut(it), ~ChatRefuses(it)
             PROVE  FALSE
  OBVIOUS
<1>1. PICK items : items = <<it>> /\ Len(items) = 1 /\ items[1] = it
  <2>1. PICK items : items = <<it>>
    OBVIOUS
  <2>2. Len(items) = 1 /\ items[1] = it
    BY <2>1
  <2> QED BY <2>1, <2>2
<1>2. PICK s : /\ Run("chatcompletions", items, {}, s)
               /\ ChatInput(items) = IF s[Len(items)].err THEN s[Len(items)] ELSE FlushMedia(s[Len(items)], CompactionItem)
  BY <1>1, ChatRun
<1>3. PICK m : m = ChatStart
  OBVIOUS
<1>4. PICK n : n = ChatStep(m, it) /\ n = s[1]
  <2>1. 0 \in 0..Len(items) - 1 /\ 0 + 1 = 1
    BY <1>1
  <2>2. s[0 + 1] = EncodeStep("chatcompletions", s[0], items[0 + 1], {}) /\ s[0] = ChatStart
    BY <1>2, <2>1 DEF Run, EncodeStart
  <2> QED BY <1>1, <1>3, <2>1, <2>2 DEF EncodeStep
<1>5. ChatGood(m) /\ ~m.err /\ m.turns = <<>> /\ m.media = <<>>
  <2>1. m = ChatState(<<>>, <<>>, FALSE)
    BY <1>3 DEF ChatStart, ChatState
  <2>2. ChatGood(m)
    BY <2>1, SignedEmpty, NothingUnsigned DEF ChatGood, Quiet
  <2>3. m.err = FALSE /\ m.turns = <<>> /\ m.media = <<>>
    BY <2>1 DEF ChatState
  <2> QED BY <2>2, <2>3
<1>6. n = ChatEncode(m, it)
  <2>1. FlushMedia(m, it) = m
    BY <1>5 DEF FlushMedia
  <2> QED BY <1>4, <1>5, <2>1 DEF ChatStep
<1>7. PICK t \in Seq(Messages), role \in Speakers, bs \in Seq(Blocks) :
        t = m.turns /\ role = ChatRole(it) /\ bs = ChatPart(it)
  BY <1>5, SignedEmpty, ChatPartTyped
<1>8. /\ ChatGood(n) /\ ~n.err /\ n.media = <<>>
      /\ n.turns = Join(t, "assistant", bs) \/ n.turns = Append(t, Turn(role, bs))
  <2>1. ~IsOutput(it)
    BY DEF ChatMute, IsOutput
  <2> QED BY <1>5, <1>6, <1>7, <2>1, ChatAdds
<1>9. FlushMedia(n, CompactionItem) = n
  BY <1>8 DEF FlushMedia
<1>10. n.turns = <<>>
  BY <1>1, <1>2, <1>4, <1>8, <1>9 DEF ChatMute
<1>11. PICK u : u = n.turns /\ Len(u) = 0
  BY <1>10
<1>12. Len(t) = 0
  BY <1>5, <1>7
<1>13. CASE u = Append(t, Turn(role, bs))
  <2>1. PICK x \in Messages : x = Turn(role, bs)
    BY TurnTyped
  <2>2. u = Append(t, x)
    BY <1>13, <2>1
  <2>3. Len(u) = Len(t) + 1
    BY <2>2, AppendPlaces
  <2>4. Len(u) = 0 /\ Len(t) = 0
    BY <1>11, <1>12
  <2> QED BY <2>3, <2>4
<1>14. CASE u = Join(t, "assistant", bs)
  <2>1. PICK other \in Speakers : other = "assistant"
    BY Speak
  <2>2. u = Join(t, other, bs)
    BY <1>14, <2>1
  <2>3. Len(u) = IF Len(t) # 0 /\ t[Len(t)].role = other THEN Len(t) ELSE Len(t) + 1
    BY <2>2, JoinPlaces
  <2>4. Len(u) = 0 /\ Len(t) = 0
    BY <1>11, <1>12
  <2> QED BY <2>3, <2>4
<1> QED BY <1>8, <1>11, <1>13, <1>14

(* The call is before nothing but answers; it has its answer among them. *)
ToolsFrom(t, a, b)     == \A v \in a..b : t[v].role = "tool"
AnsweredSoFar(t, id)   == \E i \in 1..Len(t) - 1 : Carries(t[i].blocks, "tool_use", id) /\ ToolsFrom(t, i + 1, Len(t))
Replied(t, id)         == \E i, j \in 1..Len(t) : /\ i < j /\ ToolsFrom(t, i + 1, j)
                                                  /\ Carries(t[i].blocks, "tool_use", id) /\ Carries(t[j].blocks, "tool_result", id)

LEMMA RepliedGrown ==
  ASSUME NEW t, NEW u, Len(t) \in Nat, Len(u) \in Nat, Prolonged(t, u), NEW id, Replied(t, id)
  PROVE  Replied(u, id)
<1>1. PICK i, j \in 1..Len(t) : /\ i < j /\ ToolsFrom(t, i + 1, j)
                                /\ Carries(t[i].blocks, "tool_use", id) /\ Carries(t[j].blocks, "tool_result", id)
  BY DEF Replied
<1>2. i \in 1..Len(u) /\ j \in 1..Len(u) /\ \A v \in i + 1..j : v \in 1..Len(t)
  BY <1>1 DEF Prolonged
<1>3. ToolsFrom(u, i + 1, j)
  BY <1>1, <1>2 DEF ToolsFrom, Prolonged
<1>4. Carries(u[i].blocks, "tool_use", id) /\ Carries(u[j].blocks, "tool_result", id)
  BY <1>1 DEF Prolonged
<1> QED BY <1>1, <1>2, <1>3, <1>4 DEF Replied

LEMMA ToolAdded ==
  ASSUME NEW t \in Seq(Messages), NEW bs \in Seq(Blocks), NEW u, u = Append(t, Turn("tool", bs)), NEW id,
         AtCall(t, "assistant", "tool_use", id) \/ AnsweredSoFar(t, id)
  PROVE  AnsweredSoFar(u, id) /\ (Carries(bs, "tool_result", id) => Replied(u, id))
<1>1. PICK x \in Messages : x = Turn("tool", bs) /\ x.role = "tool" /\ x.blocks = bs
  BY Speak, TurnTyped
<1>2. /\ Len(t) \in Nat /\ Len(u) = Len(t) + 1 /\ u[Len(u)] = x
      /\ \A i \in 1..Len(t) : u[i] = t[i]
  <2>1. u = Append(t, x)
    BY <1>1
  <2> QED BY <2>1, AppendPlaces
<1>3. PICK i \in 1..Len(t) : Carries(t[i].blocks, "tool_use", id) /\ ToolsFrom(t, i + 1, Len(t))
  <2>1. CASE AtCall(t, "assistant", "tool_use", id)
    <3>1. Len(t) \in 1..Len(t) /\ Carries(t[Len(t)].blocks, "tool_use", id)
      BY <1>2, <2>1 DEF AtCall
    <3>2. ToolsFrom(t, Len(t) + 1, Len(t))
      BY <1>2 DEF ToolsFrom
    <3> QED BY <3>1, <3>2
  <2>2. CASE AnsweredSoFar(t, id)
    BY <1>2, <2>2 DEF AnsweredSoFar
  <2> QED BY <2>1, <2>2
<1>4. Carries(u[i].blocks, "tool_use", id) /\ i \in 1..Len(u) - 1 /\ i \in 1..Len(u) /\ Len(u) \in 1..Len(u) /\ i < Len(u)
  <2>1. i \in 1..Len(u) - 1 /\ i \in 1..Len(u) /\ Len(u) \in 1..Len(u) /\ i < Len(u)
    BY <1>2
  <2>2. u[i] = t[i]
    BY <1>2
  <2>3. Carries(u[i].blocks, "tool_use", id)
    BY <1>3, <2>2
  <2> QED BY <2>1, <2>3
<1>5. ToolsFrom(u, i + 1, Len(u))
  <2> SUFFICES ASSUME NEW v \in i + 1..Len(u)
               PROVE  u[v].role = "tool"
    BY DEF ToolsFrom
  <2>1. CASE v = Len(u)
    BY <1>1, <1>2, <2>1
  <2>2. CASE v # Len(u)
    <3>1. v \in i + 1..Len(t) /\ v \in 1..Len(t)
      <4>1. PICK n \in Nat : n = Len(t) /\ Len(u) = n + 1
        BY <1>2
      <4>2. i \in 1..n /\ v \in i + 1..n + 1 /\ v # n + 1
        BY <2>2, <4>1
      <4>3. v \in i + 1..n /\ v \in 1..n
        BY <4>2
      <4> QED BY <4>1, <4>3
    <3>2. t[v].role = "tool"
      BY <1>3, <3>1 DEF ToolsFrom
    <3>3. u[v] = t[v]
      BY <1>2, <3>1
    <3> QED BY <3>2, <3>3
  <2> QED BY <2>1, <2>2
<1>6. AnsweredSoFar(u, id)
  BY <1>4, <1>5 DEF AnsweredSoFar
<1>7. Carries(bs, "tool_result", id) => Replied(u, id)
  BY <1>1, <1>2, <1>4, <1>5 DEF Replied
<1> QED BY <1>6, <1>7

ChatAt(m, id)    == m.err \/ (m.media = <<>> /\ AtCall(m.turns, "assistant", "tool_use", id))
ChatAfter(m, id) == m.err \/ AnsweredSoFar(m.turns, id)
ChatMet(m, id)   == m.err \/ Replied(m.turns, id)

LEMMA ChatGoesOn ==
  ASSUME NEW m, ChatGood(m), NEW it, Entry(it), NEW n, n = ChatStep(m, it), NEW id
  PROVE  /\ ChatGood(n)
         /\ it.type = "function_call" /\ it.id = id => ChatAt(n, id)
         /\ ChatMute(it) => (ChatAt(m, id) => ChatAt(n, id)) /\ (ChatAfter(m, id) => ChatAfter(n, id))
         /\ ~UserSide(it) /\ ChatAt(m, id) => ChatAt(n, id)
         /\ IsOutput(it) /\ (ChatAt(m, id) \/ ChatAfter(m, id)) => ChatAfter(n, id)
         /\ IsOutput(it) /\ it.id = id /\ (ChatAt(m, id) \/ ChatAfter(m, id)) => ChatMet(n, id)
         /\ ChatMet(m, id) => ChatMet(n, id)
<1>1. CASE m.err \/ LeftOut(it)
  <2>1. n = m
    BY <1>1 DEF ChatStep
  <2>2. ~m.err => it.type # "function_call" /\ ~IsOutput(it)
    BY <1>1 DEF LeftOut, IsOutput
  <2> QED BY <2>1, <2>2 DEF ChatAt, ChatAfter, ChatMet
<1>2. CASE ~m.err /\ ~LeftOut(it)
  <2>1. PICK f : f = FlushMedia(m, it) /\ n = ChatEncode(f, it)
    BY <1>2 DEF ChatStep
  <2>2. /\ ChatGood(f) /\ ~f.err /\ Prolonged(m.turns, f.turns)
        /\ m.media = <<>> \/ IsOutput(it) => f = m
        /\ f.media = <<>> \/ IsOutput(it)
    BY <1>2, <2>1, FlushKeeps
  <2>3. /\ ChatGood(n)
        /\ ChatRefuses(it) => n.err
        /\ ~ChatRefuses(it) =>
              /\ ~n.err /\ (~IsOutput(it) => n.media = f.media)
              /\ IF ~IsOutput(it) /\ ChatRole(it) = "assistant" THEN n.turns = Join(f.turns, "assistant", ChatPart(it))
                 ELSE n.turns = Append(f.turns, Turn(ChatRole(it), ChatPart(it)))
    BY <2>1, <2>2, ChatAdds
  <2>4. CASE ChatRefuses(it)
    BY <2>3, <2>4 DEF ChatAt, ChatAfter, ChatMet
  <2>5. CASE ~ChatRefuses(it)
    <3>1. ~ChatMute(it)
      BY <1>2, <2>5, ChatMuteAdds
    <3>2. PICK t, s, u, role, bs : /\ t = m.turns /\ s = f.turns /\ u = n.turns /\ role = ChatRole(it) /\ bs = ChatPart(it)
                                   /\ t \in Seq(Messages) /\ s \in Seq(Messages) /\ u \in Seq(Messages)
                                   /\ role \in Speakers /\ bs \in Seq(Blocks)
      BY <2>2, <2>3, ChatIsTyped, ChatPartTyped
    <3>3. Len(t) \in Nat /\ Len(s) \in Nat /\ Len(u) \in Nat /\ Prolonged(t, s)
      BY <2>2, <3>2, LenProperties
    <3>4. /\ it.type = "function_call" /\ it.id = id => Carries(bs, "tool_use", id)
          /\ IsOutput(it) /\ it.id = id => Carries(bs, "tool_result", id)
      BY <3>2, ChatPartTyped DEF IsOutput
    <3>5. CASE IsOutput(it)
      <4>1. role = "tool" /\ it.type # "function_call" /\ UserSide(it) /\ s = t
        BY <2>2, <3>2, <3>5 DEF ChatRole, IsOutput, UserSide
      <4>2. u = Append(t, Turn("tool", bs))
        BY <2>3, <2>5, <3>2, <3>5, <4>1
      <4>3. AtCall(t, "assistant", "tool_use", id) \/ AnsweredSoFar(t, id) =>
              AnsweredSoFar(u, id) /\ (Carries(bs, "tool_result", id) => Replied(u, id))
        BY <3>2, <4>2, ToolAdded
      <4>4. Prolonged(t, u)
        <5>1. PICK x \in Messages : x = Turn("tool", bs)
          BY <3>2, <4>1, TurnTyped
        <5>2. u = Append(t, x)
          BY <4>2, <5>1
        <5> QED BY <3>2, <5>2, AppendPlaces
      <4>5. Replied(t, id) => Replied(u, id)
        BY <3>3, <4>4, RepliedGrown
      <4> QED BY <1>2, <2>3, <3>1, <3>2, <3>4, <3>5, <4>1, <4>3, <4>5 DEF ChatAt, ChatAfter, ChatMet
    <3>6. CASE ~IsOutput(it) /\ role = "assistant"
      <4>1. u = Join(s, role, bs) /\ n.media = <<>>
        BY <2>2, <2>3, <2>5, <3>2, <3>6
      <4>2. AtCall(s, role, "tool_use", id) \/ Carries(bs, "tool_use", id) => AtCall(u, role, "tool_use", id)
        BY <3>2, <4>1, CallJoined
      <4>3. m.media = <<>> => s = t
        BY <2>2, <3>2
      <4>4. Prolonged(s, u)
        BY <3>2, <4>1, JoinPlaces
      <4>5. Prolonged(t, u)
        BY <3>3, <4>4, ProlongedAgain
      <4>6. Replied(t, id) => Replied(u, id)
        BY <3>3, <4>5, RepliedGrown
      <4> QED BY <1>2, <2>3, <3>1, <3>2, <3>4, <3>6, <4>1, <4>2, <4>3, <4>6 DEF ChatAt, ChatAfter, ChatMet
    <3>7. CASE ~IsOutput(it) /\ role # "assistant"
      <4>1. UserSide(it) /\ it.type # "function_call"
        BY <3>2, <3>7 DEF UserSide, ChatRole
      <4>2. PICK x \in Messages : x = Turn(role, bs)
        BY <3>2, TurnTyped
      <4>3. u = Append(s, x)
        BY <2>3, <2>5, <3>2, <3>7, <4>2
      <4>4. Prolonged(s, u)
        BY <3>2, <4>3, AppendPlaces
      <4>5. Prolonged(t, u)
        BY <3>3, <4>4, ProlongedAgain
      <4>6. Replied(t, id) => Replied(u, id)
        BY <3>3, <4>5, RepliedGrown
      <4> QED BY <1>2, <2>3, <3>1, <3>2, <3>7, <4>1, <4>6 DEF ChatAt, ChatAfter, ChatMet
    <3> QED BY <3>5, <3>6, <3>7
  <2> QED BY <2>4, <2>5
<1> QED BY <1>1, <1>2

(***************************************************************************)
(* Chat Completions gets a tool message after the assistant message that   *)
(* made the call, with nothing but other tool messages in between, unless  *)
(* the client itself put something there (request.go, encodeInput): the    *)
(* media of function outputs waits for the last of them.                   *)
(***************************************************************************)
THEOREM ChatAnswersFollow ==
  ASSUME NEW items, Conversation(items), ~ChatInput(items).err
  PROVE  \A i, j \in 1..Len(items) :
           /\ i < j /\ items[i].type = "function_call" /\ items[j].type = "function_call_output"
           /\ items[i].id = items[j].id
           /\ \A k, l \in i..j : k < l /\ ~ChatMute(items[k]) /\ ~ChatMute(items[l]) /\ UserSide(items[k]) => UserSide(items[l])
           /\ \A k \in i..j : ~ChatMute(items[k]) /\ UserSide(items[k]) => items[k].type = "function_call_output"
           => Replied(ChatInput(items).turns, items[i].id)
<1>1. Len(items) \in Nat /\ \A i \in 1..Len(items) : Entry(items[i])
  BY ItemsOf
<1>2. PICK s : /\ Run("chatcompletions", items, {}, s)
               /\ ChatInput(items) = IF s[Len(items)].err THEN s[Len(items)] ELSE FlushMedia(s[Len(items)], CompactionItem)
  BY <1>1, ChatRun
<1>3. \A k \in 0..Len(items) - 1 : s[k + 1] = ChatStep(s[k], items[k + 1]) /\ Entry(items[k + 1])
  <2>1. \A k \in 0..Len(items) - 1 : k + 1 \in 1..Len(items)
    BY <1>1
  <2> QED BY <1>1, <1>2, <2>1 DEF Run, EncodeStep
<1> DEFINE S == {k \in Nat : k <= Len(items) => ChatGood(s[k])}
<1>4. 0 \in S
  <2>1. s[0] = ChatState(<<>>, <<>>, FALSE)
    BY <1>2 DEF Run, EncodeStart, ChatStart, ChatState
  <2>2. ChatGood(s[0])
    BY <2>1, SignedEmpty, NothingUnsigned DEF ChatGood, Quiet
  <2> QED BY <2>2
<1>5. ASSUME NEW k \in Nat, k \in S
      PROVE  k + 1 \in S
  <2> SUFFICES ASSUME k + 1 <= Len(items)
               PROVE  ChatGood(s[k + 1])
    OBVIOUS
  <2>1. ChatGood(s[k]) /\ k \in 0..Len(items) - 1
    BY <1>1, <1>5
  <2>2. PICK m, n, it : m = s[k] /\ n = s[k + 1] /\ it = items[k + 1] /\ n = ChatStep(m, it) /\ Entry(it)
    BY <1>3, <2>1
  <2>3. ChatGood(n)
    BY <2>1, <2>2, ChatGoesOn
  <2> QED BY <2>2, <2>3
<1>6. \A k \in 0..Len(items) : ChatGood(s[k])
  <2>1. \A k \in Nat : k \in S
    <3> HIDE DEF S
    <3> QED BY <1>4, <1>5, NaturalSteps
  <2> QED BY <1>1, <2>1
<1> HIDE DEF S
<1>7. PICK m, f : /\ m = s[Len(items)] /\ f = ChatInput(items) /\ ChatGood(m)
                  /\ f = IF m.err THEN m ELSE FlushMedia(m, CompactionItem)
  BY <1>1, <1>2, <1>6
<1>8. ~m.err /\ Prolonged(m.turns, f.turns) /\ Len(m.turns) \in Nat /\ Len(f.turns) \in Nat
  <2>1. ~m.err /\ f = FlushMedia(m, CompactionItem)
    BY <1>7
  <2>2. ChatGood(f) /\ Prolonged(m.turns, f.turns)
    BY <1>7, <2>1, FlushKeeps
  <2> QED BY <1>7, <2>1, <2>2, ChatIsTyped
<1>9. ASSUME NEW i \in 1..Len(items), NEW j \in 1..Len(items), i < j,
             items[i].type = "function_call", items[j].type = "function_call_output", items[i].id = items[j].id,
             \A k, l \in i..j : k < l /\ ~ChatMute(items[k]) /\ ~ChatMute(items[l]) /\ UserSide(items[k]) => UserSide(items[l]),
             \A k \in i..j : ~ChatMute(items[k]) /\ UserSide(items[k]) => items[k].type = "function_call_output"
      PROVE  Replied(f.turns, items[i].id)
  <2>1. PICK id : id = items[i].id
    OBVIOUS
  <2> DEFINE N      == 0..Len(items)
             at     == {k \in N : ChatAt(s[k], id)}
             after  == {k \in N : ChatAfter(s[k], id)}
             met    == {k \in N : ChatMet(s[k], id)}
             user   == {k \in N : UserSide(items[k])}
             quiet  == {k \in N : ChatMute(items[k])}
             ask   == {k \in N : items[k].type = "function_call" /\ items[k].id = id}
             answer == {k \in N : items[k].type = "function_call_output" /\ items[k].id = id}
  <2>2. ASSUME NEW k \in 0..Len(items) - 1
        PROVE  Walks(k, i, j, at, after, met, user, quiet, ask, answer)
    <3>1. PICK p, n, it : p = s[k] /\ n = s[k + 1] /\ it = items[k + 1] /\ n = ChatStep(p, it) /\ Entry(it) /\ ChatGood(p)
      BY <1>1, <1>3, <1>6
    <3>2. k \in N /\ k + 1 \in N
      BY <1>1
    <3>3. /\ it.type = "function_call" /\ it.id = id => ChatAt(n, id)
          /\ ChatMute(it) => (ChatAt(p, id) => ChatAt(n, id)) /\ (ChatAfter(p, id) => ChatAfter(n, id))
          /\ ~UserSide(it) /\ ChatAt(p, id) => ChatAt(n, id)
          /\ IsOutput(it) /\ (ChatAt(p, id) \/ ChatAfter(p, id)) => ChatAfter(n, id)
          /\ IsOutput(it) /\ it.id = id /\ (ChatAt(p, id) \/ ChatAfter(p, id)) => ChatMet(n, id)
          /\ ChatMet(p, id) => ChatMet(n, id)
      BY <3>1, ChatGoesOn
    <3>4. k + 1 \in i..j /\ ~ChatMute(it) /\ UserSide(it) => IsOutput(it)
      BY <1>9, <3>1 DEF IsOutput
    <3>5. IsOutput(it) <=> it.type = "function_call_output"
      BY DEF IsOutput
    <3> QED BY <3>1, <3>2, <3>3, <3>4, <3>5 DEF Walks
  <2>3. \A k, l \in i..j : k < l /\ k \notin quiet /\ l \notin quiet /\ k \in user => l \in user
    <3>1. \A k \in i..j : k \in N
      BY <1>1
    <3> QED BY <1>9, <3>1
  <2>4. i \in ask /\ j \in answer
    BY <1>1, <1>9, <2>1
  <2> HIDE DEF at, after, met, user, quiet, ask, answer
  <2>5. PICK len \in Nat : len = Len(items)
    BY <1>1
  <2>6. i \in 1..len /\ j \in 1..len /\ i < j /\ Walk(len, i, j, at, after, met, user, quiet, ask, answer)
    BY <1>9, <2>2, <2>3, <2>4, <2>5 DEF Walk
  <2>7. len \in met
    BY <2>5, <2>6, Walked
  <2>8. ChatMet(m, id)
    BY <1>7, <2>5, <2>7 DEF met
  <2>9. Replied(m.turns, id)
    BY <1>8, <2>8 DEF ChatMet
  <2>10. Replied(f.turns, id)
    BY <1>8, <2>9, RepliedGrown
  <2> QED BY <2>1, <2>10
<1> QED BY <1>7, <1>9
=============================================================================
