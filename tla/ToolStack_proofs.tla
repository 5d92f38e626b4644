-------------------------- MODULE ToolStack_proofs --------------------------
(***************************************************************************)
(* The invariants of ToolStack, proved for every tool, every number of     *)
(* extensions in every order, and every number of calls.                   *)
(***************************************************************************)
EXTENDS ToolStack, SequenceTheorems, TLAPS

--------------------------------------------------------------------------------
(* Sequences whose elements need no common type.                                *)

IsSeq(s) == s \in Seq(Range(s))

LEMMA SeqFacts ==
    ASSUME NEW s, IsSeq(s)
    PROVE  /\ Len(s) \in Nat /\ DOMAIN s = 1 .. Len(s)
           /\ s # << >> <=> Len(s) > 0
  BY EmptySeq, LenProperties DEF IsSeq

LEMMA IsSeqIn ==
    ASSUME NEW S, NEW s \in Seq(S)
    PROVE  IsSeq(s)
<1>1. s \in [1 .. Len(s) -> Range(s)] /\ Len(s) \in Nat
  BY LenProperties DEF Range
<1>2. s = [i \in 1 .. Len(s) |-> s[i]] /\ \A i \in 1 .. Len(s) : s[i] \in Range(s)
  BY <1>1
<1>3. [i \in 1 .. Len(s) |-> s[i]] \in Seq(Range(s))
  BY <1>1, <1>2
<1> QED
  BY <1>2, <1>3 DEF IsSeq

LEMMA EmptyIsSeq == IsSeq(<< >>) /\ DOMAIN << >> = {} /\ Len(<< >>) = 0
<1>1. << >> \in Seq({})
  BY EmptySeq
<1>2. IsSeq(<< >>)
  BY <1>1, IsSeqIn
<1> QED
  BY <1>2

LEMMA Appended ==
    ASSUME NEW s, IsSeq(s), NEW e
    PROVE  /\ IsSeq(Append(s, e)) /\ Append(s, e) # << >>
           /\ Len(Append(s, e)) = Len(s) + 1 /\ DOMAIN Append(s, e) = 1 .. Len(s) + 1
           /\ \A i \in 1 .. Len(s) : Append(s, e)[i] = s[i]
           /\ Append(s, e)[Len(s) + 1] = e /\ Last(Append(s, e)) = e
<1> DEFINE S == Range(s) \cup {e}
<1>1. s \in Seq(S)
  BY SeqMonotonic DEF IsSeq
<1>2. Append(s, e) \in Seq(S)
  BY <1>1, AppendProperties
<1>3. IsSeq(Append(s, e))
  BY <1>2, IsSeqIn
<1>4. /\ Len(Append(s, e)) = Len(s) + 1 /\ Append(s, e) # << >>
      /\ \A i \in 1 .. Len(s) : Append(s, e)[i] = s[i]
      /\ Append(s, e)[Len(s) + 1] = e
  BY <1>1, AppendProperties
<1> QED
  BY <1>3, <1>4, SeqFacts DEF Last

LEMMA Fronted ==
    ASSUME NEW s, IsSeq(s), s # << >>
    PROVE  /\ IsSeq(Front(s)) /\ Len(Front(s)) = Len(s) - 1
           /\ DOMAIN Front(s) = 1 .. Len(s) - 1
           /\ \A i \in 1 .. Len(s) - 1 : Front(s)[i] = s[i]
<1>1. Len(s) \in Nat /\ Len(s) > 0 /\ DOMAIN s = 1 .. Len(s)
  BY SeqFacts
<1>2. \A i \in 1 .. Len(s) - 1 : s[i] \in Range(s)
  BY <1>1 DEF Range
<1>3. /\ Front(s) \in Seq(Range(s))
      /\ Len(Front(s)) = IF 1 <= Len(s) - 1 THEN Len(s) - 1 - 1 + 1 ELSE 0
      /\ \A i \in 1 .. Len(s) - 1 - 1 + 1 : Front(s)[i] = s[1 + i - 1]
  BY <1>1, <1>2, SubSeqProperties DEF Front
<1>4. IsSeq(Front(s))
  BY <1>3, IsSeqIn
<1> DEFINE u == Front(s)
<1>5. /\ Len(u) = IF 1 <= Len(s) - 1 THEN Len(s) - 1 - 1 + 1 ELSE 0
      /\ \A i \in 1 .. Len(s) - 1 - 1 + 1 : u[i] = s[1 + i - 1]
  BY <1>3
<1>6. IsSeq(u) /\ DOMAIN u = 1 .. Len(u)
  BY <1>4, SeqFacts
<1> HIDE DEF u
<1> DEFINE n == Len(s)
           m == Len(u)
<1>7. /\ n \in Nat /\ n > 0 /\ m = IF 1 <= n - 1 THEN n - 1 - 1 + 1 ELSE 0
      /\ \A i \in 1 .. n - 1 - 1 + 1 : u[i] = s[1 + i - 1]
  BY <1>1, <1>5
<1> HIDE DEF n, m
<1>8. m = n - 1 /\ \A i \in 1 .. n - 1 : u[i] = s[i]
  BY <1>7
<1>9. IsSeq(u) /\ Len(u) = Len(s) - 1 /\ DOMAIN u = 1 .. Len(s) - 1
  BY <1>6, <1>8 DEF n, m
<1> QED
  BY <1>8, <1>9 DEF u, n

\* The last element replaced by f, and g appended.
LEMMA Replaced ==
    ASSUME NEW s, IsSeq(s), s # << >>, NEW f, NEW g
    PROVE  LET t == Append(Append(Front(s), f), g) IN
           /\ IsSeq(t) /\ t # << >> /\ Len(t) = Len(s) + 1 /\ DOMAIN t = 1 .. Len(s) + 1
           /\ \A i \in 1 .. Len(s) - 1 : t[i] = s[i]
           /\ t[Len(s)] = f /\ t[Len(s) + 1] = g /\ Last(t) = g
<1> DEFINE u == Append(Front(s), f)
<1>0. Len(s) \in Nat /\ Len(s) > 0
  BY SeqFacts
<1>1. /\ IsSeq(Front(s)) /\ Len(Front(s)) = Len(s) - 1
      /\ \A i \in 1 .. Len(s) - 1 : Front(s)[i] = s[i]
  BY Fronted
<1>2. /\ IsSeq(u) /\ Len(u) = Len(s)
      /\ \A i \in 1 .. Len(s) - 1 : u[i] = s[i]
      /\ u[Len(s)] = f
  BY <1>0, <1>1, Appended
<1> HIDE DEF u
<1>3. /\ IsSeq(Append(u, g)) /\ Append(u, g) # << >>
      /\ Len(Append(u, g)) = Len(s) + 1 /\ DOMAIN Append(u, g) = 1 .. Len(s) + 1
      /\ \A i \in 1 .. Len(s) : Append(u, g)[i] = u[i]
      /\ Append(u, g)[Len(s) + 1] = g /\ Last(Append(u, g)) = g
  BY <1>2, Appended
<1> QED
  BY <1>0, <1>2, <1>3 DEF u

LEMMA Updated ==
    ASSUME NEW s, IsSeq(s), NEW i \in DOMAIN s, NEW e
    PROVE  IsSeq([s EXCEPT ![i] = e]) /\ DOMAIN [s EXCEPT ![i] = e] = DOMAIN s
<1> DEFINE S == Range(s) \cup {e}
<1>1. s \in Seq(S) /\ e \in S /\ i \in 1 .. Len(s)
  BY SeqMonotonic, SeqFacts DEF IsSeq
<1>2. [s EXCEPT ![i] = e] \in Seq(S)
  BY <1>1, ExceptSeq
<1> QED
  BY <1>2, IsSeqIn

--------------------------------------------------------------------------------
(* Signatures.                                                                  *)

\* A parameter like **kwargs is the last one, and new parameters go before it.
LEMMA Placed ==
    ASSUME NEW sig \in Seq(Parameters), Accepted(sig), OneVar(sig), NEW new \in Seq(Parameters)
    PROVE  \E v \in 1 .. Len(sig) + 1 :
              LET res == WithAddedParams(sig, new) IN
              /\ \A i \in 1 .. Len(sig) : sig[i].kind = VarKeyword <=> i = v
              /\ v < Len(sig) + 1 => v = Len(sig)
              /\ res \in Seq(Parameters) /\ Len(res) = Len(sig) + Len(new)
              /\ \A i \in 1 .. v - 1 : res[i] = sig[i]
              /\ \A i \in 1 .. Len(new) : res[v - 1 + i] = new[i]
              /\ v < Len(sig) + 1 => res[v + Len(new)] = sig[v]
<1> DEFINE I == {i \in 1 .. Len(sig) : sig[i].kind = VarKeyword}
           res == WithAddedParams(sig, new)
<1>0. /\ DOMAIN sig = 1 .. Len(sig) /\ Len(sig) \in Nat /\ Len(new) \in Nat
      /\ \A i \in 1 .. Len(sig) : sig[i] \in Parameters
  BY LenProperties
<1>1. CASE I = {}
  <2>1. res = sig \o new
    BY <1>1 DEF WithAddedParams, SelectInSeq
  <2>2. /\ res \in Seq(Parameters) /\ Len(res) = Len(sig) + Len(new)
        /\ \A i \in 1 .. Len(sig) + Len(new) : res[i] = IF i <= Len(sig) THEN sig[i] ELSE new[i - Len(sig)]
    BY <2>1, ConcatProperties
  <2>3. Len(sig) + 1 \in 1 .. Len(sig) + 1 /\ \A i \in 1 .. Len(sig) : sig[i].kind # VarKeyword
    BY <1>0, <1>1
  <2>4. \A i \in 1 .. Len(sig) + 1 - 1 : res[i] = sig[i]
    BY <1>0, <2>2
  <2>5. \A i \in 1 .. Len(new) : res[Len(sig) + 1 - 1 + i] = new[i]
    BY <1>0, <2>2
  <2> HIDE DEF res
  <2>6. ~ Len(sig) + 1 < Len(sig) + 1 /\ \A i \in 1 .. Len(sig) : i # Len(sig) + 1
    BY <1>0
  <2> WITNESS Len(sig) + 1 \in 1 .. Len(sig) + 1
  <2> QED
    BY <2>2, <2>3, <2>4, <2>5, <2>6 DEF res
<1>2. CASE I # {}
  <2>1. PICK v \in I : TRUE
    BY <1>2
  <2>2. v \in 1 .. Len(sig) /\ sig[v].kind = VarKeyword /\ v \in 1 .. Len(sig) + 1
    BY <2>1, <1>0
  <2>3. I = {v}
    BY <2>1, <1>0 DEF OneVar
  <2>4. Min(I) = v
    BY <2>3, <2>2 DEF Min
  <2>5. v = Len(sig)
    <3>1. sig[Len(sig)] \in Parameters /\ Len(sig) \in 1 .. Len(sig)
      BY <2>2, <1>0
    <3>2. v < Len(sig) => 4 <= sig[Len(sig)].kind
      BY <3>1, <1>0, <2>2 DEF Accepted, VarKeyword
    <3>3. v < Len(sig) => sig[Len(sig)].kind = VarKeyword
      BY <3>1, <3>2 DEF Parameters, PositionalOrKeyword, KeywordOnly, VarKeyword
    <3>4. v < Len(sig) \/ v = Len(sig)
      BY <2>2
    <3> QED
      BY <3>1, <3>3, <3>4, <1>0, <2>2 DEF OneVar
  <2> DEFINE n == Len(sig)
             a == SubSeq(sig, 1, n - 1)
             b == SubSeq(sig, n, n)
  <2>6. res = a \o new \o b
    <3>1. res = SubSeq(sig, 1, v - 1) \o new \o SubSeq(sig, v, Len(sig))
      <4>1. v # 0
        BY <2>2, <1>0
      <4>2. SelectInSeq(sig, LAMBDA p : p.kind = VarKeyword) = v
        BY <2>4, <1>2 DEF SelectInSeq
      <4> QED
        BY <4>1, <4>2 DEF WithAddedParams
    <3> QED
      BY <3>1, <2>5
  <2>7. a \in Seq(Parameters) /\ Len(a) = n - 1 /\ \A i \in 1 .. n - 1 : a[i] = sig[i]
    <3>1. \A i \in 1 .. n - 1 : sig[i] \in Parameters
      BY <1>0
    <3>2. /\ a \in Seq(Parameters) /\ Len(a) = IF 1 <= n - 1 THEN n - 1 - 1 + 1 ELSE 0
          /\ \A i \in 1 .. n - 1 - 1 + 1 : a[i] = sig[1 + i - 1]
      BY <3>1, <1>0, SubSeqProperties
    <3> QED
      BY <3>2, <1>0, <2>2
  <2>8. b \in Seq(Parameters) /\ Len(b) = 1 /\ b[1] = sig[n]
    <3>1. \A i \in n .. n : sig[i] \in Parameters
      BY <1>0, <2>2
    <3>2. /\ b \in Seq(Parameters) /\ Len(b) = IF n <= n THEN n - n + 1 ELSE 0
          /\ \A i \in 1 .. n - n + 1 : b[i] = sig[n + i - 1]
      BY <3>1, <1>0, SubSeqProperties
    <3> QED
      BY <3>2, <1>0, <2>2
  <2> HIDE DEF a, b
  <2> DEFINE c == a \o new
  <2>9. /\ c \in Seq(Parameters) /\ Len(c) = n - 1 + Len(new)
        /\ \A i \in 1 .. n - 1 : c[i] = sig[i]
        /\ \A i \in 1 .. Len(new) : c[n - 1 + i] = new[i]
    <3>1. /\ c \in Seq(Parameters) /\ Len(c) = Len(a) + Len(new)
          /\ \A i \in 1 .. Len(a) + Len(new) : c[i] = IF i <= Len(a) THEN a[i] ELSE new[i - Len(a)]
      BY <2>7, ConcatProperties
    <3> HIDE DEF c
    <3> DEFINE k == Len(new)
               la == Len(a)
    <3>2. la = n - 1 /\ n \in Nat /\ n >= 1 /\ k \in Nat
      BY <2>7, <1>0, <2>2, <2>5
    <3>5. \A i \in 1 .. la + k : c[i] = IF i <= la THEN a[i] ELSE new[i - la]
      BY <3>1
    <3>6. \A i \in 1 .. n - 1 : a[i] = sig[i]
      BY <2>7
    <3> HIDE DEF c, n, k, la
    <3>3. \A i \in 1 .. n - 1 : c[i] = sig[i]
      BY <3>2, <3>5, <3>6
    <3>4. \A i \in 1 .. k : c[n - 1 + i] = new[i]
      BY <3>2, <3>5
    <3> QED
      BY <3>1, <3>2, <3>3, <3>4 DEF k, la, n
  <2> HIDE DEF c
  <2>10. /\ res \in Seq(Parameters) /\ Len(res) = n + Len(new)
         /\ \A i \in 1 .. n - 1 + Len(new) : res[i] = c[i]
         /\ res[n + Len(new)] = sig[n]
    <3>1. /\ c \o b \in Seq(Parameters) /\ Len(c \o b) = Len(c) + Len(b)
          /\ \A i \in 1 .. Len(c) + Len(b) : (c \o b)[i] = IF i <= Len(c) THEN c[i] ELSE b[i - Len(c)]
      <4>1. c \in Seq(Parameters) /\ b \in Seq(Parameters)
        BY <2>8, <2>9
      <4> QED
        BY <4>1, ConcatProperties
    <3>2. res = c \o b
      BY <2>6 DEF c
    <3> DEFINE k == Len(new)
               lc == Len(c)
    <3>3. n \in Nat /\ n >= 1 /\ k \in Nat /\ lc = n - 1 + k
      BY <1>0, <2>2, <2>5, <2>9
    <3> HIDE DEF res
    <3>4. \A i \in 1 .. lc + 1 : res[i] = IF i <= lc THEN c[i] ELSE b[i - lc]
      BY <3>1, <3>2, <2>8
    <3>5. Len(res) = lc + 1 /\ b[1] = sig[n]
      BY <3>1, <3>2, <2>8
    <3> HIDE DEF n, k, lc
    <3>6. \A i \in 1 .. n - 1 + k : res[i] = c[i]
      BY <3>3, <3>4
    <3>7. res[n + k] = sig[n] /\ Len(res) = n + k
      BY <3>3, <3>4, <3>5
    <3> QED
      BY <3>1, <3>2, <3>6, <3>7 DEF n, k
  <2> HIDE DEF res
  <2>11. \A i \in 1 .. v - 1 : res[i] = sig[i]
    BY <2>5, <2>9, <2>10, <1>0
  <2>12. \A i \in 1 .. Len(new) : res[v - 1 + i] = new[i]
    BY <2>5, <2>9, <2>10, <1>0, <2>2
  <2>13. \A i \in 1 .. Len(sig) : sig[i].kind = VarKeyword <=> i = v
    BY <2>3
  <2> WITNESS v \in 1 .. Len(sig) + 1
  <2> QED
    BY <2>5, <2>10, <2>11, <2>12, <2>13, <1>0, <2>2 DEF res
<1> QED
  BY <1>1, <1>2

\* What with_added_params() makes of a signature: both parameter sets, accepted where no
\* name is in both.
LEMMA Added ==
    ASSUME NEW sig \in Seq(Parameters), Accepted(sig), OneVar(sig),
           NEW new \in Seq(Parameters), Accepted(new),
           \A i \in DOMAIN new : new[i].kind = KeywordOnly
    PROVE  LET res == WithAddedParams(sig, new) IN
           /\ res \in Seq(Parameters) /\ OneVar(res)
           /\ Range(res) = Range(sig) \cup Range(new)
           /\ Accepted(res) <=> Names(sig) \cap Names(new) = {}
<1> DEFINE res == WithAddedParams(sig, new)
           n == Len(sig)
           k == Len(new)
<1>0. PICK v \in 1 .. n + 1 :
              /\ \A i \in 1 .. n : sig[i].kind = VarKeyword <=> i = v
              /\ v < n + 1 => v = n
              /\ res \in Seq(Parameters) /\ Len(res) = n + k
              /\ \A i \in 1 .. v - 1 : res[i] = sig[i]
              /\ \A i \in 1 .. k : res[v - 1 + i] = new[i]
              /\ v < n + 1 => res[v + k] = sig[v]
  BY Placed
<1>1. /\ n \in Nat /\ k \in Nat
      /\ DOMAIN sig = 1 .. n /\ DOMAIN new = 1 .. k /\ DOMAIN res = 1 .. n + k
      /\ \A i \in 1 .. n : sig[i] \in Parameters
      /\ \A i \in 1 .. k : new[i] \in Parameters
  BY <1>0, LenProperties
<1>2. /\ \A i \in 1 .. n, j \in 1 .. n : i < j => sig[i].name # sig[j].name /\ sig[i].kind <= sig[j].kind
      /\ \A i \in 1 .. k, j \in 1 .. k : i < j => new[i].name # new[j].name /\ new[i].kind <= new[j].kind
      /\ \A i \in 1 .. k : new[i].kind = 3
      /\ \A i \in 1 .. n : sig[i].kind \in {1, 3, 4} /\ (sig[i].kind = 4 <=> i = v)
  <2>1. /\ \A i \in 1 .. n, j \in 1 .. n : i < j => sig[i].name # sig[j].name /\ sig[i].kind <= sig[j].kind
        /\ \A i \in 1 .. k, j \in 1 .. k : i < j => new[i].name # new[j].name /\ new[i].kind <= new[j].kind
    BY <1>1 DEF Accepted
  <2>2. \A i \in 1 .. k : new[i].kind = 3
    BY <1>1 DEF KeywordOnly
  <2>3. \A i \in 1 .. n : sig[i].kind \in {1, 3, 4} /\ (sig[i].kind = 4 <=> i = v)
    BY <1>0, <1>1 DEF Parameters, PositionalOrKeyword, KeywordOnly, VarKeyword
  <2> QED
    BY <2>1, <2>2, <2>3
<1> DEFINE Old == {i \in 1 .. n + k : i < v}
           New == {i \in 1 .. n + k : v <= i /\ i < v + k}
           Var == {i \in 1 .. n + k : v + k <= i}
<1> HIDE DEF res, n, k
<1>3. /\ 1 .. n + k = Old \cup New \cup Var
      /\ \A i \in Old : i \in 1 .. n /\ i # v /\ res[i] = sig[i]
      /\ \A i \in New : i - v + 1 \in 1 .. k /\ res[i] = new[i - v + 1]
      /\ \A i \in Var : i = v + k /\ v = n /\ res[i] = sig[v]
  <2>0. v \in 1 .. n + 1 /\ n \in Nat /\ k \in Nat /\ (v < n + 1 => v = n)
    BY <1>0, <1>1
  <2>1. 1 .. n + k = Old \cup New \cup Var
    BY <2>0
  <2>2. \A i \in Old : i \in 1 .. v - 1 /\ i \in 1 .. n /\ i # v
    BY <2>0
  <2>3. ASSUME NEW i \in New PROVE i - v + 1 \in 1 .. k /\ res[i] = new[i - v + 1]
    <3>1. i - v + 1 \in 1 .. k /\ v - 1 + (i - v + 1) = i
      BY <2>0
    <3> QED
      BY <3>1, <1>0
  <2>4. ASSUME NEW i \in Var PROVE i = v + k /\ v = n /\ res[i] = sig[v]
    <3>1. i = v + k /\ v < n + 1 /\ v = n
      BY <2>0
    <3> QED
      BY <3>1, <1>0
  <2> QED
    BY <2>1, <2>2, <2>3, <2>4, <1>0
<1>4. /\ \A i \in 1 .. n : i \in Old \/ (i = v /\ v + k \in Var)
      /\ \A i \in 1 .. k : v - 1 + i \in New /\ res[v - 1 + i] = new[i]
  BY <1>0, <1>1
<1>5. Range(res) = Range(sig) \cup Range(new)
  <2>1. ASSUME NEW i \in 1 .. n + k PROVE res[i] \in Range(sig) \cup Range(new)
    <3>1. CASE i \in Old
      BY <3>1, <1>1, <1>3 DEF Range
    <3>2. CASE i \in New
      BY <3>2, <1>1, <1>3 DEF Range
    <3>3. CASE i \in Var
      <4>1. v \in 1 .. n /\ res[i] = sig[v]
        BY <3>3, <1>0, <1>1, <1>3
      <4> QED
        BY <4>1, <1>1 DEF Range
    <3> QED
      BY <1>3, <3>1, <3>2, <3>3
  <2>2. ASSUME NEW i \in 1 .. n PROVE sig[i] \in Range(res)
    BY <1>1, <1>3, <1>4 DEF Range
  <2>3. ASSUME NEW i \in 1 .. k PROVE new[i] \in Range(res)
    BY <1>1, <1>4 DEF Range
  <2> QED
    BY <1>1, <2>1, <2>2, <2>3 DEF Range
<1>6. \A i \in 1 .. n + k : res[i].kind = 4 <=> i \in Var
  <2>1. \A i \in Old : res[i].kind # 4
    BY <1>2, <1>3
  <2>2. \A i \in New : res[i].kind # 4
    BY <1>2, <1>3
  <2>3. \A i \in Var : res[i].kind = 4
    BY <1>0, <1>1, <1>2, <1>3
  <2> QED
    BY <1>3, <2>1, <2>2, <2>3
<1>7. OneVar(res)
  BY <1>1, <1>3, <1>6 DEF OneVar, VarKeyword
<1>8. ASSUME NEW i \in 1 .. n + k, NEW j \in 1 .. n + k, i < j
      PROVE  res[i].kind <= res[j].kind
  <2>0. /\ \A x \in Old : res[x].kind \in {1, 3}
        /\ \A x \in New : res[x].kind = 3
        /\ \A x \in Var : res[x].kind = 4
    <3>1. \A x \in Old : res[x].kind \in {1, 3}
      <4> TAKE x \in Old
      <4>1. x \in 1 .. n /\ x # v /\ res[x] = sig[x]
        BY <1>3
      <4> QED
        BY <4>1, <1>2
    <3>2. \A x \in New : res[x].kind = 3
      <4> TAKE x \in New
      <4>1. x - v + 1 \in 1 .. k /\ res[x] = new[x - v + 1]
        BY <1>3
      <4> QED
        BY <4>1, <1>2
    <3> QED
      BY <3>1, <3>2, <1>6
  <2>1. CASE j \in Var
    BY <2>0, <2>1, <1>3
  <2>2. CASE j \in New
    <3>1. i \in Old \/ i \in New
      BY <2>2, <1>0, <1>1, <1>8
    <3> QED
      BY <2>0, <2>2, <3>1
  <2>3. CASE j \in Old
    <3>1. i \in Old
      BY <2>3, <1>0, <1>1, <1>8
    <3> QED
      BY <2>3, <3>1, <1>2, <1>3, <1>8
  <2> QED
    BY <1>3, <2>1, <2>2, <2>3
<1>9. ASSUME Names(sig) \cap Names(new) = {}
      PROVE  Accepted(res)
  <2>1. \A x \in 1 .. n, y \in 1 .. k : sig[x].name # new[y].name
    BY <1>1, <1>9 DEF Names, Range
  <2>2. ASSUME NEW i \in 1 .. n + k, NEW j \in 1 .. n + k, i < j
        PROVE  res[i].name # res[j].name
    <3>1. CASE i \in Old /\ j \in Old
      BY <3>1, <2>2, <1>2, <1>3
    <3>2. CASE i \in Old /\ j \in New
      <4>1. i \in 1 .. n /\ res[i] = sig[i] /\ j - v + 1 \in 1 .. k /\ res[j] = new[j - v + 1]
        BY <3>2, <1>3
      <4> QED
        BY <4>1, <2>1
    <3>3. CASE i \in Old /\ j \in Var
      <4>1. i < v /\ v \in 1 .. n /\ res[j] = sig[v] /\ i \in 1 .. n /\ res[i] = sig[i]
        BY <3>3, <1>3, <1>0, <1>1
      <4> QED
        BY <4>1, <1>2
    <3>4. CASE i \in New /\ j \in New
      <4>1. i - v + 1 < j - v + 1
        BY <2>2, <1>0, <1>1
      <4>2. /\ i - v + 1 \in 1 .. k /\ res[i] = new[i - v + 1]
            /\ j - v + 1 \in 1 .. k /\ res[j] = new[j - v + 1]
        BY <3>4, <1>3
      <4> QED
        BY <4>1, <4>2, <1>2
    <3>5. CASE i \in New /\ j \in Var
      <4>1. v \in 1 .. n /\ res[j] = sig[v] /\ i - v + 1 \in 1 .. k /\ res[i] = new[i - v + 1]
        BY <3>5, <1>0, <1>1, <1>3
      <4> QED
        BY <4>1, <2>1
    <3>6. ~ (i \in New /\ j \in Old) /\ i \notin Var
      BY <2>2, <1>0, <1>1
    <3> QED
      BY <1>3, <3>1, <3>2, <3>3, <3>4, <3>5, <3>6
  <2> QED
    BY <1>1, <1>8, <2>2 DEF Accepted
<1>10. ASSUME Accepted(res)
       PROVE  Names(sig) \cap Names(new) = {}
  <2>1. ASSUME NEW x \in 1 .. n, NEW y \in 1 .. k PROVE sig[x].name # new[y].name
    <3>1. v - 1 + y \in New /\ v - 1 + y \in 1 .. n + k /\ res[v - 1 + y] = new[y]
      BY <1>4
    <3>2. CASE x \in Old
      <4>1. x \in 1 .. n + k /\ res[x] = sig[x] /\ x < v - 1 + y
        BY <3>2, <1>0, <1>1, <1>3
      <4> QED
        BY <3>1, <4>1, <1>1, <1>10 DEF Accepted
    <3>3. CASE x = v /\ v + k \in Var
      <4>1. v + k \in 1 .. n + k /\ res[v + k] = sig[x] /\ v - 1 + y < v + k
        BY <3>3, <1>0, <1>1, <1>3
      <4> QED
        BY <3>1, <4>1, <1>1, <1>10 DEF Accepted
    <3> QED
      BY <1>4, <3>2, <3>3
  <2> QED
    BY <1>1, <2>1 DEF Names, Range
<1> QED
  BY <1>0, <1>5, <1>7, <1>9, <1>10 DEF res

LEMMA TakenNames ==
    /\ Taken("cache") = {"exp"} /\ Taken("proxy") = {"proxies"}
    /\ Taken("chain") = {"jq_expression", "next_tool_name"}
    /\ \A e \in Extensions \ Adding : Taken(e) = {}
    /\ Taken("tool") = {} /\ Taken("next") = {}
  BY DEF Taken, Controls, Range, Extensions, Adding, Wrapping

LEMMA KnownNames ==
    {"exp", "proxies", "jq_expression", "next_tool_name"} \cup Names(BatchSignature) \subseteq ParamNames
<1> DEFINE own == UNION {Names(sig) : sig \in ToolSignatures}
<1>1. ParamNames = own \cup Names(BatchSignature) \cup {"exp", "proxies", "jq_expression", "next_tool_name"}
  BY DEF ParamNames
<1> HIDE DEF own
<1> QED
  BY <1>1

LEMMA ParamOK ==
    ASSUME NEW n \in ParamNames
    PROVE  /\ Param(n, PositionalOrKeyword) \in Parameters
           /\ Param(n, KeywordOnly) \in Parameters
           /\ Param(n, KeywordOnly).name = n
           /\ Param(n, KeywordOnly).kind = KeywordOnly
  BY DEF Parameters, Param, Annotated, Annotations, PositionalOrKeyword, KeywordOnly

LEMMA BatchSignatureOK ==
    /\ BatchSignature \in Seq(Parameters) /\ Accepted(BatchSignature) /\ OneVar(BatchSignature)
    /\ Names(BatchSignature) = {"params", "execution_mode", "max_concurrent", "fail_fast"}
    /\ \A e \in Extensions : Taken(e) \cap Names(BatchSignature) = {}
<1> DEFINE p(name) == [name |-> name, kind |-> 1, annotation |-> "value"]
<1>1. BatchSignature = <<p("params"), p("execution_mode"), p("max_concurrent"), p("fail_fast")>>
  BY DEF BatchSignature, Param, Annotated, PositionalOrKeyword
<1>2. Accepted(BatchSignature) /\ OneVar(BatchSignature)
  BY <1>1 DEF Accepted, OneVar, VarKeyword
<1>3. Names(BatchSignature) = {"params", "execution_mode", "max_concurrent", "fail_fast"}
  BY <1>1 DEF Names, Range
<1>4. BatchSignature \in Seq(Parameters)
  <2> DEFINE names == <<"params", "execution_mode", "max_concurrent", "fail_fast">>
  <2>1. \A i \in 1 .. 4 : names[i] \in ParamNames
    BY <1>3, KnownNames
  <2>2. \A i \in 1 .. 4 : Param(names[i], PositionalOrKeyword) \in Parameters
    BY <2>1, ParamOK
  <2>3. [i \in 1 .. 4 |-> Param(names[i], PositionalOrKeyword)] \in Seq(Parameters)
    BY <2>2, IsASeq
  <2> QED
    BY <2>3 DEF BatchSignature
<1> QED
  BY <1>2, <1>3, <1>4, TakenNames DEF Extensions, Adding, Wrapping

\* What an extension presents over a layer that presents below.
Presents(e, below, sig) ==
    /\ sig \in Seq(Parameters) /\ OneVar(sig)
    /\ IF e = "batch" THEN sig = BatchSignature
       ELSE Range(sig) = Range(below) \cup {Param(n, KeywordOnly) : n \in Taken(e)}
    /\ Accepted(sig) <=> e = "batch" \/ Names(below) \cap Taken(e) = {}

LEMMA WithControlsOK ==
    ASSUME NEW sig \in Seq(Parameters), Accepted(sig), OneVar(sig), NEW e \in Adding
    PROVE  Presents(e, sig, WithControls(e, sig))
<1> DEFINE new == [i \in DOMAIN Controls(e) |-> Param(Controls(e)[i], KeywordOnly)]
<1>1. PICK k \in Nat : DOMAIN Controls(e) = 1 .. k
                      /\ \A i \in 1 .. k : Controls(e)[i] \in ParamNames
  <2>1. CASE e = "cache"
    <3> WITNESS 1 \in Nat
    <3> QED
      BY <2>1, KnownNames DEF Controls
  <2>2. CASE e = "proxy"
    <3> WITNESS 1 \in Nat
    <3> QED
      BY <2>2, KnownNames DEF Controls
  <2>3. CASE e = "chain"
    <3> WITNESS 2 \in Nat
    <3> QED
      BY <2>3, KnownNames DEF Controls
  <2> QED
    BY <2>1, <2>2, <2>3 DEF Adding
<1>2. \A i, j \in DOMAIN Controls(e) : i < j => Controls(e)[i] # Controls(e)[j]
  BY DEF Controls, Adding
<1>3. \A i \in DOMAIN Controls(e) : new[i] \in Parameters
  BY <1>1, ParamOK
<1>4. new \in Seq(Parameters) /\ DOMAIN new = DOMAIN Controls(e)
  <2>1. \A i \in 1 .. k : Param(Controls(e)[i], KeywordOnly) \in Parameters
    BY <1>1, <1>3
  <2>2. [i \in 1 .. k |-> Param(Controls(e)[i], KeywordOnly)] \in Seq(Parameters)
    BY <1>1, <2>1, IsASeq
  <2> QED
    BY <1>1, <2>2
<1>5. \A i \in DOMAIN new : new[i].kind = KeywordOnly /\ new[i].name = Controls(e)[i]
  BY DEF Param, Annotated
<1>6. Accepted(new)
  BY <1>2, <1>4, <1>5 DEF Accepted, KeywordOnly
<1>7. Range(new) = {Param(n, KeywordOnly) : n \in Taken(e)}
  BY <1>4 DEF Range, Taken
<1>8. Names(new) = Taken(e)
  BY <1>4, <1>5 DEF Names, Range, Taken
<1>9. e # "batch" /\ WithControls(e, sig) = WithAddedParams(sig, new)
  BY DEF Adding, WithControls
<1> HIDE DEF new
<1>10. LET res == WithAddedParams(sig, new) IN
       /\ res \in Seq(Parameters) /\ OneVar(res)
       /\ Range(res) = Range(sig) \cup Range(new)
       /\ Accepted(res) <=> Names(sig) \cap Names(new) = {}
  BY <1>4, <1>5, <1>6, Added
<1> QED
  BY <1>7, <1>8, <1>9, <1>10 DEF Presents

LEMMA OtherPresents ==
    ASSUME NEW sig \in Seq(Parameters), Accepted(sig), OneVar(sig)
    PROVE  /\ Presents("prometheus_metrics", sig, sig)
           /\ Presents("output_schema", sig, sig)
           /\ Presents("batch", sig, BatchSignature)
  BY BatchSignatureOK, TakenNames DEF Presents, Extensions, Adding, Wrapping

\* The names of a signature composed over another one.
LEMMA ComposedNames ==
    ASSUME NEW sig \in Seq(Parameters), NEW res \in Seq(Parameters), NEW e,
           Range(res) = Range(sig) \cup {Param(n, KeywordOnly) : n \in Taken(e)}
    PROVE  /\ Names(res) = Names(sig) \cup Taken(e)
           /\ Named(res) = Named(sig) \cup Taken(e)
           /\ HasVar(res) <=> HasVar(sig)
<1> DEFINE new == {Param(n, KeywordOnly) : n \in Taken(e)}
<1>1. /\ \A p \in new : p.name \in Taken(e) /\ p.kind # VarKeyword
      /\ \A n \in Taken(e) : Param(n, KeywordOnly) \in new /\ Param(n, KeywordOnly).name = n
  BY DEF Param, Annotated, KeywordOnly, VarKeyword
<1> HIDE DEF new
<1>2. Range(res) = Range(sig) \cup new
  BY DEF new
<1>3. Names(res) = Names(sig) \cup Taken(e)
  BY <1>1, <1>2 DEF Names
<1>4. Named(res) = Named(sig) \cup Taken(e)
  <2> DEFINE All(r) == {p \in r : p.kind # VarKeyword}
  <2>1. All(Range(res)) = All(Range(sig)) \cup new
    BY <1>1, <1>2
  <2> HIDE DEF All
  <2>2. {p.name : p \in All(Range(res))} = {p.name : p \in All(Range(sig))} \cup Taken(e)
    BY <1>1, <2>1
  <2> QED
    BY <2>2 DEF Named, All
<1>5. HasVar(res) <=> HasVar(sig)
  BY <1>1, <1>2 DEF HasVar
<1> QED
  BY <1>3, <1>4, <1>5

\* The annotations of a signature that are not values.
Written(sig) == {p.annotation : p \in Range(sig)} \ {"value"}

LEMMA WrittenOver ==
    /\ Written(BatchSignature) = {}
    /\ \A sig, res, e :
          Range(res) = Range(sig) \cup {Param(n, KeywordOnly) : n \in Taken(e)} =>
              Written(res) = Written(sig)
<1>1. Written(BatchSignature) = {}
  <2>1. \A i \in DOMAIN BatchSignature : BatchSignature[i].annotation = "value"
    BY DEF BatchSignature, Param, Annotated
  <2> QED
    BY <2>1 DEF Written, Range
<1>2. ASSUME NEW sig, NEW res, NEW new, Range(res) = Range(sig) \cup new,
             \A p \in new : p.annotation = "value"
      PROVE  Written(res) = Written(sig)
  BY <1>2 DEF Written
<1>3. ASSUME NEW sig, NEW res, NEW e,
             Range(res) = Range(sig) \cup {Param(n, KeywordOnly) : n \in Taken(e)}
      PROVE  Written(res) = Written(sig)
  <2> DEFINE new == {Param(n, KeywordOnly) : n \in Taken(e)}
  <2>1. \A p \in new : p.annotation = "value"
    BY DEF Param, Annotated
  <2>2. Range(res) = Range(sig) \cup new
    BY <1>3
  <2> HIDE DEF new
  <2> QED
    BY <2>1, <2>2, <1>2
<1> QED
  BY <1>1, <1>3

--------------------------------------------------------------------------------
(* The invariant, in parts.                                                     *)

Pending == stack = << >> /\ outcome # None

Errors(o) == IF o.how = "raised" THEN 1 ELSE 0

\* The layers, and what is kept for each.
LayersOK ==
    /\ phase \in {"binding", "refused", "calling"}
    /\ layers \in Seq({"tool"} \cup Extensions) /\ layers # << >>
    /\ \A l \in DOMAIN layers : layers[l] = "tool" <=> l = 1
    /\ IsSeq(sigs) /\ Len(sigs) = Len(layers) - IF phase = "refused" THEN 1 ELSE 0
    /\ sigs # << >>
    /\ IsSeq(store) /\ Len(store) = Len(layers)
    /\ \A l \in DOMAIN store : \A key \in DOMAIN store[l] : store[l][key] \in Answers
    /\ metrics \in Seq([calls : Nat, errors : Nat]) /\ Len(metrics) = Len(layers)
    /\ ended \in [{"returned", "raised", "cancelled"} -> Nat]
    /\ outcome \in Outcomes \cup {None}

\* Nothing is called before the binding has come to its end.
QuietBefore ==
    phase # "calling" => /\ stack = << >> /\ outcome = None
                         /\ \A how \in DOMAIN ended : ended[how] = 0
                         /\ \A l \in DOMAIN metrics : metrics[l] = [calls |-> 0, errors |-> 0]
                         /\ \A l \in DOMAIN store : store[l] = << >>

\* The calls under way are those of the layers from the outermost one down, each waiting
\* for the next; a chain may wait for the next tool instead.
FrameOK(i) ==
    /\ DOMAIN stack[i] = {"layer", "args", "at", "todo", "got"} /\ stack[i].got \in Answers
    /\ stack[i].layer \in {0, Len(layers) + 1 - i} /\ stack[i].layer \in 0 .. Len(layers)
    /\ stack[i].layer = 0 => i = Len(stack) /\ i > 1 /\ stack[i - 1].at = "next"
    /\ stack[i].at \in {"called", "waiting", "next"}
    /\ stack[i].at = "called" => i = Len(stack)
    /\ stack[i].at = "waiting" => stack[i].layer > 1 /\ (i < Len(stack) => stack[i + 1].layer # 0)
    /\ stack[i].at = "next" => /\ stack[i].layer # 0 /\ layers[stack[i].layer] = "chain"
                               /\ i < Len(stack) => stack[i + 1].layer = 0

StackOK ==
    /\ IsSeq(stack)
    /\ \A i \in DOMAIN stack : FrameOK(i)
    /\ stack # << >> => phase = "calling" /\ (outcome = None <=> Top.at = "called")

\* The parameters of a layer are those of the layer below and its own.
Composes(l) ==
    IF layers[l] = "batch" THEN sigs[l] = BatchSignature
    ELSE /\ Range(sigs[l]) = Range(sigs[l - 1]) \cup {Param(n, KeywordOnly) : n \in Taken(layers[l])}
         /\ Names(sigs[l - 1]) \cap Taken(layers[l]) = {}

\* No batch is in the layers from m + 1 to l.
Through(m, l) == \A k \in m + 1 .. l : layers[k] # "batch"

\* Who a name of a signature is from.
HasSource(n, l) ==
    \/ n \in Names(sigs[1]) /\ Through(1, l)
    \/ n \in Names(BatchSignature)
    \/ \E m \in 1 .. l : layers[m] \in Adding /\ n \in Taken(layers[m]) /\ Through(m, l)

\* A batch that is refused for the annotations of the tool.
Blocked(l) == layers[l] = "batch" /\ Unreadable(l - 1)

SigsOK ==
    /\ \A l \in DOMAIN sigs : sigs[l] \in Seq(Parameters) /\ Accepted(sigs[l]) /\ OneVar(sigs[l])
    /\ \A l \in DOMAIN sigs : l > 1 => Composes(l)
    /\ \A l \in DOMAIN sigs : \A m \in 1 .. l : Through(m, l) => Names(sigs[m]) \subseteq Names(sigs[l])
    /\ \A l \in DOMAIN sigs : \A n \in Names(sigs[l]) : HasSource(n, l)
    /\ \A l \in DOMAIN sigs : Written(sigs[l]) = IF Through(1, l) THEN Written(sigs[1]) ELSE {}
    /\ \A l \in DOMAIN sigs : ~ Blocked(l)
    /\ phase = "refused" => /\ Len(layers) > 1
                            /\ \/ Last(layers) = "output_schema"
                               \/ Clashes(Len(layers)) \/ Blocked(Len(layers))

\* A metrics layer n waits for a call in which the one at m, below it, is over.
InFlight(m, n) == stack # << >> /\ outcome # None /\ m < Top.layer /\ Top.layer <= n

MetricsOK ==
    /\ \A l \in DOMAIN metrics : metrics[l].errors <= metrics[l].calls
    /\ phase = "calling" /\ Last(layers) = "prometheus_metrics" =>
         Last(metrics) = IF Pending THEN [calls  |-> Delivered + 1,
                                          errors |-> ended["raised"] + Errors(outcome)]
                         ELSE [calls |-> Delivered, errors |-> ended["raised"]]
    /\ \A m, n \in DOMAIN layers :
         /\ OuterAndInner(n, m, Wrapping) =>
              /\ metrics[m].calls <= metrics[n].calls + IF InFlight(m, n) THEN 1 ELSE 0
              /\ metrics[m].errors <= metrics[n].errors + IF InFlight(m, n) THEN Errors(outcome) ELSE 0
         /\ OuterAndInner(n, m, {"prometheus_metrics"}) =>
              /\ metrics[m].calls = metrics[n].calls + IF InFlight(m, n) THEN 1 ELSE 0
              /\ metrics[m].errors = metrics[n].errors + IF InFlight(m, n) THEN Errors(outcome) ELSE 0

\* What is on its way up, kept in a cache or gathered by a batch over a seal fits.
Fits(answer) == answer \subseteq {Width, ErrorText}

WidthsOK ==
    /\ \A l \in DOMAIN store : Sealed(l) => \A key \in DOMAIN store[l] : Fits(store[l][key])
    /\ \A i \in DOMAIN stack : Sealed(stack[i].layer - 1) => Fits(stack[i].got)
    /\ outcome # None /\ outcome.how = "returned" =>
         /\ stack = << >> /\ Sealed(Len(layers)) => Fits(outcome.answer)
         /\ stack # << >> /\ Top.at = "next" => Fits(outcome.answer)
         /\ stack # << >> /\ Top.at = "waiting" /\ Sealed(Top.layer - 1) => Fits(outcome.answer)

Inv == /\ LayersOK /\ QuietBefore /\ StackOK /\ SigsOK
       /\ ArgumentsArrive /\ MetricsOK /\ WidthsOK

LEMMA InitInv == Init => Inv
<1> SUFFICES ASSUME Init PROVE Inv
  OBVIOUS
<1>0. PICK sig \in ToolSignatures : sigs = <<sig>>
  BY DEF Init
<1>1. /\ phase = "binding" /\ layers = <<"tool">> /\ stack = << >> /\ outcome = None
      /\ store = << << >> >> /\ metrics = << [calls |-> 0, errors |-> 0] >>
      /\ ended = [how \in {"returned", "raised", "cancelled"} |-> 0]
      /\ sig \in Seq(Parameters) /\ Accepted(sig) /\ OneVar(sig)
  BY SignatureAssumption DEF Init
<1>2. Len(layers) = 1 /\ DOMAIN layers = {1} /\ layers[1] = "tool" /\ Last(layers) = "tool"
  BY <1>1 DEF Last
<1>3. DOMAIN sigs = {1} /\ sigs[1] = sig /\ Len(sigs) = 1 /\ IsSeq(sigs) /\ sigs # << >>
  <2>1. sigs = Append(<< >>, sig) /\ IsSeq(<< >>) /\ Len(<< >>) = 0
    BY <1>0, EmptyIsSeq
  <2>2. /\ IsSeq(sigs) /\ sigs # << >> /\ Len(sigs) = 0 + 1 /\ DOMAIN sigs = 1 .. 0 + 1
        /\ sigs[0 + 1] = sig
    BY <2>1, Appended
  <2> QED
    BY <2>2
<1>4. DOMAIN store = {1} /\ store[1] = << >> /\ Len(store) = 1 /\ IsSeq(store)
  <2> DEFINE empty == << >>
  <2>1. store = <<empty>>
    BY <1>1
  <2> HIDE DEF empty
  <2>2. store \in Seq({empty}) /\ DOMAIN store = {1} /\ store[1] = empty /\ Len(store) = 1
    BY <2>1
  <2> QED
    BY <2>2, IsSeqIn DEF empty
<1>5. DOMAIN metrics = {1} /\ metrics[1] = [calls |-> 0, errors |-> 0] /\ Len(metrics) = 1
  BY <1>1
<1>6. LayersOK
  <2>1. layers \in Seq({"tool"} \cup Extensions) /\ layers # << >>
    BY <1>1
  <2>2. metrics \in Seq([calls : Nat, errors : Nat])
    BY <1>1
  <2> QED
    BY <1>1, <1>2, <1>3, <1>4, <1>5, <2>1, <2>2 DEF LayersOK
<1>7. QuietBefore
  BY <1>1, <1>4, <1>5 DEF QuietBefore
<1>8. StackOK
  <2>1. IsSeq(stack) /\ DOMAIN stack = {}
    BY <1>1, EmptyIsSeq
  <2> QED
    BY <1>1, <2>1 DEF StackOK
<1>9. SigsOK
  <2>1. \A m \in 1 .. 1 : m = 1
    OBVIOUS
  <2>2. \A n \in Names(sigs[1]) : HasSource(n, 1)
    <3>1. Through(1, 1)
      BY DEF Through
    <3> QED
      BY <3>1 DEF HasSource
  <2>3. Through(1, 1) /\ ~ Blocked(1)
    BY <1>2 DEF Through, Blocked
  <2> QED
    BY <1>1, <1>2, <1>3, <2>1, <2>2, <2>3 DEF SigsOK
<1>10. ArgumentsArrive
  BY <1>1 DEF ArgumentsArrive
<1>11. MetricsOK
  BY <1>1, <1>2, <1>5 DEF MetricsOK, OuterAndInner
<1>12. WidthsOK
  BY <1>1, <1>4 DEF WidthsOK
<1> QED
  BY <1>6, <1>7, <1>8, <1>9, <1>10, <1>11, <1>12 DEF Inv

--------------------------------------------------------------------------------
(* Binding.                                                                     *)

\* What a factory leaves of the layers below it.
LEMMA BindFacts ==
    ASSUME Inv, NEW e \in Extensions, NEW sig, NEW refused, Bind(e, sig, refused)
    PROVE  LET N == Len(layers) IN
           /\ N \in Nat /\ N > 0 /\ phase = "binding" /\ stack = << >> /\ outcome = None
           /\ DOMAIN layers = 1 .. N /\ DOMAIN sigs = 1 .. N /\ Len(sigs) = N
           /\ DOMAIN store = 1 .. N /\ DOMAIN metrics = 1 .. N
           /\ Last(sigs) = sigs[N]
           /\ layers' \in Seq({"tool"} \cup Extensions) /\ layers' # << >>
           /\ Len(layers') = N + 1 /\ DOMAIN layers' = 1 .. N + 1
           /\ \A l \in 1 .. N : layers'[l] = layers[l]
           /\ layers'[N + 1] = e /\ Last(layers') = e
           /\ IsSeq(store') /\ Len(store') = N + 1 /\ DOMAIN store' = 1 .. N + 1
           /\ \A l \in 1 .. N : store'[l] = store[l]
           /\ store'[N + 1] = << >>
           /\ metrics' \in Seq([calls : Nat, errors : Nat]) /\ Len(metrics') = N + 1
           /\ DOMAIN metrics' = 1 .. N + 1
           /\ \A l \in 1 .. N + 1 : metrics'[l] = [calls |-> 0, errors |-> 0]
           /\ UNCHANGED <<stack, outcome, given, made, ended>>
<1> DEFINE N == Len(layers)
           zero == [calls |-> 0, errors |-> 0]
<1>0. LayersOK /\ QuietBefore
  BY DEF Inv
<1>1. /\ phase = "binding" /\ layers' = Append(layers, e)
      /\ store' = Append(store, << >>) /\ metrics' = Append(metrics, zero)
      /\ UNCHANGED <<stack, outcome, given, made, ended>>
  BY DEF Bind
<1>2. /\ N \in Nat /\ N > 0 /\ DOMAIN layers = 1 .. N /\ stack = << >> /\ outcome = None
      /\ layers \in Seq({"tool"} \cup Extensions)
  BY <1>0, <1>1, EmptySeq, LenProperties DEF LayersOK, QuietBefore
<1>3. /\ Len(sigs) = N /\ DOMAIN sigs = 1 .. N
      /\ Len(store) = N /\ DOMAIN store = 1 .. N /\ IsSeq(store)
      /\ Len(metrics) = N /\ DOMAIN metrics = 1 .. N
      /\ metrics \in Seq([calls : Nat, errors : Nat])
      /\ \A l \in 1 .. N : metrics[l] = zero
  BY <1>0, <1>1, <1>2, SeqFacts, LenProperties DEF LayersOK, QuietBefore
<1>4. /\ layers' \in Seq({"tool"} \cup Extensions) /\ layers' # << >>
      /\ Len(layers') = N + 1 /\ DOMAIN layers' = 1 .. N + 1
      /\ \A l \in 1 .. N : layers'[l] = layers[l]
      /\ layers'[N + 1] = e /\ Last(layers') = e
  BY <1>1, <1>2, AppendProperties, LenProperties DEF Last
<1>5. /\ IsSeq(store') /\ Len(store') = N + 1 /\ DOMAIN store' = 1 .. N + 1
      /\ \A l \in 1 .. N : store'[l] = store[l]
      /\ store'[N + 1] = << >>
  BY <1>1, <1>3, Appended
<1>6. /\ metrics' \in Seq([calls : Nat, errors : Nat]) /\ Len(metrics') = N + 1
      /\ DOMAIN metrics' = 1 .. N + 1
      /\ \A l \in 1 .. N : metrics'[l] = metrics[l]
      /\ metrics'[N + 1] = zero
  <2>1. zero \in [calls : Nat, errors : Nat]
    OBVIOUS
  <2> HIDE DEF zero
  <2> QED
    BY <1>1, <1>3, <2>1, AppendProperties, LenProperties
<1>7. \A l \in 1 .. N + 1 : metrics'[l] = zero
  <2>1. \A l \in 1 .. N + 1 : l \in 1 .. N \/ l = N + 1
    BY <1>2
  <2> QED
    BY <2>1, <1>3, <1>6
<1> QED
  BY <1>1, <1>2, <1>3, <1>4, <1>5, <1>6, <1>7 DEF Last

\* Why a factory may refuse for another reason than the signature it composes.
Reason(e, refused) ==
    /\ e = "batch" => (refused = TRUE <=> Unreadable(Len(layers)))
    /\ e \notin {"batch", "output_schema"} => refused = FALSE

LEMMA BindSigs ==
    ASSUME Inv, NEW e \in Extensions, NEW sig, NEW refused \in BOOLEAN, Bind(e, sig, refused),
           Presents(e, Last(sigs), sig), Reason(e, refused)
    PROVE  SigsOK' /\ IsSeq(sigs)' /\ sigs' # << >> /\ phase' \in {"binding", "refused"}
           /\ Len(sigs') = Len(layers') - IF phase' = "refused" THEN 1 ELSE 0
<1> PICK N : N = Len(layers)
  OBVIOUS
<1>0. /\ N \in Nat /\ N > 0 /\ phase = "binding"
      /\ DOMAIN layers = 1 .. N /\ DOMAIN sigs = 1 .. N /\ Len(sigs) = N
      /\ Last(sigs) = sigs[N] /\ Len(layers') = N + 1
      /\ \A l \in 1 .. N : layers'[l] = layers[l]
      /\ layers'[N + 1] = e /\ Last(layers') = e
  BY BindFacts
<1>1. SigsOK /\ IsSeq(sigs) /\ sigs # << >>
  BY DEF Inv, LayersOK
<1>2. /\ sig \in Seq(Parameters) /\ OneVar(sig)
      /\ IF e = "batch" THEN sig = BatchSignature
         ELSE Range(sig) = Range(sigs[N]) \cup {Param(n, KeywordOnly) : n \in Taken(e)}
      /\ Accepted(sig) <=> e = "batch" \/ Names(sigs[N]) \cap Taken(e) = {}
  BY <1>0 DEF Presents
<1>3. /\ sigs[N] \in Seq(Parameters) /\ N \in 1 .. N
      /\ \A n \in Names(sigs[N]) : HasSource(n, N)
  BY <1>0, <1>1 DEF SigsOK
<1>4. \A m \in 1 .. N, l \in 1 .. N : Through(m, l)' <=> Through(m, l)
  BY <1>0 DEF Through
<1>5. \A m \in 1 .. N : Through(m, N + 1)' <=> Through(m, N) /\ e # "batch"
  <2> TAKE m \in 1 .. N
  <2>1. m + 1 .. N + 1 = (m + 1 .. N) \cup {N + 1} /\ m + 1 .. N \subseteq 1 .. N
    BY <1>0
  <2>2. \A k \in m + 1 .. N : layers'[k] = layers[k]
    BY <1>0, <2>1
  <2> QED
    BY <1>0, <2>1, <2>2 DEF Through
<1> DEFINE OK(s) == s \in Seq(Parameters) /\ Accepted(s) /\ OneVar(s)
<1>8. /\ \A l \in 1 .. N : OK(sigs[l])
      /\ \A l \in 1 .. N : l > 1 => Composes(l)
      /\ \A l \in 1 .. N : \A m \in 1 .. l : Through(m, l) => Names(sigs[m]) \subseteq Names(sigs[l])
      /\ \A l \in 1 .. N : \A n \in Names(sigs[l]) : HasSource(n, l)
  BY <1>0, <1>1 DEF SigsOK
<1>9. /\ \A l \in 1 .. N : Written(sigs[l]) = IF Through(1, l) THEN Written(sigs[1]) ELSE {}
      /\ \A l \in 1 .. N : ~ Blocked(l)
  BY <1>0, <1>1 DEF SigsOK
<1>10. ASSUME sigs'[1] = sigs[1]
       PROVE  /\ \A l \in 1 .. N : Unreadable(l)' <=> Unreadable(l)
              /\ \A l \in 1 .. N : ~ Blocked(l)'
              /\ Blocked(N + 1)' <=> e = "batch" /\ Unreadable(N)
  <2>1. ASSUME NEW l \in 1 .. N PROVE Unreadable(l)' <=> Unreadable(l)
    <3>1. l \in 1 .. N /\ \A k \in 2 .. l : k \in 1 .. N
      BY <1>0
    <3>2. layers'[l] = layers[l] /\ \A k \in 2 .. l : layers'[k] = layers[k]
      BY <1>0, <3>1
    <3> QED
      BY <1>10, <3>2 DEF Unreadable
  <2>2. ASSUME NEW l \in 1 .. N PROVE ~ Blocked(l)'
    <3>1. CASE l = 1
      <4>1. layers'[1] = "tool"
        BY <3>1, <1>0 DEF Inv, LayersOK
      <4> QED
        BY <3>1, <4>1 DEF Blocked
    <3>2. CASE l # 1
      <4>1. l - 1 \in 1 .. N /\ layers'[l] = layers[l]
        BY <3>2, <1>0
      <4>2. Unreadable(l - 1)' <=> Unreadable(l - 1)
        BY <4>1, <2>1
      <4> QED
        BY <4>1, <4>2, <1>9 DEF Blocked
    <3> QED
      BY <3>1, <3>2
  <2>3. Blocked(N + 1)' <=> e = "batch" /\ Unreadable(N)
    <3>1. (N + 1) - 1 = N /\ N \in 1 .. N
      BY <1>0
    <3> QED
      BY <3>1, <2>1, <1>0 DEF Blocked
  <2> QED
    BY <2>1, <2>2, <2>3
<1>6. CASE Accepted(sig) /\ ~refused
  <2>1. sigs' = Append(sigs, sig) /\ phase' = "binding"
    BY <1>0, <1>6 DEF Bind
  <2>2. /\ IsSeq(sigs') /\ sigs' # << >> /\ Len(sigs') = N + 1 /\ DOMAIN sigs' = 1 .. N + 1
        /\ \A l \in 1 .. N : sigs'[l] = sigs[l]
        /\ sigs'[N + 1] = sig
    BY <1>0, <1>1, <2>1, Appended
  <2>3. \A l \in 1 .. N : \A n \in Names(sigs[l]) : HasSource(n, l) => HasSource(n, l)'
    BY <1>0, <1>4, <2>2 DEF HasSource
  <2>4. \A l \in 1 .. N : l > 1 /\ Composes(l) => Composes(l)'
    BY <1>0, <2>2 DEF Composes
  <2>5. Composes(N + 1)'
    BY <1>0, <1>2, <1>6, <2>2 DEF Composes
  <2>6. \A n \in Names(sig) : e # "batch" => n \in Names(sigs[N]) \cup Taken(e)
    BY <1>2, <1>3, ComposedNames
  <2>7. e # "batch" => Names(sigs[N]) \subseteq Names(sig)
    BY <1>2, <1>3, ComposedNames
  <2>8. ASSUME NEW n \in Names(sig) PROVE HasSource(n, N + 1)'
    <3>1. CASE e = "batch"
      BY <1>2, <3>1 DEF HasSource
    <3>2. CASE e # "batch" /\ n \in Taken(e)
      <4>1. e \in Adding
        BY <3>2, TakenNames
      <4>2. N + 1 \in 1 .. N + 1 /\ Through(N + 1, N + 1)'
        BY <1>0 DEF Through
      <4> QED
        BY <1>0, <3>2, <4>1, <4>2 DEF HasSource
    <3>3. CASE e # "batch" /\ n \in Names(sigs[N])
      <4>1. HasSource(n, N)
        BY <3>3, <1>3
      <4> QED
        BY <4>1, <3>3, <1>0, <1>5, <2>2 DEF HasSource
    <3> QED
      BY <2>6, <3>1, <3>2, <3>3
  <2>9. ASSUME NEW m \in 1 .. N + 1, Through(m, N + 1)'
        PROVE  Names(sigs'[m]) \subseteq Names(sig)
    <3>1. CASE m = N + 1
      BY <3>1, <2>2
    <3>2. CASE m \in 1 .. N
      <4>1. e # "batch" /\ Through(m, N)
        BY <3>2, <2>9, <1>5
      <4>2. Names(sigs[m]) \subseteq Names(sigs[N])
        BY <4>1, <3>2, <1>3, <1>8
      <4> QED
        BY <4>1, <4>2, <3>2, <2>2, <2>7
    <3> QED
      BY <3>1, <3>2, <1>0
  <2>10. SigsOK'
    <3>1. \A l \in 1 .. N + 1 : sigs'[l] \in Seq(Parameters) /\ Accepted(sigs'[l]) /\ OneVar(sigs'[l])
      <4>1. \A l \in 1 .. N + 1 : l \in 1 .. N \/ l = N + 1
        BY <1>0
      <4>2. OK(sigs'[N + 1]) /\ \A l \in 1 .. N : OK(sigs'[l])
        BY <1>2, <1>6, <1>8, <2>2
      <4> QED
        BY <4>1, <4>2
    <3>2. \A l \in 1 .. N + 1 : l > 1 => Composes(l)'
      <4>1. \A l \in 1 .. N + 1 : l \in 1 .. N \/ l = N + 1
        BY <1>0
      <4> QED
        BY <4>1, <1>8, <2>4, <2>5
    <3>3. ASSUME NEW l \in 1 .. N + 1, NEW m \in 1 .. l, Through(m, l)'
          PROVE  Names(sigs'[m]) \subseteq Names(sigs'[l])
      <4>1. CASE l = N + 1
        BY <4>1, <3>3, <2>9, <2>2
      <4>2. CASE l \in 1 .. N
        <5>1. m \in 1 .. N /\ Through(m, l)
          BY <4>2, <3>3, <1>0, <1>4
        <5> QED
          BY <5>1, <4>2, <1>8, <2>2
      <4> QED
        BY <4>1, <4>2, <1>0
    <3>4. ASSUME NEW l \in 1 .. N + 1, NEW n \in Names(sigs'[l])
          PROVE  HasSource(n, l)'
      <4>1. CASE l = N + 1
        BY <4>1, <2>8, <2>2
      <4>2. CASE l \in 1 .. N
        BY <4>2, <1>8, <2>2, <2>3
      <4> QED
        BY <4>1, <4>2, <1>0
    <3>5. ASSUME NEW l \in 1 .. N + 1
          PROVE  Written(sigs'[l]) = IF Through(1, l)' THEN Written(sigs'[1]) ELSE {}
      <4>1. 1 \in 1 .. N /\ sigs'[1] = sigs[1]
        BY <1>0, <2>2
      <4>2. CASE l \in 1 .. N
        <5>1. Through(1, l)' <=> Through(1, l)
          BY <4>1, <4>2, <1>4
        <5> QED
          BY <4>1, <4>2, <5>1, <1>9, <2>2
      <4>3. CASE l = N + 1
        <5>1. Through(1, N + 1)' <=> Through(1, N) /\ e # "batch"
          BY <4>1, <1>5
        <5>2. Written(sig) = IF e = "batch" THEN {} ELSE Written(sigs[N])
          BY <1>2, WrittenOver
        <5> QED
          BY <4>1, <4>3, <5>1, <5>2, <1>3, <1>9, <2>2
      <4> QED
        BY <4>2, <4>3, <1>0
    <3>6. ASSUME NEW l \in 1 .. N + 1 PROVE ~ Blocked(l)'
      <4>1. sigs'[1] = sigs[1]
        BY <1>0, <2>2
      <4>2. ~ (e = "batch" /\ Unreadable(N))
        BY <1>6 DEF Reason
      <4>3. l \in 1 .. N \/ l = N + 1
        BY <1>0
      <4> QED
        BY <4>1, <4>2, <4>3, <1>10
    <3> QED
      BY <2>1, <2>2, <3>1, <3>2, <3>3, <3>4, <3>5, <3>6 DEF SigsOK
  <2> QED
    BY <1>0, <2>1, <2>2, <2>10
<1>7. CASE ~ (Accepted(sig) /\ ~refused)
  <2>1. sigs' = sigs /\ phase' = "refused"
    BY <1>7 DEF Bind
  <2>2. /\ \A l \in 1 .. N : \A n \in Names(sigs[l]) : HasSource(n, l) => HasSource(n, l)'
        /\ \A l \in 1 .. N : l > 1 /\ Composes(l) => Composes(l)'
    BY <1>0, <1>4, <2>1 DEF HasSource, Composes
  <2>3. e = "output_schema" \/ Clashes(N + 1)' \/ Blocked(N + 1)'
    <3>6. refused = TRUE => e = "output_schema" \/ Blocked(N + 1)'
      <4>1. refused = TRUE => e = "output_schema" \/ (e = "batch" /\ Unreadable(N))
        BY DEF Reason
      <4> QED
        BY <4>1, <1>10, <2>1
    <3>1. SUFFICES ASSUME ~ Accepted(sig) PROVE Clashes(N + 1)'
      BY <1>7, <3>6
    <3>2. PICK n \in Names(sigs[N]) : n \in Taken(e)
      BY <1>2, <3>1
    <3>3. e \in Adding /\ n \notin Names(BatchSignature) /\ HasSource(n, N)
      BY <3>2, <1>3, TakenNames, BatchSignatureOK
    <3>4. CASE n \in Names(sigs[1]) /\ Through(1, N)
      <4>1. 1 \in 1 .. N /\ \A k \in 1 + 1 .. N : layers'[k] # "batch"
        BY <3>4, <1>0 DEF Through
      <4> QED
        BY <4>1, <3>4, <3>2, <1>0, <2>1 DEF Clashes
    <3>5. ASSUME NEW m \in 1 .. N, layers[m] \in Adding, n \in Taken(layers[m]), Through(m, N)
          PROVE  Clashes(N + 1)'
      <4>1. layers[m] = e
        BY <3>5, <3>2, <3>3, TakenNames DEF Adding
      <4>2. \A k \in m + 1 .. N : layers'[k] # "batch"
        BY <3>5, <1>0 DEF Through
      <4>3. m \in 1 .. (N + 1) - 1 /\ N = (N + 1) - 1
        BY <1>0
      <4> QED
        BY <4>1, <4>2, <4>3, <3>3, <1>0 DEF Clashes
    <3> QED
      BY <3>3, <3>4, <3>5 DEF HasSource
  <2>4. SigsOK'
    <3>1. \A l \in 1 .. N : sigs[l] \in Seq(Parameters) /\ Accepted(sigs[l]) /\ OneVar(sigs[l])
      BY <1>8
    <3>2. \A l \in 1 .. N : l > 1 => Composes(l)'
      BY <1>8, <2>2
    <3>3. ASSUME NEW l \in 1 .. N, NEW m \in 1 .. l, Through(m, l)'
          PROVE  Names(sigs[m]) \subseteq Names(sigs[l])
      <4>1. m \in 1 .. N /\ Through(m, l)
        BY <3>3, <1>0, <1>4
      <4> QED
        BY <4>1, <1>8
    <3>4. \A l \in 1 .. N : \A n \in Names(sigs[l]) : HasSource(n, l)'
      BY <1>8, <2>2
    <3>5. /\ Len(layers') > 1
          /\ Last(layers') = "output_schema" \/ Clashes(Len(layers))' \/ Blocked(Len(layers))'
      BY <1>0, <2>3
    <3>6. \A l \in 1 .. N : Written(sigs[l]) = IF Through(1, l)' THEN Written(sigs[1]) ELSE {}
      <4>1. 1 \in 1 .. N
        BY <1>0
      <4> QED
        BY <4>1, <1>4, <1>9
    <3>7. \A l \in 1 .. N : ~ Blocked(l)'
      BY <1>10, <2>1
    <3> QED
      BY <1>0, <2>1, <3>1, <3>2, <3>3, <3>4, <3>5, <3>6, <3>7 DEF SigsOK
  <2> QED
    BY <1>0, <1>1, <2>1, <2>4
<1> QED
  BY <1>6, <1>7

LEMMA BindInv ==
    ASSUME Inv, NEW e \in Extensions, NEW sig, NEW refused \in BOOLEAN, Bind(e, sig, refused),
           Presents(e, Last(sigs), sig), Reason(e, refused)
    PROVE  Inv'
<1> PICK N : N = Len(layers)
  OBVIOUS
<1>0. /\ N \in Nat /\ N > 0 /\ phase = "binding" /\ stack = << >> /\ outcome = None
      /\ DOMAIN layers = 1 .. N /\ DOMAIN store = 1 .. N
      /\ layers' \in Seq({"tool"} \cup Extensions) /\ layers' # << >>
      /\ Len(layers') = N + 1 /\ DOMAIN layers' = 1 .. N + 1
      /\ \A l \in 1 .. N : layers'[l] = layers[l]
      /\ layers'[N + 1] = e
      /\ IsSeq(store') /\ Len(store') = N + 1 /\ DOMAIN store' = 1 .. N + 1
      /\ \A l \in 1 .. N : store'[l] = store[l]
      /\ store'[N + 1] = << >>
      /\ metrics' \in Seq([calls : Nat, errors : Nat]) /\ Len(metrics') = N + 1
      /\ DOMAIN metrics' = 1 .. N + 1
      /\ \A l \in 1 .. N + 1 : metrics'[l] = [calls |-> 0, errors |-> 0]
      /\ UNCHANGED <<stack, outcome, given, made, ended>>
  BY BindFacts
<1>1. /\ SigsOK' /\ IsSeq(sigs)' /\ sigs' # << >> /\ phase' \in {"binding", "refused"}
      /\ Len(sigs') = Len(layers') - IF phase' = "refused" THEN 1 ELSE 0
  BY BindSigs
<1>2. LayersOK /\ QuietBefore
  BY DEF Inv
<1>3. e # "tool"
  BY DEF Extensions, Adding, Wrapping
<1>4. \A l \in 1 .. N + 1 : layers'[l] = "tool" <=> l = 1
  <2>1. \A l \in 1 .. N + 1 : l \in 1 .. N \/ l = N + 1
    BY <1>0
  <2>2. \A l \in 1 .. N : layers[l] = "tool" <=> l = 1
    BY <1>0, <1>2 DEF LayersOK
  <2>3. N + 1 # 1
    BY <1>0
  <2> QED
    BY <2>1, <2>2, <2>3, <1>0, <1>3
<1>5. \A l \in 1 .. N + 1 : store'[l] = << >>
  <2>1. \A l \in 1 .. N + 1 : l \in 1 .. N \/ l = N + 1
    BY <1>0
  <2> QED
    BY <2>1, <1>0, <1>2 DEF QuietBefore
<1>6. LayersOK'
  <2>1. \A l \in 1 .. N + 1 : \A key \in DOMAIN store'[l] : store'[l][key] \in Answers
    BY <1>5
  <2>2. /\ ended' \in [{"returned", "raised", "cancelled"} -> Nat]
        /\ outcome' \in Outcomes \cup {None}
    BY <1>0, <1>2 DEF LayersOK
  <2>3. IsSeq(store') /\ Len(store') = Len(layers') /\ Len(metrics') = Len(layers')
    BY <1>0
  <2> QED
    BY <1>0, <1>1, <1>4, <2>1, <2>2, <2>3 DEF LayersOK
<1>7. QuietBefore'
  BY <1>0, <1>1, <1>2, <1>5 DEF QuietBefore
<1>8. StackOK'
  <2>1. DOMAIN stack' = {} /\ IsSeq(stack')
    BY <1>0, EmptyIsSeq
  <2> QED
    BY <1>0, <2>1 DEF StackOK
<1>9. ArgumentsArrive'
  BY <1>0 DEF ArgumentsArrive
<1>10. MetricsOK'
  <2>1. \A m, n \in 1 .. N + 1 : ~ InFlight(m, n)'
    BY <1>0 DEF InFlight
  <2>2. phase' # "calling"
    BY <1>1
  <2> QED
    BY <1>0, <2>1, <2>2 DEF MetricsOK
<1>11. WidthsOK'
  BY <1>0, <1>5 DEF WidthsOK
<1> QED
  BY <1>1, <1>6, <1>7, <1>8, <1>9, <1>10, <1>11 DEF Inv

\* A factory binds an extension, with the signature that it presents.
Binds(e, sig, refused) ==
    Bind(e, sig, refused) /\ Presents(e, Last(sigs), sig) /\ Reason(e, refused)

\* What a batch reads over the layers is what the tool and its wrappers have written.
LEMMA BatchReads ==
    ASSUME Inv, phase = "binding"
    PROVE  LET N == Len(layers) IN
           AnnotationsAt(N) \cap (Foreign(N) \cup {"unfit"}) # {} <=> Unreadable(N)
<1> SUFFICES ASSUME NEW N, N = Len(layers)
             PROVE  AnnotationsAt(N) \cap (Foreign(N) \cup {"unfit"}) # {} <=> Unreadable(N)
  OBVIOUS
<1> DEFINE stated == \E k \in 2 .. N : layers[k] \in Transformers
           own == Written(sigs[1])
           ret == IF stated THEN {"value"} ELSE {ReturnOf[sigs[1]]}
           bad == Foreign(N) \cup {"unfit"}
<1>1. /\ N \in Nat /\ N > 0 /\ DOMAIN sigs = 1 .. N /\ layers[1] = "tool"
      /\ \A l \in 1 .. N : layers[l] = "tool" <=> l = 1
  <2>1. LayersOK
    BY DEF Inv
  <2>2. N \in Nat /\ N > 0 /\ DOMAIN layers = 1 .. N
    BY <2>1, EmptySeq, LenProperties DEF LayersOK
  <2>3. Len(sigs) = N /\ IsSeq(sigs)
    BY <2>1, <2>2 DEF LayersOK
  <2>4. DOMAIN sigs = 1 .. N
    BY <2>2, <2>3, SeqFacts
  <2>5. \A l \in 1 .. N : layers[l] = "tool" <=> l = 1
    BY <2>1, <2>2 DEF LayersOK
  <2>6. 1 \in 1 .. N
    BY <2>2
  <2> QED
    BY <2>2, <2>4, <2>5, <2>6
<1>2. Written(sigs[N]) = IF Through(1, N) THEN own ELSE {}
  <2>1. N \in DOMAIN sigs
    BY <1>1
  <2> QED
    BY <2>1 DEF Inv, SigsOK
<1>3. Through(1, N) <=> \A k \in 2 .. N : layers[k] # "batch"
  BY DEF Through
<1>4. "value" \notin bad
  BY DEF Foreign
<1>5. AnnotationsAt(N) \cap bad = (Written(sigs[N]) \cap bad) \cup (ret \cap bad)
  <2> DEFINE all == {p.annotation : p \in Range(sigs[N])}
  <2>1. Written(sigs[N]) = all \ {"value"} /\ AnnotationsAt(N) = all \cup ret
    BY DEF Written, AnnotationsAt
  <2> HIDE DEF all, ret, bad
  <2> QED
    BY <2>1, <1>4
<1>6. Unreadable(N) <=>
        /\ Through(1, N)
        /\ \/ "unfit" \in own \cup ret
           \/ N > 1 /\ "own" \in own \cup ret
           \/ N > 1 /\ "Any" \in own \cup ret /\ layers[N] \notin Transformers
  <2> DEFINE all == {p.annotation : p \in Range(sigs[1])}
             rest == IF \A k \in 2 .. N : layers[k] \notin Transformers THEN {ReturnOf[sigs[1]]} ELSE {}
  <2>1. Unreadable(N) <=>
          /\ \A k \in 2 .. N : layers[k] # "batch"
          /\ \/ "unfit" \in all \cup rest
             \/ N > 1 /\ "own" \in all \cup rest
             \/ N > 1 /\ "Any" \in all \cup rest /\ layers[N] \notin Transformers
    BY DEF Unreadable
  <2>2. /\ own = all \ {"value"}
        /\ ret = IF rest = {} THEN {"value"} ELSE rest
    BY DEF Written
  <2>3. \A a \in {"unfit", "own", "Any"} : a \in all \cup rest <=> a \in own \cup ret
    <3> HIDE DEF all, rest, own, ret
    <3> QED
      BY <2>2
  <2> HIDE DEF all, rest, own, ret
  <2> QED
    BY <2>1, <2>3, <1>3
<1> DEFINE reads == (Written(sigs[N]) \cap bad) \cup (ret \cap bad)
<1>7. ASSUME ~ Through(1, N) PROVE reads = {} /\ ~ Unreadable(N)
  <2>1. PICK k \in 2 .. N : layers[k] = "batch"
    BY <1>3, <1>7
  <2>2. ret = {"value"}
    BY <2>1 DEF Transformers
  <2>3. Written(sigs[N]) = {} /\ ~ Unreadable(N)
    BY <1>2, <1>6, <1>7
  <2> HIDE DEF bad, ret
  <2>4. reads = {}
    BY <1>4, <2>2, <2>3
  <2> QED
    BY <2>3, <2>4
<1>8. ASSUME Through(1, N), N = 1 PROVE reads # {} <=> Unreadable(N)
  <2>1. bad = {"unfit"}
    BY <1>1, <1>8 DEF Foreign, Transformers
  <2>2. Written(sigs[N]) = own /\ (Unreadable(N) <=> "unfit" \in own \cup ret)
    BY <1>2, <1>6, <1>8
  <2> HIDE DEF bad, ret, own
  <2> QED
    BY <2>1, <2>2
<1>9. ASSUME Through(1, N), N > 1 PROVE reads # {} <=> Unreadable(N)
  <2>1. bad = {"own", "unfit"} \cup (IF layers[N] \in Transformers THEN {} ELSE {"Any"})
    BY <1>9, <1>1 DEF Foreign
  <2>2. /\ Written(sigs[N]) = own
        /\ Unreadable(N) <=> \/ "unfit" \in own \cup ret \/ "own" \in own \cup ret
                             \/ "Any" \in own \cup ret /\ layers[N] \notin Transformers
    BY <1>2, <1>6, <1>9
  <2> HIDE DEF bad, ret, own
  <2> QED
    BY <2>1, <2>2
<1>10. reads # {} <=> Unreadable(N)
  <2> HIDE DEF reads
  <2> QED
    BY <1>1, <1>7, <1>8, <1>9
<1> QED
  BY <1>5, <1>10

LEMMA Binding ==
    ASSUME Inv, BindMetrics \/ BindCache \/ BindProxy \/ BindChain \/ BindBatch \/ BindOutputSchema
    PROVE  \E sig : \E e \in Extensions, refused \in BOOLEAN : Binds(e, sig, refused)
<1> DEFINE below == Last(sigs)
<1>1. below \in Seq(Parameters) /\ Accepted(below) /\ OneVar(below)
  <2>1. IsSeq(sigs) /\ sigs # << >> /\ SigsOK
    BY DEF Inv, LayersOK
  <2>2. Len(sigs) \in DOMAIN sigs
    BY <2>1, SeqFacts DEF IsSeq
  <2> QED
    BY <2>1, <2>2 DEF SigsOK, Last
<1> HIDE DEF below
<1>2. /\ Presents("prometheus_metrics", below, below)
      /\ Presents("output_schema", below, below)
      /\ Presents("batch", below, BatchSignature)
      /\ \A e \in Adding : Presents(e, below, WithControls(e, below))
  BY <1>1, OtherPresents, WithControlsOK
<1>3. {"prometheus_metrics", "output_schema", "batch", "cache", "proxy", "chain"} \subseteq Extensions
      /\ {"cache", "proxy", "chain"} \subseteq Adding
  BY DEF Extensions, Adding, Wrapping
<1>4. CASE BindMetrics
  <2>1. Binds("prometheus_metrics", below, FALSE)
    BY <1>2, <1>4 DEF BindMetrics, Binds, Reason, below
  <2> "prometheus_metrics" \in Extensions /\ FALSE \in BOOLEAN
    BY <1>3
  <2> WITNESS below
  <2> WITNESS "prometheus_metrics" \in Extensions, FALSE \in BOOLEAN
  <2> QED
    BY <2>1
<1>5. CASE BindCache
  <2>1. Binds("cache", WithControls("cache", below), FALSE)
    BY <1>2, <1>3, <1>5 DEF BindCache, Binds, Reason, below
  <2> "cache" \in Extensions /\ FALSE \in BOOLEAN
    BY <1>3
  <2> WITNESS WithControls("cache", below)
  <2> WITNESS "cache" \in Extensions, FALSE \in BOOLEAN
  <2> QED
    BY <2>1
<1>6. CASE BindProxy
  <2>1. Binds("proxy", WithControls("proxy", below), FALSE)
    BY <1>2, <1>3, <1>6 DEF BindProxy, Binds, Reason, below
  <2> "proxy" \in Extensions /\ FALSE \in BOOLEAN
    BY <1>3
  <2> WITNESS WithControls("proxy", below)
  <2> WITNESS "proxy" \in Extensions, FALSE \in BOOLEAN
  <2> QED
    BY <2>1
<1>7. CASE BindChain
  <2>1. Binds("chain", WithControls("chain", below), FALSE)
    BY <1>2, <1>3, <1>7 DEF BindChain, Binds, Reason, below
  <2> "chain" \in Extensions /\ FALSE \in BOOLEAN
    BY <1>3
  <2> WITNESS WithControls("chain", below)
  <2> WITNESS "chain" \in Extensions, FALSE \in BOOLEAN
  <2> QED
    BY <2>1
<1>8. CASE BindBatch
  <2> "batch" \in Extensions /\ TRUE \in BOOLEAN /\ FALSE \in BOOLEAN
    BY <1>3
  <2>1. phase = "binding" /\ Presents("batch", Last(sigs), BatchSignature)
    BY <1>2, <1>8 DEF BindBatch, Bind, below
  <2>2. CASE Unreadable(Len(layers))
    <3>1. Bind("batch", BatchSignature, TRUE)
      BY <1>8, <2>1, <2>2, BatchReads DEF BindBatch, Bind
    <3>2. Binds("batch", BatchSignature, TRUE)
      BY <3>1, <2>1, <2>2 DEF Binds, Reason
    <3> WITNESS BatchSignature
    <3> WITNESS "batch" \in Extensions, TRUE \in BOOLEAN
    <3> QED
      BY <3>2
  <2>3. CASE ~ Unreadable(Len(layers))
    <3>1. Bind("batch", BatchSignature, FALSE)
      BY <1>8, <2>1, <2>3, BatchReads DEF BindBatch, Bind
    <3>2. Binds("batch", BatchSignature, FALSE)
      BY <3>1, <2>1, <2>3 DEF Binds, Reason
    <3> WITNESS BatchSignature
    <3> WITNESS "batch" \in Extensions, FALSE \in BOOLEAN
    <3> QED
      BY <3>2
  <2> QED
    BY <2>2, <2>3
<1>9. CASE BindOutputSchema
  <2>1. PICK refused \in BOOLEAN : Bind("output_schema", below, refused)
    BY <1>9 DEF BindOutputSchema, below
  <2>2. Binds("output_schema", below, refused)
    BY <2>1, <1>2 DEF Binds, Reason, below
  <2> "output_schema" \in Extensions /\ refused \in BOOLEAN
    BY <1>3
  <2> WITNESS below
  <2> WITNESS "output_schema" \in Extensions, refused \in BOOLEAN
  <2> QED
    BY <2>2
<1> QED
  BY <1>4, <1>5, <1>6, <1>7, <1>8, <1>9

--------------------------------------------------------------------------------
(* Calls: what the invariant says of the top frame.                             *)

LEMMA OutcomeFacts ==
    /\ None \notin Outcomes /\ Raised \in Outcomes /\ Cancelled \in Outcomes
    /\ \A answer \in Answers : Returned(answer) \in Outcomes
    /\ \A o \in Outcomes : /\ o.how \in {"returned", "raised", "cancelled"}
                           /\ o.how = "returned" => o.answer \in Answers /\ o = Returned(o.answer)
    /\ Raised.how = "raised" /\ Cancelled.how = "cancelled"
    /\ \A answer : Returned(answer).how = "returned" /\ Returned(answer).answer = answer
  BY NoneAssumption DEF Outcomes, Returned, Raised, Cancelled

LEMMA TopFacts ==
    ASSUME Inv, stack # << >>
    PROVE  LET N == Len(layers)
               n == Len(stack)
           IN /\ N \in Nat /\ N > 0 /\ n \in Nat /\ n > 0 /\ phase = "calling"
              /\ DOMAIN layers = 1 .. N /\ DOMAIN sigs = 1 .. N
              /\ DOMAIN store = 1 .. N /\ DOMAIN metrics = 1 .. N
              /\ IsSeq(stack) /\ DOMAIN stack = 1 .. n /\ Top = stack[n]
              /\ \A i \in 1 .. n : FrameOK(i)
              /\ outcome = None <=> Top.at = "called"
              /\ outcome # None => outcome \in Outcomes
<1>1. LayersOK /\ StackOK
  BY DEF Inv
<1>2. /\ phase = "calling" /\ IsSeq(stack) /\ Top = stack[Len(stack)]
      /\ \A i \in DOMAIN stack : FrameOK(i)
      /\ outcome = None <=> Top.at = "called"
      /\ outcome # None => outcome \in Outcomes
  BY <1>1 DEF StackOK, LayersOK, Top, Last
<1>3. Len(stack) \in Nat /\ Len(stack) > 0 /\ DOMAIN stack = 1 .. Len(stack)
  BY <1>2, SeqFacts
<1>4. Len(layers) \in Nat /\ Len(layers) > 0 /\ DOMAIN layers = 1 .. Len(layers)
  BY <1>1, EmptySeq, LenProperties DEF LayersOK
<1>5. /\ DOMAIN sigs = 1 .. Len(layers) /\ DOMAIN store = 1 .. Len(layers)
      /\ DOMAIN metrics = 1 .. Len(layers)
  <2>1. Len(sigs) = Len(layers) /\ Len(store) = Len(layers) /\ Len(metrics) = Len(layers)
    BY <1>1, <1>2, <1>4 DEF LayersOK
  <2> QED
    BY <1>1, <2>1, SeqFacts, LenProperties DEF LayersOK
<1> QED
  BY <1>2, <1>3, <1>4, <1>5

LEMMA InvParts ==
    ASSUME Inv
    PROVE  /\ LayersOK /\ QuietBefore /\ StackOK /\ SigsOK
           /\ ArgumentsArrive /\ MetricsOK /\ WidthsOK
  BY DEF Inv

LEMMA SigsKept ==
    ASSUME SigsOK, UNCHANGED <<phase, layers, sigs>>
    PROVE  SigsOK'
<1>1. \A m, l : Through(m, l)' <=> Through(m, l)
  BY DEF Through
<1>2. \A n, l : HasSource(n, l)' <=> HasSource(n, l)
  BY <1>1 DEF HasSource
<1>3. \A l : Composes(l)' <=> Composes(l)
  BY DEF Composes
<1>4. phase = "refused" /\ Clashes(Len(layers)) => Clashes(Len(layers))'
  BY DEF Clashes
<1>5. \A l : Blocked(l)' <=> Blocked(l)
  BY DEF Blocked, Unreadable
<1> QED
  BY <1>1, <1>2, <1>3, <1>4, <1>5 DEF SigsOK

\* The layer of the frame below the top one, when the top one ends.
LEMMA NextTop ==
    ASSUME Inv, stack # << >>, stack' = Front(stack), UNCHANGED layers
    PROVE  LET N == Len(layers)
               n == Len(stack)
           IN /\ IsSeq(stack') /\ Len(stack') = n - 1 /\ DOMAIN stack' = 1 .. n - 1
              /\ \A i \in 1 .. n - 1 : stack'[i] = stack[i]
              /\ stack' = << >> <=> n = 1
              /\ n = 1 => Top.layer = N
              /\ n > 1 => /\ Top' = stack[n - 1] /\ Top'.layer = N + 2 - n
                          /\ Top.layer = 0 => Top'.at = "next" /\ layers[Top'.layer] = "chain"
                          /\ Top.layer # 0 => Top'.at = "waiting" /\ Top'.layer = Top.layer + 1
<1> PICK n : n = Len(stack)
  OBVIOUS
<1> PICK N : N = Len(layers)
  OBVIOUS
<1>1. /\ N \in Nat /\ N > 0 /\ n \in Nat /\ n > 0
      /\ IsSeq(stack) /\ Top = stack[n]
      /\ \A i \in 1 .. n : FrameOK(i)
  BY TopFacts
<1>2. /\ IsSeq(stack') /\ Len(stack') = n - 1 /\ DOMAIN stack' = 1 .. n - 1
      /\ \A i \in 1 .. n - 1 : stack'[i] = stack[i]
  BY <1>1, Fronted
<1>3. stack' = << >> <=> n = 1
  <2>1. stack' # << >> <=> Len(stack') > 0
    BY <1>2, SeqFacts
  <2> QED
    BY <2>1, <1>1, <1>2
<1>4. FrameOK(n)
  BY <1>1
<1>5. n = 1 => Top.layer = N
  BY <1>1, <1>4 DEF FrameOK
<1>6. CASE n > 1
  <2>1. FrameOK(n - 1) /\ n - 1 \in 1 .. n - 1 /\ (n - 1) + 1 = n
    BY <1>1, <1>6
  <2>2. Top' = stack[n - 1]
    BY <1>2, <1>6, <2>1 DEF Top, Last
  <2>3. stack[n - 1].layer # 0 /\ stack[n - 1].layer = N + 1 - (n - 1)
    BY <1>1, <2>1 DEF FrameOK
  <2>4. stack[n - 1].at \in {"waiting", "next"}
    BY <1>1, <2>1 DEF FrameOK
  <2>5. Top.layer = 0 => Top'.at = "next" /\ layers[Top'.layer] = "chain"
    BY <1>1, <1>4, <2>1, <2>2 DEF FrameOK
  <2>6. Top.layer # 0 => Top'.at = "waiting"
    BY <1>1, <1>6, <2>1, <2>2, <2>4 DEF FrameOK
  <2>7. Top.layer # 0 => Top.layer = N + 1 - n
    BY <1>1, <1>4 DEF FrameOK
  <2> QED
    BY <1>1, <1>2, <1>3, <1>5, <1>6, <2>2, <2>3, <2>5, <2>6, <2>7
<1> QED
  BY <1>1, <1>2, <1>3, <1>5, <1>6

--------------------------------------------------------------------------------
(* A layer calls the one below, or the next tool.                               *)

\* What CallFrom() is given: the top frame, waiting for a layer that is called with its
\* arguments, or, as a chain, for the next tool.
Calls(f, l, args) ==
    /\ DOMAIN f = {"layer", "args", "at", "todo", "got"} /\ f.got \in Answers
    /\ f.layer = Top.layer /\ f.args = Top.args /\ Top.layer \in 1 .. Len(layers)
    /\ Sealed(Top.layer - 1) => Fits(f.got)
    /\ \/ f.at = "waiting" /\ l = Top.layer - 1 /\ l > 0 /\ Arrived(l, args)
       \/ f.at = "next" /\ l = 0 /\ layers[Top.layer] = "chain"
    /\ outcome = None \/ layers[Top.layer] \in {"batch", "chain"}

LEMMA CallStack ==
    ASSUME Inv, stack # << >>, NEW f, NEW l, NEW args, Calls(f, l, args), CallFrom(f, l, args),
           UNCHANGED <<phase, layers>>
    PROVE  StackOK'
<1> PICK n : n = Len(stack)
  OBVIOUS
<1> PICK N : N = Len(layers)
  OBVIOUS
<1>1. /\ N \in Nat /\ N > 0 /\ n \in Nat /\ n > 0 /\ phase = "calling"
      /\ IsSeq(stack) /\ Top = stack[n]
      /\ \A i \in 1 .. n : FrameOK(i)
  BY TopFacts
<1>2. /\ IsSeq(stack') /\ stack' # << >> /\ Len(stack') = n + 1 /\ DOMAIN stack' = 1 .. n + 1
      /\ \A i \in 1 .. n - 1 : stack'[i] = stack[i]
      /\ stack'[n] = f /\ stack'[n + 1] = Frame(l, args) /\ Last(stack') = Frame(l, args)
  BY <1>1, Replaced DEF CallFrom
<1> DEFINE g == Frame(l, args)
<1>3. /\ DOMAIN g = {"layer", "args", "at", "todo", "got"} /\ g.got \in Answers
      /\ g.layer = l /\ g.at = "called" /\ stack'[n + 1] = g /\ Last(stack') = g
  BY <1>2 DEF Frame, Answers
<1> HIDE DEF g
<1>4. /\ DOMAIN f = {"layer", "args", "at", "todo", "got"} /\ f.got \in Answers
      /\ f.layer = stack[n].layer /\ f.layer \in 1 .. N
      /\ \/ f.at = "waiting" /\ l = f.layer - 1 /\ l > 0
         \/ f.at = "next" /\ l = 0 /\ layers[f.layer] = "chain"
  BY <1>1 DEF Calls
<1>5. f.layer = N + 1 - n
  <2>1. FrameOK(n)
    BY <1>1
  <2> QED
    BY <2>1, <1>1, <1>4 DEF FrameOK
<1>6. ASSUME NEW i \in 1 .. n - 1 PROVE FrameOK(i)'
  <2>1. FrameOK(i) /\ i < n /\ i \in 1 .. n
    BY <1>1, <1>6
  <2>2. stack'[i] = stack[i] /\ stack'[i + 1].layer = stack[i + 1].layer
    <3>1. CASE i + 1 = n
      BY <3>1, <1>2, <1>4
    <3>2. CASE i + 1 # n
      BY <3>2, <1>1, <1>2, <2>1
    <3> QED
      BY <3>1, <3>2, <1>2
  <2>3. /\ DOMAIN stack[i] = {"layer", "args", "at", "todo", "got"} /\ stack[i].got \in Answers
        /\ stack[i].layer \in 0 .. N /\ stack[i].layer = N + 1 - i /\ stack[i].layer # 0
        /\ stack[i].at \in {"waiting", "next"}
        /\ stack[i].at = "waiting" => stack[i].layer > 1 /\ stack[i + 1].layer # 0
        /\ stack[i].at = "next" => layers[stack[i].layer] = "chain" /\ stack[i + 1].layer = 0
    BY <1>1, <2>1 DEF FrameOK
  <2> QED
    BY <1>1, <1>2, <2>1, <2>2, <2>3 DEF FrameOK
<1>7. FrameOK(n)'
  BY <1>1, <1>2, <1>3, <1>4, <1>5 DEF FrameOK
<1>8. FrameOK(n + 1)'
  <2>1. l = 0 => stack'[n].at = "next"
    BY <1>2, <1>4
  <2>2. l \in {0, N + 1 - (n + 1)} /\ l \in 0 .. N
    BY <1>1, <1>4, <1>5
  <2>3. n + 1 > 1 /\ (n + 1) - 1 = n
    BY <1>1
  <2> QED
    BY <1>2, <1>3, <2>1, <2>2, <2>3 DEF FrameOK
<1>9. \A i \in 1 .. n + 1 : FrameOK(i)'
  <2>1. \A i \in 1 .. n + 1 : i \in 1 .. n - 1 \/ i = n \/ i = n + 1
    BY <1>1
  <2> QED
    BY <2>1, <1>6, <1>7, <1>8
<1>10. Top'.at = "called" /\ outcome' = None
  BY <1>2, <1>3 DEF Top, CallFrom
<1> QED
  BY <1>1, <1>2, <1>9, <1>10 DEF StackOK

LEMMA CallInv ==
    ASSUME Inv, stack # << >>, NEW f, NEW l, NEW args, Calls(f, l, args), CallFrom(f, l, args),
           UNCHANGED <<phase, layers, sigs, given, ended, store>>
    PROVE  Inv'
<1> PICK n : n = Len(stack)
  OBVIOUS
<1>1. /\ n \in Nat /\ n > 0 /\ phase = "calling" /\ DOMAIN stack = 1 .. n
      /\ IsSeq(stack) /\ Top = stack[n] /\ outcome' = None /\ UNCHANGED metrics
      /\ \A i \in 1 .. n : FrameOK(i)
  BY TopFacts DEF CallFrom
<1>2. /\ stack' # << >> /\ DOMAIN stack' = 1 .. n + 1
      /\ \A i \in 1 .. n - 1 : stack'[i] = stack[i]
      /\ stack'[n] = f /\ stack'[n + 1] = Frame(l, args)
  BY <1>1, Replaced DEF CallFrom
<1>3. /\ Frame(l, args).layer = l /\ Frame(l, args).args = args /\ Frame(l, args).got = {}
      /\ f.layer = stack[n].layer /\ f.args = stack[n].args
      /\ l = 0 \/ Arrived(l, args)
      /\ Sealed(stack[n].layer - 1) => Fits(f.got)
      /\ outcome = None \/ layers[stack[n].layer] \in {"batch", "chain"}
      /\ stack[n].layer \in 1 .. Len(layers)
  BY <1>1 DEF Calls, Frame
<1>4. \A i \in 1 .. n + 1 : i \in 1 .. n - 1 \/ i = n \/ i = n + 1
  BY <1>1
<1>5. LayersOK' /\ QuietBefore' /\ SigsOK'
  <2>1. LayersOK /\ SigsOK
    BY InvParts
  <2>2. LayersOK'
    BY <1>1, <2>1 DEF LayersOK
  <2> QED
    BY <1>1, <2>1, <2>2, SigsKept DEF QuietBefore
<1>6. ArgumentsArrive'
  <2>1. \A i \in 1 .. n : stack[i].layer # 0 => Arrived(stack[i].layer, stack[i].args)
    BY <1>1, InvParts DEF ArgumentsArrive
  <2>2. \A k, a : Arrived(k, a)' <=> Arrived(k, a)
    BY DEF Arrived
  <2>3. ASSUME NEW i \in 1 .. n + 1, stack'[i].layer # 0
        PROVE  Arrived(stack'[i].layer, stack'[i].args)
    <3>1. CASE i \in 1 .. n - 1
      BY <3>1, <2>1, <2>3, <1>1, <1>2
    <3>2. CASE i = n
      BY <3>2, <2>1, <2>3, <1>1, <1>2, <1>3
    <3>3. CASE i = n + 1
      BY <3>3, <2>3, <1>2, <1>3
    <3> QED
      BY <1>4, <3>1, <3>2, <3>3
  <2> QED
    BY <1>2, <2>2, <2>3 DEF ArgumentsArrive, Arrived
<1>7. MetricsOK'
  <2>1. \A a, b \in DOMAIN layers : OuterAndInner(a, b, Wrapping) => ~ InFlight(b, a)
    BY <1>1, <1>3 DEF InFlight, OuterAndInner, Wrapping
  <2>2. \A a, b \in DOMAIN layers : OuterAndInner(a, b, {"prometheus_metrics"}) => ~ InFlight(b, a)
    BY <1>1, <1>3 DEF InFlight, OuterAndInner
  <2>3. \A a, b \in DOMAIN layers : ~ InFlight(b, a)'
    BY <1>1 DEF InFlight
  <2>4. ~ Pending /\ ~ Pending'
    BY <1>2 DEF Pending
  <2>5. MetricsOK
    BY InvParts
  <2>6. \A a, b, kinds : OuterAndInner(a, b, kinds)' <=> OuterAndInner(a, b, kinds)
    BY DEF OuterAndInner
  <2> QED
    BY <1>1, <2>1, <2>2, <2>3, <2>4, <2>5, <2>6 DEF MetricsOK, Delivered
<1>8. WidthsOK'
  <2>1. \A k : Sealed(k)' <=> Sealed(k)
    BY DEF Sealed
  <2>2. WidthsOK
    BY InvParts
  <2>3. ASSUME NEW i \in 1 .. n + 1, Sealed(stack'[i].layer - 1)
        PROVE  Fits(stack'[i].got)
    <3>1. CASE i \in 1 .. n - 1
      BY <3>1, <2>2, <2>3, <1>1, <1>2 DEF WidthsOK
    <3>2. CASE i = n
      BY <3>2, <2>3, <1>1, <1>2, <1>3
    <3>3. CASE i = n + 1
      BY <3>3, <1>2, <1>3 DEF Fits
    <3> QED
      BY <1>4, <3>1, <3>2, <3>3
  <2>4. \A k \in DOMAIN store : Sealed(k) => \A key \in DOMAIN store[k] : Fits(store[k][key])
    BY <2>2 DEF WidthsOK
  <2>5. (\A i \in DOMAIN stack : Sealed(stack[i].layer - 1) => Fits(stack[i].got))'
    BY <1>2, <2>1, <2>3
  <2> QED
    BY <1>1, <2>1, <2>4, <2>5 DEF WidthsOK
<1> QED
  BY <1>5, <1>6, <1>7, <1>8, CallStack DEF Inv

--------------------------------------------------------------------------------
(* A layer's call ends.                                                         *)

\* What is true of an outcome with which the top frame may end: it fits where that is
\* called for, a metrics layer passes on what it got, and a wrapper hides no exception.
Ends(o) ==
    /\ o \in Outcomes
    /\ o.how = "returned" /\ (Top.layer = 0 \/ Sealed(Top.layer)) => Fits(o.answer)
    /\ Kind(Top) = "prometheus_metrics" => outcome # None /\ o = outcome
    /\ Kind(Top) \in Wrapping /\ outcome # None /\ outcome.how = "raised" => o.how = "raised"

\* What a wrapper may have done to its store before.
StoreKept ==
    /\ IsSeq(store)' /\ DOMAIN store' = DOMAIN store
    /\ \A l \in DOMAIN store : \A key \in DOMAIN store'[l] :
          store'[l][key] \in Answers /\ (Sealed(l) => Fits(store'[l][key]))

\* How the counters of a layer change.
Hit(l) == Top.layer = l /\ layers[l] = "prometheus_metrics"

LEMMA LeaveMetrics ==
    ASSUME Inv, stack # << >>, NEW o, Ends(o), Leave(o)
    PROVE  /\ metrics' \in Seq([calls : Nat, errors : Nat]) /\ Len(metrics') = Len(metrics)
           /\ DOMAIN metrics' = DOMAIN metrics
           /\ \A l \in DOMAIN metrics :
                 /\ metrics[l] \in [calls : Nat, errors : Nat]
                 /\ metrics'[l] \in [calls : Nat, errors : Nat]
                 /\ metrics'[l].calls = metrics[l].calls + IF Hit(l) THEN 1 ELSE 0
                 /\ metrics'[l].errors = metrics[l].errors + IF Hit(l) THEN Errors(o) ELSE 0
           /\ Errors(o) \in {0, 1}
<1> DEFINE R == [calls : Nat, errors : Nat]
           t == Top.layer
           new == [calls |-> metrics[t].calls + 1, errors |-> metrics[t].errors + Errors(o)]
<1>0. /\ metrics \in Seq(R) /\ DOMAIN metrics = 1 .. Len(layers) /\ Len(metrics) = Len(layers)
      /\ \A l \in DOMAIN metrics : metrics[l] \in R
      /\ Len(layers) \in Nat
  <2>1. metrics \in Seq(R) /\ Len(metrics) = Len(layers)
    BY InvParts DEF LayersOK
  <2>2. DOMAIN metrics = 1 .. Len(layers) /\ Len(layers) \in Nat
    BY TopFacts
  <2> HIDE DEF R
  <2>3. \A l \in DOMAIN metrics : metrics[l] \in R
    BY <2>1, <2>2, LenProperties
  <2> QED
    BY <2>1, <2>2, <2>3
<1>1. Errors(o) \in {0, 1}
  BY DEF Errors
<1>2. t \in 0 .. Len(layers)
  <2>1. FrameOK(Len(stack)) /\ Top = stack[Len(stack)]
    BY TopFacts
  <2> QED
    BY <2>1 DEF FrameOK
<1>3. CASE Kind(Top) = "prometheus_metrics"
  <2>1. t \in 1 .. Len(layers) /\ Hit(t) /\ \A l \in DOMAIN metrics : Hit(l) <=> l = t
    BY <1>2, <1>3, <1>0 DEF Kind, Hit
  <2>2. metrics' = [metrics EXCEPT ![t] = new]
    BY <1>3 DEF Leave, Recorded, Errors
  <2>3. metrics[t] \in R /\ new \in R
    BY <1>0, <1>1, <2>1
  <2>4. new.calls = metrics[t].calls + 1 /\ new.errors = metrics[t].errors + Errors(o)
    OBVIOUS
  <2> HIDE DEF new, R, t
  <2>5. /\ metrics' \in Seq(R) /\ Len(metrics') = Len(metrics) /\ DOMAIN metrics' = DOMAIN metrics
        /\ \A l \in DOMAIN metrics : metrics'[l] = IF l = t THEN new ELSE metrics[l]
    BY <1>0, <2>1, <2>2, <2>3, ExceptSeq, LenProperties
  <2>6. ASSUME NEW l \in DOMAIN metrics
        PROVE  /\ metrics[l] \in R /\ metrics'[l] \in R
               /\ metrics'[l].calls = metrics[l].calls + IF Hit(l) THEN 1 ELSE 0
               /\ metrics'[l].errors = metrics[l].errors + IF Hit(l) THEN Errors(o) ELSE 0
    <3>1. CASE l = t
      BY <3>1, <1>0, <2>1, <2>3, <2>4, <2>5
    <3>2. CASE l # t
      <4>1. metrics'[l] = metrics[l] /\ metrics[l] \in R /\ ~ Hit(l)
        BY <3>2, <1>0, <2>1, <2>5
      <4>2. metrics[l].calls \in Nat /\ metrics[l].errors \in Nat
        BY <4>1 DEF R
      <4> QED
        BY <4>1, <4>2
    <3> QED
      BY <3>1, <3>2
  <2> QED
    BY <1>1, <2>5, <2>6 DEF R
<1>4. CASE Kind(Top) # "prometheus_metrics"
  <2>1. metrics' = metrics
    BY <1>4 DEF Leave
  <2>2. \A l \in DOMAIN metrics : ~ Hit(l)
    BY <1>0, <1>2, <1>4 DEF Kind, Hit
  <2> QED
    BY <1>0, <1>1, <2>1, <2>2
<1> QED
  BY <1>3, <1>4

LEMMA LeaveStack ==
    ASSUME Inv, stack # << >>, NEW o, Ends(o), Leave(o), UNCHANGED <<phase, layers>>
    PROVE  StackOK' /\ outcome' # None
<1> PICK n : n = Len(stack)
  OBVIOUS
<1> PICK N : N = Len(layers)
  OBVIOUS
<1>1. /\ N \in Nat /\ n \in Nat /\ n > 0 /\ phase = "calling"
      /\ \A i \in 1 .. n : FrameOK(i)
  BY TopFacts
<1>2. /\ IsSeq(stack') /\ Len(stack') = n - 1 /\ DOMAIN stack' = 1 .. n - 1
      /\ \A i \in 1 .. n - 1 : stack'[i] = stack[i]
      /\ stack' = << >> <=> n = 1
      /\ n > 1 => Top' = stack[n - 1]
  BY NextTop DEF Leave
<1>3. outcome' # None
  BY NoneAssumption DEF Leave, Ends
<1>4. ASSUME NEW i \in 1 .. n - 1 PROVE FrameOK(i)' /\ stack[i].at # "called"
  <2>1. FrameOK(i) /\ i < n
    BY <1>1
  <2>2. stack'[i] = stack[i] /\ (i < n - 1 => stack'[i + 1] = stack[i + 1]) /\ (i > 1 => stack'[i - 1] = stack[i - 1])
    BY <1>1, <1>2
  <2> QED
    BY <1>1, <1>2, <2>1, <2>2 DEF FrameOK
<1>5. n > 1 => Top'.at # "called"
  BY <1>1, <1>2, <1>4
<1> QED
  BY <1>1, <1>2, <1>3, <1>4, <1>5 DEF StackOK


\* Which waiting metrics layers have a call below them that is over, before and after.
LEMMA FlightEnds ==
    ASSUME Inv, stack # << >>, NEW o, Ends(o), Leave(o), UNCHANGED <<phase, layers>>,
           NEW a \in DOMAIN layers, NEW b \in DOMAIN layers, OuterAndInner(a, b, Wrapping)
    PROVE  /\ InFlight(b, a)' <=> \/ b <= Top.layer /\ Top.layer < a
           /\ InFlight(b, a) <=> outcome # None /\ b < Top.layer /\ Top.layer <= a
           /\ Hit(a) <=> Top.layer = a
           /\ Hit(b) <=> Top.layer = b
           /\ a \in Nat /\ b \in Nat /\ b > 0 /\ b < a /\ Top.layer \in Nat
           /\ b < Top.layer /\ Top.layer <= a /\ outcome # None /\ outcome.how = "raised" => o.how = "raised"
           /\ Top.layer \in {a, b} => outcome # None /\ o = outcome
<1> PICK n : n = Len(stack)
  OBVIOUS
<1> PICK N : N = Len(layers)
  OBVIOUS
<1> PICK t : t = Top.layer
  OBVIOUS
<1>1. /\ N \in Nat /\ n \in Nat /\ n > 0 /\ DOMAIN layers = 1 .. N
      /\ Top = stack[n] /\ FrameOK(n)
  BY TopFacts
<1>2. t \in 0 .. N /\ (t = 0 => n > 1)
  BY <1>1 DEF FrameOK
<1>3. /\ b < a /\ a \in 1 .. N /\ b \in 1 .. N
      /\ layers[a] = "prometheus_metrics" /\ layers[b] = "prometheus_metrics"
      /\ \A k \in b + 1 .. a - 1 : layers[k] \in Wrapping
  BY <1>1 DEF OuterAndInner
<1>4. /\ stack' = << >> <=> n = 1
      /\ n = 1 => t = N
      /\ n > 1 => /\ t = 0 => layers[Top'.layer] = "chain"
                  /\ t # 0 => Top'.layer = t + 1
                  /\ Top'.layer = N + 2 - n
  BY NextTop DEF Leave
<1>5. outcome' # None
  BY LeaveStack
<1>6. \A k \in b + 1 .. a : layers[k] # "chain"
  <2>1. \A k \in b + 1 .. a : k \in b + 1 .. a - 1 \/ k = a
    BY <1>1, <1>3
  <2> QED
    BY <2>1, <1>3 DEF Wrapping
<1>7. InFlight(b, a)' <=> b <= t /\ t < a
  <2>1. CASE n = 1
    BY <2>1, <1>1, <1>3, <1>4 DEF InFlight
  <2>2. CASE n # 1 /\ t = 0
    <3>1. layers[Top'.layer] = "chain" /\ Top'.layer = N + 2 - n
      BY <2>2, <1>1, <1>4
    <3>2. ~ (b < Top'.layer /\ Top'.layer <= a)
      BY <3>1, <1>1, <1>3, <1>6
    <3> QED
      BY <2>2, <3>2, <1>3, <1>1 DEF InFlight
  <2>3. CASE n # 1 /\ t # 0
    <3>1. Top'.layer = t + 1 /\ stack' # << >>
      BY <2>3, <1>1, <1>4
    <3>2. InFlight(b, a)' <=> b < t + 1 /\ t + 1 <= a
      BY <3>1, <1>5 DEF InFlight
    <3> QED
      BY <3>2, <1>1, <1>2, <1>3
  <2> QED
    BY <2>1, <2>2, <2>3
<1>8. /\ InFlight(b, a) <=> outcome # None /\ b < t /\ t <= a
      /\ Hit(a) <=> t = a
      /\ Hit(b) <=> t = b
  BY <1>3 DEF InFlight, Hit
<1>9. b < t /\ t <= a => Kind(Top) \in Wrapping
  <2>1. b < t /\ t <= a => t # 0 /\ (t \in b + 1 .. a - 1 \/ t = a)
    BY <1>1, <1>2, <1>3
  <2> QED
    BY <2>1, <1>3 DEF Kind, Wrapping
<1>10. t \in {a, b} => Kind(Top) = "prometheus_metrics"
  BY <1>1, <1>3 DEF Kind
<1> QED
  BY <1>2, <1>3, <1>7, <1>8, <1>9, <1>10 DEF Ends

LEMMA LeaveMetricsOK ==
    ASSUME Inv, stack # << >>, NEW o, Ends(o), Leave(o), UNCHANGED <<phase, layers, ended>>
    PROVE  MetricsOK'
<1> PICK n : n = Len(stack)
  OBVIOUS
<1> PICK N : N = Len(layers)
  OBVIOUS
<1> DEFINE R == [calls : Nat, errors : Nat]
<1>1. /\ N \in Nat /\ N > 0 /\ n \in Nat /\ n > 0 /\ DOMAIN layers = 1 .. N
      /\ phase = "calling" /\ Top = stack[n] /\ FrameOK(n)
      /\ DOMAIN metrics = 1 .. N
  BY TopFacts
<1>2. /\ metrics' \in Seq(R) /\ Len(metrics') = Len(metrics) /\ DOMAIN metrics' = DOMAIN metrics
      /\ \A l \in 1 .. N :
            /\ metrics[l] \in R /\ metrics'[l] \in R
            /\ metrics'[l].calls = metrics[l].calls + IF Hit(l) THEN 1 ELSE 0
            /\ metrics'[l].errors = metrics[l].errors + IF Hit(l) THEN Errors(o) ELSE 0
      /\ Errors(o) \in {0, 1}
  BY <1>1, LeaveMetrics
<1>3. outcome' = o /\ outcome' # None /\ Errors(outcome) \in {0, 1}
  BY LeaveStack DEF Leave, Errors
<1>4. MetricsOK
  BY InvParts
<1>5. \A l \in 1 .. N : metrics'[l].errors <= metrics'[l].calls
  <2> TAKE l \in 1 .. N
  <2>1. /\ metrics[l].errors <= metrics[l].calls /\ metrics[l].errors \in Nat /\ metrics[l].calls \in Nat
        /\ Errors(o) \in {0, 1}
    BY <1>1, <1>2, <1>4 DEF MetricsOK
  <2>2. CASE Hit(l)
    <3>1. /\ metrics'[l].calls = metrics[l].calls + 1
          /\ metrics'[l].errors = metrics[l].errors + Errors(o)
      BY <2>2, <1>2
    <3> QED
      BY <2>1, <3>1
  <2>3. CASE ~ Hit(l)
    BY <2>1, <2>3, <1>2
  <2> QED
    BY <2>2, <2>3
<1>6. ASSUME NEW a \in 1 .. N, NEW b \in 1 .. N, OuterAndInner(a, b, Wrapping)
      PROVE  /\ metrics'[b].calls <= metrics'[a].calls + IF InFlight(b, a)' THEN 1 ELSE 0
             /\ metrics'[b].errors <= metrics'[a].errors + IF InFlight(b, a)' THEN Errors(o) ELSE 0
             /\ OuterAndInner(a, b, {"prometheus_metrics"}) =>
                 /\ metrics'[b].calls = metrics'[a].calls + IF InFlight(b, a)' THEN 1 ELSE 0
                 /\ metrics'[b].errors = metrics'[a].errors + IF InFlight(b, a)' THEN Errors(o) ELSE 0
  <2> DEFINE ca == metrics[a].calls
             cb == metrics[b].calls
             ea == metrics[a].errors
             eb == metrics[b].errors
             t == Top.layer
             direct == OuterAndInner(a, b, {"prometheus_metrics"})
  <2>1. /\ InFlight(b, a)' <=> b <= t /\ t < a
        /\ InFlight(b, a) <=> outcome # None /\ b < t /\ t <= a
        /\ Hit(a) <=> t = a
        /\ Hit(b) <=> t = b
        /\ a \in Nat /\ b \in Nat /\ b > 0 /\ b < a /\ t \in Nat
        /\ b < t /\ t <= a /\ outcome # None /\ outcome.how = "raised" => o.how = "raised"
        /\ t \in {a, b} => outcome # None /\ o = outcome
    BY <1>1, <1>6, FlightEnds
  <2>2. /\ cb <= ca + IF InFlight(b, a) THEN 1 ELSE 0
        /\ eb <= ea + IF InFlight(b, a) THEN Errors(outcome) ELSE 0
        /\ direct => /\ cb = ca + IF InFlight(b, a) THEN 1 ELSE 0
                     /\ eb = ea + IF InFlight(b, a) THEN Errors(outcome) ELSE 0
    BY <1>1, <1>4, <1>6 DEF MetricsOK
  <2>3. /\ {ca, cb, ea, eb} \subseteq Nat
        /\ metrics'[a].calls = ca + IF t = a THEN 1 ELSE 0
        /\ metrics'[a].errors = ea + IF t = a THEN Errors(o) ELSE 0
        /\ metrics'[b].calls = cb + IF t = b THEN 1 ELSE 0
        /\ metrics'[b].errors = eb + IF t = b THEN Errors(o) ELSE 0
    BY <1>2, <2>1
  <2>4. direct /\ b < t /\ t <= a => outcome # None /\ o = outcome
    <3>1. ASSUME direct, b < t, t <= a PROVE Kind(Top) = "prometheus_metrics"
      <4>1. t \in b + 1 .. a - 1 \/ t = a
        BY <2>1, <3>1
      <4>2. layers[t] = "prometheus_metrics" /\ t # 0
        BY <4>1, <3>1, <2>1 DEF OuterAndInner
      <4> QED
        BY <4>2 DEF Kind
    <3> QED
      BY <3>1 DEF Ends
  <2>5. b < t /\ t <= a /\ outcome # None => Errors(outcome) <= Errors(o)
    BY <2>1 DEF Errors
  <2> DEFINE E == Errors(o)
             F == Errors(outcome)
             Ca == metrics'[a].calls
             Cb == metrics'[b].calls
             Ea == metrics'[a].errors
             Eb == metrics'[b].errors
             In == InFlight(b, a)
             Out == InFlight(b, a)'
             quiet == outcome = None
             same == o = outcome
             up == IF Out THEN 1 ELSE 0
  <2>6. /\ E \in {0, 1} /\ F \in {0, 1}
        /\ same => E = F
        /\ a \in Nat /\ b \in Nat /\ b < a /\ t \in Nat
        /\ {ca, cb, ea, eb} \subseteq Nat
        /\ Out <=> b <= t /\ t < a
        /\ In <=> ~ quiet /\ b < t /\ t <= a
        /\ Ca = ca + IF t = a THEN 1 ELSE 0
        /\ Ea = ea + IF t = a THEN E ELSE 0
        /\ Cb = cb + IF t = b THEN 1 ELSE 0
        /\ Eb = eb + IF t = b THEN E ELSE 0
        /\ cb <= ca + IF In THEN 1 ELSE 0
        /\ eb <= ea + IF In THEN F ELSE 0
        /\ direct => cb = ca + IF In THEN 1 ELSE 0
        /\ direct => eb = ea + IF In THEN F ELSE 0
        /\ t \in {a, b} => ~ quiet /\ same
        /\ b < t /\ t <= a /\ ~ quiet => F <= E
        /\ direct /\ b < t /\ t <= a => ~ quiet /\ same
    BY <1>2, <1>3, <2>1, <2>2, <2>3, <2>4, <2>5
  <2> HIDE DEF E, F, Ca, Cb, Ea, Eb, In, Out, quiet, same, ca, cb, ea, eb, t, direct
  <2>7. /\ Cb <= Ca + IF Out THEN 1 ELSE 0
        /\ Eb <= Ea + IF Out THEN E ELSE 0
        /\ direct => Cb = Ca + IF Out THEN 1 ELSE 0
        /\ direct => Eb = Ea + IF Out THEN E ELSE 0
    <3>0. /\ ca \in Nat /\ cb \in Nat /\ ea \in Nat /\ eb \in Nat
          /\ E \in {0, 1} /\ F \in {0, 1}
      BY <2>6
    <3>1. CASE t = a
      <4>1. ~ Out /\ In /\ E = F /\ t # b
        BY <3>1, <2>6
      <4>2. Ca = ca + 1 /\ Ea = ea + E /\ Cb = cb /\ Eb = eb
        BY <3>1, <4>1, <2>6
      <4>3. cb <= ca + 1 /\ eb <= ea + E /\ (direct => cb = ca + 1 /\ eb = ea + E)
        BY <4>1, <2>6
      <4> QED
        BY <4>1, <4>2, <4>3, <3>0, <2>6
    <3>2. CASE t = b
      <4>1. Out /\ ~ In /\ t # a
        BY <3>2, <2>6
      <4>2. Ca = ca /\ Ea = ea /\ Cb = cb + 1 /\ Eb = eb + E
        BY <3>2, <4>1, <2>6
      <4>3. cb <= ca /\ eb <= ea /\ (direct => cb = ca /\ eb = ea)
        BY <4>1, <2>6
      <4>4. Cb <= Ca + 1 /\ Eb <= Ea + E /\ (direct => Cb = Ca + 1 /\ Eb = Ea + E)
        BY <4>2, <4>3, <3>0
      <4> QED
        BY <4>1, <4>4
    <3>3. CASE b < t /\ t < a
      <4>1. Out /\ t # a /\ t # b
        BY <3>3, <2>6
      <4>2. Ca = ca /\ Ea = ea /\ Cb = cb /\ Eb = eb
        BY <4>1, <2>6
      <4>3. CASE quiet
        <5>1. cb <= ca /\ eb <= ea /\ ~ direct
          BY <4>3, <3>3, <2>6
        <5> QED
          BY <4>1, <4>2, <5>1, <3>0, <2>6
      <4>4. CASE ~ quiet
        <5>1. In /\ F <= E /\ (direct => E = F)
          BY <4>4, <3>3, <2>6
        <5>2. cb <= ca + 1 /\ eb <= ea + F /\ (direct => cb = ca + 1 /\ eb = ea + F)
          BY <5>1, <2>6
        <5> QED
          BY <4>1, <4>2, <5>1, <5>2, <3>0, <2>6
      <4> QED
        BY <4>3, <4>4
    <3>4. CASE t < b \/ a < t
      BY <3>4, <2>6
    <3> QED
      BY <2>6, <3>1, <3>2, <3>3, <3>4
  <2> QED
    BY <2>7 DEF E, Ca, Cb, Ea, Eb, Out, direct
<1>7. \A a, b, kinds : OuterAndInner(a, b, kinds)' <=> OuterAndInner(a, b, kinds)
  BY DEF OuterAndInner
<1>8. \A a, b : OuterAndInner(a, b, {"prometheus_metrics"}) => OuterAndInner(a, b, Wrapping)
  BY DEF OuterAndInner, Wrapping
<1>9. ASSUME Last(layers') = "prometheus_metrics"
      PROVE  Last(metrics') = IF Pending' THEN [calls  |-> Delivered + 1,
                                                errors |-> ended["raised"] + Errors(o)]
                              ELSE [calls |-> Delivered, errors |-> ended["raised"]]
  <2>1. /\ layers[N] = "prometheus_metrics" /\ N \in 1 .. N
        /\ Last(metrics) = metrics[N] /\ Last(metrics') = metrics'[N]
    BY <1>1, <1>2, <1>9, InvParts DEF Last, LayersOK
  <2>2. metrics[N] = [calls |-> Delivered, errors |-> ended["raised"]]
    BY <1>1, <1>4, <2>1 DEF MetricsOK, Pending, Last
  <2>3. /\ Delivered \in Nat /\ ended["raised"] \in Nat
    BY InvParts DEF LayersOK, Delivered
  <2>4. Hit(N) <=> Top.layer = N
    BY <2>1 DEF Hit
  <2>5. Top.layer = N <=> n = 1
    BY <1>1 DEF FrameOK
  <2>6. Pending' <=> n = 1
    BY <1>3, NextTop DEF Pending, Leave
  <2>7. metrics[N].calls = Delivered /\ metrics[N].errors = ended["raised"]
    BY <2>2
  <2>8. /\ metrics'[N] \in R
        /\ metrics'[N].calls = Delivered + IF n = 1 THEN 1 ELSE 0
        /\ metrics'[N].errors = ended["raised"] + IF n = 1 THEN Errors(o) ELSE 0
    BY <1>2, <2>1, <2>4, <2>5, <2>7
  <2>9. metrics'[N] = [calls |-> metrics'[N].calls, errors |-> metrics'[N].errors]
    BY <2>8
  <2>10. CASE n = 1
    <3>1. metrics'[N].calls = Delivered + 1 /\ metrics'[N].errors = ended["raised"] + Errors(o)
      BY <2>8, <2>10
    <3> QED
      BY <3>1, <2>1, <2>6, <2>9, <2>10
  <2>11. CASE n # 1
    <3>1. metrics'[N].calls = Delivered /\ metrics'[N].errors = ended["raised"]
      BY <2>3, <2>8, <2>11
    <3> QED
      BY <3>1, <2>1, <2>6, <2>9, <2>11
  <2> QED
    BY <2>10, <2>11
<1>10. Delivered' = Delivered /\ UNCHANGED <<phase, layers, ended>> /\ outcome' = o
  BY <1>3 DEF Delivered
<1>11. \A l \in DOMAIN metrics' : metrics'[l].errors <= metrics'[l].calls
  BY <1>1, <1>2, <1>5
<1>12. \A b, a \in DOMAIN layers :
         /\ OuterAndInner(a, b, Wrapping) =>
              /\ metrics'[b].calls <= metrics'[a].calls + IF InFlight(b, a)' THEN 1 ELSE 0
              /\ metrics'[b].errors <= metrics'[a].errors + IF InFlight(b, a)' THEN Errors(o) ELSE 0
         /\ OuterAndInner(a, b, {"prometheus_metrics"}) =>
              /\ metrics'[b].calls = metrics'[a].calls + IF InFlight(b, a)' THEN 1 ELSE 0
              /\ metrics'[b].errors = metrics'[a].errors + IF InFlight(b, a)' THEN Errors(o) ELSE 0
  BY <1>1, <1>6, <1>8
<1> QED
  BY <1>7, <1>9, <1>10, <1>11, <1>12 DEF MetricsOK

LEMMA LeaveWidths ==
    ASSUME Inv, stack # << >>, NEW o, Ends(o), Leave(o), StoreKept, UNCHANGED <<phase, layers>>
    PROVE  WidthsOK'
<1> PICK n : n = Len(stack)
  OBVIOUS
<1> PICK N : N = Len(layers)
  OBVIOUS
<1>1. /\ N \in Nat /\ n \in Nat /\ n > 0 /\ DOMAIN stack = 1 .. n /\ FrameOK(n)
  BY TopFacts
<1>2. /\ DOMAIN stack' = 1 .. n - 1
      /\ \A i \in 1 .. n - 1 : stack'[i] = stack[i]
      /\ stack' = << >> <=> n = 1
      /\ n = 1 => Top.layer = N
      /\ n > 1 => /\ Top'.layer = N + 2 - n
                  /\ Top.layer = 0 => Top'.at = "next" /\ layers[Top'.layer] = "chain"
                  /\ Top.layer # 0 => Top'.at = "waiting" /\ Top'.layer = Top.layer + 1
  BY NextTop DEF Leave
<1>3. \A k : Sealed(k)' <=> Sealed(k)
  BY DEF Sealed
<1>4. (\A l \in DOMAIN store : Sealed(l) => \A key \in DOMAIN store[l] : Fits(store[l][key]))'
  BY <1>3 DEF StoreKept, Fits
<1>5. (\A i \in DOMAIN stack : Sealed(stack[i].layer - 1) => Fits(stack[i].got))'
  <2>1. \A i \in 1 .. n - 1 : i \in 1 .. n
    BY <1>1
  <2> QED
    BY <1>1, <1>2, <1>3, <2>1, InvParts DEF WidthsOK, Fits
<1>6. Top.layer \in 0 .. N
  BY <1>1, TopFacts DEF FrameOK
<1>7. ASSUME o.how = "returned"
      PROVE  /\ stack' = << >> /\ Sealed(N) => Fits(o.answer)
             /\ stack' # << >> /\ Top'.at = "next" => Fits(o.answer)
             /\ stack' # << >> /\ Top'.at = "waiting" /\ Sealed(Top'.layer - 1) => Fits(o.answer)
  <2>1. Top.layer = 0 \/ Sealed(Top.layer) => Fits(o.answer)
    BY <1>7 DEF Ends
  <2>2. stack' # << >> => n > 1
    BY <1>1, <1>2
  <2>3. ASSUME stack' # << >>, Top.layer # 0
        PROVE  Top'.at = "waiting" /\ Top'.layer - 1 = Top.layer
    BY <2>2, <2>3, <1>2, <1>6
  <2>4. stack' # << >> /\ Top'.at = "next" => Top.layer = 0
    BY <2>3
  <2>5. stack' # << >> /\ Top.layer = 0 => Top'.at = "next"
    BY <1>2, <2>2
  <2> QED
    BY <1>2, <2>1, <2>3, <2>4, <2>5
<1>8. outcome' = o
  BY DEF Leave
<1> QED
  BY <1>3, <1>4, <1>5, <1>7, <1>8 DEF WidthsOK, Fits

LEMMA LeaveInv ==
    ASSUME Inv, stack # << >>, NEW o, Ends(o), Leave(o), StoreKept,
           UNCHANGED <<phase, layers, sigs, given, ended>>
    PROVE  Inv'
<1> PICK n : n = Len(stack)
  OBVIOUS
<1>1. /\ n \in Nat /\ n > 0 /\ phase = "calling" /\ DOMAIN stack = 1 .. n
      /\ DOMAIN stack' = 1 .. n - 1
      /\ \A i \in 1 .. n - 1 : stack'[i] = stack[i]
  BY TopFacts, NextTop DEF Leave
<1>2. LayersOK'
  <2>1. LayersOK /\ DOMAIN store = 1 .. Len(layers) /\ Len(layers) \in Nat
    BY TopFacts, InvParts
  <2>2. /\ metrics' \in Seq([calls : Nat, errors : Nat]) /\ Len(metrics') = Len(metrics)
    BY LeaveMetrics
  <2>3. outcome' \in Outcomes
    BY DEF Leave, Ends
  <2>4. IsSeq(store') /\ Len(store') = Len(layers)
    <3>1. IsSeq(store') /\ 1 .. Len(store') = 1 .. Len(layers) /\ Len(store') \in Nat
      BY <2>1, SeqFacts DEF StoreKept
    <3> QED
      BY <3>1, <2>1
  <2>5. \A l \in DOMAIN store' : \A key \in DOMAIN store'[l] : store'[l][key] \in Answers
    BY DEF StoreKept
  <2> QED
    BY <2>1, <2>2, <2>3, <2>4, <2>5 DEF LayersOK
<1>3. QuietBefore' /\ SigsOK'
  BY <1>1, InvParts, SigsKept DEF QuietBefore
<1>4. ArgumentsArrive'
  <2>1. \A i \in 1 .. n - 1 : i \in 1 .. n
    BY <1>1
  <2>2. \A i \in 1 .. n : stack[i].layer # 0 => Arrived(stack[i].layer, stack[i].args)
    BY <1>1, InvParts DEF ArgumentsArrive
  <2>3. \A l, args : Arrived(l, args)' <=> Arrived(l, args)
    BY DEF Arrived
  <2> QED
    BY <1>1, <2>1, <2>2, <2>3 DEF ArgumentsArrive, Arrived
<1> QED
  BY <1>2, <1>3, <1>4, LeaveStack, LeaveMetricsOK, LeaveWidths DEF Inv

--------------------------------------------------------------------------------
(* The outermost call begins, and its outcome is delivered.                     *)

LEMMA ArgumentsOK ==
    ASSUME NEW l, NEW request, NEW direct \in BOOLEAN
    PROVE  Arrived(l, Arguments(l, request, direct))
<1> DEFINE args == Arguments(l, request, direct)
           extras == Extras(sigs[l], direct)
<1>1. DOMAIN args = Named(sigs[l]) \cup extras
  BY DEF Arguments
<1>2. /\ extras \subseteq {"another"} \cup Names(sigs[l])
      /\ extras \ Named(sigs[l]) # {} => HasVar(sigs[l])
  <2>1. \A n \in Names(sigs[l]) \ Named(sigs[l]) : HasVar(sigs[l])
    BY DEF Names, Named, HasVar
  <2> QED
    BY <2>1 DEF Extras
<1> HIDE DEF args, extras
<1> QED
  BY <1>1, <1>2 DEF Arrived, args

LEMMA CallBegins ==
    ASSUME Inv, NEW args, Arrived(Len(layers), args), Call(args)
    PROVE  Inv'
<1> PICK N : N = Len(layers)
  OBVIOUS
<1> DEFINE f == Frame(N, args)
<1>1. /\ phase \in {"binding", "calling"} /\ stack = << >> /\ outcome = None
      /\ phase' = "calling" /\ stack' = <<f>>
      /\ UNCHANGED <<layers, sigs, outcome, store, made, metrics, ended>>
  BY DEF Call, Data
<1>2. /\ LayersOK /\ QuietBefore /\ SigsOK /\ MetricsOK /\ WidthsOK
  BY InvParts
<1>3. N \in Nat /\ N > 0 /\ DOMAIN layers = 1 .. N
  BY <1>2, EmptySeq, LenProperties DEF LayersOK
<1>4. /\ f.layer = N /\ f.args = args /\ f.at = "called" /\ f.got = {}
      /\ DOMAIN f = {"layer", "args", "at", "todo", "got"} /\ {} \in Answers
  BY DEF Frame, Answers
<1> HIDE DEF f
<1>5. IsSeq(stack') /\ stack' # << >> /\ DOMAIN stack' = {1} /\ Len(stack') = 1 /\ stack'[1] = f
      /\ Top' = f
  <2>1. stack' = Append(<< >>, f) /\ IsSeq(<< >>) /\ Len(<< >>) = 0
    BY <1>1, EmptyIsSeq
  <2>2. /\ IsSeq(stack') /\ stack' # << >> /\ Len(stack') = 0 + 1 /\ DOMAIN stack' = 1 .. 0 + 1
        /\ stack'[0 + 1] = f /\ Last(stack') = f
    BY <2>1, Appended
  <2> QED
    BY <2>2 DEF Top
<1>6. LayersOK'
  BY <1>1, <1>2 DEF LayersOK
<1>7. QuietBefore'
  BY <1>1 DEF QuietBefore
<1>8. SigsOK'
  <2>1. \A m, l : Through(m, l)' <=> Through(m, l)
    BY <1>1 DEF Through
  <2>2. \A n, l : HasSource(n, l)' <=> HasSource(n, l)
    BY <1>1, <2>1 DEF HasSource
  <2>3. \A l : Composes(l)' <=> Composes(l)
    BY <1>1 DEF Composes
  <2>4. \A l : Blocked(l)' <=> Blocked(l)
    BY <1>1 DEF Blocked, Unreadable
  <2> QED
    BY <1>1, <1>2, <2>1, <2>2, <2>3, <2>4 DEF SigsOK
<1>9. StackOK'
  <2>1. f.layer \in {0, N + 1 - 1} /\ f.layer \in 0 .. N /\ f.layer # 0
    BY <1>3, <1>4
  <2>2. FrameOK(1)'
    BY <1>1, <1>4, <1>5, <2>1 DEF FrameOK
  <2> QED
    BY <1>1, <1>4, <1>5, <2>2 DEF StackOK
<1>10. ArgumentsArrive'
  <2>1. Arrived(N, args)'
    BY <1>1 DEF Arrived
  <2> QED
    BY <2>1, <1>4, <1>5 DEF ArgumentsArrive, Arrived
<1>11. MetricsOK'
  <2>1. ~ Pending' /\ ~ Pending /\ \A m, n : ~ InFlight(m, n) /\ ~ InFlight(m, n)'
    BY <1>1 DEF Pending, InFlight
  <2>2. \A a, b, kinds : OuterAndInner(a, b, kinds)' <=> OuterAndInner(a, b, kinds)
    BY <1>1 DEF OuterAndInner
  <2>3. Delivered' = Delivered
    BY <1>1 DEF Delivered
  <2>4. Last(layers) = "prometheus_metrics" => Last(metrics) = [calls |-> Delivered, errors |-> ended["raised"]]
    <3>1. CASE phase = "calling"
      BY <3>1, <1>2, <2>1 DEF MetricsOK
    <3>2. CASE phase = "binding"
      <4>1. /\ metrics \in Seq([calls : Nat, errors : Nat]) /\ Len(metrics) = N
            /\ \A l \in DOMAIN metrics : metrics[l] = [calls |-> 0, errors |-> 0]
            /\ ended["returned"] = 0 /\ ended["raised"] = 0 /\ ended["cancelled"] = 0
        BY <3>2, <1>2 DEF LayersOK, QuietBefore
      <4>2. N \in DOMAIN metrics /\ Last(metrics) = metrics[N]
        BY <4>1, <1>3, LenProperties DEF Last
      <4>3. Delivered = 0
        BY <4>1 DEF Delivered
      <4> QED
        BY <4>1, <4>2, <4>3
    <3> QED
      BY <1>1, <3>1, <3>2
  <2> QED
    BY <1>1, <1>2, <2>1, <2>2, <2>3, <2>4 DEF MetricsOK
<1>12. WidthsOK'
  <2>1. \A k : Sealed(k)' <=> Sealed(k)
    BY <1>1 DEF Sealed
  <2> QED
    BY <1>1, <1>2, <1>4, <1>5, <2>1 DEF WidthsOK, Fits
<1> QED
  BY <1>6, <1>7, <1>8, <1>9, <1>10, <1>11, <1>12 DEF Inv

LEMMA Delivers ==
    ASSUME Inv, Deliver
    PROVE  Inv'
<1>1. /\ stack = << >> /\ outcome # None /\ outcome' = None
      /\ ended' = [ended EXCEPT ![outcome.how] = @ + 1]
      /\ UNCHANGED <<phase, layers, sigs, stack, store, made, metrics>>
  BY DEF Deliver, Data
<1>2. LayersOK /\ QuietBefore /\ SigsOK /\ MetricsOK /\ WidthsOK /\ StackOK
  BY InvParts
<1>3. /\ outcome \in Outcomes /\ outcome.how \in {"returned", "raised", "cancelled"}
      /\ ended \in [{"returned", "raised", "cancelled"} -> Nat]
      /\ phase = "calling"
  BY <1>1, <1>2, OutcomeFacts DEF LayersOK, QuietBefore
<1>4. ended' \in [{"returned", "raised", "cancelled"} -> Nat]
  BY <1>1, <1>3
<1>5. Delivered' = Delivered + 1 /\ ended["raised"]' = ended["raised"] + Errors(outcome)
  BY <1>1, <1>3 DEF Delivered, Errors
<1>6. LayersOK'
  BY <1>1, <1>2, <1>4 DEF LayersOK
<1>7. QuietBefore' /\ SigsOK'
  BY <1>1, <1>2, <1>3, SigsKept DEF QuietBefore
<1>8. StackOK' /\ ArgumentsArrive'
  BY <1>1, EmptyIsSeq DEF StackOK, ArgumentsArrive
<1>9. MetricsOK'
  <2>1. ~ Pending' /\ Pending /\ \A m, n : ~ InFlight(m, n) /\ ~ InFlight(m, n)'
    BY <1>1 DEF Pending, InFlight
  <2>2. \A a, b, kinds : OuterAndInner(a, b, kinds)' <=> OuterAndInner(a, b, kinds)
    BY <1>1 DEF OuterAndInner
  <2> QED
    BY <1>1, <1>2, <1>3, <1>5, <2>1, <2>2 DEF MetricsOK
<1>10. WidthsOK'
  <2>1. \A k : Sealed(k)' <=> Sealed(k)
    BY <1>1 DEF Sealed
  <2> QED
    BY <1>1, <1>2, <2>1, EmptyIsSeq DEF WidthsOK
<1> QED
  BY <1>6, <1>7, <1>8, <1>9, <1>10 DEF Inv

--------------------------------------------------------------------------------
(* The steps in a call.                                                         *)

\* Layer 1 is the tool, and what is over it are extensions.
LEMMA KnownLayer ==
    ASSUME LayersOK, NEW l \in DOMAIN sigs
    PROVE  l \in DOMAIN layers /\ (l > 1 => layers[l] \in Extensions) /\ (l = 1 => layers[l] = "tool")
<1> PICK N : N = Len(layers)
  OBVIOUS
<1> PICK n : n = Len(sigs)
  OBVIOUS
<1>1. /\ layers \in Seq({"tool"} \cup Extensions) /\ N \in Nat /\ DOMAIN layers = 1 .. N
      /\ DOMAIN sigs = 1 .. n /\ n = N - IF phase = "refused" THEN 1 ELSE 0
      /\ \A k \in DOMAIN layers : layers[k] = "tool" <=> k = 1
  BY SeqFacts, LenProperties DEF LayersOK
<1>2. l \in 1 .. N
  BY <1>1
<1> QED
  BY <1>1, <1>2

LEMMA KindFacts ==
    ASSUME Inv, stack # << >>
    PROVE  LET N == Len(layers)
               t == Top.layer
           IN /\ N \in Nat /\ t \in 0 .. N
              /\ t = 0 <=> Kind(Top) = "next"
              /\ t = 1 <=> Kind(Top) = "tool"
              /\ t > 1 <=> Kind(Top) \in Extensions
              /\ t # 0 => Kind(Top) = layers[t] /\ Arrived(t, Top.args)
              /\ DOMAIN Top = {"layer", "args", "at", "todo", "got"}
              /\ Top.got \in Answers /\ (Sealed(t - 1) => Fits(Top.got))
              /\ Top.at = "waiting" => t > 1
              /\ Top.at = "next" => Kind(Top) = "chain"
              /\ Top.at \in {"called", "waiting", "next"}
              /\ outcome = None <=> Top.at = "called"
<1> PICK N : N = Len(layers)
  OBVIOUS
<1> PICK n : n = Len(stack)
  OBVIOUS
<1>1. /\ N \in Nat /\ n > 0 /\ n \in Nat /\ DOMAIN layers = 1 .. N /\ DOMAIN stack = 1 .. n
      /\ Top = stack[n] /\ FrameOK(n)
      /\ outcome = None <=> Top.at = "called"
  BY TopFacts
<1>2. /\ layers \in Seq({"tool"} \cup Extensions)
      /\ \A l \in 1 .. N : layers[l] = "tool" <=> l = 1
  BY <1>1, InvParts DEF LayersOK
<1>3. \A l \in 1 .. N : layers[l] \in {"tool"} \cup Extensions
  BY <1>1, <1>2
<1>4. "next" \notin {"tool"} \cup Extensions /\ "tool" \notin Extensions
  BY DEF Extensions, Adding, Wrapping
<1> PICK t : t = Top.layer
  OBVIOUS
<1>5. /\ t \in 0 .. N /\ DOMAIN Top = {"layer", "args", "at", "todo", "got"}
      /\ Top.got \in Answers
      /\ Top.at = "waiting" => t > 1
      /\ Top.at = "next" => t # 0 /\ layers[t] = "chain"
      /\ Top.at \in {"called", "waiting", "next"}
  BY <1>1 DEF FrameOK
<1>6. /\ t = 0 => Kind(Top) = "next"
      /\ t # 0 => Kind(Top) = layers[t]
  BY DEF Kind
<1>7. t # 0 => t \in 1 .. N /\ (t = 1 \/ t > 1)
  BY <1>1, <1>5
<1>8. n \in 1 .. n
  BY <1>1
<1>9. t # 0 => Arrived(t, Top.args)
  BY <1>1, <1>8, InvParts DEF ArgumentsArrive
<1>10. Sealed(t - 1) => Fits(Top.got)
  BY <1>1, <1>8, InvParts DEF WidthsOK
<1>11. /\ t = 0 <=> Kind(Top) = "next"
       /\ t = 1 <=> Kind(Top) = "tool"
       /\ t > 1 <=> Kind(Top) \in Extensions
  BY <1>2, <1>3, <1>4, <1>5, <1>6, <1>7
<1> QED
  BY <1>1, <1>5, <1>6, <1>9, <1>10, <1>11

\* Only a schema and a chain begin to seal.
LEMMA SealedBelow ==
    ASSUME Inv, stack # << >>
    PROVE  /\ ~ Sealed(1) /\ ~ Sealed(0)
           /\ Top.layer > 1 /\ Kind(Top) \notin {"output_schema", "chain"} /\ Sealed(Top.layer)
                => Sealed(Top.layer - 1)
<1>1. layers[1] = "tool"
  BY TopFacts, InvParts DEF LayersOK
<1>2. ~ Sealed(1) /\ ~ Sealed(0)
  BY <1>1 DEF Sealed
<1> PICK t : t = Top.layer
  OBVIOUS
<1>3. t \in Nat /\ (t > 1 => Kind(Top) = layers[t])
  BY KindFacts
<1>4. t > 1 => \A k \in 1 .. t : k \in 1 .. t - 1 \/ k = t
  BY <1>3
<1> QED
  BY <1>2, <1>3, <1>4 DEF Sealed

\* A wrapper passes on what the layer below it takes.
LEMMA PassedArrives ==
    ASSUME Inv, stack # << >>, Kind(Top) \in Extensions \ {"batch"}
    PROVE  Arrived(Top.layer - 1, Passed(Top))
<1> PICK t : t = Top.layer
  OBVIOUS
<1> PICK args : args = Top.args
  OBVIOUS
<1> DEFINE taken == Taken(layers[t])
<1>1. /\ t \in Nat /\ t > 1 /\ t \in 1 .. Len(layers) /\ Kind(Top) = layers[t] /\ Arrived(t, args)
      /\ DOMAIN sigs = 1 .. Len(layers) /\ Len(layers) \in Nat
  BY KindFacts, TopFacts
<1>2. t - 1 \in DOMAIN sigs /\ t \in DOMAIN sigs
  BY <1>1
<1>3. /\ sigs[t] \in Seq(Parameters) /\ sigs[t - 1] \in Seq(Parameters)
      /\ Range(sigs[t]) = Range(sigs[t - 1]) \cup {Param(n, KeywordOnly) : n \in taken}
      /\ Names(sigs[t - 1]) \cap taken = {}
  BY <1>1, <1>2, InvParts DEF SigsOK, Composes
<1>4. /\ Names(sigs[t]) = Names(sigs[t - 1]) \cup taken
      /\ Named(sigs[t]) = Named(sigs[t - 1]) \cup taken
      /\ HasVar(sigs[t]) <=> HasVar(sigs[t - 1])
  BY <1>3, ComposedNames
<1>5. Named(sigs[t - 1]) \subseteq Names(sigs[t - 1])
  BY DEF Named, Names
<1>6. DOMAIN Passed(Top) = DOMAIN args \ taken
  BY <1>1 DEF Passed, Restrict
<1> HIDE DEF taken
<1> PICK passed : passed = Passed(Top)
  OBVIOUS
<1>7. /\ Named(sigs[t]) \subseteq DOMAIN args
      /\ DOMAIN args \ Named(sigs[t]) # {} =>
            HasVar(sigs[t]) /\ DOMAIN args \ Named(sigs[t]) \subseteq {"another"} \cup Names(sigs[t])
  BY <1>1 DEF Arrived
<1>8. Arrived(t - 1, passed)
  BY <1>3, <1>4, <1>5, <1>6, <1>7 DEF Arrived
<1> QED
  BY <1>8

LEMMA CallsBelow ==
    ASSUME Inv, stack # << >>, outcome = None, Kind(Top) \in Extensions \ {"batch"},
           CallBelow(Passed(Top)), UNCHANGED <<Fixed, Data>>
    PROVE  Inv'
<1> PICK t : t = Top.layer
  OBVIOUS
<1> PICK f : f = [Top EXCEPT !.at = "waiting"]
  OBVIOUS
<1>1. /\ t \in 1 .. Len(layers) /\ t - 1 > 0 /\ Len(layers) \in Nat
      /\ DOMAIN Top = {"layer", "args", "at", "todo", "got"}
      /\ Top.got \in Answers /\ (Sealed(t - 1) => Fits(Top.got))
  BY KindFacts
<1>2. /\ DOMAIN f = {"layer", "args", "at", "todo", "got"} /\ f.got = Top.got
      /\ f.layer = t /\ f.args = Top.args /\ f.at = "waiting"
  BY <1>1
<1>3. Calls(f, t - 1, Passed(Top))
  BY <1>1, <1>2, PassedArrives DEF Calls
<1>4. CallFrom(f, t - 1, Passed(Top))
  BY DEF CallBelow
<1> QED
  BY <1>3, <1>4, CallInv DEF Fixed, Data

\* The top frame ends with an outcome that fits, the stores unchanged.
LEMMA LeavesInv ==
    ASSUME Inv, stack # << >>, NEW o, Ends(o), Leave(o), UNCHANGED <<Fixed, store>>
    PROVE  Inv'
<1>1. /\ LayersOK /\ WidthsOK
  BY InvParts
<1>2. StoreKept
  BY <1>1 DEF StoreKept, LayersOK, WidthsOK
<1> QED
  BY <1>2, LeaveInv DEF Fixed

LEMMA OutcomeUp ==
    ASSUME Inv, stack # << >>, outcome # None, Kind(Top) \notin {"output_schema"}, Kind(Top) # "next",
           Kind(Top) = "chain" => Top.at = "next"
    PROVE  Ends(outcome)
<1> PICK t : t = Top.layer
  OBVIOUS
<1>1. /\ t \in Nat /\ t > 1 /\ outcome \in Outcomes
      /\ Top.at \in {"waiting", "next"} /\ (Top.at = "next" => Kind(Top) = "chain")
  BY KindFacts, TopFacts
<1>2. outcome.how = "returned" /\ Sealed(t) => Fits(outcome.answer)
  <2>1. CASE Kind(Top) = "chain"
    BY <2>1, <1>1, InvParts DEF WidthsOK
  <2>2. CASE Kind(Top) # "chain"
    BY <2>2, <1>1, SealedBelow, InvParts DEF WidthsOK
  <2> QED
    BY <2>1, <2>2
<1> QED
  BY <1>1, <1>2 DEF Ends

\* A batch goes on with what it has gathered.
LEMMA Continues ==
    ASSUME Inv, stack # << >>, Kind(Top) = "batch", NEW f,
           DOMAIN f = {"layer", "args", "at", "todo", "got"}, f.layer = Top.layer, f.args = Top.args,
           f.got \in Answers, Sealed(Top.layer - 1) => Fits(f.got),
           Continue(f), UNCHANGED <<Fixed, Data>>
    PROVE  Inv'
<1> PICK t : t = Top.layer
  OBVIOUS
<1>0. "batch" \in Extensions /\ "batch" \notin Wrapping
  BY DEF Extensions, Adding, Wrapping
<1>1. t \in 1 .. Len(layers) /\ t > 1 /\ t - 1 > 0 /\ Len(layers) \in Nat /\ layers[t] = "batch"
  BY <1>0, KindFacts
<1>2. CASE f.todo = << >>
  <2>1. Leave(Returned(f.got))
    BY <1>2 DEF Continue
  <2>2. Ends(Returned(f.got))
    BY <1>0, <1>1, OutcomeFacts, SealedBelow DEF Ends
  <2> QED
    BY <2>1, <2>2, LeavesInv DEF Data
<1>3. CASE f.todo # << >>
  <2> PICK g : g = [f EXCEPT !.at = "waiting", !.todo = Tail(@)]
    OBVIOUS
  <2> PICK args : args = Arguments(t - 1, Head(f.todo), FALSE)
    OBVIOUS
  <2>1. CallFrom(g, t - 1, args)
    BY <1>3 DEF Continue
  <2>2. /\ DOMAIN g = {"layer", "args", "at", "todo", "got"} /\ g.got = f.got
        /\ g.layer = t /\ g.args = Top.args /\ g.at = "waiting"
    OBVIOUS
  <2>3. Arrived(t - 1, args)
    BY ArgumentsOK
  <2>4. Calls(g, t - 1, args)
    BY <1>1, <2>2, <2>3 DEF Calls
  <2> QED
    BY <2>1, <2>4, CallInv DEF Fixed, Data
<1> QED
  BY <1>2, <1>3

LEMMA RunsInv ==
    ASSUME Inv, ToolRuns \/ PadRuns \/ CancelRunning \/ RouteRefused \/ KeyFails
    PROVE  Inv'
<1>0. /\ {"tool", "next"} \cap Wrapping = {} /\ "prometheus_metrics" \notin {"tool", "next", "proxy", "cache"}
      /\ {} \in Answers
  BY DEF Wrapping, Answers
<1>1. CASE ToolRuns
  <2>1. stack # << >> /\ outcome = None /\ Kind(Top) = "tool" /\ UNCHANGED <<Fixed, store>>
    BY <1>1 DEF ToolRuns, IsCalled
  <2>2. Top.layer = 1 /\ ~ Sealed(1)
    BY <2>1, KindFacts, SealedBelow
  <2>3. CASE Leave(Raised)
    <3>1. Ends(Raised)
      BY <2>1, <1>0, OutcomeFacts DEF Ends
    <3> QED
      BY <2>1, <2>3, <3>1, LeavesInv
  <2>4. ASSUME NEW w \in Widths, NEW answer, answer = IF Top.args["texts"] = 0 THEN {} ELSE {w},
               Leave(Returned(answer))
        PROVE  Inv'
    <3>1. answer \in Answers
      BY <2>4, WidthAssumption DEF Answers
    <3>2. Ends(Returned(answer))
      BY <2>1, <2>2, <3>1, <1>0, OutcomeFacts DEF Ends
    <3> QED
      BY <2>1, <2>4, <3>2, LeavesInv
  <2> QED
    BY <1>1, <2>3, <2>4 DEF ToolRuns
<1>2. CASE PadRuns
  <2>1. stack # << >> /\ outcome = None /\ Kind(Top) = "next" /\ UNCHANGED <<Fixed, Data>>
    BY <1>2 DEF PadRuns, IsCalled
  <2> PICK o : o = IF Top.args = [single |-> TRUE, vectors |-> {0}] THEN Returned({})
                   ELSE Padded(Top.args.vectors)
    OBVIOUS
  <2>2. Leave(o)
    BY <1>2 DEF PadRuns
  <2>3. o \in {Raised, Returned({}), Returned({Width})}
    BY DEF Padded
  <2>4. {Width} \in Answers /\ Fits({Width}) /\ Fits({})
    BY WidthAssumption DEF Answers, Fits
  <2>5. o \in Outcomes /\ (o.how = "returned" => Fits(o.answer))
    BY <1>0, <2>3, <2>4, OutcomeFacts
  <2>6. Ends(o)
    BY <2>1, <2>5, <1>0 DEF Ends
  <2> QED
    BY <2>1, <2>2, <2>6, LeavesInv DEF Data
<1>3. CASE CancelRunning \/ RouteRefused \/ KeyFails
  <2>1. /\ stack # << >> /\ outcome = None /\ Kind(Top) \in {"tool", "next", "proxy", "cache"}
        /\ UNCHANGED <<Fixed, Data>>
    BY <1>3 DEF CancelRunning, RouteRefused, KeyFails, IsCalled
  <2> PICK o \in {Raised, Cancelled} : Leave(o)
    BY <1>3 DEF CancelRunning, RouteRefused, KeyFails
  <2>2. Ends(o)
    BY <2>1, <1>0, OutcomeFacts DEF Ends
  <2> QED
    BY <2>1, <2>2, LeavesInv DEF Data
<1> QED
  BY <1>1, <1>2, <1>3

LEMMA PassesInv ==
    ASSUME Inv, PassOn \/ Validate
    PROVE  Inv'
<1>0. "prometheus_metrics" # "output_schema"
  OBVIOUS
<1>1. CASE PassOn
  <2>1. /\ stack # << >> /\ outcome # None /\ Leave(outcome) /\ UNCHANGED <<Fixed, Data>>
        /\ Kind(Top) \in {"prometheus_metrics", "proxy", "cache", "chain", "output_schema"}
        /\ \/ Kind(Top) \in {"prometheus_metrics", "proxy"}
           \/ Kind(Top) = "chain" /\ Top.at = "next"
           \/ outcome.how # "returned"
    BY <1>1 DEF PassOn, IsBack
  <2>2. Ends(outcome)
    <3>1. CASE outcome.how # "returned"
      BY <2>1, <3>1, TopFacts DEF Ends
    <3>2. CASE outcome.how = "returned"
      BY <2>1, <3>2, OutcomeUp
    <3> QED
      BY <3>1, <3>2
  <2> QED
    BY <2>1, <2>2, LeavesInv DEF Data
<1>2. CASE Validate
  <2>1. /\ stack # << >> /\ outcome # None /\ outcome.how = "returned" /\ Kind(Top) = "output_schema"
        /\ UNCHANGED <<Fixed, Data>>
    BY <1>2 DEF Validate, IsBack, IsBackWith
  <2> PICK o : o = IF Conforms(outcome.answer) THEN outcome ELSE Raised
    OBVIOUS
  <2>2. Leave(o)
    BY <1>2 DEF Validate
  <2>3. o \in Outcomes /\ (o.how = "returned" => Fits(o.answer))
    BY <2>1, TopFacts, OutcomeFacts DEF Conforms, Fits
  <2>4. Ends(o)
    BY <2>1, <2>3 DEF Ends
  <2> QED
    BY <2>1, <2>2, <2>4, LeavesInv DEF Data
<1> QED
  BY <1>1, <1>2

LEMMA CachesInv ==
    ASSUME Inv, CacheHits \/ CacheMisses \/ CacheWrites
    PROVE  Inv'
<1>0. "cache" \in Extensions \ {"batch"} /\ "cache" \in Wrapping
  BY DEF Extensions, Adding, Wrapping
<1> PICK t : t = Top.layer
  OBVIOUS
<1>1. CASE CacheHits
  <2>1. /\ stack # << >> /\ outcome = None /\ Kind(Top) = "cache" /\ UNCHANGED <<Fixed, Data>>
        /\ \E key \in DOMAIN store[t] : Leave(Returned(store[t][key]))
    BY <1>1 DEF CacheHits, IsCalled
  <2> PICK key \in DOMAIN store[t] : Leave(Returned(store[t][key]))
    BY <2>1
  <2>2. t \in DOMAIN store /\ t > 1
    BY <2>1, <1>0, KindFacts, TopFacts
  <2>3. store[t][key] \in Answers /\ (Sealed(t) => Fits(store[t][key]))
    BY <2>2, InvParts DEF LayersOK, WidthsOK
  <2>4. Ends(Returned(store[t][key]))
    BY <2>1, <2>2, <2>3, OutcomeFacts DEF Ends
  <2> QED
    BY <2>1, <2>4, LeavesInv DEF Data
<1>2. CASE CacheMisses
  BY <1>0, <1>2, CallsBelow DEF CacheMisses, IsCalled
<1>3. CASE CacheWrites
  <2> PICK key : key = KeyOf(Passed(Top))
    OBVIOUS
  <2> PICK values : values = [k \in DOMAIN store[t] \cup {key} |->
                                IF k = key THEN outcome.answer ELSE store[t][k]]
    OBVIOUS
  <2>1. /\ stack # << >> /\ outcome # None /\ outcome.how = "returned" /\ Kind(Top) = "cache"
        /\ store' = [store EXCEPT ![t] = values] /\ Leave(outcome) /\ UNCHANGED Fixed
    BY <1>3 DEF CacheWrites, IsBackWith, IsBack
  <2>2. t \in DOMAIN store /\ t > 1 /\ outcome.answer \in Answers
    BY <2>1, <1>0, KindFacts, TopFacts, OutcomeFacts
  <2>3. Ends(outcome)
    BY <2>1, OutcomeUp
  <2>4. Sealed(t) => Fits(outcome.answer)
    BY <2>1, <2>3 DEF Ends
  <2>5. IsSeq(store) /\ (\A l \in DOMAIN store : \A k \in DOMAIN store[l] : store[l][k] \in Answers)
        /\ \A l \in DOMAIN store : Sealed(l) => \A k \in DOMAIN store[l] : Fits(store[l][k])
    BY InvParts DEF LayersOK, WidthsOK
  <2>6. ASSUME NEW k \in DOMAIN values
        PROVE  \/ values[k] = outcome.answer
               \/ k \in DOMAIN store[t] /\ values[k] = store[t][k]
    <3>1. k \in DOMAIN store[t] \cup {key}
      OBVIOUS
    <3>2. values[k] = IF k = key THEN outcome.answer ELSE store[t][k]
      BY <3>1
    <3> QED
      BY <3>1, <3>2
  <2>7. IsSeq(store') /\ DOMAIN store' = DOMAIN store
    BY <2>1, <2>2, <2>5, Updated
  <2>8. ASSUME NEW l \in DOMAIN store, NEW k \in DOMAIN store'[l]
        PROVE  store'[l][k] \in Answers /\ (Sealed(l) => Fits(store'[l][k]))
    <3>1. CASE l = t
      <4>1. store'[l] = values
        BY <3>1, <2>1, <2>2
      <4> QED
        BY <4>1, <3>1, <2>2, <2>4, <2>5, <2>6
    <3>2. CASE l # t
      BY <3>2, <2>1, <2>5
    <3> QED
      BY <3>1, <3>2
  <2>9. StoreKept
    BY <2>7, <2>8 DEF StoreKept
  <2> QED
    BY <2>1, <2>3, <2>9, LeaveInv DEF Fixed
<1> QED
  BY <1>1, <1>2, <1>3

LEMMA ChainsInv ==
    ASSUME Inv, ChainCalls \/ WrapperCalls \/ ChainTransforms
    PROVE  Inv'
<1>0. /\ {"prometheus_metrics", "output_schema", "proxy", "chain"} \subseteq Extensions \ {"batch"}
      /\ "chain" \notin Wrapping
  BY DEF Extensions, Adding, Wrapping
<1>1. CASE ChainCalls \/ WrapperCalls
  BY <1>0, <1>1, CallsBelow DEF ChainCalls, WrapperCalls, IsCalled
<1>2. CASE ChainTransforms
  <2>1. /\ stack # << >> /\ outcome # None /\ Kind(Top) = "chain" /\ UNCHANGED <<Fixed, Data>>
    BY <1>2 DEF ChainTransforms, IsBack, IsBackWith
  <2>2. CASE Leave(Raised) \/ Leave(Cancelled)
    <3> PICK o \in {Raised, Cancelled} : Leave(o)
      BY <2>2
    <3>1. Ends(o)
      BY <2>1, <1>0, OutcomeFacts DEF Ends
    <3> QED
      BY <2>1, <3>1, LeavesInv DEF Data
  <2>3. ASSUME NEW arg, CallFrom([Top EXCEPT !.at = "next"], 0, arg)
        PROVE  Inv'
    <3> PICK f : f = [Top EXCEPT !.at = "next"]
      OBVIOUS
    <3>1. /\ Top.layer \in 1 .. Len(layers) /\ layers[Top.layer] = "chain"
          /\ DOMAIN Top = {"layer", "args", "at", "todo", "got"}
          /\ Top.got \in Answers /\ (Sealed(Top.layer - 1) => Fits(Top.got))
      BY <2>1, <1>0, KindFacts
    <3>2. /\ DOMAIN f = {"layer", "args", "at", "todo", "got"} /\ f.got = Top.got
          /\ f.layer = Top.layer /\ f.args = Top.args /\ f.at = "next"
      BY <3>1
    <3>3. Calls(f, 0, arg)
      BY <3>1, <3>2 DEF Calls
    <3> QED
      BY <2>1, <2>3, <3>3, CallInv DEF Fixed, Data
  <2> QED
    BY <1>2, <2>2, <2>3 DEF ChainTransforms
<1> QED
  BY <1>1, <1>2

LEMMA BatchesInv ==
    ASSUME Inv, BatchStarts \/ BatchGoesOn
    PROVE  Inv'
<1>0. "batch" \in Extensions /\ "batch" \notin Wrapping
  BY DEF Extensions, Adding, Wrapping
<1>1. /\ stack # << >> /\ Kind(Top) = "batch" /\ UNCHANGED <<Fixed, Data>>
  BY DEF BatchStarts, BatchGoesOn, IsBack, IsCalled
<1>2. /\ DOMAIN Top = {"layer", "args", "at", "todo", "got"}
      /\ Top.got \in Answers /\ (Sealed(Top.layer - 1) => Fits(Top.got))
  BY <1>1, KindFacts
<1>3. CASE BatchStarts
  <2> PICK f : f = [Top EXCEPT !.todo = Top.args["params"]]
    OBVIOUS
  <2>1. Continue(f)
    BY <1>3 DEF BatchStarts
  <2>2. /\ DOMAIN f = {"layer", "args", "at", "todo", "got"} /\ f.got = Top.got
        /\ f.layer = Top.layer /\ f.args = Top.args
    BY <1>2
  <2> QED
    BY <1>1, <1>2, <2>1, <2>2, Continues
<1>4. CASE BatchGoesOn
  <2>1. /\ outcome # None
        /\ \/ outcome.how = "returned" /\ BatchGets(outcome.answer)
           \/ BatchGets({ErrorText})
           \/ outcome.how # "returned" /\ Leave(outcome)
    BY <1>4 DEF BatchGoesOn, IsBack
  <2>2. /\ outcome \in Outcomes /\ Top.at = "waiting"
        /\ outcome.how = "returned" => outcome.answer \in Answers
    BY <1>1, <2>1, KindFacts, TopFacts, OutcomeFacts
  <2>3. outcome.how = "returned" /\ Sealed(Top.layer - 1) => Fits(outcome.answer)
    BY <1>1, <2>1, <2>2, InvParts DEF WidthsOK
  <2>4. ASSUME NEW result \in Answers, Sealed(Top.layer - 1) => Fits(result), BatchGets(result)
        PROVE  Inv'
    <3> PICK f : f = [Top EXCEPT !.got = @ \cup result]
      OBVIOUS
    <3>1. Continue(f)
      BY <2>4 DEF BatchGets
    <3>2. /\ DOMAIN f = {"layer", "args", "at", "todo", "got"} /\ f.got = Top.got \cup result
          /\ f.layer = Top.layer /\ f.args = Top.args
      BY <1>2
    <3>3. f.got \in Answers /\ (Sealed(Top.layer - 1) => Fits(f.got))
      BY <1>2, <2>4, <3>2 DEF Answers, Fits
    <3> QED
      BY <1>1, <3>1, <3>2, <3>3, Continues
  <2>5. {ErrorText} \in Answers /\ Fits({ErrorText})
    BY DEF Answers, Fits
  <2>6. ASSUME outcome.how # "returned", Leave(outcome)
        PROVE  Inv'
    <3>1. Ends(outcome)
      BY <1>0, <1>1, <2>2, <2>6 DEF Ends
    <3> QED
      BY <1>1, <2>6, <3>1, LeavesInv DEF Data
  <2> QED
    BY <2>1, <2>2, <2>3, <2>4, <2>5, <2>6
<1> QED
  BY <1>3, <1>4

LEMMA Stutters == Inv /\ UNCHANGED vars => Inv'
<1> SUFFICES ASSUME Inv, UNCHANGED vars PROVE Inv'
  OBVIOUS
<1>1. /\ UNCHANGED <<phase, layers, sigs, stack, outcome, store, metrics, given, made, ended>>
      /\ LayersOK /\ QuietBefore /\ StackOK /\ SigsOK
      /\ ArgumentsArrive /\ MetricsOK /\ WidthsOK
  BY InvParts DEF vars
<1>2. LayersOK' /\ QuietBefore' /\ SigsOK'
  BY <1>1, SigsKept DEF LayersOK, QuietBefore
<1>3. StackOK'
  BY <1>1 DEF StackOK, FrameOK, Top
<1>4. ArgumentsArrive'
  BY <1>1 DEF ArgumentsArrive, Arrived
<1>5. MetricsOK'
  <2>1. \A a, b, kinds : OuterAndInner(a, b, kinds)' <=> OuterAndInner(a, b, kinds)
    BY <1>1 DEF OuterAndInner
  <2>2. \A a, b : InFlight(a, b)' <=> InFlight(a, b)
    BY <1>1 DEF InFlight, Top
  <2>3. (Pending' <=> Pending) /\ Delivered' = Delivered
    BY <1>1 DEF Pending, Delivered
  <2> QED
    BY <1>1, <2>1, <2>2, <2>3 DEF MetricsOK
<1>6. WidthsOK'
  <2>1. \A k : Sealed(k)' <=> Sealed(k)
    BY <1>1 DEF Sealed
  <2> QED
    BY <1>1, <2>1 DEF WidthsOK, Top
<1> QED
  BY <1>2, <1>3, <1>4, <1>5, <1>6 DEF Inv

LEMMA NextInv == Inv /\ [Next]_vars => Inv'
<1> SUFFICES ASSUME Inv, [Next]_vars PROVE Inv'
  OBVIOUS
<1>1. CASE BindMetrics \/ BindCache \/ BindProxy \/ BindChain \/ BindBatch \/ BindOutputSchema
  BY <1>1, Binding, BindInv DEF Binds
<1>2. ASSUME NEW request \in Requests, Call(Arguments(Len(layers), request, TRUE))
      PROVE  Inv'
  BY <1>2, ArgumentsOK, CallBegins
<1>3. CASE Deliver
  BY <1>3, Delivers
<1>4. CASE ToolRuns \/ PadRuns \/ CancelRunning \/ RouteRefused \/ KeyFails
  BY <1>4, RunsInv
<1>5. CASE PassOn \/ Validate
  BY <1>5, PassesInv
<1>6. CASE CacheHits \/ CacheMisses \/ CacheWrites
  BY <1>6, CachesInv
<1>7. CASE ChainCalls \/ WrapperCalls \/ ChainTransforms
  BY <1>7, ChainsInv
<1>8. CASE BatchStarts \/ BatchGoesOn
  BY <1>8, BatchesInv
<1>9. CASE Over \/ UNCHANGED vars
  BY <1>9, Stutters DEF Over
<1> QED
  BY <1>1, <1>2, <1>3, <1>4, <1>5, <1>6, <1>7, <1>8, <1>9 DEF Next

--------------------------------------------------------------------------------
(* Where an answer is from.                                                     *)

\* Arguments are a function, and those of a layer over a batch hold the batch's items.
ArgsOK(l, args) ==
    /\ args = [n \in DOMAIN args |-> args[n]]
    /\ Below("batch", l) => /\ "params" \in DOMAIN args
                            /\ \E request \in Requests : args["params"] = Items(request)

\* The names of a signature: a batch's own, or the tool's and those of the layers between.
ShapeOK(l) ==
    IF Below("batch", l) THEN "params" \in Named(sigs[l])
    ELSE Names(sigs[l]) = Names(sigs[1]) \cup TakenBelow(l) /\ Names(sigs[1]) \cap TakenBelow(l) = {}

\* A call under way is for the same arguments of the tool as the call it is made in, and a
\* batch has gathered nothing else.
FrameFrom(i) ==
    stack[i].layer # 0 =>
        /\ ArgsOK(stack[i].layer, stack[i].args)
        /\ stack[i].got \subseteq Origin(stack[i].layer, stack[i].args)
        /\ layers[stack[i].layer] = "batch" => stack[i].todo \in Seq(Range(stack[i].args["params"]))
        /\ i > 1 => ToolArguments(stack[i].layer, stack[i].args)
                        \subseteq ToolArguments(stack[i - 1].layer, stack[i - 1].args)

\* The key of a call of a cache.
KeyFor(args) == KeyOf(Restrict(args, DOMAIN args \ Taken("cache")))

\* Whatever call of a cache has the key of a value, the value may be the answer to it.
CachedFrom ==
    \A l \in DOMAIN store : \A key \in DOMAIN store[l] : \A args :
        layers[l] = "cache" /\ ArgsOK(l, args) /\ KeyFor(args) = key =>
            store[l][key] \subseteq Origin(l, args)

\* What is on its way up; a chain does not give its caller what it waits for.
OutcomeFrom ==
    outcome # None /\ outcome.how = "returned" =>
        /\ stack = << >> => outcome.answer \subseteq Origin(Len(layers), given)
        /\ stack # << >> => \/ layers[Top.layer] = "chain" /\ Top.at = "waiting"
                            \/ outcome.answer \subseteq Origin(Top.layer, Top.args)

OriginOK ==
    /\ \A l \in DOMAIN sigs : ShapeOK(l)
    /\ stack # << >> => given = stack[1].args
    /\ \A i \in DOMAIN stack : FrameFrom(i)
    /\ CachedFrom /\ OutcomeFrom

\* What is said of the layers up to one, in terms of those up to the one below.
LEMMA LayerStep ==
    ASSUME NEW l \in Nat, l > 1
    PROVE  /\ \A kind : Below(kind, l) <=> Below(kind, l - 1) \/ layers[l] = kind
           /\ TakenBelow(l) = TakenBelow(l - 1) \cup Taken(layers[l])
           /\ ErrorsBelow(l) <=> layers[l] = "batch" \/ (ErrorsBelow(l - 1) /\ layers[l] # "chain")
<1>1. \A k : k \in 1 .. l <=> k \in 1 .. l - 1 \/ k = l
  OBVIOUS
<1>2. \A kind : Below(kind, l) <=> Below(kind, l - 1) \/ layers[l] = kind
  BY <1>1 DEF Below
<1>3. TakenBelow(l) = TakenBelow(l - 1) \cup Taken(layers[l])
  BY <1>1 DEF TakenBelow
<1>4. ErrorsBelow(l) <=> layers[l] = "batch" \/ (ErrorsBelow(l - 1) /\ layers[l] # "chain")
  <2>1. \A k \in 1 .. l - 1 : \A j : j \in k + 1 .. l <=> j \in k + 1 .. l - 1 \/ j = l
    OBVIOUS
  <2>2. \A k \in 1 .. l - 1 : (\A j \in k + 1 .. l : layers[j] # "chain")
                            <=> (\A j \in k + 1 .. l - 1 : layers[j] # "chain") /\ layers[l] # "chain"
    BY <2>1
  <2>3. \A j : j \notin l + 1 .. l
    OBVIOUS
  <2> QED
    BY <1>1, <2>2, <2>3 DEF ErrorsBelow
<1> QED
  BY <1>2, <1>3, <1>4

LEMMA FirstLayer ==
    ASSUME layers[1] = "tool"
    PROVE  /\ \A kind \in Extensions : ~ Below(kind, 1)
           /\ TakenBelow(1) = {} /\ ~ ErrorsBelow(1)
<1>1. \A k : k \in 1 .. 1 <=> k = 1
  OBVIOUS
<1>2. "tool" \notin Extensions
  BY DEF Extensions, Adding, Wrapping
<1>3. TakenBelow(1) = {}
  BY <1>1, TakenNames DEF TakenBelow
<1> QED
  BY <1>1, <1>2, <1>3 DEF Below, ErrorsBelow

\* A layer that is no batch asks the tool for the same through the layer below.
LEMMA PassedOn ==
    ASSUME NEW l \in Nat, l > 1, layers[l] # "batch", "params" \notin Taken(layers[l]),
           NEW args, ArgsOK(l, args),
           NEW passed, passed = Restrict(args, DOMAIN args \ Taken(layers[l]))
    PROVE  ArgsOK(l - 1, passed) /\ ToolArguments(l - 1, passed) = ToolArguments(l, args)
<1> DEFINE taken == Taken(layers[l])
           D == DOMAIN args \ taken
<1>1. passed = [n \in D |-> args[n]]
  BY DEF Restrict
<1>2. Below("batch", l) <=> Below("batch", l - 1)
  BY LayerStep
<1>3. DOMAIN passed = D /\ \A n \in D : passed[n] = args[n]
  BY <1>1
<1>4. ArgsOK(l - 1, passed)
  <2>1. passed = [n \in DOMAIN passed |-> passed[n]]
    BY <1>1
  <2>2. ASSUME Below("batch", l - 1)
        PROVE  "params" \in DOMAIN passed /\ \E request \in Requests : passed["params"] = Items(request)
    BY <2>2, <1>2, <1>3 DEF ArgsOK
  <2> QED
    BY <2>1, <2>2 DEF ArgsOK
<1>5. CASE Below("batch", l)
  <2>1. passed["params"] = args["params"]
    BY <1>3, <1>5 DEF ArgsOK
  <2> QED
    BY <2>1, <1>2, <1>4, <1>5 DEF ToolArguments
<1>6. CASE ~ Below("batch", l)
  <2>1. D \ TakenBelow(l - 1) = DOMAIN args \ TakenBelow(l)
    BY LayerStep
  <2>2. Restrict(passed, D \ TakenBelow(l - 1)) = Restrict(args, D \ TakenBelow(l - 1))
    BY <1>3 DEF Restrict
  <2>3. Restrict(passed, DOMAIN passed \ TakenBelow(l - 1)) = Restrict(args, DOMAIN args \ TakenBelow(l))
    BY <2>1, <2>2, <1>3
  <2> QED
    BY <2>3, <1>2, <1>4, <1>6 DEF ToolArguments
<1> QED
  BY <1>5, <1>6, <1>4

LEMMA ItemsOf ==
    ASSUME NEW request \in Requests
    PROVE  /\ Items(request) \in Seq(Range(Items(request)))
           /\ \A item \in Range(Items(request)) :
                 /\ item \in Requests /\ item.items = request.items
                 /\ Range(Items(item)) \subseteq Range(Items(request))
<1> PICK s : s = request.items
  OBVIOUS
<1> DEFINE jqs == IF "chain" \in Range(layers) THEN {"all", "first"} ELSE {"all"}
           secrets == IF "secret" \in Names(sigs[1]) THEN Secrets ELSE {None}
           It(i) == [request EXCEPT !.texts = s[i]]
<1>1. /\ s \in Batches /\ s \in Seq(Texts) /\ DOMAIN s = 1 .. Len(s) /\ Len(s) \in Nat
      /\ \A i \in 1 .. Len(s) : s[i] \in Texts
  BY BatchAssumption, LenProperties DEF Requests
<1>2. /\ request = [texts |-> request.texts, items |-> s, fail_fast |-> request.fail_fast, jq |-> request.jq,
                    secret |-> request.secret]
      /\ request.fail_fast \in BOOLEAN /\ request.jq \in jqs /\ request.secret \in secrets
  BY DEF Requests
<1>3. \A i \in 1 .. Len(s) : It(i) = [texts |-> s[i], items |-> s, fail_fast |-> request.fail_fast, jq |-> request.jq,
                    secret |-> request.secret]
  BY <1>2
<1>4. \A i \in 1 .. Len(s) : It(i) \in Requests /\ It(i).items = s
  BY <1>1, <1>2, <1>3 DEF Requests
<1>5. Items(request) = [i \in 1 .. Len(s) |-> It(i)]
  BY <1>1 DEF Items
<1>6. Range(Items(request)) = {It(i) : i \in 1 .. Len(s)}
  <2> HIDE DEF It
  <2>1. DOMAIN Items(request) = 1 .. Len(s) /\ \A i \in 1 .. Len(s) : Items(request)[i] = It(i)
    BY <1>5
  <2> QED
    BY <2>1 DEF Range
<1>7. Items(request) \in Seq(Range(Items(request)))
  <2>1. \A i \in 1 .. Len(s) : It(i) \in Range(Items(request))
    BY <1>6
  <2> HIDE DEF It
  <2>2. [i \in 1 .. Len(s) |-> It(i)] \in Seq(Range(Items(request)))
    BY <2>1, <1>1, IsASeq
  <2> QED
    BY <2>2, <1>5
<1>8. ASSUME NEW item \in Range(Items(request))
      PROVE  /\ item \in Requests /\ item.items = s
             /\ Range(Items(item)) \subseteq Range(Items(request))
  <2>1. PICK j \in 1 .. Len(s) : item = It(j)
    BY <1>6
  <2>2. item \in Requests /\ item.items = s
    BY <2>1, <1>4
  <2>3. item = [texts |-> s[j], items |-> s, fail_fast |-> request.fail_fast, jq |-> request.jq,
                    secret |-> request.secret]
    BY <2>1, <1>3
  <2>4. \A i \in 1 .. Len(s) : [item EXCEPT !.texts = s[i]] = It(i)
    BY <2>3, <1>3
  <2>5. Items(item) = [i \in 1 .. Len(s) |-> [item EXCEPT !.texts = s[i]]]
    BY <2>2, <1>1 DEF Items
  <2>6. \A i \in 1 .. Len(s) : Items(item)[i] = It(i)
    BY <2>4, <2>5
  <2> QED
    BY <2>2, <2>5, <2>6, <1>6 DEF Range
<1> QED
  BY <1>7, <1>8

\* The arguments of a request, for a layer.
LEMMA ArgumentsAre ==
    ASSUME NEW l, l \in DOMAIN sigs, ShapeOK(l), NEW request \in Requests, NEW direct \in BOOLEAN
    PROVE  /\ ArgsOK(l, Arguments(l, request, direct))
           /\ Below("batch", l) => Arguments(l, request, direct)["params"] = Items(request)
           /\ DOMAIN Arguments(l, request, FALSE) = Names(sigs[l])
<1> DEFINE args == Arguments(l, request, direct)
<1>1. DOMAIN args = Named(sigs[l]) \cup Extras(sigs[l], direct) /\ args = [n \in DOMAIN args |-> args[n]]
  BY DEF Arguments
<1>2. ASSUME Below("batch", l)
      PROVE  "params" \in DOMAIN args /\ args["params"] = Items(request)
  <2>1. "params" \in Named(sigs[l])
    BY <1>2 DEF ShapeOK
  <2> QED
    BY <1>1, <2>1 DEF Arguments
<1>3. DOMAIN Arguments(l, request, FALSE) = Names(sigs[l])
  <2>1. Named(sigs[l]) \subseteq Names(sigs[l])
    BY DEF Named, Names
  <2>2. DOMAIN Arguments(l, request, FALSE) = Named(sigs[l]) \cup (Names(sigs[l]) \ Named(sigs[l]))
    BY DEF Arguments, Extras
  <2> QED
    BY <2>1, <2>2
<1> HIDE DEF args
<1>4. ArgsOK(l, args)
  BY <1>1, <1>2 DEF ArgsOK
<1> QED
  BY <1>2, <1>3, <1>4 DEF args

\* An item of a batch asks the tool for what the item holds, through whatever is below,
\* another batch, too.
LEMMA ItemAsks ==
    ASSUME NEW l \in Nat, l > 1, layers[l] = "batch", layers[1] = "tool",
           1 \in DOMAIN sigs, l - 1 \in DOMAIN sigs, ShapeOK(1), ShapeOK(l - 1),
           NEW args, ArgsOK(l, args), NEW item \in Range(args["params"])
    PROVE  LET given_args == Arguments(l - 1, item, FALSE) IN
           /\ ArgsOK(l - 1, given_args)
           /\ ToolArguments(l - 1, given_args) \subseteq ToolArguments(l, args)
<1> PICK below : below = Arguments(l - 1, item, FALSE)
  OBVIOUS
<1>1. Below("batch", l)
  BY LayerStep
<1>2. PICK request \in Requests : args["params"] = Items(request)
  BY <1>1 DEF ArgsOK
<1>3. item \in Requests /\ Range(Items(item)) \subseteq Range(Items(request))
  BY <1>2, ItemsOf
<1>4. /\ ArgsOK(l - 1, below) /\ (Below("batch", l - 1) => below["params"] = Items(item))
      /\ DOMAIN below = Names(sigs[l - 1])
  BY <1>3, ArgumentsAre
<1>5. ToolArguments(l, args) = {Arguments(1, it, FALSE) : it \in Range(Items(request))}
  BY <1>1, <1>2 DEF ToolArguments
<1>6. CASE Below("batch", l - 1)
  <2>1. ToolArguments(l - 1, below) = {Arguments(1, it, FALSE) : it \in Range(Items(item))}
    BY <1>4, <1>6 DEF ToolArguments
  <2> QED
    BY <2>1, <1>3, <1>4, <1>5
<1>7. CASE ~ Below("batch", l - 1)
  <2>1. ToolArguments(l - 1, below) = {Restrict(below, DOMAIN below \ TakenBelow(l - 1))}
    BY <1>7 DEF ToolArguments
  <2>2. DOMAIN below \ TakenBelow(l - 1) = Names(sigs[1])
    BY <1>4, <1>7 DEF ShapeOK
  <2>3. DOMAIN Arguments(1, item, FALSE) = Names(sigs[1])
    BY <1>3, ArgumentsAre
  <2>4. Names(sigs[1]) \subseteq Names(sigs[l - 1])
    BY <1>7 DEF ShapeOK
  <2>5. Restrict(below, Names(sigs[1])) = Arguments(1, item, FALSE)
    <3> DEFINE Value(n) == CASE n = "texts"         -> item.texts
                             [] n = "params"        -> Items(item)
                             [] n = "jq_expression" -> item.jq
                             [] n = "fail_fast"     -> item.fail_fast
                             [] n = "secret"        -> item.secret
                             [] OTHER               -> n
    <3>1. below = [n \in DOMAIN below |-> Value(n)]
      BY DEF Arguments
    <3>2. Arguments(1, item, FALSE) = [n \in Names(sigs[1]) |-> Value(n)]
      BY <2>3 DEF Arguments
    <3> HIDE DEF Value
    <3>3. \A n \in Names(sigs[1]) : below[n] = Value(n)
      BY <3>1, <2>4, <1>4
    <3> QED
      BY <3>2, <3>3 DEF Restrict
  <2>6. Arguments(1, item, FALSE) \in ToolArguments(l, args)
    BY <1>2, <1>5
  <2> QED
    BY <2>1, <2>2, <2>5, <2>6, <1>4
<1> QED
  BY <1>6, <1>7

\* An answer of the layer below is one of a layer that is no chain, if it asks for the same.
LEMMA OriginUp ==
    ASSUME NEW l \in Nat, l > 1, layers[l] # "chain", NEW a, NEW b,
           ToolArguments(l - 1, a) \subseteq ToolArguments(l, b)
    PROVE  Origin(l - 1, a) \subseteq Origin(l, b)
<1>1. /\ Below("chain", l) <=> Below("chain", l - 1)
      /\ Below("cache", l - 1) => Below("cache", l)
      /\ ErrorsBelow(l - 1) => ErrorsBelow(l)
  BY LayerStep
<1> QED
  BY <1>1 DEF Origin, MadeOf, Alike

\* The same after a step.
LEMMA OriginUpNext ==
    ASSUME NEW l \in Nat, l > 1, layers'[l] # "chain", NEW a, NEW b,
           ToolArguments(l - 1, a)' \subseteq ToolArguments(l, b)'
    PROVE  Origin(l - 1, a)' \subseteq Origin(l, b)'
<1>1. \A k : k \in 1 .. l <=> k \in 1 .. l - 1 \/ k = l
  OBVIOUS
<1>2. /\ Below("chain", l)' <=> Below("chain", l - 1)'
      /\ Below("cache", l - 1)' => Below("cache", l)'
  BY <1>1 DEF Below
<1>3. ErrorsBelow(l - 1)' => ErrorsBelow(l)'
  <2>1. \A k \in 1 .. l - 1 : \A j : j \in k + 1 .. l <=> j \in k + 1 .. l - 1 \/ j = l
    OBVIOUS
  <2> QED
    BY <1>1, <2>1 DEF ErrorsBelow
<1> QED
  BY <1>2, <1>3 DEF Origin, MadeOf, Alike

\* Items that a key prints alike ask the tool for what its own key prints alike.
LEMMA PrintedAlike ==
    ASSUME NEW a \in Requests, NEW b \in Requests, ItemPrinted(a) = ItemPrinted(b)
    PROVE  KeyOf(Arguments(1, a, FALSE)) = KeyOf(Arguments(1, b, FALSE))
<1>1. a.texts = b.texts /\ a.items = b.items /\ a.fail_fast = b.fail_fast /\ a.jq = b.jq
  BY DEF ItemPrinted, Requests
<1>2. /\ DOMAIN Items(a) = DOMAIN Items(b)
      /\ \A i \in DOMAIN Items(a) : ItemPrinted(Items(a)[i]) = ItemPrinted(Items(b)[i])
  BY <1>1 DEF ItemPrinted, Items, Requests
<1> DEFINE D == Named(sigs[1]) \cup Extras(sigs[1], FALSE)
           Value(n, r) == CASE n = "texts"         -> r.texts
                            [] n = "params"        -> Items(r)
                            [] n = "jq_expression" -> r.jq
                            [] n = "fail_fast"     -> r.fail_fast
                            [] n = "secret"        -> r.secret
                            [] OTHER               -> n
           Printed(n, v) == CASE n = "secret" -> Masked
                              [] n = "params" -> [i \in DOMAIN v |-> ItemPrinted(v[i])]
                              [] OTHER        -> v
<1>3. \A r : Arguments(1, r, FALSE) = [n \in D |-> Value(n, r)]
  BY DEF Arguments
<1>4. \A args : KeyOf(args) = [n \in DOMAIN args |-> Printed(n, args[n])]
  BY DEF KeyOf
<1>5. \A n \in D : Printed(n, Value(n, a)) = Printed(n, Value(n, b))
  BY <1>1, <1>2
<1> HIDE DEF D, Value, Printed
<1>6. \A r : KeyOf(Arguments(1, r, FALSE)) = [n \in D |-> Printed(n, Value(n, r))]
  BY <1>3, <1>4
<1> QED
  BY <1>5, <1>6

\* Calls of a cache that have one key ask the tool for what its own key prints alike.
LEMMA KeyAsks ==
    ASSUME NEW l \in Nat, l > 1, layers[l] = "cache", NEW a, NEW b, ArgsOK(l, a), ArgsOK(l, b),
           KeyFor(a) = KeyFor(b), NEW x \in ToolArguments(l, a)
    PROVE  \E y \in ToolArguments(l, b) : KeyOf(x) = KeyOf(y)
<1> DEFINE Printed(n, v) == CASE n = "secret" -> Masked
                              [] n = "params" -> [i \in DOMAIN v |-> ItemPrinted(v[i])]
                              [] OTHER        -> v
           P(args) == DOMAIN args \ Taken("cache")
<1>1. \A args : KeyOf(args) = [n \in DOMAIN args |-> Printed(n, args[n])]
  BY DEF KeyOf
<1>2. \A args, D : DOMAIN Restrict(args, D) = D /\ \A n \in D : Restrict(args, D)[n] = args[n]
  BY DEF Restrict
<1> HIDE DEF Printed
<1>3. \A args, D : KeyOf(Restrict(args, D)) = [n \in D |-> Printed(n, args[n])]
  BY <1>1, <1>2
<1>4. P(a) = P(b) /\ \A n \in P(a) : Printed(n, a[n]) = Printed(n, b[n])
  <2>1. [n \in P(a) |-> Printed(n, a[n])] = [n \in P(b) |-> Printed(n, b[n])]
    BY <1>3 DEF KeyFor
  <2> HIDE DEF P
  <2> QED
    BY <2>1
<1>5. TakenBelow(l) = TakenBelow(l - 1) \cup Taken("cache")
  BY LayerStep
<1>6. CASE ~ Below("batch", l)
  <2> DEFINE D == DOMAIN a \ TakenBelow(l)
  <2>1. D = DOMAIN b \ TakenBelow(l) /\ D \subseteq P(a)
    BY <1>4, <1>5
  <2> HIDE DEF D, P
  <2>2. x = Restrict(a, D) /\ ToolArguments(l, b) = {Restrict(b, D)}
    BY <1>6, <2>1 DEF ToolArguments, D
  <2>3. \A n \in D : Printed(n, a[n]) = Printed(n, b[n])
    BY <2>1, <1>4
  <2>4. KeyOf(Restrict(a, D)) = KeyOf(Restrict(b, D))
    BY <2>3, <1>3
  <2> QED
    BY <2>2, <2>4
<1>7. CASE Below("batch", l)
  <2>1. PICK r \in Requests : a["params"] = Items(r)
    BY <1>7 DEF ArgsOK
  <2>2. PICK q \in Requests : b["params"] = Items(q)
    BY <1>7 DEF ArgsOK
  <2>3. "params" \in P(a)
    BY <1>7, TakenNames DEF ArgsOK
  <2>4. Printed("params", Items(r)) = Printed("params", Items(q))
    BY <2>1, <2>2, <2>3, <1>4
  <2>5. /\ DOMAIN Items(r) = DOMAIN Items(q)
        /\ \A i \in DOMAIN Items(r) : ItemPrinted(Items(r)[i]) = ItemPrinted(Items(q)[i])
    BY <2>4 DEF Printed
  <2>6. PICK i \in DOMAIN Items(r) : x = Arguments(1, Items(r)[i], FALSE)
    BY <1>7, <2>1 DEF ToolArguments, Range
  <2> PICK u : u = Items(r)[i]
    OBVIOUS
  <2> PICK v : v = Items(q)[i]
    OBVIOUS
  <2>7. u \in Range(Items(r)) /\ v \in Range(Items(q)) /\ ItemPrinted(u) = ItemPrinted(v)
    BY <2>5 DEF Range
  <2>8. u \in Requests /\ v \in Requests
    BY <2>7, ItemsOf
  <2>9. KeyOf(Arguments(1, u, FALSE)) = KeyOf(Arguments(1, v, FALSE))
    BY <2>7, <2>8, PrintedAlike
  <2>10. Arguments(1, v, FALSE) \in ToolArguments(l, b)
    BY <2>2, <2>7, <1>7 DEF ToolArguments
  <2> QED
    BY <2>6, <2>9, <2>10
<1> QED
  BY <1>6, <1>7

\* What a key prints alike differs in secrets alone.
LEMMA KeyHidesSecrets ==
    ASSUME NEW x, NEW y, KeyOf(x) = KeyOf(y)
    PROVE  WithoutSecrets(x) = WithoutSecrets(y)
<1> DEFINE Printed(n, v) == CASE n = "secret" -> Masked
                              [] n = "params" -> [i \in DOMAIN v |-> ItemPrinted(v[i])]
                              [] OTHER        -> v
           Shown(n, v) == IF n = "params" THEN [i \in DOMAIN v |-> WithoutSecret(v[i])] ELSE v
<1>1. \A args : KeyOf(args) = [n \in DOMAIN args |-> Printed(n, args[n])]
  BY DEF KeyOf
<1>2. \A args : WithoutSecrets(args) = [n \in DOMAIN args \ {"secret"} |-> Shown(n, args[n])]
  BY DEF WithoutSecrets
<1>3. ASSUME NEW r, NEW s, ItemPrinted(r) = ItemPrinted(s)
      PROVE  WithoutSecret(r) = WithoutSecret(s)
  <2>1. \A q : /\ DOMAIN ItemPrinted(q) = DOMAIN q
               /\ \A f \in DOMAIN q \ {"secret"} : ItemPrinted(q)[f] = q[f]
    BY DEF ItemPrinted
  <2>2. DOMAIN r = DOMAIN s /\ \A f \in DOMAIN r \ {"secret"} : r[f] = s[f]
    BY <1>3, <2>1
  <2> QED
    BY <2>2 DEF WithoutSecret, Restrict
<1>4. ASSUME NEW n, n # "secret", NEW v, NEW w, Printed(n, v) = Printed(n, w)
      PROVE  Shown(n, v) = Shown(n, w)
  <2>1. CASE n = "params"
    <3>1. [i \in DOMAIN v |-> ItemPrinted(v[i])] = [i \in DOMAIN w |-> ItemPrinted(w[i])]
      BY <1>4, <2>1
    <3>2. DOMAIN v = DOMAIN w /\ \A i \in DOMAIN v : ItemPrinted(v[i]) = ItemPrinted(w[i])
      BY <3>1
    <3>3. \A i \in DOMAIN v : WithoutSecret(v[i]) = WithoutSecret(w[i])
      BY <3>2, <1>3
    <3> QED
      BY <3>2, <3>3, <2>1
  <2>2. CASE n # "params"
    BY <1>4, <2>2
  <2> QED
    BY <2>1, <2>2
<1> HIDE DEF Printed, Shown
<1>5. DOMAIN x = DOMAIN y /\ \A n \in DOMAIN x : Printed(n, x[n]) = Printed(n, y[n])
  <2>1. [n \in DOMAIN x |-> Printed(n, x[n])] = [n \in DOMAIN y |-> Printed(n, y[n])]
    BY <1>1
  <2> QED
    BY <2>1
<1>6. \A n \in DOMAIN x \ {"secret"} : Shown(n, x[n]) = Shown(n, y[n])
  BY <1>4, <1>5
<1> QED
  BY <1>2, <1>5, <1>6

\* An answer to one is one to the other.
LEMMA KeyDecides ==
    ASSUME NEW l \in Nat, l > 1, layers[l] = "cache", NEW a, NEW b, ArgsOK(l, a), ArgsOK(l, b),
           KeyFor(a) = KeyFor(b)
    PROVE  Origin(l, a) \subseteq Origin(l, b)
<1>1. Below("cache", l)
  BY LayerStep
<1>2. \A x \in ToolArguments(l, a) : \E y \in ToolArguments(l, b) : KeyOf(x) = KeyOf(y)
  BY KeyAsks
<1>3. ASSUME NEW m \in made, NEW x \in ToolArguments(l, a), Alike(l, m.args, x)
      PROVE  \E y \in ToolArguments(l, b) : Alike(l, m.args, y)
  <2>1. WithoutSecrets(m.args) = WithoutSecrets(x)
    BY <1>3 DEF Alike
  <2>2. PICK y \in ToolArguments(l, b) : WithoutSecrets(x) = WithoutSecrets(y)
    BY <1>2, KeyHidesSecrets
  <2> QED
    BY <1>1, <2>1, <2>2 DEF Alike
<1> QED
  BY <1>3 DEF Origin, MadeOf

\* A later call can only add to where an answer may be from.
LEMMA OriginGrows ==
    ASSUME UNCHANGED <<layers, sigs>>, made \subseteq made'
    PROVE  /\ \A l, args : ToolArguments(l, args)' = ToolArguments(l, args)
           /\ \A l, args : Origin(l, args) \subseteq Origin(l, args)'
           /\ \A l, args : ArgsOK(l, args)' <=> ArgsOK(l, args)
           /\ \A l : ShapeOK(l)' <=> ShapeOK(l)
<1>1. /\ \A kind, l : Below(kind, l)' <=> Below(kind, l)
      /\ \A l : (ErrorsBelow(l)' <=> ErrorsBelow(l)) /\ TakenBelow(l)' = TakenBelow(l)
  BY DEF Below, ErrorsBelow, TakenBelow
<1>2. \A l, args : ToolArguments(l, args)' = ToolArguments(l, args)
  <2>1. \A item : Arguments(1, item, FALSE)' = Arguments(1, item, FALSE)
    BY DEF Arguments
  <2> QED
    BY <1>1, <2>1 DEF ToolArguments
<1>3. \A l, args : Origin(l, args) \subseteq Origin(l, args)'
  <2>1. \A l, a, b : Alike(l, a, b)' <=> Alike(l, a, b)
    BY <1>1 DEF Alike
  <2> QED
    BY <1>1, <1>2, <2>1 DEF Origin, MadeOf
<1>4. \A l, args : ArgsOK(l, args)' <=> ArgsOK(l, args)
  <2>1. Requests' = Requests
    BY DEF Requests
  <2> QED
    BY <1>1, <2>1 DEF ArgsOK
<1>5. \A l : ShapeOK(l)' <=> ShapeOK(l)
  BY <1>1 DEF ShapeOK
<1> QED
  BY <1>2, <1>3, <1>4, <1>5

LEMMA InitOrigin == Init => OriginOK
<1> SUFFICES ASSUME Init PROVE OriginOK
  OBVIOUS
<1>0. PICK sig \in ToolSignatures : sigs = <<sig>>
  BY DEF Init
<1>1. /\ layers = <<"tool">> /\ stack = << >> /\ outcome = None /\ store = << << >> >>
      /\ layers[1] = "tool" /\ DOMAIN sigs = {1} /\ DOMAIN store = {1} /\ DOMAIN store[1] = {}
  BY <1>0 DEF Init
<1>2. ShapeOK(1)
  BY <1>1, FirstLayer DEF ShapeOK, Extensions
<1>3. DOMAIN stack = {}
  BY <1>1, EmptyIsSeq
<1> QED
  BY <1>1, <1>2, <1>3 DEF OriginOK, CachedFrom, OutcomeFrom

LEMMA BindOrigin ==
    ASSUME Inv, OriginOK, NEW e \in Extensions, NEW sig, NEW refused \in BOOLEAN,
           Bind(e, sig, refused), Presents(e, Last(sigs), sig), Reason(e, refused)
    PROVE  OriginOK'
<1> PICK N : N = Len(layers)
  OBVIOUS
<1>1. /\ N \in Nat /\ N > 0 /\ phase = "binding" /\ stack = << >> /\ outcome = None
      /\ DOMAIN layers = 1 .. N /\ DOMAIN sigs = 1 .. N /\ DOMAIN store = 1 .. N
      /\ \A l \in 1 .. N : layers'[l] = layers[l]
      /\ layers'[N + 1] = e /\ DOMAIN store' = 1 .. N + 1
      /\ \A l \in 1 .. N : store'[l] = store[l]
      /\ store'[N + 1] = << >>
      /\ UNCHANGED <<stack, outcome>>
  BY BindFacts
<1>2. /\ SigsOK /\ LayersOK /\ SigsOK' /\ IsSeq(sigs)
      /\ \A l \in 1 .. N : store[l] = << >>
  <2>1. SigsOK'
    BY BindSigs
  <2> QED
    BY <1>1, <2>1, InvParts DEF QuietBefore, LayersOK
<1>3. DOMAIN stack' = {} /\ DOMAIN << >> = {}
  BY <1>1, EmptyIsSeq
<1>4. CachedFrom'
  <2>1. \A l \in 1 .. N + 1 : l \in 1 .. N \/ l = N + 1
    BY <1>1
  <2>2. \A l \in 1 .. N + 1 : DOMAIN store'[l] = {}
    BY <2>1, <1>1, <1>2, <1>3
  <2> QED
    BY <2>2, <1>1 DEF CachedFrom
<1>5. OutcomeFrom'
  BY <1>1 DEF OutcomeFrom
<1>6. /\ \A l \in 1 .. N : TakenBelow(l)' = TakenBelow(l)
      /\ \A l \in 1 .. N : Below("batch", l)' <=> Below("batch", l)
  <2>1. \A l \in 1 .. N : \A k \in 1 .. l : k \in 1 .. N
    BY <1>1
  <2> QED
    BY <2>1, <1>1 DEF TakenBelow, Below
<1>7. 1 \in 1 .. N /\ N \in 1 .. N
  BY <1>1
<1>8. ASSUME UNCHANGED sigs PROVE \A l \in DOMAIN sigs' : ShapeOK(l)'
  BY <1>1, <1>6, <1>8 DEF OriginOK, ShapeOK
<1>9. ASSUME sigs' = Append(sigs, sig) PROVE \A l \in DOMAIN sigs' : ShapeOK(l)'
  <2>1. /\ DOMAIN sigs' = 1 .. N + 1 /\ sigs'[N + 1] = sig
        /\ \A l \in 1 .. N : sigs'[l] = sigs[l]
    BY <1>1, <1>2, <1>9, Appended, BindFacts
  <2>2. ASSUME NEW l \in 1 .. N PROVE ShapeOK(l)'
    BY <2>1, <2>2, <1>1, <1>6, <1>7 DEF OriginOK, ShapeOK
  <2>3. /\ Below("batch", N + 1)' <=> Below("batch", N) \/ e = "batch"
        /\ TakenBelow(N + 1)' = TakenBelow(N) \cup Taken(e)
    <3>1. \A k : k \in 1 .. N + 1 <=> k \in 1 .. N \/ k = N + 1
      BY <1>1
    <3> QED
      BY <3>1, <1>1 DEF Below, TakenBelow
  <2>4. ASSUME e = "batch" PROVE ShapeOK(N + 1)'
    <3>1. sig = BatchSignature
      BY <2>4 DEF Presents
    <3>2. "params" \in Named(sig)
      <4>1. BatchSignature[1] = [name |-> "params", kind |-> 1, annotation |-> "value"] /\ 1 \in DOMAIN BatchSignature
        BY DEF BatchSignature, Param, Annotated, PositionalOrKeyword
      <4> QED
        BY <3>1, <4>1 DEF Named, Range, VarKeyword
    <3> QED
      BY <2>1, <2>3, <2>4, <3>2 DEF ShapeOK
  <2>5. ASSUME e # "batch" PROVE ShapeOK(N + 1)'
    <3>1. /\ sig \in Seq(Parameters) /\ sigs[N] \in Seq(Parameters) /\ Last(sigs) = sigs[N]
          /\ Range(sig) = Range(sigs[N]) \cup {Param(n, KeywordOnly) : n \in Taken(e)}
      BY <2>5, <1>1, <1>2, <1>7, BindFacts DEF Presents, SigsOK
    <3>2. Names(sig) = Names(sigs[N]) \cup Taken(e) /\ Named(sig) = Named(sigs[N]) \cup Taken(e)
      BY <3>1, ComposedNames
    <3>3. Names(sigs[N]) \cap Taken(e) = {}
      <4>1. N + 1 \in DOMAIN sigs' /\ N + 1 > 1 /\ (N + 1) - 1 = N
        BY <2>1, <1>1
      <4>2. Composes(N + 1)'
        BY <4>1, <1>2 DEF SigsOK
      <4> QED
        BY <4>1, <4>2, <2>1, <2>5, <1>1, <1>7 DEF Composes
    <3>4. ShapeOK(N)
      BY <1>1, <1>7 DEF OriginOK
    <3> QED
      BY <2>1, <2>3, <2>5, <3>2, <3>3, <3>4, <1>6, <1>7 DEF ShapeOK
  <2>6. \A l \in 1 .. N + 1 : l \in 1 .. N \/ l = N + 1
    BY <1>1
  <2> QED
    BY <2>1, <2>2, <2>4, <2>5, <2>6
<1>10. sigs' = Append(sigs, sig) \/ UNCHANGED sigs
  BY DEF Bind
<1> QED
  BY <1>1, <1>3, <1>4, <1>5, <1>8, <1>9, <1>10 DEF OriginOK

\* The top frame calls a layer for what it was called for itself.
LEMMA CallOrigin ==
    ASSUME Inv, OriginOK, stack # << >>, NEW f, NEW l, NEW args,
           Calls(f, l, args), CallFrom(f, l, args), UNCHANGED <<Fixed, Data>>,
           f.got \subseteq Origin(Top.layer, Top.args),
           layers[Top.layer] = "batch" => f.todo \in Seq(Range(Top.args["params"])),
           l # 0 => ArgsOK(l, args) /\ ToolArguments(l, args) \subseteq ToolArguments(Top.layer, Top.args)
    PROVE  OriginOK'
<1> PICK n : n = Len(stack)
  OBVIOUS
<1>1. /\ n \in Nat /\ n > 0 /\ DOMAIN stack = 1 .. n /\ Top = stack[n] /\ IsSeq(stack)
  BY TopFacts
<1>2. /\ stack' # << >> /\ DOMAIN stack' = 1 .. n + 1
      /\ \A i \in 1 .. n - 1 : stack'[i] = stack[i]
      /\ stack'[n] = f /\ stack'[n + 1] = Frame(l, args)
  BY <1>1, Replaced DEF CallFrom
<1>3. /\ Frame(l, args).layer = l /\ Frame(l, args).args = args
      /\ Frame(l, args).got = {} /\ Frame(l, args).todo = << >>
      /\ f.layer = stack[n].layer /\ f.args = stack[n].args /\ f.layer # 0
  BY <1>1, TopFacts DEF Calls, Frame
<1>4. UNCHANGED <<layers, sigs, store, made, given>> /\ outcome' = None
  BY DEF Fixed, Data, CallFrom
<1>5. /\ \A k, a : ToolArguments(k, a)' = ToolArguments(k, a)
      /\ \A k, a : Origin(k, a) \subseteq Origin(k, a)'
      /\ \A k, a : ArgsOK(k, a)' <=> ArgsOK(k, a)
      /\ \A k : ShapeOK(k)' <=> ShapeOK(k)
  BY <1>4, OriginGrows
<1>6. ASSUME NEW i \in 1 .. n PROVE FrameFrom(i)'
  <2>1. FrameFrom(i)
    BY <1>1 DEF OriginOK
  <2>2. /\ stack'[i].layer = stack[i].layer /\ stack'[i].args = stack[i].args
        /\ i > 1 => stack'[i - 1].layer = stack[i - 1].layer /\ stack'[i - 1].args = stack[i - 1].args
    <3>1. \A j \in 1 .. n : stack'[j].layer = stack[j].layer /\ stack'[j].args = stack[j].args
      <4>1. \A j \in 1 .. n : j \in 1 .. n - 1 \/ j = n
        BY <1>1
      <4> QED
        BY <4>1, <1>2, <1>3
    <3> QED
      BY <3>1, <1>1
  <2>3. stack[i].layer # 0 => stack'[i].got \subseteq Origin(stack[i].layer, stack[i].args)
    <3>1. CASE i = n
      BY <3>1, <1>1, <1>2
    <3>2. CASE i # n
      BY <3>2, <2>1, <1>1, <1>2 DEF FrameFrom
    <3> QED
      BY <3>1, <3>2
  <2>4. layers[stack[i].layer] = "batch" /\ stack[i].layer # 0
            => stack'[i].todo \in Seq(Range(stack[i].args["params"]))
    <3>1. CASE i = n
      BY <3>1, <1>1, <1>2
    <3>2. CASE i # n
      BY <3>2, <2>1, <1>1, <1>2 DEF FrameFrom
    <3> QED
      BY <3>1, <3>2
  <2> QED
    BY <2>1, <2>2, <2>3, <2>4, <1>4, <1>5 DEF FrameFrom
<1>7. FrameFrom(n + 1)'
  <2>1. (n + 1) - 1 = n /\ n + 1 > 1
    BY <1>1
  <2>2. << >> \in Seq(Range(args["params"]))
    BY EmptySeq
  <2> QED
    BY <2>1, <2>2, <1>1, <1>2, <1>3, <1>4, <1>5 DEF FrameFrom
<1>8. \A i \in 1 .. n + 1 : i \in 1 .. n \/ i = n + 1
  BY <1>1
<1>9. given' = stack'[1].args
  <2>1. given = stack[1].args
    BY DEF OriginOK
  <2>2. stack'[1].args = stack[1].args
    <3>1. CASE n = 1
      BY <3>1, <1>2, <1>3
    <3>2. CASE n # 1
      BY <3>2, <1>1, <1>2
    <3> QED
      BY <3>1, <3>2
  <2> QED
    BY <2>1, <2>2, <1>4
<1>10. CachedFrom' /\ OutcomeFrom'
  <2>1. CachedFrom
    BY DEF OriginOK
  <2> QED
    BY <2>1, <1>4, <1>5 DEF CachedFrom, OutcomeFrom
<1> QED
  BY <1>2, <1>4, <1>5, <1>6, <1>7, <1>8, <1>9, <1>10 DEF OriginOK

\* The top frame ends with what it may have from where it says.
LEMMA LeaveOrigin ==
    ASSUME Inv, OriginOK, stack # << >>, NEW o, o \in Outcomes, Leave(o), UNCHANGED Fixed,
           made \subseteq made', CachedFrom',
           \A t, args : t = Top.layer /\ args = Top.args /\ o.how = "returned" =>
                IF t = 0 THEN o.answer \subseteq {Width} ELSE o.answer \subseteq Origin(t, args)'
    PROVE  OriginOK'
<1> PICK n : n = Len(stack)
  OBVIOUS
<1> PICK N : N = Len(layers)
  OBVIOUS
<1> PICK t : t = Top.layer
  OBVIOUS
<1> PICK args : args = Top.args
  OBVIOUS
<1>1. /\ n \in Nat /\ n > 0 /\ DOMAIN stack = 1 .. n /\ Top = stack[n] /\ IsSeq(stack)
      /\ N \in Nat /\ N > 0 /\ t \in 0 .. N /\ DOMAIN layers = 1 .. N
  BY TopFacts, KindFacts
<1>2. /\ DOMAIN stack' = 1 .. n - 1
      /\ \A i \in 1 .. n - 1 : stack'[i] = stack[i]
      /\ stack' = << >> <=> n = 1
      /\ n = 1 => t = N
      /\ n > 1 => /\ Top' = stack[n - 1] /\ Top'.layer = N + 2 - n
                  /\ t = 0 => Top'.at = "next" /\ layers[Top'.layer] = "chain"
                  /\ t # 0 => Top'.at = "waiting" /\ Top'.layer = t + 1
  BY NextTop DEF Leave, Fixed
<1>3. UNCHANGED <<layers, sigs, given>> /\ outcome' = o
  BY DEF Fixed, Leave
<1>4. /\ \A k, a : ToolArguments(k, a)' = ToolArguments(k, a)
      /\ \A k, a : Origin(k, a) \subseteq Origin(k, a)'
      /\ \A k, a : ArgsOK(k, a)' <=> ArgsOK(k, a)
      /\ \A k : ShapeOK(k)' <=> ShapeOK(k)
  BY <1>3, OriginGrows
<1>5. ASSUME NEW i \in 1 .. n - 1 PROVE FrameFrom(i)'
  <2>1. stack'[i] = stack[i] /\ (i > 1 => stack'[i - 1] = stack[i - 1]) /\ i \in 1 .. n
    BY <1>1, <1>2
  <2>2. FrameFrom(i)
    BY <2>1, <1>1 DEF OriginOK
  <2> QED
    BY <2>1, <2>2, <1>3, <1>4 DEF FrameFrom
<1>6. stack' # << >> => given' = stack'[1].args
  BY <1>1, <1>2, <1>3 DEF OriginOK
<1>7. OutcomeFrom'
  <2> SUFFICES ASSUME o.how = "returned"
               PROVE  /\ n = 1 => o.answer \subseteq Origin(N, given)'
                      /\ n > 1 => \/ layers[stack[n - 1].layer] = "chain" /\ stack[n - 1].at = "waiting"
                                  \/ \E u, a : /\ u = stack[n - 1].layer /\ a = stack[n - 1].args
                                                /\ o.answer \subseteq Origin(u, a)'
    <3>1. n > 1 => \E u, a : u = Top'.layer /\ a = Top'.args /\ u = stack[n - 1].layer /\ a = stack[n - 1].args
      BY <1>2
    <3> QED
      BY <3>1, <1>1, <1>2, <1>3 DEF OutcomeFrom
  <2>1. CASE n = 1
    <3>1. given = args /\ t = N /\ t # 0
      BY <2>1, <1>1, <1>2 DEF OriginOK
    <3>2. o.answer \subseteq Origin(t, args)'
      BY <3>1
    <3> QED
      BY <2>1, <3>1, <3>2, <1>3
  <2>2. CASE n > 1 /\ t = 0
    <3>1. layers[stack[n - 1].layer] = "chain" /\ o.answer \subseteq {Width} /\ stack[n - 1].layer = N + 2 - n
      BY <2>2, <1>2
    <3>2. stack[n - 1].layer \in 1 .. stack[n - 1].layer
      <4>1. FrameOK(n - 1) /\ stack[n - 1].layer \in 0 .. N
        BY <2>2, <1>1, TopFacts DEF FrameOK
      <4>2. stack[n - 1].layer # 0
        BY <4>1, <2>2, <1>1 DEF FrameOK
      <4> QED
        BY <4>1, <4>2
    <3>3. Below("chain", stack[n - 1].layer)
      BY <3>1, <3>2 DEF Below
    <3> PICK u : u = stack[n - 1].layer
      OBVIOUS
    <3> PICK a : a = stack[n - 1].args
      OBVIOUS
    <3>4. o.answer \subseteq Origin(u, a)
      BY <3>1, <3>3 DEF Origin, MadeOf
    <3>5. o.answer \subseteq Origin(u, a)'
      BY <3>4, <1>4
    <3>6. \E v, b : v = stack[n - 1].layer /\ b = stack[n - 1].args /\ o.answer \subseteq Origin(v, b)'
      BY <3>5
    <3>7. n # 1
      BY <2>2, <1>1
    <3> QED
      BY <3>6, <3>7, Zenon
  <2>3. CASE n > 1 /\ t # 0
    <3> PICK u : u = stack[n - 1].layer
      OBVIOUS
    <3> PICK a : a = stack[n - 1].args
      OBVIOUS
    <3>1. u = t + 1 /\ stack[n - 1].at = "waiting" /\ u \in Nat /\ u > 1 /\ u - 1 = t
      <4>1. Top' = stack[n - 1] /\ Top'.at = "waiting" /\ Top'.layer = t + 1
        BY <2>3, <1>2
      <4>2. u = t + 1 /\ stack[n - 1].at = "waiting"
        BY <4>1
      <4>3. t \in Nat /\ t # 0
        BY <2>3, <1>1
      <4> QED
        BY <4>2, <4>3
    <3>2. ToolArguments(t, args) \subseteq ToolArguments(u, a)
      <4>1. FrameFrom(n)
        BY <1>1 DEF OriginOK
      <4> QED
        BY <4>1, <2>3, <1>1 DEF FrameFrom
    <3>3. ASSUME layers[u] # "chain" PROVE Origin(t, args)' \subseteq Origin(u, a)'
      <4>1. layers'[u] # "chain" /\ ToolArguments(u - 1, args)' \subseteq ToolArguments(u, a)'
        BY <3>1, <3>2, <3>3, <1>3, <1>4
      <4> QED
        BY <4>1, <3>1, OriginUpNext
    <3> QED
      BY <2>3, <3>1, <3>3
  <2> QED
    BY <2>1, <2>2, <2>3, <1>1
<1> QED
  BY <1>1, <1>2, <1>3, <1>4, <1>5, <1>6, <1>7 DEF OriginOK

--------------------------------------------------------------------------------
(* Where an answer is from, through each action.                                *)

\* What is known of the top frame, and of the layers.
LEMMA TopOrigin ==
    ASSUME Inv, OriginOK, stack # << >>, NEW t, t = Top.layer, NEW args, args = Top.args
    PROVE  /\ t \in 0 .. Len(layers) /\ Len(layers) \in Nat /\ layers[1] = "tool"
           /\ t # 0 => /\ ArgsOK(t, args) /\ Top.got \subseteq Origin(t, args)
                       /\ t \in Nat /\ Kind(Top) = layers[t]
                       /\ layers[t] = "batch" => Top.todo \in Seq(Range(args["params"]))
           /\ \A l \in 1 .. Len(layers) : l \in DOMAIN sigs /\ ShapeOK(l)
           /\ outcome # None /\ outcome.how = "returned" /\ (layers[t] # "chain" \/ Top.at = "next")
                => outcome.answer \subseteq Origin(t, args)
<1>1. /\ Len(stack) \in Nat /\ Len(stack) > 0 /\ DOMAIN stack = 1 .. Len(stack) /\ Top = stack[Len(stack)]
      /\ DOMAIN sigs = 1 .. Len(layers) /\ DOMAIN layers = 1 .. Len(layers)
      /\ Len(layers) \in Nat /\ Len(layers) > 0
  BY TopFacts
<1>2. layers[1] = "tool"
  <2>1. 1 \in DOMAIN layers
    BY <1>1
  <2> QED
    BY <2>1, InvParts DEF LayersOK
<1>3. t \in 0 .. Len(layers) /\ (t # 0 => Kind(Top) = layers[t])
  BY KindFacts
<1>4. FrameFrom(Len(stack))
  BY <1>1 DEF OriginOK
<1>5. t # 0 => /\ ArgsOK(t, args) /\ Top.got \subseteq Origin(t, args)
               /\ layers[t] = "batch" => Top.todo \in Seq(Range(args["params"]))
  BY <1>1, <1>4 DEF FrameFrom
<1>6. outcome # None /\ outcome.how = "returned" /\ (layers[t] # "chain" \/ Top.at = "next")
        => outcome.answer \subseteq Origin(t, args)
  BY DEF OriginOK, OutcomeFrom
<1> QED
  BY <1>1, <1>2, <1>3, <1>5, <1>6 DEF OriginOK

LEMMA StoreOrigin ==
    ASSUME OriginOK, UNCHANGED <<layers, sigs, store>>, made \subseteq made'
    PROVE  CachedFrom'
<1>1. /\ \A l, args : Origin(l, args) \subseteq Origin(l, args)'
      /\ \A l, args : ArgsOK(l, args)' <=> ArgsOK(l, args)
  BY OriginGrows
<1> QED
  BY <1>1 DEF OriginOK, CachedFrom

\* The top frame ends; no store changes.
LEMMA EndOrigin ==
    ASSUME Inv, OriginOK, stack # << >>, NEW o, o \in Outcomes, Leave(o), UNCHANGED <<Fixed, Data>>,
           NEW t, t = Top.layer, NEW args, args = Top.args,
           o.how = "returned" => IF t = 0 THEN o.answer \subseteq {Width}
                                 ELSE o.answer \subseteq Origin(t, args)
    PROVE  OriginOK'
<1>1. UNCHANGED <<layers, sigs, store, made>>
  BY DEF Fixed, Data
<1>2. CachedFrom'
  BY <1>1, StoreOrigin
<1>3. Origin(t, args) \subseteq Origin(t, args)'
  BY <1>1, OriginGrows
<1>4. \A k, a : k = Top.layer /\ a = Top.args /\ o.how = "returned" =>
                IF k = 0 THEN o.answer \subseteq {Width} ELSE o.answer \subseteq Origin(k, a)'
  <2> TAKE k, a
  <2> HAVE k = Top.layer /\ a = Top.args /\ o.how = "returned"
  <2>1. k = t /\ a = args
    OBVIOUS
  <2>2. t # 0 => o.answer \subseteq Origin(t, args)'
    BY <1>3
  <2> QED
    BY <2>1, <2>2
<1> QED
  BY <1>1, <1>2, <1>4, LeaveOrigin

\* A layer that is no batch calls the one below.
LEMMA BelowOrigin ==
    ASSUME Inv, OriginOK, stack # << >>, outcome = None, Kind(Top) \in Extensions \ {"batch"},
           CallBelow(Passed(Top)), UNCHANGED <<Fixed, Data>>
    PROVE  OriginOK'
<1> PICK t : t = Top.layer
  OBVIOUS
<1> PICK args : args = Top.args
  OBVIOUS
<1> PICK f : f = [Top EXCEPT !.at = "waiting"]
  OBVIOUS
<1> PICK passed : passed = Passed(Top)
  OBVIOUS
<1>1. /\ t \in 1 .. Len(layers) /\ t - 1 > 0 /\ Len(layers) \in Nat /\ t \in Nat /\ t > 1
      /\ DOMAIN Top = {"layer", "args", "at", "todo", "got"} /\ Kind(Top) = layers[t]
      /\ Top.got \in Answers /\ (Sealed(t - 1) => Fits(Top.got))
  BY KindFacts
<1>2. /\ DOMAIN f = {"layer", "args", "at", "todo", "got"} /\ f.got = Top.got
      /\ f.layer = t /\ f.args = Top.args /\ f.at = "waiting"
  BY <1>1
<1>3. Calls(f, t - 1, passed) /\ CallFrom(f, t - 1, passed)
  BY <1>1, <1>2, PassedArrives DEF Calls, CallBelow
<1>4. ArgsOK(t, args) /\ Top.got \subseteq Origin(t, args)
  BY <1>1, TopOrigin
<1>5. passed = Restrict(args, DOMAIN args \ Taken(layers[t])) /\ "params" \notin Taken(layers[t])
  BY <1>1, TakenNames DEF Passed, Extensions, Adding, Wrapping
<1>6. ArgsOK(t - 1, passed) /\ ToolArguments(t - 1, passed) = ToolArguments(t, args)
  BY <1>1, <1>4, <1>5, PassedOn
<1> QED
  BY <1>1, <1>2, <1>3, <1>4, <1>6, CallOrigin

\* A batch goes on with what it has gathered.
LEMMA ContinueOrigin ==
    ASSUME Inv, OriginOK, stack # << >>, Kind(Top) = "batch", NEW f,
           DOMAIN f = {"layer", "args", "at", "todo", "got"}, f.layer = Top.layer, f.args = Top.args,
           f.got \in Answers, Sealed(Top.layer - 1) => Fits(f.got),
           NEW t, t = Top.layer, NEW args, args = Top.args,
           f.got \subseteq Origin(t, args), f.todo \in Seq(Range(args["params"])),
           Continue(f), UNCHANGED <<Fixed, Data>>
    PROVE  OriginOK'
<1>0. "batch" \in Extensions
  BY DEF Extensions, Adding, Wrapping
<1>1. /\ t \in 1 .. Len(layers) /\ t > 1 /\ t - 1 > 0 /\ t \in Nat /\ Len(layers) \in Nat
      /\ layers[t] = "batch"
  BY <1>0, KindFacts
<1>2. CASE f.todo = << >>
  <2>1. Leave(Returned(f.got))
    BY <1>2 DEF Continue
  <2>2. Returned(f.got) \in Outcomes /\ Returned(f.got).answer = f.got
    BY OutcomeFacts
  <2> QED
    BY <2>1, <2>2, <1>1, EndOrigin
<1>3. CASE f.todo # << >>
  <2> PICK g : g = [f EXCEPT !.at = "waiting", !.todo = Tail(@)]
    OBVIOUS
  <2> PICK item : item = Head(f.todo)
    OBVIOUS
  <2> PICK below : below = Arguments(t - 1, item, FALSE)
    OBVIOUS
  <2>1. CallFrom(g, t - 1, below)
    BY <1>3 DEF Continue
  <2>2. /\ DOMAIN g = {"layer", "args", "at", "todo", "got"} /\ g.got = f.got
        /\ g.layer = t /\ g.args = Top.args /\ g.at = "waiting" /\ g.todo = Tail(f.todo)
    OBVIOUS
  <2>3. Calls(g, t - 1, below)
    BY <1>1, <2>2, ArgumentsOK DEF Calls
  <2>4. item \in Range(args["params"]) /\ g.todo \in Seq(Range(args["params"]))
    BY <1>3, <2>2, HeadTailProperties
  <2>5. /\ ArgsOK(t, args) /\ layers[1] = "tool"
        /\ 1 \in DOMAIN sigs /\ ShapeOK(1) /\ t - 1 \in DOMAIN sigs /\ ShapeOK(t - 1)
    BY <1>1, TopOrigin
  <2>6. ArgsOK(t - 1, below) /\ ToolArguments(t - 1, below) \subseteq ToolArguments(t, args)
    BY <1>1, <2>4, <2>5, ItemAsks
  <2>7. g.got \subseteq Origin(Top.layer, Top.args)
    BY <2>2
  <2>8. g.todo \in Seq(Range(Top.args["params"]))
    BY <2>4
  <2>9. ToolArguments(t - 1, below) \subseteq ToolArguments(Top.layer, Top.args)
    BY <2>6
  <2> QED
    BY <2>1, <2>3, <2>6, <2>7, <2>8, <2>9, CallOrigin
<1> QED
  BY <1>2, <1>3

LEMMA RunsOrigin ==
    ASSUME Inv, OriginOK, ToolRuns \/ PadRuns \/ CancelRunning \/ RouteRefused \/ KeyFails
    PROVE  OriginOK'
<1> PICK t : t = Top.layer
  OBVIOUS
<1> PICK args : args = Top.args
  OBVIOUS
<1>1. CASE ToolRuns
  <2>1. stack # << >> /\ Kind(Top) = "tool" /\ UNCHANGED <<Fixed, store>>
    BY <1>1 DEF ToolRuns, IsCalled
  <2>2. CASE Leave(Raised) /\ UNCHANGED made
    BY <2>1, <2>2, OutcomeFacts, EndOrigin DEF Data
  <2>3. ASSUME NEW w \in Widths, NEW answer, answer = IF Top.args["texts"] = 0 THEN {} ELSE {w},
               made' = made \cup {[args |-> Top.args, answer |-> answer]}, Leave(Returned(answer))
        PROVE  OriginOK'
    <3>1. t = 1 /\ ArgsOK(1, args) /\ layers[1] = "tool"
      BY <2>1, KindFacts, TopOrigin
    <3>2. UNCHANGED <<layers, sigs, store>> /\ made \subseteq made'
      BY <2>1, <2>3 DEF Fixed
    <3>3. CachedFrom'
      BY <3>2, StoreOrigin
    <3>4. answer \in Answers
      BY <2>3, WidthAssumption DEF Answers
    <3>5. Returned(answer) \in Outcomes /\ Returned(answer).answer = answer
      BY <3>4, OutcomeFacts
    <3>6. answer \subseteq Origin(1, args)'
      <4>1. ~ Below("chain", 1)' /\ ~ Below("batch", 1)' /\ TakenBelow(1)' = {}
        <5>1. /\ \A kind : Below(kind, 1)' <=> Below(kind, 1)
              /\ TakenBelow(1)' = TakenBelow(1)
          BY <3>2 DEF Below, TakenBelow
        <5> QED
          BY <5>1, <3>1, FirstLayer DEF Extensions, Adding, Wrapping
      <4>2. Restrict(args, DOMAIN args \ {}) = args
        BY <3>1 DEF ArgsOK, Restrict
      <4>3. ToolArguments(1, args)' = {args}
        BY <4>1, <4>2 DEF ToolArguments
      <4>4. [args |-> args, answer |-> answer] \in made'
        BY <2>3
      <4> QED
        BY <4>1, <4>3, <4>4 DEF Origin, MadeOf, Alike
    <3>7. \A k, a : k = Top.layer /\ a = Top.args /\ Returned(answer).how = "returned" =>
                IF k = 0 THEN Returned(answer).answer \subseteq {Width}
                ELSE Returned(answer).answer \subseteq Origin(k, a)'
      <4> TAKE k, a
      <4> HAVE k = Top.layer /\ a = Top.args /\ Returned(answer).how = "returned"
      <4>1. k = 1 /\ a = args
        BY <3>1
      <4> QED
        BY <4>1, <3>5, <3>6
    <3> QED
      BY <2>1, <2>3, <3>2, <3>3, <3>5, <3>7, LeaveOrigin
  <2> QED
    BY <1>1, <2>2, <2>3 DEF ToolRuns
<1>2. CASE PadRuns
  <2>1. stack # << >> /\ Kind(Top) = "next" /\ UNCHANGED <<Fixed, Data>>
    BY <1>2 DEF PadRuns, IsCalled
  <2> PICK o : o = IF Top.args = [single |-> TRUE, vectors |-> {0}] THEN Returned({})
                   ELSE Padded(Top.args.vectors)
    OBVIOUS
  <2>2. Leave(o)
    BY <1>2 DEF PadRuns
  <2>3. o \in {Raised, Returned({}), Returned({Width})}
    BY DEF Padded
  <2>4. {Width} \in Answers /\ {} \in Answers
    BY WidthAssumption DEF Answers
  <2>5. o \in Outcomes /\ (o.how = "returned" => o.answer \subseteq {Width})
    BY <2>3, <2>4, OutcomeFacts
  <2>6. t = 0
    BY <2>1, KindFacts
  <2> QED
    BY <2>1, <2>2, <2>5, <2>6, EndOrigin
<1>3. CASE CancelRunning \/ RouteRefused \/ KeyFails
  <2>1. stack # << >> /\ UNCHANGED <<Fixed, Data>>
    BY <1>3 DEF CancelRunning, RouteRefused, KeyFails, IsCalled
  <2> PICK o \in {Raised, Cancelled} : Leave(o)
    BY <1>3 DEF CancelRunning, RouteRefused, KeyFails
  <2>2. o \in Outcomes /\ o.how # "returned"
    BY OutcomeFacts
  <2> QED
    BY <2>1, <2>2, EndOrigin
<1> QED
  BY <1>1, <1>2, <1>3

LEMMA PassesOrigin ==
    ASSUME Inv, OriginOK, PassOn \/ Validate
    PROVE  OriginOK'
<1> PICK t : t = Top.layer
  OBVIOUS
<1> PICK args : args = Top.args
  OBVIOUS
<1>1. /\ stack # << >> /\ outcome # None /\ UNCHANGED <<Fixed, Data>>
      /\ \/ Leave(Raised)
         \/ Leave(outcome) /\ (outcome.how # "returned" \/ Kind(Top) # "chain" \/ Top.at = "next")
      /\ Kind(Top) \in Extensions
  BY DEF PassOn, Validate, IsBack, IsBackWith, Extensions, Adding, Wrapping
<1>2. /\ outcome \in Outcomes /\ t # 0 /\ Kind(Top) = layers[t]
  BY <1>1, TopFacts, KindFacts
<1>3. CASE Leave(Raised)
  BY <1>1, <1>3, OutcomeFacts, EndOrigin
<1>4. ASSUME Leave(outcome), outcome.how # "returned" \/ layers[t] # "chain" \/ Top.at = "next"
      PROVE  OriginOK'
  <2>1. outcome.how = "returned" => outcome.answer \subseteq Origin(t, args)
    BY <1>1, <1>4, TopOrigin
  <2> QED
    BY <2>1, <1>1, <1>2, <1>4, EndOrigin
<1> QED
  BY <1>1, <1>2, <1>3, <1>4

LEMMA CachesOrigin ==
    ASSUME Inv, OriginOK, CacheHits \/ CacheMisses \/ CacheWrites
    PROVE  OriginOK'
<1> PICK t : t = Top.layer
  OBVIOUS
<1> PICK args : args = Top.args
  OBVIOUS
<1> PICK own : own = KeyOf(Passed(Top))
  OBVIOUS
<1>0. /\ "cache" \in Extensions \ {"batch"}
      /\ stack # << >> /\ Kind(Top) = "cache" /\ UNCHANGED Fixed
  BY DEF CacheHits, CacheMisses, CacheWrites, IsCalled, IsBack, IsBackWith, Extensions, Adding, Wrapping
<1>1. /\ t \in 1 .. Len(layers) /\ t \in Nat /\ t > 1 /\ layers[t] = "cache" /\ ArgsOK(t, args)
      /\ DOMAIN store = 1 .. Len(layers)
  BY <1>0, KindFacts, TopOrigin, TopFacts
<1>2. own = KeyFor(args)
  BY <1>0 DEF Passed, KeyFor
<1>5. CASE CacheHits
  <2>1. own \in DOMAIN store[t] /\ Leave(Returned(store[t][own])) /\ UNCHANGED Data
    BY <1>5 DEF CacheHits
  <2> PICK answer : answer = store[t][own]
    OBVIOUS
  <2>2. answer \subseteq Origin(t, args)
    BY <2>1, <1>1, <1>2 DEF OriginOK, CachedFrom
  <2>3. answer \in Answers
    BY <2>1, <1>1, InvParts DEF LayersOK
  <2>4. Returned(answer) \in Outcomes /\ Returned(answer).answer = answer
    BY <2>3, OutcomeFacts
  <2> QED
    BY <2>1, <2>2, <2>4, <1>0, <1>1, EndOrigin
<1>6. CASE CacheMisses
  BY <1>0, <1>6, BelowOrigin DEF CacheMisses, IsCalled
<1>7. CASE CacheWrites
  <2> DEFINE values == [key \in DOMAIN store[t] \cup {own} |->
                            IF key = own THEN outcome.answer ELSE store[t][key]]
  <2>1. /\ outcome # None /\ outcome.how = "returned" /\ Leave(outcome) /\ UNCHANGED made
        /\ store' = [store EXCEPT ![t] = values]
    BY <1>7 DEF CacheWrites, IsBackWith, IsBack
  <2>2. outcome.answer \subseteq Origin(t, args) /\ outcome \in Outcomes
    BY <2>1, <1>0, <1>1, TopOrigin, TopFacts
  <2>3. UNCHANGED <<layers, sigs>> /\ made \subseteq made'
    BY <1>0, <2>1 DEF Fixed
  <2>4. /\ \A l, a : Origin(l, a) \subseteq Origin(l, a)'
        /\ \A l, a : ArgsOK(l, a)' <=> ArgsOK(l, a)
    BY <2>3, OriginGrows
  <2>5. ASSUME NEW l \in DOMAIN store', NEW key \in DOMAIN store'[l], NEW a,
               layers[l] = "cache", ArgsOK(l, a), KeyFor(a) = key
        PROVE  store'[l][key] \subseteq Origin(l, a)
    <3>1. l \in DOMAIN store /\ t \in DOMAIN store
      BY <2>1, <1>1
    <3>2. CASE l = t /\ key = own
      <4>1. store'[l] = values
        BY <3>1, <3>2, <2>1
      <4>2. store'[l][key] = outcome.answer
        BY <3>2, <4>1
      <4>3. Origin(t, args) \subseteq Origin(t, a)
        BY <3>2, <2>5, <1>1, <1>2, KeyDecides
      <4> QED
        BY <3>2, <4>2, <4>3, <2>2
    <3>3. CASE ~ (l = t /\ key = own)
      <4>1. key \in DOMAIN store[l] /\ store'[l][key] = store[l][key]
        <5>1. CASE l = t
          <6>1. store'[l] = values
            BY <3>1, <5>1, <2>1
          <6> QED
            BY <6>1, <5>1, <3>3
        <5>2. CASE l # t
          BY <5>2, <3>1, <2>1
        <5> QED
          BY <5>1, <5>2
      <4>2. store[l][key] \subseteq Origin(l, a)
        BY <4>1, <3>1, <2>5 DEF OriginOK, CachedFrom
      <4> QED
        BY <4>1, <4>2
    <3> QED
      BY <3>2, <3>3
  <2>6. CachedFrom'
    BY <2>3, <2>4, <2>5 DEF CachedFrom
  <2>7. \A k, a : k = Top.layer /\ a = Top.args /\ outcome.how = "returned" =>
                IF k = 0 THEN outcome.answer \subseteq {Width} ELSE outcome.answer \subseteq Origin(k, a)'
    <3> TAKE k, a
    <3> HAVE k = Top.layer /\ a = Top.args /\ outcome.how = "returned"
    <3>1. k = t /\ a = args /\ t # 0
      BY <1>1
    <3>2. outcome.answer \subseteq Origin(t, args)'
      BY <2>2, <2>4
    <3> QED
      BY <3>1, <3>2
  <2> QED
    BY <1>0, <2>1, <2>2, <2>3, <2>6, <2>7, LeaveOrigin
<1> QED
  BY <1>5, <1>6, <1>7

LEMMA ChainsOrigin ==
    ASSUME Inv, OriginOK, ChainCalls \/ WrapperCalls \/ ChainTransforms
    PROVE  OriginOK'
<1>0. {"prometheus_metrics", "output_schema", "proxy", "chain"} \subseteq Extensions \ {"batch"}
  BY DEF Extensions, Adding, Wrapping
<1>1. CASE ChainCalls \/ WrapperCalls
  BY <1>0, <1>1, BelowOrigin DEF ChainCalls, WrapperCalls, IsCalled
<1>2. CASE ChainTransforms
  <2>1. /\ stack # << >> /\ outcome # None /\ Kind(Top) = "chain" /\ UNCHANGED <<Fixed, Data>>
    BY <1>2 DEF ChainTransforms, IsBack, IsBackWith
  <2>2. CASE Leave(Raised) \/ Leave(Cancelled)
    <3> PICK o \in {Raised, Cancelled} : Leave(o)
      BY <2>2
    <3>1. o \in Outcomes /\ o.how # "returned"
      BY OutcomeFacts
    <3> QED
      BY <2>1, <3>1, EndOrigin
  <2>3. ASSUME NEW arg, CallFrom([Top EXCEPT !.at = "next"], 0, arg)
        PROVE  OriginOK'
    <3> PICK f : f = [Top EXCEPT !.at = "next"]
      OBVIOUS
    <3>1. /\ Top.layer \in 1 .. Len(layers) /\ layers[Top.layer] = "chain" /\ Top.layer # 0
          /\ DOMAIN Top = {"layer", "args", "at", "todo", "got"}
          /\ Top.got \in Answers /\ (Sealed(Top.layer - 1) => Fits(Top.got))
      BY <2>1, <1>0, KindFacts
    <3>2. /\ DOMAIN f = {"layer", "args", "at", "todo", "got"} /\ f.got = Top.got
          /\ f.layer = Top.layer /\ f.args = Top.args /\ f.at = "next"
      BY <3>1
    <3>3. Calls(f, 0, arg)
      BY <3>1, <3>2 DEF Calls
    <3>4. f.got \subseteq Origin(Top.layer, Top.args)
      BY <2>1, <3>1, <3>2, TopOrigin
    <3> QED
      BY <2>1, <2>3, <3>1, <3>3, <3>4, CallOrigin
  <2> QED
    BY <1>2, <2>2, <2>3 DEF ChainTransforms
<1> QED
  BY <1>1, <1>2

LEMMA BatchesOrigin ==
    ASSUME Inv, OriginOK, BatchStarts \/ BatchGoesOn
    PROVE  OriginOK'
<1> PICK t : t = Top.layer
  OBVIOUS
<1> PICK args : args = Top.args
  OBVIOUS
<1>0. "batch" \in Extensions
  BY DEF Extensions, Adding, Wrapping
<1>1. /\ stack # << >> /\ Kind(Top) = "batch" /\ UNCHANGED <<Fixed, Data>>
  BY DEF BatchStarts, BatchGoesOn, IsBack, IsCalled
<1>2. /\ DOMAIN Top = {"layer", "args", "at", "todo", "got"}
      /\ Top.got \in Answers /\ (Sealed(Top.layer - 1) => Fits(Top.got))
      /\ t \in Nat /\ t > 1 /\ layers[t] = "batch"
  BY <1>0, <1>1, KindFacts
<1>3. /\ ArgsOK(t, args) /\ Top.got \subseteq Origin(t, args)
      /\ Top.todo \in Seq(Range(args["params"]))
  BY <1>1, <1>2, TopOrigin
<1>4. CASE BatchStarts
  <2> PICK f : f = [Top EXCEPT !.todo = Top.args["params"]]
    OBVIOUS
  <2>1. Continue(f)
    BY <1>4 DEF BatchStarts
  <2>2. /\ DOMAIN f = {"layer", "args", "at", "todo", "got"} /\ f.got = Top.got
        /\ f.layer = Top.layer /\ f.args = Top.args /\ f.todo = args["params"]
    BY <1>2
  <2>3. args["params"] \in Seq(Range(args["params"]))
    <3>1. Below("batch", t)
      BY <1>2, LayerStep
    <3> QED
      BY <3>1, <1>3, ItemsOf DEF ArgsOK
  <2> QED
    BY <1>1, <1>2, <1>3, <2>1, <2>2, <2>3, ContinueOrigin
<1>5. CASE BatchGoesOn
  <2>1. /\ outcome # None
        /\ \/ outcome.how = "returned" /\ BatchGets(outcome.answer)
           \/ BatchGets({ErrorText})
           \/ outcome.how # "returned" /\ Leave(outcome)
    BY <1>5 DEF BatchGoesOn, IsBack
  <2>2. /\ outcome \in Outcomes /\ Top.at = "waiting"
        /\ outcome.how = "returned" => outcome.answer \in Answers
    BY <1>0, <1>1, <2>1, KindFacts, TopFacts, OutcomeFacts
  <2>3. outcome.how = "returned" => /\ Sealed(Top.layer - 1) => Fits(outcome.answer)
                                    /\ outcome.answer \subseteq Origin(t, args)
    BY <1>1, <1>2, <2>1, <2>2, InvParts, TopOrigin DEF WidthsOK
  <2>4. ASSUME NEW result \in Answers, Sealed(Top.layer - 1) => Fits(result),
               result \subseteq Origin(t, args), BatchGets(result)
        PROVE  OriginOK'
    <3> PICK f : f = [Top EXCEPT !.got = @ \cup result]
      OBVIOUS
    <3>1. Continue(f)
      BY <2>4 DEF BatchGets
    <3>2. /\ DOMAIN f = {"layer", "args", "at", "todo", "got"} /\ f.got = Top.got \cup result
          /\ f.layer = Top.layer /\ f.args = Top.args /\ f.todo = Top.todo
      BY <1>2
    <3>3. f.got \in Answers /\ (Sealed(Top.layer - 1) => Fits(f.got)) /\ f.got \subseteq Origin(t, args)
      BY <1>2, <1>3, <2>4, <3>2 DEF Answers, Fits
    <3> QED
      BY <1>1, <1>3, <3>1, <3>2, <3>3, ContinueOrigin
  <2>5. {ErrorText} \in Answers /\ Fits({ErrorText}) /\ {ErrorText} \subseteq Origin(t, args)
    <3>1. ErrorsBelow(t)
      BY <1>2, LayerStep
    <3> QED
      BY <3>1 DEF Answers, Fits, Origin, MadeOf
  <2>6. ASSUME outcome.how # "returned", Leave(outcome)
        PROVE  OriginOK'
    BY <1>1, <2>2, <2>6, EndOrigin
  <2> QED
    BY <2>1, <2>2, <2>3, <2>4, <2>5, <2>6
<1> QED
  BY <1>4, <1>5

LEMMA CallBeginsOrigin ==
    ASSUME Inv, OriginOK, NEW request \in Requests, Call(Arguments(Len(layers), request, TRUE))
    PROVE  OriginOK'
<1> PICK N : N = Len(layers)
  OBVIOUS
<1> PICK args : args = Arguments(N, request, TRUE)
  OBVIOUS
<1> PICK f : f = Frame(N, args)
  OBVIOUS
<1>1. /\ phase \in {"binding", "calling"} /\ stack = << >> /\ outcome = None
      /\ stack' = <<f>> /\ given' = args
      /\ UNCHANGED <<layers, sigs, outcome, store, made>>
  BY DEF Call, Data
<1>2. N \in Nat /\ N > 0 /\ DOMAIN sigs = 1 .. N
  <2>1. LayersOK /\ Len(sigs) = N /\ IsSeq(sigs) /\ sigs # << >>
    BY <1>1, InvParts DEF LayersOK
  <2> QED
    BY <2>1, SeqFacts
<1>3. f.layer = N /\ f.args = args /\ f.got = {} /\ f.todo = << >>
  BY DEF Frame
<1>4. DOMAIN stack' = {1} /\ stack'[1] = f /\ stack' # << >>
  BY <1>1
<1>5. ArgsOK(N, args)
  <2>1. N \in DOMAIN sigs
    BY <1>2
  <2> QED
    BY <2>1, ArgumentsAre DEF OriginOK
<1>6. /\ \A l, a : Origin(l, a) \subseteq Origin(l, a)'
      /\ \A l, a : ArgsOK(l, a)' <=> ArgsOK(l, a)
      /\ \A l : ShapeOK(l)' <=> ShapeOK(l)
  BY <1>1, OriginGrows
<1>7. FrameFrom(1)'
  <2>1. << >> \in Seq(Range(args["params"]))
    BY EmptySeq
  <2>2. ArgsOK(N, args)'
    BY <1>5, <1>6
  <2> PICK i : i = 1
    OBVIOUS
  <2>3. /\ stack'[i].layer = N /\ stack'[i].args = args
        /\ stack'[i].got = {} /\ stack'[i].todo = << >>
    BY <1>3, <1>4, Zenon
  <2>4. ~ i > 1
    OBVIOUS
  <2>5. FrameFrom(i)'
    BY <2>1, <2>2, <2>3, <2>4 DEF FrameFrom
  <2> QED
    BY <2>5
<1>8. CachedFrom' /\ OutcomeFrom'
  BY <1>1, StoreOrigin DEF OutcomeFrom
<1> QED
  BY <1>1, <1>3, <1>4, <1>6, <1>7, <1>8 DEF OriginOK

LEMMA QuietOrigin ==
    ASSUME Inv, OriginOK, Deliver \/ Over \/ UNCHANGED vars
    PROVE  OriginOK'
<1>1. UNCHANGED <<layers, sigs, store, made>>
  BY DEF Deliver, Over, vars, Data
<1>2. /\ \A l, a : ToolArguments(l, a)' = ToolArguments(l, a)
      /\ \A l, a : Origin(l, a) \subseteq Origin(l, a)'
      /\ \A l, a : ArgsOK(l, a)' <=> ArgsOK(l, a)
      /\ \A l : ShapeOK(l)' <=> ShapeOK(l)
  BY <1>1, OriginGrows
<1>3. CachedFrom'
  BY <1>1, StoreOrigin
<1>4. CASE Deliver
  <2>1. stack = << >> /\ stack' = << >> /\ outcome' = None
    BY <1>4 DEF Deliver
  <2>2. DOMAIN stack' = {} /\ OutcomeFrom'
    BY <2>1, EmptyIsSeq DEF OutcomeFrom
  <2> QED
    BY <1>1, <1>2, <1>3, <2>1, <2>2 DEF OriginOK
<1>5. CASE Over \/ UNCHANGED vars
  <2>1. UNCHANGED <<layers, sigs, stack, outcome, store, given, made>>
    BY <1>5 DEF Over, vars
  <2>2. \A i \in DOMAIN stack : FrameFrom(i)'
    BY <2>1, <1>2 DEF OriginOK, FrameFrom
  <2>3. OutcomeFrom'
    BY <2>1, <1>2 DEF OriginOK, OutcomeFrom, Top
  <2> QED
    BY <2>1, <2>2, <2>3, <1>2, <1>3 DEF OriginOK
<1> QED
  BY <1>4, <1>5

LEMMA NextOrigin == Inv /\ OriginOK /\ [Next]_vars => OriginOK'
<1> SUFFICES ASSUME Inv, OriginOK, [Next]_vars PROVE OriginOK'
  OBVIOUS
<1>1. CASE BindMetrics \/ BindCache \/ BindProxy \/ BindChain \/ BindBatch \/ BindOutputSchema
  BY <1>1, Binding, BindOrigin DEF Binds
<1>2. ASSUME NEW request \in Requests, Call(Arguments(Len(layers), request, TRUE))
      PROVE  OriginOK'
  BY <1>2, CallBeginsOrigin
<1>3. CASE ToolRuns \/ PadRuns \/ CancelRunning \/ RouteRefused \/ KeyFails
  BY <1>3, RunsOrigin
<1>4. CASE PassOn \/ Validate
  BY <1>4, PassesOrigin
<1>5. CASE CacheHits \/ CacheMisses \/ CacheWrites
  BY <1>5, CachesOrigin
<1>6. CASE ChainCalls \/ WrapperCalls \/ ChainTransforms
  BY <1>6, ChainsOrigin
<1>7. CASE BatchStarts \/ BatchGoesOn
  BY <1>7, BatchesOrigin
<1>8. CASE Deliver \/ Over \/ UNCHANGED vars
  BY <1>8, QuietOrigin
<1> QED
  BY <1>1, <1>2, <1>3, <1>4, <1>5, <1>6, <1>7, <1>8 DEF Next

--------------------------------------------------------------------------------
(* The theorems.                                                                *)

\* In every reachable state: the invariant that the properties below follow from.
THEOREM Invariance == Spec => []Inv
<1> QED
  BY InitInv, NextInv, PTL DEF Spec

\* Each layer of a stack, bound in any order and over any tool, has a signature, a store
\* and counters of its own while calls go down and outcomes come up.
THEOREM Typing == Spec => []TypeOK
<1>1. Inv => TypeOK
  <2> SUFFICES ASSUME Inv PROVE TypeOK
    OBVIOUS
  <2>1. /\ LayersOK /\ StackOK /\ MetricsOK
    BY InvParts
  <2> PICK N : N = Len(layers)
    OBVIOUS
  <2>2. /\ N \in Nat /\ N > 0 /\ DOMAIN layers = 1 .. N
        /\ layers \in Seq({"tool"} \cup Extensions)
        /\ DOMAIN store = 1 .. N /\ DOMAIN metrics = 1 .. N
    <3>1. Len(store) = Len(layers) /\ Len(metrics) = Len(layers)
      BY <2>1 DEF LayersOK
    <3> QED
      BY <2>1, <3>1, EmptySeq, LenProperties, SeqFacts DEF LayersOK
  <2>3. layers[1] = "tool" /\ \A l \in 2 .. N : layers[l] \in Extensions
    <3>1. \A l \in 2 .. N : l \in 1 .. N /\ l # 1
      BY <2>2
    <3>2. 1 \in 1 .. N /\ \A l \in 1 .. N : layers[l] \in {"tool"} \cup Extensions
      BY <2>2
    <3> QED
      BY <2>1, <2>2, <3>1, <3>2 DEF LayersOK
  <2>4. \A l \in 1 .. N : metrics[l].errors \in 0 .. metrics[l].calls
    <3> TAKE l \in 1 .. N
    <3>1. metrics \in Seq([calls : Nat, errors : Nat]) /\ metrics[l].errors <= metrics[l].calls
      BY <2>1, <2>2 DEF LayersOK, MetricsOK
    <3>2. metrics[l] \in [calls : Nat, errors : Nat]
      BY <2>2, <3>1, LenProperties
    <3> QED
      BY <3>1, <3>2
  <2>5. \A i \in DOMAIN stack : stack[i].layer \in 0 .. N /\ stack[i].at \in {"called", "waiting", "next"}
    BY <2>1 DEF StackOK, FrameOK
  <2> QED
    BY <2>1, <2>2, <2>3, <2>4, <2>5 DEF TypeOK, LayersOK
<1> QED
  BY <1>1, Invariance, PTL

\* In every order and over any tool, a factory refuses a name that occurs twice, a missing
\* schema, or, for a batch, annotations of the tool that it cannot read, and nothing else;
\* what is bound has one owner for each name between two batches.
THEOREM RefusedForCause == Spec => []BindRefusedForCause
<1>1. Inv => BindRefusedForCause
  <2> SUFFICES ASSUME Inv PROVE BindRefusedForCause
    OBVIOUS
  <2>1. SigsOK /\ LayersOK
    BY InvParts
  <2> PICK n : n = Len(sigs)
    OBVIOUS
  <2>2. n \in Nat /\ DOMAIN sigs = 1 .. n
    BY <2>1, SeqFacts DEF LayersOK
  <2>3. ASSUME NEW l \in DOMAIN sigs, Clashes(l) PROVE FALSE
    <3> PICK m \in 1 .. l - 1 : /\ \A k \in m + 1 .. l - 1 : layers[k] # "batch"
                                /\ \/ layers[m] = layers[l] /\ layers[l] \in Adding
                                   \/ m = 1 /\ Names(sigs[1]) \cap Taken(layers[l]) # {}
      BY <2>3 DEF Clashes
    <3>1. l - 1 \in DOMAIN sigs /\ m \in 1 .. l - 1 /\ l > 1 /\ m \in DOMAIN sigs
      BY <2>2
    <3>2. Names(sigs[m]) \subseteq Names(sigs[l - 1])
      BY <2>1, <3>1 DEF SigsOK, Through
    <3>3. layers[l] \in Extensions
      BY <2>1, <2>2, <3>1, KnownLayer
    <3>4. layers[l] # "batch" /\ Names(sigs[l - 1]) \cap Taken(layers[l]) = {}
      <4>1. Composes(l)
        BY <2>1, <3>1 DEF SigsOK
      <4>2. layers[l] # "batch"
        BY TakenNames DEF Extensions, Adding, Wrapping
      <4> QED
        BY <4>1, <4>2 DEF Composes
    <3>5. ASSUME layers[m] = layers[l], layers[l] \in Adding PROVE FALSE
      <4>1. m > 1
        BY <2>1, <2>2, <3>1, <3>3, <3>5, KnownLayer DEF Adding
      <4>2. Composes(m) /\ sigs[m] \in Seq(Parameters) /\ sigs[m - 1] \in Seq(Parameters)
        BY <2>1, <2>2, <3>1, <4>1 DEF SigsOK
      <4>3. Taken(layers[m]) \subseteq Names(sigs[m])
        BY <4>2, <3>4, <3>5, ComposedNames DEF Composes
      <4>4. Taken(layers[l]) # {}
        BY <3>5, TakenNames DEF Adding
      <4> QED
        BY <3>2, <3>4, <3>5, <4>3, <4>4
    <3> QED
      BY <3>2, <3>4, <3>5
  <2>4. phase = "refused" => \/ Last(layers) = "output_schema"
                             \/ Clashes(Len(layers)) \/ Blocked(Len(layers))
    BY <2>1 DEF SigsOK
  <2>5. Last(layers) = layers[Len(layers)]
    BY DEF Last
  <2>6. \A l \in DOMAIN sigs : ~ Blocked(l)
    BY <2>1 DEF SigsOK
  <2> QED
    BY <2>3, <2>4, <2>5, <2>6 DEF Blocked, BindRefusedForCause
<1> QED
  BY <1>1, Invariance, PTL

\* Whatever is stacked over whatever, each call gives a layer the parameters of its own
\* signature: control kwargs are taken out where they belong and nowhere else.
THEOREM ArgumentsAlwaysArrive == Spec => []ArgumentsArrive
<1>1. Inv => ArgumentsArrive
  BY InvParts
<1> QED
  BY <1>1, Invariance, PTL

\* However a call ended, and through whatever is stacked, the counters of the outermost
\* metrics layer and those of metrics layers that only wrappers separate agree with it.
THEOREM MetricsAlwaysMatch == Spec => []MetricsMatchOutcomes
<1>1. Inv => MetricsMatchOutcomes
  <2> SUFFICES ASSUME Inv, stack = << >>, outcome = None
               PROVE  /\ Last(layers) = "prometheus_metrics" =>
                              Last(metrics) = [calls |-> Delivered, errors |-> ended["raised"]]
                      /\ \A m, n \in DOMAIN layers :
                            /\ OuterAndInner(n, m, Wrapping) => /\ metrics[m].calls <= metrics[n].calls
                                                                /\ metrics[m].errors <= metrics[n].errors
                            /\ OuterAndInner(n, m, {"prometheus_metrics"}) => metrics[m] = metrics[n]
    BY DEF MetricsMatchOutcomes
  <2>1. LayersOK /\ MetricsOK /\ QuietBefore
    BY InvParts
  <2> DEFINE R == [calls : Nat, errors : Nat]
  <2> PICK N : N = Len(layers)
    OBVIOUS
  <2>2. /\ N \in Nat /\ N > 0 /\ DOMAIN layers = 1 .. N /\ DOMAIN metrics = 1 .. N
        /\ Len(metrics) = N /\ \A l \in 1 .. N : metrics[l] \in R
    <3>1. /\ metrics \in Seq(R) /\ Len(metrics) = Len(layers)
          /\ layers \in Seq({"tool"} \cup Extensions) /\ layers # << >>
      BY <2>1 DEF LayersOK
    <3>2. N \in Nat /\ N > 0 /\ DOMAIN layers = 1 .. N /\ DOMAIN metrics = 1 .. N
      BY <3>1, EmptySeq, LenProperties
    <3> HIDE DEF R
    <3>3. \A l \in 1 .. N : metrics[l] \in R
      BY <3>1, <3>2
    <3> QED
      BY <3>1, <3>2, <3>3
  <2>3. \A m, n : ~ InFlight(m, n)
    BY DEF InFlight
  <2>4. Last(layers) = "prometheus_metrics" => Last(metrics) = [calls |-> Delivered, errors |-> ended["raised"]]
    <3>1. CASE phase = "calling"
      BY <3>1, <2>1 DEF MetricsOK, Pending
    <3>2. CASE phase # "calling"
      <4>1. Delivered = 0 /\ ended["raised"] = 0
        BY <3>2, <2>1 DEF QuietBefore, LayersOK, Delivered
      <4>2. Last(metrics) = metrics[N] /\ N \in 1 .. N
        BY <2>2 DEF Last
      <4> QED
        BY <3>2, <4>1, <4>2, <2>1, <2>2 DEF QuietBefore
    <3> QED
      BY <3>1, <3>2
  <2>5. ASSUME NEW m \in DOMAIN layers, NEW n \in DOMAIN layers
        PROVE  /\ OuterAndInner(n, m, Wrapping) => /\ metrics[m].calls <= metrics[n].calls
                                                   /\ metrics[m].errors <= metrics[n].errors
               /\ OuterAndInner(n, m, {"prometheus_metrics"}) => metrics[m] = metrics[n]
    <3>1. metrics[m] \in R /\ metrics[n] \in R
      BY <2>2
    <3>2. /\ OuterAndInner(n, m, Wrapping) => /\ metrics[m].calls <= metrics[n].calls + 0
                                              /\ metrics[m].errors <= metrics[n].errors + 0
          /\ OuterAndInner(n, m, {"prometheus_metrics"}) => /\ metrics[m].calls = metrics[n].calls + 0
                                                            /\ metrics[m].errors = metrics[n].errors + 0
      BY <2>1, <2>3 DEF MetricsOK
    <3> QED
      BY <3>1, <3>2
  <2> QED
    BY <2>4, <2>5
<1> QED
  BY <1>1, Invariance, PTL

\* What a caller gets through a schema or a padding chain has the width asked for, in
\* every stack: no layer over the seal, and no cache, puts another width in its place.
THEOREM WidthsAlwaysAsAsked == Spec => []WidthsAreAsAsked
<1>1. Inv => WidthsAreAsAsked
  BY InvParts DEF WidthsOK, WidthsAreAsAsked, Fits
<1> QED
  BY <1>1, Invariance, PTL

\* In every reachable state, where each answer that is kept, gathered or on its way up is
\* from; a value that a cache keeps may be the answer to every call that has its key.
THEOREM OriginInvariance == Spec => [](Inv /\ OriginOK)
<1>1. Init => Inv /\ OriginOK
  BY InitInv, InitOrigin
<1>2. Inv /\ OriginOK /\ [Next]_vars => (Inv /\ OriginOK)'
  BY NextInv, NextOrigin
<1> QED
  BY <1>1, <1>2, PTL DEF Spec

\* In any stack, over any tool, and after any number of calls, an answer is made of what
\* the tool answered to the arguments it is an answer to, of the width a chain pads to, and
\* of the errors that a batch puts in the place of its items; through a cache, of what the
\* tool answered to arguments that differ from them in secrets alone, however many layers
\* are around it.
THEOREM AnswersAlwaysOfAlikeCalls == Spec => []AnswersAreOfAlikeCalls
<1>1. OriginOK => AnswersAreOfAlikeCalls
  BY DEF OriginOK, OutcomeFrom, AnswersAreOfAlikeCalls
<1> QED
  BY <1>1, OriginInvariance, PTL
================================================================================
