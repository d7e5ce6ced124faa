----------------------------- MODULE LexerProofs -----------------------------
(***************************************************************************)
(* What the scanner makes of any file: whole words, whole comments, and    *)
(* true positions.                                                         *)
(***************************************************************************)
EXTENDS Lexer, TLAPS, SequenceTheorems, WellFoundedInduction, FiniteSetTheorems

(* Induction, with the set of the numbers it holds of. *)
LEMMA UpTo ==
    ASSUME NEW n \in Nat, NEW S, 0 \in S, \A k \in 0..(n - 1) : k \in S => k + 1 \in S
    PROVE  \A k \in 0..n : k \in S
<1> SUFFICES ASSUME NEW j \in 0..n, j \notin S PROVE FALSE
    OBVIOUS
<1> DEFINE T == (0..n) \ S
<1>1. T \subseteq Nat /\ T # {}
    OBVIOUS
<1>2. \E x \in T : \A y \in T : ~(<<y, x>> \in OpToRel(<, Nat))
    <2> HIDE DEF T
    <2> QED BY <1>1, NatLessThanWellFounded, WFMin
<1>3. PICK x \in T : \A y \in T : ~(y < x)
    BY <1>1, <1>2 DEF OpToRel
<1>4. x # 0 /\ x - 1 \in 0..(n - 1)
    OBVIOUS
<1>5. x - 1 \notin T
    BY <1>1, <1>3
<1>6. x - 1 + 1 = x
    OBVIOUS
<1> QED BY <1>4, <1>5, <1>6

-----------------------------------------------------------------------------
(* Matching.  A match ends in the text and not before it begins. *)
Matcher(r, n) == DOMAIN r = 1..n /\ \A from \in 1..n : r[from] \subseteq from..n

LEMMA PlacesAre ==
    ASSUME NEW text \in Seq(Chars)
    PROVE  /\ Len(text) \in Nat /\ Places(text) = 1..(Len(text) + 1)
           /\ \A i \in 1..Len(text) : text[i] \in Chars
BY DEF Places

LEMMA ClassIs ==
    ASSUME NEW text \in Seq(Chars), NEW set
    PROVE  /\ Matcher(Class(text, set), Len(text) + 1)
           /\ \A from \in 1..(Len(text) + 1) : \A to :
                 to \in Class(text, set)[from] <=> from <= Len(text) /\ to = from + 1 /\ text[from] \in set
BY PlacesAre DEF Class, Matcher

LEMMA QuotedIs ==
    ASSUME NEW text \in Seq(Chars), NEW S, NEW word \in Seq(S)
    PROVE  /\ Matcher(Quoted(text, word), Len(text) + 1)
           /\ \A from \in 1..(Len(text) + 1) : \A to :
                 to \in Quoted(text, word)[from] <=>
                    /\ to = from + Len(word) /\ to <= Len(text) + 1
                    /\ \A k \in 1..Len(word) : text[from + k - 1] = word[k]
<1> DEFINE n == Len(text) + 1
           m == Len(word)
           q == Quoted(text, word)
<1>1. m \in Nat /\ DOMAIN word = 1..m /\ n \in Nat /\ Places(text) = 1..n
    BY PlacesAre
<1>2. /\ DOMAIN q = 1..n
      /\ \A from \in 1..n : q[from] = {to \in 1..n : to = from + m /\ \A k \in 1..m : text[from + k - 1] = word[k]}
    BY <1>1 DEF Quoted
<1> HIDE DEF n, m, q
<1>3. ASSUME NEW from \in 1..n, NEW to
      PROVE  to \in q[from] <=> to = from + m /\ to <= n /\ \A k \in 1..m : text[from + k - 1] = word[k]
    BY <1>1, <1>2
<1>4. \A from \in 1..n : q[from] \subseteq from..n
    BY <1>1, <1>2
<1> QED BY <1>2, <1>3, <1>4 DEF Matcher, n, m, q

LEMMA ThenIs ==
    ASSUME NEW n \in Nat, NEW r, NEW s, Matcher(r, n), Matcher(s, n)
    PROVE  /\ Matcher(Then(r, s), n)
           /\ \A from \in 1..n : \A to : to \in Then(r, s)[from] <=> \E i \in r[from] : to \in s[i]
<1>1. \A from \in 1..n : \A to : to \in Then(r, s)[from] <=> \E i \in r[from] : to \in s[i]
    BY DEF Then, Matcher
<1>2. ASSUME NEW from \in 1..n, NEW to \in Then(r, s)[from] PROVE to \in from..n
  <2>1. PICK i \in r[from] : to \in s[i]
      BY <1>1
  <2>2. i \in from..n /\ i \in 1..n
      BY DEF Matcher
  <2>3. to \in i..n
      BY <2>1, <2>2 DEF Matcher
  <2> QED BY <2>2, <2>3
<1>3. DOMAIN Then(r, s) = 1..n
    BY DEF Then, Matcher
<1> QED BY <1>1, <1>2, <1>3 DEF Matcher

LEMMA OrIs ==
    ASSUME NEW n \in Nat, NEW r, NEW s, Matcher(r, n), Matcher(s, n)
    PROVE  /\ Matcher(Or(r, s), n)
           /\ \A from \in 1..n : Or(r, s)[from] = r[from] \cup s[from]
BY DEF Or, Matcher

(* The places behind a place reach their matches before it does. *)
StarStep(r, f, from) == {from} \cup UNION {f[i] : i \in r[from] \ {from}}

LEMMA StarIs ==
    ASSUME NEW n \in Nat, NEW r, Matcher(r, n)
    PROVE  /\ DOMAIN Star(r) = 1..n
           /\ \A from \in 1..n : Star(r)[from] = StarStep(r, Star(r), from)
<1> DEFINE Good == {d \in Nat : \E f : f = [from \in (n + 1 - d)..n |-> StarStep(r, f, from)]}
<1>1. 0 \in Good
  <2> DEFINE f == [from \in (n + 1)..n |-> {}]
  <2>1. f = [from \in (n + 1)..n |-> StarStep(r, f, from)]
      OBVIOUS
  <2>2. n + 1 - 0 = n + 1
      OBVIOUS
  <2> QED BY <2>1, <2>2
<1>2. ASSUME NEW d \in 0..(n - 1), d \in Good PROVE d + 1 \in Good
  <2>1. PICK f : f = [from \in (n + 1 - d)..n |-> StarStep(r, f, from)]
      BY <1>2
  <2> DEFINE m == n - d
             g == [from \in m..n |-> IF from = m THEN StarStep(r, f, from) ELSE f[from]]
  <2>2. m \in 1..n /\ n + 1 - (d + 1) = m /\ n + 1 - d = m + 1
      OBVIOUS
  <2>3. ASSUME NEW from \in m..n PROVE g[from] = StarStep(r, g, from)
    <3>1. \A i \in r[from] \ {from} : i \in (m + 1)..n /\ i # m /\ i \in m..n
      <4>1. r[from] \subseteq from..n /\ m \in Nat
          BY <2>2 DEF Matcher
      <4> HIDE DEF m
      <4> QED BY <4>1
    <3>2. \A i \in r[from] \ {from} : g[i] = f[i]
        BY <3>1
    <3>3. StarStep(r, g, from) = StarStep(r, f, from)
      <4> HIDE DEF g
      <4> QED BY <3>2 DEF StarStep
    <3>4. CASE from = m
        BY <3>3, <3>4
    <3>5. CASE from # m
      <4>1. from \in (n + 1 - d)..n
          BY <2>2, <3>5
      <4>2. f[from] = StarStep(r, f, from)
          BY <2>1, <4>1
      <4> QED BY <3>3, <3>5, <4>2
    <3> QED BY <3>4, <3>5
  <2>4. g = [from \in m..n |-> StarStep(r, g, from)]
      BY <2>3
  <2> HIDE DEF g, m
  <2> QED BY <2>2, <2>4
<1>3. n \in Good
  <2> HIDE DEF Good
  <2>1. \A k \in 0..n : k \in Good
      BY <1>1, <1>2, UpTo
  <2> QED BY <2>1
<1>4. \E f : f = [from \in 1..n |-> StarStep(r, f, from)]
  <2>1. n + 1 - n = 1
      OBVIOUS
  <2> QED BY <1>3, <2>1
<1>5. Star(r) = CHOOSE f : f = [from \in 1..n |-> StarStep(r, f, from)]
    BY DEF Star, StarStep, Matcher
<1>6. Star(r) = [from \in 1..n |-> StarStep(r, Star(r), from)]
    BY <1>4, <1>5
<1> DEFINE s == Star(r)
<1> HIDE DEF s
<1>7. s = [from \in 1..n |-> StarStep(r, s, from)]
    BY <1>6 DEF s
<1>8. DOMAIN s = 1..n /\ \A from \in 1..n : s[from] = StarStep(r, s, from)
    BY <1>7
<1> QED BY <1>8 DEF s

(* Where every turn of a loop stays, the loop stays. *)
LEMMA StarStays ==
    ASSUME NEW n \in Nat, NEW r, Matcher(r, n), NEW S, \A p \in S \cap (1..n) : r[p] \subseteq S
    PROVE  \A p \in S \cap (1..n) : Star(r)[p] \subseteq S
<1> DEFINE s == Star(r)
           Good == {d \in Nat : \A p \in (n + 1 - d)..n : p \in S => s[p] \subseteq S}
<1>0. \A from \in 1..n : s[from] = StarStep(r, s, from)
    BY StarIs
<1> HIDE DEF s
<1>1. 0 \in Good
    OBVIOUS
<1>2. ASSUME NEW d \in 0..(n - 1), d \in Good PROVE d + 1 \in Good
  <2> DEFINE m == n - d
  <2>1. m \in 1..n /\ n + 1 - (d + 1) = m /\ n + 1 - d = m + 1
      OBVIOUS
  <2>2. ASSUME m \in S, NEW to \in s[m] PROVE to \in S
    <3>1. to = m \/ \E i \in r[m] \ {m} : to \in s[i]
        BY <1>0, <2>1 DEF StarStep
    <3>2. \A i \in r[m] \ {m} : i \in S /\ i \in (m + 1)..n
      <4>1. r[m] \subseteq m..n /\ m \in 1..n
          BY <2>1 DEF Matcher
      <4> HIDE DEF m
      <4> QED BY <2>2, <4>1
    <3>3. \A i \in (m + 1)..n : i \in S => s[i] \subseteq S
        BY <1>2, <2>1
    <3> HIDE DEF m
    <3> QED BY <2>2, <3>1, <3>2, <3>3
  <2>3. \A p \in m..n : p = m \/ p \in (m + 1)..n
      BY <2>1
  <2>4. \A p \in m..n : p \in S => s[p] \subseteq S
    <3>1. \A i \in (m + 1)..n : i \in S => s[i] \subseteq S
        BY <1>2, <2>1
    <3> HIDE DEF m
    <3> QED BY <2>2, <2>3, <3>1
  <2> QED BY <2>1, <2>4
<1>3. n \in Good
  <2> HIDE DEF Good
  <2>1. \A k \in 0..n : k \in Good
      BY <1>1, <1>2, UpTo
  <2> QED BY <2>1
<1>4. n + 1 - n = 1
    OBVIOUS
<1> QED BY <1>3, <1>4 DEF s

LEMMA StarMatches ==
    ASSUME NEW n \in Nat, NEW r, Matcher(r, n)
    PROVE  Matcher(Star(r), n)
<1>1. ASSUME NEW from \in 1..n PROVE Star(r)[from] \subseteq from..n
  <2> DEFINE S == from..n
  <2>1. \A p \in S \cap (1..n) : r[p] \subseteq S
      BY DEF Matcher
  <2>2. from \in S \cap (1..n)
      OBVIOUS
  <2> HIDE DEF S
  <2>3. Star(r)[from] \subseteq S
      BY <2>1, <2>2, StarStays
  <2> QED BY <2>3 DEF S
<1> QED BY <1>1, StarIs DEF Matcher

(* A loop can stop at once and can take another turn. *)
LEMMA StarGoesOn ==
    ASSUME NEW n \in Nat, NEW r, Matcher(r, n)
    PROVE  /\ \A from \in 1..n : from \in Star(r)[from]
           /\ \A from \in 1..n : \A p \in Star(r)[from] : r[p] \subseteq Star(r)[from]
<1> DEFINE s == Star(r)
           Good == {d \in Nat : \A from \in (n + 1 - d)..n : \A p \in s[from] : r[p] \subseteq s[from]}
<1>0. \A from \in 1..n : s[from] = StarStep(r, s, from) /\ s[from] \subseteq from..n
    BY StarIs, StarMatches DEF Matcher
<1> HIDE DEF s
<1>5. \A from \in 1..n : from \in s[from]
    BY <1>0 DEF StarStep
<1>1. 0 \in Good
    OBVIOUS
<1>2. ASSUME NEW d \in 0..(n - 1), d \in Good PROVE d + 1 \in Good
  <2> DEFINE m == n - d
  <2>1. m \in 1..n /\ n + 1 - (d + 1) = m /\ n + 1 - d = m + 1
      OBVIOUS
  <2>6. \A i \in (m + 1)..n : \A p \in s[i] : r[p] \subseteq s[i]
      BY <1>2, <2>1
  <2>7. r[m] \subseteq m..n
      BY <2>1 DEF Matcher
  <2>3. \A p \in m..n : p = m \/ p \in (m + 1)..n
      BY <2>1
  <2>8. n + 1 - (d + 1) = m
      BY <2>1
  <2> HIDE DEF m
  <2>9. \A i \in r[m] \ {m} : i \in 1..n /\ i \in (m + 1)..n /\ s[i] \subseteq s[m]
    <3>1. \A i \in r[m] \ {m} : i \in (m + 1)..n /\ i \in 1..n
        BY <2>1, <2>7
    <3> QED BY <1>0, <2>1, <3>1 DEF StarStep
  <2>2. ASSUME NEW p \in s[m], NEW q \in r[p] PROVE q \in s[m]
    <3>1. p = m \/ \E i \in r[m] \ {m} : p \in s[i]
        BY <1>0, <2>1 DEF StarStep
    <3>2. CASE p = m
      <4>1. CASE q = m
          BY <1>5, <2>1, <4>1
      <4>2. CASE q # m
        <5>1. q \in r[m] \ {m}
            BY <3>2, <4>2
        <5> QED BY <1>5, <2>9, <5>1
      <4> QED BY <4>1, <4>2
    <3>3. CASE p # m
      <4>1. PICK i \in r[m] \ {m} : p \in s[i]
          BY <3>1, <3>3
      <4>2. q \in s[i]
          BY <2>6, <2>9, <4>1
      <4> QED BY <2>9, <4>2
    <3> QED BY <3>2, <3>3
  <2>4. \A from \in m..n : \A p \in s[from] : r[p] \subseteq s[from]
      BY <2>2, <2>3, <2>6
  <2> QED BY <2>4, <2>8
<1>3. n \in Good
  <2> HIDE DEF Good
  <2>1. \A k \in 0..n : k \in Good
      BY <1>1, <1>2, UpTo
  <2> QED BY <2>1
<1>4. n + 1 - n = 1
    OBVIOUS
<1> QED BY <1>3, <1>4, <1>5 DEF s

(* A loop over a class: as long as the characters are in it. *)
LEMMA StarOfClass ==
    ASSUME NEW text \in Seq(Chars), NEW set, NEW from \in 1..(Len(text) + 1), NEW to
    PROVE  to \in Star(Class(text, set))[from] <=>
               to \in from..(Len(text) + 1) /\ \A i \in from..(to - 1) : text[i] \in set
<1> DEFINE n == Len(text) + 1
           r == Class(text, set)
           s == Star(r)
           T == {q \in from..n : \A i \in from..(q - 1) : text[i] \in set}
<1>1. n \in Nat /\ from \in 1..n /\ Matcher(r, n) /\ Len(text) = n - 1
    BY ClassIs, PlacesAre
<1>2. \A p \in 1..n : \A q : q \in r[p] <=> p < n /\ q = p + 1 /\ text[p] \in set
  <2>1. \A p \in 1..n : \A q : q \in r[p] <=> p <= Len(text) /\ q = p + 1 /\ text[p] \in set
      BY ClassIs
  <2> HIDE DEF r
  <2> QED BY <1>1, <2>1
<1>3. s[from] \subseteq T
  <2>1. ASSUME NEW p \in T \cap (1..n), NEW q \in r[p] PROVE q \in T
    <3>1. p < n /\ q = p + 1 /\ text[p] \in set /\ p \in 1..n
        BY <1>2
    <3>2. \A i \in from..(q - 1) : i = p \/ i \in from..(p - 1)
        BY <3>1
    <3>3. \A i \in from..(p - 1) : text[i] \in set
        OBVIOUS
    <3>4. q \in from..n
        BY <1>1, <3>1
    <3> HIDE DEF n, r
    <3> QED BY <3>1, <3>2, <3>3, <3>4
  <2>2. from \in T \cap (1..n)
      BY <1>1
  <2> HIDE DEF T, n, r
  <2> QED BY <1>1, <2>1, <2>2, StarStays DEF s
<1>4. \A p \in 1..n : p \in s[p] /\ \A q \in s[p] : r[q] \subseteq s[p]
  <2> HIDE DEF n, r
  <2> QED BY <1>1, StarGoesOn DEF s
<1>5. ASSUME NEW q \in T PROVE q \in s[from]
  <2> DEFINE Good == {d \in Nat : from + d <= q => from + d \in s[from]}
  <2> HIDE DEF n, r, s
  <2>1. 0 \in Good
      BY <1>1, <1>4
  <2>2. ASSUME NEW d \in 0..(q - from - 1), d \in Good PROVE d + 1 \in Good
    <3>1. from + d \in 1..n /\ from + d < n /\ from + d \in from..(q - 1)
        BY <1>1
    <3>2. from + d + 1 \in r[from + d]
        BY <1>2, <3>1
    <3>3. from + d \in s[from]
        BY <2>2, <3>1
    <3>4. from + d + 1 \in s[from]
        BY <1>1, <1>4, <3>2, <3>3
    <3>5. from + (d + 1) = from + d + 1
        BY <1>1
    <3> QED BY <3>4, <3>5
  <2>3. q - from \in Nat /\ from + (q - from) = q
      BY <1>1
  <2>4. \A d \in 0..(q - from) : d \in Good
    <3> HIDE DEF Good
    <3> QED BY <2>1, <2>2, <2>3, UpTo
  <2>5. q - from \in Good
    <3> DEFINE d == q - from
    <3> HIDE DEF Good
    <3>1. d \in Nat
        BY <2>3
    <3>2. d \in 0..d
      <4> HIDE DEF d
      <4> QED BY <3>1
    <3> QED BY <2>4, <3>2
  <2> QED BY <2>3, <2>5
<1> QED BY <1>3, <1>5

LEMMA PlusOfClass ==
    ASSUME NEW text \in Seq(Chars), NEW set, NEW to
    PROVE  /\ Matcher(Plus(Class(text, set)), Len(text) + 1)
           /\ to \in Plus(Class(text, set))[1] <=>
                 to \in 2..(Len(text) + 1) /\ \A i \in 1..(to - 1) : text[i] \in set
<1> DEFINE n == Len(text) + 1
           r == Class(text, set)
<1>1. n \in Nat /\ 1 \in 1..n /\ Matcher(r, n) /\ Len(text) = n - 1
    BY ClassIs, PlacesAre
<1>2. Matcher(Star(r), n)
  <2> HIDE DEF r
  <2> QED BY <1>1, StarMatches
<1>3. Matcher(Plus(r), n) /\ (to \in Plus(r)[1] <=> \E i \in r[1] : to \in Star(r)[i])
  <2> HIDE DEF r, n
  <2> QED BY <1>1, <1>2, ThenIs DEF Plus
<1>4. \A i : i \in r[1] <=> 1 <= n - 1 /\ i = 2 /\ text[1] \in set
  <2>1. \A i : i \in r[1] <=> 1 <= Len(text) /\ i = 1 + 1 /\ text[1] \in set
      BY <1>1, ClassIs
  <2> HIDE DEF r
  <2> QED BY <1>1, <2>1
<1>5. 2 <= n => (to \in Star(r)[2] <=> to \in 2..n /\ \A i \in 2..(to - 1) : text[i] \in set)
  <2>1. 2 <= n => 2 \in 1..(Len(text) + 1)
      BY <1>1
  <2> QED BY <2>1, StarOfClass
<1>6. to \in 2..n => \A i \in 1..(to - 1) : i = 1 \/ i \in 2..(to - 1)
    OBVIOUS
<1>7. to \in 2..n => 1 \in 1..(to - 1) /\ \A i \in 2..(to - 1) : i \in 1..(to - 1)
    OBVIOUS
<1> HIDE DEF n, r
<1>8. to \in Plus(r)[1] <=> to \in 2..n /\ \A i \in 1..(to - 1) : text[i] \in set
    BY <1>1, <1>3, <1>4, <1>5, <1>6, <1>7
<1> QED BY <1>3, <1>8 DEF n, r

-----------------------------------------------------------------------------
(* The rules. *)
LEMMA CharPatternIs ==
    ASSUME NEW text \in Seq(Chars), NEW to \in CharPattern(text)[1]
    PROVE  /\ to = 4 /\ Len(text) >= 3
           /\ text[1] \in Quotes /\ text[2] # "\n" /\ text[3] \in Quotes
<1> DEFINE n == Len(text) + 1
           quote == Class(text, Quotes)
           other == Class(text, Chars \ {"!", "\n", "\t"})
<1>1. n \in Nat /\ 1 \in 1..n /\ Len(text) = n - 1
    BY PlacesAre
<1>2. /\ Matcher(quote, n) /\ Matcher(other, n)
      /\ \A p \in 1..n : \A q : q \in quote[p] <=> p <= Len(text) /\ q = p + 1 /\ text[p] \in Quotes
      /\ \A p \in 1..n : \A q : q \in other[p] <=> p <= Len(text) /\ q = p + 1 /\ text[p] \in Chars \ {"!", "\n", "\t"}
    BY ClassIs
<1>3. CharPattern(text) = Then(quote, Then(other, quote))
    BY DEF CharPattern
<1> HIDE DEF n, quote, other
<1>4. /\ Matcher(Then(other, quote), n)
      /\ \A p \in 1..n : \A q : q \in Then(other, quote)[p] <=> \E i \in other[p] : q \in quote[i]
    BY <1>1, <1>2, ThenIs
<1>5. PICK i \in quote[1] : to \in Then(other, quote)[i]
    BY <1>1, <1>2, <1>3, <1>4, ThenIs
<1>6. 1 <= Len(text) /\ i = 2 /\ i \in 1..n /\ text[1] \in Quotes
    BY <1>1, <1>2, <1>5
<1>7. PICK j \in other[i] : to \in quote[j]
    BY <1>4, <1>5, <1>6
<1>8. 2 <= Len(text) /\ j = 3 /\ j \in 1..n /\ text[2] # "\n"
    BY <1>1, <1>2, <1>6, <1>7
<1> QED BY <1>1, <1>2, <1>6, <1>7, <1>8

(* A comment that ends is closed for the first time there. *)
Opens(text) == Len(text) >= 2 /\ text[1] = "/" /\ text[2] = "*"
Closes(text) == {k \in 4..Len(text) : text[k - 1] = "*" /\ text[k] = "/"}
CloseIs(text, k) == k \in Closes(text) /\ \A j \in Closes(text) : k <= j

Inner(text) ==
    Or(Class(text, Chars \ {"*"}), Then(Star(Class(text, {"*"})), Class(text, Chars \ {"*", "/"})))
End(text) == Then(Star(Class(text, {"*"})), Quoted(text, <<"*", "/">>))

LEMMA QuotedTwo ==
    ASSUME NEW text \in Seq(Chars), NEW from \in 1..(Len(text) + 1), NEW to, NEW a, NEW b
    PROVE  /\ Matcher(Quoted(text, <<a, b>>), Len(text) + 1)
           /\ to \in Quoted(text, <<a, b>>)[from] <=>
                 to = from + 2 /\ to <= Len(text) + 1 /\ text[from] = a /\ text[from + 1] = b
<1> DEFINE w == <<a, b>>
<1>1. w \in Seq({a, b}) /\ Len(w) = 2 /\ w[1] = a /\ w[2] = b
    OBVIOUS
<1> HIDE DEF w
<1>2. /\ Matcher(Quoted(text, w), Len(text) + 1)
      /\ to \in Quoted(text, w)[from] <=>
            /\ to = from + Len(w) /\ to <= Len(text) + 1
            /\ \A k \in 1..Len(w) : text[from + k - 1] = w[k]
    BY <1>1, QuotedIs
<1>3. 1..Len(w) = {1, 2} /\ from + 1 - 1 = from /\ from + 2 - 1 = from + 1
  <2>1. 1..2 = {1, 2}
      OBVIOUS
  <2> QED BY <1>1, <2>1
<1>4. (\A k \in 1..Len(w) : text[from + k - 1] = w[k]) <=> text[from] = a /\ text[from + 1] = b
    BY <1>1, <1>3
<1> QED BY <1>1, <1>2, <1>4 DEF w

(* A turn over the inside of a comment: a character that is no star, or    *)
(* stars and one that is neither a star nor a slash.                       *)
LEMMA InnerIs ==
    ASSUME NEW text \in Seq(Chars), NEW from \in 1..(Len(text) + 1), NEW to
    PROVE  /\ Matcher(Inner(text), Len(text) + 1)
           /\ to \in Inner(text)[from] <=>
                 /\ to \in (from + 1)..(Len(text) + 1) /\ text[to - 1] # "*"
                 /\ \A i \in from..(to - 2) : text[i] = "*"
                 /\ to # from + 1 => text[to - 1] # "/"
<1> DEFINE n == Len(text) + 1
           a == Class(text, Chars \ {"*"})
           b == Class(text, Chars \ {"*", "/"})
           r == Class(text, {"*"})
           s == Star(r)
<1>1. n \in Nat /\ from \in 1..n /\ Len(text) = n - 1
    BY PlacesAre
<1>2. Matcher(a, n) /\ Matcher(b, n) /\ Matcher(r, n)
    BY ClassIs
<1>3. \A i \in 1..(n - 1) : text[i] \in Chars
    BY PlacesAre
<1>4. \A p \in 1..n : \A q : q \in a[p] <=> p < n /\ q = p + 1 /\ text[p] # "*"
  <2>1. \A p \in 1..n : \A q : q \in a[p] <=> p <= Len(text) /\ q = p + 1 /\ text[p] \in Chars \ {"*"}
      BY ClassIs
  <2> HIDE DEF a, n
  <2> QED BY <1>1, <1>3, <2>1
<1>5. \A p \in 1..n : \A q : q \in b[p] <=> p < n /\ q = p + 1 /\ text[p] # "*" /\ text[p] # "/"
  <2>1. \A p \in 1..n : \A q : q \in b[p] <=> p <= Len(text) /\ q = p + 1 /\ text[p] \in Chars \ {"*", "/"}
      BY ClassIs
  <2> HIDE DEF b, n
  <2> QED BY <1>1, <1>3, <2>1
<1>6. \A q : q \in s[from] <=> q \in from..n /\ \A i \in from..(q - 1) : text[i] \in {"*"}
    BY StarOfClass
<1>7. Matcher(s, n)
  <2> HIDE DEF n, r
  <2> QED BY <1>1, <1>2, StarMatches
<1>9. Inner(text) = Or(a, Then(s, b))
    BY DEF Inner
<1> HIDE DEF a, b, s, r, n
<1>8. Matcher(Then(s, b), n) /\ \A q : q \in Then(s, b)[from] <=> \E i \in s[from] : q \in b[i]
    BY <1>1, <1>2, <1>7, ThenIs
<1>10. Matcher(Inner(text), n) /\ Inner(text)[from] = a[from] \cup Then(s, b)[from]
    BY <1>1, <1>2, <1>8, <1>9, OrIs
<1>11. to \in Then(s, b)[from] <=>
          /\ to \in (from + 1)..n /\ text[to - 1] # "*" /\ text[to - 1] # "/"
          /\ \A i \in from..(to - 2) : text[i] = "*"
  <2>1. ASSUME NEW i \in s[from], to \in b[i]
        PROVE  /\ to \in (from + 1)..n /\ text[to - 1] # "*" /\ text[to - 1] # "/"
               /\ \A j \in from..(to - 2) : text[j] = "*"
    <3>1. i \in from..n /\ i \in 1..n
        BY <1>1, <1>6
    <3>2. i < n /\ to = i + 1 /\ text[i] # "*" /\ text[i] # "/"
        BY <1>5, <2>1, <3>1
    <3>3. to - 1 = i /\ to - 2 = i - 1
        BY <3>1, <3>2
    <3>4. \A j \in from..(i - 1) : text[j] \in {"*"}
        BY <1>6
    <3> QED BY <1>1, <3>1, <3>2, <3>3, <3>4
  <2>2. ASSUME to \in (from + 1)..n, text[to - 1] # "*", text[to - 1] # "/",
               \A j \in from..(to - 2) : text[j] = "*"
        PROVE  \E i \in s[from] : to \in b[i]
    <3>1. to - 1 \in from..n /\ to - 1 \in 1..n /\ to - 1 < n /\ to - 1 + 1 = to /\ to - 1 - 1 = to - 2
        BY <1>1, <2>2
    <3>2. to \in b[to - 1]
        BY <1>5, <2>2, <3>1
    <3>3. \A j \in from..(to - 1 - 1) : text[j] \in {"*"}
        BY <2>2, <3>1
    <3>4. to - 1 \in s[from]
        BY <1>6, <3>1, <3>3
    <3> QED BY <3>2, <3>4
  <2> QED BY <1>8, <2>1, <2>2
<1>12. to \in a[from] <=> to = from + 1 /\ to \in (from + 1)..n /\ text[to - 1] # "*"
  <2>1. to \in a[from] <=> from < n /\ to = from + 1 /\ text[from] # "*"
      BY <1>1, <1>4
  <2>2. from + 1 - 1 = from /\ (from < n <=> from + 1 \in (from + 1)..n)
      BY <1>1
  <2> QED BY <2>1, <2>2
<1>13. to = from + 1 => from..(to - 2) = {}
    BY <1>1
<1>14. to \in (from + 1)..n => (to # from + 1 \/ to = from + 1)
    OBVIOUS
<1>15. to \in Inner(text)[from] <=>
                 /\ to \in (from + 1)..n /\ text[to - 1] # "*"
                 /\ \A i \in from..(to - 2) : text[i] = "*"
                 /\ to # from + 1 => text[to - 1] # "/"
    BY <1>10, <1>11, <1>12, <1>13
<1> QED BY <1>10, <1>15 DEF n

LEMMA EndIs ==
    ASSUME NEW text \in Seq(Chars), NEW from \in 1..(Len(text) + 1), NEW to
    PROVE  /\ Matcher(End(text), Len(text) + 1)
           /\ to \in End(text)[from] <=>
                 /\ to \in (from + 2)..(Len(text) + 1) /\ text[to - 2] = "*" /\ text[to - 1] = "/"
                 /\ \A i \in from..(to - 3) : text[i] = "*"
<1> DEFINE n == Len(text) + 1
           q == Quoted(text, <<"*", "/">>)
           r == Class(text, {"*"})
           s == Star(r)
<1>1. n \in Nat /\ from \in 1..n /\ Len(text) = n - 1
    BY PlacesAre
<1>2. Matcher(r, n)
    BY ClassIs
<1>3. Matcher(q, n) /\ \A p \in 1..n : \A t : t \in q[p] <=> t = p + 2 /\ t <= n /\ text[p] = "*" /\ text[p + 1] = "/"
  <2>1. Matcher(q, n)
      BY <1>1, QuotedTwo
  <2>2. ASSUME NEW p \in 1..n, NEW t
        PROVE  t \in q[p] <=> t = p + 2 /\ t <= n /\ text[p] = "*" /\ text[p + 1] = "/"
      BY QuotedTwo
  <2> HIDE DEF q, n
  <2> QED BY <2>1, <2>2
<1>6. \A t : t \in s[from] <=> t \in from..n /\ \A i \in from..(t - 1) : text[i] \in {"*"}
    BY StarOfClass
<1>7. Matcher(s, n)
  <2> HIDE DEF n, r
  <2> QED BY <1>1, <1>2, StarMatches
<1>9. End(text) = Then(s, q)
    BY DEF End
<1> HIDE DEF q, s, r, n
<1>8. Matcher(Then(s, q), n) /\ \A t : t \in Then(s, q)[from] <=> \E i \in s[from] : t \in q[i]
    BY <1>1, <1>3, <1>7, ThenIs
<1>10. to \in Then(s, q)[from] <=>
                 /\ to \in (from + 2)..n /\ text[to - 2] = "*" /\ text[to - 1] = "/"
                 /\ \A i \in from..(to - 3) : text[i] = "*"
  <2>1. ASSUME NEW i \in s[from], to \in q[i]
        PROVE  /\ to \in (from + 2)..n /\ text[to - 2] = "*" /\ text[to - 1] = "/"
               /\ \A j \in from..(to - 3) : text[j] = "*"
    <3>1. i \in from..n /\ i \in 1..n
        BY <1>1, <1>6
    <3>2. to = i + 2 /\ to <= n /\ text[i] = "*" /\ text[i + 1] = "/"
        BY <1>3, <2>1, <3>1
    <3>3. to - 2 = i /\ to - 1 = i + 1 /\ to - 3 = i - 1
        BY <3>1, <3>2
    <3>4. \A j \in from..(i - 1) : text[j] \in {"*"}
        BY <1>6
    <3> QED BY <1>1, <3>1, <3>2, <3>3, <3>4
  <2>2. ASSUME to \in (from + 2)..n, text[to - 2] = "*", text[to - 1] = "/",
               \A j \in from..(to - 3) : text[j] = "*"
        PROVE  \E i \in s[from] : to \in q[i]
    <3>1. /\ to - 2 \in from..n /\ to - 2 \in 1..n /\ to = to - 2 + 2 /\ to <= n
          /\ to - 2 + 1 = to - 1 /\ to - 2 - 1 = to - 3
        BY <1>1, <2>2
    <3>2. to \in q[to - 2]
        BY <1>3, <2>2, <3>1
    <3>3. \A j \in from..(to - 2 - 1) : text[j] \in {"*"}
        BY <2>2, <3>1
    <3>4. to - 2 \in s[from]
        BY <1>6, <3>1, <3>3
    <3> QED BY <3>2, <3>4
  <2> QED BY <1>8, <2>1, <2>2
<1> QED BY <1>8, <1>9, <1>10 DEF n

LEMMA CommentParts ==
    ASSUME NEW text \in Seq(Chars)
    PROVE  /\ CommentPattern(text) = Then(Quoted(text, <<"/", "*">>), Then(Star(Inner(text)), End(text)))
           /\ Matcher(CommentPattern(text), Len(text) + 1)
           /\ Matcher(Star(Inner(text)), Len(text) + 1) /\ Matcher(Inner(text), Len(text) + 1)
           /\ Matcher(Then(Star(Inner(text)), End(text)), Len(text) + 1)
           /\ Matcher(End(text), Len(text) + 1)
           /\ Matcher(Quoted(text, <<"/", "*">>), Len(text) + 1)
<1> DEFINE n == Len(text) + 1
           q == Quoted(text, <<"/", "*">>)
           body == Then(Star(Inner(text)), End(text))
<1>1. n \in Nat /\ 1 \in 1..n /\ 1 \in 1..(Len(text) + 1)
    BY PlacesAre
<1>2. Matcher(Inner(text), n)
    BY <1>1, InnerIs
<1>3. Matcher(End(text), n)
    BY <1>1, EndIs
<1>4. Matcher(q, n)
    BY <1>1, QuotedTwo
<1>5. CommentPattern(text) = Then(q, body)
    BY DEF CommentPattern, CommentBody, Inner, End
<1> HIDE DEF n, q
<1>6. Matcher(Star(Inner(text)), n)
    BY <1>1, <1>2, StarMatches
<1>7. Matcher(body, n)
    BY <1>1, <1>3, <1>6, ThenIs
<1>8. Matcher(Then(q, body), n)
  <2> HIDE DEF body
  <2> QED BY <1>1, <1>4, <1>7, ThenIs
<1> QED BY <1>2, <1>3, <1>4, <1>5, <1>6, <1>7, <1>8 DEF n, q

LEMMA CommentStops ==
    ASSUME NEW text \in Seq(Chars), NEW to \in CommentPattern(text)[1]
    PROVE  Opens(text) /\ CloseIs(text, to - 1)
<1> DEFINE n == Len(text) + 1
           q == Quoted(text, <<"/", "*">>)
           s == Star(Inner(text))
           body == Then(s, End(text))
<1>1. n \in Nat /\ 1 \in 1..n /\ Len(text) = n - 1
    BY PlacesAre
<1>2. /\ CommentPattern(text) = Then(q, body) /\ Matcher(q, n) /\ Matcher(body, n)
      /\ Matcher(s, n) /\ Matcher(Inner(text), n) /\ Matcher(End(text), n)
    BY CommentParts
<1>3. \A i : i \in q[1] => i = 3 /\ 3 <= n /\ text[1] = "/" /\ text[2] = "*"
  <2>1. \A i : i \in q[1] => i = 1 + 2 /\ i <= Len(text) + 1 /\ text[1] = "/" /\ text[1 + 1] = "*"
      BY <1>1, QuotedTwo
  <2> HIDE DEF q
  <2> QED BY <1>1, <2>1
<1> HIDE DEF q
<1>4. PICK i \in q[1] : to \in body[i]
  <2> HIDE DEF n, body
  <2> QED BY <1>1, <1>2, ThenIs
<1>5. i = 3 /\ 3 \in 1..n /\ Opens(text)
    BY <1>1, <1>3, <1>4 DEF Opens
<1>6. PICK j \in s[3] : to \in End(text)[j]
  <2> HIDE DEF n, s
  <2>1. to \in body[3]
      BY <1>4, <1>5
  <2> QED BY <1>1, <1>2, <1>5, <2>1, ThenIs
<1> DEFINE S == {p \in 3..n : /\ \A k \in 4..(p - 1) : ~(text[k - 1] = "*" /\ text[k] = "/")
                              /\ p = 3 \/ text[p - 1] # "*"}
<1>7. ASSUME NEW p \in S \cap (1..n), NEW t \in Inner(text)[p] PROVE t \in S
  <2>1. /\ t \in (p + 1)..n /\ text[t - 1] # "*" /\ \A l \in p..(t - 2) : text[l] = "*"
        /\ t # p + 1 => text[t - 1] # "/"
      BY <1>1, InnerIs
  <2>5. t \in (p + 1)..n
      BY <2>1
  <2>6. p \in 3..n
      OBVIOUS
  <2>2. /\ p \in 3..n /\ (p = 3 \/ text[p - 1] # "*")
        /\ \A k \in 4..(p - 1) : ~(text[k - 1] = "*" /\ text[k] = "/")
      OBVIOUS
  <2> HIDE DEF n, S
  <2>3. ASSUME NEW k \in 4..(t - 1), text[k - 1] = "*", text[k] = "/" PROVE FALSE
    <3>1. k \in 4..(p - 1) \/ k \in p..(t - 2) \/ k = t - 1
        BY <1>1, <2>1, <2>2
    <3>2. CASE k \in p..(t - 2)
        BY <2>1, <2>3, <3>2
    <3>3. CASE k = t - 1
      <4>1. t = p + 1 /\ k = p
          BY <1>1, <2>1, <2>2, <2>3, <3>3
      <4> QED BY <2>2, <2>3, <4>1
    <3> QED BY <2>2, <2>3, <3>1, <3>2, <3>3
  <2>4. t \in 3..n
    <3>1. p \in Int /\ 3 <= p
        BY <2>6
    <3>2. t \in Int /\ p + 1 <= t /\ t <= n
        BY <2>5
    <3> QED BY <3>1, <3>2
  <2> QED BY <2>1, <2>3, <2>4 DEF S
<1>8. j \in S
  <2>1. 3 \in S \cap (1..n)
      BY <1>1, <1>5
  <2> HIDE DEF n, S
  <2>2. s[3] \subseteq S
      BY <1>1, <1>2, <1>7, <2>1, StarStays
  <2> QED BY <1>6, <2>2
<1>9. /\ j \in 3..n /\ \A k \in 4..(j - 1) : ~(text[k - 1] = "*" /\ text[k] = "/")
    BY <1>8
<1>10. /\ to \in (j + 2)..n /\ text[to - 2] = "*" /\ text[to - 1] = "/"
       /\ \A l \in j..(to - 3) : text[l] = "*"
  <2>1. j \in 1..n
      BY <1>1, <1>9
  <2> QED BY <1>6, <2>1, EndIs
<1> HIDE DEF n, S
<1>11. to - 1 \in 4..Len(text) /\ to - 1 - 1 = to - 2
    BY <1>1, <1>9, <1>10
<1>12. to - 1 \in Closes(text)
    BY <1>10, <1>11 DEF Closes
<1>13. ASSUME NEW k \in Closes(text), ~(to - 1 <= k) PROVE FALSE
  <2>1. k \in 4..Len(text) /\ text[k - 1] = "*" /\ text[k] = "/"
      BY DEF Closes
  <2>2. k \in 4..(j - 1) \/ k \in j..(to - 3) \/ k = to - 2
      BY <1>1, <1>9, <1>10, <1>13, <2>1
  <2> QED BY <1>9, <1>10, <2>1, <2>2
<1> QED BY <1>5, <1>12, <1>13 DEF CloseIs

LEMMA CommentGoesOn ==
    ASSUME NEW text \in Seq(Chars), Opens(text), NEW m, CloseIs(text, m)
    PROVE  m + 1 \in CommentPattern(text)[1]
<1> DEFINE n == Len(text) + 1
           q == Quoted(text, <<"/", "*">>)
           s == Star(Inner(text))
           body == Then(s, End(text))
<1>1. n \in Nat /\ 1 \in 1..n /\ Len(text) = n - 1
    BY PlacesAre
<1>2. /\ CommentPattern(text) = Then(q, body) /\ Matcher(q, n) /\ Matcher(body, n)
      /\ Matcher(s, n) /\ Matcher(Inner(text), n) /\ Matcher(End(text), n)
    BY CommentParts
<1>3. m \in 4..(n - 1) /\ text[m - 1] = "*" /\ text[m] = "/"
    BY <1>1 DEF CloseIs, Closes
<1>4. \A k \in 4..(m - 1) : ~(text[k - 1] = "*" /\ text[k] = "/")
  <2>1. ASSUME NEW k \in 4..(m - 1), text[k - 1] = "*", text[k] = "/" PROVE FALSE
    <3>1. k \in Closes(text) /\ ~(m <= k)
        BY <1>1, <1>3, <2>1 DEF Closes
    <3> QED BY <3>1 DEF CloseIs
  <2> QED BY <2>1
<1>5. 3 \in q[1]
  <2>1. 3 = 1 + 2 /\ 3 <= Len(text) + 1 /\ text[1] = "/" /\ text[1 + 1] = "*"
      BY <1>1, <1>3 DEF Opens
  <2> QED BY <1>1, <2>1, QuotedTwo
<1>6. /\ 3 \in s[3] /\ \A p \in s[3] : Inner(text)[p] \subseteq s[3]
      /\ s[3] \subseteq 3..n
  <2>1. 3 \in 1..n
      BY <1>1, <1>3
  <2> HIDE DEF n
  <2> QED BY <1>1, <1>2, <2>1, StarGoesOn DEF Matcher
<1> DEFINE Good == {d \in Nat : \E p \in s[3] : p <= d + 3 /\ \A i \in p..(d + 2) : text[i] = "*"}
<1> HIDE DEF n, q, s
<1>7. 0 \in Good
  <2>1. 3..2 = {} /\ 0 + 2 = 2
      OBVIOUS
  <2> QED BY <1>6, <2>1
<1>8. ASSUME NEW d \in 0..(m - 5), d \in Good PROVE d + 1 \in Good
  <2>1. PICK p \in s[3] : p <= d + 3 /\ \A i \in p..(d + 2) : text[i] = "*"
      BY <1>8
  <2> DEFINE j == d + 3
  <2>2. p \in 3..n /\ p \in 1..n /\ j \in 3..(m - 2) /\ j + 1 \in 1..n /\ d + 1 + 3 = j + 1 /\ d + 1 + 2 = j
        /\ d + 2 = j - 1 /\ p <= j /\ d + 1 \in Nat
      BY <1>1, <1>3, <1>6, <2>1
  <2>3. \A i \in p..(j - 1) : text[i] = "*"
      BY <2>1, <2>2
  <2> HIDE DEF j
  <2>4. CASE text[j] = "*"
    <3>1. \A i \in p..j : text[i] = "*"
        BY <2>2, <2>3, <2>4
    <3>2. p <= j + 1
        BY <2>2
    <3> QED BY <2>2, <3>1, <3>2
  <2>5. CASE text[j] # "*"
    <3>1. j + 1 \in (p + 1)..n /\ j + 1 - 1 = j /\ j + 1 - 2 = j - 1
        BY <1>1, <2>2
    <3>2. j + 1 # p + 1 => text[j] # "/"
      <4> SUFFICES ASSUME j # p, text[j] = "/" PROVE FALSE
          BY <1>1, <2>2
      <4>1. j - 1 \in p..(j - 1) /\ j \in 4..(m - 1)
          BY <1>1, <1>3, <2>2
      <4> QED BY <1>4, <2>3, <4>1
    <3>3. j + 1 \in Inner(text)[p]
      <4>1. p \in 1..(Len(text) + 1) /\ j + 1 \in (p + 1)..(Len(text) + 1)
          BY <2>2, <3>1 DEF n
      <4> DEFINE t == j + 1
      <4>2. t \in (p + 1)..(Len(text) + 1)
          BY <4>1
      <4>7. j \in Int
          BY <2>2
      <4>3. t - 1 = j /\ t - 2 = j - 1
          BY <4>7
      <4>8. t # p + 1 => text[j] # "/"
          BY <3>2
      <4> HIDE DEF t
      <4>4. text[t - 1] # "*" /\ \A i \in p..(t - 2) : text[i] = "*"
          BY <2>3, <2>5, <4>3
      <4>6. t # p + 1 => text[t - 1] # "/"
          BY <4>3, <4>8
      <4>5. t \in Inner(text)[p]
          BY <4>1, <4>2, <4>4, <4>6, InnerIs
      <4> QED BY <4>5 DEF t
    <3>4. j + 1 \in s[3]
        BY <1>6, <3>3
    <3>5. (j + 1)..j = {} /\ j + 1 <= j + 1
        BY <2>2
    <3> QED BY <2>2, <3>4, <3>5
  <2> QED BY <2>4, <2>5
<1>9. m - 4 \in Good
  <2>1. m - 4 \in Nat /\ m - 4 - 1 = m - 5
      BY <1>1, <1>3
  <2> DEFINE e == m - 4
  <2> HIDE DEF Good, e
  <2>2. e \in Nat /\ \A d \in 0..(e - 1) : d \in Good => d + 1 \in Good
      BY <1>8, <2>1 DEF e
  <2>3. \A k \in 0..e : k \in Good
      BY <1>7, <2>2, UpTo
  <2>4. e \in 0..e
      BY <2>2
  <2> QED BY <2>3, <2>4 DEF e
<1>10. PICK p \in s[3] : p <= m - 1 /\ \A i \in p..(m - 2) : text[i] = "*"
  <2>1. m - 4 + 3 = m - 1 /\ m - 4 + 2 = m - 2
      BY <1>1, <1>3
  <2> QED BY <1>9, <2>1
<1>11. m + 1 \in End(text)[p]
  <2>1. /\ p \in 1..n /\ m + 1 \in (p + 2)..n /\ m + 1 - 2 = m - 1 /\ m + 1 - 1 = m /\ m + 1 - 3 = m - 2
      BY <1>1, <1>3, <1>6, <1>10
  <2>2. p \in 1..(Len(text) + 1) /\ m + 1 \in (p + 2)..(Len(text) + 1)
      BY <2>1 DEF n
  <2> QED BY <1>3, <1>10, <2>1, <2>2, EndIs
<1>12. m + 1 \in body[3]
  <2>1. 3 \in 1..n
      BY <1>1, <1>3
  <2> QED BY <1>1, <1>2, <1>10, <1>11, <2>1, ThenIs
<1> HIDE DEF body
<1> QED BY <1>1, <1>2, <1>5, <1>12, ThenIs

-----------------------------------------------------------------------------
(* The rules, one by one. *)
LEMMA RulesAre ==
    /\ DOMAIN LexRules = 1..34
    /\ LexRules[1] = "comment" /\ LexRules[29] = "ID" /\ LexRules[30] = "NUM" /\ LexRules[31] = "eol"
    /\ LexRules[32] = "blank" /\ LexRules[33] = "CHAR" /\ LexRules[34] = "error"
BY DEF LexRules, SignRules, KeywordRules, OtherRules

LEMMA Characters ==
    /\ Letters \subseteq Chars /\ Digits \subseteq Chars
    /\ \A c \in {"+", "-", "*", "/", "<", ">", "=", "!", ";", ",", "(", ")", "[", "]", "{", "}"} : c \in Chars
    /\ "/" \notin Letters /\ "\n" \notin Letters
<1>1. \A c \in {"+", "-", "*", "/", "<", ">", "=", "!", ";", ",", "(", ")", "[", "]", "{", "}"} : c \in Signs
    BY Zenon DEF Signs
<1>2. "/" \notin Letters /\ "\n" \notin Letters
    BY DEF Letters
<1> QED BY <1>1, <1>2 DEF Chars

LEMMA Apart ==
    /\ "/" \notin Digits /\ "\n" \notin Digits /\ Letters \cap Digits = {}
    /\ "/" \notin Quotes /\ "\n" \notin Quotes /\ Letters \cap Quotes = {}
    /\ "/" \notin Blanks /\ "\n" \notin Blanks /\ Letters \cap Blanks = {}
<1>1. "/" \notin Digits /\ "\n" \notin Digits /\ Letters \cap Digits = {}
    BY DEF Letters, Digits
<1>2. "/" \notin Quotes /\ "\n" \notin Quotes
    BY Zenon DEF Quotes
<1>3. "/" \notin Blanks /\ "\n" \notin Blanks
    BY Zenon DEF Blanks
<1>4. Letters \cap Quotes = {}
    BY Zenon DEF Quotes, Letters
<1>5. Letters \cap Blanks = {}
    BY Zenon DEF Blanks, Letters
<1> QED BY <1>1, <1>2, <1>3, <1>4, <1>5

(* A sign. *)
Sign(w) ==
    /\ w \in Seq(Chars) /\ Len(w) >= 1
    /\ w[1] \notin Letters /\ (w[1] = "/" => Len(w) = 1)
    /\ \A i \in 1..Len(w) : w[i] # "\n"

LEMMA SignOfOne == ASSUME NEW a \in Chars, a \notin Letters, a # "\n" PROVE Sign(<<a>>)
<1>1. Len(<<a>>) = 1 /\ <<a>>[1] = a /\ <<a>> \in Seq(Chars) /\ 1..1 = {1}
    OBVIOUS
<1> QED BY <1>1 DEF Sign

LEMMA OneSign ==
    ASSUME NEW name \in {"+", "-", "*", "/", "<", ">", "=", ";", ",", "(", ")", "[", "]", "{", "}"}
    PROVE  Spelling(name) = <<name>> /\ Sign(Spelling(name))
<1>1. name \notin DOMAIN Keywords
    BY DEF Keywords
<1>2. name # "[]" /\ name # "<=" /\ name # ">=" /\ name # "==" /\ name # "!="
    OBVIOUS
<1>3. Spelling(name) = <<name>>
    BY <1>1, <1>2 DEF Spelling
<1>4. name \in Chars /\ name \notin Letters /\ name # "\n"
  <2>1. name \in Chars
      BY Characters
  <2> QED BY <2>1 DEF Letters
<1> QED BY Zenon, <1>3, <1>4, SignOfOne

LEMMA TwoSigns ==
    ASSUME NEW name \in {"[]", "<=", ">=", "==", "!="}
    PROVE  Sign(Spelling(name))
<1>1. /\ Spelling("[]") = <<"[", "]">> /\ Spelling("<=") = <<"<", "=">> /\ Spelling(">=") = <<">", "=">>
      /\ Spelling("==") = <<"=", "=">> /\ Spelling("!=") = <<"!", "=">>
  <2>0. \A other \in {"[]", "<=", ">=", "==", "!="} : other \notin DOMAIN Keywords
      BY DEF Keywords
  <2>1. Spelling("[]") = <<"[", "]">>
      BY <2>0 DEF Spelling
  <2>2. Spelling("<=") = <<"<", "=">>
      BY <2>0 DEF Spelling
  <2>3. Spelling(">=") = <<">", "=">>
      BY <2>0 DEF Spelling
  <2>4. Spelling("==") = <<"=", "=">>
      BY <2>0 DEF Spelling
  <2>5. Spelling("!=") = <<"!", "=">>
      BY <2>0 DEF Spelling
  <2> QED BY <2>1, <2>2, <2>3, <2>4, <2>5
<1>2. \A a, b : a \in Chars /\ b \in Chars /\ a \notin Letters /\ a # "/" /\ a # "\n" /\ b # "\n" => Sign(<<a, b>>)
    BY DEF Sign
<1>3. \A a \in {"[", "<", ">", "=", "!"} : a \in Chars /\ a \notin Letters /\ a # "/" /\ a # "\n"
  <2>1. \A a \in {"[", "<", ">", "=", "!"} : a \in Chars
      BY Characters
  <2> QED BY <2>1 DEF Letters
<1>4. \A a \in {"]", "="} : a \in Chars /\ a # "\n"
    BY Characters
<1> QED BY <1>1, <1>2, <1>3, <1>4

LEMMA SignNames ==
    ASSUME NEW k \in 2..21
    PROVE  /\ Sign(Spelling(LexRules[k]))
           /\ LexRules[k] \notin {"comment", "ID", "NUM", "eol", "blank", "CHAR", "error"}
<1> DEFINE Name(i) == LexRules[i] \in {"+", "-", "*", "/", "<", ">", "=", ";", ",", "(", ")", "[", "]", "{", "}"}
                                        \cup {"[]", "<=", ">=", "==", "!="}
<1>3. Name(2) /\ Name(3) /\ Name(4) /\ Name(5) /\ Name(6) /\ Name(7) /\ Name(8) /\ Name(9) /\ Name(10) /\ Name(11)
    BY DEF LexRules, SignRules, KeywordRules, OtherRules
<1>4. Name(12) /\ Name(13) /\ Name(14) /\ Name(15) /\ Name(16) /\ Name(17) /\ Name(18) /\ Name(19) /\ Name(20)
      /\ Name(21)
    BY DEF LexRules, SignRules, KeywordRules, OtherRules
<1>1. Name(k)
  <2> HIDE DEF Name
  <2> QED BY <1>3, <1>4
<1>2. Sign(Spelling(LexRules[k]))
    BY <1>1, OneSign, TwoSigns
<1> QED BY <1>1, <1>2

(* A reserved word. *)
IsWord(w) == w \in Seq(Chars) /\ Len(w) >= 1 /\ \A i \in 1..Len(w) : w[i] \in Letters

LEMMA KeywordNames ==
    /\ LexRules[22] = "else" /\ LexRules[23] = "if" /\ LexRules[24] = "int" /\ LexRules[25] = "char"
    /\ LexRules[26] = "return" /\ LexRules[27] = "void" /\ LexRules[28] = "while"
    /\ DOMAIN Keywords = {"else", "if", "int", "char", "return", "void", "while"}
<1>1. /\ LexRules[22] = "else" /\ LexRules[23] = "if" /\ LexRules[24] = "int" /\ LexRules[25] = "char"
      /\ LexRules[26] = "return" /\ LexRules[27] = "void" /\ LexRules[28] = "while"
    BY DEF LexRules, SignRules, KeywordRules, OtherRules
<1>2. DOMAIN Keywords = {"else", "if", "int", "char", "return", "void", "while"}
    BY DEF Keywords
<1> QED BY <1>1, <1>2

LEMMA KeywordsAre ==
    /\ \A k \in 22..28 : LexRules[k] \in DOMAIN Keywords
    /\ \A name \in DOMAIN Keywords : /\ Spelling(name) = Keywords[name] /\ IsWord(Keywords[name])
                                     /\ \E k \in 22..28 : LexRules[k] = name
<1>2. DOMAIN Keywords = {"else", "if", "int", "char", "return", "void", "while"}
    BY KeywordNames
<1>1. \A name \in DOMAIN Keywords : \E k \in 22..28 : LexRules[k] = name
    BY KeywordNames
<1>6. \A k \in 22..28 : LexRules[k] \in DOMAIN Keywords
  <2>1. \A k \in 22..28 : k \in {22, 23, 24, 25, 26, 27, 28}
      OBVIOUS
  <2> QED BY <2>1, KeywordNames
<1>3. \A name \in DOMAIN Keywords : Spelling(name) = Keywords[name]
    BY <1>2 DEF Spelling
<1>5. ASSUME NEW w \in Seq(Letters), Len(w) >= 1 PROVE IsWord(w)
  <2>1. w \in [1..Len(w) -> Letters] /\ Len(w) \in Nat
      OBVIOUS
  <2>2. w \in [1..Len(w) -> Chars]
      BY <2>1, Characters
  <2>3. w \in Seq(Chars)
      BY <2>1, <2>2
  <2> QED BY <1>5, <2>1, <2>3 DEF IsWord
<1>4. \A name \in DOMAIN Keywords : IsWord(Keywords[name])
  <2>1. IsWord(Keywords["else"])
    <3>1. Keywords["else"] = <<"e", "l", "s", "e">>
        BY DEF Keywords
    <3>2. <<"e", "l", "s", "e">> \in Seq(Letters) /\ Len(<<"e", "l", "s", "e">>) >= 1
        BY DEF Letters
    <3> QED BY Zenon, <1>5, <3>1, <3>2
  <2>2. IsWord(Keywords["if"])
    <3>1. Keywords["if"] = <<"i", "f">>
        BY DEF Keywords
    <3>2. <<"i", "f">> \in Seq(Letters) /\ Len(<<"i", "f">>) >= 1
        BY DEF Letters
    <3> QED BY Zenon, <1>5, <3>1, <3>2
  <2>3. IsWord(Keywords["int"])
    <3>1. Keywords["int"] = <<"i", "n", "t">>
        BY DEF Keywords
    <3>2. <<"i", "n", "t">> \in Seq(Letters) /\ Len(<<"i", "n", "t">>) >= 1
        BY DEF Letters
    <3> QED BY Zenon, <1>5, <3>1, <3>2
  <2>4. IsWord(Keywords["char"])
    <3>1. Keywords["char"] = <<"c", "h", "a", "r">>
        BY DEF Keywords
    <3>2. <<"c", "h", "a", "r">> \in Seq(Letters) /\ Len(<<"c", "h", "a", "r">>) >= 1
        BY DEF Letters
    <3> QED BY Zenon, <1>5, <3>1, <3>2
  <2>5. IsWord(Keywords["return"])
    <3>1. Keywords["return"] = <<"r", "e", "t", "u", "r", "n">>
        BY DEF Keywords
    <3>2. <<"r", "e", "t", "u", "r", "n">> \in Seq(Letters) /\ Len(<<"r", "e", "t", "u", "r", "n">>) >= 1
        BY DEF Letters
    <3> QED BY Zenon, <1>5, <3>1, <3>2
  <2>6. IsWord(Keywords["void"])
    <3>1. Keywords["void"] = <<"v", "o", "i", "d">>
        BY DEF Keywords
    <3>2. <<"v", "o", "i", "d">> \in Seq(Letters) /\ Len(<<"v", "o", "i", "d">>) >= 1
        BY DEF Letters
    <3> QED BY Zenon, <1>5, <3>1, <3>2
  <2>7. IsWord(Keywords["while"])
    <3>1. Keywords["while"] = <<"w", "h", "i", "l", "e">>
        BY DEF Keywords
    <3>2. <<"w", "h", "i", "l", "e">> \in Seq(Letters) /\ Len(<<"w", "h", "i", "l", "e">>) >= 1
        BY DEF Letters
    <3> QED BY Zenon, <1>5, <3>1, <3>2
  <2> QED BY <1>2, <2>1, <2>2, <2>3, <2>4, <2>5, <2>6, <2>7
<1> QED BY <1>1, <1>3, <1>4, <1>6

(* Where the match of a rule at the beginning of a text can end. *)
EndsOf(text, k) == Pattern(LexRules[k], text)[1]

LEMMA PatternIs ==
    ASSUME NEW text
    PROVE  /\ Pattern("comment", text) = CommentPattern(text)
           /\ Pattern("ID", text) = Plus(Class(text, Letters))
           /\ Pattern("NUM", text) = Plus(Class(text, Digits))
           /\ Pattern("eol", text) = Class(text, {"\n"})
           /\ Pattern("blank", text) = Class(text, Blanks)
           /\ Pattern("CHAR", text) = CharPattern(text)
           /\ Pattern("error", text) = Class(text, Chars \ {"\n"})
           /\ \A name : name \notin {"comment", "ID", "NUM", "eol", "blank", "CHAR", "error"}
                  => Pattern(name, text) = Quoted(text, Spelling(name))
BY DEF Pattern

LEMMA QuotedEnds ==
    ASSUME NEW text \in Seq(Chars), NEW w \in Seq(Chars), NEW to
    PROVE  to \in Quoted(text, w)[1] <=>
               to = Len(w) + 1 /\ to <= Len(text) + 1 /\ \A i \in 1..Len(w) : text[i] = w[i]
<1>1. Len(w) \in Nat /\ 1 + Len(w) = Len(w) + 1 /\ 1 \in 1..(Len(text) + 1)
    BY PlacesAre
<1>2. \A i \in 1..Len(w) : 1 + i - 1 = i
    BY <1>1
<1>3. to \in Quoted(text, w)[1] <=>
          to = 1 + Len(w) /\ to <= Len(text) + 1 /\ \A i \in 1..Len(w) : text[1 + i - 1] = w[i]
    BY <1>1, QuotedIs
<1> QED BY <1>1, <1>2, <1>3

LEMMA WordEnds ==
    ASSUME NEW text \in Seq(Chars), NEW k \in 2..28, NEW to
    PROVE  LET w == Spelling(LexRules[k])
           IN  to \in EndsOf(text, k) <=>
               to = Len(w) + 1 /\ to <= Len(text) + 1 /\ \A i \in 1..Len(w) : text[i] = w[i]
<1> DEFINE w == Spelling(LexRules[k])
<1>1. w \in Seq(Chars) /\ LexRules[k] \notin {"comment", "ID", "NUM", "eol", "blank", "CHAR", "error"}
  <2>1. CASE k \in 2..21
      BY <2>1, SignNames DEF Sign
  <2>2. CASE k \in 22..28
    <3>1. LexRules[k] \in DOMAIN Keywords
        BY <2>2, KeywordsAre
    <3>2. LexRules[k] \in {"else", "if", "int", "char", "return", "void", "while"}
        BY <3>1, KeywordNames
    <3> QED BY <3>1, <3>2, KeywordsAre DEF IsWord
  <2> QED BY <2>1, <2>2
<1>2. EndsOf(text, k) = Quoted(text, w)[1]
    BY <1>1, PatternIs DEF EndsOf
<1> HIDE DEF w
<1>3. to \in EndsOf(text, k) <=>
               to = Len(w) + 1 /\ to <= Len(text) + 1 /\ \A i \in 1..Len(w) : text[i] = w[i]
    BY <1>1, <1>2, QuotedEnds
<1> QED BY <1>3 DEF w

LEMMA ClassEnds ==
    ASSUME NEW text \in Seq(Chars), Len(text) >= 1, NEW set, NEW to
    PROVE  to \in Class(text, set)[1] <=> to = 2 /\ text[1] \in set
<1>1. Len(text) \in Nat /\ 1 \in 1..(Len(text) + 1)
    BY PlacesAre
<1>2. to \in Class(text, set)[1] <=> 1 <= Len(text) /\ to = 1 + 1 /\ text[1] \in set
    BY <1>1, ClassIs
<1> QED BY <1>2

LEMMA OtherEnds ==
    ASSUME NEW text \in Seq(Chars), Len(text) >= 1, NEW to
    PROVE  /\ to \in EndsOf(text, 1) <=> to \in CommentPattern(text)[1]
           /\ to \in EndsOf(text, 29) <=> to \in 2..(Len(text) + 1) /\ \A i \in 1..(to - 1) : text[i] \in Letters
           /\ to \in EndsOf(text, 30) <=> to \in 2..(Len(text) + 1) /\ \A i \in 1..(to - 1) : text[i] \in Digits
           /\ to \in EndsOf(text, 31) <=> to = 2 /\ text[1] = "\n"
           /\ to \in EndsOf(text, 32) <=> to = 2 /\ text[1] \in Blanks
           /\ to \in EndsOf(text, 33) => to = 4 /\ Len(text) >= 3 /\ text[1] \in Quotes /\ text[2] # "\n"
                                                /\ text[3] \in Quotes
           /\ to \in EndsOf(text, 34) <=> to = 2 /\ text[1] # "\n"
<1>1. /\ EndsOf(text, 1) = CommentPattern(text)[1]
      /\ EndsOf(text, 29) = Plus(Class(text, Letters))[1]
      /\ EndsOf(text, 30) = Plus(Class(text, Digits))[1]
      /\ EndsOf(text, 31) = Class(text, {"\n"})[1]
      /\ EndsOf(text, 32) = Class(text, Blanks)[1]
      /\ EndsOf(text, 33) = CharPattern(text)[1]
      /\ EndsOf(text, 34) = Class(text, Chars \ {"\n"})[1]
    BY RulesAre, PatternIs DEF EndsOf
<1>2. text[1] \in Chars
    BY PlacesAre
<1>3. to \in EndsOf(text, 34) <=> to = 2 /\ text[1] # "\n"
  <2>1. to \in EndsOf(text, 34) <=> to = 2 /\ text[1] \in Chars \ {"\n"}
      BY <1>1, ClassEnds
  <2> QED BY <1>2, <2>1
<1>4. to \in EndsOf(text, 31) <=> to = 2 /\ text[1] = "\n"
  <2>1. to \in EndsOf(text, 31) <=> to = 2 /\ text[1] \in {"\n"}
      BY <1>1, ClassEnds
  <2> QED BY <2>1
<1>5. to \in EndsOf(text, 32) <=> to = 2 /\ text[1] \in Blanks
    BY <1>1, ClassEnds
<1>6. /\ to \in EndsOf(text, 29) <=> to \in 2..(Len(text) + 1) /\ \A i \in 1..(to - 1) : text[i] \in Letters
      /\ to \in EndsOf(text, 30) <=> to \in 2..(Len(text) + 1) /\ \A i \in 1..(to - 1) : text[i] \in Digits
    BY <1>1, PlusOfClass
<1>7. to \in EndsOf(text, 33) => to = 4 /\ Len(text) >= 3 /\ text[1] \in Quotes /\ text[2] # "\n"
                                        /\ text[3] \in Quotes
    BY <1>1, CharPatternIs
<1> QED BY <1>1, <1>3, <1>4, <1>5, <1>6, <1>7

LEMMA SignEnds ==
    ASSUME NEW text \in Seq(Chars), NEW k \in 2..21, NEW to \in EndsOf(text, k)
    PROVE  /\ to \in 2..(Len(text) + 1) /\ text[1] \notin Letters /\ (text[1] = "/" => to = 2)
           /\ \A i \in 1..(to - 1) : text[i] # "\n"
<1> DEFINE w == Spelling(LexRules[k])
<1>1. Sign(w)
    BY SignNames
<1>2. to = Len(w) + 1 /\ to <= Len(text) + 1 /\ \A i \in 1..Len(w) : text[i] = w[i]
    BY WordEnds
<1>3. Len(text) \in Nat
    BY PlacesAre
<1> HIDE DEF w
<1>4. Len(w) \in Nat /\ Len(w) >= 1 /\ 1 \in 1..Len(w) /\ to - 1 = Len(w)
    BY <1>1, <1>2 DEF Sign
<1>5. text[1] = w[1] /\ \A i \in 1..Len(w) : text[i] # "\n"
    BY <1>1, <1>2, <1>4 DEF Sign
<1> QED BY <1>1, <1>2, <1>3, <1>4, <1>5 DEF Sign

LEMMA KeywordEnds ==
    ASSUME NEW text \in Seq(Chars), NEW k \in 22..28, NEW to
    PROVE  LET w == Keywords[LexRules[k]]
           IN  /\ to \in EndsOf(text, k) <=>
                      to = Len(w) + 1 /\ to <= Len(text) + 1 /\ \A i \in 1..Len(w) : text[i] = w[i]
               /\ to \in EndsOf(text, k) => /\ to \in 2..(Len(text) + 1)
                                            /\ \A i \in 1..(to - 1) : text[i] \in Letters
<1> DEFINE w == Keywords[LexRules[k]]
<1>1. IsWord(w) /\ Spelling(LexRules[k]) = w
    BY KeywordsAre
<1>6. k \in 2..28
    OBVIOUS
<1>2. to \in EndsOf(text, k) <=>
          to = Len(w) + 1 /\ to <= Len(text) + 1 /\ \A i \in 1..Len(w) : text[i] = w[i]
  <2> DEFINE v == Spelling(LexRules[k])
  <2>1. to \in EndsOf(text, k) <=>
            to = Len(v) + 1 /\ to <= Len(text) + 1 /\ \A i \in 1..Len(v) : text[i] = v[i]
      BY <1>6, WordEnds
  <2>2. v = w
      BY <1>1
  <2> HIDE DEF v, w
  <2> QED BY <2>1, <2>2
<1>3. Len(text) \in Nat
    BY PlacesAre
<1> HIDE DEF w
<1>4. Len(w) \in Nat /\ Len(w) >= 1 /\ Len(w) + 1 - 1 = Len(w)
    BY <1>1 DEF IsWord
<1>5. to \in EndsOf(text, k) => to \in 2..(Len(text) + 1) /\ \A i \in 1..(to - 1) : text[i] \in Letters
    BY <1>1, <1>2, <1>3, <1>4 DEF IsWord
<1> QED BY <1>2, <1>5 DEF w

LEMMA RuleKinds ==
    \A k \in 1..34 : \/ k = 1 \/ k \in 2..21 \/ k \in 22..28 \/ k = 29 \/ k = 30
                     \/ k = 31 \/ k = 32 \/ k = 33 \/ k = 34
OBVIOUS

(* Every rule matches a part of the text that is not empty, and one of     *)
(* them matches.                                                           *)
LEMMA EndsAreInText ==
    ASSUME NEW text \in Seq(Chars), Len(text) >= 1, NEW k \in 1..34, NEW to \in EndsOf(text, k)
    PROVE  to \in 2..(Len(text) + 1)
<1>1. Len(text) \in Nat /\ 1 \in 1..(Len(text) + 1)
    BY PlacesAre
<1>2. CASE k = 1
  <2>1. to \in CommentPattern(text)[1]
      BY <1>2, OtherEnds
  <2>2. to - 1 \in 4..Len(text)
      BY <2>1, CommentStops DEF CloseIs, Closes
  <2>3. to \in Int
      BY <1>1, <2>1, CommentParts DEF Matcher
  <2> QED BY <1>1, <2>2, <2>3
<1>3. CASE k \in 2..21
    BY <1>3, SignEnds
<1>4. CASE k \in 22..28
    BY <1>4, KeywordEnds
<1>5. CASE k \in {29, 30}
    BY <1>5, OtherEnds
<1>6. CASE k \in {31, 32, 34}
  <2>1. to = 2
      BY <1>6, OtherEnds
  <2> QED BY <1>1, <2>1
<1>7. CASE k = 33
  <2>1. to = 4 /\ Len(text) >= 3
      BY <1>7, OtherEnds
  <2> QED BY <1>1, <2>1
<1> QED BY <1>2, <1>3, <1>4, <1>5, <1>6, <1>7, RuleKinds

LEMMA OneMatches ==
    ASSUME NEW text \in Seq(Chars), Len(text) >= 1
    PROVE  2 \in EndsOf(text, 31) \/ 2 \in EndsOf(text, 34)
BY OtherEnds

(* Only the end of a line and a comment have the end of a line in them. *)
LEMMA LinesEnd ==
    ASSUME NEW text \in Seq(Chars), Len(text) >= 1, NEW k \in (1..34) \ {1, 31}, NEW to \in EndsOf(text, k)
    PROVE  \A i \in 1..(to - 1) : text[i] # "\n"
<1>1. CASE k \in 2..21
    BY <1>1, SignEnds
<1>2. CASE k \in 22..28
  <2>1. \A i \in 1..(to - 1) : text[i] \in Letters
      BY <1>2, KeywordEnds
  <2> QED BY <2>1, Characters
<1>3. CASE k = 29
  <2>1. \A i \in 1..(to - 1) : text[i] \in Letters
      BY <1>3, OtherEnds
  <2> QED BY <2>1, Characters
<1>4. CASE k = 30
  <2>1. \A i \in 1..(to - 1) : text[i] \in Digits
      BY <1>4, OtherEnds
  <2> QED BY <2>1, Apart
<1>5. CASE k \in {32, 34}
  <2>1. to = 2 /\ text[1] # "\n"
      BY <1>5, OtherEnds, Apart
  <2> QED BY <2>1
<1>6. CASE k = 33
  <2>1. to = 4 /\ text[1] # "\n" /\ text[2] # "\n" /\ text[3] # "\n"
      BY <1>6, OtherEnds, Apart
  <2>2. \A i \in 1..3 : i = 1 \/ i = 2 \/ i = 3
      OBVIOUS
  <2> QED BY <2>1, <2>2
<1> QED BY <1>1, <1>2, <1>3, <1>4, <1>5, <1>6, RuleKinds

(* Of what begins with a slash, only a comment is longer than it. *)
LEMMA SlashEnds ==
    ASSUME NEW text \in Seq(Chars), Len(text) >= 1, text[1] = "/",
           NEW k \in 2..34, NEW to \in EndsOf(text, k)
    PROVE  to = 2
<1>1. CASE k \in 2..21
    BY <1>1, SignEnds
<1>2. CASE k \in 22..28
  <2>1. to \in 2..(Len(text) + 1) /\ \A i \in 1..(to - 1) : text[i] \in Letters
      BY <1>2, KeywordEnds
  <2>2. 1 \in 1..(to - 1)
      BY <2>1
  <2> QED BY <2>1, <2>2, Characters
<1>3. CASE k = 29
  <2>1. to \in 2..(Len(text) + 1) /\ \A i \in 1..(to - 1) : text[i] \in Letters
      BY <1>3, OtherEnds
  <2>2. 1 \in 1..(to - 1)
      BY <2>1
  <2> QED BY <2>1, <2>2, Characters
<1>4. CASE k = 30
  <2>1. to \in 2..(Len(text) + 1) /\ \A i \in 1..(to - 1) : text[i] \in Digits
      BY <1>4, OtherEnds
  <2>2. 1 \in 1..(to - 1)
      BY <2>1
  <2> QED BY <2>1, <2>2, Apart
<1>5. CASE k \in {31, 32, 34}
    BY <1>5, OtherEnds
<1>6. CASE k = 33
    BY <1>6, OtherEnds, Apart
<1> QED BY <1>1, <1>2, <1>3, <1>4, <1>5, <1>6, RuleKinds

(* What begins with a letter is a word, or no token. *)
LEMMA LetterEnds ==
    ASSUME NEW text \in Seq(Chars), Len(text) >= 1, text[1] \in Letters,
           NEW k \in 1..34, NEW to \in EndsOf(text, k)
    PROVE  /\ k \in 22..28 \/ k = 29 \/ k = 34
           /\ to \in EndsOf(text, 29)
<1>1. k # 1
  <2> SUFFICES ASSUME k = 1 PROVE FALSE
      OBVIOUS
  <2>1. to \in CommentPattern(text)[1]
      BY OtherEnds
  <2>2. text[1] = "/"
      BY <2>1, CommentStops DEF Opens
  <2> QED BY <2>2, Characters
<1>2. k \notin 2..21
    BY SignEnds
<1>3. k # 30
  <2> SUFFICES ASSUME k = 30 PROVE FALSE
      OBVIOUS
  <2>1. to \in 2..(Len(text) + 1) /\ \A i \in 1..(to - 1) : text[i] \in Digits
      BY OtherEnds
  <2>2. 1 \in 1..(to - 1)
      BY <2>1
  <2> QED BY <2>1, <2>2, Apart
<1>4. k # 31
    BY OtherEnds, Characters
<1>5. k # 32 /\ k # 33
    BY OtherEnds, Apart
<1>6. k \in 22..28 \/ k = 29 \/ k = 34
    BY <1>1, <1>2, <1>3, <1>4, <1>5, RuleKinds
<1>7. CASE k \in 22..28
    BY <1>7, KeywordEnds, OtherEnds
<1>8. CASE k = 34
  <2>1. to = 2 /\ Len(text) \in Nat
      BY <1>8, OtherEnds, PlacesAre
  <2>2. to \in 2..(Len(text) + 1) /\ \A i \in 1..(to - 1) : text[i] \in Letters
      BY <2>1
  <2>3. to \in EndsOf(text, 29)
      BY <2>2, OtherEnds
  <2> QED BY <1>8, <2>3
<1> QED BY <1>6, <1>7, <1>8

-----------------------------------------------------------------------------
(* The longest match, and the first rule that has it. *)
LEMMA MinIs ==
    ASSUME NEW S, S \subseteq Nat, S # {}
    PROVE  Min(S) \in S /\ \A y \in S : Min(S) <= y
<1>1. PICK x \in S : \A y \in S : ~(<<y, x>> \in OpToRel(<, Nat))
    BY NatLessThanWellFounded, WFMin
<1>2. \A y \in S : x <= y
  <2>1. ASSUME NEW y \in S PROVE x <= y
    <3>1. x \in Nat /\ y \in Nat
        OBVIOUS
    <3>2. ~(y < x)
        BY <1>1, <3>1 DEF OpToRel
    <3> QED BY <3>1, <3>2
  <2> QED BY <2>1
<1> QED BY <1>2 DEF Min

LEMMA MaxIs ==
    ASSUME NEW n \in Nat, NEW S, S \subseteq 0..n, S # {}
    PROVE  Max(S) \in S /\ \A y \in S : y <= Max(S)
<1> DEFINE T == {n - x : x \in S}
<1>1. \A x \in S : x \in Nat /\ n - x \in Nat
    OBVIOUS
<1>2. T \subseteq Nat /\ T # {}
    BY <1>1
<1>3. PICK m \in T : \A y \in T : m <= y
  <2> HIDE DEF T
  <2> QED BY <1>2, MinIs
<1>4. PICK x \in S : m = n - x
    BY <1>3
<1>5. \A y \in S : x >= y
  <2>1. ASSUME NEW y \in S PROVE x >= y
    <3>1. n - x <= n - y
        BY <1>3, <1>4
    <3> QED BY <1>1, <3>1
  <2> QED BY <2>1
<1>6. \A y \in S : Max(S) \in S /\ Max(S) >= y
    BY <1>5 DEF Max
<1>7. ASSUME NEW y \in S PROVE y <= Max(S)
    BY <1>1, <1>6
<1> QED BY <1>6, <1>7

LEMMA LongestIs ==
    ASSUME NEW text \in Seq(Chars), Len(text) >= 1
    PROVE  \E k \in 1..34 : \E to \in EndsOf(text, k) :
              /\ Longest(text) = [token |-> LexRules[k], length |-> to - 1]
              /\ \A j \in 1..34 : \A other \in EndsOf(text, j) : other <= to
              /\ \A j \in 1..(k - 1) : to \notin EndsOf(text, j)
<1> DEFINE ends == [k \in DOMAIN LexRules |-> Pattern(LexRules[k], text)[1]]
           all == UNION Range(ends)
           to == Max(all)
           rules == {k \in DOMAIN LexRules : to \in ends[k]}
           first == Min(rules)
<1>1. DOMAIN ends = 1..34 /\ \A k \in 1..34 : ends[k] = EndsOf(text, k)
    BY RulesAre DEF EndsOf
<1>2. Longest(text) = [token |-> LexRules[first], length |-> to - 1]
    BY DEF Longest
<1> HIDE DEF ends
<1>3. \A x : x \in all <=> \E k \in 1..34 : x \in EndsOf(text, k)
    BY <1>1 DEF Range
<1> HIDE DEF all
<1>4. Len(text) \in Nat /\ all \subseteq 0..(Len(text) + 1) /\ all # {}
  <2>1. Len(text) \in Nat
      BY PlacesAre
  <2>2. \A x \in all : x \in 2..(Len(text) + 1)
      BY <1>3, EndsAreInText
  <2>3. all # {}
      BY <1>3, OneMatches
  <2> QED BY <2>1, <2>2, <2>3
<1>5. to \in all /\ \A x \in all : x <= to
  <2>1. Len(text) + 1 \in Nat
      BY <1>4
  <2> QED BY <1>4, <2>1, MaxIs
<1> HIDE DEF to
<1>6. rules = {k \in 1..34 : to \in EndsOf(text, k)}
    BY <1>1, RulesAre
<1> HIDE DEF rules
<1>7. rules \subseteq Nat /\ rules # {}
  <2>1. PICK k \in 1..34 : to \in EndsOf(text, k)
      BY <1>3, <1>5
  <2>2. k \in rules
      BY <1>6, <2>1
  <2>3. \A j \in rules : j \in Nat
      BY <1>6
  <2> QED BY <2>2, <2>3
<1>8. first \in rules /\ \A k \in rules : first <= k
    BY <1>7, MinIs
<1> HIDE DEF first
<1>9. first \in 1..34 /\ to \in EndsOf(text, first)
    BY <1>6, <1>8
<1>10. \A j \in 1..34 : \A other \in EndsOf(text, j) : other <= to
    BY <1>3, <1>5
<1>11. \A j \in 1..(first - 1) : to \notin EndsOf(text, j)
    BY <1>6, <1>8, <1>9
<1> QED BY <1>2, <1>9, <1>10, <1>11

(* What a turn takes and what it leaves. *)
LEMMA TakenIs ==
    ASSUME NEW text \in Seq(Chars), NEW n \in 1..Len(text)
    PROVE  LET lexeme == SubSeq(text, 1, n)
               left == SubSeq(text, n + 1, Len(text))
           IN  /\ lexeme \in Seq(Chars) /\ Len(lexeme) = n /\ \A i \in 1..n : lexeme[i] = text[i]
               /\ lexeme # << >> /\ Head(lexeme) = text[1]
               /\ left \in Seq(Chars) /\ lexeme \o left = text
               /\ left # << >> => n + 1 \in 1..Len(text) /\ Head(left) = text[n + 1]
               /\ left = << >> => n = Len(text)
<1> DEFINE lexeme == SubSeq(text, 1, n)
           left == SubSeq(text, n + 1, Len(text))
<1>1. Len(text) \in Nat /\ n \in 1..Len(text) /\ text \in [1..Len(text) -> Chars]
    OBVIOUS
<1>2. lexeme \in Seq(Chars) /\ Len(lexeme) = n /\ \A i \in 1..n : lexeme[i] = text[i]
    BY <1>1
<1>3. left \in Seq(Chars) /\ Len(left) = Len(text) - n /\ \A i \in 1..(Len(text) - n) : left[i] = text[n + i]
  <2>1. n + 1 \in Int /\ Len(text) \in Int /\ \A i \in (n + 1)..Len(text) : text[i] \in Chars
      BY <1>1
  <2>2. /\ left \in Seq(Chars) /\ Len(left) = IF n + 1 <= Len(text) THEN Len(text) - (n + 1) + 1 ELSE 0
        /\ \A i \in 1..(Len(text) - (n + 1) + 1) : left[i] = text[n + 1 + i - 1]
      BY <2>1, SubSeqProperties
  <2> HIDE DEF left
  <2>3. /\ Len(text) - (n + 1) + 1 = Len(text) - n /\ (~(n + 1 <= Len(text)) => Len(text) - n = 0)
        /\ \A i \in 1..(Len(text) - n) : n + 1 + i - 1 = n + i
    <3> DEFINE all == Len(text)
    <3>1. all \in Nat /\ n \in 1..all
        BY <1>1
    <3> HIDE DEF all
    <3>2. all - (n + 1) + 1 = all - n /\ (~(n + 1 <= all) => all - n = 0)
        BY <3>1
    <3>3. \A i \in 1..(all - n) : n + 1 + i - 1 = n + i
        BY <3>1
    <3> QED BY <3>2, <3>3 DEF all
  <2> QED BY <2>2, <2>3
<1> HIDE DEF lexeme, left
<1>4. lexeme # << >> /\ Head(lexeme) = text[1]
    BY <1>2
<1>5. lexeme \o left = text
  <2>1. Len(lexeme \o left) = Len(lexeme) + Len(left) /\ lexeme \o left \in Seq(Chars)
      BY <1>2, <1>3, ConcatProperties
  <2>2. Len(lexeme \o left) = Len(text)
      BY <1>1, <1>2, <1>3, <2>1
  <2>3. ASSUME NEW i \in 1..Len(text) PROVE (lexeme \o left)[i] = text[i]
    <3>1. (lexeme \o left)[i] = IF i <= Len(lexeme) THEN lexeme[i] ELSE left[i - Len(lexeme)]
        BY <1>1, <1>2, <1>3, ConcatProperties
    <3>2. CASE i <= n
        BY <1>1, <1>2, <3>1, <3>2
    <3>3. CASE ~(i <= n)
      <4>1. i - n \in 1..(Len(text) - n) /\ n + (i - n) = i
          BY <1>1, <3>3
      <4>2. left[i - n] = text[i]
          BY <1>3, <4>1
      <4> QED BY <1>2, <3>1, <3>3, <4>2
    <3> QED BY <3>2, <3>3
  <2> QED BY <2>1, <2>2, <2>3, SeqEqual
<1>6. left # << >> => n + 1 \in 1..Len(text) /\ Head(left) = text[n + 1]
    BY <1>1, <1>3
<1>7. left = << >> => n = Len(text)
  <2>1. left = << >> => Len(left) = 0
      OBVIOUS
  <2> DEFINE all == Len(text)
             many == Len(left)
  <2>2. all \in Nat /\ n \in 1..all /\ many = all - n /\ (left = << >> => many = 0)
      BY <1>1, <1>3, <2>1
  <2> HIDE DEF all, many
  <2>3. left = << >> => n = all
      BY <2>2
  <2> QED BY <2>3 DEF all
<1> QED BY <1>2, <1>3, <1>4, <1>5, <1>6, <1>7 DEF lexeme, left

LEMMA NamesOfRules ==
    /\ \A k \in 2..34 : LexRules[k] # "comment"
    /\ \A k \in 22..28 : LexRules[k] # "ID"
    /\ \A k \in 1..34 : LexRules[k] \in Tokens
<1>1. \A k \in 1..34 : LexRules[k] \in Tokens
    BY RulesAre DEF Tokens, Range
<1>2. \A k \in 22..28 : LexRules[k] \notin {"comment", "ID"}
    BY KeywordsAre, KeywordNames
<1>3. ASSUME NEW k \in 2..34 PROVE LexRules[k] # "comment"
  <2>1. k \in 1..34 /\ k # 1
      OBVIOUS
  <2> QED BY <1>2, <2>1, SignNames, RulesAre, RuleKinds
<1> QED BY <1>1, <1>2, <1>3

LEMMA LengthIs ==
    ASSUME NEW text \in Seq(Chars), Len(text) >= 1
    PROVE  Longest(text).length \in 1..Len(text) /\ Longest(text).token \in Tokens
<1>1. PICK k \in 1..34 : \E to \in EndsOf(text, k) :
              Longest(text) = [token |-> LexRules[k], length |-> to - 1]
    BY LongestIs
<1>3. PICK to \in EndsOf(text, k) : Longest(text) = [token |-> LexRules[k], length |-> to - 1]
    BY <1>1
<1>2. to \in 2..(Len(text) + 1) /\ Len(text) \in Nat
    BY EndsAreInText, PlacesAre
<1>4. Longest(text).length = to - 1 /\ Longest(text).token = LexRules[k]
    BY <1>3
<1>5. to - 1 \in 1..Len(text)
    BY <1>2
<1> QED BY <1>4, <1>5, NamesOfRules

LEMMA LongestComment ==
    ASSUME NEW text \in Seq(Chars), Len(text) >= 1
    PROVE  /\ \A m : Opens(text) /\ CloseIs(text, m) => Longest(text) = [token |-> "comment", length |-> m]
           /\ Longest(text).token = "comment" => Opens(text) /\ Closes(text) # {}
<1>0. PICK k \in 1..34 : \E to \in EndsOf(text, k) :
          /\ Longest(text) = [token |-> LexRules[k], length |-> to - 1]
          /\ \A j \in 1..34 : \A other \in EndsOf(text, j) : other <= to
    BY LongestIs
<1>1. PICK to \in EndsOf(text, k) :
          /\ Longest(text) = [token |-> LexRules[k], length |-> to - 1]
          /\ \A j \in 1..34 : \A other \in EndsOf(text, j) : other <= to
    BY <1>0
<1>2. \A e : e \in EndsOf(text, 1) => Opens(text) /\ CloseIs(text, e - 1)
    BY OtherEnds, CommentStops
<1>3. to \in 2..(Len(text) + 1) /\ Len(text) \in Nat
    BY EndsAreInText, PlacesAre
<1>4. ASSUME NEW m, Opens(text), CloseIs(text, m)
      PROVE  Longest(text) = [token |-> "comment", length |-> m]
  <2>1. m + 1 \in EndsOf(text, 1) /\ m \in 4..Len(text)
      BY <1>4, CommentGoesOn, OtherEnds DEF CloseIs, Closes
  <2>2. m + 1 <= to
      BY <1>1, <2>1
  <2>3. k = 1
    <3> SUFFICES ASSUME k # 1 PROVE FALSE
        OBVIOUS
    <3>1. k \in 2..34 /\ text[1] = "/"
        BY <1>4 DEF Opens
    <3>2. to = 2
        BY <3>1, SlashEnds
    <3> QED BY <1>3, <2>1, <2>2, <3>2
  <2>4. CloseIs(text, to - 1)
      BY <1>2, <2>3
  <2>5. to - 1 <= m /\ to - 1 \in Closes(text)
      BY <1>4, <2>4 DEF CloseIs
  <2>6. to - 1 = m
      BY <1>3, <2>1, <2>2, <2>5
  <2> QED BY <1>1, <2>3, <2>6, RulesAre
<1>5. ASSUME Longest(text).token = "comment" PROVE Opens(text) /\ Closes(text) # {}
  <2>1. k = 1
    <3>1. LexRules[k] = "comment"
        BY <1>1, <1>5
    <3>2. k = 1 \/ k \in 2..34
        OBVIOUS
    <3> QED BY <3>1, <3>2, NamesOfRules
  <2> QED BY <1>2, <2>1 DEF CloseIs
<1> QED BY <1>4, <1>5

LEMMA LongestWord ==
    ASSUME NEW text \in Seq(Chars), Len(text) >= 1, text[1] \in Letters
    PROVE  LET n == Longest(text).length
               lexeme == SubSeq(text, 1, n)
               name == Longest(text).token
           IN  /\ \A i \in 1..n : text[i] \in Letters
               /\ n + 1 \in 1..Len(text) => text[n + 1] \notin Letters
               /\ IF \E word \in DOMAIN Keywords : Keywords[word] = lexeme
                  THEN name # "ID" /\ Keywords[name] = lexeme
                  ELSE name = "ID"
<1>0. PICK k \in 1..34 : \E to \in EndsOf(text, k) :
          /\ Longest(text) = [token |-> LexRules[k], length |-> to - 1]
          /\ \A j \in 1..34 : \A other \in EndsOf(text, j) : other <= to
          /\ \A j \in 1..(k - 1) : to \notin EndsOf(text, j)
    BY LongestIs
<1>1. PICK to \in EndsOf(text, k) :
          /\ Longest(text) = [token |-> LexRules[k], length |-> to - 1]
          /\ \A j \in 1..34 : \A other \in EndsOf(text, j) : other <= to
          /\ \A j \in 1..(k - 1) : to \notin EndsOf(text, j)
    BY <1>0
<1>2. to \in EndsOf(text, 29) /\ (k \in 22..28 \/ k = 29 \/ k = 34)
    BY LetterEnds
<1>3. k # 34
    BY <1>1, <1>2
<1>4. to \in 2..(Len(text) + 1) /\ \A i \in 1..(to - 1) : text[i] \in Letters
    BY <1>2, OtherEnds
<1>5. Len(text) \in Nat
    BY PlacesAre
<1> DEFINE n == to - 1
           lexeme == SubSeq(text, 1, n)
<1>6. n \in 1..Len(text) /\ n + 1 = to
    BY <1>4, <1>5
<1>7. ASSUME n + 1 \in 1..Len(text), text[n + 1] \in Letters PROVE FALSE
  <2>1. to + 1 \in 2..(Len(text) + 1) /\ \A i \in 1..(to + 1 - 1) : i = to \/ i \in 1..(to - 1)
      BY <1>4, <1>5, <1>6, <1>7
  <2>2. text[to] \in Letters
      BY <1>6, <1>7
  <2>3. \A i \in 1..(to + 1 - 1) : text[i] \in Letters
      BY <1>4, <2>1, <2>2
  <2>4. to + 1 \in EndsOf(text, 29)
    <3> DEFINE e == to + 1
    <3>1. e \in 2..(Len(text) + 1)
        BY <2>1
    <3>3. e - 1 = to /\ to + 1 - 1 = to
        BY <1>4
    <3>4. \A i \in 1..(e - 1) : text[i] \in Letters
      <4> HIDE DEF e
      <4> QED BY <2>3, <3>3
    <3> HIDE DEF e
    <3>2. e \in EndsOf(text, 29)
        BY <3>1, <3>4, OtherEnds
    <3> QED BY <3>2 DEF e
  <2>5. to + 1 <= to
      BY <1>1, <2>4
  <2> QED BY <1>4, <2>5
<1>8. Len(lexeme) = n /\ lexeme \in Seq(Chars) /\ \A i \in 1..n : lexeme[i] = text[i]
    BY <1>6, TakenIs
<1> HIDE DEF lexeme, n
<1>9. ASSUME NEW j \in 22..28
      PROVE  to \in EndsOf(text, j) <=> Keywords[LexRules[j]] = lexeme
  <2> DEFINE w == Keywords[LexRules[j]]
  <2>1. to \in EndsOf(text, j) <=>
            to = Len(w) + 1 /\ to <= Len(text) + 1 /\ \A i \in 1..Len(w) : text[i] = w[i]
      BY KeywordEnds
  <2>2. w \in Seq(Chars) /\ Len(w) \in Nat
    <3>1. IsWord(w)
        BY KeywordsAre
    <3> HIDE DEF w
    <3> QED BY <3>1 DEF IsWord
  <2> HIDE DEF w
  <2>3. to \in EndsOf(text, j) => w = lexeme
    <3> SUFFICES ASSUME to \in EndsOf(text, j) PROVE w = lexeme
        OBVIOUS
    <3>1. Len(w) = n /\ \A i \in 1..n : lexeme[i] = w[i]
        BY <1>4, <1>6, <1>8, <2>1, <2>2
    <3> QED BY <1>8, <2>2, <3>1, SeqEqual
  <2>4. w = lexeme => to \in EndsOf(text, j)
      BY <1>4, <1>6, <1>8, <2>1
  <2> QED BY <2>3, <2>4 DEF w
<1>10. Longest(text).length = n /\ Longest(text).token = LexRules[k]
    BY <1>1 DEF n
<1>11. CASE k = 29
  <2>1. ASSUME NEW j \in 22..28 PROVE Keywords[LexRules[j]] # lexeme
    <3>1. j \in 1..(k - 1)
        BY <1>11
    <3>2. to \notin EndsOf(text, j)
        BY <1>1, <3>1
    <3> QED BY <1>9, <3>2
  <2>2. \A word \in DOMAIN Keywords : Keywords[word] # lexeme
      BY <2>1, KeywordsAre
  <2>3. LexRules[k] = "ID"
      BY <1>11, RulesAre
  <2> QED BY <1>4, <1>6, <1>7, <1>10, <2>2, <2>3 DEF lexeme
<1>12. CASE k \in 22..28
  <2>1. Keywords[LexRules[k]] = lexeme /\ LexRules[k] \in DOMAIN Keywords /\ LexRules[k] # "ID"
      BY <1>9, <1>12, KeywordsAre, NamesOfRules
  <2> QED BY <1>4, <1>6, <1>7, <1>10, <2>1 DEF lexeme
<1> QED BY <1>2, <1>3, <1>11, <1>12

-----------------------------------------------------------------------------
(* FlattenSeq. *)
FlatStep(s, f, i) == IF i = 1 THEN s[i] ELSE f[i - 1] \o s[i]
FlatFcn(s, n) == CHOOSE f : f = [i \in 1..n |-> FlatStep(s, f, i)]

LEMMA FlatFcnIs ==
    ASSUME NEW s, NEW n \in Nat
    PROVE  FlatFcn(s, n) = [i \in 1..n |-> FlatStep(s, FlatFcn(s, n), i)]
<1> DEFINE Good == {k \in Nat : \E f : f = [i \in 1..k |-> FlatStep(s, f, i)]}
<1>1. 0 \in Good
    <2> DEFINE f == [i \in 1..0 |-> 0]
    <2>1. f = [i \in 1..0 |-> FlatStep(s, f, i)]
        OBVIOUS
    <2> QED BY <2>1
<1>2. ASSUME NEW k \in 0..(n - 1), k \in Good
      PROVE  k + 1 \in Good
    <2>1. PICK f : f = [i \in 1..k |-> FlatStep(s, f, i)]
        BY <1>2
    <2> DEFINE g == [i \in 1..(k + 1) |-> IF i = k + 1 THEN FlatStep(s, f, i) ELSE f[i]]
    <2>2. ASSUME NEW i \in 1..(k + 1)
          PROVE  g[i] = FlatStep(s, g, i)
        <3>1. i # 1 => g[i - 1] = f[i - 1]
            OBVIOUS
        <3>2. FlatStep(s, g, i) = FlatStep(s, f, i)
            BY <3>1 DEF FlatStep
        <3>3. CASE i = k + 1
            BY <3>2, <3>3
        <3>4. CASE i # k + 1
            <4>1. i \in 1..k
                BY <3>4
            <4>2. f[i] = FlatStep(s, f, i)
                BY <2>1, <4>1
            <4> QED BY <3>2, <3>4, <4>2
        <3> QED BY <3>3, <3>4
    <2>3. g = [i \in 1..(k + 1) |-> FlatStep(s, g, i)]
        BY <2>2
    <2> HIDE DEF g
    <2> QED BY <2>3
<1>3. n \in Good
    <2> HIDE DEF Good
    <2> QED BY <1>1, <1>2, UpTo
<1> QED BY <1>3 DEF FlatFcn

LEMMA FlatDef ==
    ASSUME NEW s
    PROVE  FlattenSeq(s) = IF Len(s) = 0 THEN s ELSE FlatFcn(s, Len(s))[Len(s)]
BY DEF FlattenSeq, FlatFcn, FlatStep

(* What has been put together up to j depends on nothing behind it. *)
LEMMA FlatPrefix ==
    ASSUME NEW s, NEW t, NEW n \in Nat, NEW m \in Nat, NEW j \in Nat \ {0}, j <= n, j <= m,
           \A i \in 1..j : s[i] = t[i]
    PROVE  FlatFcn(s, n)[j] = FlatFcn(t, m)[j]
<1> DEFINE f == FlatFcn(s, n)
           g == FlatFcn(t, m)
           Good == {k \in Nat : k = 0 \/ f[k] = g[k]}
<1>1. /\ \A i \in 1..n : f[i] = FlatStep(s, f, i)
      /\ \A i \in 1..m : g[i] = FlatStep(t, g, i)
    <2>1. f = [i \in 1..n |-> FlatStep(s, f, i)]
        BY FlatFcnIs
    <2>2. g = [i \in 1..m |-> FlatStep(t, g, i)]
        BY FlatFcnIs
    <2> HIDE DEF f, g
    <2> QED BY <2>1, <2>2
<1> HIDE DEF f, g
<1>2. 0 \in Good
    OBVIOUS
<1>3. ASSUME NEW k \in 0..(j - 1), k \in Good
      PROVE  k + 1 \in Good
    <2>1. k + 1 \in 1..n /\ k + 1 \in 1..m /\ k + 1 \in 1..j /\ k + 1 - 1 = k
        OBVIOUS
    <2>2. f[k + 1] = FlatStep(s, f, k + 1) /\ g[k + 1] = FlatStep(t, g, k + 1)
        BY <1>1, <2>1
    <2>3. s[k + 1] = t[k + 1]
        BY <2>1
    <2>4. f[k + 1] = g[k + 1]
        BY <1>3, <2>1, <2>2, <2>3 DEF FlatStep
    <2> QED BY <2>1, <2>4
<1>4. \A k \in 0..j : k \in Good
    <2> HIDE DEF Good
    <2> QED BY <1>2, <1>3, UpTo
<1>5. f[j] = g[j]
    <2>1. j \in 0..j /\ j # 0
        OBVIOUS
    <2> QED BY <1>4, <2>1
<1> QED BY <1>5 DEF f, g

LEMMA FlattenEmpty == FlattenSeq(<< >>) = << >>
<1>1. Len(<< >>) = 0
    OBVIOUS
<1> QED BY <1>1, FlatDef

LEMMA FlattenAppend ==
    ASSUME NEW S, NEW s \in Seq(Seq(S)), NEW x \in Seq(S), FlattenSeq(s) \in Seq(S)
    PROVE  FlattenSeq(Append(s, x)) = FlattenSeq(s) \o x
<1> DEFINE n == Len(s)
           t == Append(s, x)
<1>1. n \in Nat /\ Len(t) = n + 1 /\ t[n + 1] = x /\ \A i \in 1..n : t[i] = s[i]
    OBVIOUS
<1> HIDE DEF t
<1>2. FlattenSeq(t) = FlatFcn(t, n + 1)[n + 1]
    BY <1>1, FlatDef
<1> DEFINE g == FlatFcn(t, n + 1)
<1>3. g = [i \in 1..(n + 1) |-> FlatStep(t, g, i)]
    BY <1>1, FlatFcnIs
<1>4. g[n + 1] = FlatStep(t, g, n + 1)
    <2> HIDE DEF g
    <2>1. n + 1 \in 1..(n + 1)
        BY <1>1
    <2> QED BY <1>3, <2>1
<1>5. CASE n = 0
    <2>1. g[n + 1] = x
        BY <1>1, <1>4, <1>5 DEF FlatStep
    <2>2. s = << >>
        BY <1>5
    <2>3. FlattenSeq(s) \o x = x
        BY <2>2, FlattenEmpty
    <2> QED BY <1>2, <2>1, <2>3 DEF t
<1>6. CASE n # 0
    <2>1. FlattenSeq(s) = FlatFcn(s, n)[n]
        BY <1>6, FlatDef
    <2>2. FlatFcn(t, n + 1)[n] = FlatFcn(s, n)[n]
        <3> DEFINE m == n + 1
        <3>1. n \in Nat \ {0} /\ m \in Nat /\ n <= n /\ n <= m /\ \A i \in 1..n : t[i] = s[i]
            BY <1>1, <1>6
        <3> HIDE DEF n, g, m
        <3>2. FlatFcn(t, m)[n] = FlatFcn(s, n)[n]
            BY <3>1, FlatPrefix
        <3> QED BY <3>2 DEF m
    <2>3. n \in 1..n /\ n + 1 # 1 /\ n + 1 - 1 = n
        BY <1>1, <1>6
    <2>4. g[n + 1] = g[n] \o x
        BY <1>1, <1>4, <2>3 DEF FlatStep
    <2>5. g[n] = FlatFcn(s, n)[n]
        BY <2>2, <2>3
    <2> QED BY <1>2, <2>1, <2>4, <2>5 DEF t
<1> QED BY <1>5, <1>6

(* Any induction over sequences: over their prefixes. *)
LEMMA FlattenPrefix ==
    ASSUME NEW S, NEW s \in Seq(Seq(S))
    PROVE  \A k \in 0..Len(s) : FlattenSeq(SubSeq(s, 1, k)) \in Seq(S)
<1> DEFINE Good == {k \in Nat : FlattenSeq(SubSeq(s, 1, k)) \in Seq(S)}
<1>1. 0 \in Good
    <2>1. SubSeq(s, 1, 0) = << >> /\ << >> \in Seq(S)
        OBVIOUS
    <2> QED BY <2>1, FlattenEmpty
<1>2. ASSUME NEW k \in 0..(Len(s) - 1), k \in Good
      PROVE  k + 1 \in Good
    <2>1. /\ SubSeq(s, 1, k) \in Seq(Seq(S)) /\ s[k + 1] \in Seq(S)
          /\ SubSeq(s, 1, k + 1) = Append(SubSeq(s, 1, k), s[k + 1])
        OBVIOUS
    <2>2. FlattenSeq(SubSeq(s, 1, k + 1)) = FlattenSeq(SubSeq(s, 1, k)) \o s[k + 1]
        BY <1>2, <2>1, FlattenAppend
    <2>3. FlattenSeq(SubSeq(s, 1, k + 1)) \in Seq(S)
        BY <1>2, <2>1, <2>2, ConcatProperties
    <2> QED BY <2>3
<1>3. Len(s) \in Nat
    OBVIOUS
<1> HIDE DEF Good
<1>4. \A k \in 0..Len(s) : k \in Good
    BY <1>1, <1>2, <1>3, UpTo
<1> QED BY <1>4 DEF Good

LEMMA FlattenType ==
    ASSUME NEW S, NEW s \in Seq(Seq(S))
    PROVE  FlattenSeq(s) \in Seq(S)
<1>1. SubSeq(s, 1, Len(s)) = s /\ Len(s) \in 0..Len(s)
    OBVIOUS
<1> QED BY <1>1, FlattenPrefix

-----------------------------------------------------------------------------
(* Lines. *)
LineEnds(t, p) == {k \in 1..p : t[k] = "\n"}

LEMMA LineEndsAre ==
    ASSUME NEW t, NEW p \in Nat
    PROVE  /\ IsFiniteSet(LineEnds(t, p)) /\ Cardinality(LineEnds(t, p)) \in Nat
           /\ Cardinality(LineEnds(t, p + 1)) =
                 Cardinality(LineEnds(t, p)) + IF t[p + 1] = "\n" THEN 1 ELSE 0
<1> DEFINE S == LineEnds(t, p)
<1>1. IsFiniteSet(1..p)
    BY FS_Interval
<1>2. S \subseteq 1..p
    BY DEF LineEnds
<1>3. IsFiniteSet(S) /\ Cardinality(S) \in Nat
    BY <1>1, <1>2, FS_Subset, FS_CardinalityType
<1>4. \A k : k \in 1..(p + 1) <=> k \in 1..p \/ k = p + 1
    OBVIOUS
<1>5. LineEnds(t, p + 1) = IF t[p + 1] = "\n" THEN S \cup {p + 1} ELSE S
    BY <1>4 DEF LineEnds
<1>6. p + 1 \notin S
    BY <1>2
<1> HIDE DEF S
<1>7. Cardinality(S \cup {p + 1}) = Cardinality(S) + 1
    BY <1>3, <1>6, FS_AddElement
<1>8. Cardinality(LineEnds(t, p + 1)) = Cardinality(S) + IF t[p + 1] = "\n" THEN 1 ELSE 0
  <2>1. CASE t[p + 1] = "\n"
      BY <1>5, <1>7, <2>1
  <2>2. CASE t[p + 1] # "\n"
      BY <1>3, <1>5, <2>2
  <2> QED BY <2>1, <2>2
<1> QED BY <1>3, <1>8 DEF S

LEMMA NewlinesAre ==
    ASSUME NEW t \in Seq(Chars)
    PROVE  Newlines(t) = Cardinality(LineEnds(t, Len(t))) /\ Newlines(t) \in Nat
<1>1. DOMAIN t = 1..Len(t) /\ Len(t) \in Nat
    OBVIOUS
<1>2. Newlines(t) = Cardinality(LineEnds(t, Len(t)))
    BY <1>1 DEF Newlines, LineEnds
<1> QED BY <1>1, <1>2, LineEndsAre

LEMMA NewlinesAdd ==
    ASSUME NEW s \in Seq(Chars), NEW u \in Seq(Chars)
    PROVE  s \o u \in Seq(Chars) /\ Newlines(s \o u) = Newlines(s) + Newlines(u)
<1> DEFINE t == s \o u
           n == Len(s)
           m == Len(u)
<1>1. /\ t \in Seq(Chars) /\ Len(t) = n + m /\ n \in Nat /\ m \in Nat
      /\ \A i \in 1..n : t[i] = s[i]
      /\ \A i \in 1..m : t[n + i] = u[i]
    OBVIOUS
<1> HIDE DEF t, n, m
<1> DEFINE Good == {k \in Nat : Cardinality(LineEnds(t, n + k)) =
                                    Cardinality(LineEnds(t, n)) + Cardinality(LineEnds(u, k))}
<1>2. 0 \in Good
  <2>1. LineEnds(u, 0) = {} /\ n + 0 = n
      BY <1>1 DEF LineEnds
  <2>2. Cardinality(LineEnds(t, n)) \in Nat /\ Cardinality({}) = 0
      BY <1>1, LineEndsAre, FS_EmptySet
  <2>3. Cardinality(LineEnds(u, 0)) = 0 /\ LineEnds(t, n + 0) = LineEnds(t, n)
      BY <2>1, <2>2
  <2> DEFINE c == Cardinality(LineEnds(t, n))
  <2>4. c + 0 = c
      BY <2>2
  <2> QED BY Zenon, <2>3, <2>4
<1>3. ASSUME NEW k \in 0..(m - 1), k \in Good PROVE k + 1 \in Good
  <2> DEFINE p == n + k
  <2>1. p \in Nat /\ k \in Nat /\ n + (k + 1) = p + 1 /\ t[p + 1] = u[k + 1]
    <3>1. k + 1 \in 1..m /\ n + (k + 1) = p + 1
        BY <1>1
    <3> QED BY <1>1, <3>1
  <2> HIDE DEF p
  <2>2. Cardinality(LineEnds(t, p + 1)) = Cardinality(LineEnds(t, p)) + IF t[p + 1] = "\n" THEN 1 ELSE 0
      BY <2>1, LineEndsAre
  <2>3. Cardinality(LineEnds(u, k + 1)) = Cardinality(LineEnds(u, k)) + IF u[k + 1] = "\n" THEN 1 ELSE 0
      BY <2>1, LineEndsAre
  <2>4. Cardinality(LineEnds(t, p)) = Cardinality(LineEnds(t, n)) + Cardinality(LineEnds(u, k))
      BY <1>3 DEF p
  <2>5. Cardinality(LineEnds(t, n)) \in Nat /\ Cardinality(LineEnds(u, k)) \in Nat
      BY <1>1, <2>1, LineEndsAre
  <2>6. Cardinality(LineEnds(t, p + 1)) = Cardinality(LineEnds(t, n)) + Cardinality(LineEnds(u, k + 1))
      BY <2>1, <2>2, <2>3, <2>4, <2>5
  <2> QED BY <2>1, <2>6
<1>4. m \in Good
  <2> HIDE DEF Good
  <2>1. \A k \in 0..m : k \in Good
      BY <1>1, <1>2, <1>3, UpTo
  <2> QED BY <1>1, <2>1
<1>5. LineEnds(t, n) = LineEnds(s, n)
    BY <1>1 DEF LineEnds
<1>6. Newlines(t) = Cardinality(LineEnds(t, n + m))
    BY <1>1, NewlinesAre
<1>7. Newlines(s) = Cardinality(LineEnds(s, n)) /\ Newlines(u) = Cardinality(LineEnds(u, m))
    BY NewlinesAre DEF n, m
<1> QED BY <1>1, <1>4, <1>5, <1>6, <1>7 DEF t

-----------------------------------------------------------------------------
(* Columns: the column behind p, counted from the last end of a line. *)
ColumnAt(t, p, c) ==
    \E m \in 0..p : /\ m = 0 \/ t[m] = "\n"
                    /\ \A i \in (m + 1)..p : t[i] # "\n"
                    /\ c = p + 1 - m

LEMMA ColumnGrows ==
    ASSUME NEW t, NEW p \in Nat, NEW c, ColumnAt(t, p, c)
    PROVE  /\ c \in 1..(p + 1)
           /\ t[p + 1] = "\n" => ColumnAt(t, p + 1, 1)
           /\ t[p + 1] # "\n" => ColumnAt(t, p + 1, c + 1)
<1>1. PICK m \in 0..p : /\ m = 0 \/ t[m] = "\n"
                        /\ \A i \in (m + 1)..p : t[i] # "\n"
                        /\ c = p + 1 - m
    BY DEF ColumnAt
<1>2. c \in 1..(p + 1)
    BY <1>1
<1>3. ASSUME t[p + 1] = "\n" PROVE ColumnAt(t, p + 1, 1)
  <2>1. p + 1 \in 0..(p + 1) /\ (p + 1 + 1)..(p + 1) = {} /\ 1 = p + 1 + 1 - (p + 1)
      OBVIOUS
  <2> QED BY <1>3, <2>1 DEF ColumnAt
<1>4. ASSUME t[p + 1] # "\n" PROVE ColumnAt(t, p + 1, c + 1)
  <2>1. m \in 0..(p + 1) /\ c + 1 = p + 1 + 1 - m
      BY <1>1
  <2>2. \A i \in (m + 1)..(p + 1) : i = p + 1 \/ i \in (m + 1)..p
      OBVIOUS
  <2>3. \A i \in (m + 1)..(p + 1) : t[i] # "\n"
      BY <1>1, <1>4, <2>2
  <2> QED BY <1>1, <2>1, <2>3 DEF ColumnAt
<1> QED BY <1>2, <1>3, <1>4

LEMMA ColumnIs ==
    ASSUME NEW t \in Seq(Chars), NEW c, ColumnAt(t, Len(t), c)
    PROVE  c = Len(t) + 1 - Max({k \in DOMAIN t : t[k] = "\n"} \cup {0})
<1> DEFINE n == Len(t)
           S == {k \in DOMAIN t : t[k] = "\n"} \cup {0}
<1>1. n \in Nat /\ DOMAIN t = 1..n
    OBVIOUS
<1> HIDE DEF n
<1>2. PICK m \in 0..n : /\ m = 0 \/ t[m] = "\n"
                        /\ \A i \in (m + 1)..n : t[i] # "\n"
                        /\ c = n + 1 - m
    BY DEF ColumnAt, n
<1>3. \A x : x \in S <=> x = 0 \/ (x \in 1..n /\ t[x] = "\n")
    BY <1>1
<1> HIDE DEF S
<1>4. m \in S
    BY <1>1, <1>2, <1>3
<1>5. \A x \in S : x \in 0..n /\ x <= m
  <2>1. ASSUME NEW x \in S PROVE x \in 0..n /\ x <= m
    <3>1. x \in 0..n
        BY <1>1, <1>3
    <3>2. ~(x <= m) => x \in (m + 1)..n /\ x # 0
        BY <1>1, <3>1
    <3> QED BY <1>2, <1>3, <3>1, <3>2
  <2> QED BY <2>1
<1>6. Max(S) \in S /\ \A y \in S : y <= Max(S)
  <2>1. S \subseteq 0..n /\ S # {}
      BY <1>4, <1>5
  <2> QED BY <1>1, <2>1, MaxIs
<1>7. Max(S) = m
  <2>1. Max(S) <= m /\ m <= Max(S) /\ Max(S) \in 0..n
      BY <1>4, <1>5, <1>6
  <2> QED BY <1>1, <2>1
<1> QED BY <1>2, <1>7 DEF n, S

(* What analyzer counts over a lexeme. *)
CountStep(lexeme, from, at, k) ==
    IF k = 0 THEN from
    ELSE IF lexeme[k] = "\n" THEN [start |-> at[k - 1].start + 1, end |-> 1]
    ELSE [at[k - 1] EXCEPT !.end = @ + 1]

LEMMA CountedIs ==
    ASSUME NEW lexeme \in Seq(Chars), NEW from
    PROVE  \E at : /\ at = [k \in 0..Len(lexeme) |-> CountStep(lexeme, from, at, k)]
                   /\ Counted(lexeme, from) = at[Len(lexeme)]
<1> DEFINE n == Len(lexeme)
           Good == {d \in Nat : \E f : f = [k \in 0..d |-> CountStep(lexeme, from, f, k)]}
<1>0. n \in Nat
    OBVIOUS
<1>1. 0 \in Good
  <2> DEFINE f == [k \in 0..0 |-> from]
  <2>1. f = [k \in 0..0 |-> CountStep(lexeme, from, f, k)]
      BY DEF CountStep
  <2> HIDE DEF f
  <2> QED BY <2>1
<1>2. ASSUME NEW d \in 0..(n - 1), d \in Good PROVE d + 1 \in Good
  <2>1. PICK f : f = [k \in 0..d |-> CountStep(lexeme, from, f, k)]
      BY <1>2
  <2> DEFINE g == [k \in 0..(d + 1) |-> IF k = d + 1 THEN CountStep(lexeme, from, f, k) ELSE f[k]]
  <2>2. ASSUME NEW k \in 0..(d + 1) PROVE g[k] = CountStep(lexeme, from, g, k)
    <3>1. k # 0 => g[k - 1] = f[k - 1]
        OBVIOUS
    <3>2. CountStep(lexeme, from, g, k) = CountStep(lexeme, from, f, k)
      <4> HIDE DEF g
      <4> QED BY <3>1 DEF CountStep
    <3>3. CASE k = d + 1
        BY <3>2, <3>3
    <3>4. CASE k # d + 1
      <4>1. k \in 0..d
          BY <3>4
      <4>2. f[k] = CountStep(lexeme, from, f, k)
          BY <2>1, <4>1
      <4> QED BY <3>2, <3>4, <4>2
    <3> QED BY <3>3, <3>4
  <2>3. g = [k \in 0..(d + 1) |-> CountStep(lexeme, from, g, k)]
      BY <2>2
  <2> HIDE DEF g
  <2>4. d + 1 \in Nat
      OBVIOUS
  <2> QED BY <2>3, <2>4
<1>3. n \in Good
  <2> HIDE DEF Good, n
  <2>1. \A k \in 0..n : k \in Good
      BY <1>0, <1>1, <1>2, UpTo
  <2> QED BY <1>0, <2>1
<1> DEFINE at == CHOOSE f : f = [k \in 0..n |-> CountStep(lexeme, from, f, k)]
<1>4. at = [k \in 0..n |-> CountStep(lexeme, from, at, k)]
  <2>1. \E f : f = [k \in 0..n |-> CountStep(lexeme, from, f, k)]
      BY <1>3
  <2> QED BY <2>1
<1>5. Counted(lexeme, from) = at[n]
    BY DEF Counted, CountStep
<1> HIDE DEF at
<1> QED BY <1>4, <1>5

LEMMA CountedRight ==
    ASSUME NEW before \in Seq(Chars), NEW lexeme \in Seq(Chars),
           NEW from \in [start : Nat, end : Nat], ColumnAt(before, Len(before), from.end)
    PROVE  LET at == Counted(lexeme, from)
               text == before \o lexeme
           IN  /\ at \in [start : Nat, end : Nat] /\ ColumnAt(text, Len(text), at.end)
               /\ (\A i \in 1..Len(lexeme) : lexeme[i] # "\n") =>
                      at = [start |-> from.start, end |-> from.end + Len(lexeme)]
<1> DEFINE text == before \o lexeme
           b == Len(before)
           n == Len(lexeme)
<1>1. /\ text \in Seq(Chars) /\ Len(text) = b + n /\ b \in Nat /\ n \in Nat
      /\ \A i \in 1..b : text[i] = before[i]
      /\ \A i \in 1..n : text[b + i] = lexeme[i]
    OBVIOUS
<1>2. PICK at : /\ at = [k \in 0..n |-> CountStep(lexeme, from, at, k)]
                /\ Counted(lexeme, from) = at[n]
    BY CountedIs
<1> HIDE DEF text, b, n
<1>3. /\ at[0] = from
      /\ \A k \in 1..n : at[k] = IF lexeme[k] = "\n" THEN [start |-> at[k - 1].start + 1, end |-> 1]
                                 ELSE [at[k - 1] EXCEPT !.end = @ + 1]
  <2>1. \A k \in 0..n : at[k] = CountStep(lexeme, from, at, k)
      BY <1>2
  <2>2. 0 \in 0..n /\ \A k \in 1..n : k \in 0..n /\ k # 0
      BY <1>1
  <2> QED BY <2>1, <2>2 DEF CountStep
<1> DEFINE Good == {k \in Nat : /\ at[k] \in [start : Nat, end : Nat]
                                /\ ColumnAt(text, b + k, at[k].end)
                                /\ (\A i \in 1..k : lexeme[i] # "\n") =>
                                       at[k].start = from.start /\ at[k].end = from.end + k}
<1>4. 0 \in Good
  <2>1. ColumnAt(text, b, from.end)
    <3>1. PICK m \in 0..b : /\ m = 0 \/ before[m] = "\n"
                            /\ \A i \in (m + 1)..b : before[i] # "\n"
                            /\ from.end = b + 1 - m
        BY DEF ColumnAt, b
    <3>3. /\ m # 0 => m \in 1..b
          /\ \A i \in (m + 1)..b : i \in 1..b
        BY <1>1
    <3>4. \A i \in 1..b : text[i] = before[i]
        BY <1>1
    <3>2. (m = 0 \/ text[m] = "\n") /\ \A i \in (m + 1)..b : text[i] # "\n"
        BY <3>1, <3>3, <3>4
    <3> QED BY <3>1, <3>2 DEF ColumnAt
  <2>2. b + 0 = b /\ from.end + 0 = from.end
      BY <1>1
  <2> QED BY <1>3, <2>1, <2>2
<1>5. ASSUME NEW k \in 0..(n - 1), k \in Good PROVE k + 1 \in Good
  <2> DEFINE p == b + k
             old == at[k]
             new == at[k + 1]
  <2>1. k + 1 \in 1..n /\ k + 1 - 1 = k /\ p \in Nat /\ b + (k + 1) = p + 1 /\ k \in Nat /\ k + 1 \in Nat
      BY <1>1
  <2>2. new = IF lexeme[k + 1] = "\n" THEN [start |-> old.start + 1, end |-> 1] ELSE [old EXCEPT !.end = @ + 1]
    <3> DEFINE q == k + 1
    <3>1. q \in 1..n /\ q - 1 = k
        BY <2>1
    <3> HIDE DEF q, old
    <3>2. at[q] = IF lexeme[q] = "\n" THEN [start |-> at[k].start + 1, end |-> 1]
                  ELSE [at[k] EXCEPT !.end = @ + 1]
        BY <1>3, <3>1
    <3> QED BY <3>2 DEF q, old
  <2>3. /\ old \in [start : Nat, end : Nat] /\ ColumnAt(text, p, old.end)
        /\ (\A i \in 1..k : lexeme[i] # "\n") => old.start = from.start /\ old.end = from.end + k
      BY <1>5
  <2>4. text[p + 1] = lexeme[k + 1]
    <3>1. text[b + (k + 1)] = lexeme[k + 1]
        BY <1>1, <2>1
    <3> QED BY <2>1, <3>1
  <2> HIDE DEF p, old, new
  <2>5. new \in [start : Nat, end : Nat]
      BY <2>2, <2>3
  <2>6. ColumnAt(text, p + 1, new.end)
    <3>1. CASE lexeme[k + 1] = "\n"
      <4>1. new.end = 1
          BY <2>2, <3>1
      <4> QED BY <2>1, <2>3, <2>4, <3>1, <4>1, ColumnGrows
    <3>2. CASE lexeme[k + 1] # "\n"
      <4>1. new.end = old.end + 1
          BY <2>2, <2>3, <3>2
      <4> QED BY <2>1, <2>3, <2>4, <3>2, <4>1, ColumnGrows
    <3> QED BY <3>1, <3>2
  <2>7. ASSUME \A i \in 1..(k + 1) : lexeme[i] # "\n"
        PROVE  new.start = from.start /\ new.end = from.end + (k + 1)
    <3>1. lexeme[k + 1] # "\n" /\ \A i \in 1..k : lexeme[i] # "\n"
        BY <2>1, <2>7
    <3>2. new.start = old.start /\ new.end = old.end + 1
        BY <2>2, <2>3, <3>1
    <3>3. from.end + k + 1 = from.end + (k + 1)
        BY <2>1
    <3> QED BY <2>3, <3>1, <3>2, <3>3
  <2> QED BY <2>1, <2>5, <2>6, <2>7 DEF new
<1>6. n \in Good
  <2> HIDE DEF Good
  <2>1. \A k \in 0..n : k \in Good
      BY <1>1, <1>4, <1>5, UpTo
  <2> QED BY <1>1, <2>1
<1>7. at[n] \in [start : Nat, end : Nat] /\ ColumnAt(text, Len(text), at[n].end)
    BY <1>1, <1>6
<1>8. ASSUME \A i \in 1..n : lexeme[i] # "\n"
      PROVE  at[n] = [start |-> from.start, end |-> from.end + n]
  <2>1. at[n].start = from.start /\ at[n].end = from.end + n
      BY <1>6, <1>8
  <2> QED BY <1>7, <2>1
<1> QED BY <1>2, <1>7, <1>8 DEF text, n

(* Of the tokens that are printed none has the end of a line in it. *)
LEMMA LongestLines ==
    ASSUME NEW text \in Seq(Chars), Len(text) >= 1, Longest(text).token \notin {"eol", "comment"}
    PROVE  \A i \in 1..Longest(text).length : text[i] # "\n"
<1>0. PICK k \in 1..34 : \E to \in EndsOf(text, k) :
          Longest(text) = [token |-> LexRules[k], length |-> to - 1]
    BY LongestIs
<1>1. PICK to \in EndsOf(text, k) : Longest(text) = [token |-> LexRules[k], length |-> to - 1]
    BY <1>0
<1>2. Longest(text).token = LexRules[k] /\ Longest(text).length = to - 1
    BY <1>1
<1>3. k # 1 /\ k # 31
    BY <1>2, RulesAre
<1>4. \A i \in 1..(to - 1) : text[i] # "\n"
    BY <1>3, LinesEnd
<1> QED BY <1>2, <1>4

-----------------------------------------------------------------------------
(* While a file is scanned the counters agree with what was matched of it. *)
Scanned == FlattenSeq(matched)
Counting ==
    pc = "scan" =>
        /\ lines = 1 + Newlines(Scanned) /\ prev_line = yylineno
        /\ pos_start = pos_end /\ ColumnAt(Scanned, Len(Scanned), pos_end)
IInv == TypeOK /\ Counting

Taken == SubSeq(rest, 1, Longest(rest).length)

LEMMA LexemesAre ==
    ASSUME NEW s \in Seq(Lexemes)
    PROVE  s \in Seq(Seq(Chars)) /\ FlattenSeq(s) \in Seq(Chars)
<1> DEFINE S == Seq(Chars)
<1>1. Lexemes \subseteq S
    BY DEF Lexemes
<1> HIDE DEF S
<1>2. s \in Seq(S)
    BY <1>1
<1> QED BY <1>2, FlattenType DEF S

LEMMA AppendedIs ==
    ASSUME NEW S, NEW s \in Seq(S), NEW e \in S
    PROVE  LET t == Append(s, e)
           IN  t \in Seq(S) /\ t # << >> /\ Last(t) = e /\ Front(t) = s
<1> DEFINE t == Append(s, e)
           n == Len(s)
           f == SubSeq(t, 1, n)
<1>1. t \in Seq(S) /\ Len(t) = n + 1 /\ n \in Nat /\ t[n + 1] = e /\ \A i \in 1..n : t[i] = s[i]
    OBVIOUS
<1>2. Front(t) = f
    BY <1>1 DEF Front
<1> HIDE DEF t, n
<1>3. f \in Seq(S) /\ Len(f) = n /\ \A i \in 1..n : f[i] = s[i]
    BY <1>1
<1>4. f = s
  <2> HIDE DEF f
  <2> QED BY <1>3, SeqEqual DEF n
<1>5. t # << >> /\ Last(t) = e
    BY <1>1 DEF Last
<1> QED BY <1>1, <1>2, <1>4, <1>5 DEF t

LEMMA TurnTakes ==
    ASSUME IInv, Turn
    PROVE  /\ rest \in Seq(Chars) /\ Len(rest) >= 1 /\ Longest(rest).length \in 1..Len(rest)
           /\ Taken \in Lexemes /\ Taken \in Seq(Chars) /\ Len(Taken) = Longest(rest).length
           /\ \A i \in 1..Len(Taken) : Taken[i] = rest[i]
           /\ rest' \in Seq(Chars) /\ Taken \o rest' = rest /\ Head(Taken) = rest[1]
           /\ rest' # << >> => Len(Taken) + 1 \in 1..Len(rest) /\ Head(rest') = rest[Len(Taken) + 1]
           /\ matched' \in Seq(Lexemes) /\ matched' # << >> /\ Last(matched') = Taken /\ Front(matched') = matched
           /\ Scanned \in Seq(Chars) /\ Scanned' = Scanned \o Taken
           /\ token' = Longest(rest).token /\ token' \in Tokens
<1> DEFINE n == Longest(rest).length
           left == SubSeq(rest, n + 1, Len(rest))
<1>1. rest \in Seq(Chars) /\ rest # << >> /\ matched \in Seq(Lexemes)
    BY DEF IInv, TypeOK, Turn
<1>2. Len(rest) >= 1
    BY <1>1
<1>3. n \in 1..Len(rest) /\ Longest(rest).token \in Tokens
    BY <1>1, <1>2, LengthIs
<1>4. rest' = left /\ matched' = Append(matched, Taken) /\ token' = Longest(rest).token
    BY DEF Turn, Taken
<1> HIDE DEF n
<1>5. /\ Taken \in Seq(Chars) /\ Len(Taken) = n /\ \A i \in 1..n : Taken[i] = rest[i]
      /\ Taken # << >> /\ Head(Taken) = rest[1]
      /\ left \in Seq(Chars) /\ Taken \o left = rest
      /\ left # << >> => n + 1 \in 1..Len(rest) /\ Head(left) = rest[n + 1]
    BY <1>1, <1>3, TakenIs DEF Taken, n
<1> HIDE DEF left
<1>6. Taken \in Lexemes
    BY <1>5 DEF Lexemes
<1>7. matched' \in Seq(Lexemes) /\ matched' # << >> /\ Last(matched') = Taken /\ Front(matched') = matched
  <2> HIDE DEF Lexemes
  <2> QED BY <1>1, <1>4, <1>6, AppendedIs
<1>8. Scanned \in Seq(Chars) /\ matched \in Seq(Seq(Chars))
    BY <1>1, LexemesAre DEF Scanned
<1>9. Scanned' = Scanned \o Taken
    BY <1>4, <1>5, <1>8, FlattenAppend DEF Scanned
<1> QED BY <1>1, <1>2, <1>3, <1>4, <1>5, <1>6, <1>7, <1>8, <1>9 DEF n

LEMMA TurnCounts ==
    ASSUME IInv, Turn
    PROVE  /\ lines' = 1 + Newlines(Scanned') /\ lines' \in Nat
           /\ prev_line' = yylineno' /\ yylineno' \in Nat
           /\ pos_start' = pos_end' /\ pos_end' \in Nat /\ ColumnAt(Scanned', Len(Scanned'), pos_end')
           /\ printed' \in [line : Nat, from : Nat, to : Nat]
           /\ printed' # Nowhere => printed' = [line |-> 1 + Newlines(Scanned), from |-> pos_start,
                                               to |-> pos_start + Len(Taken)]
<1> DEFINE at == Counted(Taken, [start |-> pos_start, end |-> pos_end])
<1>1. /\ Taken \in Seq(Chars) /\ Scanned \in Seq(Chars) /\ Scanned' = Scanned \o Taken
      /\ rest \in Seq(Chars) /\ Len(rest) >= 1
      /\ Len(Taken) = Longest(rest).length /\ \A i \in 1..Len(Taken) : Taken[i] = rest[i]
    BY TurnTakes
<1>2. /\ lines = 1 + Newlines(Scanned) /\ prev_line = yylineno /\ yylineno \in Nat
      /\ pos_start = pos_end /\ pos_end \in Nat /\ ColumnAt(Scanned, Len(Scanned), pos_end)
  <2>1. pc = "scan" /\ yylineno \in Nat
      BY DEF Turn, IInv, TypeOK
  <2>2. /\ lines = 1 + Newlines(Scanned) /\ prev_line = yylineno
        /\ pos_start = pos_end /\ ColumnAt(Scanned, Len(Scanned), pos_end)
      BY <2>1 DEF IInv, Counting
  <2>3. Len(Scanned) \in Nat
      BY <1>1
  <2>4. pos_end \in 1..(Len(Scanned) + 1)
      BY <2>2, <2>3, ColumnGrows
  <2>5. pos_end \in Nat
      BY <2>3, <2>4
  <2> QED BY <2>1, <2>2, <2>5
<1>3. /\ at \in [start : Nat, end : Nat] /\ ColumnAt(Scanned', Len(Scanned'), at.end)
      /\ (\A i \in 1..Len(Taken) : Taken[i] # "\n") => at = [start |-> pos_start, end |-> pos_end + Len(Taken)]
  <2> DEFINE from == [start |-> pos_start, end |-> pos_end]
  <2>1. from \in [start : Nat, end : Nat] /\ from.start = pos_start /\ from.end = pos_end
      BY <1>2
  <2> HIDE DEF from
  <2>2. ColumnAt(Scanned, Len(Scanned), from.end)
      BY <1>2, <2>1
  <2>3. /\ Counted(Taken, from) \in [start : Nat, end : Nat]
        /\ ColumnAt(Scanned \o Taken, Len(Scanned \o Taken), Counted(Taken, from).end)
        /\ (\A i \in 1..Len(Taken) : Taken[i] # "\n") =>
               Counted(Taken, from) = [start |-> from.start, end |-> from.end + Len(Taken)]
      BY <1>1, <2>1, <2>2, CountedRight
  <2> QED BY <1>1, <2>1, <2>3 DEF from
<1>4. /\ yylineno' = yylineno + Newlines(Taken) /\ lines' = lines + yylineno' - prev_line
      /\ printed' = IF Longest(rest).token \in {"eol", "comment", "blank"} THEN Nowhere
                    ELSE [line |-> lines', from |-> at.start, to |-> at.end]
      /\ prev_line' = yylineno' /\ pos_start' = at.end /\ pos_end' = at.end
    BY DEF Turn, Taken
<1> HIDE DEF at
<1>5. /\ Newlines(Taken) \in Nat /\ Newlines(Scanned) \in Nat
      /\ Newlines(Scanned') = Newlines(Scanned) + Newlines(Taken)
    BY <1>1, NewlinesAre, NewlinesAdd
<1>6. lines' = 1 + Newlines(Scanned') /\ lines' \in Nat /\ yylineno' \in Nat
  <2> DEFINE a == Newlines(Scanned)
             b == Newlines(Taken)
             c == Newlines(Scanned')
  <2>1. a \in Nat /\ b \in Nat /\ c = a + b /\ yylineno \in Nat
      BY <1>2, <1>5
  <2>2. lines = 1 + a /\ prev_line = yylineno /\ yylineno' = yylineno + b /\ lines' = lines + yylineno' - prev_line
      BY <1>2, <1>4
  <2> HIDE DEF a, b, c
  <2>3. lines' = 1 + c /\ lines' \in Nat /\ yylineno' \in Nat
      BY <2>1, <2>2
  <2> QED BY <2>3 DEF c
<1>7. pos_start' = pos_end' /\ pos_end' \in Nat /\ ColumnAt(Scanned', Len(Scanned'), pos_end')
    BY <1>3, <1>4
<1>8. printed' \in [line : Nat, from : Nat, to : Nat]
    BY <1>3, <1>4, <1>6 DEF Nowhere
<1>9. ASSUME printed' # Nowhere
      PROVE  printed' = [line |-> 1 + Newlines(Scanned), from |-> pos_start, to |-> pos_start + Len(Taken)]
  <2>1. /\ Longest(rest).token \notin {"eol", "comment"}
        /\ printed' = [line |-> lines', from |-> at.start, to |-> at.end]
      BY <1>4, <1>9
  <2>2. \A i \in 1..Len(Taken) : Taken[i] # "\n"
      BY <1>1, <2>1, LongestLines
  <2>3. at = [start |-> pos_start, end |-> pos_end + Len(Taken)]
      BY <1>3, <2>2
  <2>4. Newlines(Taken) = 0
    <3>1. {k \in DOMAIN Taken : Taken[k] = "\n"} = {}
        BY <1>1, <2>2
    <3> QED BY <3>1, FS_EmptySet DEF Newlines
  <2>5. lines' = 1 + Newlines(Scanned)
      BY <1>5, <1>6, <2>4
  <2> QED BY <1>2, <2>1, <2>3, <2>5
<1> QED BY <1>4, <1>6, <1>7, <1>8, <1>9

(* A file that is not scanned yet: column 1 of line 1. *)
LEMMA NothingScanned ==
    /\ << >> \in Seq(Lexemes) /\ FlattenSeq(<< >>) = << >>
    /\ Newlines(<< >>) = 0 /\ Len(<< >>) = 0 /\ ColumnAt(<< >>, 0, 1)
<1>1. {k \in DOMAIN << >> : << >>[k] = "\n"} = {}
    OBVIOUS
<1>2. Newlines(<< >>) = 0
    BY <1>1, FS_EmptySet DEF Newlines
<1>3. ColumnAt(<< >>, 0, 1)
  <2>1. 0 \in 0..0 /\ (0 + 1)..0 = {} /\ 1 = 0 + 1 - 0
      OBVIOUS
  <2> QED BY <2>1 DEF ColumnAt
<1>4. << >> \in Seq(Lexemes) /\ Len(<< >>) = 0
    OBVIOUS
<1> QED BY <1>2, <1>3, <1>4, FlattenEmpty

LEMMA InitInv == Init => IInv
<1> SUFFICES ASSUME Init PROVE IInv
    OBVIOUS
<1>1. Len(FlattenSeq(matched)) = 0 /\ matched \in Seq(Lexemes)
    BY NothingScanned DEF Init
<1>2. rest \in Seq(Chars) /\ printed \in [line : Nat, from : Nat, to : Nat]
    BY DEF Init, Nowhere
<1>3. pos_start \in 0..pos_end /\ pos_end <= Len(FlattenSeq(matched)) + 1
    BY <1>1 DEF Init
<1>4. TypeOK
    BY <1>1, <1>2, <1>3, MaxFilesIsNat DEF TypeOK, Init
<1> QED BY <1>4 DEF IInv, Counting, Init

LEMMA StepInv == IInv /\ [Next]_vars => IInv'
<1> SUFFICES ASSUME IInv, [Next]_vars PROVE IInv'
    OBVIOUS
<1> USE DEF IInv
<1>1. CASE Analyze
  <2>1. /\ matched' = << >> /\ pos_start' = 1 /\ pos_end' = 1 /\ lines' = 1 /\ prev_line' = yylineno
        /\ yylineno' = yylineno /\ pc' = "scan" /\ files' = files + 1 /\ files < MaxFiles
        /\ rest' \in Texts /\ token' = "none" /\ printed' = Nowhere
      BY <1>1 DEF Analyze, Analyzed
  <2>2. matched' \in Seq(Lexemes) /\ FlattenSeq(matched') = << >> /\ Len(FlattenSeq(matched')) = 0
      BY <2>1, NothingScanned
  <2>3. rest' \in Seq(Chars) /\ printed' \in [line : Nat, from : Nat, to : Nat]
      BY <2>1, TextsAreText DEF Nowhere
  <2>4. pos_start' \in 0..pos_end' /\ pos_end' <= Len(FlattenSeq(matched')) + 1
      BY <2>1, <2>2
  <2>5. files' \in 0..MaxFiles /\ yylineno' \in Nat /\ lines' \in Nat /\ prev_line' \in Nat
      BY <2>1, MaxFilesIsNat DEF TypeOK
  <2>6. TypeOK'
      BY <2>1, <2>2, <2>3, <2>4, <2>5 DEF TypeOK
  <2>7. Counting'
    <3>1. lines' = 1 + Newlines(Scanned') /\ ColumnAt(Scanned', Len(Scanned'), pos_end')
        BY <2>1, <2>2, NothingScanned DEF Scanned
    <3> QED BY <2>1, <3>1 DEF Counting
  <2> QED BY <2>6, <2>7
<1>2. CASE Turn
  <2>1. /\ rest' \in Seq(Chars) /\ matched' \in Seq(Lexemes) /\ token' \in Tokens
        /\ Scanned' \in Seq(Chars)
    <3>1. rest' \in Seq(Chars) /\ matched' \in Seq(Lexemes) /\ token' \in Tokens
        BY <1>2, TurnTakes
    <3> QED BY <3>1, LexemesAre DEF Scanned
  <2>2. /\ lines' = 1 + Newlines(Scanned') /\ lines' \in Nat
        /\ prev_line' = yylineno' /\ yylineno' \in Nat
        /\ pos_start' = pos_end' /\ pos_end' \in Nat /\ ColumnAt(Scanned', Len(Scanned'), pos_end')
        /\ printed' \in [line : Nat, from : Nat, to : Nat]
      BY <1>2, TurnCounts
  <2>3. pos_end' <= Len(Scanned') + 1 /\ pos_start' \in 0..pos_end'
    <3>1. Len(Scanned') \in Nat
        BY <2>1
    <3>2. pos_end' \in 1..(Len(Scanned') + 1)
        BY <2>2, <3>1, ColumnGrows
    <3> QED BY <2>2, <3>1, <3>2
  <2>4. pc' = "scan" /\ files' = files
      BY <1>2 DEF Turn
  <2>5. TypeOK'
      BY <2>1, <2>2, <2>3, <2>4 DEF TypeOK, Scanned
  <2>6. Counting'
      BY <2>2 DEF Counting
  <2> QED BY <2>5, <2>6
<1>3. CASE AnalyzeFails \/ EndOfFile \/ Return
  <2>1. pc' \in {"main", "done", "exit"} /\ UNCHANGED <<files, rest, matched, token, globals, printed>>
      BY <1>3 DEF AnalyzeFails, EndOfFile, Return
  <2>2. TypeOK'
      BY <2>1 DEF TypeOK, globals
  <2>3. Counting'
      BY <2>1 DEF Counting
  <2> QED BY <2>2, <2>3
<1>4. CASE Stop \/ UNCHANGED vars
  <2>1. UNCHANGED vars
      BY <1>4 DEF Stop
  <2> QED BY <2>1 DEF vars, globals, TypeOK, Counting, Scanned
<1> QED BY <1>1, <1>2, <1>3, <1>4 DEF Next

(* Types: of the positions, no column is past the end of the file          *)
(* (analyzer, lex_main).                                                   *)
THEOREM TypeCorrect == Spec => []TypeOK
<1>1. IInv => TypeOK
    BY DEF IInv
<1> QED BY InitInv, StepInv, <1>1, PTL DEF Spec

THEOREM InvHolds == Spec => []IInv
BY InitInv, StepInv, PTL DEF Spec

-----------------------------------------------------------------------------
(* The properties are about the last lexeme, which only a turn changes. *)
LEMMA Steps ==
    ASSUME IInv, [Next]_vars
    PROVE  \/ Turn
           \/ matched' = << >> /\ printed' = Nowhere
           \/ UNCHANGED <<rest, matched, token, printed>>
<1>1. CASE Analyze
    BY <1>1 DEF Analyze, Analyzed
<1>2. CASE AnalyzeFails \/ EndOfFile \/ Return
    BY <1>2 DEF AnalyzeFails, EndOfFile, Return
<1>3. CASE Stop \/ UNCHANGED vars
    BY <1>3 DEF Stop, vars
<1> QED BY <1>1, <1>2, <1>3 DEF Next

(* Whatever the files hold, the line and the columns printed with a token  *)
(* are where it stands in its file (lex_main).                             *)
THEOREM PositionsHold == Spec => []PositionsAreTrue
<1>1. Init => PositionsAreTrue
    BY DEF Init, PositionsAreTrue
<1>2. ASSUME IInv, Turn PROVE PositionsAreTrue'
  <2> SUFFICES ASSUME printed' # Nowhere
      PROVE  LET ends == {k \in DOMAIN Before' : Before'[k] = "\n"}
                 column == Len(Before') + 1 - Max(ends \cup {0})
             IN  printed' = [line |-> Cardinality(ends) + 1, from |-> column, to |-> column + Len(Lexeme')]
      BY DEF PositionsAreTrue
  <2>1. Lexeme' = Taken /\ Before' = Scanned /\ Scanned \in Seq(Chars)
      BY <1>2, TurnTakes DEF Lexeme, Before, Scanned
  <2>2. printed' = [line |-> 1 + Newlines(Scanned), from |-> pos_start, to |-> pos_start + Len(Taken)]
      BY <1>2, TurnCounts
  <2>3. ColumnAt(Scanned, Len(Scanned), pos_start)
      BY <1>2 DEF IInv, Counting, Turn
  <2>4. pos_start = Len(Scanned) + 1 - Max({k \in DOMAIN Scanned : Scanned[k] = "\n"} \cup {0})
      BY <2>1, <2>3, ColumnIs
  <2>5. Newlines(Scanned) = Cardinality({k \in DOMAIN Scanned : Scanned[k] = "\n"}) /\ Newlines(Scanned) \in Nat
      BY <2>1, NewlinesAre DEF Newlines
  <2>6. 1 + Newlines(Scanned) = Newlines(Scanned) + 1
      BY <2>5
  <2> QED BY Zenon, <2>1, <2>2, <2>4, <2>5, <2>6
<1>3. ASSUME IInv, PositionsAreTrue, [Next]_vars PROVE PositionsAreTrue'
  <2>1. CASE printed' = Nowhere
      BY <2>1 DEF PositionsAreTrue
  <2>2. CASE UNCHANGED <<rest, matched, token, printed>>
      BY <1>3, <2>2 DEF PositionsAreTrue, Lexeme, Before
  <2> QED BY <1>2, <1>3, <2>1, <2>2, Steps
<1> QED BY <1>1, <1>3, InvHolds, PTL DEF Spec

(* Whatever the files hold, a comment ends at the first closing after its  *)
(* opening, and where there is one there is a comment (the COMMENT rule).  *)
THEOREM CommentsEnd == Spec => []CommentsEndAtFirstClose
<1>1. Init => CommentsEndAtFirstClose
    BY DEF Init, CommentsEndAtFirstClose
<1>2. ASSUME IInv, Turn PROVE CommentsEndAtFirstClose'
  <2>1. /\ rest \in Seq(Chars) /\ Len(rest) >= 1 /\ Lexeme' = Taken /\ Lexeme' \o rest' = rest
        /\ token' = Longest(rest).token /\ Len(Taken) = Longest(rest).length
      BY <1>2, TurnTakes DEF Lexeme
  <2>2. IsPrefix(<<"/", "*">>, rest) <=> Opens(rest)
    <3> DEFINE s == <<"/", "*">>
    <3>5. Len(s) = 2 /\ s \in Seq({"/", "*"}) /\ s[1] = "/" /\ s[2] = "*"
        OBVIOUS
    <3>1. SubSeq(s, 1, 2) = s
      <4> HIDE DEF s
      <4> QED BY <3>5, SubSeqFull
    <3>2. ASSUME Len(rest) >= 2 PROVE SubSeq(rest, 1, 2) = s <=> rest[1] = "/" /\ rest[2] = "*"
      <4>1. 2 \in 1..Len(rest) /\ 1..2 = {1, 2}
          BY <2>1, <3>2
      <4>2. LET a == SubSeq(rest, 1, 2)
            IN  a \in Seq(Chars) /\ Len(a) = 2 /\ a[1] = rest[1] /\ a[2] = rest[2]
          BY <2>1, <4>1, TakenIs
      <4> DEFINE a == SubSeq(rest, 1, 2)
      <4>3. a \in Seq(Chars) /\ Len(a) = 2 /\ a[1] = rest[1] /\ a[2] = rest[2]
          BY <4>2
      <4> HIDE DEF a, s
      <4>4. a[1] = s[1] /\ a[2] = s[2] => a = s
        <5> SUFFICES ASSUME a[1] = s[1], a[2] = s[2] PROVE a = s
            OBVIOUS
        <5>1. \A i \in 1..Len(a) : a[i] = s[i]
            BY <4>1, <4>3
        <5> QED BY <3>5, <4>3, <5>1, SeqEqual
      <4>5. a = s <=> rest[1] = "/" /\ rest[2] = "*"
          BY <3>5, <4>3, <4>4
      <4> QED BY <4>5 DEF a
    <3>3. IsPrefix(s, rest) <=> 2 <= Len(rest) /\ SubSeq(rest, 1, 2) = s
      <4> HIDE DEF s
      <4>1. IsPrefix(s, rest) <=> Len(s) <= Len(rest) /\ SubSeq(s, 1, Len(s)) = SubSeq(rest, 1, Len(s))
          BY DEF IsPrefix
      <4> QED BY Zenon, <3>1, <3>5, <4>1
    <3>4. Len(rest) \in Nat
        BY <2>1
    <3> HIDE DEF s
    <3> QED BY <3>2, <3>3, <3>4 DEF Opens, s
  <2>3. Closes(rest) # {} => CloseIs(rest, Min(Closes(rest)))
    <3>1. Closes(rest) \subseteq Nat
        BY DEF Closes
    <3> QED BY <3>1, MinIs DEF CloseIs
  <2>4. Opens(rest) /\ Closes(rest) # {} => token' = "comment" /\ Len(Lexeme') = Min(Closes(rest))
    <3> SUFFICES ASSUME Opens(rest), Closes(rest) # {}
        PROVE  token' = "comment" /\ Len(Lexeme') = Min(Closes(rest))
        OBVIOUS
    <3>1. Longest(rest) = [token |-> "comment", length |-> Min(Closes(rest))]
        BY <2>1, <2>3, LongestComment
    <3> QED BY <2>1, <3>1
  <2>5. token' = "comment" => Opens(rest) /\ Closes(rest) # {}
      BY <2>1, LongestComment
  <2>6. IF IsPrefix(<<"/", "*">>, rest) /\ Closes(rest) # {}
        THEN token' = "comment" /\ Len(Lexeme') = Min(Closes(rest))
        ELSE token' # "comment"
      BY <2>2, <2>4, <2>5
  <2> QED BY <2>1, <2>6 DEF CommentsEndAtFirstClose, Closes
<1>3. ASSUME IInv, CommentsEndAtFirstClose, [Next]_vars PROVE CommentsEndAtFirstClose'
  <2>1. CASE matched' = << >>
      BY <2>1 DEF CommentsEndAtFirstClose
  <2>2. CASE UNCHANGED <<rest, matched, token, printed>>
      BY <1>3, <2>2 DEF CommentsEndAtFirstClose, Lexeme
  <2> QED BY <1>2, <1>3, <2>1, <2>2, Steps
<1> QED BY <1>1, <1>3, InvHolds, PTL DEF Spec

(* Whatever the files hold, a run of letters is one token, and reserved if *)
(* and only if it is a reserved word (the rules and their order).          *)
THEOREM WordsHold == Spec => []WordsAreWhole
<1>1. Init => WordsAreWhole
    BY DEF Init, WordsAreWhole
<1>2. ASSUME IInv, Turn PROVE WordsAreWhole'
  <2>1. /\ rest \in Seq(Chars) /\ Len(rest) >= 1 /\ Longest(rest).length \in 1..Len(rest)
        /\ Lexeme' = Taken /\ Len(Taken) = Longest(rest).length
        /\ Taken \in Seq(Chars) /\ \A i \in 1..Len(Taken) : Taken[i] = rest[i]
        /\ Head(Taken) = rest[1] /\ token' = Longest(rest).token
        /\ rest' # << >> => Len(Taken) + 1 \in 1..Len(rest) /\ Head(rest') = rest[Len(Taken) + 1]
      BY <1>2, TurnTakes DEF Lexeme
  <2> SUFFICES ASSUME Head(Taken) \in Letters
      PROVE  /\ Range(Taken) \subseteq Letters
             /\ rest' # << >> => Head(rest') \notin Letters
             /\ IF \E word \in DOMAIN Keywords : Keywords[word] = Taken
                THEN token' # "ID" /\ Keywords[token'] = Taken
                ELSE token' = "ID"
      BY <2>1 DEF WordsAreWhole
  <2> DEFINE n == Longest(rest).length
  <2>2. /\ \A i \in 1..n : rest[i] \in Letters
        /\ n + 1 \in 1..Len(rest) => rest[n + 1] \notin Letters
        /\ IF \E word \in DOMAIN Keywords : Keywords[word] = Taken
           THEN token' # "ID" /\ Keywords[token'] = Taken
           ELSE token' = "ID"
    <3>1. rest[1] \in Letters
        BY <2>1
    <3> QED BY <2>1, <3>1, LongestWord DEF Taken
  <2>3. Range(Taken) \subseteq Letters
      BY <2>1, <2>2 DEF Range
  <2> QED BY <2>1, <2>2, <2>3
<1>3. ASSUME IInv, WordsAreWhole, [Next]_vars PROVE WordsAreWhole'
  <2>1. CASE matched' = << >>
      BY <2>1 DEF WordsAreWhole
  <2>2. CASE UNCHANGED <<rest, matched, token, printed>>
      BY <1>3, <2>2 DEF WordsAreWhole, Lexeme
  <2> QED BY <1>2, <1>3, <2>1, <2>2, Steps
<1> QED BY <1>1, <1>3, InvHolds, PTL DEF Spec
=============================================================================
