---------------------------- MODULE PurchaseProofs ----------------------------
(***************************************************************************)
(* Proofs about PurchaseAmounts, for any number of decimals, any amounts   *)
(* and any number of purchases.                                            *)
(*                                                                         *)
(* What the recursive functions of the module compute is proved by         *)
(* induction.  The library states induction for predicates; here it is     *)
(* derived, for sets of naturals, from WFMin.                              *)
(***************************************************************************)
EXTENDS PurchaseAmounts, WellFoundedInduction, TLAPS

-----------------------------------------------------------------------------
(* Induction and recursion over the naturals.                              *)

(* Every set of naturals that is not empty has a least element.            *)
LEMMA LeastNatural ==
    ASSUME NEW T, T \subseteq Nat, T # {}
    PROVE  \E x \in T : \A y \in T : x <= y
<1>1. \E x \in T : \A y \in T : ~ (<<y, x>> \in OpToRel(<, Nat))
  BY WFMin, NatLessThanWellFounded
<1>2. \A x, y \in T : ~ (<<y, x>> \in OpToRel(<, Nat)) => x <= y
  BY DEF OpToRel
<1>. QED BY <1>1, <1>2

(* Induction, for a set instead of a predicate.                            *)
LEMMA Induction ==
    ASSUME NEW T, 0 \in T, \A n \in Nat : n \in T => n + 1 \in T
    PROVE  \A n \in Nat : n \in T
<1>. DEFINE U == Nat \ T
<1>. SUFFICES ASSUME U # {} PROVE FALSE
  OBVIOUS
<1>1. PICK x \in U : \A y \in U : x <= y
  <2>. U \subseteq Nat OBVIOUS
  <2>. HIDE DEF U
  <2>. QED BY LeastNatural
<1>2. x # 0 BY <1>1
<1>3. x - 1 \in Nat /\ x - 1 \in T BY <1>1, <1>2
<1>. QED BY <1>1, <1>3

(* f starts with base, and step leads from each value, with the place of   *)
(* the next, to the next.                                                  *)
Follows(f, base, step) ==
    /\ f[0] = base
    /\ \A n \in Nat : f[n + 1] = step[<<f[n], n + 1>>]

(* There is a function that starts with base and follows step.             *)
LEMMA Recursion ==
    ASSUME NEW S, NEW base, NEW step,
           base \in S, step \in [S \X Nat -> S]
    PROVE  \E f : f \in [Nat -> S] /\ Follows(f, base, step)
<1>. DEFINE Starts(n) ==
         {g \in [0..n -> S] :
             g[0] = base /\ \A m \in 0..n-1 : g[m + 1] = step[<<g[m], m + 1>>]}
<1>1. ASSUME NEW n \in Nat, NEW g \in Starts(n)
      PROVE  [m \in 0..n+1 |-> IF m = n + 1 THEN step[<<g[n], n + 1>>] ELSE g[m]] \in Starts(n + 1)
  <2>. DEFINE h == [m \in 0..n+1 |-> IF m = n + 1 THEN step[<<g[n], n + 1>>] ELSE g[m]]
  <2>1. g \in [0..n -> S] /\ g[n] \in S OBVIOUS
  <2>2. step[<<g[n], n + 1>>] \in S BY <2>1
  <2>3. h \in [0..n+1 -> S] BY <2>1, <2>2
  <2>4. h[0] = base BY <2>1
  <2>5. ASSUME NEW m \in 0..(n+1)-1 PROVE h[m + 1] = step[<<h[m], m + 1>>]
    <3>1. m \in 0..n /\ m + 1 \in 0..n+1 /\ m # n + 1 OBVIOUS
    <3>2. h[m] = g[m] BY <3>1
    <3>3. CASE m = n BY <3>1, <3>2, <3>3
    <3>4. CASE m # n
      <4>1. m \in 0..n-1 BY <3>1, <3>4
      <4>2. h[m + 1] = g[m + 1] BY <4>1
      <4>. QED BY <4>1, <4>2, <3>2
    <3>. QED BY <3>3, <3>4
  <2>. QED BY <2>3, <2>4, <2>5
<1>2. \A n \in Nat : Starts(n) # {}
  <2>. DEFINE T == {n \in Nat : Starts(n) # {}}
  <2>1. 0 \in T
    <3>1. [m \in 0..0 |-> base] \in Starts(0) OBVIOUS
    <3>. QED BY <3>1
  <2>2. ASSUME NEW n \in Nat, n \in T PROVE n + 1 \in T
    <3>. HIDE DEF Starts
    <3>1. PICK g \in Starts(n) : TRUE BY <2>2
    <3>2. Starts(n + 1) # {} BY <1>1, <3>1
    <3>. QED BY <3>2
  <2>. HIDE DEF T
  <2>3. \A n \in Nat : n \in T BY <2>1, <2>2, Induction
  <2>. QED BY <2>3 DEF T
<1>3. ASSUME NEW n \in Nat, NEW k \in Nat, n <= k, NEW g \in Starts(n), NEW h \in Starts(k)
      PROVE  g[n] = h[n]
  <2>. DEFINE T == {m \in Nat : m <= n => g[m] = h[m]}
  <2>1. 0 \in T OBVIOUS
  <2>2. ASSUME NEW m \in Nat, m \in T PROVE m + 1 \in T
    <3>. SUFFICES ASSUME m + 1 <= n PROVE g[m + 1] = h[m + 1]
      OBVIOUS
    <3>1. m \in 0..n-1 /\ m \in 0..k-1 BY <1>3
    <3>2. g[m] = h[m] BY <2>2
    <3>. QED BY <3>1, <3>2
  <2>. HIDE DEF T
  <2>3. \A m \in Nat : m \in T BY <2>1, <2>2, Induction
  <2>. QED BY <2>3 DEF T
<1>. DEFINE start(n) == CHOOSE g \in Starts(n) : TRUE
            f == [n \in Nat |-> start(n)[n]]
<1>4. \A n \in Nat : start(n) \in Starts(n)
  <2>. HIDE DEF Starts
  <2>. QED BY <1>2
<1>. HIDE DEF start
<1>5. \A n \in Nat : start(n) \in [0..n -> S] /\ start(n)[0] = base
  BY <1>4
<1>6. f \in [Nat -> S] BY <1>5
<1>7. f[0] = base BY <1>5
<1>8. ASSUME NEW n \in Nat PROVE f[n + 1] = step[<<f[n], n + 1>>]
  <2>1. start(n + 1)[n + 1] = step[<<start(n + 1)[n], n + 1>>]
    BY <1>4
  <2>2. start(n + 1)[n] = start(n)[n]
    <3>. HIDE DEF Starts
    <3>1. n <= n + 1 /\ n + 1 \in Nat OBVIOUS
    <3>. QED BY <1>3, <1>4, <3>1
  <2>. QED BY <2>1, <2>2
<1>. QED BY <1>6, <1>7, <1>8 DEF Follows

(* The powers of ten, as their definition means them.                      *)
LEMMA TenToDef ==
    /\ TenTo \in [Nat -> Nat \ {0}]
    /\ TenTo[0] = 1
    /\ \A n \in Nat : TenTo[n + 1] = 10 * TenTo[n]
<1>. DEFINE S == Nat \ {0}
            step == [x \in S \X Nat |-> 10 * x[1]]
            rec(f) == f = [n \in Nat |-> IF n = 0 THEN 1 ELSE 10 * f[n - 1]]
<1>1. 1 \in S /\ step \in [S \X Nat -> S] OBVIOUS
<1>2. PICK f : f \in [Nat -> S] /\ Follows(f, 1, step)
  <2>. HIDE DEF step, S
  <2>. QED BY <1>1, Recursion
<1>3. ASSUME NEW n \in Nat PROVE f[n + 1] = 10 * f[n]
  <2>1. <<f[n], n + 1>> \in S \X Nat BY <1>2
  <2>2. step[<<f[n], n + 1>>] = 10 * f[n] BY <2>1
  <2>. QED BY <1>2, <2>2 DEF Follows
<1>4. ASSUME NEW n \in Nat PROVE f[n] = IF n = 0 THEN 1 ELSE 10 * f[n - 1]
  <2>1. CASE n = 0 BY <2>1, <1>2 DEF Follows
  <2>2. CASE n # 0
    <3>1. n - 1 \in Nat /\ (n - 1) + 1 = n BY <2>2
    <3>. QED BY <3>1, <1>3, <2>2
  <2>. QED BY <2>1, <2>2
<1>5. rec(f) BY <1>4, <1>2
<1>6. rec(TenTo) BY <1>5 DEF TenTo
<1>7. TenTo[0] = 1 BY <1>6
<1>8. \A n \in Nat : TenTo[n + 1] = 10 * TenTo[n] BY <1>6
<1>9. \A n \in Nat : TenTo[n] \in Nat \ {0}
  <2>. DEFINE T == {n \in Nat : TenTo[n] \in Nat \ {0}}
  <2>1. 0 \in T BY <1>7
  <2>2. \A n \in Nat : n \in T => n + 1 \in T BY <1>8
  <2>. HIDE DEF T
  <2>3. \A n \in Nat : n \in T BY <2>1, <2>2, Induction
  <2>. QED BY <2>3 DEF T
<1>. QED BY <1>6, <1>7, <1>8, <1>9

(* Powers of ten multiply.                                                 *)
LEMMA TenToSum ==
    ASSUME NEW m \in Nat, NEW n \in Nat
    PROVE  TenTo[m + n] = TenTo[m] * TenTo[n]
<1>. DEFINE T == {k \in Nat : TenTo[m + k] = TenTo[m] * TenTo[k]}
<1>1. 0 \in T BY TenToDef
<1>2. ASSUME NEW k \in Nat, k \in T PROVE k + 1 \in T
  <2>. DEFINE a == TenTo[m]  b == TenTo[k]
  <2>1. m + k \in Nat /\ m + (k + 1) = (m + k) + 1 OBVIOUS
  <2>2. TenTo[m + (k + 1)] = 10 * TenTo[m + k] BY <2>1, TenToDef
  <2>3. TenTo[k + 1] = 10 * b BY TenToDef
  <2>4. TenTo[m + k] = a * b BY <1>2
  <2>5. a \in Nat /\ b \in Nat BY TenToDef
  <2>. HIDE DEF a, b
  <2>6. 10 * (a * b) = a * (10 * b) BY <2>5
  <2>. QED BY <2>2, <2>3, <2>4, <2>6 DEF a
<1>. HIDE DEF T
<1>3. \A k \in Nat : k \in T BY <1>1, <1>2, Induction
<1>. QED BY <1>3 DEF T

(* What BigInt division loses is less than the divisor.                    *)
LEMMA QuotientOfNat ==
    ASSUME NEW a \in Nat, NEW b \in Nat \ {0}
    PROVE  /\ Quotient(a, b) \in Nat
           /\ Quotient(a, b) * b <= a
           /\ a < (Quotient(a, b) + 1) * b
BY DEF Quotient

(* A quotient of at most c divisors is at most c.                          *)
LEMMA QuotientBelow ==
    ASSUME NEW a \in Nat, NEW b \in Nat \ {0}, NEW c \in Nat, a <= c * b
    PROVE  Quotient(a, b) <= c
<1>. DEFINE q == Quotient(a, b)
<1>1. q \in Nat /\ q * b <= a BY QuotientOfNat
<1>. HIDE DEF q
<1>2. q * b <= c * b BY <1>1
<1>3. q <= c BY <1>1, <1>2
<1>. QED BY <1>3 DEF q

-----------------------------------------------------------------------------
(* Recursion along a sequence of the length L.                             *)
FollowsTo(f, L, base, step) ==
    f = [n \in 0..L |-> IF n = 0 THEN base ELSE step[<<f[n - 1], n>>]]

(* The same for a function on 0..L.                                        *)
LEMMA BoundedRecursion ==
    ASSUME NEW S, NEW L \in Nat, NEW base, NEW step,
           base \in S, step \in [S \X (1..L) -> S]
    PROVE  \E f : f \in [0..L -> S] /\ FollowsTo(f, L, base, step)
<1>. DEFINE more == [x \in S \X Nat |-> IF x[2] \in 1..L THEN step[x] ELSE x[1]]
<1>1. more \in [S \X Nat -> S]
  <2>. SUFFICES ASSUME NEW x \in S \X Nat
                PROVE  (IF x[2] \in 1..L THEN step[x] ELSE x[1]) \in S
    OBVIOUS
  <2>1. CASE x[2] \in 1..L
    <3>1. x \in S \X (1..L) BY <2>1
    <3>. QED BY <2>1, <3>1
  <2>2. CASE x[2] \notin 1..L BY <2>2
  <2>. QED BY <2>1, <2>2
<1>2. PICK g : g \in [Nat -> S] /\ Follows(g, base, more)
  <2>. HIDE DEF more
  <2>. QED BY <1>1, Recursion
<1>. DEFINE f == [n \in 0..L |-> g[n]]
<1>3. f \in [0..L -> S] BY <1>2
<1>4. ASSUME NEW n \in 0..L
      PROVE  f[n] = IF n = 0 THEN base ELSE step[<<f[n - 1], n>>]
  <2>1. CASE n = 0 BY <1>2, <2>1 DEF Follows
  <2>2. CASE n # 0
    <3>1. n - 1 \in Nat /\ n - 1 \in 0..L /\ (n - 1) + 1 = n /\ n \in 1..L BY <2>2
    <3>2. g[n] = more[<<g[n - 1], n>>] BY <1>2, <3>1 DEF Follows
    <3>3. <<g[n - 1], n>> \in S \X Nat BY <1>2, <3>1
    <3>4. more[<<g[n - 1], n>>] = step[<<g[n - 1], n>>] BY <3>1, <3>3
    <3>. QED BY <3>1, <3>2, <3>4, <2>2
  <2>. QED BY <2>1, <2>2
<1>. QED BY <1>3, <1>4 DEF FollowsTo

Digits == Seq(0..9)

(* f[n] is the number that the first n digits write.                       *)
Writes(f, digits) ==
    f = [n \in 0..Len(digits) |-> IF n = 0 THEN 0 ELSE 10 * f[n - 1] + digits[n]]

(* NumberOf is the last value of the function that reads digit by digit.   *)
LEMMA NumberOfDef ==
    ASSUME NEW digits \in Digits
    PROVE  \E f : /\ f \in [0..Len(digits) -> Nat] /\ Writes(f, digits)
                  /\ NumberOf(digits) = f[Len(digits)]
<1>. DEFINE L == Len(digits)
            step == [x \in Nat \X (1..L) |-> 10 * x[1] + digits[x[2]]]
            g == CHOOSE f : Writes(f, digits)
<1>1. L \in Nat /\ \A n \in 1..L : digits[n] \in Nat BY DEF Digits
<1>2. step \in [Nat \X (1..L) -> Nat] BY <1>1
<1>3. PICK f : f \in [0..L -> Nat] /\ FollowsTo(f, L, 0, step)
  <2>. 0 \in Nat OBVIOUS
  <2>. HIDE DEF step, L
  <2>. QED BY <1>1, <1>2, BoundedRecursion
<1>4. ASSUME NEW n \in 0..L, n # 0
      PROVE  step[<<f[n - 1], n>>] = 10 * f[n - 1] + digits[n]
  <2>1. n - 1 \in 0..L /\ n \in 1..L BY <1>1, <1>4
  <2>2. <<f[n - 1], n>> \in Nat \X (1..L) BY <2>1, <1>3
  <2>. QED BY <2>2
<1>5. Writes(f, digits)
  <2>. HIDE DEF step
  <2>. QED BY <1>3, <1>4 DEF FollowsTo, Writes
<1>6. Writes(g, digits) BY <1>5
<1>7. NumberOf(digits) = g[L] BY DEF NumberOf, Writes
<1>8. g \in [0..L -> Nat]
  <2>. DEFINE T == {n \in Nat : n <= L => g[n] \in Nat}
  <2>. HIDE DEF g
  <2>1. 0 \in T BY <1>6, <1>1 DEF Writes
  <2>2. ASSUME NEW n \in Nat, n \in T PROVE n + 1 \in T
    <3>. SUFFICES ASSUME n + 1 <= L PROVE g[n + 1] \in Nat
      OBVIOUS
    <3>1. n + 1 \in 0..L /\ n + 1 \in 1..L /\ (n + 1) - 1 = n /\ n + 1 # 0 BY <1>1
    <3>2. g[n + 1] = 10 * g[n] + digits[n + 1] BY <1>6, <3>1 DEF Writes
    <3>3. g[n] \in Nat BY <2>2, <1>1
    <3>. QED BY <3>1, <3>2, <3>3, <1>1
  <2>3. \A n \in Nat : n \in T
    <3>. HIDE DEF T
    <3>. QED BY <2>1, <2>2, Induction
  <2>4. \A n \in 0..L : g[n] \in Nat BY <2>3, <1>1
  <2>. QED BY <2>4, <1>6 DEF Writes
<1>. QED BY <1>6, <1>7, <1>8

LEMMA NumberOfNothing == NumberOf(<<>>) = 0
<1>1. <<>> \in Digits /\ Len(<<>>) = 0 BY DEF Digits
<1>2. PICK f : Writes(f, <<>>) /\ NumberOf(<<>>) = f[0] BY <1>1, NumberOfDef
<1>3. f[0] = 0 BY <1>1, <1>2 DEF Writes
<1>. QED BY <1>2, <1>3

(* A further digit.                                                        *)
LEMMA NumberOfAppend ==
    ASSUME NEW digits \in Digits, NEW d \in 0..9
    PROVE  /\ NumberOf(digits) \in Nat
           /\ NumberOf(Append(digits, d)) = 10 * NumberOf(digits) + d
<1>. DEFINE L == Len(digits)
            more == Append(digits, d)
<1>1. /\ L \in Nat /\ more \in Digits /\ Len(more) = L + 1 /\ more[L + 1] = d
      /\ \A n \in 1..L : more[n] = digits[n]
  BY DEF Digits
<1>2. PICK f : f \in [0..L -> Nat] /\ Writes(f, digits) /\ NumberOf(digits) = f[L]
  BY NumberOfDef
<1>3. PICK g : g \in [0..Len(more) -> Nat] /\ Writes(g, more) /\ NumberOf(more) = g[Len(more)]
  BY <1>1, NumberOfDef
<1>4. \A n \in 0..L : f[n] = g[n]
  <2>. DEFINE T == {n \in Nat : n <= L => f[n] = g[n]}
  <2>. HIDE DEF more
  <2>1. 0 \in T BY <1>1, <1>2, <1>3 DEF Writes
  <2>2. ASSUME NEW n \in Nat, n \in T PROVE n + 1 \in T
    <3>. SUFFICES ASSUME n + 1 <= L PROVE f[n + 1] = g[n + 1]
      OBVIOUS
    <3>1. /\ n + 1 \in 0..L /\ n + 1 \in 0..L+1 /\ n + 1 \in 1..L
          /\ (n + 1) - 1 = n /\ n + 1 # 0
      BY <1>1
    <3>2. f[n + 1] = 10 * f[n] + digits[n + 1] BY <1>2, <3>1 DEF Writes
    <3>3. g[n + 1] = 10 * g[n] + more[n + 1] BY <1>1, <1>3, <3>1 DEF Writes
    <3>4. f[n] = g[n] BY <2>2, <1>1
    <3>. QED BY <3>1, <3>2, <3>3, <3>4, <1>1
  <2>3. \A n \in Nat : n \in T
    <3>. HIDE DEF T
    <3>. QED BY <2>1, <2>2, Induction
  <2>. QED BY <2>3, <1>1
<1>5. g[L + 1] = 10 * g[L] + d
  <2>1. L + 1 \in 0..L+1 /\ (L + 1) - 1 = L /\ L + 1 # 0 BY <1>1
  <2>. HIDE DEF more
  <2>. QED BY <2>1, <1>1, <1>3 DEF Writes
<1>. QED BY <1>1, <1>2, <1>3, <1>4, <1>5

LEMMA OneDigit ==
    ASSUME NEW d \in 0..9
    PROVE  <<d>> \in Digits /\ Len(<<d>>) = 1 /\ <<d>> = Append(<<>>, d)
BY DEF Digits

LEMMA OneMore ==
    ASSUME NEW s \in Digits, NEW d \in 0..9
    PROVE  Append(s, d) \in Digits /\ Len(Append(s, d)) = Len(s) + 1 /\ Len(s) \in Nat
BY DEF Digits

LEMMA Joined ==
    ASSUME NEW s \in Digits, NEW t \in Digits
    PROVE  /\ s \o t \in Digits /\ Len(s \o t) = Len(s) + Len(t)
           /\ \A k \in 1..Len(s) : (s \o t)[k] = s[k]
           /\ \A k \in 1..Len(t) : (s \o t)[Len(s) + k] = t[k]
BY DEF Digits

LEMMA SameDigits ==
    ASSUME NEW s \in Digits, NEW t \in Digits, Len(s) = Len(t),
           \A k \in 1..Len(s) : s[k] = t[k]
    PROVE  s = t
BY DEF Digits

(* Digits that are not empty are some digits and a last one.               *)
LEMMA SplitLast ==
    ASSUME NEW s \in Digits, NEW k \in Nat, Len(s) = k + 1
    PROVE  /\ SubSeq(s, 1, k) \in Digits /\ Len(SubSeq(s, 1, k)) = k
           /\ s[k + 1] \in 0..9
           /\ s = Append(SubSeq(s, 1, k), s[k + 1])
BY DEF Digits

(* Digits after a number shift it and add theirs.                          *)
LEMMA NumberOfConcat ==
    ASSUME NEW s \in Digits, NEW t \in Digits
    PROVE  /\ s \o t \in Digits
           /\ NumberOf(s \o t) = NumberOf(s) * TenTo[Len(t)] + NumberOf(t)
<1>. DEFINE Splits(u) == NumberOf(s \o u) = NumberOf(s) * TenTo[Len(u)] + NumberOf(u)
            T == {k \in Nat : \A u \in Digits : Len(u) = k => Splits(u)}
<1>0. NumberOf(s) \in Nat
  <2>1. 0 \in 0..9 OBVIOUS
  <2>. QED BY <2>1, NumberOfAppend
<1>1. 0 \in T
  <2>. SUFFICES ASSUME NEW u \in Digits, Len(u) = 0 PROVE Splits(u)
    OBVIOUS
  <2>1. u = <<>> /\ s \o u = s BY DEF Digits
  <2>. QED BY <2>1, <1>0, TenToDef, NumberOfNothing
<1>2. ASSUME NEW k \in Nat, k \in T PROVE k + 1 \in T
  <2>. SUFFICES ASSUME NEW u \in Digits, Len(u) = k + 1 PROVE Splits(u)
    OBVIOUS
  <2>. DEFINE v == SubSeq(u, 1, k)  d == u[k + 1]
  <2>1. v \in Digits /\ Len(v) = k /\ d \in 0..9 /\ u = Append(v, d) BY SplitLast
  <2>. HIDE DEF v, d
  <2>2. s \o u = Append(s \o v, d) /\ s \o v \in Digits BY <2>1 DEF Digits
  <2>3. NumberOf(s \o u) = 10 * NumberOf(s \o v) + d BY <2>1, <2>2, NumberOfAppend
  <2>4. NumberOf(u) = 10 * NumberOf(v) + d /\ NumberOf(v) \in Nat BY <2>1, NumberOfAppend
  <2>5. NumberOf(s \o v) = NumberOf(s) * TenTo[k] + NumberOf(v) BY <2>1, <1>2
  <2>. DEFINE a == NumberOf(s)  b == TenTo[k]  c == NumberOf(v)
  <2>6. a \in Nat /\ b \in Nat /\ c \in Nat BY <1>0, <2>4, TenToDef
  <2>7. TenTo[k + 1] = 10 * b BY TenToDef
  <2>8. NumberOf(s \o u) = 10 * (a * b + c) + d BY <2>3, <2>5
  <2>9. NumberOf(u) = 10 * c + d BY <2>4
  <2>. HIDE DEF a, b, c
  <2>10. 10 * (a * b + c) + d = a * (10 * b) + (10 * c + d) BY <2>1, <2>6
  <2>. QED BY <2>7, <2>8, <2>9, <2>10 DEF a
<1>3. \A k \in Nat : k \in T
  <2>. HIDE DEF T
  <2>. QED BY <1>1, <1>2, Induction
<1>4. s \o t \in Digits /\ Len(t) \in Nat BY DEF Digits
<1>5. Splits(t) BY <1>3, <1>4
<1>. QED BY <1>4, <1>5

Zeros(n) == [i \in 1..n |-> 0]

(* Zeros are worth nothing.                                                *)
LEMMA NumberOfZeros ==
    ASSUME NEW n \in Nat
    PROVE  Zeros(n) \in Digits /\ Len(Zeros(n)) = n /\ NumberOf(Zeros(n)) = 0
<1>. DEFINE T == {k \in Nat : NumberOf(Zeros(k)) = 0}
<1>1. \A k \in Nat : Zeros(k) \in Digits /\ Len(Zeros(k)) = k BY DEF Zeros, Digits
<1>2. 0 \in T
  <2>1. Zeros(0) = <<>> BY DEF Zeros
  <2>. QED BY <2>1, NumberOfNothing
<1>3. ASSUME NEW k \in Nat, k \in T PROVE k + 1 \in T
  <2>1. Zeros(k + 1) = Append(Zeros(k), 0) BY DEF Zeros
  <2>2. 0 \in 0..9 OBVIOUS
  <2>3. NumberOf(Zeros(k + 1)) = 10 * NumberOf(Zeros(k)) + 0 BY <1>1, <2>1, <2>2, NumberOfAppend
  <2>4. NumberOf(Zeros(k)) = 0 BY <1>3
  <2>. QED BY <2>3, <2>4
<1>4. \A k \in Nat : k \in T
  <2>. HIDE DEF T
  <2>. QED BY <1>2, <1>3, Induction
<1>. QED BY <1>1, <1>4

(* Induction from all smaller numbers.                                     *)
LEMMA StrongInduction ==
    ASSUME NEW T, \A n \in Nat : (\A m \in 0..n-1 : m \in T) => n \in T
    PROVE  \A n \in Nat : n \in T
<1>. DEFINE U == {n \in Nat : \A m \in 0..n-1 : m \in T}
<1>1. 0 \in U OBVIOUS
<1>2. \A n \in Nat : n \in U => n + 1 \in U OBVIOUS
<1>3. \A n \in Nat : n \in U
  <2>. HIDE DEF U
  <2>. QED BY <1>1, <1>2, Induction
<1>. QED BY <1>3

(* The digits of a number, as their definition means them. F[n] is a table *)
(* that is right up to n.                                                  *)
LEMMA DigitsOfDef ==
    /\ DigitsOf \in [Nat -> Digits]
    /\ \A n \in Nat : DigitsOf[n] = IF n < 10 THEN <<n>>
                                    ELSE Append(DigitsOf[n \div 10], n % 10)
<1>. DEFINE rhs(f, n) == IF n < 10 THEN <<n>> ELSE Append(f[n \div 10], n % 10)
            isDigits(f) == f = [n \in Nat |-> rhs(f, n)]
            Tables == [Nat -> Digits]
            none == [n \in Nat |-> <<>>]
            base == [none EXCEPT ![0] = <<0>>]
            step == [x \in Tables \X Nat |-> [x[1] EXCEPT ![x[2]] = rhs(x[1], x[2])]]
<1>1. ASSUME NEW f \in Tables, NEW n \in Nat PROVE rhs(f, n) \in Digits
  <2>1. CASE n < 10 BY <2>1 DEF Digits
  <2>2. CASE ~(n < 10)
    <3>1. n \div 10 \in Nat /\ n % 10 \in 0..9 OBVIOUS
    <3>2. f[n \div 10] \in Digits BY <3>1
    <3>. QED BY <2>2, <3>1, <3>2 DEF Digits
  <2>. QED BY <2>1, <2>2
<1>2. base \in Tables BY DEF Digits
<1>3. step \in [Tables \X Nat -> Tables]
  <2>. SUFFICES ASSUME NEW x \in Tables \X Nat
                PROVE  [x[1] EXCEPT ![x[2]] = rhs(x[1], x[2])] \in Tables
    OBVIOUS
  <2>1. x[1] \in Tables /\ x[2] \in Nat OBVIOUS
  <2>2. rhs(x[1], x[2]) \in Digits BY <1>1, <2>1
  <2>. HIDE DEF rhs
  <2>. QED BY <2>1, <2>2
<1>4. PICK F : F \in [Nat -> Tables] /\ Follows(F, base, step)
  <2>. HIDE DEF Tables, base, step
  <2>. QED BY <1>2, <1>3, Recursion
<1>5. ASSUME NEW n \in Nat PROVE F[n + 1] = [F[n] EXCEPT ![n + 1] = rhs(F[n], n + 1)]
  <2>1. <<F[n], n + 1>> \in Tables \X Nat BY <1>4
  <2>. QED BY <1>4, <2>1 DEF Follows
<1>6. \A n, m \in Nat : m <= n => F[n][m] = F[m][m]
  <2>. DEFINE T == {n \in Nat : \A m \in 0..n : F[n][m] = F[m][m]}
  <2>1. 0 \in T OBVIOUS
  <2>2. ASSUME NEW n \in Nat, n \in T PROVE n + 1 \in T
    <3>. SUFFICES ASSUME NEW m \in 0..n+1 PROVE F[n + 1][m] = F[m][m]
      OBVIOUS
    <3>1. CASE m = n + 1 BY <3>1
    <3>2. CASE m # n + 1
      <4>1. m \in 0..n BY <3>2
      <4>2. F[n + 1][m] = F[n][m]
        <5>. HIDE DEF rhs
        <5>1. F[n] \in Tables /\ m \in Nat BY <1>4
        <5>. QED BY <5>1, <1>5, <3>2
      <4>. QED BY <2>2, <4>1, <4>2
    <3>. QED BY <3>1, <3>2
  <2>. HIDE DEF T
  <2>3. \A n \in Nat : n \in T BY <2>1, <2>2, Induction
  <2>. QED BY <2>3 DEF T
<1>. DEFINE f == [n \in Nat |-> F[n][n]]
<1>7. f \in Tables BY <1>4
<1>8. ASSUME NEW n \in Nat PROVE f[n] = rhs(f, n)
  <2>1. CASE n = 0
    <3>1. F[0] = base BY <1>4 DEF Follows
    <3>. QED BY <2>1, <3>1
  <2>2. CASE n # 0
    <3>1. n - 1 \in Nat /\ (n - 1) + 1 = n BY <2>2
    <3>2. F[n] = [F[n - 1] EXCEPT ![n] = rhs(F[n - 1], n)]
      <4>. HIDE DEF rhs
      <4>1. F[(n - 1) + 1] = [F[n - 1] EXCEPT ![(n - 1) + 1] = rhs(F[n - 1], (n - 1) + 1)]
        BY <1>5, <3>1
      <4>. QED BY <3>1, <4>1
    <3>3. F[n][n] = rhs(F[n - 1], n)
      <4>. HIDE DEF rhs
      <4>1. F[n - 1] \in Tables BY <1>4, <3>1
      <4>. QED BY <3>2, <4>1
    <3>4. CASE n < 10 BY <3>3, <3>4
    <3>5. CASE ~(n < 10)
      <4>1. n \div 10 \in Nat /\ n \div 10 <= n - 1 BY <3>5
      <4>2. F[n - 1][n \div 10] = f[n \div 10] BY <1>6, <3>1, <4>1
      <4>. QED BY <3>3, <3>5, <4>2
    <3>. QED BY <3>4, <3>5
  <2>. QED BY <2>1, <2>2
<1>9. isDigits(f) BY <1>8
<1>10. isDigits(DigitsOf) BY <1>9 DEF DigitsOf
<1>11. \A n \in Nat : DigitsOf[n] = rhs(DigitsOf, n) BY <1>10
<1>12. \A n \in Nat : DigitsOf[n] \in Digits
  <2>. DEFINE T == {n \in Nat : DigitsOf[n] \in Digits}
  <2>1. ASSUME NEW n \in Nat, \A m \in 0..n-1 : m \in T PROVE n \in T
    <3>1. CASE n < 10
      <4>1. n \in 0..9 BY <3>1
      <4>2. DigitsOf[n] = <<n>> BY <1>11, <3>1, Zenon
      <4>. QED BY <4>1, <4>2, OneDigit
    <3>2. CASE ~(n < 10)
      <4>1. n \div 10 \in 0..n-1 /\ n % 10 \in 0..9 BY <3>2
      <4>2. DigitsOf[n] = Append(DigitsOf[n \div 10], n % 10) BY <1>11, <3>2
      <4>3. DigitsOf[n \div 10] \in Digits BY <2>1, <4>1
      <4>. QED BY <4>1, <4>2, <4>3, OneMore
    <3>. QED BY <3>1, <3>2
  <2>. HIDE DEF T
  <2>2. \A n \in Nat : n \in T BY <2>1, StrongInduction
  <2>. QED BY <2>2 DEF T
<1>. QED BY <1>10, <1>11, <1>12

(* The digits of a number write it, with no more places than it takes.     *)
LEMMA DigitsOfNumber ==
    ASSUME NEW n \in Nat
    PROVE  /\ NumberOf(DigitsOf[n]) = n
           /\ \A k \in Nat \ {0} : n < TenTo[k] => Len(DigitsOf[n]) <= k
<1>. DEFINE Right(i) == /\ NumberOf(DigitsOf[i]) = i
                        /\ \A k \in Nat \ {0} : i < TenTo[k] => Len(DigitsOf[i]) <= k
            T == {i \in Nat : Right(i)}
<1>1. ASSUME NEW i \in Nat, \A m \in 0..i-1 : m \in T PROVE i \in T
  <2>1. CASE i < 10
    <3>1. i \in 0..9 /\ <<>> \in Digits BY <2>1 DEF Digits
    <3>2. DigitsOf[i] = Append(<<>>, i) /\ Len(DigitsOf[i]) = 1
      BY <2>1, <3>1, DigitsOfDef, OneDigit
    <3>3. NumberOf(DigitsOf[i]) = 10 * NumberOf(<<>>) + i BY <3>1, <3>2, NumberOfAppend
    <3>4. NumberOf(DigitsOf[i]) = i BY <3>3, NumberOfNothing
    <3>5. \A k \in Nat \ {0} : Len(DigitsOf[i]) <= k BY <3>2
    <3>. QED BY <3>4, <3>5
  <2>2. CASE ~(i < 10)
    <3>. DEFINE q == i \div 10  d == i % 10
    <3>1. q \in 0..i-1 /\ q \in Nat /\ d \in 0..9 /\ i = 10 * q + d BY <2>2
    <3>2. DigitsOf[i] = Append(DigitsOf[q], d) BY <2>2, DigitsOfDef
    <3>. HIDE DEF q, d
    <3>3. DigitsOf[q] \in Digits BY <3>1, DigitsOfDef
    <3>4. Right(q) BY <1>1, <3>1
    <3>5. NumberOf(DigitsOf[i]) = i BY <3>1, <3>2, <3>3, <3>4, NumberOfAppend
    <3>6. ASSUME NEW k \in Nat \ {0}, i < TenTo[k] PROVE Len(DigitsOf[i]) <= k
      <4>1. TenTo[0 + 1] = 10 * TenTo[0] /\ TenTo[0] = 1 BY TenToDef
      <4>2. k # 1 BY <2>2, <3>6, <4>1
      <4>3. k - 1 \in Nat \ {0} /\ k - 1 \in Nat /\ (k - 1) + 1 = k BY <4>2
      <4>4. TenTo[k] = 10 * TenTo[k - 1] /\ TenTo[k - 1] \in Nat BY <4>3, TenToDef
      <4>5. q < TenTo[k - 1] BY <3>1, <3>6, <4>4
      <4>6. Len(DigitsOf[q]) <= k - 1 BY <3>4, <4>3, <4>5
      <4>7. Len(DigitsOf[i]) = Len(DigitsOf[q]) + 1 /\ Len(DigitsOf[q]) \in Nat
        BY <3>2, <3>3 DEF Digits
      <4>. QED BY <4>6, <4>7
    <3>. QED BY <3>5, <3>6
  <2>. QED BY <2>1, <2>2
<1>2. \A i \in Nat : i \in T
  <2>. HIDE DEF T
  <2>. QED BY <1>1, StrongInduction
<1>. QED BY <1>2

-----------------------------------------------------------------------------
(* The fraction is written with Scale digits.                              *)
LEMMA Padded ==
    ASSUME NEW n \in Nat, n < TenTo[Scale]
    PROVE  LET padded == padStart(DigitsOf[n])
           IN  padded \in Digits /\ Len(padded) = Scale /\ NumberOf(padded) = n
<1>. DEFINE d == DigitsOf[n]  z == Zeros(Scale - Len(d))
<1>1. Scale \in Nat \ {0} BY AmountsAreScaled
<1>2. d \in Digits BY DigitsOfDef
<1>3. Len(d) <= Scale BY <1>1, DigitsOfNumber
<1>4. Len(d) \in Nat BY <1>2 DEF Digits
<1>5. Scale - Len(d) \in Nat BY <1>1, <1>3, <1>4
<1>6. z \in Digits /\ Len(z) = Scale - Len(d) /\ NumberOf(z) = 0 BY <1>5, NumberOfZeros
<1>7. padStart(d) = z \o d BY DEF padStart, Zeros
<1>8. NumberOf(d) = n BY DigitsOfNumber
<1>. HIDE DEF d, z
<1>9. z \o d \in Digits /\ Len(z \o d) = Scale BY <1>1, <1>2, <1>4, <1>6 DEF Digits
<1>10. NumberOf(z \o d) = 0 * TenTo[Len(d)] + n BY <1>2, <1>6, <1>8, NumberOfConcat
<1>11. TenTo[Len(d)] \in Nat BY <1>4, TenToDef
<1>. QED BY <1>7, <1>9, <1>10, <1>11 DEF d

(* dropZeros takes zeros from the end, and nothing else.                   *)
LEMMA Trimmed ==
    ASSUME NEW s \in Digits
    PROVE  \E last \in 0..Len(s) :
               /\ dropZeros(s) \in Digits /\ Len(dropZeros(s)) = last
               /\ s = dropZeros(s) \o Zeros(Len(s) - last)
<1>. DEFINE ZerosFrom(n) == \A k \in n+1..Len(s) : s[k] = 0
            IsLast(n) == (n = 0 \/ s[n] # 0) /\ ZerosFrom(n)
            last == CHOOSE n \in 0..Len(s) : IsLast(n)
            C == {n \in 0..Len(s) : ZerosFrom(n)}
<1>1. Len(s) \in Nat BY DEF Digits
<1>2. PICK n \in C : \A m \in C : n <= m
  <2>1. Len(s) \in C BY <1>1
  <2>2. C \subseteq Nat BY <1>1
  <2>. HIDE DEF C
  <2>. QED BY <2>1, <2>2, LeastNatural
<1>3. n = 0 \/ s[n] # 0
  <2>. SUFFICES ASSUME n # 0, s[n] = 0 PROVE FALSE
    OBVIOUS
  <2>1. n - 1 \in 0..Len(s) BY <1>1
  <2>2. ASSUME NEW k \in (n - 1)+1..Len(s) PROVE s[k] = 0
    <3>1. k = n \/ k \in n+1..Len(s) BY <1>1
    <3>. QED BY <3>1
  <2>3. n - 1 \in C BY <2>1, <2>2
  <2>4. n \in Int BY <1>1
  <2>. HIDE DEF C
  <2>5. n <= n - 1 BY <1>2, <2>3
  <2>. QED BY <2>4, <2>5
<1>4. n \in 0..Len(s) /\ IsLast(n) BY <1>3
<1>5. last \in 0..Len(s) /\ IsLast(last)
  <2>. HIDE DEF IsLast
  <2>. QED BY <1>4
<1>6. dropZeros(s) = SubSeq(s, 1, last) BY DEF dropZeros
<1>. HIDE DEF last
<1>. DEFINE t == SubSeq(s, 1, last)  z == Zeros(Len(s) - last)
<1>7. t \in Digits /\ Len(t) = last /\ \A k \in 1..last : t[k] = s[k]
  BY <1>1, <1>5 DEF Digits
<1>8. Len(s) - last \in Nat BY <1>1, <1>5
<1>9. z \in Digits /\ Len(z) = Len(s) - last /\ \A k \in 1..(Len(s) - last) : z[k] = 0
  BY <1>8, NumberOfZeros DEF Zeros
<1>. HIDE DEF t, z
<1>10. /\ t \o z \in Digits /\ Len(t \o z) = last + (Len(s) - last)
       /\ \A k \in 1..last : (t \o z)[k] = t[k]
       /\ \A k \in 1..(Len(s) - last) : (t \o z)[last + k] = z[k]
  <2>1. /\ t \o z \in Digits /\ Len(t \o z) = Len(t) + Len(z)
        /\ \A k \in 1..Len(t) : (t \o z)[k] = t[k]
        /\ \A k \in 1..Len(z) : (t \o z)[Len(t) + k] = z[k]
    <3>1. t \in Digits /\ z \in Digits BY <1>7, <1>9
    <3>. QED BY <3>1, Joined
  <2>2. Len(t) = last /\ Len(z) = Len(s) - last BY <1>7, <1>9
  <2>. QED BY <2>1, <2>2
<1>11. ASSUME NEW k \in 1..Len(s) PROVE s[k] = (t \o z)[k]
  <2>1. CASE k <= last
    <3>1. k \in 1..last BY <1>1, <1>5, <2>1
    <3>. QED BY <1>7, <1>10, <3>1
  <2>2. CASE k > last
    <3>1. /\ k - last \in 1..(Len(s) - last) /\ last + (k - last) = k
          /\ k \in last+1..Len(s)
      BY <1>1, <1>5, <2>2
    <3>2. (t \o z)[k] = 0 BY <1>9, <1>10, <3>1
    <3>. QED BY <1>5, <3>1, <3>2
  <2>. HIDE DEF IsLast
  <2>3. k <= last \/ k > last BY <1>1, <1>5
  <2>. QED BY <2>1, <2>2, <2>3
<1>12. Len(s) = Len(t \o z) BY <1>1, <1>5, <1>10
<1>13. s = t \o z BY <1>10, <1>11, <1>12, SameDigits
<1>. QED BY <1>5, <1>6, <1>7, <1>13 DEF t, z

(* A text is an integer number of units, and not a negative one unless it  *)
(* has the sign.                                                           *)
LEMMA ParsedIsInteger ==
    ASSUME NEW text \in Texts
    PROVE  parseFixed(text) \in Int /\ (~text.neg => parseFixed(text) \in Nat)
<1>. DEFINE shift == text.exp - Len(text.frac) + Scale
            number == NumberOf(text.whole \o text.frac)
            size == IF shift >= 0 THEN number * TenTo[shift] ELSE number \div TenTo[-shift]
<1>1. text.whole \in Digits /\ text.frac \in Digits /\ text.exp \in Int
  BY DEF Texts, Digits
<1>2. text.whole \o text.frac \in Digits BY <1>1, NumberOfConcat
<1>3. number \in Nat
  <2>1. 0 \in 0..9 OBVIOUS
  <2>. QED BY <1>2, <2>1, NumberOfAppend
<1>4. shift \in Int BY <1>1, AmountsAreScaled DEF Digits
<1>5. parseFixed(text) = IF text.neg THEN -size ELSE size BY DEF parseFixed
<1>. HIDE DEF shift, number
<1>6. CASE shift >= 0
  <2>1. TenTo[shift] \in Nat BY <1>4, <1>6, TenToDef
  <2>2. number * TenTo[shift] \in Nat BY <1>3, <2>1
  <2>. QED BY <1>5, <1>6, <2>2
<1>7. CASE ~(shift >= 0)
  <2>1. -shift \in Nat BY <1>4, <1>7
  <2>2. TenTo[-shift] \in Nat \ {0} BY <2>1, TenToDef
  <2>3. number \div TenTo[-shift] \in Nat BY <1>3, <2>2
  <2>. QED BY <1>5, <1>7, <2>3
<1>. QED BY <1>6, <1>7

(* The conversions between text and units lose nothing on the way there    *)
(* and back: what formatFixed writes, without the zeros at the end,        *)
(* parseFixed reads as the value it was, for any number of decimals and    *)
(* any value.                                                              *)
THEOREM FormatThenParse ==
    ASSUME NEW value \in Int
    PROVE  /\ formatFixed(value) \in Texts
           /\ parseFixed(formatFixed(value)) = value
<1>. DEFINE size == IF value < 0 THEN -value ELSE value
            unit == TenTo[Scale]
            w == size \div unit
            fraction == size % unit
            padded == padStart(DigitsOf[fraction])
            text == formatFixed(value)
<1>1. Scale \in Nat /\ unit \in Nat \ {0} BY AmountsAreScaled, TenToDef
<1>2. size \in Nat OBVIOUS
<1>3. w \in Nat /\ fraction \in Nat /\ fraction < unit /\ size = w * unit + fraction
  <2>. HIDE DEF size, unit
  <2>. QED BY <1>1, <1>2
<1>4. padded \in Digits /\ Len(padded) = Scale /\ NumberOf(padded) = fraction
  <2>. HIDE DEF fraction
  <2>. QED BY <1>3, Padded
<1>5. /\ text.neg = (value < 0) /\ text.whole = DigitsOf[w] /\ text.exp = 0
      /\ text.frac = dropZeros(padded)
  BY DEF formatFixed
<1>6. text = [neg |-> value < 0, whole |-> DigitsOf[w], exp |-> 0,
              frac |-> dropZeros(padded)]
  BY DEF formatFixed
<1>. HIDE DEF size, unit, w, fraction, padded, text
<1>7. PICK last \in 0..Scale :
          /\ dropZeros(padded) \in Digits /\ Len(dropZeros(padded)) = last
          /\ padded = dropZeros(padded) \o Zeros(Scale - last)
  BY <1>4, Trimmed
<1>8. DigitsOf[w] \in Digits /\ NumberOf(DigitsOf[w]) = w BY <1>3, DigitsOfDef, DigitsOfNumber
<1>9. text \in Texts BY <1>6, <1>7, <1>8 DEF Texts, Digits
<1>. DEFINE left == Scale - last  n == NumberOf(dropZeros(padded))
<1>10. left \in Nat /\ last \in Nat /\ last + left = Scale BY <1>1, <1>7
<1>11. Zeros(left) \in Digits /\ Len(Zeros(left)) = left /\ NumberOf(Zeros(left)) = 0
  BY <1>10, NumberOfZeros
<1>12. n \in Nat
  <2>1. 0 \in 0..9 OBVIOUS
  <2>. QED BY <1>7, <2>1, NumberOfAppend
<1>13. fraction = n * TenTo[left] + 0
  <2>1. NumberOf(dropZeros(padded) \o Zeros(left)) = n * TenTo[left] + 0
    BY <1>7, <1>11, NumberOfConcat
  <2>. QED BY <1>4, <1>7, <2>1
<1>14. NumberOf(text.whole \o text.frac) = w * TenTo[last] + n
  BY <1>5, <1>7, <1>8, NumberOfConcat
<1>15. text.exp - Len(text.frac) + Scale = left BY <1>1, <1>5, <1>7
<1>16. unit = TenTo[last] * TenTo[left] BY <1>10, TenToSum DEF unit
<1>17. TenTo[last] \in Nat /\ TenTo[left] \in Nat BY <1>10, TenToDef
<1>18. (w * TenTo[last] + n) * TenTo[left] = size
  <2>. DEFINE a == TenTo[last]  b == TenTo[left]
  <2>1. a \in Nat /\ b \in Nat /\ unit = a * b /\ fraction = n * b + 0 BY <1>13, <1>16, <1>17
  <2>. HIDE DEF a, b, n
  <2>2. (w * a + n) * b = w * (a * b) + (n * b + 0) BY <1>3, <1>12, <2>1
  <2>3. size = w * (a * b) + (n * b + 0) BY <1>3, <2>1
  <2>. QED BY <2>2, <2>3 DEF a, b
<1>19. parseFixed(text) = IF value < 0 THEN -size ELSE size
  <2>1. left >= 0 BY <1>10
  <2>. HIDE DEF left, n
  <2>. QED BY <2>1, <1>5, <1>14, <1>15, <1>18 DEF parseFixed
<1>20. parseFixed(text) = value BY <1>19 DEF size
<1>. QED BY <1>9, <1>20 DEF text

-----------------------------------------------------------------------------
(* f[n] is the sum of the first n amounts.                                 *)
Sums(f, amounts) ==
    f = [n \in 0..Len(amounts) |-> IF n = 0 THEN 0 ELSE f[n - 1] + amounts[n]]

(* Sum is the last value of the function that adds one by one.             *)
LEMMA SumDef ==
    ASSUME NEW amounts \in Seq(Nat)
    PROVE  \E f : /\ f \in [0..Len(amounts) -> Nat] /\ Sums(f, amounts)
                  /\ Sum(amounts) = f[Len(amounts)]
<1>. DEFINE L == Len(amounts)
            step == [x \in Nat \X (1..L) |-> x[1] + amounts[x[2]]]
            g == CHOOSE f : Sums(f, amounts)
<1>1. L \in Nat /\ \A n \in 1..L : amounts[n] \in Nat OBVIOUS
<1>2. step \in [Nat \X (1..L) -> Nat] BY <1>1
<1>3. PICK f : f \in [0..L -> Nat] /\ FollowsTo(f, L, 0, step)
  <2>. 0 \in Nat OBVIOUS
  <2>. HIDE DEF step, L
  <2>. QED BY <1>1, <1>2, BoundedRecursion
<1>4. ASSUME NEW n \in 0..L, n # 0
      PROVE  step[<<f[n - 1], n>>] = f[n - 1] + amounts[n]
  <2>1. n - 1 \in 0..L /\ n \in 1..L BY <1>1, <1>4
  <2>2. <<f[n - 1], n>> \in Nat \X (1..L) BY <2>1, <1>3
  <2>. QED BY <2>2
<1>5. Sums(f, amounts)
  <2>. HIDE DEF step
  <2>. QED BY <1>3, <1>4 DEF FollowsTo, Sums
<1>6. Sums(g, amounts) BY <1>5
<1>7. Sum(amounts) = g[L] BY DEF Sum, Sums
<1>8. g \in [0..L -> Nat]
  <2>. DEFINE T == {n \in Nat : n <= L => g[n] \in Nat}
  <2>. HIDE DEF g
  <2>1. 0 \in T BY <1>6, <1>1 DEF Sums
  <2>2. ASSUME NEW n \in Nat, n \in T PROVE n + 1 \in T
    <3>. SUFFICES ASSUME n + 1 <= L PROVE g[n + 1] \in Nat
      OBVIOUS
    <3>1. n + 1 \in 0..L /\ n + 1 \in 1..L /\ (n + 1) - 1 = n /\ n + 1 # 0 BY <1>1
    <3>2. g[n + 1] = g[n] + amounts[n + 1] BY <1>6, <3>1 DEF Sums
    <3>3. g[n] \in Nat BY <2>2, <1>1
    <3>. QED BY <3>1, <3>2, <3>3, <1>1
  <2>3. \A n \in Nat : n \in T
    <3>. HIDE DEF T
    <3>. QED BY <2>1, <2>2, Induction
  <2>4. \A n \in 0..L : g[n] \in Nat BY <2>3, <1>1
  <2>. QED BY <2>4, <1>6 DEF Sums
<1>. QED BY <1>6, <1>7, <1>8

-----------------------------------------------------------------------------
(* The inductive invariant: a stored checkout has the amounts that its     *)
(* quote was computed to have, read back from the texts.                   *)
Records == [token : Texts, price : Texts, usd : Texts, spot : Texts,
            confirmed : BOOLEAN, units : Nat]

Quoted(p) ==
    /\ parseFixed(p.token) \in Nat \ {0}
    /\ parseFixed(p.price) \in Nat
    /\ parseFixed(p.spot) \in Nat \ {0}
    /\ parseFixed(p.usd) =
           Quotient(parseFixed(p.token) * parseFixed(p.price), TenTo[Scale])
    /\ p.units = Quotient(parseFixed(p.usd) * TenTo[AssetDecimals], parseFixed(p.spot))

PurchasesInv == purchases \in Seq({p \in Records : Quoted(p)})

(* quotePurchase stores what it computes.                                  *)
LEMMA QuoteIsQuoted ==
    ASSUME NEW token \in TokenTexts, NEW tier \in TierTexts, NEW spot \in SpotTexts,
           PurchasesInv, quotePurchase(token, tier, spot)
    PROVE  PurchasesInv'
<1>. DEFINE a == parseFixed(token)  b == parseFixed(tier)  c == parseFixed(spot)
            unit == TenTo[Scale]
            u == Quotient(a * b, unit)
            tokenAmount == normalizeFixed(token)
            tokenPrice == normalizeFixed(tier)
            usd == normalizeFixed(multiplyFixed(tokenAmount, tokenPrice))
            units == usdToAssetBaseUnits(usd, normalizeFixed(spot))
            p == [token |-> tokenAmount, price |-> tokenPrice, usd |-> usd,
                  spot |-> normalizeFixed(spot), confirmed |-> FALSE, units |-> units]
<1>1. token \in Texts /\ tier \in Texts /\ spot \in Texts /\ ~tier.neg
  BY TextsAssumption
<1>2. a \in Int /\ b \in Nat /\ c \in Int BY <1>1, ParsedIsInteger
<1>3. /\ tokenAmount \in Texts /\ parseFixed(tokenAmount) = a
      /\ tokenPrice \in Texts /\ parseFixed(tokenPrice) = b
      /\ normalizeFixed(spot) \in Texts /\ parseFixed(normalizeFixed(spot)) = c
  <2>. HIDE DEF a, b, c
  <2>. QED BY <1>2, FormatThenParse DEF normalizeFixed, a, b, c
<1>4. a > 0 /\ c > 0 BY <1>3 DEF quotePurchase
<1>5. unit \in Nat \ {0} /\ TenTo[AssetDecimals] \in Nat BY AmountsAreScaled, TenToDef
<1>. HIDE DEF a, b, c, unit
<1>6. a * b \in Nat /\ u \in Nat
  <2>1. a * b \in Nat BY <1>2, <1>4
  <2>. QED BY <1>5, <2>1, QuotientOfNat
<1>7. multiplyFixed(tokenAmount, tokenPrice) = formatFixed(u)
  BY <1>3 DEF multiplyFixed, unit
<1>8. usd \in Texts /\ parseFixed(usd) = u
  <2>. HIDE DEF u
  <2>1. parseFixed(formatFixed(u)) = u BY <1>6, FormatThenParse
  <2>2. usd = formatFixed(u) BY <1>7, <2>1 DEF normalizeFixed
  <2>. QED BY <1>6, <2>1, <2>2, FormatThenParse
<1>. HIDE DEF tokenAmount, tokenPrice, usd
<1>9. units = Quotient(u * TenTo[AssetDecimals], c) BY <1>3, <1>8 DEF usdToAssetBaseUnits
<1>10. units \in Nat
  <2>1. u * TenTo[AssetDecimals] \in Nat BY <1>5, <1>6
  <2>2. c \in Nat \ {0} BY <1>2, <1>4
  <2>. HIDE DEF u, units
  <2>. QED BY <1>9, <2>1, <2>2, QuotientOfNat
<1>. HIDE DEF units
<1>11. p \in Records BY <1>3, <1>8, <1>10 DEF Records
<1>12. Quoted(p) BY <1>2, <1>3, <1>4, <1>8, <1>9 DEF Quoted, unit
<1>13. purchases' = Append(purchases, p)
  BY DEF quotePurchase, tokenAmount, tokenPrice, usd, units
<1>. HIDE DEF p
<1>. QED BY <1>11, <1>12, <1>13 DEF PurchasesInv

(* A confirmation leaves the amounts alone.                                *)
LEMMA ConfirmIsQuoted ==
    ASSUME NEW i \in DOMAIN purchases, PurchasesInv, ConfirmPurchase(i)
    PROVE  PurchasesInv'
<1>. DEFINE R == {p \in Records : Quoted(p)}
            q == [purchases[i] EXCEPT !.confirmed = TRUE]
<1>1. purchases \in Seq(R) /\ purchases[i] \in R BY DEF PurchasesInv
<1>2. q \in R BY <1>1 DEF Records, Quoted
<1>3. purchases' = [purchases EXCEPT ![i] = q] BY DEF ConfirmPurchase
<1>. HIDE DEF R, q
<1>4. purchases' \in Seq(R) BY <1>1, <1>2, <1>3
<1>. QED BY <1>4 DEF PurchasesInv, R

LEMMA PurchasesInitHolds == PurchasesInit => PurchasesInv
BY DEF PurchasesInit, PurchasesInv

LEMMA PurchasesStep == PurchasesInv /\ [PurchasesNext]_purchases => PurchasesInv'
<1>. SUFFICES ASSUME PurchasesInv, [PurchasesNext]_purchases PROVE PurchasesInv'
  OBVIOUS
<1>1. CASE \E token \in TokenTexts, tier \in TierTexts, spot \in SpotTexts :
               quotePurchase(token, tier, spot)
  BY <1>1, QuoteIsQuoted
<1>2. CASE \E i \in DOMAIN purchases : ConfirmPurchase(i)
  BY <1>2, ConfirmIsQuoted
<1>3. CASE UNCHANGED purchases BY <1>3 DEF PurchasesInv
<1>. QED BY <1>1, <1>2, <1>3 DEF PurchasesNext

(* Every stored checkout has the amounts of its quote, with dollars and    *)
(* base units cut off from the exact products.                             *)
THEOREM PurchasesInvariant == PurchasesSpec => []PurchasesInv
BY PurchasesInitHolds, PurchasesStep, PTL DEF PurchasesSpec

LEMMA PurchasesTyped == PurchasesInv => PurchasesTypeOK
BY DEF PurchasesInv, PurchasesTypeOK, Records

(* The payer is never asked for more than the tokens cost and loses less   *)
(* than a unit in each conversion, for any amounts, decimals and prices    *)
(* (quotePurchase, usdToAssetBaseUnits).                                   *)
THEOREM NeverOverchargedHolds == PurchasesSpec => []NeverOvercharged
<1>1. PurchasesInv => NeverOvercharged
  <2>. SUFFICES ASSUME PurchasesInv, NEW i \in DOMAIN purchases
                PROVE  LET p == purchases[i]
                           exact == parseFixed(p.token) * parseFixed(p.price)
                           usd == parseFixed(p.usd)
                           worth == usd * TenTo[AssetDecimals]
                       IN  /\ usd * TenTo[Scale] <= exact
                           /\ exact < (usd + 1) * TenTo[Scale]
                           /\ p.units * parseFixed(p.spot) <= worth
                           /\ worth < (p.units + 1) * parseFixed(p.spot)
    BY DEF NeverOvercharged
  <2>. DEFINE p == purchases[i]
              exact == parseFixed(p.token) * parseFixed(p.price)
              usd == parseFixed(p.usd)
              worth == usd * TenTo[AssetDecimals]
  <2>1. Quoted(p) BY DEF PurchasesInv
  <2>2. TenTo[Scale] \in Nat \ {0} /\ TenTo[AssetDecimals] \in Nat
    BY AmountsAreScaled, TenToDef
  <2>3. exact \in Nat BY <2>1 DEF Quoted
  <2>4. usd = Quotient(exact, TenTo[Scale]) BY <2>1 DEF Quoted
  <2>. HIDE DEF exact, usd
  <2>5. usd \in Nat /\ usd * TenTo[Scale] <= exact /\ exact < (usd + 1) * TenTo[Scale]
    BY <2>2, <2>3, <2>4, QuotientOfNat
  <2>6. worth \in Nat BY <2>2, <2>5
  <2>7. p.units = Quotient(worth, parseFixed(p.spot)) /\ parseFixed(p.spot) \in Nat \ {0}
    BY <2>1 DEF Quoted, usd
  <2>. HIDE DEF worth
  <2>8. p.units * parseFixed(p.spot) <= worth /\ worth < (p.units + 1) * parseFixed(p.spot)
    BY <2>6, <2>7, QuotientOfNat
  <2>. QED BY <2>5, <2>8 DEF exact, usd, worth
<1>. QED BY <1>1, PurchasesInvariant, PTL

-----------------------------------------------------------------------------
(* Adding up confirmed purchases: the dollars never pass the tokens at the *)
(* price of the dearest purchase so far.                                   *)
LEMMA SumsCompare ==
    ASSUME PurchasesInv
    PROVE  /\ InvestedUsd \in Nat /\ ConfirmedTokens \in Nat
           /\ ConfirmedTokens > 0 =>
                  \E j \in DOMAIN purchases :
                      /\ purchases[j].confirmed
                      /\ InvestedUsd * TenTo[Scale]
                             <= parseFixed(purchases[j].price) * ConfirmedTokens
<1>. DEFINE L == Len(purchases)
            unit == TenTo[Scale]
            token(i) == parseFixed(purchases[i].token)
            price(i) == parseFixed(purchases[i].price)
            usd(i) == parseFixed(purchases[i].usd)
            dollars == [i \in DOMAIN purchases |-> IfConfirmed(i, purchases[i].usd)]
            tokens == [i \in DOMAIN purchases |-> IfConfirmed(i, purchases[i].token)]
<1>1. L \in Nat /\ DOMAIN purchases = 1..L BY DEF PurchasesInv
<1>2. unit \in Nat \ {0} BY AmountsAreScaled, TenToDef
<1>3. ASSUME NEW i \in 1..L
      PROVE  /\ purchases[i].confirmed \in BOOLEAN
             /\ token(i) \in Nat /\ price(i) \in Nat /\ usd(i) \in Nat
             /\ usd(i) * unit <= price(i) * token(i)
  <2>1. Quoted(purchases[i]) /\ purchases[i] \in Records BY <1>1 DEF PurchasesInv
  <2>2. token(i) \in Nat /\ price(i) \in Nat /\ usd(i) = Quotient(token(i) * price(i), unit)
    BY <2>1 DEF Quoted
  <2>3. purchases[i].confirmed \in BOOLEAN BY <2>1 DEF Records
  <2>. HIDE DEF token, price, usd, unit
  <2>4. token(i) * price(i) \in Nat /\ token(i) * price(i) = price(i) * token(i) BY <2>2
  <2>5. usd(i) \in Nat /\ usd(i) * unit <= token(i) * price(i)
    BY <1>2, <2>2, <2>4, QuotientOfNat
  <2>. QED BY <2>2, <2>3, <2>4, <2>5
<1>4. ASSUME NEW i \in 1..L
      PROVE  /\ dollars[i] = IF purchases[i].confirmed THEN usd(i) ELSE 0
             /\ tokens[i] = IF purchases[i].confirmed THEN token(i) ELSE 0
  BY <1>1 DEF IfConfirmed
<1>. HIDE DEF token, price, usd, unit
<1>5. /\ dollars \in Seq(Nat) /\ Len(dollars) = L
      /\ tokens \in Seq(Nat) /\ Len(tokens) = L
  <2>1. \A i \in 1..L : dollars[i] \in Nat /\ tokens[i] \in Nat
    <3>. HIDE DEF dollars, tokens, L
    <3>. QED BY <1>3, <1>4
  <2>2. dollars \in [1..L -> Nat] /\ tokens \in [1..L -> Nat] BY <1>1, <2>1
  <2>. HIDE DEF dollars, tokens, L
  <2>. QED BY <1>1, <2>2
<1>6. PICK f : f \in [0..L -> Nat] /\ Sums(f, dollars) /\ Sum(dollars) = f[L]
  <2>. HIDE DEF dollars, L
  <2>. QED BY <1>5, SumDef
<1>7. PICK g : g \in [0..L -> Nat] /\ Sums(g, tokens) /\ Sum(tokens) = g[L]
  <2>. HIDE DEF tokens, L
  <2>. QED BY <1>5, SumDef
<1>8. InvestedUsd = f[L] /\ ConfirmedTokens = g[L]
  BY <1>6, <1>7 DEF InvestedUsd, ConfirmedTokens
<1>. HIDE DEF dollars, tokens, L
<1>. DEFINE Covers(j, n) == purchases[j].confirmed /\ f[n] * unit <= price(j) * g[n]
            T == {n \in Nat : n <= L => \/ f[n] = 0 /\ g[n] = 0
                                        \/ \E j \in 1..L : Covers(j, n)}
<1>9. 0 \in T
  <2>1. f[0] = 0 /\ g[0] = 0 BY <1>1, <1>5, <1>6, <1>7 DEF Sums
  <2>. QED BY <2>1
<1>10. ASSUME NEW n \in Nat, n \in T PROVE n + 1 \in T
  <2>. SUFFICES ASSUME n + 1 <= L
                PROVE  \/ f[n + 1] = 0 /\ g[n + 1] = 0
                       \/ \E j \in 1..L : Covers(j, n + 1)
    OBVIOUS
  <2>. DEFINE k == n + 1
  <2>1. k \in 1..L /\ k \in 0..L /\ n \in 0..L /\ k - 1 = n /\ k # 0 BY <1>1
  <2>. HIDE DEF k
  <2>2. f[k] = f[n] + dollars[k] /\ g[k] = g[n] + tokens[k]
    BY <1>5, <1>6, <1>7, <2>1 DEF Sums
  <2>3. f[n] \in Nat /\ g[n] \in Nat BY <1>6, <1>7, <2>1
  <2>4. \/ f[n] = 0 /\ g[n] = 0
        \/ \E j \in 1..L : Covers(j, n)
    BY <1>1, <1>10, <2>1
  <2>5. CASE ~purchases[k].confirmed
    <3>1. dollars[k] = 0 /\ tokens[k] = 0 BY <1>4, <2>1, <2>5
    <3>2. f[k] = f[n] /\ g[k] = g[n] BY <2>2, <2>3, <3>1
    <3>. QED BY <2>4, <3>2 DEF k
  <2>6. CASE purchases[k].confirmed
    <3>. DEFINE u == usd(k)  t == token(k)  c == price(k)
    <3>1. f[k] = f[n] + u /\ g[k] = g[n] + t BY <1>4, <2>1, <2>2, <2>6
    <3>2. u \in Nat /\ t \in Nat /\ c \in Nat /\ u * unit <= c * t BY <1>3, <2>1
    <3>. HIDE DEF u, t, c
    <3>3. CASE f[n] = 0 /\ g[n] = 0
      <4>1. f[k] = u /\ g[k] = t BY <3>1, <3>2, <3>3
      <4>2. Covers(k, k) BY <2>6, <3>2, <4>1 DEF c
      <4>. QED BY <2>1, <4>2 DEF k
    <3>4. ASSUME NEW j \in 1..L, Covers(j, n) PROVE \E i \in 1..L : Covers(i, k)
      <4>. DEFINE d == price(j)  a == f[n]  b == g[n]
      <4>1. d \in Nat /\ a \in Nat /\ b \in Nat /\ a * unit <= d * b
        BY <1>3, <2>3, <3>4
      <4>2. f[k] = a + u /\ g[k] = b + t BY <3>1
      <4>. HIDE DEF d, a, b
      <4>3. (a + u) * unit = a * unit + u * unit BY <1>2, <3>2, <4>1
      <4>4. CASE c <= d
        <5>1. c * t <= d * t BY <3>2, <4>1, <4>4
        <5>2. d * (b + t) = d * b + d * t BY <3>2, <4>1
        <5>3. /\ a * unit \in Nat /\ u * unit \in Nat /\ d * b \in Nat /\ d * t \in Nat
              /\ c * t \in Nat
          BY <1>2, <3>2, <4>1
        <5>4. (a + u) * unit <= d * (b + t) BY <3>2, <4>1, <4>3, <5>1, <5>2, <5>3
        <5>5. Covers(j, k) BY <3>4, <4>2, <5>4 DEF d
        <5>. QED BY <5>5
      <4>5. CASE ~(c <= d)
        <5>1. d * b <= c * b BY <3>2, <4>1, <4>5
        <5>2. c * (b + t) = c * b + c * t BY <3>2, <4>1
        <5>3. /\ a * unit \in Nat /\ u * unit \in Nat /\ d * b \in Nat /\ c * b \in Nat
              /\ c * t \in Nat
          BY <1>2, <3>2, <4>1
        <5>4. (a + u) * unit <= c * (b + t) BY <3>2, <4>1, <4>3, <5>1, <5>2, <5>3
        <5>5. Covers(k, k) BY <2>6, <4>2, <5>4 DEF c
        <5>. QED BY <2>1, <5>5
      <4>. QED BY <4>4, <4>5
    <3>5. (f[n] = 0 /\ g[n] = 0) \/ \E i \in 1..L : Covers(i, k)
      <4>. HIDE DEF Covers
      <4>. QED BY <2>4, <3>4
    <3>. QED BY <3>3, <3>5 DEF k
  <2>. QED BY <2>5, <2>6
<1>11. \A n \in Nat : n \in T
  <2>. HIDE DEF T
  <2>. QED BY <1>9, <1>10, Induction
<1>12. \/ f[L] = 0 /\ g[L] = 0
       \/ \E j \in 1..L : Covers(j, L)
  BY <1>1, <1>11
<1>13. f[L] \in Nat /\ g[L] \in Nat BY <1>1, <1>6, <1>7
<1>. QED BY <1>1, <1>8, <1>12, <1>13 DEF price, unit

(* The average entry price is not above the dearest tier that was bought,  *)
(* for any number of purchases (getPublicPortfolio).                       *)
THEOREM AverageIsNotDearerHolds == PurchasesSpec => []AverageIsNotDearer
<1>1. PurchasesInv => AverageIsNotDearer
  <2>. SUFFICES ASSUME PurchasesInv, ConfirmedTokens > 0
                PROVE  \E i \in DOMAIN purchases :
                           /\ purchases[i].confirmed
                           /\ parseFixed(averageEntryPriceUsd)
                                  <= parseFixed(purchases[i].price)
    BY DEF AverageIsNotDearer
  <2>. DEFINE a == InvestedUsd  b == ConfirmedTokens  unit == TenTo[Scale]
  <2>1. PICK j \in DOMAIN purchases :
            /\ purchases[j].confirmed
            /\ a * unit <= parseFixed(purchases[j].price) * b
    BY SumsCompare
  <2>2. a \in Nat /\ b \in Nat \ {0} BY SumsCompare
  <2>3. unit \in Nat \ {0} BY AmountsAreScaled, TenToDef
  <2>4. parseFixed(purchases[j].price) \in Nat BY DEF PurchasesInv, Quoted
  <2>5. averageEntryPriceUsd = divideFixed(formatFixed(a), formatFixed(b))
    BY DEF averageEntryPriceUsd
  <2>. HIDE DEF a, b
  <2>6. parseFixed(formatFixed(a)) = a /\ parseFixed(formatFixed(b)) = b
    BY <2>2, FormatThenParse
  <2>7. averageEntryPriceUsd = formatFixed(Quotient(a * unit, b))
    BY <2>2, <2>5, <2>6 DEF divideFixed
  <2>. HIDE DEF unit
  <2>8. a * unit \in Nat BY <2>2, <2>3
  <2>9. Quotient(a * unit, b) \in Nat BY <2>2, <2>8, QuotientOfNat
  <2>10. parseFixed(averageEntryPriceUsd) = Quotient(a * unit, b)
    BY <2>7, <2>9, FormatThenParse
  <2>11. Quotient(a * unit, b) <= parseFixed(purchases[j].price)
    BY <2>1, <2>2, <2>4, <2>8, QuotientBelow
  <2>. QED BY <2>1, <2>10, <2>11
<1>. QED BY <1>1, PurchasesInvariant, PTL
=============================================================================
