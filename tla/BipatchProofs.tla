--------------------------- MODULE BipatchProofs ----------------------------
(***************************************************************************)
(* The reader undoes the writer, for entries of any length: induction over *)
(* the digits of a number, the bytes of a window and the entries.          *)
(***************************************************************************)
EXTENDS MakePatch, SequenceTheorems, FiniteSetTheorems, TLAPS

-----------------------------------------------------------------------------
(***************************************************************************)
(* Induction, as a fact about sets of naturals.                            *)
(***************************************************************************)
(* A set of naturals with 0 and, with each of its members, the next one, is Nat:     *)
(* were n not in it, the members below n would map into themselves by +1, injectively *)
(* and not onto.                                                                      *)
LEMMA SetInduction ==
    ASSUME NEW S, 0 \in S, \A n \in Nat : n \in S => n + 1 \in S
    PROVE  Nat \subseteq S
<1> SUFFICES ASSUME NEW n \in Nat, n \notin S PROVE FALSE
  OBVIOUS
<1> DEFINE T == {k \in 0 .. n : k \in S}
           f == [k \in T |-> k + 1]
<1>1. \A k \in T : k + 1 \in T
  OBVIOUS
<1>2. IsFiniteSet(T)
  <2>1. IsFiniteSet(0 .. n)
    BY FS_Interval
  <2>2. T \subseteq 0 .. n
    OBVIOUS
  <2> HIDE DEF T
  <2>3. QED BY <2>1, <2>2, FS_Subset
<1>3. 0 \in T /\ \A k \in T : k + 1 # 0 /\ k \in Int
  OBVIOUS
<1> HIDE DEF T
<1>4. f \in Injection(T, T)
  <2>1. f \in [T -> T]
    BY <1>1
  <2>2. \A a, b \in T : f[a] = f[b] => a = b
    BY <1>3
  <2>3. DOMAIN f = T
    OBVIOUS
  <2> HIDE DEF f
  <2>4. QED BY <2>1, <2>2, <2>3 DEF Injection, IsInjective
<1>5. f \in Surjection(T, T)
  <2> HIDE DEF f
  <2>1. QED BY <1>2, <1>4, FS_Injection
<1>6. PICK k \in T : f[k] = 0
  <2> HIDE DEF f
  <2>1. QED BY <1>3, <1>5 DEF Surjection
<1>7. QED BY <1>3, <1>6

(* The same from below: a property of all smaller numbers. *)
LEMMA StrongInduction ==
    ASSUME NEW S, \A n \in Nat : (\A k \in 0 .. n - 1 : k \in S) => n \in S
    PROVE  Nat \subseteq S
<1> DEFINE T == {n \in Nat : \A k \in 0 .. n : k \in S}
<1>1. 0 \in T
  <2>1. 0 \in S
    OBVIOUS
  <2>2. QED BY <2>1
<1>2. \A n \in Nat : n \in T => n + 1 \in T
  <2> SUFFICES ASSUME NEW n \in Nat, n \in T PROVE n + 1 \in T
    OBVIOUS
  <2>1. n + 1 \in S
    OBVIOUS
  <2>2. QED BY <2>1
<1> HIDE DEF T
<1>3. Nat \subseteq T
  BY <1>1, <1>2, SetInduction
<1>4. QED BY <1>3 DEF T
-----------------------------------------------------------------------------
(***************************************************************************)
(* The reader, byte by byte.  Run(base, s, k, f): f[n] is what the reader  *)
(* is after n bytes of s, for n up to k.                                   *)
(***************************************************************************)
Run(base, s, k, f) ==
    /\ f[0] = NewReader
    /\ \A n \in 1 .. k : f[n] = feed(f[n - 1], base, s[n])

LEMMA RunsExist ==
    ASSUME NEW base, NEW s, NEW k \in Nat
    PROVE  \E f : Run(base, s, k, f)
<1> DEFINE S == {n \in Nat : \E f : Run(base, s, n, f)}
<1>1. 0 \in S
  <2> DEFINE f == [n \in {0} |-> NewReader]
  <2>1. f[0] = NewReader
    OBVIOUS
  <2> HIDE DEF f
  <2>2. Run(base, s, 0, f)
    BY <2>1 DEF Run
  <2>3. QED BY <2>2
<1>2. \A n \in Nat : n \in S => n + 1 \in S
  <2> SUFFICES ASSUME NEW n \in Nat, n \in S PROVE n + 1 \in S
    OBVIOUS
  <2>1. PICK f : Run(base, s, n, f)
    OBVIOUS
  <2> DEFINE g == [i \in 0 .. n + 1 |-> IF i = n + 1 THEN feed(f[n], base, s[n + 1]) ELSE f[i]]
  <2>2. g[0] = f[0] /\ (\A i \in 1 .. n : g[i] = f[i] /\ g[i - 1] = f[i - 1])
        /\ g[n + 1] = feed(f[n], base, s[n + 1]) /\ g[n] = f[n]
    OBVIOUS
  <2> HIDE DEF g
  <2>3. Run(base, s, n + 1, g)
    <3>1. \A i \in 1 .. n : g[i] = feed(g[i - 1], base, s[i])
      BY <2>1, <2>2 DEF Run
    <3>2. g[n + 1] = feed(g[(n + 1) - 1], base, s[n + 1])
      BY <2>2
    <3>3. \A i \in 1 .. n + 1 : i = n + 1 \/ i \in 1 .. n
      OBVIOUS
    <3>4. QED BY <2>1, <2>2, <3>1, <3>2, <3>3 DEF Run
  <2>4. QED BY <2>3
<1> HIDE DEF S
<1>3. k \in S
  BY <1>1, <1>2, SetInduction
<1>4. QED BY <1>3 DEF S

(* Two runs over the same bytes agree. *)
LEMMA RunsAgree ==
    ASSUME NEW base, NEW s, NEW k \in Nat, NEW l \in Nat, k <= l,
           NEW f, Run(base, s, k, f), NEW g, Run(base, s, l, g)
    PROVE  f[k] = g[k]
<1> DEFINE S == {n \in Nat : n <= k => f[n] = g[n]}
<1>1. 0 \in S
  BY DEF Run
<1>2. \A n \in Nat : n \in S => n + 1 \in S
  <2> SUFFICES ASSUME NEW n \in Nat, f[n] = g[n], n + 1 <= k PROVE f[n + 1] = g[n + 1]
    OBVIOUS
  <2>1. f[n + 1] = feed(f[(n + 1) - 1], base, s[n + 1])
        /\ g[n + 1] = feed(g[(n + 1) - 1], base, s[n + 1])
    BY DEF Run
  <2>2. (n + 1) - 1 = n
    OBVIOUS
  <2>3. QED BY <2>1, <2>2
<1> HIDE DEF S
<1>3. k \in S
  BY <1>1, <1>2, SetInduction
<1>4. QED BY <1>3 DEF S

LEMMA ReadIsRun ==
    ASSUME NEW base, NEW s, Len(s) \in Nat
    PROVE  \E f : Run(base, s, Len(s), f) /\ Read(base, s) = f[Len(s)]
<1> DEFINE Whole(f) == f = [n \in Nat |-> IF n = 0 THEN NewReader ELSE feed(f[n - 1], base, s[n])]
<1>1. \E f : Whole(f)
  <2> DEFINE part(n) == CHOOSE f : Run(base, s, n, f)
             f == [n \in Nat |-> part(n)[n]]
  <2>1. \A n \in Nat : Run(base, s, n, part(n))
    BY RunsExist
  <2> HIDE DEF part
  <2>2. \A n \in Nat : f[n] = IF n = 0 THEN NewReader ELSE feed(f[n - 1], base, s[n])
    <3> SUFFICES ASSUME NEW n \in Nat
                 PROVE  f[n] = IF n = 0 THEN NewReader ELSE feed(f[n - 1], base, s[n])
      OBVIOUS
    <3>1. CASE n = 0
      BY <2>1, <3>1 DEF Run
    <3>2. CASE n # 0
      <4>1. n - 1 \in Nat /\ n \in 1 .. n /\ n - 1 <= n
        BY <3>2
      <4>2. part(n)[n] = feed(part(n)[n - 1], base, s[n])
        BY <2>1, <4>1 DEF Run
      <4>3. part(n)[n - 1] = part(n - 1)[n - 1]
        BY <2>1, <4>1, RunsAgree
      <4>4. QED BY <3>2, <4>1, <4>2, <4>3
    <3>3. QED BY <3>1, <3>2
  <2>3. f = [n \in Nat |-> f[n]]
    OBVIOUS
  <2> HIDE DEF f
  <2>4. [n \in Nat |-> f[n]] = [n \in Nat |-> IF n = 0 THEN NewReader ELSE feed(f[n - 1], base, s[n])]
    BY <2>2
  <2>5. Whole(f)
    BY <2>3, <2>4
  <2>6. QED BY <2>5
<1> DEFINE after == CHOOSE f : Whole(f)
<1>2. Whole(after)
  BY <1>1
<1>3. Read(base, s) = after[Len(s)]
  BY DEF Read
<1> HIDE DEF after
<1>4. \A n \in Nat : after[n] = IF n = 0 THEN NewReader ELSE feed(after[n - 1], base, s[n])
  <2> DEFINE h == [n \in Nat |-> IF n = 0 THEN NewReader ELSE feed(after[n - 1], base, s[n])]
  <2>1. after = h
    BY <1>2
  <2>2. \A n \in Nat : h[n] = IF n = 0 THEN NewReader ELSE feed(after[n - 1], base, s[n])
    OBVIOUS
  <2> HIDE DEF h
  <2>3. QED BY <2>1, <2>2
<1>5. Run(base, s, Len(s), after)
  BY <1>4 DEF Run
<1>6. QED BY <1>3, <1>5

LEMMA ReadEmpty == ASSUME NEW base PROVE Read(base, <<>>) = NewReader
<1>1. Len(<<>>) = 0
  BY EmptySeq
<1>2. QED BY <1>1, ReadIsRun DEF Run

(* Reading goes byte by byte. *)
LEMMA ReadAppend ==
    ASSUME NEW base, NEW B, NEW s \in Seq(B), NEW b \in B
    PROVE  Read(base, Append(s, b)) = feed(Read(base, s), base, b)
<1> DEFINE t == Append(s, b)
           k == Len(s)
<1>1. k \in Nat /\ Len(t) = k + 1 /\ t[k + 1] = b /\ \A i \in 1 .. k : s[i] = t[i]
  BY LenProperties, AppendProperties
<1>2. PICK f : Run(base, s, k, f) /\ Read(base, s) = f[k]
  BY <1>1, ReadIsRun
<1>3. PICK g : Run(base, t, k + 1, g) /\ Read(base, t) = g[k + 1]
  <2>1. Len(t) \in Nat
    BY <1>1
  <2> HIDE DEF t, k
  <2>2. QED BY <1>1, <2>1, ReadIsRun
<1> HIDE DEF t, k
<1>4. f[k] = g[k]
  <2>1. k <= k + 1 /\ k + 1 \in Nat
    BY <1>1
  <2>2. Run(base, t, k, f)
    BY <1>1, <1>2 DEF Run
  <2>3. Run(base, t, k + 1, g)
    BY <1>3
  <2>4. k \in Nat
    BY <1>1
  <2>5. QED BY <2>1, <2>2, <2>3, <2>4, RunsAgree
<1>5. g[k + 1] = feed(g[(k + 1) - 1], base, t[k + 1])
  BY <1>1, <1>3 DEF Run
<1>6. (k + 1) - 1 = k
  BY <1>1
<1>7. QED BY <1>1, <1>2, <1>3, <1>4, <1>5, <1>6 DEF t


-----------------------------------------------------------------------------
(***************************************************************************)
(* The digits of a number.                                                 *)
(***************************************************************************)
LEMMA Division ==
    ASSUME NEW v \in Nat
    PROVE  /\ v % Radix \in 0 .. Radix - 1 /\ v \div Radix \in Nat
           /\ v = Radix * (v \div Radix) + (v % Radix)
           /\ v >= Radix => v \div Radix \in 1 .. v - 1
<1> DEFINE d == Radix
<1>1. d \in Nat /\ d > 1
  BY RadixAssumption
<1> HIDE DEF d
<1>2. v % d \in 0 .. d - 1 /\ v \div d \in Nat
  BY <1>1
<1>3. v = d * (v \div d) + (v % d)
  BY <1>1
<1>4. v >= d => v \div d \in 1 .. v - 1
  BY <1>1
<1>5. QED BY <1>2, <1>3, <1>4 DEF d

(* What uvarint is of v, if f is it of smaller numbers. *)
Digits(f, v) == IF v < Radix THEN <<v>> ELSE <<(v % Radix) + Radix>> \o f[v \div Radix]

AreDigits(f, n) == \A v \in 0 .. n : f[v] = Digits(f, v)

LEMMA DigitsUpTo ==
    ASSUME NEW n \in Nat
    PROVE  \E f : AreDigits(f, n)
<1> DEFINE S == {k \in Nat : \E f : AreDigits(f, k)}
<1>1. 0 \in S
  <2> DEFINE f == [v \in {0} |-> <<v>>]
  <2>1. f[0] = <<0>>
    OBVIOUS
  <2> HIDE DEF f
  <2>2. AreDigits(f, 0)
    BY <2>1, RadixAssumption DEF Digits, AreDigits
  <2>3. QED BY <2>2
<1>2. \A k \in Nat : k \in S => k + 1 \in S
  <2> SUFFICES ASSUME NEW k \in Nat, k \in S PROVE k + 1 \in S
    OBVIOUS
  <2>1. PICK f : AreDigits(f, k)
    OBVIOUS
  <2> DEFINE g == [v \in 0 .. k + 1 |-> IF v = k + 1 THEN Digits(f, v) ELSE f[v]]
  <2>2. (\A v \in 0 .. k : g[v] = f[v]) /\ g[k + 1] = Digits(f, k + 1)
    OBVIOUS
  <2> HIDE DEF g
  <2>3. \A v \in 0 .. k + 1 : Digits(g, v) = Digits(f, v)
    <3> SUFFICES ASSUME NEW v \in 0 .. k + 1 PROVE Digits(g, v) = Digits(f, v)
      OBVIOUS
    <3>1. v >= Radix => v \div Radix \in 0 .. k
      BY Division
    <3>2. v >= Radix => g[v \div Radix] = f[v \div Radix]
      BY <2>2, <3>1
    <3>3. v < Radix \/ v >= Radix
      BY RadixAssumption
    <3>4. QED BY <3>2, <3>3 DEF Digits
  <2>4. \A v \in 0 .. k + 1 : v = k + 1 \/ v \in 0 .. k
    OBVIOUS
  <2>5. AreDigits(g, k + 1)
    BY <2>1, <2>2, <2>3, <2>4 DEF AreDigits
  <2>6. QED BY <2>5
<1> HIDE DEF S
<1>3. n \in S
  BY <1>1, <1>2, SetInduction
<1>4. QED BY <1>3 DEF S

LEMMA DigitsAgree ==
    ASSUME NEW k \in Nat, NEW l \in Nat, NEW m \in Nat, m <= k, m <= l,
           NEW f, AreDigits(f, k), NEW g, AreDigits(g, l)
    PROVE  f[m] = g[m]
<1> DEFINE S == {n \in Nat : n <= m => f[n] = g[n]}
<1>1. ASSUME NEW n \in Nat, \A v \in 0 .. n - 1 : v \in S PROVE n \in S
  <2> SUFFICES ASSUME n <= m PROVE f[n] = g[n]
    OBVIOUS
  <2>1. f[n] = Digits(f, n) /\ g[n] = Digits(g, n)
    BY DEF AreDigits
  <2>2. n >= Radix => n \div Radix \in 0 .. n - 1
    BY Division
  <2>3. n >= Radix => f[n \div Radix] = g[n \div Radix]
    BY <1>1, <2>2
  <2>4. n < Radix \/ n >= Radix
    BY RadixAssumption
  <2>5. QED BY <2>1, <2>3, <2>4 DEF Digits
<1> HIDE DEF S
<1>2. m \in S
  BY <1>1, StrongInduction
<1>3. QED BY <1>2 DEF S

(* The recursive definition has the value its equation says. *)
LEMMA UvarintEquation ==
    ASSUME NEW v \in Nat
    PROVE  uvarint[v] = Digits(uvarint, v)
<1> DEFINE Whole(f) == f = [n \in Nat |-> IF n < Radix THEN <<n>>
                                          ELSE <<(n % Radix) + Radix>> \o f[n \div Radix]]
<1>1. \E f : Whole(f)
  <2> DEFINE part(n) == CHOOSE f : AreDigits(f, n)
             f == [n \in Nat |-> part(n)[n]]
  <2>1. \A n \in Nat : AreDigits(part(n), n)
    BY DigitsUpTo
  <2> HIDE DEF part
  <2>2. \A n \in Nat : f[n] = Digits(f, n)
    <3> SUFFICES ASSUME NEW n \in Nat PROVE f[n] = Digits(f, n)
      OBVIOUS
    <3> DEFINE q == n \div Radix
    <3>1. part(n)[n] = Digits(part(n), n)
      BY <2>1 DEF AreDigits
    <3>2. n >= Radix => q \in Nat /\ q <= n
      BY Division
    <3>3. q \in Nat /\ q <= n => part(n)[q] = part(q)[q]
      <4> SUFFICES ASSUME q \in Nat, q <= n PROVE part(n)[q] = part(q)[q]
        OBVIOUS
      <4> HIDE DEF q
      <4>1. QED BY <2>1, DigitsAgree
    <3>4. n < Radix \/ n >= Radix
      BY RadixAssumption
    <3>5. n >= Radix => f[q] = part(n)[q]
      BY <3>2, <3>3
    <3>6. QED BY <3>1, <3>4, <3>5 DEF Digits
  <2>3. f = [n \in Nat |-> f[n]]
    OBVIOUS
  <2> HIDE DEF f
  <2>4. [n \in Nat |-> f[n]] = [n \in Nat |-> Digits(f, n)]
    BY <2>2
  <2>5. Whole(f)
    BY <2>3, <2>4 DEF Digits
  <2>6. QED BY <2>5
<1>2. uvarint = CHOOSE f : Whole(f)
  BY Zenon DEF uvarint
<1>3. Whole(uvarint)
  <2> HIDE DEF Whole
  <2>1. QED BY <1>1, <1>2
<1>4. uvarint = [n \in Nat |-> Digits(uvarint, n)]
  BY <1>3 DEF Digits
<1> DEFINE h == [n \in Nat |-> Digits(uvarint, n)]
<1>5. h[v] = Digits(uvarint, v) /\ uvarint = h
  BY <1>4
<1> HIDE DEF h
<1>6. QED BY <1>5

(* A number is written in bytes, the last of which has no continuation bit. *)
LEMMA UvarintIsBytes == \A v \in Nat : uvarint[v] \in Seq(Bytes)
<1> DEFINE S == {v \in Nat : uvarint[v] \in Seq(Bytes)}
<1>1. ASSUME NEW n \in Nat, \A v \in 0 .. n - 1 : v \in S PROVE n \in S
  <2>0. (uvarint[n] \in Seq(Bytes) => n \in S) /\ \A v \in 0 .. n - 1 : uvarint[v] \in Seq(Bytes)
    BY <1>1
  <2> HIDE DEF S
  <2>1. CASE n < Radix
    <3>1. n \in Bytes
      BY <2>1, RadixAssumption DEF Base, Bytes
    <3>2. uvarint[n] = <<n>>
      BY <2>1, UvarintEquation DEF Digits
    <3>3. QED BY <2>0, <3>1, <3>2
  <2>2. CASE n >= Radix
    <3> DEFINE b == (n % Radix) + Radix
               q == n \div Radix
    <3>1. b \in Bytes
      BY Division, RadixAssumption DEF Base, Bytes
    <3>2. q \in 0 .. n - 1
      <4>1. n \div Radix \in 1 .. n - 1
        BY <2>2, Division
      <4>2. QED BY <4>1
    <3>3. uvarint[n] = <<b>> \o uvarint[q]
      <4>1. ~(n < Radix)
        BY <2>2, RadixAssumption
      <4>2. QED BY <4>1, UvarintEquation DEF Digits
    <3> HIDE DEF b, q
    <3>4. uvarint[q] \in Seq(Bytes)
      BY <2>0, <3>2
    <3>5. <<b>> \o uvarint[q] \in Seq(Bytes)
      BY <3>1, <3>4, ConcatProperties
    <3>6. QED BY <2>0, <3>3, <3>5
  <2>3. QED BY <2>1, <2>2, RadixAssumption
<1> HIDE DEF S
<1>2. Nat \subseteq S
  BY <1>1, StrongInduction
<1>3. QED BY <1>2 DEF S

-----------------------------------------------------------------------------
(***************************************************************************)
(* The body, entry by entry.  Bodies(es, k, f): f[n] is the body of the    *)
(* first n entries of es, for n up to k.                                   *)
(***************************************************************************)
AddEntry(b, e) == b \o emit_loop(e)

Bodies(es, k, f) ==
    /\ f[0] = Header
    /\ \A n \in 1 .. k : f[n] = AddEntry(f[n - 1], es[n])

LEMMA BodiesExist ==
    ASSUME NEW es, NEW k \in Nat
    PROVE  \E f : Bodies(es, k, f)
<1> DEFINE S == {n \in Nat : \E f : Bodies(es, n, f)}
<1>1. 0 \in S
  <2> DEFINE f == [n \in {0} |-> Header]
  <2>1. f[0] = Header
    OBVIOUS
  <2> HIDE DEF f
  <2>2. Bodies(es, 0, f)
    BY <2>1 DEF Bodies
  <2>3. QED BY <2>2
<1>2. \A n \in Nat : n \in S => n + 1 \in S
  <2> SUFFICES ASSUME NEW n \in Nat, n \in S PROVE n + 1 \in S
    OBVIOUS
  <2>1. PICK f : Bodies(es, n, f)
    OBVIOUS
  <2> DEFINE g == [i \in 0 .. n + 1 |-> IF i = n + 1 THEN AddEntry(f[n], es[n + 1]) ELSE f[i]]
  <2>2. g[0] = f[0] /\ (\A i \in 1 .. n : g[i] = f[i] /\ g[i - 1] = f[i - 1])
        /\ g[n + 1] = AddEntry(f[n], es[n + 1]) /\ g[n] = f[n]
    OBVIOUS
  <2> HIDE DEF g
  <2>3. Bodies(es, n + 1, g)
    <3>1. \A i \in 1 .. n : g[i] = AddEntry(g[i - 1], es[i])
      BY <2>1, <2>2 DEF Bodies
    <3>2. g[n + 1] = AddEntry(g[(n + 1) - 1], es[n + 1])
      BY <2>2
    <3>3. \A i \in 1 .. n + 1 : i = n + 1 \/ i \in 1 .. n
      OBVIOUS
    <3>4. QED BY <2>1, <2>2, <3>1, <3>2, <3>3 DEF Bodies
  <2>4. QED BY <2>3
<1> HIDE DEF S
<1>3. k \in S
  BY <1>1, <1>2, SetInduction
<1>4. QED BY <1>3 DEF S


LEMMA BodiesAgree ==
    ASSUME NEW es, NEW k \in Nat, NEW l \in Nat, k <= l,
           NEW f, Bodies(es, k, f), NEW g, Bodies(es, l, g)
    PROVE  f[k] = g[k]
<1> DEFINE S == {n \in Nat : n <= k => f[n] = g[n]}
<1>1. 0 \in S
  BY DEF Bodies
<1>2. \A n \in Nat : n \in S => n + 1 \in S
  <2> SUFFICES ASSUME NEW n \in Nat, f[n] = g[n], n + 1 <= k PROVE f[n + 1] = g[n + 1]
    OBVIOUS
  <2>1. f[n + 1] = AddEntry(f[(n + 1) - 1], es[n + 1])
        /\ g[n + 1] = AddEntry(g[(n + 1) - 1], es[n + 1])
    BY DEF Bodies
  <2>2. (n + 1) - 1 = n
    OBVIOUS
  <2>3. QED BY <2>1, <2>2
<1> HIDE DEF S
<1>3. k \in S
  BY <1>1, <1>2, SetInduction
<1>4. QED BY <1>3 DEF S

LEMMA BodyIsLast ==
    ASSUME NEW es, Len(es) \in Nat
    PROVE  \E f : Bodies(es, Len(es), f) /\ Body(es) = f[Len(es)]
<1> DEFINE Whole(f) == f = [n \in Nat |-> IF n = 0 THEN Header ELSE AddEntry(f[n - 1], es[n])]
<1>1. \E f : Whole(f)
  <2> DEFINE part(n) == CHOOSE f : Bodies(es, n, f)
             f == [n \in Nat |-> part(n)[n]]
  <2>1. \A n \in Nat : Bodies(es, n, part(n))
    BY BodiesExist
  <2> HIDE DEF part
  <2>2. \A n \in Nat : f[n] = IF n = 0 THEN Header ELSE AddEntry(f[n - 1], es[n])
    <3> SUFFICES ASSUME NEW n \in Nat
                 PROVE  f[n] = IF n = 0 THEN Header ELSE AddEntry(f[n - 1], es[n])
      OBVIOUS
    <3>1. CASE n = 0
      BY <2>1, <3>1 DEF Bodies
    <3>2. CASE n # 0
      <4>1. n - 1 \in Nat /\ n \in 1 .. n /\ n - 1 <= n
        BY <3>2
      <4>2. part(n)[n] = AddEntry(part(n)[n - 1], es[n])
        BY <2>1, <4>1 DEF Bodies
      <4>3. part(n)[n - 1] = part(n - 1)[n - 1]
        BY <2>1, <4>1, BodiesAgree
      <4>4. QED BY <3>2, <4>1, <4>2, <4>3
    <3>3. QED BY <3>1, <3>2
  <2>3. f = [n \in Nat |-> f[n]]
    OBVIOUS
  <2> HIDE DEF f
  <2>4. [n \in Nat |-> f[n]] = [n \in Nat |-> IF n = 0 THEN Header ELSE AddEntry(f[n - 1], es[n])]
    BY <2>2
  <2>5. Whole(f)
    BY <2>3, <2>4
  <2>6. QED BY <2>5
<1> DEFINE after == CHOOSE f : Whole(f)
<1>2. Whole(after)
  BY <1>1
<1>3. Body(es) = after[Len(es)]
  BY DEF Body, AddEntry
<1> HIDE DEF after
<1>4. \A n \in Nat : after[n] = IF n = 0 THEN Header ELSE AddEntry(after[n - 1], es[n])
  <2> DEFINE h == [n \in Nat |-> IF n = 0 THEN Header ELSE AddEntry(after[n - 1], es[n])]
  <2>1. after = h
    BY <1>2
  <2>2. \A n \in Nat : h[n] = IF n = 0 THEN Header ELSE AddEntry(after[n - 1], es[n])
    OBVIOUS
  <2> HIDE DEF h
  <2>3. QED BY <2>1, <2>2
<1>5. Bodies(es, Len(es), after)
  BY <1>4 DEF Bodies
<1>6. QED BY <1>3, <1>5

LEMMA BodyEmpty == Body(<<>>) = Header
<1>1. Len(<<>>) = 0
  BY EmptySeq
<1>2. QED BY <1>1, BodyIsLast DEF Bodies

LEMMA BodyAppend ==
    ASSUME NEW E, NEW es \in Seq(E), NEW e \in E
    PROVE  Body(Append(es, e)) = Body(es) \o emit_loop(e)
<1> DEFINE t == Append(es, e)
           k == Len(es)
<1>1. k \in Nat /\ Len(t) = k + 1 /\ t[k + 1] = e /\ \A i \in 1 .. k : es[i] = t[i]
  BY LenProperties, AppendProperties
<1>2. PICK f : Bodies(es, k, f) /\ Body(es) = f[k]
  BY <1>1, BodyIsLast
<1>3. PICK g : Bodies(t, k + 1, g) /\ Body(t) = g[k + 1]
  <2>1. Len(t) \in Nat
    BY <1>1
  <2> HIDE DEF t, k
  <2>2. QED BY <1>1, <2>1, BodyIsLast
<1> HIDE DEF t, k
<1>4. f[k] = g[k]
  <2>1. k <= k + 1 /\ k + 1 \in Nat
    BY <1>1
  <2>2. Bodies(t, k, f)
    BY <1>1, <1>2 DEF Bodies
  <2>3. Bodies(t, k + 1, g)
    BY <1>3
  <2>4. k \in Nat
    BY <1>1
  <2>5. QED BY <2>1, <2>2, <2>3, <2>4, BodiesAgree
<1>5. g[k + 1] = AddEntry(g[(k + 1) - 1], t[k + 1])
  BY <1>1, <1>3 DEF Bodies
<1>6. (k + 1) - 1 = k
  BY <1>1
<1>7. QED BY <1>1, <1>2, <1>3, <1>4, <1>5, <1>6 DEF t, AddEntry

-----------------------------------------------------------------------------
(***************************************************************************)
(* A reader r comes to be q by the bytes s, wherever in a stream they are. *)
(***************************************************************************)
Leads(base, r, s, q) == \A p \in Seq(Bytes) : Read(base, p) = r => Read(base, p \o s) = q

Joins(x, y, z) == (x \o y) \o z = x \o (y \o z)

LEMMA JoinedEitherWay ==
    ASSUME NEW x \in Seq(Bytes), NEW y \in Seq(Bytes), NEW z \in Seq(Bytes)
    PROVE  Joins(x, y, z)
BY ConcatAssociative DEF Joins

LEMMA LeadsNowhere == ASSUME NEW base, NEW r PROVE Leads(base, r, <<>>, r)
BY ConcatEmptySeq DEF Leads

LEMMA LeadsOne ==
    ASSUME NEW base, NEW r, NEW b \in Bytes
    PROVE  Leads(base, r, <<b>>, feed(r, base, b))
<1> SUFFICES ASSUME NEW p \in Seq(Bytes), Read(base, p) = r
             PROVE  Read(base, p \o <<b>>) = feed(r, base, b)
  BY DEF Leads
<1>1. p \o <<b>> = Append(p, b)
  BY AppendIsConcat
<1>2. Read(base, Append(p, b)) = feed(Read(base, p), base, b)
  BY ReadAppend
<1>3. QED BY <1>1, <1>2

LEMMA LeadsOn ==
    ASSUME NEW base, NEW r, NEW s \in Seq(Bytes), NEW q, Leads(base, r, s, q),
           NEW t \in Seq(Bytes), NEW x, Leads(base, q, t, x)
    PROVE  s \o t \in Seq(Bytes) /\ Leads(base, r, s \o t, x)
<1>1. s \o t \in Seq(Bytes)
  BY ConcatProperties
<1>2. ASSUME NEW p \in Seq(Bytes), Read(base, p) = r
      PROVE  Read(base, p \o (s \o t)) = x
  <2>1. (p \o s) \o t = p \o (s \o t)
    BY JoinedEitherWay DEF Joins
  <2>2. p \o s \in Seq(Bytes)
    BY ConcatProperties
  <2>3. Read(base, p \o s) = q
    BY <1>2 DEF Leads
  <2>4. Read(base, (p \o s) \o t) = x
    BY <2>2, <2>3 DEF Leads
  <2>5. QED BY <2>1, <2>4
<1>3. QED BY <1>1, <1>2 DEF Leads

(***************************************************************************)
(* The places a reader without an error comes by, after the header.        *)
(***************************************************************************)
No == FALSE

Reading(stage, target, acc, weight, remaining, pos, written) ==
    [stage |-> stage, target |-> target, had_error |-> No, undefined |-> No,
     hdr |-> Header, acc |-> acc, weight |-> weight, remaining |-> remaining,
     pos |-> pos, out |-> written]

(* The changes the steps of the reader make. *)
WithNumber(r, acc, weight) ==
    [r EXCEPT !.acc = acc, !.weight = weight]
WithTarget(r, target) ==
    [r EXCEPT !.target = target]
WithStage(r, stage, remaining) ==
    [r EXCEPT !.stage = stage, !.remaining = remaining]
WithPos(r, pos) ==
    [r EXCEPT !.pos = pos]
WithPlace(r, pos, target) ==
    [r EXCEPT !.pos = pos, !.target = target]
WithWritten(r, written, remaining, stage, target) ==
    [r EXCEPT !.out = written, !.remaining = remaining, !.stage = stage, !.target = target]

(* Its fields, and what the steps of the reader change of them. *)
LEMMA FieldsOf ==
    ASSUME NEW stage, NEW target, NEW acc, NEW weight, NEW remaining, NEW pos, NEW written,
           NEW r, r = Reading(stage, target, acc, weight, remaining, pos, written)
    PROVE  /\ r.stage = stage /\ r.target = target /\ r.had_error = No /\ r.undefined = No
           /\ r.acc = acc /\ r.weight = weight /\ r.remaining = remaining
           /\ r.pos = pos /\ r.out = written
BY DEF Reading

LEMMA SetNumber ==
    ASSUME NEW stage, NEW target, NEW acc, NEW weight, NEW remaining, NEW pos, NEW written,
           NEW acc2, NEW weight2
    PROVE  WithNumber(Reading(stage, target, acc, weight, remaining, pos, written), acc2, weight2)
           = Reading(stage, target, acc2, weight2, remaining, pos, written)
<1> DEFINE r0 == Reading(stage, target, acc, weight, remaining, pos, written)
           r1 == [r0 EXCEPT !.acc = acc2]
           r2 == [r1 EXCEPT !.weight = weight2]
<1>1. r1 = Reading(stage, target, acc2, weight, remaining, pos, written)
  BY DEF Reading
<1> HIDE DEF r1
<1>2. r2 = Reading(stage, target, acc2, weight2, remaining, pos, written)
  BY <1>1 DEF Reading
<1>3. QED BY Zenon, <1>2 DEF WithNumber, r1

LEMMA SetTarget ==
    ASSUME NEW stage, NEW target, NEW acc, NEW weight, NEW remaining, NEW pos, NEW written,
           NEW target2
    PROVE  WithTarget(Reading(stage, target, acc, weight, remaining, pos, written), target2)
           = Reading(stage, target2, acc, weight, remaining, pos, written)
BY DEF Reading, WithTarget

LEMMA SetStage ==
    ASSUME NEW stage, NEW target, NEW acc, NEW weight, NEW remaining, NEW pos, NEW written,
           NEW stage2, NEW remaining2
    PROVE  WithStage(Reading(stage, target, acc, weight, remaining, pos, written), stage2, remaining2)
           = Reading(stage2, target, acc, weight, remaining2, pos, written)
<1> DEFINE r0 == Reading(stage, target, acc, weight, remaining, pos, written)
           r1 == [r0 EXCEPT !.stage = stage2]
           r2 == [r1 EXCEPT !.remaining = remaining2]
<1>1. r1 = Reading(stage2, target, acc, weight, remaining, pos, written)
  BY DEF Reading
<1> HIDE DEF r1
<1>2. r2 = Reading(stage2, target, acc, weight, remaining2, pos, written)
  BY <1>1 DEF Reading
<1>3. QED BY Zenon, <1>2 DEF WithStage, r1

LEMMA SetPos ==
    ASSUME NEW stage, NEW target, NEW acc, NEW weight, NEW remaining, NEW pos, NEW written,
           NEW pos2
    PROVE  WithPos(Reading(stage, target, acc, weight, remaining, pos, written), pos2)
           = Reading(stage, target, acc, weight, remaining, pos2, written)
BY DEF Reading, WithPos

LEMMA SetPlace ==
    ASSUME NEW stage, NEW target, NEW acc, NEW weight, NEW remaining, NEW pos, NEW written,
           NEW pos2, NEW target2
    PROVE  WithPlace(Reading(stage, target, acc, weight, remaining, pos, written), pos2, target2)
           = Reading(stage, target2, acc, weight, remaining, pos2, written)
<1> DEFINE r0 == Reading(stage, target, acc, weight, remaining, pos, written)
           r1 == [r0 EXCEPT !.pos = pos2]
           r2 == [r1 EXCEPT !.target = target2]
<1>1. r1 = Reading(stage, target, acc, weight, remaining, pos2, written)
  BY DEF Reading
<1> HIDE DEF r1
<1>2. r2 = Reading(stage, target2, acc, weight, remaining, pos2, written)
  BY <1>1 DEF Reading
<1>3. QED BY Zenon, <1>2 DEF WithPlace, r1

LEMMA SetWritten ==
    ASSUME NEW stage, NEW target, NEW acc, NEW weight, NEW remaining, NEW pos, NEW written,
           NEW written2, NEW remaining2, NEW stage2, NEW target2
    PROVE  WithWritten(Reading(stage, target, acc, weight, remaining, pos, written), written2, remaining2, stage2, target2)
           = Reading(stage2, target2, acc, weight, remaining2, pos, written2)
<1> DEFINE r0 == Reading(stage, target, acc, weight, remaining, pos, written)
           r1 == [r0 EXCEPT !.out = written2]
           r2 == [r1 EXCEPT !.remaining = remaining2]
           r3 == [r2 EXCEPT !.stage = stage2]
           r4 == [r3 EXCEPT !.target = target2]
<1>1. r1 = Reading(stage, target, acc, weight, remaining, pos, written2)
  BY DEF Reading
<1> HIDE DEF r1
<1>2. r2 = Reading(stage, target, acc, weight, remaining2, pos, written2)
  BY <1>1 DEF Reading
<1> HIDE DEF r2
<1>3. r3 = Reading(stage2, target, acc, weight, remaining2, pos, written2)
  BY <1>2 DEF Reading
<1> HIDE DEF r3
<1>4. r4 = Reading(stage2, target2, acc, weight, remaining2, pos, written2)
  BY <1>3 DEF Reading
<1>5. QED BY Zenon, <1>4 DEF WithWritten, r1, r2, r3

(* Before the number target is the length or place of, or inside it. *)
InNumber(target, acc, weight, pos, written) ==
    Reading("ReadVarint", target, acc, weight, 0, pos, written)

AtNumber(target, pos, written) == InNumber(target, 0, 1, pos, written)

Adding(n, pos, written) == Reading("DoAdd", "AddLen", 0, 1, n, pos, written)

Copying(n, pos, written) == Reading("DoCopy", "CopyLen", 0, 1, n, pos, written)

(* Two bytes, one after the other. *)
LEMMA Pair ==
    ASSUME NEW S, NEW a \in S, NEW b \in S
    PROVE  Append(<<a>>, b) = <<a, b>> /\ <<a>> \o <<b>> = <<a, b>>
<1>1. ASSUME NEW s \in Seq(S), Len(s) = 1, s[1] = a, NEW t \in Seq(S), Len(t) = 2, t[1] = a, t[2] = b
      PROVE  Append(s, b) = t
  <2> DEFINE u == Append(s, b)
  <2>1. u \in Seq(S) /\ Len(u) = Len(s) + 1 /\ u[Len(s) + 1] = b /\ \A i \in 1 .. Len(s) : u[i] = s[i]
    BY AppendProperties
  <2> HIDE DEF u
  <2>2. Len(u) = 2 /\ u[2] = b /\ u[1] = a
    BY <1>1, <2>1
  <2>3. \A i \in 1 .. Len(u) : i = 1 \/ i = 2
    BY <2>2
  <2>4. u = t
    BY <1>1, <2>1, <2>2, <2>3, SeqEqual
  <2>5. QED BY <2>4 DEF u
<1>2. <<a>> \in Seq(S) /\ Len(<<a>>) = 1 /\ <<a>>[1] = a
  OBVIOUS
<1>3. <<a, b>> \in Seq(S) /\ Len(<<a, b>>) = 2 /\ <<a, b>>[1] = a /\ <<a, b>>[2] = b
  OBVIOUS
<1>4. Append(<<a>>, b) = <<a, b>>
  BY Zenon, <1>1, <1>2, <1>3
<1>5. <<a>> \o <<b>> = Append(<<a>>, b)
  BY Zenon, <1>2, AppendIsConcat
<1>6. QED BY <1>4, <1>5

LEMMA HeaderIsRead ==
    ASSUME NEW base
    PROVE  Header \in Seq(Bytes) /\ Leads(base, NewReader, Header, AtNumber("AddLen", 0, <<>>))
<1> DEFINE a == Base - 1
           half == [NewReader EXCEPT !.hdr = <<a>>]
<1>1. a \in Bytes /\ Radix \in Bytes
  BY RadixAssumption DEF Bytes, Base
<1>2. Header = <<a, Radix>> /\ Append(<<>>, a) = <<a>> /\ Len(<<a>>) = 1 /\ Len(<<a, Radix>>) = 2
  BY DEF Header
<1> HIDE DEF a
<1>10. <<a>> \o <<Radix>> = <<a, Radix>> /\ Append(<<a>>, Radix) = <<a, Radix>>
  BY <1>1, Pair
<1>3. feed(NewReader, base, a) = half
  BY <1>2 DEF feed, ReadHeader, NewReader
<1>4. feed(half, base, Radix) = AtNumber("AddLen", 0, <<>>)
  <2>1. /\ half.had_error = FALSE /\ half.undefined = FALSE /\ half.stage = "ReadHeader"
        /\ half.hdr = <<a>>
    BY DEF NewReader
  <2> HIDE DEF half
  <2>4. ReadHeader(half, Radix) = [half EXCEPT !.hdr = Header, !.stage = "ReadVarint"]
    <3>1. Append(half.hdr, Radix) = Header /\ ~(Len(Header) < Len(Header))
      BY <1>2, <1>10, <2>1
    <3>2. QED BY Zenon, <3>1 DEF ReadHeader
  <2>2. feed(half, base, Radix) = [half EXCEPT !.hdr = Header, !.stage = "ReadVarint"]
    BY <2>1, <2>4 DEF feed
  <2>3. QED BY <2>2 DEF half, NewReader, No, AtNumber, InNumber, Reading
<1>5. Leads(base, NewReader, <<a>>, half)
  BY <1>1, <1>3, LeadsOne
<1>6. Leads(base, half, <<Radix>>, AtNumber("AddLen", 0, <<>>))
  BY <1>1, <1>4, LeadsOne
<1>7. <<a>> \in Seq(Bytes) /\ <<Radix>> \in Seq(Bytes)
  BY <1>1
<1> HIDE DEF half
<1>8. Leads(base, NewReader, <<a>> \o <<Radix>>, AtNumber("AddLen", 0, <<>>))
      /\ <<a>> \o <<Radix>> \in Seq(Bytes)
  BY <1>5, <1>6, <1>7, LeadsOn
<1>9. QED BY <1>2, <1>8, <1>10

-----------------------------------------------------------------------------
(***************************************************************************)
(* A number is read as what was written, unless it does not fit the word.  *)
(***************************************************************************)
(* The lowest digit of n and the others, at the weight w. *)
LEMMA DigitValue ==
    ASSUME NEW n \in Nat, NEW w \in Nat
    PROVE  LET d == n % Radix
               q == n \div Radix
           IN  /\ d * w \in Nat /\ n * w \in Nat /\ w * Radix \in Nat /\ q * (w * Radix) \in Nat
               /\ d * w + q * (w * Radix) = n * w
               /\ q >= 1 => w * Radix <= q * (w * Radix)
<1> DEFINE k == Radix
           d == n % Radix
           q == n \div Radix
<1>1. k \in Nat /\ n = k * q + d /\ q \in Nat /\ d \in Nat
  BY Division, RadixAssumption
<1> HIDE DEF k, d, q
<1>2. d * w \in Nat /\ n * w \in Nat /\ w * k \in Nat /\ q * (w * k) \in Nat
  BY <1>1
<1>3. (k * q + d) * w = d * w + q * (w * k)
  BY <1>1
<1>4. q >= 1 => w * k <= q * (w * k)
  BY <1>1, <1>2
<1>5. QED BY <1>1, <1>2, <1>3, <1>4 DEF k, d, q

LEMMA ModWord == ASSUME NEW x \in Nat, x < Word PROVE x % Word = x
BY WordAssumption

LEMMA ModRadix == ASSUME NEW x \in Nat, x < Radix PROVE x % Radix = x /\ (x + Radix) % Radix = x
<1> DEFINE k == Radix
<1>1. k \in Nat /\ k > 1 /\ x < k
  BY RadixAssumption
<1> HIDE DEF k
<1>2. x % k = x /\ (x + k) % k = x
  BY <1>1
<1>3. QED BY <1>2 DEF k

(* The digits read so far are forgotten once the number is known. *)
LEMMA NumberEnds ==
    ASSUME NEW base, NEW target, NEW pos, NEW written, NEW acc, NEW w, NEW v
    PROVE  on_varint(InNumber(target, acc, w, pos, written), base, v)
           = on_varint(AtNumber(target, pos, written), base, v)
<1> DEFINE r == InNumber(target, acc, w, pos, written)
           s == AtNumber(target, pos, written)
<1>1. [r EXCEPT !.acc = 0, !.weight = 1] = s /\ [s EXCEPT !.acc = 0, !.weight = 1] = s
      /\ r.target = target /\ s.target = target
  <2>1. WithNumber(r, 0, 1) = s /\ WithNumber(s, 0, 1) = s
    BY SetNumber DEF AtNumber, InNumber
  <2>2. r.target = target /\ s.target = target
    BY DEF AtNumber, InNumber, Reading
  <2> HIDE DEF r, s
  <2>3. QED BY Zenon, <2>1, <2>2 DEF WithNumber
<1> HIDE DEF r, s
<1>2. on_varint(r, base, v) = on_varint(s, base, v)
  BY Zenon, <1>1 DEF on_varint
<1>3. QED BY <1>2 DEF r, s

LEMMA DigitIsRead ==
    ASSUME NEW base, NEW target, NEW pos, NEW written, NEW acc \in Nat, NEW w \in Nat, w < Word,
           NEW b \in Nat, (b % Radix) * w \in Nat, acc + (b % Radix) * w < Word
    PROVE  feed(InNumber(target, acc, w, pos, written), base, b)
           = IF b < Radix
             THEN on_varint(AtNumber(target, pos, written), base, acc + (b % Radix) * w)
             ELSE InNumber(target, acc + (b % Radix) * w, w * Radix, pos, written)
<1> DEFINE r == InNumber(target, acc, w, pos, written)
           x == acc + (b % Radix) * w
<1>1. /\ r.had_error = No /\ r.undefined = No /\ r.stage = "ReadVarint"
      /\ r.acc = acc /\ r.weight = w
      /\ [r EXCEPT !.acc = x, !.weight = w * Radix] = InNumber(target, x, w * Radix, pos, written)
  <2>1. /\ r.had_error = No /\ r.undefined = No /\ r.stage = "ReadVarint"
        /\ r.acc = acc /\ r.weight = w
    BY DEF InNumber, Reading
  <2> HIDE DEF x
  <2>2. WithNumber(r, x, w * Radix) = InNumber(target, x, w * Radix, pos, written)
    BY SetNumber DEF InNumber
  <2> HIDE DEF r
  <2>3. QED BY Zenon, <2>1, <2>2 DEF WithNumber
<1>2. x % Word = x /\ ~(w >= Word)
  BY ModWord, WordAssumption
<1>3. on_varint(r, base, x) = on_varint(AtNumber(target, pos, written), base, x)
  BY NumberEnds
<1>4. (acc + (b % Radix) * w) % Word = x
  BY <1>2
<1> HIDE DEF r, x
<1>5. feed(r, base, b) = ReadVarint(r, base, b)
  BY <1>1 DEF feed, No
<1>6. ReadVarint(r, base, b) = IF b < Radix THEN on_varint(r, base, x)
                               ELSE [r EXCEPT !.acc = x, !.weight = w * Radix]
  BY <1>1, <1>2, <1>4 DEF ReadVarint
<1>7. feed(r, base, b) = IF b < Radix THEN on_varint(AtNumber(target, pos, written), base, x)
                         ELSE InNumber(target, x, w * Radix, pos, written)
  BY <1>1, <1>3, <1>5, <1>6
<1>8. QED BY <1>7 DEF r, x

(* The last digit, and one before it. *)
LEMMA LastDigitIsRead ==
    ASSUME NEW base, NEW target, NEW pos, NEW written, NEW acc \in Nat, NEW w \in Nat, w < Word,
           NEW b \in Nat, b < Radix, b * w \in Nat, acc + b * w < Word
    PROVE  feed(InNumber(target, acc, w, pos, written), base, b)
           = on_varint(AtNumber(target, pos, written), base, acc + b * w)
<1>1. b % Radix = b
  BY ModRadix
<1>2. (b % Radix) * w \in Nat /\ acc + (b % Radix) * w < Word
  BY <1>1
<1>3. feed(InNumber(target, acc, w, pos, written), base, b)
      = on_varint(AtNumber(target, pos, written), base, acc + (b % Radix) * w)
  BY <1>2, DigitIsRead
<1>4. QED BY <1>1, <1>3

LEMMA MoreDigitIsRead ==
    ASSUME NEW base, NEW target, NEW pos, NEW written, NEW acc \in Nat, NEW w \in Nat, w < Word,
           NEW d \in Nat, d < Radix, d * w \in Nat, acc + d * w < Word
    PROVE  feed(InNumber(target, acc, w, pos, written), base, d + Radix)
           = InNumber(target, acc + d * w, w * Radix, pos, written)
<1> DEFINE b == d + Radix
<1>1. b \in Nat /\ ~(b < Radix) /\ b % Radix = d
  BY ModRadix, RadixAssumption
<1> HIDE DEF b
<1>2. (b % Radix) * w \in Nat /\ acc + (b % Radix) * w < Word
  BY <1>1
<1>3. feed(InNumber(target, acc, w, pos, written), base, b)
      = InNumber(target, acc + (b % Radix) * w, w * Radix, pos, written)
  BY <1>1, <1>2, DigitIsRead
<1>4. QED BY <1>1, <1>3 DEF b

LEMMA NumberIsRead ==
    ASSUME NEW base, NEW target, NEW pos, NEW written, 1 < Word, NEW v \in Nat, v < Word
    PROVE  /\ uvarint[v] \in Seq(Bytes)
           /\ Leads(base, AtNumber(target, pos, written), uvarint[v],
                    on_varint(AtNumber(target, pos, written), base, v))
<1> DEFINE In(acc, w) == InNumber(target, acc, w, pos, written)
           end(x) == on_varint(AtNumber(target, pos, written), base, x)
           Good(n, acc, w) == w < Word /\ acc + n * w < Word
                                => Leads(base, In(acc, w), uvarint[n], end(acc + n * w))
           S == {n \in Nat : \A acc, w \in Nat : Good(n, acc, w)}
<1>1. ASSUME NEW n \in Nat, \A k \in 0 .. n - 1 : k \in S PROVE n \in S
  <2> SUFFICES ASSUME NEW acc \in Nat, NEW w \in Nat, w < Word, acc + n * w < Word
               PROVE  Leads(base, In(acc, w), uvarint[n], end(acc + n * w))
    OBVIOUS
  <2>1. CASE n < Radix
    <3>1. n % Radix = n /\ n \in Bytes /\ n * w \in Nat
      BY <2>1, ModRadix, RadixAssumption DEF Bytes, Base
    <3>2. uvarint[n] = <<n>>
      BY <2>1, UvarintEquation DEF Digits
    <3>3. feed(In(acc, w), base, n) = end(acc + n * w)
      BY <2>1, <3>1, LastDigitIsRead
    <3>4. Leads(base, In(acc, w), <<n>>, feed(In(acc, w), base, n))
      BY <3>1, LeadsOne
    <3>5. QED BY <3>2, <3>3, <3>4
  <2>2. CASE n >= Radix
    <3> DEFINE d == n % Radix
               q == n \div Radix
               b == d + Radix
    <3>1. d \in 0 .. Radix - 1 /\ q \in Nat /\ n = Radix * q + d
      BY Division
    <3>2. q \in 1 .. n - 1
      <4>1. n \div Radix \in 1 .. n - 1
        BY <2>2, Division
      <4>2. QED BY <4>1
    <3>3. uvarint[n] = <<b>> \o uvarint[q]
      <4>1. ~(n < Radix)
        BY <2>2, RadixAssumption
      <4>2. QED BY <4>1, UvarintEquation DEF Digits
    <3> HIDE DEF d, q
    <3>4. d \in Nat /\ d < Radix /\ b \in Nat /\ b \in Bytes /\ ~(b < Radix)
      BY <3>1, RadixAssumption DEF Bytes, Base
    <3>5. b % Radix = d
      BY <3>4, ModRadix
    <3> HIDE DEF b
    <3>6. /\ d * w \in Nat /\ n * w \in Nat /\ w * Radix \in Nat /\ q * (w * Radix) \in Nat
          /\ d * w + q * (w * Radix) = n * w
          /\ w * Radix <= q * (w * Radix)
      <4>1. q >= 1
        BY <3>2
      <4>2. QED BY <4>1, DigitValue DEF d, q
    <3> DEFINE acc1 == acc + d * w
               w1 == w * Radix
    <3>7. acc1 \in Nat /\ w1 \in Nat /\ w1 < Word /\ acc1 + q * w1 = acc + n * w /\ acc1 < Word
      BY <3>6, WordAssumption
    <3>8. feed(In(acc, w), base, b) = In(acc1, w1)
      BY <3>4, <3>6, <3>7, MoreDigitIsRead DEF b
    <3>9. Leads(base, In(acc, w), <<b>>, In(acc1, w1))
      BY <3>4, <3>8, LeadsOne
    <3> HIDE DEF acc1, w1
    <3>10. Leads(base, In(acc1, w1), uvarint[q], end(acc1 + q * w1))
      BY <1>1, <3>2, <3>7
    <3>11. <<b>> \in Seq(Bytes) /\ uvarint[q] \in Seq(Bytes)
      BY <3>1, <3>4, UvarintIsBytes
    <3> HIDE DEF In, end
    <3>12. Leads(base, In(acc, w), <<b>> \o uvarint[q], end(acc1 + q * w1))
      BY Zenon, <3>9, <3>10, <3>11, LeadsOn
    <3>13. QED BY Zenon, <3>3, <3>7, <3>12
  <2>3. QED BY <2>1, <2>2, RadixAssumption
<1>2. v \in S
  <2> HIDE DEF S
  <2>1. QED BY <1>1, StrongInduction
<1>3. Good(v, 0, 1)
  BY <1>2
<1>4. 0 + v * 1 = v
  OBVIOUS
<1>5. In(0, 1) = AtNumber(target, pos, written)
  BY DEF AtNumber
<1>6. QED BY <1>3, <1>4, <1>5, UvarintIsBytes

-----------------------------------------------------------------------------
(***************************************************************************)
(* What the reader does with a number.                                     *)
(***************************************************************************)
LEMMA LengthStarts ==
    ASSUME NEW base, NEW pos, NEW written, NEW v \in Nat
    PROVE  /\ v = 0 => /\ on_varint(AtNumber("AddLen", pos, written), base, v)
                          = AtNumber("CopyLen", pos, written)
                       /\ on_varint(AtNumber("CopyLen", pos, written), base, v)
                          = AtNumber("Seek", pos, written)
           /\ v # 0 => /\ on_varint(AtNumber("AddLen", pos, written), base, v)
                          = Adding(v, pos, written)
                       /\ on_varint(AtNumber("CopyLen", pos, written), base, v)
                          = Copying(v, pos, written)
<1> DEFINE r(target) == AtNumber(target, pos, written)
<1>1. ASSUME NEW target
      PROVE  /\ [r(target) EXCEPT !.acc = 0, !.weight = 1] = r(target) /\ r(target).target = target
             /\ [r(target) EXCEPT !.target = "CopyLen"] = r("CopyLen")
             /\ [r(target) EXCEPT !.target = "Seek"] = r("Seek")
             /\ [r(target) EXCEPT !.stage = "DoAdd", !.remaining = v]
                = Reading("DoAdd", target, 0, 1, v, pos, written)
             /\ [r(target) EXCEPT !.stage = "DoCopy", !.remaining = v]
                = Reading("DoCopy", target, 0, 1, v, pos, written)
  <2>1. /\ WithNumber(r(target), 0, 1) = r(target)
        /\ WithTarget(r(target), "CopyLen") = r("CopyLen")
        /\ WithTarget(r(target), "Seek") = r("Seek")
    BY SetNumber, SetTarget DEF AtNumber, InNumber
  <2>2. /\ WithStage(r(target), "DoAdd", v) = Reading("DoAdd", target, 0, 1, v, pos, written)
        /\ WithStage(r(target), "DoCopy", v) = Reading("DoCopy", target, 0, 1, v, pos, written)
    BY SetStage DEF AtNumber, InNumber
  <2>3. r(target).target = target
    BY FieldsOf DEF AtNumber, InNumber
  <2> HIDE DEF r
  <2>4. QED BY Zenon, <2>1, <2>2, <2>3 DEF WithNumber, WithTarget, WithStage
<1> HIDE DEF r
<1>2. /\ v = 0 => on_varint(r("AddLen"), base, v) = r("CopyLen")
      /\ v # 0 => on_varint(r("AddLen"), base, v) = Reading("DoAdd", "AddLen", 0, 1, v, pos, written)
  <2>1. [r("AddLen") EXCEPT !.acc = 0, !.weight = 1] = r("AddLen") /\ r("AddLen").target = "AddLen"
    BY <1>1
  <2>2. on_varint(r("AddLen"), base, v)
        = IF v = 0 THEN [r("AddLen") EXCEPT !.target = "CopyLen"]
          ELSE [r("AddLen") EXCEPT !.stage = "DoAdd", !.remaining = v]
    BY <2>1 DEF on_varint
  <2>3. QED BY <1>1, <2>2
<1>3. /\ v = 0 => on_varint(r("CopyLen"), base, v) = r("Seek")
      /\ v # 0 => on_varint(r("CopyLen"), base, v) = Reading("DoCopy", "CopyLen", 0, 1, v, pos, written)
  <2>1. [r("CopyLen") EXCEPT !.acc = 0, !.weight = 1] = r("CopyLen") /\ r("CopyLen").target = "CopyLen"
    BY <1>1
  <2>2. on_varint(r("CopyLen"), base, v)
        = IF v = 0 THEN [r("CopyLen") EXCEPT !.target = "Seek"]
          ELSE [r("CopyLen") EXCEPT !.stage = "DoCopy", !.remaining = v]
    BY <2>1 DEF on_varint
  <2>3. QED BY <1>1, <2>2
<1>4. QED BY <1>2, <1>3 DEF r, Adding, Copying

(* Zigzag and back. *)
Zigzag(s) == IF s >= 0 THEN 2 * s ELSE -2 * s - 1

LEMMA ZigzagUndone ==
    ASSUME NEW s \in Int
    PROVE  Zigzag(s) \in Nat /\ Unzigzag(Zigzag(s)) = s
<1>1. CASE s >= 0
  <2>1. Zigzag(s) = 2 * s /\ (2 * s) % 2 = 0 /\ (2 * s) \div 2 = s
    BY <1>1 DEF Zigzag
  <2>2. QED BY <1>1, <2>1 DEF Unzigzag
<1>2. CASE s < 0
  <2> DEFINE v == -2 * s - 1
  <2>1. Zigzag(s) = v /\ v % 2 = 1 /\ v \div 2 = -s - 1 /\ v \in Nat
    BY <1>2 DEF Zigzag
  <2> HIDE DEF v
  <2>2. QED BY <2>1 DEF Unzigzag
<1>3. QED BY <1>1, <1>2

LEMMA SeekEnds ==
    ASSUME NEW base, NEW pos \in Nat, NEW written, NEW s \in Int, pos + s \in 0 .. Len(base)
    PROVE  on_varint(AtNumber("Seek", pos, written), base, Zigzag(s))
           = AtNumber("AddLen", pos + s, written)
<1> DEFINE r == AtNumber("Seek", pos, written)
           v == Zigzag(s)
           at == pos + s
<1>1. WithNumber(r, 0, 1) = r
  BY SetNumber DEF AtNumber, InNumber
<1>2. WithPlace(r, at, "AddLen") = AtNumber("AddLen", at, written)
  BY SetPlace DEF AtNumber, InNumber
<1>3. r.target = "Seek" /\ r.pos = pos
  BY FieldsOf DEF AtNumber, InNumber
<1>4. Unzigzag(v) = s
  BY ZigzagUndone
<1> HIDE DEF r, v
<1>5. [r EXCEPT !.acc = 0, !.weight = 1] = r
  BY Zenon, <1>1 DEF WithNumber
<1>6. on_varint(r, base, v) = SeekBy(r, base, s)
  BY <1>3, <1>4, <1>5 DEF on_varint
<1>7. SeekBy(r, base, s) = [r EXCEPT !.pos = r.pos + s, !.target = "AddLen"]
  BY Zenon, <1>3 DEF SeekBy
<1>8. [r EXCEPT !.pos = r.pos + s, !.target = "AddLen"] = WithPlace(r, at, "AddLen")
  BY Zenon, <1>3 DEF WithPlace
<1>9. QED BY <1>2, <1>6, <1>7, <1>8 DEF r, v

-----------------------------------------------------------------------------
(***************************************************************************)
(* The two windows of an entry, byte by byte.                              *)
(***************************************************************************)
LEMMA WriteIs ==
    ASSUME NEW stage, NEW target, NEW n, NEW pos, NEW written, NEW b, NEW next
    PROVE  Write(Reading(stage, target, 0, 1, n, pos, written), b, next)
           = Reading(IF n = 1 THEN "ReadVarint" ELSE stage, IF n = 1 THEN next ELSE target,
                     0, 1, n - 1, pos, Append(written, b))
<1> DEFINE r == Reading(stage, target, 0, 1, n, pos, written)
           more == Append(written, b)
           stage2 == IF n = 1 THEN "ReadVarint" ELSE stage
           target2 == IF n = 1 THEN next ELSE target
<1>1. WithWritten(r, more, n - 1, stage2, target2) = Reading(stage2, target2, 0, 1, n - 1, pos, more)
  <2> HIDE DEF more, stage2, target2
  <2>1. QED BY SetWritten
<1>2. r.stage = stage /\ r.target = target /\ r.remaining = n /\ r.out = written
  BY FieldsOf
<1> HIDE DEF r
<1>3. Write(r, b, next) = [r EXCEPT !.out = Append(r.out, b), !.remaining = r.remaining - 1,
                !.stage = IF r.remaining = 1 THEN "ReadVarint" ELSE r.stage,
                !.target = IF r.remaining = 1 THEN next ELSE r.target]
  BY Zenon DEF Write
<1>4. Write(r, b, next) = WithWritten(r, more, n - 1, stage2, target2)
  BY Zenon, <1>2, <1>3 DEF WithWritten
<1>5. QED BY <1>1, <1>4 DEF r

LEMMA CopyByte ==
    ASSUME NEW base, NEW n \in Nat, NEW pos, NEW written, NEW b
    PROVE  feed(Copying(n, pos, written), base, b)
           = IF n = 1 THEN AtNumber("Seek", pos, Append(written, b))
             ELSE Copying(n - 1, pos, Append(written, b))
<1> DEFINE r == Copying(n, pos, written)
<1>1. r.had_error = No /\ r.undefined = No /\ r.stage = "DoCopy"
  BY FieldsOf DEF Copying
<1>2. feed(r, base, b) = Write(r, b, "Seek")
  <2> HIDE DEF r
  <2>1. QED BY <1>1 DEF feed, No
<1>3. Write(r, b, "Seek")
      = Reading(IF n = 1 THEN "ReadVarint" ELSE "DoCopy", IF n = 1 THEN "Seek" ELSE "CopyLen",
                0, 1, n - 1, pos, Append(written, b))
  BY WriteIs DEF Copying
<1> HIDE DEF r
<1>4. CASE n = 1
  BY <1>2, <1>3, <1>4 DEF r, AtNumber, InNumber
<1>5. CASE n # 1
  BY <1>2, <1>3, <1>5 DEF r, Copying
<1>6. QED BY <1>4, <1>5

(* The reader's sum of bytes is Plus. *)
LEMMA SumOfBytes ==
    ASSUME NEW a \in Bytes, NEW b \in Bytes
    PROVE  (a + b) % Base = Plus(a, b) /\ Plus(a, b) \in Bytes
<1> DEFINE k == Base
<1>1. k \in Nat /\ k > 0 /\ a \in Nat /\ a < k /\ b \in Nat /\ b < k
  BY RadixAssumption DEF Base, Bytes
<1> HIDE DEF k
<1>2. (a + b) % k = IF a + b < k THEN a + b ELSE a + b - k
  BY <1>1
<1>3. QED BY <1>1, <1>2 DEF k, Plus, Bytes

LEMMA AddByte ==
    ASSUME NEW base \in Seq(Bytes), NEW n \in Nat, NEW pos \in Nat, pos < Len(base),
           NEW written, NEW b \in Bytes
    PROVE  feed(Adding(n, pos, written), base, b)
           = IF n = 1 THEN AtNumber("CopyLen", pos + 1, Append(written, Plus(At(base, pos), b)))
             ELSE Adding(n - 1, pos + 1, Append(written, Plus(At(base, pos), b)))
<1> DEFINE r == Adding(n, pos, written)
           s == Adding(n, pos + 1, written)
           x == Plus(At(base, pos), b)
<1>1. r.had_error = No /\ r.undefined = No /\ r.stage = "DoAdd" /\ r.pos = pos
  BY FieldsOf DEF Adding
<1>2. WithPos(r, pos + 1) = s
  BY SetPos DEF Adding
<1>3. (base[pos + 1] + b) % Base = x
  <2>1. base[pos + 1] \in Bytes
    BY LenProperties, ElementOfSeq
  <2>2. QED BY <2>1, SumOfBytes DEF At
<1>4. ~(pos >= Len(base))
  BY LenProperties
<1> HIDE DEF r, s, x
<1>5. feed(r, base, b) = DoAdd(r, base, b)
  BY <1>1 DEF feed, No
<1>6. [r EXCEPT !.pos = r.pos + 1] = s
  BY Zenon, <1>1, <1>2 DEF WithPos
<1>7. DoAdd(r, base, b) = Write(s, x, "CopyLen")
  BY Zenon, <1>1, <1>3, <1>4, <1>6 DEF DoAdd
<1>8. Write(s, x, "CopyLen")
      = Reading(IF n = 1 THEN "ReadVarint" ELSE "DoAdd", IF n = 1 THEN "CopyLen" ELSE "AddLen",
                0, 1, n - 1, pos + 1, Append(written, x))
  BY WriteIs DEF s, Adding
<1>9. CASE n = 1
  BY <1>5, <1>7, <1>8, <1>9 DEF r, x, AtNumber, InNumber
<1>10. CASE n # 1
  BY <1>5, <1>7, <1>8, <1>10 DEF r, x, Adding
<1>11. QED BY <1>9, <1>10

(* One more byte of t. *)
LEMMA OneMore ==
    ASSUME NEW t \in Seq(Bytes), NEW k \in Nat, k < Len(t), NEW written \in Seq(Bytes)
    PROVE  /\ t[k + 1] \in Bytes
           /\ SubSeq(t, 1, k) \in Seq(Bytes) /\ SubSeq(t, 1, k + 1) \in Seq(Bytes)
           /\ SubSeq(t, 1, k) \o <<t[k + 1]>> = SubSeq(t, 1, k + 1)
           /\ Append(written \o SubSeq(t, 1, k), t[k + 1]) = written \o SubSeq(t, 1, k + 1)
<1> DEFINE a == SubSeq(t, 1, k)
           b == t[k + 1]
<1>1. Len(t) \in Nat /\ 1 \in Int /\ k + 1 \in Int
  BY LenProperties
<1>2. b \in Bytes /\ \A i \in 1 .. k + 1 : t[i] \in Bytes
  BY <1>1, ElementOfSeq
<1>3. a \in Seq(Bytes) /\ SubSeq(t, 1, k + 1) \in Seq(Bytes)
  BY <1>1, <1>2, SubSeqProperties
<1>4. SubSeq(t, 1, k + 1) = a \o <<b>>
  <2>1. 1 \in 1 .. Len(t) /\ k + 1 \in 1 .. Len(t) /\ (k + 1) - 1 = k
    BY <1>1
  <2>2. SubSeq(t, 1, k + 1) = SubSeq(t, 1, (k + 1) - 1) \o <<t[k + 1]>>
    BY <2>1, SubSeqRecursiveSecond
  <2>3. QED BY <2>1, <2>2
<1> HIDE DEF a, b
<1>5. <<b>> \in Seq(Bytes) /\ written \o a \in Seq(Bytes)
  BY <1>2, <1>3, ConcatProperties
<1>6. Append(written \o a, b) = (written \o a) \o <<b>>
  BY <1>2, <1>5, AppendIsConcat
<1>7. (written \o a) \o <<b>> = written \o (a \o <<b>>)
  <2> DEFINE one == <<b>>
  <2>1. one \in Seq(Bytes)
    BY <1>5
  <2> HIDE DEF one
  <2>2. Joins(written, a, one)
    BY <1>3, <2>1, JoinedEitherWay
  <2>3. QED BY <2>2, Zenon DEF Joins, one
<1>8. QED BY <1>2, <1>3, <1>4, <1>6, <1>7 DEF a, b

LEMMA CopyWindow ==
    ASSUME NEW base, NEW pos, NEW written \in Seq(Bytes), NEW s \in Seq(Bytes), s # <<>>
    PROVE  Leads(base, Copying(Len(s), pos, written), s, AtNumber("Seek", pos, written \o s))
<1> DEFINE n == Len(s)
           from == Copying(n, pos, written)
           S == {k \in Nat : k < n => Leads(base, from, SubSeq(s, 1, k),
                                            Copying(n - k, pos, written \o SubSeq(s, 1, k)))}
<1>1. n \in Nat \ {0}
  BY EmptySeq
<1>2. 0 \in S
  <2>1. SubSeq(s, 1, 0) = <<>>
    BY SubSeqEmpty
  <2>2. written \o <<>> = written /\ n - 0 = n
    BY <1>1, ConcatEmptySeq
  <2>3. Leads(base, from, <<>>, from)
    BY LeadsNowhere
  <2>4. QED BY <2>1, <2>2, <2>3
<1>3. \A k \in Nat : k < n /\ k \in S =>
          Leads(base, from, SubSeq(s, 1, k + 1),
                IF n - k = 1 THEN AtNumber("Seek", pos, written \o SubSeq(s, 1, k + 1))
                ELSE Copying(n - (k + 1), pos, written \o SubSeq(s, 1, k + 1)))
  <2> SUFFICES ASSUME NEW k \in Nat, k < n,
                      Leads(base, from, SubSeq(s, 1, k),
                            Copying(n - k, pos, written \o SubSeq(s, 1, k)))
               PROVE  Leads(base, from, SubSeq(s, 1, k + 1),
                            IF n - k = 1 THEN AtNumber("Seek", pos, written \o SubSeq(s, 1, k + 1))
                            ELSE Copying(n - (k + 1), pos, written \o SubSeq(s, 1, k + 1)))
    OBVIOUS
  <2> DEFINE b == s[k + 1]
             a == SubSeq(s, 1, k)
             a1 == SubSeq(s, 1, k + 1)
             mid == Copying(n - k, pos, written \o a)
             to == IF n - k = 1 THEN AtNumber("Seek", pos, written \o a1)
                   ELSE Copying(n - (k + 1), pos, written \o a1)
  <2>1. /\ b \in Bytes /\ a \in Seq(Bytes) /\ a \o <<b>> = a1
        /\ Append(written \o a, b) = written \o a1
    BY OneMore
  <2>2. n - k \in Nat /\ (n - k) - 1 = n - (k + 1)
    BY <1>1
  <2> HIDE DEF b, a, a1, n
  <2>3. feed(mid, base, b) = to
    <3>1. feed(mid, base, b) = IF n - k = 1 THEN AtNumber("Seek", pos, Append(written \o a, b))
                               ELSE Copying((n - k) - 1, pos, Append(written \o a, b))
      BY <2>2, CopyByte
    <3>2. QED BY <2>1, <2>2, <3>1
  <2>4. Leads(base, mid, <<b>>, to) /\ <<b>> \in Seq(Bytes)
    BY <2>1, <2>3, LeadsOne
  <2>5. Leads(base, from, a, mid)
    BY DEF a
  <2> HIDE DEF mid, to, from
  <2>6. Leads(base, from, a \o <<b>>, to)
    BY <2>1, <2>4, <2>5, LeadsOn
  <2>7. QED BY <2>1, <2>6 DEF to, a1
<1>4. \A k \in Nat : k \in S => k + 1 \in S
  <2> SUFFICES ASSUME NEW k \in Nat, k \in S, k + 1 < n PROVE k + 1 \in S
    BY <1>1
  <2>1. k < n /\ n - k # 1
    BY <1>1
  <2>2. Leads(base, from, SubSeq(s, 1, k + 1), Copying(n - (k + 1), pos, written \o SubSeq(s, 1, k + 1)))
    <3> HIDE DEF S
    <3>1. QED BY <1>3, <2>1
  <2>3. QED BY <2>2
<1>5. n - 1 \in Nat /\ n - 1 < n /\ n - (n - 1) = 1 /\ (n - 1) + 1 = n
  BY <1>1
<1>6. n - 1 \in S
  <2> HIDE DEF S
  <2>1. Nat \subseteq S
    BY <1>2, <1>4, SetInduction
  <2>2. QED BY <1>5, <2>1
<1>7. Leads(base, from, SubSeq(s, 1, n), AtNumber("Seek", pos, written \o SubSeq(s, 1, n)))
  <2> HIDE DEF S
  <2>1. QED BY <1>3, <1>5, <1>6
<1>8. SubSeq(s, 1, n) = s
  BY SubSeqFull
<1>9. QED BY <1>7, <1>8

(* What the reader makes of the differences s, from pos on in the old file. *)
Sums(base, pos, s) == [i \in 1 .. Len(s) |-> Plus(At(base, pos + i - 1), s[i])]

LEMMA SumsAreBytes ==
    ASSUME NEW base \in Seq(Bytes), NEW pos \in Nat, NEW s \in Seq(Bytes),
           pos + Len(s) <= Len(base)
    PROVE  /\ Sums(base, pos, s) \in Seq(Bytes) /\ Len(Sums(base, pos, s)) = Len(s)
           /\ \A k \in Nat : k < Len(s) =>
                 Sums(base, pos, s)[k + 1] = Plus(At(base, pos + k), s[k + 1])
<1> DEFINE n == Len(s)
           sum(i) == Plus(At(base, pos + i - 1), s[i])
           t == [i \in 1 .. n |-> sum(i)]
<1>1. n \in Nat /\ Len(base) \in Nat
  BY LenProperties
<1>2. \A i \in 1 .. n : sum(i) \in Bytes
  <2> SUFFICES ASSUME NEW i \in 1 .. n PROVE sum(i) \in Bytes
    OBVIOUS
  <2>1. s[i] \in Bytes
    BY ElementOfSeq
  <2>2. pos + i - 1 + 1 \in 1 .. Len(base)
    BY <1>1
  <2>3. At(base, pos + i - 1) \in Bytes
    BY <2>2, ElementOfSeq DEF At
  <2>4. QED BY <2>1, <2>3, SumOfBytes
<1>3. \A k \in Nat : k < n => k + 1 \in 1 .. n /\ pos + (k + 1) - 1 = pos + k
  BY <1>1
<1>4. \A k \in Nat : k < n => sum(k + 1) = Plus(At(base, pos + k), s[k + 1])
  BY <1>3
<1> HIDE DEF sum, n
<1>5. t \in Seq(Bytes) /\ Len(t) = n /\ \A k \in Nat : k < n => t[k + 1] = sum(k + 1)
  BY <1>1, <1>2, <1>3
<1>6. t = Sums(base, pos, s)
  BY Zenon DEF Sums, sum, n
<1> HIDE DEF t
<1>7. QED BY <1>4, <1>5, <1>6 DEF n

LEMMA AddWindow ==
    ASSUME NEW base \in Seq(Bytes), NEW pos \in Nat, NEW written \in Seq(Bytes),
           NEW s \in Seq(Bytes), s # <<>>, pos + Len(s) <= Len(base)
    PROVE  Leads(base, Adding(Len(s), pos, written), s,
                 AtNumber("CopyLen", pos + Len(s), written \o Sums(base, pos, s)))
<1> DEFINE n == Len(s)
           t == Sums(base, pos, s)
           from == Adding(n, pos, written)
           S == {k \in Nat : k < n => Leads(base, from, SubSeq(s, 1, k),
                                            Adding(n - k, pos + k, written \o SubSeq(t, 1, k)))}
<1>1. n \in Nat \ {0} /\ Len(base) \in Nat
  BY EmptySeq, LenProperties
<1>10. t \in Seq(Bytes) /\ Len(t) = n /\ \A k \in Nat : k < n => t[k + 1] = Plus(At(base, pos + k), s[k + 1])
  BY SumsAreBytes
<1> HIDE DEF t
<1>2. 0 \in S
  <2>1. SubSeq(s, 1, 0) = <<>> /\ SubSeq(t, 1, 0) = <<>>
    BY SubSeqEmpty
  <2>2. written \o <<>> = written /\ n - 0 = n /\ pos + 0 = pos
    BY <1>1, ConcatEmptySeq
  <2>3. Leads(base, from, <<>>, from)
    BY LeadsNowhere
  <2>4. QED BY <2>1, <2>2, <2>3
<1>3. \A k \in Nat : k < n /\ k \in S =>
          Leads(base, from, SubSeq(s, 1, k + 1),
                IF n - k = 1 THEN AtNumber("CopyLen", pos + k + 1, written \o SubSeq(t, 1, k + 1))
                ELSE Adding(n - (k + 1), pos + k + 1, written \o SubSeq(t, 1, k + 1)))
  <2> SUFFICES ASSUME NEW k \in Nat, k < n,
                      Leads(base, from, SubSeq(s, 1, k),
                            Adding(n - k, pos + k, written \o SubSeq(t, 1, k)))
               PROVE  Leads(base, from, SubSeq(s, 1, k + 1),
                            IF n - k = 1 THEN AtNumber("CopyLen", pos + k + 1, written \o SubSeq(t, 1, k + 1))
                            ELSE Adding(n - (k + 1), pos + k + 1, written \o SubSeq(t, 1, k + 1)))
    OBVIOUS
  <2> DEFINE b == s[k + 1]
             a == SubSeq(s, 1, k)
             a1 == SubSeq(s, 1, k + 1)
             c == t[k + 1]
             w == written \o SubSeq(t, 1, k)
             w1 == written \o SubSeq(t, 1, k + 1)
             mid == Adding(n - k, pos + k, w)
             to == IF n - k = 1 THEN AtNumber("CopyLen", pos + k + 1, w1)
                   ELSE Adding(n - (k + 1), pos + k + 1, w1)
  <2>1. /\ b \in Bytes /\ a \in Seq(Bytes) /\ a \o <<b>> = a1
    BY OneMore
  <2>2. /\ n - k \in Nat /\ (n - k) - 1 = n - (k + 1) /\ pos + k \in Nat /\ pos + k < Len(base)
        /\ c = Plus(At(base, pos + k), b)
    BY <1>1, <1>10
  <2>8. Append(w, c) = w1
    <3>1. k < Len(t)
      BY <1>10
    <3>2. QED BY <1>10, <3>1, OneMore
  <2> HIDE DEF b, c, a, a1, n, w, w1
  <2>3. feed(mid, base, b) = to
    <3>1. feed(mid, base, b) = IF n - k = 1 THEN AtNumber("CopyLen", pos + k + 1, Append(w, c))
                               ELSE Adding((n - k) - 1, pos + k + 1, Append(w, c))
      BY <2>1, <2>2, AddByte
    <3>2. QED BY <2>2, <2>8, <3>1
  <2>4. Leads(base, mid, <<b>>, to) /\ <<b>> \in Seq(Bytes)
    BY <2>1, <2>3, LeadsOne
  <2>5. Leads(base, from, a, mid)
    BY DEF a, w
  <2> HIDE DEF mid, to, from
  <2>6. Leads(base, from, a \o <<b>>, to)
    BY <2>1, <2>4, <2>5, LeadsOn
  <2>7. QED BY <2>1, <2>6 DEF to, a1, w1
<1>4. \A k \in Nat : k \in S => k + 1 \in S
  <2> SUFFICES ASSUME NEW k \in Nat, k \in S, k + 1 < n PROVE k + 1 \in S
    BY <1>1
  <2>1. k < n /\ n - k # 1
    BY <1>1
  <2>2. Leads(base, from, SubSeq(s, 1, k + 1), Adding(n - (k + 1), pos + k + 1, written \o SubSeq(t, 1, k + 1)))
    <3> HIDE DEF S
    <3>1. QED BY <1>3, <2>1
  <2>3. QED BY <2>2
<1>5. n - 1 \in Nat /\ n - 1 < n /\ n - (n - 1) = 1 /\ (n - 1) + 1 = n
      /\ pos + (n - 1) + 1 = pos + n
  BY <1>1
<1>6. n - 1 \in S
  <2> HIDE DEF S
  <2>1. Nat \subseteq S
    BY <1>2, <1>4, SetInduction
  <2>2. QED BY <1>5, <2>1
<1>7. Leads(base, from, SubSeq(s, 1, n), AtNumber("CopyLen", pos + n, written \o SubSeq(t, 1, n)))
  <2> HIDE DEF S
  <2>1. QED BY <1>3, <1>5, <1>6
<1>8. SubSeq(s, 1, n) = s /\ SubSeq(t, 1, n) = t
  BY <1>10, SubSeqFull
<1>9. QED BY <1>7, <1>8 DEF t

-----------------------------------------------------------------------------
(***************************************************************************)
(* An entry, and a body.                                                   *)
(***************************************************************************)
LEMMA AddPart ==
    ASSUME NEW base \in Seq(Bytes), NEW pos \in Nat, NEW written \in Seq(Bytes),
           NEW s \in Seq(Bytes), pos + Len(s) <= Len(base), 1 < Word, Len(s) < Word
    PROVE  /\ uvarint[Len(s)] \in Seq(Bytes) /\ written \o Sums(base, pos, s) \in Seq(Bytes)
           /\ Leads(base, AtNumber("AddLen", pos, written), uvarint[Len(s)] \o s,
                    AtNumber("CopyLen", pos + Len(s), written \o Sums(base, pos, s)))
<1> DEFINE n == Len(s)
           from == AtNumber("AddLen", pos, written)
           to == AtNumber("CopyLen", pos + n, written \o Sums(base, pos, s))
<1>1. n \in Nat
  BY LenProperties
<1>2. Sums(base, pos, s) \in Seq(Bytes) /\ Len(Sums(base, pos, s)) = n
  BY SumsAreBytes
<1>3. uvarint[n] \in Seq(Bytes) /\ Leads(base, from, uvarint[n], on_varint(from, base, n))
  BY <1>1, NumberIsRead
<1>4. written \o Sums(base, pos, s) \in Seq(Bytes)
  BY <1>2, ConcatProperties
<1>5. Leads(base, on_varint(from, base, n), s, to)
  <2>1. CASE s = <<>>
    <3>1. n = 0 /\ pos + n = pos
      BY <2>1, EmptySeq
    <3>2. Sums(base, pos, s) = <<>> /\ written \o <<>> = written
      BY <1>2, <3>1, EmptySeq, ConcatEmptySeq
    <3>3. on_varint(from, base, n) = to
      BY <1>1, <3>1, <3>2, LengthStarts
    <3>4. QED BY <2>1, <3>3, LeadsNowhere
  <2>2. CASE s # <<>>
    <3>1. n # 0
      BY <2>2, EmptySeq
    <3>2. on_varint(from, base, n) = Adding(n, pos, written)
      BY <1>1, <3>1, LengthStarts
    <3>3. QED BY <2>2, <3>2, AddWindow
  <2>3. QED BY <2>1, <2>2
<1> HIDE DEF from, to, n
<1>6. Leads(base, from, uvarint[n] \o s, to)
  BY <1>3, <1>5, LeadsOn
<1>7. QED BY <1>3, <1>4, <1>6 DEF from, to, n

LEMMA CopyPart ==
    ASSUME NEW base, NEW pos, NEW written \in Seq(Bytes), NEW s \in Seq(Bytes),
           1 < Word, Len(s) < Word
    PROVE  /\ uvarint[Len(s)] \in Seq(Bytes) /\ written \o s \in Seq(Bytes)
           /\ Leads(base, AtNumber("CopyLen", pos, written), uvarint[Len(s)] \o s,
                    AtNumber("Seek", pos, written \o s))
<1> DEFINE n == Len(s)
           from == AtNumber("CopyLen", pos, written)
           to == AtNumber("Seek", pos, written \o s)
<1>1. n \in Nat
  BY LenProperties
<1>2. uvarint[n] \in Seq(Bytes) /\ Leads(base, from, uvarint[n], on_varint(from, base, n))
  BY <1>1, NumberIsRead
<1>3. written \o s \in Seq(Bytes)
  BY ConcatProperties
<1>4. Leads(base, on_varint(from, base, n), s, to)
  <2>1. CASE s = <<>>
    <3>1. n = 0
      BY <2>1, EmptySeq
    <3>2. written \o <<>> = written
      BY ConcatEmptySeq
    <3>3. on_varint(from, base, n) = to
      BY <1>1, <2>1, <3>1, <3>2, LengthStarts
    <3>4. QED BY <2>1, <3>3, LeadsNowhere
  <2>2. CASE s # <<>>
    <3>1. n # 0
      BY <2>2, EmptySeq
    <3>2. on_varint(from, base, n) = Copying(n, pos, written)
      BY <1>1, <3>1, LengthStarts
    <3>3. QED BY <2>2, <3>2, CopyWindow
  <2>3. QED BY <2>1, <2>2
<1> HIDE DEF from, to, n
<1>5. Leads(base, from, uvarint[n] \o s, to)
  BY <1>2, <1>4, LeadsOn
<1>6. QED BY <1>2, <1>3, <1>5 DEF from, to, n

LEMMA SeekPart ==
    ASSUME NEW base, NEW pos \in Nat, NEW written, NEW s \in Int, pos + s \in 0 .. Len(base),
           1 < Word, Zigzag(s) < Word
    PROVE  /\ emit_svarint(s) \in Seq(Bytes)
           /\ Leads(base, AtNumber("Seek", pos, written), emit_svarint(s),
                    AtNumber("AddLen", pos + s, written))
<1>1. Zigzag(s) \in Nat
  BY ZigzagUndone
<1>2. emit_svarint(s) = uvarint[Zigzag(s)]
  BY DEF emit_svarint, emit_uvarint, Zigzag
<1>3. on_varint(AtNumber("Seek", pos, written), base, Zigzag(s)) = AtNumber("AddLen", pos + s, written)
  BY SeekEnds
<1>4. QED BY <1>1, <1>2, <1>3, NumberIsRead

(* What an entry asks of the reader: windows in the old file, and numbers that fit the word. *)
Readable(base, pos, e) ==
    /\ e.add \in Seq(Bytes) /\ e.copy \in Seq(Bytes) /\ e.seek \in Int
    /\ pos + Len(e.add) <= Len(base) /\ pos + Len(e.add) + e.seek \in 0 .. Len(base)
    /\ 1 < Word /\ Len(e.add) < Word /\ Len(e.copy) < Word /\ Zigzag(e.seek) < Word

LEMMA EntryIsRead ==
    ASSUME NEW base \in Seq(Bytes), NEW pos \in Nat, NEW written \in Seq(Bytes), NEW e,
           Readable(base, pos, e)
    PROVE  /\ emit_loop(e) \in Seq(Bytes)
           /\ Leads(base, AtNumber("AddLen", pos, written), emit_loop(e),
                    AtNumber("AddLen", pos + Len(e.add) + e.seek,
                             (written \o Sums(base, pos, e.add)) \o e.copy))
<1> DEFINE a == uvarint[Len(e.add)]
           c == uvarint[Len(e.copy)]
           s == emit_svarint(e.seek)
           at == pos + Len(e.add)
           w1 == written \o Sums(base, pos, e.add)
           w2 == w1 \o e.copy
           r0 == AtNumber("AddLen", pos, written)
           r1 == AtNumber("CopyLen", at, w1)
           r2 == AtNumber("Seek", at, w2)
           r3 == AtNumber("AddLen", at + e.seek, w2)
<1>1. /\ e.add \in Seq(Bytes) /\ e.copy \in Seq(Bytes) /\ e.seek \in Int
      /\ at <= Len(base) /\ at + e.seek \in 0 .. Len(base)
      /\ 1 < Word /\ Len(e.add) < Word /\ Len(e.copy) < Word /\ Zigzag(e.seek) < Word
  BY DEF Readable
<1>2. at \in Nat
  BY <1>1, LenProperties
<1>3. a \in Seq(Bytes) /\ w1 \in Seq(Bytes) /\ Leads(base, r0, a \o e.add, r1)
  BY <1>1, AddPart
<1> HIDE DEF w1
<1>4. c \in Seq(Bytes) /\ w2 \in Seq(Bytes) /\ Leads(base, r1, c \o e.copy, r2)
  BY <1>1, <1>3, CopyPart
<1> HIDE DEF w2, at
<1>5. s \in Seq(Bytes) /\ Leads(base, r2, s, r3)
  BY <1>1, <1>2, SeekPart
<1>6. emit_loop(e) = (((a \o e.add) \o c) \o e.copy) \o s
  BY Zenon DEF emit_loop, emit_uvarint
<1> HIDE DEF a, c, s, r0, r1, r2, r3
<1>7. a \o e.add \in Seq(Bytes) /\ c \o e.copy \in Seq(Bytes)
  BY <1>1, <1>3, <1>4, ConcatProperties
<1>8. (a \o e.add) \o (c \o e.copy) = ((a \o e.add) \o c) \o e.copy
  <2> DEFINE x == a \o e.add
             z == e.copy
  <2>1. x \in Seq(Bytes) /\ c \in Seq(Bytes) /\ z \in Seq(Bytes)
    BY <1>1, <1>4, <1>7
  <2> HIDE DEF x, z
  <2>2. Joins(x, c, z)
    BY <2>1, JoinedEitherWay
  <2>3. QED BY <2>2, Zenon DEF Joins, x, z
<1>9. /\ (a \o e.add) \o (c \o e.copy) \in Seq(Bytes)
      /\ Leads(base, r0, (a \o e.add) \o (c \o e.copy), r2)
  BY <1>3, <1>4, <1>7, LeadsOn
<1>10. /\ ((a \o e.add) \o (c \o e.copy)) \o s \in Seq(Bytes)
       /\ Leads(base, r0, ((a \o e.add) \o (c \o e.copy)) \o s, r3)
  BY <1>5, <1>9, LeadsOn
<1>11. QED BY <1>6, <1>8, <1>10 DEF r0, r3, w1, w2, at

LEMMA EmptyBodyIsRead ==
    ASSUME NEW base
    PROVE  /\ Body(<<>>) \in Seq(Bytes)
           /\ Read(base, Body(<<>>)) = AtNumber("AddLen", 0, <<>>)
<1>1. Body(<<>>) = Header /\ Header \in Seq(Bytes) /\ Read(base, <<>>) = NewReader
      /\ Leads(base, NewReader, Header, AtNumber("AddLen", 0, <<>>))
  BY BodyEmpty, HeaderIsRead, ReadEmpty
<1>2. <<>> \in Seq(Bytes) /\ <<>> \o Header = Header
  BY <1>1, EmptySeq, ConcatEmptySeq
<1>3. Read(base, <<>> \o Header) = AtNumber("AddLen", 0, <<>>)
  BY <1>1, <1>2 DEF Leads
<1>4. QED BY <1>1, <1>2, <1>3

(* One more entry: the reader gets from its boundary to the next. *)
LEMMA BodyGrows ==
    ASSUME NEW base \in Seq(Bytes), NEW E, NEW es \in Seq(E), NEW e \in E,
           NEW pos \in Nat, NEW written \in Seq(Bytes), Readable(base, pos, e),
           Body(es) \in Seq(Bytes), Read(base, Body(es)) = AtNumber("AddLen", pos, written)
    PROVE  /\ Body(Append(es, e)) \in Seq(Bytes)
           /\ Read(base, Body(Append(es, e)))
              = AtNumber("AddLen", pos + Len(e.add) + e.seek,
                         (written \o Sums(base, pos, e.add)) \o e.copy)
<1>1. Body(Append(es, e)) = Body(es) \o emit_loop(e)
  BY BodyAppend
<1>2. /\ emit_loop(e) \in Seq(Bytes)
      /\ Leads(base, AtNumber("AddLen", pos, written), emit_loop(e),
               AtNumber("AddLen", pos + Len(e.add) + e.seek,
                        (written \o Sums(base, pos, e.add)) \o e.copy))
  BY EntryIsRead
<1>3. Body(es) \o emit_loop(e) \in Seq(Bytes)
  BY <1>2, ConcatProperties
<1>4. QED BY <1>1, <1>2, <1>3 DEF Leads

(* At a boundary the reader accepts the end of a patch. *)
LEMMA BoundaryIsAccepted ==
    ASSUME NEW pos, NEW written, NEW r, r = AtNumber("AddLen", pos, written)
    PROVE  finalize(r) /\ ~r.undefined /\ r.out = written /\ r.pos = pos
<1>1. /\ r.had_error = No /\ r.undefined = No /\ r.stage = "ReadVarint" /\ r.target = "AddLen"
      /\ r.out = written /\ r.pos = pos
  BY FieldsOf DEF AtNumber, InNumber
<1>2. QED BY <1>1 DEF finalize, No
=============================================================================
