-------------------------------- MODULE Lemmas --------------------------------
(***************************************************************************)
(* Facts about numbers and finite sets that the proofs of several parts    *)
(* of the compiler need.                                                   *)
(***************************************************************************)
EXTENDS Integers, FiniteSets, Sequences, FiniteSetTheorems, SequenceTheorems,
        WellFoundedInduction, TLAPS

\* A nonempty set of naturals has a least element, the one that is chosen.
LEMMA LeastNatural ==
    ASSUME NEW S \in SUBSET Nat, S # {}
    PROVE  \E m \in S : /\ \A k \in S : m <= k
                        /\ m = CHOOSE l \in S : \A k \in S : l <= k
<1> DEFINE R == {p \in Nat \X Nat : p[1] < p[2]}
<1>0. IsWellFoundedOn(R, Nat)
  BY NatLessThanWellFounded, Zenon DEF OpToRel
<1> HIDE DEF R
<1>1. PICK m \in S : \A k \in S : ~(<<k, m>> \in R)
  BY <1>0, WFMin
<1>2. \A k \in S : m <= k
  <2> SUFFICES ASSUME NEW k \in S PROVE ~(k < m)
    OBVIOUS
  <2>1. <<k, m>> \in Nat \X Nat /\ <<k, m>>[1] = k /\ <<k, m>>[2] = m
    OBVIOUS
  <2>2. k < m => <<k, m>> \in R
    BY <2>1 DEF R
  <2> QED
    BY <1>1, <2>2
<1>3. \A l \in S : (\A k \in S : l <= k) => l = m
  BY <1>2
<1> QED
  BY <1>2, <1>3

\* A set of more than one element has two different ones.
LEMMA TwoElements ==
    ASSUME NEW S, Cardinality(S) > 1
    PROVE  \E a, b \in S : a # b
<1> SUFFICES ASSUME \A a, b \in S : a = b PROVE FALSE
  OBVIOUS
<1>1. CASE S = {}
  BY <1>1, FS_EmptySet
<1>2. CASE S # {}
  <2>1. PICK a \in S : TRUE
    BY <1>2
  <2>2. S = {a}
    BY <2>1
  <2> QED
    BY <2>2, FS_Singleton
<1> QED
  BY <1>1, <1>2

\* A function of a finite set into itself that takes no value twice takes every value.
LEMMA InjectionIsOnto ==
    ASSUME NEW S, IsFiniteSet(S), NEW f \in [S -> S],
           \A x, y \in S : f[x] = f[y] => x = y
    PROVE  \A z \in S : \E x \in S : f[x] = z
<1> SUFFICES ASSUME NEW z \in S, \A x \in S : f[x] # z PROVE FALSE
  OBVIOUS
<1>1. f \in [S -> S \ {z}]
  OBVIOUS
<1>2. IsFiniteSet(S \ {z}) /\ Cardinality(S \ {z}) = Cardinality(S) - 1
  BY FS_RemoveElement
<1>3. Cardinality(S) \in Nat
  BY FS_CardinalityType
<1>4. Cardinality(S \ {z}) < Cardinality(S)
  BY <1>2, <1>3
<1> QED
  BY <1>1, <1>2, <1>4, FS_PigeonHole

\* Division leaves a remainder smaller than the divisor.
LEMMA DivMod ==
    ASSUME NEW x \in Int, NEW n \in Nat \ {0}
    PROVE  /\ x \div n \in Int /\ x % n \in 0..n - 1
           /\ x % n = x - n * (x \div n)
<1>1. x % n = x - n * (x \div n)
  BY Z3
<1>2. x \div n \in Int /\ x % n \in 0..n - 1
  OBVIOUS
<1> QED
  BY <1>1, <1>2, Zenon

\* Of the multiples of n only 0 is smaller than n.
LEMMA Multiple ==
    ASSUME NEW n \in Nat \ {0}, NEW d \in Int, n * d < n, -n < n * d
    PROVE  d = 0
<1>1. CASE d >= 1
  <2>1. n * d >= n
    BY <1>1
  <2> QED
    BY <2>1
<1>2. CASE d <= -1
  <2>1. n * d <= -n
    BY <1>2
  <2> QED
    BY <2>1
<1> QED
  BY <1>1, <1>2

\* The remainder is determined by that.
LEMMA ModUnique ==
    ASSUME NEW n \in Nat \ {0}, NEW q \in Int, NEW r \in 0..n - 1
    PROVE  (n * q + r) % n = r
<1> DEFINE x == n * q + r
           p == x \div n
           s == x % n
<1>1. x \in Int /\ x = n * q + r
  OBVIOUS
<1> HIDE DEF x
<1>2. p \in Int /\ s \in 0..n - 1 /\ s = x - n * p
  BY <1>1, DivMod, Zenon
<1> HIDE DEF p, s
<1>3. n * (q - p) = s - r
  BY <1>1, <1>2
<1>4. s - r < n /\ -n < s - r
  BY <1>2
<1>5. q - p = 0
  BY <1>2, <1>3, <1>4, Multiple
<1>6. s = r
  BY <1>1, <1>2, <1>5
<1> QED
  BY <1>6 DEF s, x

\* The function satisfies the definition by recursion that stops in the set `stop' with a
\* value of `val' and goes on elsewhere.
Solves(N, stop, val, step, fun) ==
    fun = [o \in 0..N |-> IF o \in stop THEN val[o] ELSE fun[step[o]]]

\* A recursion that goes on with greater numbers up to N defines a function.
LEMMA UpwardRecursion ==
    ASSUME NEW N \in Nat, NEW stop, NEW val, NEW step,
           \A o \in 0..N : o \notin stop => step[o] \in 0..N /\ step[o] > o
    PROVE  \E fun : Solves(N, stop, val, step, fun)
<1> DEFINE Fits(n, fun) ==
             /\ fun = [o \in n..N |-> fun[o]]
             /\ \A o \in n..N : fun[o] = IF o \in stop THEN val[o] ELSE fun[step[o]]
           bad == {m \in 0..N : ~ \E fun : Fits(N - m, fun)}
<1>1. bad = {}
  <2> SUFFICES ASSUME bad # {} PROVE FALSE
    OBVIOUS
  <2>1. bad \in SUBSET Nat
    OBVIOUS
  <2>2. PICK m \in bad : \A k \in bad : m <= k
    BY <2>1, LeastNatural
  <2> DEFINE n == N - m
  <2>3. m \in Nat /\ m <= N /\ n \in 0..N
    BY <2>2
  <2>4. ~ \E fun : Fits(n, fun)
    BY <2>2
  <2>5. CASE m = 0
    <3> DEFINE fun == [o \in n..N |-> val[o]]
    <3>1. n = N /\ n..N = {N}
      BY <2>3, <2>5
    <3>2. N \in stop
      BY <2>3
    <3>3. Fits(n, fun)
      BY <3>1, <3>2
    <3> QED
      BY <2>4, <3>3
  <2>6. CASE m # 0
    <3>1. m - 1 \in 0..N /\ N - (m - 1) = n + 1 /\ m - 1 \notin bad
      BY <2>2, <2>3, <2>6
    <3>2. PICK g : Fits(n + 1, g)
      BY <3>1
    <3> DEFINE fun == [o \in n..N |-> IF o # n THEN g[o] ELSE IF n \in stop THEN val[n] ELSE g[step[n]]]
    <3>3. \A o \in n..N : o # n => o \in (n + 1)..N
      BY <2>3
    <3>4. \A o \in n..N : o \notin stop => step[o] \in (n + 1)..N /\ step[o] \in n..N /\ step[o] # n
      BY <2>3
    <3>5. \A o \in (n + 1)..N : g[o] = IF o \in stop THEN val[o] ELSE g[step[o]]
      BY <3>2
    <3>6. ASSUME NEW o \in n..N PROVE fun[o] = IF o \in stop THEN val[o] ELSE fun[step[o]]
      <4> HIDE DEF n
      <4>1. o \notin stop => fun[step[o]] = g[step[o]]
        BY <3>4
      <4>2. o # n => fun[o] = g[o]
        OBVIOUS
      <4>3. o = n => fun[o] = IF o \in stop THEN val[o] ELSE g[step[o]]
        OBVIOUS
      <4> QED
        BY <3>3, <3>5, <4>1, <4>2, <4>3
    <3>7. fun = [o \in n..N |-> fun[o]]
      OBVIOUS
    <3>8. Fits(n, fun)
      BY <3>6, <3>7
    <3> QED
      BY <2>4, <3>8
  <2> QED
    BY <2>5, <2>6
<1>2. N \in 0..N /\ N - N = 0
  OBVIOUS
<1>3. PICK fun : Fits(0, fun)
  BY <1>1, <1>2
<1>4. fun = [o \in 0..N |-> IF o \in stop THEN val[o] ELSE fun[step[o]]]
  BY <1>3
<1> QED
  BY <1>4 DEF Solves

\* Induction from N down to 0.
LEMMA DownwardInduction ==
    ASSUME NEW N \in Nat, NEW S, \A o \in 0..N : (\A q \in (o + 1)..N : q \in S) => o \in S
    PROVE  0..N \subseteq S
<1> DEFINE bad == {d \in 0..N : N - d \notin S}
<1>1. bad = {}
  <2> SUFFICES ASSUME bad # {} PROVE FALSE
    OBVIOUS
  <2>1. PICK d \in bad : \A e \in bad : d <= e
    <3>1. bad \in SUBSET Nat
      OBVIOUS
    <3> QED
      BY <3>1, LeastNatural
  <2>2. d \in 0..N /\ N - d \in 0..N /\ N - d \notin S
    OBVIOUS
  <2>3. ASSUME NEW q \in (N - d + 1)..N PROVE q \in S
    <3>1. N - q \in 0..N /\ N - q < d /\ N - (N - q) = q
      BY <2>2
    <3>2. N - q \notin bad
      BY <2>1, <2>2, <3>1
    <3> QED
      BY <3>1, <3>2
  <2> QED
    BY <2>2, <2>3
<1>2. ASSUME NEW o \in 0..N PROVE o \in S
  <2>1. N - o \in 0..N /\ N - (N - o) = o
    OBVIOUS
  <2> QED
    BY <1>1, <2>1
<1> QED
  BY <1>2

\* The union of finitely many finite sets.
LEMMA FiniteUnion ==
    ASSUME NEW S, IsFiniteSet(S), NEW f, DOMAIN f = S, \A x \in S : IsFiniteSet(f[x])
    PROVE  IsFiniteSet(UNION {f[x] : x \in S})
<1> DEFINE T == {f[x] : x \in S}
           g == [x \in S |-> f[x]]
<1>1. g \in Surjection(S, T)
  BY DEF Surjection
<1>2. IsFiniteSet(T)
  BY <1>1, FS_Surjection
<1> QED
  BY <1>2, FS_UNION

\* A stack without its topmost element.
LEMMA WithoutTop ==
    ASSUME NEW F, NEW fs \in Seq(F), fs # <<>>
    PROVE  /\ SubSeq(fs, 1, Len(fs) - 1) \in Seq(F)
           /\ Len(SubSeq(fs, 1, Len(fs) - 1)) = Len(fs) - 1
           /\ \A k \in 1..(Len(fs) - 1) : SubSeq(fs, 1, Len(fs) - 1)[k] = fs[k]
           /\ Len(fs) \in Nat \ {0} /\ fs[Len(fs)] \in F
<1> DEFINE n == Len(fs)
<1>1. n \in Nat \ {0} /\ fs[n] \in F
  OBVIOUS
<1>2. \A i \in 1..(n - 1) : fs[i] \in F
  OBVIOUS
<1> HIDE DEF n
<1>3. n - 1 \in Int
  BY <1>1
<1>4. /\ SubSeq(fs, 1, n - 1) \in Seq(F)
      /\ Len(SubSeq(fs, 1, n - 1)) = IF 1 <= n - 1 THEN n - 1 - 1 + 1 ELSE 0
      /\ \A i \in 1..(n - 1 - 1 + 1) : SubSeq(fs, 1, n - 1)[i] = fs[1 + i - 1]
  BY <1>1, <1>2, <1>3, SubSeqProperties
<1>5. Len(SubSeq(fs, 1, n - 1)) = n - 1
  BY <1>1, <1>4
<1>6. \A i \in 1..(n - 1) : SubSeq(fs, 1, n - 1)[i] = fs[i]
  BY <1>1, <1>4
<1> QED
  BY <1>1, <1>4, <1>5, <1>6 DEF n

\* g is u, of n - 1 elements, followed by the m elements of v.
Joined(g, u, v, n, m) ==
    \A i \in 1..(n - 1 + m) : g[i] = IF i <= n - 1 THEN u[i] ELSE v[i - (n - 1)]

\* The elements of two sequences, one behind the other.
LEMMA JoinedElements ==
    ASSUME NEW n \in Nat \ {0}, NEW m \in Nat, NEW fs, NEW u, NEW new, NEW gs,
           \A k \in 1..(n - 1) : u[k] = fs[k],
           Joined(gs, u, new, n, m)
    PROVE  /\ \A k \in 1..(n - 1) : gs[k] = fs[k]
           /\ 1 <= m => gs[n] = new[1]
           /\ 2 <= m => gs[n + 1] = new[2]
           /\ 3 <= m => gs[n + 2] = new[3]
<1>1. \A k \in 1..(n - 1) : gs[k] = fs[k]
  BY DEF Joined
<1>2. \A k \in 1..m : gs[n - 1 + k] = new[k]
  <2> TAKE k \in 1..m
  <2>1. n - 1 + k \in 1..(n - 1 + m) /\ ~(n - 1 + k <= n - 1) /\ n - 1 + k - (n - 1) = k
    OBVIOUS
  <2> QED
    BY <2>1 DEF Joined
<1>3. n - 1 + 1 = n /\ n - 1 + 2 = n + 1 /\ n - 1 + 3 = n + 2
  OBVIOUS
<1>4. 1 <= m => gs[n - 1 + 1] = new[1]
  BY <1>2
<1>5. 2 <= m => gs[n - 1 + 2] = new[2]
  BY <1>2
<1>6. 3 <= m => gs[n - 1 + 3] = new[3]
  BY <1>2
<1> QED
  BY <1>1, <1>2, <1>3, <1>4, <1>5, <1>6

\* gs is fs with the elements of `new' in the place of the last.
WithTopReplaced(F, fs, new, gs) ==
    /\ Len(fs) \in Nat \ {0}
    /\ gs \in Seq(F) /\ Len(gs) = Len(fs) - 1 + Len(new)
    /\ \A k \in 1..(Len(fs) - 1) : gs[k] = fs[k]
    /\ 1 <= Len(new) => gs[Len(fs)] = new[1]
    /\ 2 <= Len(new) => gs[Len(fs) + 1] = new[2]
    /\ 3 <= Len(new) => gs[Len(fs) + 2] = new[3]

\* The calls `new' on top of those below the one that was on top.
LEMMA TopReplaced ==
    ASSUME NEW F, NEW fs \in Seq(F), fs # <<>>, NEW new \in Seq(F)
    PROVE  WithTopReplaced(F, fs, new, SubSeq(fs, 1, Len(fs) - 1) \o new)
<1> DEFINE u == SubSeq(fs, 1, Len(fs) - 1)
           g == u \o new
           n == Len(fs)
           m == Len(new)
<1>0. Len(new) \in Nat
  OBVIOUS
<1>1. u \in Seq(F) /\ Len(u) = n - 1 /\ n \in Nat \ {0} /\ \A k \in 1..(n - 1) : u[k] = fs[k]
  BY WithoutTop
<1> HIDE DEF u
<1>2. /\ u \o new \in Seq(F) /\ Len(u \o new) = Len(u) + Len(new)
      /\ \A i \in 1..(Len(u) + Len(new)) : (u \o new)[i] = IF i <= Len(u) THEN u[i] ELSE new[i - Len(u)]
  BY <1>1, ConcatProperties, Zenon
<1>3. Joined(g, u, new, n, m)
  BY <1>1, <1>2, Zenon DEF Joined
<1>4. n \in Nat \ {0} /\ m \in Nat /\ \A k \in 1..(n - 1) : u[k] = fs[k]
  BY <1>0, <1>1
<1> HIDE DEF g, n, m
<1>5. /\ \A k \in 1..(n - 1) : g[k] = fs[k]
      /\ 1 <= m => g[n] = new[1]
      /\ 2 <= m => g[n + 1] = new[2]
      /\ 3 <= m => g[n + 2] = new[3]
  BY <1>3, <1>4, JoinedElements, SMT
<1> QED
  BY <1>1, <1>2, <1>5, Zenon DEF WithTopReplaced, g, n, m, u

\* The topmost call of fs has been replaced by f; by f and g; by f, g and h.
BecameOne(F, fs, f, gs) ==
    /\ Len(fs) \in Nat \ {0}
    /\ gs \in Seq(F) /\ Len(gs) = Len(fs)
    /\ gs[Len(fs)] = f
    /\ \A k \in 1..(Len(fs) - 1) : gs[k] = fs[k]

\* TopBecomes with one call, ...
LEMMA TopBecomesOne ==
    ASSUME NEW F, NEW fs \in Seq(F), fs # <<>>, NEW f \in F,
           NEW gs, gs = SubSeq(fs, 1, Len(fs) - 1) \o <<f>>
    PROVE  BecameOne(F, fs, f, gs)
<1> DEFINE new == <<f>>
           n == Len(fs)
           u == SubSeq(fs, 1, Len(fs) - 1)
<1>1. new \in Seq(F) /\ Len(new) = 1 /\ new[1] = f
  OBVIOUS
<1>2. gs = u \o new
  OBVIOUS
<1> HIDE DEF new
<1>3. WithTopReplaced(F, fs, new, u \o new)
  BY <1>1, TopReplaced, Zenon
<1>4. n \in Nat \ {0} => n - 1 + 1 = n
  OBVIOUS
<1>5. 1 <= 1
  OBVIOUS
<1> HIDE DEF u
<1>6. /\ gs \in Seq(F) /\ Len(gs) = n - 1 + 1
      /\ \A k \in 1..(n - 1) : gs[k] = fs[k]
      /\ gs[n] = f
  BY <1>1, <1>2, <1>3, <1>5, Zenon DEF WithTopReplaced
<1> QED
  BY <1>3, <1>4, <1>6, Zenon DEF WithTopReplaced, BecameOne
BecameTwo(F, fs, f, g, gs) ==
    /\ Len(fs) \in Nat \ {0}
    /\ gs \in Seq(F) /\ Len(gs) = Len(fs) + 1
    /\ gs[Len(fs)] = f /\ gs[Len(fs) + 1] = g
    /\ \A k \in 1..(Len(fs) - 1) : gs[k] = fs[k]

\* ... with two, the call on top among them, ...
LEMMA TopBecomesTwo ==
    ASSUME NEW F, NEW fs \in Seq(F), fs # <<>>, NEW f \in F, NEW g \in F,
           NEW gs, gs = SubSeq(fs, 1, Len(fs) - 1) \o <<f, g>>
    PROVE  BecameTwo(F, fs, f, g, gs)
<1> DEFINE new == <<f, g>>
           n == Len(fs)
           u == SubSeq(fs, 1, Len(fs) - 1)
<1>1. new \in Seq(F) /\ Len(new) = 2 /\ new[1] = f /\ new[2] = g
  OBVIOUS
<1>2. gs = u \o new
  OBVIOUS
<1> HIDE DEF new
<1>3. WithTopReplaced(F, fs, new, u \o new)
  BY <1>1, TopReplaced, Zenon
<1>4. n \in Nat \ {0} => n - 1 + 2 = n + 1
  OBVIOUS
<1>5. 1 <= 2 /\ 2 <= 2
  OBVIOUS
<1> HIDE DEF u
<1>6. /\ gs \in Seq(F) /\ Len(gs) = n - 1 + 2
      /\ \A k \in 1..(n - 1) : gs[k] = fs[k]
      /\ gs[n] = f /\ gs[n + 1] = g
  BY <1>1, <1>2, <1>3, <1>5, Zenon DEF WithTopReplaced
<1> QED
  BY <1>3, <1>4, <1>6, Zenon DEF WithTopReplaced, BecameTwo
BecameThree(F, fs, f, g, h, gs) ==
    /\ Len(fs) \in Nat \ {0}
    /\ gs \in Seq(F) /\ Len(gs) = Len(fs) + 2
    /\ gs[Len(fs)] = f /\ gs[Len(fs) + 1] = g /\ gs[Len(fs) + 2] = h
    /\ \A k \in 1..(Len(fs) - 1) : gs[k] = fs[k]

\* ... and with three.
LEMMA TopBecomesThree ==
    ASSUME NEW F, NEW fs \in Seq(F), fs # <<>>, NEW f \in F, NEW g \in F, NEW h \in F,
           NEW gs, gs = SubSeq(fs, 1, Len(fs) - 1) \o <<f, g, h>>
    PROVE  BecameThree(F, fs, f, g, h, gs)
<1> DEFINE new == <<f, g, h>>
           n == Len(fs)
           u == SubSeq(fs, 1, Len(fs) - 1)
<1>1. new \in Seq(F) /\ Len(new) = 3 /\ new[1] = f /\ new[2] = g /\ new[3] = h
  OBVIOUS
<1>2. gs = u \o new
  OBVIOUS
<1> HIDE DEF new
<1>3. WithTopReplaced(F, fs, new, u \o new)
  BY <1>1, TopReplaced, Zenon
<1>4. n \in Nat \ {0} => n - 1 + 3 = n + 2
  OBVIOUS
<1>5. 1 <= 3 /\ 2 <= 3 /\ 3 <= 3
  OBVIOUS
<1> HIDE DEF u
<1>6. /\ gs \in Seq(F) /\ Len(gs) = n - 1 + 3
      /\ \A k \in 1..(n - 1) : gs[k] = fs[k]
      /\ gs[n] = f /\ gs[n + 1] = g /\ gs[n + 2] = h
  BY <1>1, <1>2, <1>3, <1>5, Zenon DEF WithTopReplaced
<1> QED
  BY <1>3, <1>4, <1>6, Zenon DEF WithTopReplaced, BecameThree

\* A list with a first element.
LEMMA ListParts ==
    ASSUME NEW N \in Nat, NEW list \in Seq(1..N), list # <<>>
    PROVE  /\ Head(list) \in 1..N /\ Head(list) = list[1] /\ 1 \in DOMAIN list
           /\ Tail(list) \in Seq(1..N) /\ Len(list) \in Nat \ {0}
           /\ DOMAIN list = 1..Len(list) /\ DOMAIN Tail(list) = 1..(Len(list) - 1)
           /\ \A i \in 1..(Len(list) - 1) : Tail(list)[i] = list[i + 1]
<1>1. /\ Head(list) \in 1..N /\ Tail(list) \in Seq(1..N) /\ Len(Tail(list)) = Len(list) - 1
      /\ \A i \in 1..Len(Tail(list)) : Tail(list)[i] = list[i + 1]
  BY HeadTailProperties
<1> QED
  BY <1>1

\* What holds of all elements holds of the first and of the others.
LEMMA SplitList ==
    ASSUME NEW N \in Nat, NEW list \in Seq(1..N), list # <<>>, NEW set
    PROVE  /\ (\A i \in DOMAIN list : list[i] \in set)
                 <=> Head(list) \in set /\ \A i \in DOMAIN Tail(list) : Tail(list)[i] \in set
           /\ (\E i \in DOMAIN list : list[i] \in set)
                 <=> Head(list) \in set \/ \E i \in DOMAIN Tail(list) : Tail(list)[i] \in set
<1> DEFINE n == Len(list)
<1>1. /\ Head(list) = list[1] /\ n \in Nat \ {0}
      /\ DOMAIN list = 1..n /\ DOMAIN Tail(list) = 1..(n - 1)
      /\ \A i \in 1..(n - 1) : Tail(list)[i] = list[i + 1]
  BY ListParts
<1> HIDE DEF n
<1>2. \A i \in 1..n : i = 1 \/ i - 1 \in 1..(n - 1)
  BY <1>1
<1>3. \A i \in 1..(n - 1) : i + 1 \in 1..n
  BY <1>1
<1>4. \A i \in 1..n : i # 1 => list[i] = Tail(list)[i - 1]
  BY <1>1
<1>5. 1 \in 1..n
  BY <1>1
<1>6. ASSUME \A i \in DOMAIN list : list[i] \in set
      PROVE  Head(list) \in set /\ \A i \in DOMAIN Tail(list) : Tail(list)[i] \in set
  BY <1>1, <1>3, <1>5, <1>6
<1>7. ASSUME Head(list) \in set, \A i \in DOMAIN Tail(list) : Tail(list)[i] \in set
      PROVE  \A i \in DOMAIN list : list[i] \in set
  BY <1>1, <1>2, <1>4, <1>7
<1>8. ASSUME NEW i \in DOMAIN list, list[i] \in set
      PROVE  Head(list) \in set \/ \E k \in DOMAIN Tail(list) : Tail(list)[k] \in set
  <2>1. CASE i = 1
    BY <1>1, <1>8, <2>1
  <2>2. CASE i # 1
    <3>1. i - 1 \in DOMAIN Tail(list) /\ Tail(list)[i - 1] \in set
      BY <1>1, <1>2, <1>4, <1>8, <2>2
    <3> QED
      BY <3>1
  <2> QED
    BY <2>1, <2>2
<1>9. ASSUME Head(list) \in set \/ \E k \in DOMAIN Tail(list) : Tail(list)[k] \in set
      PROVE  \E i \in DOMAIN list : list[i] \in set
  BY <1>1, <1>3, <1>5, <1>9
<1> QED
  BY <1>6, <1>7, <1>8, <1>9

\* The last of a sequence with one more element.
LEMMA AppendLast ==
    ASSUME NEW S, NEW s \in Seq(S), NEW e \in S
    PROVE  /\ Append(s, e) # <<>> /\ Append(s, e)[Len(Append(s, e))] = e
           /\ Len(Append(s, e)) = Len(s) + 1 /\ Len(s) \in Nat
           /\ \A i \in 1..Len(s) : Append(s, e)[i] = s[i]
OBVIOUS
=============================================================================
