--------------------------- MODULE AllocatorFacts --------------------------
(***************************************************************************)
(* What Alloc, Release and reserve preserve, as lemmas about the operators *)
(* of IdAlloc and Extents, for every capacity, every key and every         *)
(* allocator.  The free list of ids is seen through two facts only: it     *)
(* repeats nothing, and the set of its elements.                           *)
(***************************************************************************)
EXTENDS IdAlloc, Extents, TLAPS

NoRepeat(s) == \A i, j \in 1 .. Len(s) : s[i] = s[j] => i = j

Injective(f) == \A k, l \in DOMAIN f : f[k] = f[l] => k = l

\* The ids held, as a map into the naturals.
IdMap(f) == f \in [DOMAIN f -> Nat]

\* An allocator: its shape, no shared id, and every id below the high-water
\* mark either free (once) or held.
WellFormed(a) ==
  /\ a = [max |-> a.max, ids |-> a.ids, free |-> a.free, next |-> a.next]
  /\ a.max \in Nat
  /\ a.next \in Nat
  /\ a.next <= a.max
  /\ IdMap(a.ids)
  /\ a.free \in Seq(Nat)
  /\ Injective(a.ids)
  /\ NoRepeat(a.free)
  /\ Image(a.free) \cap Image(a.ids) = {}
  /\ Image(a.free) \cup Image(a.ids) = 0 .. a.next - 1

-----------------------------------------------------------------------------
(* The four ways the free list changes. *)

LEMMA SeqOf ==
  ASSUME NEW S, NEW n \in Nat, NEW s \in [1 .. n -> S]
  PROVE  s \in Seq(S) /\ Len(s) = n /\ DOMAIN s = 1 .. n
  OBVIOUS

LEMMA SeqImage ==
  ASSUME NEW s \in Seq(Nat)
  PROVE  /\ Len(s) \in Nat
         /\ \A x : x \in Image(s) <=> \E i \in 1 .. Len(s) : s[i] = x
  BY DEF Image

\* Alloc pops the last freed id.
LEMMA PopFacts ==
  ASSUME NEW s \in Seq(Nat), NoRepeat(s), s # << >>, NEW n, n = Len(s)
  PROVE  /\ SubSeq(s, 1, n - 1) \in Seq(Nat)
         /\ NoRepeat(SubSeq(s, 1, n - 1))
         /\ s[n] \in Image(s)
         /\ Image(SubSeq(s, 1, n - 1)) = Image(s) \ {s[n]}
  <1>1. PICK m \in Nat : n = m + 1 /\ m = Len(s) - 1
    <2>1. n \in Nat \ {0}
      OBVIOUS
    <2>2. n - 1 \in Nat /\ n = (n - 1) + 1
      BY <2>1
    <2> QED BY <2>2
  <1> DEFINE t == SubSeq(s, 1, m)
  <1>2. t \in Seq(Nat) /\ Len(t) = m
    <2>1. CASE m = 0
      BY <2>1
    <2>2. CASE m > 0
      BY <2>2, <1>1, SMTT(60)
    <2> QED BY <2>1, <2>2
  <1>3. \A i \in 1 .. m : t[i] = s[i]
    BY <1>1
  <1>4. n - 1 = m
    BY <1>1
  <1> HIDE DEF t
  <1>5. \A i \in 1 .. m : i \in 1 .. n /\ i # n
    BY <1>1
  <1>6. \A i \in 1 .. n : i = n \/ i \in 1 .. m
    BY <1>1
  <1>7. n \in 1 .. n
    BY <1>1
  <1>8. NoRepeat(t)
    BY <1>2, <1>3, <1>5 DEF NoRepeat
  <1>9. Image(t) = Image(s) \ {s[n]}
    <2>1. ASSUME NEW x \in Image(t) PROVE x \in Image(s) \ {s[n]}
      BY <1>2, <1>3, <1>5, <1>7, <2>1, SeqImage DEF NoRepeat
    <2>2. ASSUME NEW x \in Image(s) \ {s[n]} PROVE x \in Image(t)
      <3>1. PICK i \in 1 .. n : s[i] = x
        BY SeqImage
      <3>2. i \in 1 .. m
        BY <1>6, <3>1
      <3> QED BY <1>2, <1>3, <3>1, <3>2, SeqImage, Zenon
    <2> QED BY <2>1, <2>2
  <1>10. s[n] \in Image(s)
    BY <1>7, SeqImage
  <1> QED BY <1>2, <1>4, <1>8, <1>9, <1>10, SMTT(60) DEF t

\* Release pushes the freed id.
LEMMA PushFacts ==
  ASSUME NEW s \in Seq(Nat), NoRepeat(s), NEW x \in Nat, x \notin Image(s)
  PROVE  /\ Append(s, x) \in Seq(Nat)
         /\ NoRepeat(Append(s, x))
         /\ Image(Append(s, x)) = Image(s) \cup {x}
  <1> DEFINE t == Append(s, x)
             n == Len(s)
  <1>1. /\ n \in Nat /\ t \in Seq(Nat) /\ Len(t) = n + 1 /\ t[n + 1] = x
        /\ \A i \in 1 .. n : t[i] = s[i]
    OBVIOUS
  <1> HIDE DEF t
  <1>2. \A i \in 1 .. n : s[i] # x
    BY SeqImage
  <1> HIDE DEF n
  <1>3. /\ \A i \in 1 .. n + 1 : i = n + 1 \/ i \in 1 .. n
        /\ \A i \in 1 .. n : i \in 1 .. n + 1
        /\ n + 1 \in 1 .. n + 1
    BY <1>1
  <1>4. NoRepeat(t)
    <2> SUFFICES ASSUME NEW i \in 1 .. n + 1, NEW j \in 1 .. n + 1, t[i] = t[j]
                 PROVE  i = j
      BY <1>1 DEF NoRepeat
    <2>1. CASE i \in 1 .. n /\ j \in 1 .. n
      BY <1>1, <2>1 DEF NoRepeat, n
    <2>2. CASE i = n + 1 \/ j = n + 1
      BY <1>1, <1>2, <1>3, <2>2
    <2> QED BY <1>3, <2>1, <2>2
  <1>5. Image(t) = Image(s) \cup {x}
    <2>1. ASSUME NEW y \in Image(t) PROVE y \in Image(s) \cup {x}
      <3>1. PICK i \in 1 .. n + 1 : t[i] = y
        BY <1>1, SeqImage
      <3>2. CASE i = n + 1
        BY <1>1, <3>1, <3>2
      <3>3. CASE i \in 1 .. n
        BY <1>1, <3>1, <3>3, SeqImage, Zenon DEF n
      <3> QED BY <1>3, <3>2, <3>3
    <2>2. ASSUME NEW y \in Image(s) PROVE y \in Image(t)
      BY <1>1, <1>3, SeqImage, SMTT(60) DEF n
    <2>3. x \in Image(t)
      BY <1>1, <1>3, SeqImage
    <2> QED BY <2>1, <2>2, <2>3, Zenon
  <1> QED BY <1>1, <1>4, <1>5 DEF t

Lists(s, S) == s \in Seq(Nat) /\ NoRepeat(s) /\ Image(s) = S

\* Several ids pushed one after the other.
LEMMA ConcatFacts ==
  ASSUME NEW s \in Seq(Nat), NoRepeat(s), NEW k \in Seq(Nat), NoRepeat(k),
         Image(s) \cap Image(k) = {}
  PROVE  Lists(s \o k, Image(s) \cup Image(k))
  <1> DEFINE t == s \o k
             n == Len(s)
             m == Len(k)
  <1>1. n \in Nat /\ m \in Nat
    OBVIOUS
  <1>2. /\ t \in Seq(Nat) /\ Len(t) = n + m
        /\ \A i \in 1 .. n : t[i] = s[i]
        /\ \A i \in n + 1 .. n + m : t[i] = k[i - n]
    OBVIOUS
  <1>3. /\ \A i \in 1 .. n : s[i] \in Image(s)
        /\ \A i \in 1 .. m : k[i] \in Image(k)
    BY SeqImage, SMTT(60)
  <1> HIDE DEF t, n, m
  <1>4. \A i \in n + 1 .. n + m : i - n \in 1 .. m
    BY <1>1
  <1>5. \A i \in 1 .. n + m : i \in 1 .. n \/ i \in n + 1 .. n + m
    BY <1>1
  <1>6. NoRepeat(t)
    <2> SUFFICES ASSUME NEW i \in 1 .. n + m, NEW j \in 1 .. n + m, t[i] = t[j]
                 PROVE  i = j
      BY <1>2 DEF NoRepeat
    <2>1. CASE i \in 1 .. n /\ j \in 1 .. n
      BY <1>2, <2>1 DEF NoRepeat, n
    <2>2. CASE i \in n + 1 .. n + m /\ j \in n + 1 .. n + m
      <3>1. i - n \in 1 .. m /\ j - n \in 1 .. m /\ k[i - n] = k[j - n]
        BY <1>2, <1>4, <2>2
      <3>2. i - n = j - n
        BY <3>1, Zenon DEF NoRepeat, m
      <3> QED BY <1>1, <3>2
    <2>3. CASE i \in 1 .. n /\ j \in n + 1 .. n + m
      BY <1>2, <1>3, <1>4, <2>3, Zenon
    <2>4. CASE j \in 1 .. n /\ i \in n + 1 .. n + m
      BY <1>2, <1>3, <1>4, <2>4, Zenon
    <2> QED BY <1>5, <2>1, <2>2, <2>3, <2>4
  <1>7. Image(t) = Image(s) \cup Image(k)
    <2>1. ASSUME NEW x \in Image(t) PROVE x \in Image(s) \cup Image(k)
      <3>1. PICK i \in 1 .. n + m : t[i] = x
        BY <1>2, SeqImage
      <3> QED BY <1>2, <1>3, <1>4, <1>5, <3>1, Zenon
    <2>2. ASSUME NEW x \in Image(s) PROVE x \in Image(t)
      <3>1. PICK i \in 1 .. n : s[i] = x
        BY SeqImage DEF n
      <3>2. i \in 1 .. n + m
        BY <1>1
      <3> QED BY <1>2, <3>1, <3>2, SeqImage, Zenon
    <2>3. ASSUME NEW x \in Image(k) PROVE x \in Image(t)
      <3>1. PICK i \in 1 .. m : k[i] = x
        BY SeqImage DEF m
      <3>2. n + i \in n + 1 .. n + m /\ n + i \in 1 .. n + m /\ (n + i) - n = i
        BY <1>1
      <3>3. t[n + i] = x
        BY <1>2, <3>1, <3>2
      <3> QED BY <1>2, <3>2, <3>3, SeqImage, Zenon
    <2> QED BY <2>1, <2>2, <2>3
  <1> QED BY <1>2, <1>6, <1>7 DEF t, Lists

\* reserve, above the high-water mark, pushes the ids it skips.
Run(k, lo, hi) == k = [i \in 1 .. hi - lo |-> lo + i - 1]

Below(S, lo) == \A x \in S : x < lo

LEMMA SkipFacts ==
  ASSUME NEW s \in Seq(Nat), NoRepeat(s), NEW lo \in Nat, NEW hi \in Nat, lo <= hi,
         Below(Image(s), lo), NEW k, Run(k, lo, hi)
  PROVE  Lists(s \o k, Image(s) \cup lo .. hi - 1)
  <1> DEFINE m == hi - lo
  <1>1. m \in Nat /\ k \in Seq(Nat) /\ Len(k) = m /\ \A i \in 1 .. m : k[i] = lo + i - 1
    BY DEF Run
  <1>2. NoRepeat(k)
    BY <1>1 DEF NoRepeat
  <1>3. Image(k) = lo .. hi - 1
    <2>1. ASSUME NEW x \in lo .. hi - 1 PROVE x \in Image(k)
      <3>1. x - lo + 1 \in 1 .. m /\ lo + (x - lo + 1) - 1 = x
        OBVIOUS
      <3>2. k[x - lo + 1] = x
        BY <1>1, <3>1
      <3> QED BY <1>1, <3>1, <3>2, SeqImage
    <2>2. ASSUME NEW x \in Image(k) PROVE x \in lo .. hi - 1
      <3>1. PICK i \in 1 .. m : k[i] = x
        BY <1>1, SeqImage
      <3> QED BY <1>1, <3>1, SMTT(60)
    <2> QED BY <2>1, <2>2, Zenon
  <1>4. Image(s) \cap Image(k) = {}
    <2>1. \A x \in Image(s) : x \in Nat
      BY SeqImage, SMTT(60)
    <2> QED BY <1>3, <2>1 DEF Below
  <1> QED BY <1>1, <1>2, <1>3, <1>4, ConcatFacts, Zenon

\* reserve, below the high-water mark, takes the id out of the middle.
LEMMA WithoutFacts ==
  ASSUME NEW s \in Seq(Nat), NoRepeat(s), NEW id \in Image(s)
  PROVE  /\ Without(s, id) \in Seq(Nat)
         /\ NoRepeat(Without(s, id))
         /\ Image(Without(s, id)) = Image(s) \ {id}
  <1> DEFINE c == CHOOSE j \in 1 .. Len(s) : s[j] = id /\ \A k \in 1 .. j - 1 : s[k] # id
             n == Len(s)
             t == Without(s, id)
             from(j) == IF j < c THEN j ELSE j + 1
  <1>1. c \in 1 .. n /\ s[c] = id
    <2>1. PICK p \in 1 .. n : s[p] = id
      BY SeqImage
    <2>2. \A k \in 1 .. p - 1 : s[k] # id
      <3> SUFFICES ASSUME NEW k \in 1 .. p - 1, s[k] = id PROVE FALSE
        OBVIOUS
      <3>1. k \in 1 .. n /\ k # p
        OBVIOUS
      <3> QED BY <2>1, <3>1 DEF NoRepeat
    <2> QED BY <2>1, <2>2, SMTT(60)
  <1>2. t = [j \in 1 .. n - 1 |-> IF j < c THEN s[j] ELSE s[j + 1]]
    BY <1>1 DEF Without
  <1> HIDE DEF c
  <1>3. PICK m \in Nat : n = m + 1 /\ m = n - 1
    BY <1>1
  <1>4. \A j \in 1 .. m : from(j) \in 1 .. n /\ from(j) # c
    BY <1>1, <1>3
  <1>5. t \in Seq(Nat) /\ Len(t) = m /\ \A j \in 1 .. m : t[j] = s[from(j)]
    <2>1. t = [j \in 1 .. m |-> IF j < c THEN s[j] ELSE s[j + 1]]
      BY <1>2, <1>3
    <2>2. \A j \in 1 .. m : (IF j < c THEN s[j] ELSE s[j + 1]) \in Nat
      BY <1>1, <1>3, SMTT(60)
    <2> HIDE DEF t, n
    <2> QED BY <2>1, <2>2
  <1>6. \A i, j \in 1 .. m : from(i) = from(j) => i = j
    BY <1>1, <1>3
  <1>7. \A i \in 1 .. n : i # c => \E j \in 1 .. m : from(j) = i
    <2> SUFFICES ASSUME NEW i \in 1 .. n, i # c
                 PROVE  \E j \in 1 .. m : from(j) = i
      OBVIOUS
    <2>1. CASE i < c
      BY <1>1, <1>3, <2>1
    <2>2. CASE i > c
      <3>1. i - 1 \in 1 .. m /\ from(i - 1) = i
        BY <1>1, <1>3, <2>2
      <3> QED BY <3>1
    <2> QED BY <1>1, <2>1, <2>2
  <1> HIDE DEF from, t, n
  <1>8. NoRepeat(t)
    <2> SUFFICES ASSUME NEW i \in 1 .. m, NEW j \in 1 .. m, t[i] = t[j]
                 PROVE  i = j
      BY <1>5 DEF NoRepeat
    <2>1. s[from(i)] = s[from(j)] /\ from(i) \in 1 .. n /\ from(j) \in 1 .. n
      BY <1>4, <1>5, SMTT(60)
    <2>2. from(i) = from(j)
      BY <2>1, SMTT(60) DEF NoRepeat, n
    <2> QED BY <1>6, <2>2
  <1>9. Image(t) = Image(s) \ {id}
    <2>1. ASSUME NEW x \in Image(t) PROVE x \in Image(s) \ {id}
      <3>1. PICK j \in 1 .. m : t[j] = x
        BY <1>5, SeqImage
      <3>2. x = s[from(j)] /\ from(j) \in 1 .. n /\ from(j) # c
        BY <1>4, <1>5, <3>1
      <3> QED BY <1>1, <3>2, SeqImage, Zenon DEF NoRepeat, n
    <2>2. ASSUME NEW x \in Image(s) \ {id} PROVE x \in Image(t)
      <3>1. PICK i \in 1 .. n : s[i] = x
        BY SeqImage DEF n
      <3>2. PICK j \in 1 .. m : from(j) = i
        BY <1>1, <1>7, <3>1
      <3> QED BY <1>5, <3>1, <3>2, SeqImage, Zenon
    <2> QED BY <2>1, <2>2
  <1> QED BY <1>5, <1>8, <1>9 DEF t

-----------------------------------------------------------------------------
(* The two ways the held ids change. *)

\* g is f with one more key, which holds id.
Adds(g, f, key, id) ==
  /\ IdMap(g)
  /\ DOMAIN g = DOMAIN f \cup {key}
  /\ Injective(g)
  /\ Image(g) = Image(f) \cup {id}
  /\ g[key] = id
  /\ \A k \in DOMAIN f : g[k] = f[k]

LEMMA GiveFacts ==
  ASSUME NEW f, IdMap(f), Injective(f),
         NEW key, key \notin DOMAIN f, NEW id \in Nat, id \notin Image(f)
  PROVE  Adds(Give(f, key, id), f, key, id)
  <1> DEFINE g == Give(f, key, id)
  <1>1. /\ DOMAIN g = DOMAIN f \cup {key}
        /\ g[key] = id
        /\ \A k \in DOMAIN f : g[k] = f[k]
    BY DEF Give
  <1>2. IdMap(g)
    BY DEF Give, IdMap
  <1> HIDE DEF g
  <1>3. \A k \in DOMAIN f : f[k] # id
    BY DEF Image
  <1>4. Injective(g)
    BY <1>1, <1>3 DEF Injective
  <1>5. Image(g) = Image(f) \cup {id}
    BY <1>1 DEF Image
  <1> QED BY <1>1, <1>2, <1>4, <1>5 DEF g, Adds

LEMMA DropFacts ==
  ASSUME NEW f, IdMap(f), Injective(f), NEW key \in DOMAIN f,
         NEW g, g = [k \in DOMAIN f \ {key} |-> f[k]]
  PROVE  /\ IdMap(g)
         /\ DOMAIN g = DOMAIN f \ {key}
         /\ Injective(g)
         /\ Image(g) = Image(f) \ {f[key]}
  <1>1. /\ DOMAIN g = DOMAIN f \ {key}
        /\ \A k \in DOMAIN g : g[k] = f[k]
    OBVIOUS
  <1>2. IdMap(g)
    BY DEF IdMap
  <1>3. Injective(g)
    BY <1>1 DEF Injective
  <1>4. Image(g) = Image(f) \ {f[key]}
    BY <1>1 DEF Image, Injective
  <1> QED BY <1>1, <1>2, <1>3, <1>4

-----------------------------------------------------------------------------
(* The operations. *)

\* Building a well-formed allocator from its four fields.
LEMMA MkWellFormed ==
  ASSUME NEW mx \in Nat, NEW nx \in Nat, nx <= mx,
         NEW ids, IdMap(ids), Injective(ids),
         NEW free \in Seq(Nat), NoRepeat(free),
         Image(free) \cap Image(ids) = {},
         Image(free) \cup Image(ids) = 0 .. nx - 1
  PROVE  WellFormed([max |-> mx, ids |-> ids, free |-> free, next |-> nx])
  BY DEF WellFormed

\* A new allocator is well formed and holds nothing.
LEMMA NewFacts ==
  ASSUME NEW max \in Nat
  PROVE  WellFormed(NewIds(max)) /\ DOMAIN NewIds(max).ids = {} /\ NewIds(max).max = max
  BY DEF NewIds, WellFormed, IdMap, Injective, NoRepeat, Image

\* Alloc gives the key an id within capacity, changes no other key's id and
\* leaves a well-formed allocator.
LEMMA AllocFacts ==
  ASSUME NEW a, WellFormed(a), NEW key, CanAlloc(a, key)
  PROVE  /\ WellFormed(Alloc(a, key))
         /\ Alloc(a, key).max = a.max
         /\ DOMAIN Alloc(a, key).ids = DOMAIN a.ids \cup {key}
         /\ \A k \in DOMAIN a.ids : Alloc(a, key).ids[k] = a.ids[k]
         /\ Alloc(a, key).ids[key] \in 0 .. a.max - 1
  <1> DEFINE b == Alloc(a, key)
  <1>0. /\ a.next \in Nat /\ IdMap(a.ids) /\ Injective(a.ids)
        /\ a.free \in Seq(Nat) /\ NoRepeat(a.free)
    BY DEF WellFormed
  <1>1. CASE Holds(a, key)
    <2>1. a.ids[key] \in 0 .. a.next - 1
      BY <1>1 DEF WellFormed, Holds, Image
    <2> QED BY <1>1, <2>1 DEF Alloc, Holds, WellFormed
  <1>2. CASE ~Holds(a, key) /\ a.free # << >>
    <2> DEFINE n == Len(a.free)
               pop == SubSeq(a.free, 1, n - 1)
               id == a.free[n]
    <2>1. /\ pop \in Seq(Nat) /\ NoRepeat(pop)
          /\ id \in Image(a.free) /\ Image(pop) = Image(a.free) \ {id}
      BY <1>2, PopFacts, Zenon DEF WellFormed
    <2>2. b = [max |-> a.max, ids |-> Give(a.ids, key, id), free |-> pop, next |-> a.next]
      BY <1>2, Zenon DEF Alloc, WellFormed
    <2> HIDE DEF pop, id, b
    <2>3. id \in 0 .. a.next - 1 /\ id \in Nat /\ id \notin Image(a.ids) /\ key \notin DOMAIN a.ids
      BY <1>2, <2>1 DEF WellFormed, Holds
    <2>4. Adds(Give(a.ids, key, id), a.ids, key, id)
      BY <1>0, <2>3, GiveFacts
    <2>5. /\ Image(pop) \cap Image(Give(a.ids, key, id)) = {}
          /\ Image(pop) \cup Image(Give(a.ids, key, id)) = 0 .. a.next - 1
      BY <2>1, <2>3, <2>4 DEF WellFormed, Adds
    <2>6. WellFormed(b)
      BY <2>1, <2>2, <2>4, <2>5, MkWellFormed, Zenon DEF WellFormed, Adds
    <2> QED BY <2>2, <2>3, <2>4, <2>6 DEF WellFormed, Adds, b
  <1>3. CASE ~Holds(a, key) /\ a.free = << >>
    <2>1. /\ a.next < a.max /\ key \notin DOMAIN a.ids
          /\ a.next \notin Image(a.ids) /\ a.next \notin Image(a.free)
      BY <1>3 DEF CanAlloc, Holds, WellFormed
    <2>2. b = [max |-> a.max, ids |-> Give(a.ids, key, a.next), free |-> a.free, next |-> a.next + 1]
      BY <1>3, Zenon DEF Alloc, WellFormed
    <2> HIDE DEF b
    <2>3. Adds(Give(a.ids, key, a.next), a.ids, key, a.next)
      BY <1>0, <2>1, GiveFacts
    <2>4. 0 .. (a.next + 1) - 1 = (0 .. a.next - 1) \cup {a.next}
      BY DEF WellFormed
    <2>5. /\ Image(a.free) \cap Image(Give(a.ids, key, a.next)) = {}
          /\ Image(a.free) \cup Image(Give(a.ids, key, a.next)) = 0 .. (a.next + 1) - 1
          /\ a.next + 1 \in Nat /\ a.next + 1 <= a.max
      BY <2>1, <2>3, <2>4 DEF WellFormed, Adds
    <2>6. WellFormed(b)
      BY <2>2, <2>3, <2>5, MkWellFormed, Zenon DEF WellFormed, Adds
    <2> QED BY <2>1, <2>2, <2>3, <2>6 DEF WellFormed, Adds, b
  <1> QED BY <1>1, <1>2, <1>3

\* Release takes the key's id away, keeps every other key's and leaves a
\* well-formed allocator.
LEMMA ReleaseFacts ==
  ASSUME NEW a, WellFormed(a), NEW key
  PROVE  /\ WellFormed(Release(a, key))
         /\ Release(a, key).max = a.max
         /\ DOMAIN Release(a, key).ids = DOMAIN a.ids \ {key}
         /\ \A k \in DOMAIN a.ids \ {key} : Release(a, key).ids[k] = a.ids[k]
  <1> DEFINE b == Release(a, key)
  <1>0. /\ a.next \in Nat /\ IdMap(a.ids) /\ Injective(a.ids)
        /\ a.free \in Seq(Nat) /\ NoRepeat(a.free)
    BY DEF WellFormed
  <1>1. CASE ~Holds(a, key)
    BY <1>1 DEF Release, Holds
  <1>2. CASE Holds(a, key)
    <2> DEFINE id == a.ids[key]
               push == Append(a.free, id)
               less == [k \in DOMAIN a.ids \ {key} |-> a.ids[k]]
    <2>1. key \in DOMAIN a.ids /\ id \in Image(a.ids) /\ id \in Nat /\ id \notin Image(a.free)
      BY <1>2, Zenon DEF Holds, Image, WellFormed, IdMap
    <2>2. push \in Seq(Nat) /\ NoRepeat(push) /\ Image(push) = Image(a.free) \cup {id}
      BY <2>1, PushFacts DEF WellFormed
    <2>3. /\ IdMap(less) /\ DOMAIN less = DOMAIN a.ids \ {key}
          /\ \A k \in DOMAIN less : less[k] = a.ids[k]
          /\ Injective(less) /\ Image(less) = Image(a.ids) \ {id}
      <3>1. /\ IdMap(less) /\ DOMAIN less = DOMAIN a.ids \ {key}
            /\ Injective(less) /\ Image(less) = Image(a.ids) \ {id}
        BY <1>0, <2>1, DropFacts, Zenon
      <3> QED BY <3>1
    <2>4. b = [max |-> a.max, ids |-> less, free |-> push, next |-> a.next]
      BY <1>2, Zenon DEF Release, WellFormed
    <2> HIDE DEF push, less, id, b
    <2>5. /\ Image(push) \cap Image(less) = {}
          /\ Image(push) \cup Image(less) = 0 .. a.next - 1
      BY <2>1, <2>2, <2>3 DEF WellFormed
    <2>6. WellFormed(b)
      BY <2>2, <2>3, <2>4, <2>5, MkWellFormed DEF WellFormed
    <2> QED BY <2>3, <2>4, <2>6 DEF b
  <1> QED BY <1>1, <1>2

\* reserve gives the key exactly the id it asks for, changes no other key's id
\* and leaves a well-formed allocator: what adoption relies on.
LEMMA ReserveFacts ==
  ASSUME NEW a, WellFormed(a), NEW key, NEW id \in Nat, CanReserve(a, key, id)
  PROVE  /\ WellFormed(Reserve(a, key, id))
         /\ Reserve(a, key, id).max = a.max
         /\ DOMAIN Reserve(a, key, id).ids = DOMAIN a.ids \cup {key}
         /\ \A k \in DOMAIN a.ids : Reserve(a, key, id).ids[k] = a.ids[k]
         /\ Reserve(a, key, id).ids[key] = id
  <1> DEFINE b == Reserve(a, key, id)
             g == Give(a.ids, key, id)
  <1>0. /\ a.next \in Nat /\ IdMap(a.ids) /\ Injective(a.ids)
        /\ a.free \in Seq(Nat) /\ NoRepeat(a.free)
    BY DEF WellFormed
  <1>1. CASE Holds(a, key)
    BY <1>1 DEF Reserve, CanReserve, Holds
  <1>2. CASE ~Holds(a, key)
    <2>1. key \notin DOMAIN a.ids /\ id < a.max /\ id \notin Image(a.ids)
      BY <1>2 DEF Holds, CanReserve
    <2>2. /\ IdMap(g)
          /\ DOMAIN g = DOMAIN a.ids \cup {key}
          /\ Injective(g) /\ Image(g) = Image(a.ids) \cup {id}
          /\ g[key] = id /\ \A k \in DOMAIN a.ids : g[k] = a.ids[k]
      <3>1. Adds(g, a.ids, key, id)
        BY <1>0, <2>1, GiveFacts
      <3> QED BY <3>1 DEF Adds
    <2>3. CASE id >= a.next
      <3> DEFINE sk == Skipped(a, id)
                 free == a.free \o sk
      <3>1. Run(sk, a.next, id)
        BY DEF Skipped, Run
      <3>2. Below(Image(a.free), a.next)
        BY DEF WellFormed, Below
      <3> HIDE DEF sk
      <3>3. free \in Seq(Nat) /\ NoRepeat(free) /\ Image(free) = Image(a.free) \cup a.next .. id - 1
        <4>1. a.next <= id
          BY <1>0, <2>3
        <4>2. Lists(free, Image(a.free) \cup a.next .. id - 1)
          BY <1>0, <3>1, <3>2, <4>1, SkipFacts, Zenon
        <4> QED BY <4>2 DEF Lists
      <3>4. b = [max |-> a.max, ids |-> g, free |-> free, next |-> id + 1]
        BY <1>2, <2>3, Zenon DEF Reserve, WellFormed, sk
      <3> HIDE DEF free, b, g
      <3>5. /\ 0 .. (id + 1) - 1 = (0 .. a.next - 1) \cup (a.next .. id - 1) \cup {id}
            /\ \A x \in 0 .. a.next - 1 : x \notin a.next .. id - 1 /\ x # id
            /\ id \notin a.next .. id - 1
        BY <2>3, SMTT(60) DEF WellFormed
      <3>6. /\ Image(free) \cap Image(g) = {}
            /\ Image(free) \cup Image(g) = 0 .. (id + 1) - 1
            /\ id + 1 \in Nat /\ id + 1 <= a.max
        <4>1. /\ Image(a.free) \cap Image(a.ids) = {}
              /\ Image(a.free) \cup Image(a.ids) = 0 .. a.next - 1
          BY DEF WellFormed
        <4>2. Image(free) \cap Image(g) = {}
          <5> SUFFICES ASSUME NEW x \in Image(free), x \in Image(g) PROVE FALSE
            BY Zenon
          <5>1. CASE x = id
            BY <2>1, <3>3, <3>5, <4>1, <5>1, Zenon
          <5>2. CASE x # id
            <6>1. x \in Image(a.ids) /\ x \in 0 .. a.next - 1
              BY <2>2, <4>1, <5>2, Zenon
            <6> QED BY <3>3, <3>5, <4>1, <6>1, Zenon
          <5> QED BY <5>1, <5>2
        <4>3. Image(free) \cup Image(g) = 0 .. (id + 1) - 1
          BY <2>2, <3>3, <3>5, <4>1, Zenon
        <4>4. id + 1 \in Nat /\ id + 1 <= a.max
          BY <2>1 DEF WellFormed
        <4> QED BY <4>2, <4>3, <4>4
      <3>7. WellFormed(b)
        BY <2>2, <3>3, <3>4, <3>6, MkWellFormed, Zenon DEF WellFormed
      <3> QED BY <2>2, <3>4, <3>7 DEF b
    <2>4. CASE id < a.next
      <3> DEFINE free == Without(a.free, id)
      <3>1. id \in Image(a.free)
        BY <2>1, <2>4 DEF WellFormed
      <3>2. free \in Seq(Nat) /\ NoRepeat(free) /\ Image(free) = Image(a.free) \ {id}
        BY <1>0, <3>1, WithoutFacts, Zenon
      <3>3. b = [max |-> a.max, ids |-> g, free |-> free, next |-> a.next]
        <4>1. ~(id >= a.next)
          BY <1>0, <2>4
        <4> QED BY <1>2, <4>1, Zenon DEF Reserve, WellFormed
      <3> HIDE DEF free, b, g
      <3>4. /\ Image(free) \cap Image(g) = {}
            /\ Image(free) \cup Image(g) = 0 .. a.next - 1
        BY <2>2, <3>1, <3>2 DEF WellFormed
      <3>5. WellFormed(b)
        BY <2>2, <3>2, <3>3, <3>4, MkWellFormed, Zenon DEF WellFormed
      <3> QED BY <2>2, <3>3, <3>5 DEF b
    <2> QED BY <2>3, <2>4 DEF WellFormed
  <1> QED BY <1>1, <1>2

-----------------------------------------------------------------------------
(* Extents. *)

\* A set of naturals that is not empty has a least element.
Least == \A S \in SUBSET Nat : S # {} => \E o \in S : \A p \in S : o <= p

\* What Alloc returns: an extent of the size asked for, all of it free.
LEMMA TakenFacts ==
  ASSUME Least, NEW total \in Nat, NEW pool_ \in SUBSET WholeTable(total),
         NEW size \in Nat \ {0}, CanTake(pool_, size)
  PROVE  /\ Taken(pool_, size) = Extent(Taken(pool_, size).offset, size)
         /\ Taken(pool_, size).offset \in Nat
         /\ Taken(pool_, size).size = size
         /\ Slots(Taken(pool_, size)) \subseteq pool_
         /\ Taken(pool_, size).offset + size <= total
  <1> DEFINE F == Fits(pool_, size)
             o == CHOOSE o \in F : \A p \in F : o <= p
  <1>1. F \in SUBSET Nat /\ F # {}
    <2>1. pool_ \in SUBSET Nat
      BY DEF WholeTable
    <2> QED BY <2>1, Zenon DEF Fits, CanTake
  <1>2. o \in F
    BY <1>1, Zenon DEF Least
  <1>3. Taken(pool_, size) = Extent(o, size)
    BY DEF Taken
  <1>4. o \in Nat /\ o .. o + size - 1 \subseteq pool_
    BY <1>1, <1>2 DEF Fits
  <1> HIDE DEF o, F
  <1>5. o + size - 1 \in o .. o + size - 1
    BY <1>4
  <1>6. o + size <= total
    BY <1>4, <1>5 DEF WholeTable
  <1> QED BY <1>3, <1>4, <1>6 DEF Extent, Slots

LEMMA GreatestExists ==
  ASSUME Least, NEW n \in Nat, NEW S \in SUBSET (0 .. n), S # {}
  PROVE  \E o \in S : \A p \in S : p <= o
  <1>0. \A x \in S : x \in Nat
    OBVIOUS
  <1> DEFINE T == {n - x : x \in S}
  <1>1. T \in SUBSET Nat /\ T # {}
    <2>1. \A x \in S : n - x \in Nat
      OBVIOUS
    <2>2. PICK x \in S : TRUE
      BY Zenon
    <2>3. n - x \in T
      OBVIOUS
    <2> QED BY <2>1, <2>3
  <1>2. PICK t \in T : \A u \in T : t <= u
    BY <1>1, Zenon DEF Least
  <1>3. PICK o \in S : t = n - o
    OBVIOUS
  <1>4. \A p \in S : p <= o
    <2> SUFFICES ASSUME NEW p \in S PROVE p <= o
      OBVIOUS
    <2>1. n - p \in T
      BY Zenon
    <2>2. n - o <= n - p
      BY <1>2, <1>3, <2>1, Zenon
    <2>3. o \in Nat /\ p \in Nat
      BY <1>0, Zenon
    <2> QED BY <2>2, <2>3
  <1> QED BY <1>4

-----------------------------------------------------------------------------
(* Adoption rolled back. *)

\* adoptOneLocked's roll-back releases exactly the ids it names.
LEMMA UnclaimedFacts ==
  ASSUME NEW a, WellFormed(a), NEW T, NEW c \in Seq(T), NoRepeat(c),
         Image(c) \subseteq DOMAIN a.ids
  PROVE  /\ WellFormed(Unclaimed(a, c))
         /\ Unclaimed(a, c).max = a.max
         /\ DOMAIN Unclaimed(a, c).ids = DOMAIN a.ids \ Image(c)
         /\ \A b \in DOMAIN a.ids \ Image(c) : Unclaimed(a, c).ids[b] = a.ids[b]
  <1> DEFINE less == [b \in DOMAIN a.ids \ Image(c) |-> a.ids[b]]
             back == [i \in DOMAIN c |-> a.ids[c[i]]]
             n == Len(c)
  <1>0. /\ a.next \in Nat /\ a.max \in Nat /\ a.next <= a.max
        /\ IdMap(a.ids) /\ Injective(a.ids)
        /\ a.free \in Seq(Nat) /\ NoRepeat(a.free)
        /\ a = [max |-> a.max, ids |-> a.ids, free |-> a.free, next |-> a.next]
    BY DEF WellFormed
  <1>1. n \in Nat /\ DOMAIN c = 1 .. n
    OBVIOUS
  <1>2. \A i \in 1 .. n : c[i] \in DOMAIN a.ids /\ c[i] \in Image(c)
    BY <1>1 DEF Image
  <1>3. back \in [1 .. n -> Nat]
    BY <1>0, <1>1, <1>2 DEF IdMap
  <1>4. back \in Seq(Nat) /\ Len(back) = n /\ DOMAIN back = 1 .. n
    BY <1>1, <1>3, SeqOf
  <1>5. \A i \in 1 .. n : back[i] = a.ids[c[i]]
    BY <1>1
  <1>6. /\ DOMAIN less = DOMAIN a.ids \ Image(c)
        /\ \A b \in DOMAIN less : less[b] = a.ids[b]
    BY Zenon
  <1>7. IdMap(less) /\ Injective(less)
    BY <1>0, <1>6 DEF IdMap, Injective
  <1>8. Unclaimed(a, c) = [max |-> a.max, ids |-> less, free |-> a.free \o back, next |-> a.next]
    <2> DEFINE free == a.free \o back
    <2>1. Unclaimed(a, c) = [a EXCEPT !.ids = less, !.free = free]
      BY DEF Unclaimed
    <2> HIDE DEF less, back, free
    <2>2. ASSUME NEW u, u = [a EXCEPT !.ids = less, !.free = free]
          PROVE  u = [max |-> a.max, ids |-> less, free |-> free, next |-> a.next]
      BY <1>0, <2>2, Zenon
    <2> QED BY <2>1, <2>2, Zenon DEF free
  <1> HIDE DEF less, back, n
  <1>9. NoRepeat(back)
    BY <1>0, <1>2, <1>4, <1>5 DEF NoRepeat, Injective, n
  <1>10. \A x : x \in Image(back) <=> \E i \in 1 .. n : a.ids[c[i]] = x
    <2>1. \A x : x \in Image(back) <=> \E i \in 1 .. n : back[i] = x
      BY <1>4, SeqImage, Zenon
    <2> QED BY <1>5, <2>1, ZenonT(60)
  <1>11. Image(back) \subseteq Image(a.ids)
    BY <1>2, <1>10, Zenon DEF Image
  <1>12. Image(less) \cap Image(back) = {}
    <2> SUFFICES ASSUME NEW x \in Image(less), x \in Image(back) PROVE FALSE
      OBVIOUS
    <2>1. PICK b \in DOMAIN less : less[b] = x
      BY DEF Image
    <2>2. PICK i \in 1 .. n : a.ids[c[i]] = x
      BY <1>10
    <2>3. b = c[i]
      BY <1>0, <1>2, <1>6, <2>1, <2>2 DEF Injective
    <2> QED BY <1>2, <1>6, <2>3
  <1>13. Image(less) \cup Image(back) = Image(a.ids)
    <2>1. \A b \in Image(c) : \E i \in 1 .. n : c[i] = b
      BY <1>1 DEF Image
    <2>2. \A b \in DOMAIN a.ids : a.ids[b] \in Image(less) \cup Image(back)
      BY <1>6, <1>10, <2>1, Zenon DEF Image
    <2>3. Image(less) \subseteq Image(a.ids)
      BY <1>6 DEF Image
    <2> QED BY <1>11, <2>2, <2>3, Zenon DEF Image
  <1>14. Image(a.free) \cap Image(a.ids) = {} /\ Image(a.free) \cup Image(a.ids) = 0 .. a.next - 1
    BY DEF WellFormed
  <1>15. Lists(a.free \o back, Image(a.free) \cup Image(back))
    BY <1>0, <1>4, <1>9, <1>11, <1>14, ConcatFacts, Zenon
  <1>16. WellFormed(Unclaimed(a, c))
    <2> DEFINE free == a.free \o back
    <2>1. free \in Seq(Nat) /\ NoRepeat(free) /\ Image(free) = Image(a.free) \cup Image(back)
      BY <1>15 DEF Lists
    <2> HIDE DEF free
    <2>2. Image(free) \cap Image(less) = {} /\ Image(free) \cup Image(less) = 0 .. a.next - 1
      BY <1>11, <1>12, <1>13, <1>14, <2>1
    <2>3. WellFormed([max |-> a.max, ids |-> less, free |-> free, next |-> a.next])
      BY <1>0, <1>7, <2>1, <2>2, MkWellFormed, Zenon
    <2> QED BY <1>8, <2>3 DEF free
  <1> QED BY <1>6, <1>8, <1>16

=============================================================================
