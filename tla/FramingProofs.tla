--------------------------- MODULE FramingProofs ---------------------------
(* Theorems about Framing: for any ASDUs, field lengths and window.  What   *)
(* the stream and the readers do does not depend on how long the elements   *)
(* are, as long as their lengths can be added up at all.                    *)
EXTENDS Framing, SequenceNumberProofs, SequenceTheorems, FiniteSetTheorems,
        WellFoundedInduction, TLAPS

FieldLengths == [cotFieldLength : 1 .. 2, commonAddressFieldLength : 1 .. 2,
                 ioaFieldLength : 1 .. 3]

LEMMA IsTrue ==
  ASSUME NEW p, NEW q \in BOOLEAN, p, q, p \in BOOLEAN
  PROVE  p = q
  OBVIOUS

(* The qualifier says again what was counted, up to 127. *)
LEMMA VsqRoundTrip ==
  ASSUME NEW a \in ASdu
  PROVE  /\ Vsq(a) \in 0 .. 255
         /\ SequenceLength(a) <= 127 =>
              /\ IsSequence(Vsq(a)) = a.isSequenceOfElements
              /\ Vsq(a) % 128 = SequenceLength(a)
  <1> DEFINE n == SequenceLength(a)
  <1>1. n \in Nat /\ a.isSequenceOfElements \in BOOLEAN
    BY DEF SequenceLength, ASdu
  <1>2. CASE a.isSequenceOfElements
    <2>1. Vsq(a) = 128 + (n % 128)
      BY <1>2 DEF Vsq
    <2> HIDE DEF n
    <2>2. Vsq(a) \in 128 .. 255 /\ (n <= 127 => Vsq(a) % 128 = n)
      BY <1>1, <2>1
    <2>3. IsSequence(Vsq(a)) /\ IsSequence(Vsq(a)) \in BOOLEAN
      BY <2>2 DEF IsSequence
    <2> QED
      BY <1>1, <1>2, <2>2, <2>3, IsTrue DEF n
  <1>3. CASE ~a.isSequenceOfElements
    <2>1. Vsq(a) = n % 256
      BY <1>3 DEF Vsq
    <2> HIDE DEF n
    <2>2. /\ Vsq(a) \in 0 .. 255
          /\ n <= 127 => Vsq(a) <= 127 /\ Vsq(a) % 128 = n
      BY <1>1, <2>1
    <2> QED
      BY <1>1, <1>3, <2>2 DEF IsSequence, n
  <1> QED
    BY <1>1, <1>2, <1>3

----------------------------------------------------------------------------
(* How long a set of elements is.  SetOctets folds over the positions of    *)
(* the sequence, in an order it leaves open: the sums over the subsets of   *)
(* the positions exist, are unique and do not depend on that order.  Each   *)
(* of these is shown of a smallest subset for which it would not hold.      *)

LEMMA SmallestSubset ==
  ASSUME NEW D, IsFiniteSet(D), NEW Bad \in SUBSET SUBSET D, Bad # {}
  PROVE  \E s \in Bad : \A t \in SUBSET s : t # s => t \notin Bad
  <1>1. Bad \subseteq FiniteSubsetsOf(D)
    BY FS_Subset DEF FiniteSubsetsOf
  <1>2. PICK s \in Bad : \A t \in Bad : <<t, s>> \notin StrictSubsetOrdering(D)
    BY <1>1, FS_StrictSubsetOrderingWellFounded, WFMin
  <1>3. ASSUME NEW t \in SUBSET s, t # s
        PROVE  t \notin Bad
    <2>1. <<t, s>> \in StrictSubsetOrdering(D)
      BY <1>3 DEF StrictSubsetOrdering
    <2> QED
      BY <1>2, <2>1
  <1> QED
    BY <1>3

First(s) == CHOOSE x \in s : TRUE
LEMMA FirstIsIn == ASSUME NEW s, s # {} PROVE First(s) \in s
  BY DEF First

Step(g, elements, octets, s) ==
  IF s = {} THEN 0
  ELSE LET x == CHOOSE x \in s : TRUE
       IN  g[s \ {x}] + ElementOctets[elements[x]]
             + (IF elements[x] = "FileSegment" THEN octets ELSE 0)

Sums(g, elements, octets, T) ==
  g = [s \in SUBSET T |-> Step(g, elements, octets, s)]

ElementLength(e, octets) ==
  ElementOctets[e] + (IF e = "FileSegment" THEN octets ELSE 0)

LEMMA ElementLengthType ==
  ASSUME NEW e \in DOMAIN ElementOctets, NEW octets \in Nat
  PROVE  /\ ElementOctets[e] \in 1 .. 7
         /\ ElementLength(e, octets) \in Nat
         /\ ElementLength(e, 0) \in 0 .. 7
  BY DEF ElementOctets, ElementLength

LEMMA StepValue ==
  ASSUME NEW s, s # {}, NEW elements, NEW octets \in Nat, NEW g,
         elements[First(s)] \in DOMAIN ElementOctets, g[s \ {First(s)}] \in Nat
  PROVE  Step(g, elements, octets, s)
           = g[s \ {First(s)}] + ElementLength(elements[First(s)], octets)
  BY ElementLengthType DEF Step, First, ElementLength

Agree(e, f, S) == \A i \in S : e[i] = f[i]

LEMMA SumsUnique ==
  ASSUME NEW S, IsFiniteSet(S), NEW T, S \subseteq T, NEW octets,
         NEW e, NEW f, Agree(e, f, S),
         NEW g, NEW h, Sums(g, e, octets, S), Sums(h, f, octets, T)
  PROVE  \A s \in SUBSET S : g[s] = h[s]
  <1> DEFINE Bad == {s \in SUBSET S : g[s] # h[s]}
  <1>1. SUFFICES ASSUME Bad # {} PROVE FALSE
    OBVIOUS
  <1>2. PICK s \in Bad : \A t \in SUBSET s : t # s => t \notin Bad
    <2>1. Bad \in SUBSET SUBSET S
      OBVIOUS
    <2> HIDE DEF Bad
    <2> QED
      BY <1>1, <2>1, SmallestSubset
  <1>3. g[s] = Step(g, e, octets, s) /\ h[s] = Step(h, f, octets, s)
    BY DEF Sums
  <1>4. s # {}
    BY <1>3 DEF Step
  <1> DEFINE x == CHOOSE x \in s : TRUE
  <1>5. x \in s
    BY <1>4
  <1>6. g[s \ {x}] = h[s \ {x}]
    BY <1>2, <1>5
  <1>7. e[x] = f[x]
    BY <1>5 DEF Agree
  <1> QED
    BY <1>3, <1>4, <1>6, <1>7 DEF Step

LEMMA SumsExist ==
  ASSUME NEW D, IsFiniteSet(D), NEW octets \in Nat,
         NEW e \in [D -> DOMAIN ElementOctets]
  PROVE  \E g : Sums(g, e, octets, D) /\ g \in [SUBSET D -> Nat]
  <1> DEFINE Good(T, g) == Sums(g, e, octets, T) /\ g \in [SUBSET T -> Nat]
             Bad == {T \in SUBSET D : ~ \E g : Good(T, g)}
  <1>1. SUFFICES ASSUME Bad # {} PROVE FALSE
    OBVIOUS
  <1>2. PICK T \in Bad : \A U \in SUBSET T : U # T => U \notin Bad
    <2>1. Bad \in SUBSET SUBSET D
      OBVIOUS
    <2> HIDE DEF Bad
    <2> QED
      BY <1>1, <2>1, SmallestSubset
  <1> DEFINE sum(U) == CHOOSE g : Good(U, g)
  <1>3. ASSUME NEW U \in SUBSET T, U # T
        PROVE  Good(U, sum(U))
    <2>1. \E g : Good(U, g)
      BY <1>2, <1>3
    <2> HIDE DEF Good
    <2> QED
      BY <2>1
  <1> HIDE DEF sum
  <1> DEFINE below == [s \in SUBSET T |-> sum(s)[s]]
             g == [s \in SUBSET T |-> Step(below, e, octets, s)]
  <1>4. ASSUME NEW s \in SUBSET T, s # T
        PROVE  below[s] \in Nat /\ sum(s)[s] = Step(sum(s), e, octets, s)
    <2>1. Good(s, sum(s))
      BY <1>4, <1>3
    <2> QED
      BY <2>1 DEF Sums
  <1>5. ASSUME NEW s \in SUBSET T, s # {}
        PROVE  /\ First(s) \in s /\ s \ {First(s)} \in SUBSET T
               /\ s \ {First(s)} # s /\ s \ {First(s)} # T
               /\ e[First(s)] \in DOMAIN ElementOctets
    BY <1>5, FirstIsIn
  <1>6. ASSUME NEW s \in SUBSET T, s # T
        PROVE  g[s] = below[s]
    <2>1. g[s] = Step(below, e, octets, s) /\ below[s] = Step(sum(s), e, octets, s)
      BY <1>6, <1>4
    <2>2. CASE s = {}
      BY <2>1, <2>2 DEF Step
    <2>3. CASE s # {}
      <3> DEFINE u == s \ {First(s)}
      <3>1. u \in SUBSET T /\ u # T /\ u \subseteq s
        BY <2>3, <1>5
      <3>2. Good(s, sum(s)) /\ Good(u, sum(u))
        BY <1>6, <1>3, <3>1
      <3>3. sum(s)[u] = sum(u)[u]
        <4>1. IsFiniteSet(u)
          BY <3>1, FS_Subset
        <4>2. Agree(e, e, u) /\ u \in SUBSET u
          BY DEF Agree
        <4> HIDE DEF u
        <4> QED
          BY <3>1, <3>2, <4>1, <4>2, SumsUnique
      <3>4. below[u] = sum(u)[u] /\ below[u] \in Nat
        BY <3>1, <1>4
      <3> QED
        BY <2>1, <2>3, <3>3, <3>4, <1>5, StepValue
    <2> QED
      BY <2>2, <2>3
  <1>7. ASSUME NEW s \in SUBSET T
        PROVE  g[s] = Step(g, e, octets, s) /\ g[s] \in Nat
    <2>1. CASE s = {}
      BY <2>1 DEF Step
    <2>2. CASE s # {}
      <3> DEFINE u == s \ {First(s)}
      <3>1. u \in SUBSET T /\ u # T /\ e[First(s)] \in DOMAIN ElementOctets
        BY <2>2, <1>5
      <3>2. g[u] = below[u] /\ below[u] \in Nat
        BY <3>1, <1>4, <1>6
      <3>3. g[s] = Step(below, e, octets, s)
        OBVIOUS
      <3> HIDE DEF g, below
      <3> DEFINE n == ElementLength(e[First(s)], octets)
      <3>4. Step(below, e, octets, s) = below[u] + n
        BY <2>2, <3>1, <3>2, StepValue
      <3>5. Step(g, e, octets, s) = g[u] + n
        BY <2>2, <3>1, <3>2, StepValue
      <3>6. n \in Nat
        BY <3>1, ElementLengthType
      <3> HIDE DEF n, u
      <3> QED
        BY <3>2, <3>3, <3>4, <3>5, <3>6
    <2> QED
      BY <2>1, <2>2
  <1>8. g = [s \in SUBSET T |-> Step(g, e, octets, s)] /\ g \in [SUBSET T -> Nat]
    <2>1. g = [s \in SUBSET T |-> g[s]]
      OBVIOUS
    <2> HIDE DEF g
    <2> QED
      BY <2>1, <1>7
  <1>9. Good(T, g)
    <2> HIDE DEF g
    <2> QED
      BY <1>8 DEF Sums
  <1> QED
    BY <1>2, <1>9

LEMMA SumsAreNat ==
  ASSUME NEW D, IsFiniteSet(D), NEW octets \in Nat,
         NEW e \in [D -> DOMAIN ElementOctets], NEW g, Sums(g, e, octets, D)
  PROVE  \A s \in SUBSET D : g[s] \in Nat
  <1>1. PICK h : Sums(h, e, octets, D) /\ h \in [SUBSET D -> Nat]
    BY SumsExist
  <1>2. \A s \in SUBSET D : g[s] = h[s]
    <2>1. Agree(e, e, D)
      BY DEF Agree
    <2> QED
      BY <1>1, <2>1, SumsUnique
  <1> QED
    BY <1>1, <1>2

Of(e, D) == e \in [D -> DOMAIN ElementOctets]
TakesOut(g, e, octets, s, x) == g[s] = g[s \ {x}] + ElementLength(e[x], octets)

(* Any element can be taken out first. *)
LEMMA SumsInAnyOrder ==
  ASSUME NEW D, IsFiniteSet(D), NEW octets \in Nat,
         NEW e, Of(e, D), NEW g, Sums(g, e, octets, D)
  PROVE  \A s \in SUBSET D : \A x \in s : TakesOut(g, e, octets, s, x)
  <1> DEFINE n(i) == ElementLength(e[i], octets)
             Bad == {t \in SUBSET D : \E i \in t : g[t] # g[t \ {i}] + n(i)}
  <1>0. e \in [D -> DOMAIN ElementOctets]
    BY DEF Of
  <1>1. SUFFICES ASSUME Bad # {} PROVE FALSE
    BY DEF TakesOut
  <1>2. PICK t \in Bad : \A u \in SUBSET t : u # t => u \notin Bad
    <2>1. Bad \in SUBSET SUBSET D
      OBVIOUS
    <2> HIDE DEF Bad
    <2> QED
      BY <1>1, <2>1, SmallestSubset
  <1>3. PICK i \in t : g[t] # g[t \ {i}] + n(i)
    OBVIOUS
  <1> DEFINE j == First(t)
  <1>4. j \in t /\ i \in D /\ j \in D
    BY <1>3, FirstIsIn
  <1>5. \A u \in SUBSET D : g[u] \in Nat
    BY <1>0, SumsAreNat
  <1>6. n(i) \in Nat /\ n(j) \in Nat
    BY <1>0, <1>4, ElementLengthType
  <1>7. g[t] = g[t \ {j}] + n(j)
    <2>1. g[t] = Step(g, e, octets, t)
      BY DEF Sums
    <2>2. t # {} /\ e[First(t)] \in DOMAIN ElementOctets /\ g[t \ {First(t)}] \in Nat
      BY <1>0, <1>4, <1>5
    <2> QED
      BY <2>1, <2>2, StepValue
  <1> HIDE DEF j
  <1>8. i # j
    BY <1>3, <1>7
  <1>9. g[t \ {j}] = g[(t \ {j}) \ {i}] + n(i)
    <2>1. t \ {j} \in SUBSET t /\ t \ {j} # t /\ i \in t \ {j}
      BY <1>4, <1>8
    <2> QED
      BY <1>2, <2>1
  <1>10. g[t \ {i}] = g[(t \ {i}) \ {j}] + n(j)
    <2>1. t \ {i} \in SUBSET t /\ t \ {i} # t /\ j \in t \ {i}
      BY <1>4, <1>8
    <2> QED
      BY <1>2, <2>1
  <1>11. (t \ {i}) \ {j} = (t \ {j}) \ {i} /\ g[(t \ {i}) \ {j}] \in Nat
    BY <1>5
  <1> HIDE DEF n
  <1> DEFINE m == g[(t \ {i}) \ {j}]
  <1>12. m \in Nat /\ g[t \ {j}] = m + n(i) /\ g[t \ {i}] = m + n(j)
    BY <1>9, <1>10, <1>11
  <1> HIDE DEF m
  <1>13. g[t] = (m + n(i)) + n(j) /\ g[t \ {i}] + n(i) = (m + n(j)) + n(i)
    BY <1>7, <1>12
  <1>14. (m + n(i)) + n(j) = (m + n(j)) + n(i)
    BY <1>6, <1>12
  <1> QED
    BY <1>3, <1>13, <1>14

(* The length of a set of elements is the sum of their lengths.             *)
LEMMA SetOctetsIsSum ==
  ASSUME NEW e \in Seq(DOMAIN ElementOctets), NEW octets \in Nat
  PROVE  \E g : /\ Sums(g, e, octets, 1 .. Len(e))
               /\ SetOctets(e, octets) = g[1 .. Len(e)]
  <1> DEFINE g == CHOOSE g : Sums(g, e, octets, DOMAIN e)
  <1>1. SetOctets(e, octets) = g[DOMAIN e]
    BY DEF SetOctets, FoldSeq, FoldFunction, FoldFunctionOnSet, MapThenFoldSet,
           Sums, Step
  <1>2. DOMAIN e = 1 .. Len(e) /\ IsFiniteSet(1 .. Len(e)) /\ Len(e) \in Nat
    BY FS_Interval
  <1>3. e \in [DOMAIN e -> DOMAIN ElementOctets]
    OBVIOUS
  <1>4. \E h : Sums(h, e, octets, DOMAIN e)
    BY <1>2, <1>3, SumsExist
  <1>5. Sums(g, e, octets, DOMAIN e)
    BY <1>4
  <1> HIDE DEF g
  <1> QED
    BY <1>1, <1>2, <1>5

LEMMA SetOctetsEmpty ==
  ASSUME NEW octets \in Nat
  PROVE  SetOctets(<<>>, octets) = 0
  <1>1. <<>> \in Seq(DOMAIN ElementOctets) /\ 1 .. Len(<<>>) = {}
    OBVIOUS
  <1>2. PICK g : Sums(g, <<>>, octets, {}) /\ SetOctets(<<>>, octets) = g[{}]
    BY <1>1, SetOctetsIsSum
  <1> QED
    BY <1>2 DEF Sums, Step

LEMMA SetOctetsAppend ==
  ASSUME NEW e \in Seq(DOMAIN ElementOctets), NEW x \in DOMAIN ElementOctets,
         NEW octets \in Nat
  PROVE  /\ SetOctets(e, octets) \in Nat
         /\ SetOctets(Append(e, x), octets) = SetOctets(e, octets) + ElementLength(x, octets)
  <1> DEFINE f == Append(e, x)
             D == 1 .. Len(e)
             E == 1 .. Len(f)
  <1>1. /\ f \in Seq(DOMAIN ElementOctets) /\ Len(f) = Len(e) + 1 /\ Len(e) \in Nat
        /\ f[Len(f)] = x /\ \A i \in D : f[i] = e[i]
    BY AppendProperties
  <1> HIDE DEF f
  <1>2. /\ IsFiniteSet(D) /\ IsFiniteSet(E) /\ D \in SUBSET E
        /\ Len(f) \in E /\ E \ {Len(f)} = D
    <2>1. IsFiniteSet(D) /\ IsFiniteSet(E)
      BY <1>1, FS_Interval
    <2>2. D \in SUBSET E /\ Len(f) \in E /\ E \ {Len(f)} = D
      BY <1>1
    <2> QED
      BY <2>1, <2>2
  <1>3. e \in [D -> DOMAIN ElementOctets] /\ f \in [E -> DOMAIN ElementOctets]
    BY <1>1
  <1>4. PICK g : Sums(g, e, octets, D) /\ SetOctets(e, octets) = g[D]
    BY SetOctetsIsSum
  <1>5. PICK h : Sums(h, f, octets, E) /\ SetOctets(f, octets) = h[E]
    BY <1>1, SetOctetsIsSum
  <1> HIDE DEF D, E
  <1>6. g[D] \in Nat
    BY <1>2, <1>3, <1>4, SumsAreNat
  <1>7. h[E] = h[D] + ElementLength(x, octets)
    <2>1. E \in SUBSET E
      OBVIOUS
    <2>2. h[E] = h[E \ {Len(f)}] + ElementLength(f[Len(f)], octets)
      <3>1. IsFiniteSet(E) /\ Len(f) \in E
        BY <1>2
      <3>2. Of(f, E)
        BY <1>3 DEF Of
      <3>3. Sums(h, f, octets, E)
        BY <1>5
      <3>4. TakesOut(h, f, octets, E, Len(f))
        BY <3>1, <3>2, <3>3, <2>1, SumsInAnyOrder
      <3> QED
        BY <3>4 DEF TakesOut
    <2> QED
      BY <1>1, <1>2, <2>2
  <1>8. g[D] = h[D]
    <2>1. Agree(e, f, D)
      BY <1>1 DEF Agree, D
    <2>2. IsFiniteSet(D) /\ D \subseteq E /\ D \in SUBSET D
      BY <1>2
    <2> QED
      BY <1>4, <1>5, <2>1, <2>2, SumsUnique
  <1> QED
    BY <1>4, <1>5, <1>6, <1>7, <1>8 DEF f

LEMMA SetOctetsType ==
  ASSUME NEW e \in Seq(DOMAIN ElementOctets), NEW octets \in Nat
  PROVE  SetOctets(e, octets) \in Nat
  <1>1. "Time56" \in DOMAIN ElementOctets
    BY DEF ElementOctets
  <1> QED
    BY <1>1, SetOctetsAppend

----------------------------------------------------------------------------
(* No other type has an object without elements. *)
LEMMA OnlyReadIsEmpty ==
  \A type \in DOMAIN Elements : Elements[type] = <<>> => type = "C_RD_NA_1"
  BY DEF Elements

(* The reader of a regular ASDU takes as many octets as were written, and   *)
(* returns what of it can arrive.                                           *)
LEMMA RegularRoundTrip ==
  ASSUME NEW a \in ASdu, NEW s \in FieldLengths, Regular(a),
         a.type = "private" => a.sets = 0 /\ a.elements = <<>>
  PROVE  /\ OctetsRead(a.type, Vsq(a), ASduOctets(a, s), a.octets, s)
              = PayloadOctets(a, s)
         /\ Decoded(a.type, Vsq(a), ASduOctets(a, s), a.octets, s) = Content(a)
         /\ \/ a.type = "private" \/ a.type \in DOMAIN Elements
            \/ ObjectsRead(Vsq(a)) = 0
  <1>1. /\ IsSequence(Vsq(a)) = a.isSequenceOfElements
        /\ Vsq(a) % 128 = SequenceLength(a)
    BY VsqRoundTrip DEF Regular
  <1>2. /\ a.octets \in Nat /\ a.objects \in Nat /\ a.sets \in Nat
        /\ a.isSequenceOfElements \in BOOLEAN
        /\ a.elements \in Seq(DOMAIN ElementOctets)
    BY DEF ASdu
  <1> DEFINE e == IF a.objects = 0 THEN <<>> ELSE a.elements
             m == IF e = <<>> THEN 0 ELSE a.sets
             n == SetOctets(a.elements, a.octets)
  <1>3. Content(a) =
          [type |-> a.type, isSequenceOfElements |-> a.isSequenceOfElements,
           objects |-> a.objects, sets |-> m, elements |-> e, octets |-> a.octets]
    BY DEF Content
  <1>4. CASE a.type = "private"
    <2>1. PrivateOctets(ASduOctets(a, s), s) = a.octets
      BY <1>2, <1>4 DEF PrivateOctets, ASduOctets, PayloadOctets,
         DataUnitIdentifierOctets, FieldLengths
    <2>2. SequenceLength(a) = a.objects
      BY <1>4 DEF SequenceLength
    <2>3. OctetsRead(a.type, Vsq(a), ASduOctets(a, s), a.octets, s)
            = PayloadOctets(a, s)
      BY <1>4, <2>1 DEF OctetsRead, PayloadOctets
    <2>4. Decoded(a.type, Vsq(a), ASduOctets(a, s), a.octets, s) =
            [type |-> a.type, isSequenceOfElements |-> a.isSequenceOfElements,
             objects |-> a.objects, sets |-> 0, elements |-> <<>>,
             octets |-> a.octets]
      BY <1>1, <1>4, <2>1, <2>2 DEF Decoded
    <2>5. e = <<>> /\ m = 0
      BY <1>4
    <2> QED
      BY <1>3, <1>4, <2>3, <2>4, <2>5
  <1>5. ASSUME a.type # "private", a.objects = 0, ~a.isSequenceOfElements
        PROVE  /\ OctetsRead(a.type, Vsq(a), ASduOctets(a, s), a.octets, s)
                    = PayloadOctets(a, s)
               /\ Decoded(a.type, Vsq(a), ASduOctets(a, s), a.octets, s) = Content(a)
               /\ ObjectsRead(Vsq(a)) = 0
    <2>1. ObjectsRead(Vsq(a)) = 0
      BY <1>1, <1>5 DEF ObjectsRead, SequenceLength
    <2>2. PayloadOctets(a, s) = 0
      <3>1. s.ioaFieldLength + a.sets * n \in Int
        <4>1. n \in Nat
          BY <1>2, SetOctetsType
        <4>2. s.ioaFieldLength \in Nat /\ \A i, j \in Nat : i * j \in Nat
          BY DEF FieldLengths
        <4> QED
          BY <1>2, <4>1, <4>2
      <3>2. \A i \in Int : 0 * i = 0
        OBVIOUS
      <3> QED
        BY <1>5, <3>1, <3>2 DEF PayloadOctets
    <2>3. OctetsRead(a.type, Vsq(a), ASduOctets(a, s), a.octets, s) = 0
      BY <1>5, <2>1 DEF OctetsRead
    <2>4. Decoded(a.type, Vsq(a), ASduOctets(a, s), a.octets, s) =
            [type |-> a.type, isSequenceOfElements |-> a.isSequenceOfElements,
             objects |-> a.objects, sets |-> 0, elements |-> <<>>,
             octets |-> a.octets]
      BY <1>1, <1>5, <2>1 DEF Decoded
    <2>5. e = <<>> /\ m = 0
      BY <1>5
    <2> QED
      BY <1>3, <2>1, <2>2, <2>3, <2>4, <2>5
  <1>6. ASSUME a.type # "private", ~(a.objects = 0 /\ ~a.isSequenceOfElements)
        PROVE  /\ OctetsRead(a.type, Vsq(a), ASduOctets(a, s), a.octets, s)
                    = PayloadOctets(a, s)
               /\ Decoded(a.type, Vsq(a), ASduOctets(a, s), a.octets, s) = Content(a)
               /\ a.type \in DOMAIN Elements
    <2> DEFINE l == SetsRead(a.type, Vsq(a))
    <2>1. /\ a.type \in DOMAIN Elements /\ a.elements = Elements[a.type]
          /\ a.isSequenceOfElements => a.objects = 1
          /\ \/ a.sets = 1 \/ a.elements = <<>>
             \/ a.isSequenceOfElements /\ a.type \in Sequenced
      BY <1>6 DEF Regular
    <2>2. ObjectsRead(Vsq(a)) = a.objects /\ a.objects # 0
      BY <1>1, <1>6, <2>1 DEF ObjectsRead, SequenceLength
    <2>3. "C_RD_NA_1" \notin Sequenced /\ Elements["C_RD_NA_1"] = <<>>
      BY DEF Sequenced, Elements
    <2>4. a.elements # <<>> => l = a.sets
      BY <1>1, <1>2, <1>6, <2>1, <2>3 DEF SetsRead, SequenceLength
    <2>5. a.elements = <<>> => l = 0
      BY <2>1, OnlyReadIsEmpty DEF SetsRead
    <2>6. l * n = a.sets * n
      <3>1. CASE a.elements # <<>>
        BY <2>4, <3>1
      <3>2. CASE a.elements = <<>>
        <4>1. n = 0
          BY <1>2, <3>2, SetOctetsEmpty
        <4>2. \A i \in Nat : i * 0 = 0
          OBVIOUS
        <4> QED
          BY <1>2, <2>5, <3>2, <4>1, <4>2
      <3> QED
        BY <3>1, <3>2
    <2>7. OctetsRead(a.type, Vsq(a), ASduOctets(a, s), a.octets, s)
            = PayloadOctets(a, s)
      BY <1>6, <2>1, <2>2, <2>6 DEF OctetsRead, PayloadOctets
    <2>8. Decoded(a.type, Vsq(a), ASduOctets(a, s), a.octets, s) =
            [type |-> a.type, isSequenceOfElements |-> a.isSequenceOfElements,
             objects |-> a.objects, sets |-> l, elements |-> a.elements,
             octets |-> a.octets]
      BY <1>1, <1>6, <2>1, <2>2 DEF Decoded
    <2>9. e = a.elements /\ m = l
      BY <2>2, <2>4, <2>5
    <2> QED
      BY <1>3, <2>1, <2>7, <2>8, <2>9
  <1> QED
    BY <1>2, <1>4, <1>5, <1>6

(* What the reader returns is regular even if what was sent is not. *)
LEMMA DecodedIsRegular ==
  ASSUME NEW type, type # "private", NEW vsq \in 0 .. 255,
         type \in DOMAIN Elements \/ ObjectsRead(vsq) = 0,
         NEW length, NEW segment, NEW s
  PROVE  Regular(Decoded(type, vsq, length, segment, s))
  <1> DEFINE d == Decoded(type, vsq, length, segment, s)
  <1>1. /\ d.type = type /\ d.isSequenceOfElements = IsSequence(vsq)
        /\ d.objects = ObjectsRead(vsq)
        /\ d.objects # 0 => /\ d.sets = SetsRead(type, vsq)
                            /\ d.elements = Elements[type]
    BY DEF Decoded
  <1> HIDE DEF d
  <1>2. vsq % 128 \in 0 .. 127
    OBVIOUS
  <1>3. IsSequence(vsq) => /\ d.objects = 1
                           /\ d.sets \in 0 .. 127
                           /\ \/ type \in Sequenced \/ d.sets = 1
                              \/ type = "C_RD_NA_1"
    BY <1>1, <1>2 DEF ObjectsRead, SetsRead
  <1>4. ~IsSequence(vsq) => /\ d.objects \in 0 .. 127
                            /\ d.objects # 0 => d.sets = 1 \/ type = "C_RD_NA_1"
    BY <1>1, <1>2 DEF ObjectsRead, SetsRead
  <1>5. IsSequence(vsq) \in BOOLEAN
    BY DEF IsSequence
  <1>6. SequenceLength(d) <= 127
    BY <1>1, <1>3, <1>4, <1>5 DEF SequenceLength
  <1>7. Elements["C_RD_NA_1"] = <<>>
    BY DEF Elements
  <1>8. CASE d.objects = 0
    BY <1>1, <1>3, <1>6, <1>8 DEF Regular, d
  <1>9. CASE d.objects # 0
    <2>1. type \in DOMAIN Elements
      BY <1>1, <1>9
    <2> QED
      BY <1>1, <1>3, <1>4, <1>5, <1>6, <1>7, <1>9, <2>1 DEF Regular, d
  <1> QED
    BY <1>8, <1>9

----------------------------------------------------------------------------
(* The inductive invariant: the frames on the wire carry, in order, the     *)
(* ASDUs accepted and not yet delivered, each numbered by the calls of send *)
(* before it, those in which encode threw included.                         *)

WireFrames ==
  {[sendSeqNum |-> n, type |-> a.type, vsq |-> Vsq(a),
    payload |-> PayloadOctets(a, s), aSduLength |-> ASduOctets(a, s),
    segment |-> a.octets] : n \in SeqNumber, a \in ASdus, s \in Settings}

Received ==
  {Decoded(f.type, f.vsq, f.aSduLength, f.segment, s) :
     f \in {g \in WireFrames : Decodable(g)}, s \in Settings}

Carries(f, a, s) ==
  /\ f.type = a.type /\ f.vsq = Vsq(a) /\ f.segment = a.octets
  /\ f.payload = PayloadOctets(a, s)
  /\ f.aSduLength = ASduOctets(a, s)

Typed ==
  /\ settings \in Settings
  /\ wire \in Seq(WireFrames) /\ delivered \in Seq(Received)
  /\ accepted \in Seq(ASdus)
  /\ failed \in Nat /\ gap \in Nat

Counted ==
  /\ Len(delivered) + Len(wire) = Len(accepted)
  /\ receiveSequenceNumber = Len(delivered) % SeqModulus
  /\ sendSequenceNumber = (Len(accepted) + failed) % SeqModulus
  /\ failed > 0 => gap <= Len(accepted)

Windowed ==
  \E k \in Nat :
    /\ k <= Len(delivered)
    /\ acknowledgedSendSequenceNumber = k % SeqModulus
    /\ Len(accepted) + failed - k <= MaxNumOfOutstandingIPdus

(* Before the i-th frame on the wire, x calls of send have failed. *)
Numbered ==
  \A i \in 1 .. Len(wire) :
    \E x \in 0 .. failed :
      /\ wire[i].sendSeqNum = (Len(delivered) + i - 1 + x) % SeqModulus
      /\ failed > 0 /\ Len(delivered) + i > gap => x > 0

InOrder ==
  \A i \in 1 .. Len(wire) : Carries(wire[i], accepted[Len(delivered) + i], settings)

Identical ==
  AllRegular => /\ reader = "reading"
                /\ \A i \in 1 .. Len(delivered) : delivered[i] = Content(accepted[i])

FramingInvariant ==
  /\ Typed /\ Counted /\ Windowed /\ Numbered /\ InOrder /\ Identical
  /\ NothingAfterGap

LEMMA InitInvariant ==
  Init => FramingInvariant
  <1> SUFFICES ASSUME Init PROVE FramingInvariant
    OBVIOUS
  <1> USE DEF Init
  <1>0. 0 % SeqModulus = 0
    BY SeqModulusAssumption
  <1>1. Typed
    BY DEF Typed
  <1>2. Counted
    BY <1>0 DEF Counted
  <1>3. Windowed
    <2>1. MaxNumOfOutstandingIPdus >= 0
      BY WindowAssumption
    <2> QED
      BY <1>0, <2>1 DEF Windowed
  <1>4. Numbered /\ InOrder
    BY DEF Numbered, InOrder
  <1>5. Identical
    BY DEF Identical
  <1>6. NothingAfterGap
    BY DEF NothingAfterGap
  <1> QED
    BY <1>1, <1>2, <1>3, <1>4, <1>5, <1>6 DEF FramingInvariant

(* The frame that send builds is one of those. *)
LEMMA FrameType1 ==
  ASSUME Typed, NEW a \in ASdus, sendSequenceNumber \in SeqNumber
  PROVE  /\ Frame(a) \in WireFrames /\ Carries(Frame(a), a, settings)
         /\ Frame(a).sendSeqNum = sendSequenceNumber
  BY DEF Typed, Frame, WireFrames, Carries

(* A call of send keeps the window. *)
LEMMA NumbersWindow ==
  ASSUME Typed, Counted, Windowed, Numbers,
         Len(accepted') \in Nat, failed' \in Nat,
         Len(accepted') + failed' = Len(accepted) + failed + 1
  PROVE  /\ Windowed'
         /\ sendSequenceNumber' = (Len(accepted') + failed') % SeqModulus
  <1>0. /\ Len(accepted) \in Nat /\ Len(delivered) \in Nat /\ failed \in Nat
        /\ delivered' = delivered
        /\ MaxNumOfOutstandingIPdus \in Nat /\ MaxNumOfOutstandingIPdus < SeqModulus
        /\ SeqModulus \in Nat
    BY WindowAssumption, SeqModulusAssumption DEF Typed, Numbers
  <1>1. sendSequenceNumber' = (Len(accepted) + failed + 1) % SeqModulus
    BY <1>0, NextSeqCounts DEF Numbers, Counted
  <1>2. PICK k \in Nat :
          /\ k <= Len(delivered)
          /\ acknowledgedSendSequenceNumber = k % SeqModulus
          /\ Len(accepted) + failed - k <= MaxNumOfOutstandingIPdus
    BY DEF Windowed
  <1>3. k <= Len(accepted) + failed
    BY <1>0, <1>2 DEF Counted, Typed
  <1>4. sequenceNumberDiff((Len(accepted) + failed) % SeqModulus, k % SeqModulus)
          = Len(accepted) + failed - k
    BY <1>0, <1>2, <1>3, DiffIsDistance
  <1>5. Len(accepted) + failed - k < MaxNumOfOutstandingIPdus
    BY <1>2, <1>4 DEF Numbers, Counted
  <1>6. Len(accepted') + failed' - k <= MaxNumOfOutstandingIPdus
    BY <1>0, <1>5
  <1> QED
    BY <1>0, <1>1, <1>2, <1>6 DEF Windowed, Numbers

LEMMA SendKeeps ==
  ASSUME FramingInvariant, NEW a \in ASdus, Send(a)
  PROVE  FramingInvariant'
  <1> USE DEF FramingInvariant
  <1>0. /\ accepted' = Append(accepted, a) /\ wire' = Append(wire, Frame(a))
        /\ UNCHANGED <<settings, delivered, receiveSequenceNumber, reader,
                       failed, gap>>
    BY DEF Send, Numbers
  <1>1. sendSequenceNumber \in SeqNumber
    BY SeqModulusAssumption, SMT DEF Counted, Typed, SeqNumber
  <1>2. /\ Frame(a) \in WireFrames /\ Carries(Frame(a), a, settings)
        /\ Frame(a).sendSeqNum = sendSequenceNumber
    BY <1>1, FrameType1
  <1>3. /\ accepted' \in Seq(ASdus) /\ Len(accepted') = Len(accepted) + 1
        /\ \A i \in 1 .. Len(accepted) : accepted'[i] = accepted[i]
        /\ accepted'[Len(accepted) + 1] = a
    BY <1>0, AppendProperties DEF Typed
  <1>4. /\ wire' \in Seq(WireFrames) /\ Len(wire') = Len(wire) + 1
        /\ \A i \in 1 .. Len(wire) : wire'[i] = wire[i]
        /\ wire'[Len(wire) + 1] = Frame(a)
    BY <1>0, <1>2, AppendProperties DEF Typed
  <1>5. /\ Len(accepted) \in Nat /\ Len(delivered) \in Nat /\ Len(wire) \in Nat
        /\ failed \in Nat /\ gap \in Nat
        /\ Len(delivered) + Len(wire) = Len(accepted)
    BY DEF Typed, Counted
  <1>6. Typed'
    BY <1>0, <1>3, <1>4 DEF Typed
  <1>7. Windowed' /\ sendSequenceNumber' = (Len(accepted') + failed') % SeqModulus
    <2>1. /\ Len(accepted') \in Nat /\ failed' \in Nat
          /\ Len(accepted') + failed' = Len(accepted) + failed + 1
      BY <1>0, <1>3, <1>5
    <2> QED
      BY <2>1, NumbersWindow DEF Send
  <1>8. Counted'
    BY <1>0, <1>3, <1>4, <1>5, <1>7 DEF Counted
  <1>9. Numbered'
    <2> SUFFICES ASSUME NEW i \in 1 .. Len(wire')
                 PROVE  \E x \in 0 .. failed :
                          /\ wire'[i].sendSeqNum
                               = (Len(delivered) + i - 1 + x) % SeqModulus
                          /\ failed > 0 /\ Len(delivered) + i > gap => x > 0
      BY <1>0 DEF Numbered
    <2>1. CASE i \in 1 .. Len(wire)
      BY <1>4, <2>1 DEF Numbered
    <2>2. CASE i = Len(wire) + 1
      <3>1. wire'[i].sendSeqNum = (Len(accepted) + failed) % SeqModulus
        BY <1>2, <1>4, <2>2 DEF Counted
      <3>2. Len(accepted) + failed = Len(delivered) + i - 1 + failed
        BY <1>5, <2>2
      <3>3. failed \in 0 .. failed
        BY <1>5
      <3> QED
        BY <3>1, <3>2, <3>3
    <2>3. i \in 1 .. Len(wire) \/ i = Len(wire) + 1
      BY <1>4, <1>5
    <2> QED
      BY <2>1, <2>2, <2>3
  <1>10. InOrder'
    <2> SUFFICES ASSUME NEW i \in 1 .. Len(wire')
                 PROVE  Carries(wire'[i], accepted'[Len(delivered) + i], settings)
      BY <1>0 DEF InOrder
    <2>1. CASE i \in 1 .. Len(wire)
      <3>1. /\ wire'[i] = wire[i]
            /\ accepted'[Len(delivered) + i] = accepted[Len(delivered) + i]
        BY <1>3, <1>4, <1>5, <2>1
      <3>2. Carries(wire[i], accepted[Len(delivered) + i], settings)
        BY <2>1 DEF InOrder
      <3> QED
        BY <3>1, <3>2
    <2>2. CASE i = Len(wire) + 1
      <3>1. wire'[i] = Frame(a) /\ accepted'[Len(delivered) + i] = a
        BY <1>3, <1>4, <1>5, <2>2
      <3> QED
        BY <1>2, <3>1
    <2>3. i \in 1 .. Len(wire) \/ i = Len(wire) + 1
      BY <1>4, <1>5
    <2> QED
      BY <2>1, <2>2, <2>3
  <1>11. Identical'
    <2> SUFFICES ASSUME AllRegular'
                 PROVE  /\ reader = "reading"
                        /\ \A i \in 1 .. Len(delivered) :
                             delivered[i] = Content(accepted'[i])
      BY <1>0 DEF Identical
    <2>1. AllRegular
      BY <1>3, <1>5 DEF AllRegular
    <2> QED
      BY <1>3, <1>5, <2>1 DEF Identical
  <1>12. NothingAfterGap'
    BY <1>0 DEF NothingAfterGap
  <1> QED
    BY <1>6, <1>7, <1>8, <1>9, <1>10, <1>11, <1>12

LEMMA EncodeThrowsKeeps ==
  ASSUME FramingInvariant, NEW a \in ASdus, EncodeThrows(a)
  PROVE  FramingInvariant'
  <1> USE DEF FramingInvariant
  <1>0. /\ failed' = failed + 1
        /\ gap' = IF failed = 0 THEN Len(accepted) ELSE gap
        /\ UNCHANGED <<settings, delivered, receiveSequenceNumber, reader,
                       wire, accepted>>
    BY DEF EncodeThrows, Numbers
  <1>1. /\ Len(accepted) \in Nat /\ Len(delivered) \in Nat /\ Len(wire) \in Nat
        /\ failed \in Nat /\ gap \in Nat
        /\ Len(delivered) + Len(wire) = Len(accepted)
    BY DEF Typed, Counted
  <1>2. Typed'
    BY <1>0, <1>1 DEF Typed
  <1>3. Windowed' /\ sendSequenceNumber' = (Len(accepted') + failed') % SeqModulus
    <2>1. /\ Len(accepted') \in Nat /\ failed' \in Nat
          /\ Len(accepted') + failed' = Len(accepted) + failed + 1
      BY <1>0, <1>1
    <2> QED
      BY <2>1, NumbersWindow DEF EncodeThrows
  <1>4. gap' <= Len(accepted) /\ failed' > 0
    BY <1>0, <1>1 DEF Counted
  <1>5. Counted'
    BY <1>0, <1>3, <1>4 DEF Counted
  <1>6. Numbered'
    <2> SUFFICES ASSUME NEW i \in 1 .. Len(wire)
                 PROVE  \E x \in 0 .. failed' :
                          /\ wire[i].sendSeqNum
                               = (Len(delivered) + i - 1 + x) % SeqModulus
                          /\ Len(delivered) + i > gap' => x > 0
      BY <1>0, <1>4 DEF Numbered
    <2>1. PICK x \in 0 .. failed :
            /\ wire[i].sendSeqNum = (Len(delivered) + i - 1 + x) % SeqModulus
            /\ failed > 0 /\ Len(delivered) + i > gap => x > 0
      BY DEF Numbered
    <2>2. Len(delivered) + i <= Len(accepted)
      BY <1>1
    <2>3. Len(delivered) + i > gap' => x > 0
      BY <1>0, <1>1, <2>1, <2>2
    <2>4. x \in 0 .. failed'
      BY <1>0, <1>1
    <2> QED
      BY <2>1, <2>3, <2>4
  <1>7. InOrder'
    BY <1>0 DEF InOrder
  <1>8. Identical'
    BY <1>0 DEF Identical, AllRegular
  <1>9. NothingAfterGap'
    BY <1>0, <1>1 DEF NothingAfterGap
  <1> QED
    BY <1>2, <1>3, <1>5, <1>6, <1>7, <1>8, <1>9

(* The frame at the head carries the next ASDU, and has the expected number *)
(* only if none failed before it.                                           *)
LEMMA HeadIsNext ==
  ASSUME FramingInvariant, wire # <<>>
  PROVE  /\ Head(wire) \in WireFrames
         /\ Len(delivered) < Len(accepted)
         /\ Carries(Head(wire), accepted[Len(delivered) + 1], settings)
         /\ Expected(Head(wire)) /\ failed > 0 => Len(delivered) + 1 <= gap
  <1> USE DEF FramingInvariant
  <1>1. /\ Len(accepted) \in Nat /\ Len(delivered) \in Nat /\ Len(wire) \in Nat
        /\ failed \in Nat /\ gap \in Nat /\ Len(wire) > 0
        /\ Len(delivered) + Len(wire) = Len(accepted)
    BY EmptySeq DEF Typed, Counted
  <1>2. Head(wire) = wire[1] /\ 1 \in 1 .. Len(wire) /\ Head(wire) \in WireFrames
    BY <1>1 DEF Typed
  <1>3. Carries(Head(wire), accepted[Len(delivered) + 1], settings)
    BY <1>2 DEF InOrder
  <1>4. ASSUME Expected(Head(wire)), failed > 0, Len(delivered) + 1 > gap
        PROVE  FALSE
    <2>1. PICK x \in 0 .. failed :
            /\ wire[1].sendSeqNum = (Len(delivered) + 1 - 1 + x) % SeqModulus
            /\ failed > 0 /\ Len(delivered) + 1 > gap => x > 0
      BY <1>2 DEF Numbered
    <2>2. x \in Nat /\ x > 0 /\ x <= failed
      BY <1>1, <1>4, <2>1
    <2>3. PICK k \in Nat : /\ k <= Len(delivered)
                           /\ Len(accepted) + failed - k <= MaxNumOfOutstandingIPdus
      BY DEF Windowed
    <2>4. /\ Len(delivered) + 1 - 1 + x = Len(delivered) + x
          /\ x < SeqModulus
      BY <1>1, <2>2, <2>3, WindowAssumption, SeqModulusAssumption
    <2>5. (Len(delivered) + x) % SeqModulus = Len(delivered) % SeqModulus
      BY <1>2, <1>4, <2>1, <2>4 DEF Expected, Counted
    <2>6. /\ Len(delivered) + x \in Nat /\ Len(delivered) <= Len(delivered) + x
          /\ (Len(delivered) + x) - Len(delivered) = x
      BY <1>1, <2>2
    <2>7. sequenceNumberDiff((Len(delivered) + x) % SeqModulus,
                             Len(delivered) % SeqModulus) = x
      BY <1>1, <2>4, <2>6, DiffIsDistance
    <2>8. Len(delivered) % SeqModulus \in SeqNumber
      BY <1>1, SeqModulusAssumption, SMT DEF SeqNumber
    <2> HIDE DEF FramingInvariant
    <2>9. \A n \in SeqNumber : sequenceNumberDiff(n, n) = 0
      BY SeqModulusAssumption, SMT DEF SeqNumber, sequenceNumberDiff
    <2> QED
      BY <2>2, <2>5, <2>7, <2>8, <2>9
  <1> QED
    BY <1>1, <1>2, <1>3, <1>4

LEMMA ForwardKeeps ==
  ASSUME FramingInvariant, wire # <<>>, Decodable(Head(wire)),
         Expected(Head(wire)), Forward(Head(wire)),
         AllRegular => reader' = "reading"
  PROVE  FramingInvariant'
  <1> DEFINE f == Head(wire)
             d == Decoded(f.type, f.vsq, f.aSduLength, f.segment, settings)
             D == Len(delivered)
  <1> USE DEF FramingInvariant
  <1>0. /\ delivered' = Append(delivered, d) /\ wire' = Tail(wire)
        /\ receiveSequenceNumber' = NextSeq(f.sendSeqNum)
        /\ UNCHANGED <<settings, accepted, failed, gap, sendSequenceNumber,
                       acknowledgedSendSequenceNumber>>
    BY DEF Forward, senderVars, sentVars
  <1>1. /\ Len(accepted) \in Nat /\ D \in Nat /\ Len(wire) \in Nat
        /\ failed \in Nat /\ gap \in Nat /\ Len(wire) > 0
        /\ D + Len(wire) = Len(accepted)
    BY EmptySeq DEF Typed, Counted
  <1>2. /\ f \in WireFrames /\ Carries(f, accepted[D + 1], settings)
        /\ failed > 0 => D + 1 <= gap
    BY HeadIsNext
  <1>3. d \in Received
    BY <1>2 DEF Received, Typed
  <1> HIDE DEF d
  <1>4. /\ delivered' \in Seq(Received) /\ Len(delivered') = D + 1
        /\ \A i \in 1 .. D : delivered'[i] = delivered[i]
        /\ delivered'[D + 1] = d
    BY <1>0, <1>3, AppendProperties DEF Typed
  <1>5. /\ wire' \in Seq(WireFrames) /\ Len(wire') = Len(wire) - 1
        /\ \A i \in 1 .. Len(wire') : wire'[i] = wire[i + 1]
    BY <1>0, HeadTailProperties DEF Typed
  <1>6. Typed'
    BY <1>0, <1>4, <1>5 DEF Typed
  <1>7. Counted'
    <2>1. receiveSequenceNumber' = (D + 1) % SeqModulus
      BY <1>0, <1>1, NextSeqCounts DEF Expected, Counted
    <2> QED
      BY <1>0, <1>1, <1>4, <1>5, <2>1 DEF Counted
  <1>8. Windowed'
    <2>1. PICK k \in Nat :
            /\ k <= D
            /\ acknowledgedSendSequenceNumber = k % SeqModulus
            /\ Len(accepted) + failed - k <= MaxNumOfOutstandingIPdus
      BY DEF Windowed
    <2>2. k <= Len(delivered')
      BY <1>1, <1>4, <2>1
    <2> QED
      BY <1>0, <2>1, <2>2 DEF Windowed
  <1>9. Numbered'
    <2> SUFFICES ASSUME NEW i \in 1 .. Len(wire')
                 PROVE  \E x \in 0 .. failed :
                          /\ wire'[i].sendSeqNum
                               = (Len(delivered') + i - 1 + x) % SeqModulus
                          /\ failed > 0 /\ Len(delivered') + i > gap => x > 0
      BY <1>0 DEF Numbered
    <2>1. i + 1 \in 1 .. Len(wire) /\ wire'[i] = wire[i + 1]
      BY <1>1, <1>5
    <2>2. PICK x \in 0 .. failed :
            /\ wire[i + 1].sendSeqNum = (D + (i + 1) - 1 + x) % SeqModulus
            /\ failed > 0 /\ D + (i + 1) > gap => x > 0
      BY <2>1 DEF Numbered
    <2>3. /\ Len(delivered') + i - 1 + x = D + (i + 1) - 1 + x
          /\ Len(delivered') + i = D + (i + 1)
      BY <1>1, <1>4
    <2> QED
      BY <2>1, <2>2, <2>3
  <1>10. InOrder'
    <2> SUFFICES ASSUME NEW i \in 1 .. Len(wire')
                 PROVE  Carries(wire'[i], accepted[Len(delivered') + i], settings)
      BY <1>0 DEF InOrder
    <2>1. i + 1 \in 1 .. Len(wire) /\ wire'[i] = wire[i + 1]
      BY <1>1, <1>5
    <2>2. Carries(wire[i + 1], accepted[D + (i + 1)], settings)
      BY <2>1 DEF InOrder
    <2>3. Len(delivered') + i = D + (i + 1)
      BY <1>1, <1>4
    <2> QED
      BY <2>1, <2>2, <2>3
  <1>11. Identical'
    <2> SUFFICES ASSUME AllRegular
                 PROVE  /\ reader' = "reading"
                        /\ \A i \in 1 .. Len(delivered') :
                             delivered'[i] = Content(accepted[i])
      BY <1>0 DEF Identical, AllRegular
    <2> DEFINE a == accepted[D + 1]
    <2>1. a \in ASdus /\ Regular(a) /\ D + 1 \in 1 .. Len(accepted)
      BY <1>1 DEF AllRegular, Typed
    <2>2. settings \in FieldLengths
      BY SettingsAssumption DEF Typed, FieldLengths
    <2>3. Decoded(a.type, Vsq(a), ASduOctets(a, settings), a.octets, settings)
            = Content(a)
      BY <2>1, <2>2, ASdusAssumption, RegularRoundTrip
    <2>4. d = Content(a)
      BY <1>2, <2>3 DEF Carries, d
    <2>5. \A i \in 1 .. D : delivered[i] = Content(accepted[i])
      BY DEF Identical
    <2> QED
      BY <1>1, <1>4, <2>4, <2>5
  <1>12. NothingAfterGap'
    BY <1>0, <1>1, <1>2, <1>4 DEF NothingAfterGap
  <1> QED
    BY <1>6, <1>7, <1>8, <1>9, <1>10, <1>11, <1>12

LEMMA AddToRemainder ==
  ASSUME NEW k \in Nat, NEW n \in Nat
  PROVE  ((k % SeqModulus) + n) % SeqModulus = (k + n) % SeqModulus
  <1>a. PICK q \in Nat : \E r \in SeqNumber :
          r = k % SeqModulus /\ k = SeqModulus * q + r
    BY Remainder
  <1>1. PICK r \in SeqNumber : r = k % SeqModulus /\ k = SeqModulus * q + r
    BY <1>a
  <1>2. r + n \in Nat
    BY SeqModulusAssumption DEF SeqNumber
  <1>b. PICK p \in Nat : \E s \in SeqNumber :
          s = (r + n) % SeqModulus /\ r + n = SeqModulus * p + s
    BY <1>2, Remainder
  <1>3. PICK s \in SeqNumber :
          s = (r + n) % SeqModulus /\ r + n = SeqModulus * p + s
    BY <1>b
  <1>4. q - (-p) = q + p /\ -p \in Int /\ q + p \in Int /\ k + n \in Nat
    OBVIOUS
  <1>5. SeqModulus * (q + p) = SeqModulus * q + SeqModulus * p
    BY SeqModulusAssumption, SMT
  <1>6. k + n = SeqModulus * (q + p) + s
    <2> DEFINE x == SeqModulus * q
               y == SeqModulus * p
    <2>1. x \in Int /\ y \in Int /\ k = x + r /\ r + n = y + s
      BY <1>1, <1>3, SeqModulusAssumption
    <2>2. r \in Int /\ s \in Int
      BY SeqModulusAssumption DEF SeqNumber
    <2> HIDE DEF x, y
    <2>3. k + n = x + y + s
      BY <2>1, <2>2
    <2> QED
      BY <1>5, <2>3 DEF x, y
  <1>7. (k + n) % SeqModulus = s
    BY <1>4, <1>6, RemainderUnique
  <1> QED
    BY <1>1, <1>3, <1>7

LEMMA NextKeeps ==
  FramingInvariant /\ [Next]_vars => FramingInvariant'
  <1> SUFFICES ASSUME FramingInvariant, [Next]_vars
               PROVE  FramingInvariant'
    OBVIOUS
  <1>1. ASSUME NEW a \in ASdus, Send(a)
        PROVE  FramingInvariant'
    BY <1>1, SendKeeps
  <1>2. ASSUME NEW a \in ASdus, EncodeThrows(a)
        PROVE  FramingInvariant'
    BY <1>2, EncodeThrowsKeeps
  <1>3. CASE HandleIFrame
    <2>1. AllRegular => reader' = "reading"
      BY <1>3 DEF HandleIFrame
    <2> QED
      BY <1>3, <2>1, ForwardKeeps DEF HandleIFrame
  <1>4. CASE LosesStep
    <2>1. ASSUME AllRegular PROVE FALSE
      <3> DEFINE f == Head(wire)
                 a == accepted[Len(delivered) + 1]
      <3>1. wire # <<>> /\ Read(f) # f.payload
        BY <1>4 DEF LosesStep
      <3>2. Carries(f, a, settings) /\ Len(delivered) < Len(accepted)
        BY <3>1, HeadIsNext
      <3>3. a \in ASdus /\ Regular(a)
        BY <2>1, <3>2 DEF AllRegular, FramingInvariant, Typed
      <3>4. settings \in FieldLengths
        BY SettingsAssumption DEF FramingInvariant, Typed, FieldLengths
      <3>5. OctetsRead(a.type, Vsq(a), ASduOctets(a, settings), a.octets, settings)
              = PayloadOctets(a, settings)
        BY <3>3, <3>4, ASdusAssumption, RegularRoundTrip
      <3> QED
        BY <3>1, <3>2, <3>5 DEF Read, Carries
    <2> QED
      BY <1>4, <2>1, ForwardKeeps DEF LosesStep
  <1>5. CASE Closes
    BY <1>5 DEF Closes, senderVars, readerVars, sentVars, FramingInvariant, Typed,
       Counted, Windowed, Numbered, InOrder, Identical, AllRegular, NothingAfterGap
  <1>6. CASE HandleReceiveSequenceNumber
    <2>0. UNCHANGED <<settings, wire, delivered, accepted, failed, gap, reader,
                      sendSequenceNumber, receiveSequenceNumber>>
      BY <1>6 DEF HandleReceiveSequenceNumber, readerVars, sentVars
    <2>1. Windowed'
      <3>1. PICK k \in Nat :
              /\ k <= Len(delivered)
              /\ acknowledgedSendSequenceNumber = k % SeqModulus
              /\ Len(accepted) + failed - k <= MaxNumOfOutstandingIPdus
        BY DEF FramingInvariant, Windowed
      <3>2. /\ Len(delivered) \in Nat /\ Len(accepted) \in Nat /\ failed \in Nat
            /\ Len(delivered) <= Len(accepted)
        BY DEF FramingInvariant, Typed, Counted
      <3>3. Len(delivered) - k < SeqModulus
        BY <3>1, <3>2, WindowAssumption, SeqModulusAssumption
      <3>4. sequenceNumberDiff(receiveSequenceNumber, acknowledgedSendSequenceNumber)
              = Len(delivered) - k
        BY <3>1, <3>2, <3>3, DiffIsDistance DEF FramingInvariant, Counted
      <3>5. PICK n \in 1 .. Len(delivered) - k :
              acknowledgedSendSequenceNumber' = ((k % SeqModulus) + n) % SeqModulus
        BY <1>6, <3>1, <3>4 DEF HandleReceiveSequenceNumber
      <3>6. k + n \in Nat /\ n \in Nat /\ k + n <= Len(delivered)
        BY <3>2, <3>5
      <3>7. acknowledgedSendSequenceNumber' = (k + n) % SeqModulus
        BY <3>5, <3>6, AddToRemainder
      <3>8. Len(accepted) + failed - (k + n) <= MaxNumOfOutstandingIPdus
        BY <3>1, <3>2, <3>6, WindowAssumption
      <3> QED
        BY <2>0, <3>6, <3>7, <3>8 DEF Windowed
    <2> QED
      BY <2>0, <2>1 DEF FramingInvariant, Typed, Counted, Numbered, InOrder,
         Identical, AllRegular, NothingAfterGap
  <1>7. CASE UNCHANGED vars
    BY <1>7 DEF vars, senderVars, readerVars, sentVars, FramingInvariant, Typed,
       Counted, Windowed, Numbered, InOrder, Identical, AllRegular, NothingAfterGap
  <1> QED
    BY <1>1, <1>2, <1>3, <1>4, <1>5, <1>6, <1>7
    DEF Next, Reader, RejectFrame, LostReaderCloses, NoAckReceived

(* FramingInvariant holds in every state: what the four theorems rest on.   *)
THEOREM FramingInvariantHolds ==
  Spec => []FramingInvariant
  <1>1. Init => FramingInvariant
    BY InitInvariant
  <1>2. FramingInvariant /\ [Next]_vars => FramingInvariant'
    BY NextKeeps
  <1> QED
    BY <1>1, <1>2, PTL DEF Spec

(* InStep for every window, modulus and set of ASDUs: APdu.decode and       *)
(* ASdu.decode never lose the frames of a peer that sends regular ASDUs.    *)
THEOREM ReaderStaysInStep ==
  Spec => []InStep
  <1>1. FramingInvariant => InStep
    BY DEF FramingInvariant, Identical, InStep
  <1> QED
    BY <1>1, FramingInvariantHolds, PTL

(* DeliveredAsSent: what was forwarded is what send was given, object for   *)
(* object, as ASdu.encode and ASdu.decode agree on the qualifier.           *)
THEOREM RegularAsDusArrive ==
  Spec => []DeliveredAsSent
  <1>1. FramingInvariant => DeliveredAsSent
    <2> DEFINE c == [i \in 1 .. Len(accepted) |-> Content(accepted[i])]
               C == {Content(a) : a \in ASdus}
               D == Len(delivered)
    <2> SUFFICES ASSUME FramingInvariant, AllRegular
                 PROVE  IsPrefix(delivered, c)
      BY DEF DeliveredAsSent
    <2>1. /\ D \in Nat /\ Len(accepted) \in Nat /\ Len(wire) \in Nat
          /\ D + Len(wire) = Len(accepted)
          /\ \A i \in 1 .. D : delivered[i] = Content(accepted[i])
      BY DEF FramingInvariant, Typed, Counted, Identical
    <2>2. D <= Len(accepted)
      BY <2>1
    <2>3. \A i \in 1 .. Len(accepted) : Content(accepted[i]) \in C
      BY DEF FramingInvariant, Typed
    <2>4. /\ Len(c) = Len(accepted)
          /\ \A i \in 1 .. Len(accepted) : c[i] = Content(accepted[i])
      BY <2>1
    <2>5. \A i \in 1 .. D : delivered[i] = c[i] /\ delivered[i] \in C /\ c[i] \in C
      BY <2>1, <2>2, <2>3, <2>4
    <2> HIDE DEF C, c
    <2>6. /\ SubSeq(delivered, 1, D) \in Seq(C)
          /\ SubSeq(c, 1, D) \in Seq(C)
          /\ Len(SubSeq(delivered, 1, D)) = D /\ Len(SubSeq(c, 1, D)) = D
          /\ \A i \in 1 .. D : /\ SubSeq(delivered, 1, D)[i] = delivered[i]
                               /\ SubSeq(c, 1, D)[i] = c[i]
      BY <2>1, <2>5, SubSeqProperties
    <2>7. SubSeq(delivered, 1, D) = SubSeq(c, 1, D)
      BY <2>1, <2>5, <2>6, SeqEqual
    <2> QED
      BY <2>2, <2>4, <2>7 DEF IsPrefix
  <1> QED
    BY <1>1, FramingInvariantHolds, PTL

(* NothingAfterGap: no number of failed encodings wraps N(S) round to the   *)
(* one that verifySeqNumber expects, as the window counts them too.         *)
THEOREM GapIsNeverCrossed ==
  Spec => []NothingAfterGap
  <1>1. FramingInvariant => NothingAfterGap
    BY DEF FramingInvariant
  <1> QED
    BY <1>1, FramingInvariantHolds, PTL

(* AnswersRegular: what ASdu.decode returns can be sent back.               *)
THEOREM AnswersAreRegular ==
  Spec => []AnswersRegular
  <1>1. FramingInvariant => AnswersRegular
    <2> SUFFICES ASSUME FramingInvariant, NEW i \in 1 .. Len(delivered),
                        Confirmable(delivered[i])
                 PROVE  Regular(delivered[i])
      BY DEF AnswersRegular
    <2>1. delivered[i] \in Received
      BY DEF FramingInvariant, Typed
    <2>2. PICK f \in WireFrames, s \in Settings :
            Decodable(f)
              /\ delivered[i] = Decoded(f.type, f.vsq, f.aSduLength, f.segment, s)
      BY <2>1 DEF Received
    <2>3. delivered[i].type = f.type
      BY <2>2 DEF Decoded
    <2>4. /\ f.type # "private"
          /\ f.type \in DOMAIN Elements \/ ObjectsRead(f.vsq) = 0
      BY <2>2, <2>3 DEF Confirmable, Decodable
    <2>5. f.vsq \in 0 .. 255
      BY VsqRoundTrip, ASdusAssumption DEF WireFrames
    <2> QED
      BY <2>2, <2>4, <2>5, DecodedIsRegular
  <1> QED
    BY <1>1, FramingInvariantHolds, PTL

----------------------------------------------------------------------------
(* Without a file segment an element is at most seven octets long, so a set *)
(* of elements is at most seven octets for each of them.                    *)

LEMMA SmallestNat ==
  ASSUME NEW S \in SUBSET Nat, S # {}
  PROVE  \E n \in S : \A m \in S : n <= m
  <1>1. PICK n \in S : \A m \in S : <<m, n>> \notin OpToRel(<, Nat)
    BY NatLessThanWellFounded, WFMin
  <1>2. ASSUME NEW m \in S, ~(n <= m)
        PROVE  FALSE
    <2>1. m \in Nat /\ n \in Nat /\ m < n
      BY <1>2
    <2>2. <<m, n>> \in Nat \X Nat /\ <<m, n>>[1] < <<m, n>>[2]
      BY <2>1
    <2>3. <<m, n>> \in OpToRel(<, Nat)
      BY <2>2 DEF OpToRel
    <2> QED
      BY <1>1, <2>3
  <1> QED
    BY <1>2

LEMMA SetOctetsAtMost ==
  ASSUME NEW e \in Seq(DOMAIN ElementOctets)
  PROVE  SetOctets(e, 0) <= 7 * Len(e)
  <1> DEFINE N == DOMAIN ElementOctets
             Long(f) == SetOctets(f, 0) > 7 * Len(f)
             Bad == {Len(f) : f \in {g \in Seq(N) : Long(g)}}
  <1>1. SUFFICES ASSUME Bad # {} PROVE FALSE
    <2>1. SetOctets(e, 0) \in Nat /\ Len(e) \in Nat
      BY SetOctetsType
    <2>2. ~Long(e)
      BY <1>1
    <2> QED
      BY <2>1, <2>2
  <1>2. PICK n \in Bad : \A m \in Bad : n <= m
    <2>1. Bad \in SUBSET Nat
      OBVIOUS
    <2> HIDE DEF Bad
    <2> QED
      BY <1>1, <2>1, SmallestNat
  <1>3. PICK f \in Seq(N) : Len(f) = n /\ Long(f)
    OBVIOUS
  <1>4. f # <<>>
    BY <1>3, SetOctetsEmpty
  <1> DEFINE h == SubSeq(f, 1, Len(f) - 1)
             x == f[Len(f)]
  <1>5. /\ f = Append(h, x) /\ h \in Seq(N) /\ x \in N
        /\ Len(h) = Len(f) - 1 /\ Len(f) \in Nat /\ Len(h) \in Nat
    <2> HIDE DEF N
    <2>1. Len(f) \in Nat /\ Len(f) >= 1 /\ \A i \in 1 .. Len(f) : f[i] \in N
      BY <1>4, EmptySeq
    <2>2. /\ h \in Seq(N) /\ Len(h) = Len(f) - 1
          /\ \A i \in 1 .. Len(f) - 1 : h[i] = f[i]
      <3>1. 1 \in 1 .. Len(f) + 1 /\ Len(f) - 1 \in 1 - 1 .. Len(f)
        BY <2>1
      <3>2. /\ h \in Seq(N)
            /\ Len(h) = IF 1 <= Len(f) - 1 THEN Len(f) - 1 - 1 + 1 ELSE 0
            /\ \A i \in 1 .. Len(f) - 1 - 1 + 1 : h[i] = f[1 + i - 1]
        BY <2>1, <3>1, SubSeqProperties
      <3> DEFINE k == Len(f)
      <3>3. k \in Nat /\ k >= 1
        BY <2>1
      <3> HIDE DEF k
      <3>4. /\ k - 1 - 1 + 1 = k - 1
            /\ (IF 1 <= k - 1 THEN k - 1 - 1 + 1 ELSE 0) = k - 1
            /\ \A i \in 1 .. k - 1 : 1 + i - 1 = i
        BY <3>3
      <3>5. /\ Len(h) = k - 1
            /\ \A i \in 1 .. k - 1 : h[i] = f[1 + i - 1]
        BY <3>2, <3>4 DEF k
      <3>6. \A i \in 1 .. k - 1 : h[i] = f[i]
        BY <3>4, <3>5
      <3> QED
        BY <3>2, <3>5, <3>6 DEF k
    <2>3. x \in N
      BY <2>1
    <2> HIDE DEF h, N
    <2>4. /\ Append(h, x) \in Seq(N) /\ Len(Append(h, x)) = Len(f)
          /\ \A i \in 1 .. Len(f) : Append(h, x)[i] = f[i]
      BY <2>1, <2>2, <2>3, AppendProperties
    <2>5. f = Append(h, x)
      BY <2>4, SeqEqual
    <2> QED
      BY <2>1, <2>2, <2>3, <2>5
  <1> HIDE DEF h, x
  <1>6. SetOctets(h, 0) \in Nat /\ SetOctets(f, 0) = SetOctets(h, 0) + ElementLength(x, 0)
    BY <1>5, SetOctetsAppend
  <1>7. ElementLength(x, 0) \in 0 .. 7
    BY <1>5, ElementLengthType
  <1>8. Long(h)
    <2> DEFINE p == SetOctets(h, 0)
               q == SetOctets(f, 0)
               y == ElementLength(x, 0)
               j == Len(h)
               k == Len(f)
    <2>1. q > 7 * k
      BY <1>3
    <2>2. /\ p \in Nat /\ q = p + y /\ y \in 0 .. 7
          /\ j \in Nat /\ k \in Nat /\ j = k - 1
      BY <1>5, <1>6, <1>7
    <2> HIDE DEF p, q, y, j, k
    <2>3. p > 7 * j
      BY <2>1, <2>2
    <2> QED
      BY <2>3 DEF p, j
  <1>9. Len(h) \in Bad
    BY <1>5, <1>8
  <1> QED
    BY <1>2, <1>3, <1>5, <1>9

LEMMA ElementsType ==
  \A type \in DOMAIN Elements :
    /\ type # "private"
    /\ Elements[type] \in Seq(DOMAIN ElementOctets) /\ Len(Elements[type]) <= 4
  <1> DEFINE N == DOMAIN ElementOctets
             Short == {e \in Seq(N) : Len(e) \in 0 .. 4}
  <1>1. {"SinglePoint", "DoublePoint", "Quality", "TransientValue",
         "BinaryState", "NormalizedValue", "ScaledValue", "ShortFloat",
         "BinaryCounterReading", "StatusAndStatusChanges",
         "SingleProtectionEvent", "ProtectionStartEvent", "ProtectionOutput",
         "ProtectionQuality", "Time16", "Time24", "Time56", "SingleCommand",
         "DoubleCommand", "RegulatingStepCommand", "SetPointQualifier",
         "CauseOfInitialization", "Interrogation", "CounterInterrogation",
         "TestBitPattern", "ResetProcess", "TestSequenceCounter",
         "ParameterOfMeasured", "ParameterActivation", "NameOfFile",
         "NameOfSection", "LengthOfFile", "FileReady", "SectionReady",
         "SelectAndCall", "LastSection", "Checksum", "AckFile", "FileSegment",
         "StatusOfFile"} \subseteq N
    BY DEF ElementOctets
  <1>2. <<>> \in Seq(N) /\ \A a, b, c, d \in N :
          /\ <<a>> \in Seq(N) /\ <<a, b>> \in Seq(N)
          /\ <<a, b, c>> \in Seq(N) /\ <<a, b, c, d>> \in Seq(N)
    OBVIOUS
  <1> HIDE DEF N, Short
  <1>3. \A t \in {"M_SP_NA_1", "M_SP_TA_1", "M_DP_NA_1", "M_DP_TA_1",
           "M_ST_NA_1", "M_ST_TA_1", "M_BO_NA_1", "M_BO_TA_1", "M_ME_NA_1",
           "M_ME_TA_1", "M_ME_NB_1", "M_ME_TB_1", "M_ME_NC_1", "M_ME_TC_1"} :
          Elements[t] \in Short
    <2>1. {Elements.M_SP_NA_1, Elements.M_SP_TA_1, Elements.M_DP_NA_1,
           Elements.M_DP_TA_1, Elements.M_ST_NA_1, Elements.M_ST_TA_1,
           Elements.M_BO_NA_1, Elements.M_BO_TA_1, Elements.M_ME_NA_1,
           Elements.M_ME_TA_1, Elements.M_ME_NB_1, Elements.M_ME_TB_1,
           Elements.M_ME_NC_1, Elements.M_ME_TC_1} \subseteq Seq(N)
      BY <1>1, <1>2 DEF Elements
    <2>2. {Len(Elements.M_SP_NA_1), Len(Elements.M_SP_TA_1),
           Len(Elements.M_DP_NA_1), Len(Elements.M_DP_TA_1),
           Len(Elements.M_ST_NA_1), Len(Elements.M_ST_TA_1),
           Len(Elements.M_BO_NA_1), Len(Elements.M_BO_TA_1),
           Len(Elements.M_ME_NA_1), Len(Elements.M_ME_TA_1),
           Len(Elements.M_ME_NB_1), Len(Elements.M_ME_TB_1),
           Len(Elements.M_ME_NC_1), Len(Elements.M_ME_TC_1)} \subseteq 0 .. 4
      BY DEF Elements
    <2> HIDE DEF N
    <2> QED
      BY <2>1, <2>2 DEF Short
  <1>4. \A t \in {"M_IT_NA_1", "M_IT_TA_1", "M_EP_TA_1", "M_EP_TB_1",
           "M_EP_TC_1", "M_PS_NA_1", "M_ME_ND_1", "M_SP_TB_1", "M_DP_TB_1",
           "M_ST_TB_1", "M_BO_TB_1", "M_ME_TD_1", "M_ME_TE_1", "M_ME_TF_1"} :
          Elements[t] \in Short
    <2>1. {Elements.M_IT_NA_1, Elements.M_IT_TA_1, Elements.M_EP_TA_1,
           Elements.M_EP_TB_1, Elements.M_EP_TC_1, Elements.M_PS_NA_1,
           Elements.M_ME_ND_1, Elements.M_SP_TB_1, Elements.M_DP_TB_1,
           Elements.M_ST_TB_1, Elements.M_BO_TB_1, Elements.M_ME_TD_1,
           Elements.M_ME_TE_1, Elements.M_ME_TF_1} \subseteq Seq(N)
      BY <1>1, <1>2 DEF Elements
    <2>2. {Len(Elements.M_IT_NA_1), Len(Elements.M_IT_TA_1),
           Len(Elements.M_EP_TA_1), Len(Elements.M_EP_TB_1),
           Len(Elements.M_EP_TC_1), Len(Elements.M_PS_NA_1),
           Len(Elements.M_ME_ND_1), Len(Elements.M_SP_TB_1),
           Len(Elements.M_DP_TB_1), Len(Elements.M_ST_TB_1),
           Len(Elements.M_BO_TB_1), Len(Elements.M_ME_TD_1),
           Len(Elements.M_ME_TE_1), Len(Elements.M_ME_TF_1)} \subseteq 0 .. 4
      BY DEF Elements
    <2> HIDE DEF N
    <2> QED
      BY <2>1, <2>2 DEF Short
  <1>5. \A t \in {"M_IT_TB_1", "M_EP_TD_1", "M_EP_TE_1", "M_EP_TF_1",
           "C_SC_NA_1", "C_DC_NA_1", "C_RC_NA_1", "C_SE_NA_1", "C_SE_NB_1",
           "C_SE_NC_1", "C_BO_NA_1", "C_SC_TA_1", "C_DC_TA_1", "C_RC_TA_1"} :
          Elements[t] \in Short
    <2>1. {Elements.M_IT_TB_1, Elements.M_EP_TD_1, Elements.M_EP_TE_1,
           Elements.M_EP_TF_1, Elements.C_SC_NA_1, Elements.C_DC_NA_1,
           Elements.C_RC_NA_1, Elements.C_SE_NA_1, Elements.C_SE_NB_1,
           Elements.C_SE_NC_1, Elements.C_BO_NA_1, Elements.C_SC_TA_1,
           Elements.C_DC_TA_1, Elements.C_RC_TA_1} \subseteq Seq(N)
      BY <1>1, <1>2 DEF Elements
    <2>2. {Len(Elements.M_IT_TB_1), Len(Elements.M_EP_TD_1),
           Len(Elements.M_EP_TE_1), Len(Elements.M_EP_TF_1),
           Len(Elements.C_SC_NA_1), Len(Elements.C_DC_NA_1),
           Len(Elements.C_RC_NA_1), Len(Elements.C_SE_NA_1),
           Len(Elements.C_SE_NB_1), Len(Elements.C_SE_NC_1),
           Len(Elements.C_BO_NA_1), Len(Elements.C_SC_TA_1),
           Len(Elements.C_DC_TA_1), Len(Elements.C_RC_TA_1)} \subseteq 0 .. 4
      BY DEF Elements
    <2> HIDE DEF N
    <2> QED
      BY <2>1, <2>2 DEF Short
  <1>6. \A t \in {"C_SE_TA_1", "C_SE_TB_1", "C_SE_TC_1", "C_BO_TA_1",
           "M_EI_NA_1", "C_IC_NA_1", "C_CI_NA_1", "C_RD_NA_1", "C_CS_NA_1",
           "C_TS_NA_1", "C_RP_NA_1", "C_CD_NA_1", "C_TS_TA_1", "P_ME_NA_1"} :
          Elements[t] \in Short
    <2>1. {Elements.C_SE_TA_1, Elements.C_SE_TB_1, Elements.C_SE_TC_1,
           Elements.C_BO_TA_1, Elements.M_EI_NA_1, Elements.C_IC_NA_1,
           Elements.C_CI_NA_1, Elements.C_RD_NA_1, Elements.C_CS_NA_1,
           Elements.C_TS_NA_1, Elements.C_RP_NA_1, Elements.C_CD_NA_1,
           Elements.C_TS_TA_1, Elements.P_ME_NA_1} \subseteq Seq(N)
      BY <1>1, <1>2 DEF Elements
    <2>2. {Len(Elements.C_SE_TA_1), Len(Elements.C_SE_TB_1),
           Len(Elements.C_SE_TC_1), Len(Elements.C_BO_TA_1),
           Len(Elements.M_EI_NA_1), Len(Elements.C_IC_NA_1),
           Len(Elements.C_CI_NA_1), Len(Elements.C_RD_NA_1),
           Len(Elements.C_CS_NA_1), Len(Elements.C_TS_NA_1),
           Len(Elements.C_RP_NA_1), Len(Elements.C_CD_NA_1),
           Len(Elements.C_TS_TA_1), Len(Elements.P_ME_NA_1)} \subseteq 0 .. 4
      BY DEF Elements
    <2> HIDE DEF N
    <2> QED
      BY <2>1, <2>2 DEF Short
  <1>7. \A t \in {"P_ME_NB_1", "P_ME_NC_1", "P_AC_NA_1", "F_FR_NA_1",
           "F_SR_NA_1", "F_SC_NA_1", "F_LS_NA_1", "F_AF_NA_1", "F_SG_NA_1",
           "F_DR_TA_1", "F_SC_NB_1"} :
          Elements[t] \in Short
    <2>1. {Elements.P_ME_NB_1, Elements.P_ME_NC_1, Elements.P_AC_NA_1,
           Elements.F_FR_NA_1, Elements.F_SR_NA_1, Elements.F_SC_NA_1,
           Elements.F_LS_NA_1, Elements.F_AF_NA_1, Elements.F_SG_NA_1,
           Elements.F_DR_TA_1, Elements.F_SC_NB_1} \subseteq Seq(N)
      BY <1>1, <1>2 DEF Elements
    <2>2. {Len(Elements.P_ME_NB_1), Len(Elements.P_ME_NC_1),
           Len(Elements.P_AC_NA_1), Len(Elements.F_FR_NA_1),
           Len(Elements.F_SR_NA_1), Len(Elements.F_SC_NA_1),
           Len(Elements.F_LS_NA_1), Len(Elements.F_AF_NA_1),
           Len(Elements.F_SG_NA_1), Len(Elements.F_DR_TA_1),
           Len(Elements.F_SC_NB_1)} \subseteq 0 .. 4
      BY DEF Elements
    <2> HIDE DEF N
    <2> QED
      BY <2>1, <2>2 DEF Short
  <1>8. DOMAIN Elements =
         {"M_SP_NA_1", "M_SP_TA_1", "M_DP_NA_1",
          "M_DP_TA_1", "M_ST_NA_1", "M_ST_TA_1", "M_BO_NA_1", "M_BO_TA_1",
          "M_ME_NA_1", "M_ME_TA_1", "M_ME_NB_1", "M_ME_TB_1", "M_ME_NC_1",
          "M_ME_TC_1", "M_IT_NA_1", "M_IT_TA_1", "M_EP_TA_1", "M_EP_TB_1",
          "M_EP_TC_1", "M_PS_NA_1", "M_ME_ND_1", "M_SP_TB_1", "M_DP_TB_1",
          "M_ST_TB_1", "M_BO_TB_1", "M_ME_TD_1", "M_ME_TE_1", "M_ME_TF_1",
          "M_IT_TB_1", "M_EP_TD_1", "M_EP_TE_1", "M_EP_TF_1", "C_SC_NA_1",
          "C_DC_NA_1", "C_RC_NA_1", "C_SE_NA_1", "C_SE_NB_1", "C_SE_NC_1",
          "C_BO_NA_1", "C_SC_TA_1", "C_DC_TA_1", "C_RC_TA_1", "C_SE_TA_1",
          "C_SE_TB_1", "C_SE_TC_1", "C_BO_TA_1", "M_EI_NA_1", "C_IC_NA_1",
          "C_CI_NA_1", "C_RD_NA_1", "C_CS_NA_1", "C_TS_NA_1", "C_RP_NA_1",
          "C_CD_NA_1", "C_TS_TA_1", "P_ME_NA_1", "P_ME_NB_1", "P_ME_NC_1",
          "P_AC_NA_1", "F_FR_NA_1", "F_SR_NA_1", "F_SC_NA_1", "F_LS_NA_1",
          "F_AF_NA_1", "F_SG_NA_1", "F_DR_TA_1", "F_SC_NB_1"}
    BY DEF Elements
  <1>9. \A type \in DOMAIN Elements : type # "private"
    BY <1>8
  <1>10. \A type \in DOMAIN Elements : Elements[type] \in Short
    BY <1>3, <1>4, <1>5, <1>6, <1>7, <1>8
  <1>11. \A e \in Short : e \in Seq(N) /\ Len(e) <= 4
    <2>1. \A l \in 0 .. 4 : l <= 4
      OBVIOUS
    <2> QED
      BY <2>1, Zenon DEF Short
  <1> QED
    BY <1>9, <1>10, <1>11 DEF N

LEMMA OctetsType ==
  ASSUME NEW a \in ASdu, NEW s \in FieldLengths
  PROVE  PayloadOctets(a, s) \in Nat /\ ASduOctets(a, s) \in Nat
  <1>1. /\ a.objects \in Nat /\ a.sets \in Nat /\ a.octets \in Nat
        /\ a.elements \in Seq(DOMAIN ElementOctets)
    BY DEF ASdu
  <1>2. /\ s.ioaFieldLength \in Nat /\ s.cotFieldLength \in Nat
        /\ s.commonAddressFieldLength \in Nat
    BY DEF FieldLengths
  <1> DEFINE n == SetOctets(a.elements, a.octets)
  <1>3. n \in Nat
    BY <1>1, SetOctetsType
  <1> HIDE DEF n
  <1>4. \A i, j \in Nat : i * j \in Nat /\ i + j \in Nat
    OBVIOUS
  <1>5. a.sets * n \in Nat
    BY <1>1, <1>3, <1>4
  <1>6. s.ioaFieldLength + a.sets * n \in Nat
    BY <1>2, <1>4, <1>5
  <1>7. a.objects * (s.ioaFieldLength + a.sets * n) \in Nat
    BY <1>1, <1>4, <1>6
  <1>8. PayloadOctets(a, s) \in Nat
    BY <1>1, <1>7 DEF PayloadOctets, n
  <1> QED
    BY <1>2, <1>8 DEF ASduOctets, DataUnitIdentifierOctets

LEMMA DecodedType ==
  ASSUME NEW a \in ASdu, NEW s \in FieldLengths,
         \/ a.type = "private" \/ a.type \in DOMAIN Elements
         \/ ObjectsRead(Vsq(a)) = 0
  PROVE  Decoded(a.type, Vsq(a), ASduOctets(a, s), a.octets, s) \in ASdu
  <1>1. a.octets \in Nat /\ a.type \in STRING /\ Vsq(a) \in 0 .. 255
    BY VsqRoundTrip DEF ASdu
  <1>2. a.type = "private" => PrivateOctets(ASduOctets(a, s), s) = a.octets
    BY <1>1 DEF PrivateOctets, ASduOctets, DataUnitIdentifierOctets, PayloadOctets,
       FieldLengths
  <1> DEFINE v == Vsq(a)
             e == IF a.type = "private" \/ ObjectsRead(v) = 0 THEN <<>>
                  ELSE Elements[a.type]
  <1> HIDE DEF v
  <1>3. /\ IsSequence(v) \in BOOLEAN /\ v % 128 \in Nat
        /\ ObjectsRead(v) \in Nat /\ SetsRead(a.type, v) \in Nat
    BY <1>1 DEF IsSequence, ObjectsRead, SetsRead, v
  <1>4. e \in Seq(DOMAIN ElementOctets)
    <2>1. <<>> \in Seq(DOMAIN ElementOctets)
      OBVIOUS
    <2> QED
      BY <2>1, ElementsType DEF v
  <1> QED
    BY <1>1, <1>2, <1>3, <1>4 DEF Decoded, ASdu, v

----------------------------------------------------------------------------
(* Types.  What is delivered is an ASDU only because both ends have the     *)
(* same settings: with others the length of a private one may be negative.  *)

LEMMA SettingsAreLengths == Settings \subseteq FieldLengths
  BY SettingsAssumption DEF FieldLengths

LEMMA WireFramesType == WireFrames \subseteq FrameType
  <1> SUFFICES ASSUME NEW n \in SeqNumber, NEW a \in ASdus, NEW s \in Settings
               PROVE  [sendSeqNum |-> n, type |-> a.type, vsq |-> Vsq(a),
                       payload |-> PayloadOctets(a, s),
                       aSduLength |-> ASduOctets(a, s),
                       segment |-> a.octets] \in FrameType
    BY DEF WireFrames
  <1>1. a \in ASdu /\ s \in FieldLengths
    BY ASdusAssumption, SettingsAreLengths
  <1>2. a.type \in STRING /\ a.octets \in Nat
    BY <1>1 DEF ASdu
  <1> QED
    BY <1>1, <1>2, VsqRoundTrip, OctetsType DEF FrameType

OtherTypes ==
  /\ delivered \in Seq(ASdu)
  /\ maxTimeNoAckReceived \in BOOLEAN
  /\ reader \in {"reading", "lost"} /\ closed \in BOOLEAN

LEMMA ForwardedType ==
  ASSUME FramingInvariant, delivered \in Seq(ASdu), wire # <<>>,
         Decodable(Head(wire)), Forward(Head(wire))
  PROVE  delivered' \in Seq(ASdu)
  <1> DEFINE f == Head(wire)
             a == accepted[Len(delivered) + 1]
  <1>1. Carries(f, a, settings) /\ Len(delivered) < Len(accepted)
    BY HeadIsNext
  <1>2. /\ settings \in FieldLengths
        /\ accepted \in Seq(ASdus) /\ delivered \in Seq(Received)
    BY SettingsAreLengths DEF FramingInvariant, Typed
  <1>3. a \in ASdu
    BY <1>1, <1>2, ASdusAssumption
  <1> HIDE DEF a, f
  <1>4. /\ f.type = a.type
        /\ \/ a.type = "private" \/ a.type \in DOMAIN Elements
           \/ ObjectsRead(Vsq(a)) = 0
    BY <1>1 DEF Carries, Decodable, f
  <1>5. Decoded(f.type, f.vsq, f.aSduLength, f.segment, settings) \in ASdu
    BY <1>1, <1>2, <1>3, <1>4, DecodedType DEF Carries
  <1> QED
    BY <1>5 DEF Forward, f

LEMMA OtherTypesStep ==
  ASSUME FramingInvariant, OtherTypes, [Next]_vars
  PROVE  OtherTypes'
  <1> USE DEF OtherTypes
  <1>1. ASSUME NEW a \in ASdus, Send(a) \/ EncodeThrows(a)
        PROVE  OtherTypes'
    BY <1>1 DEF Send, EncodeThrows, Numbers
  <1>2. CASE HandleIFrame
    <2>1. delivered' \in Seq(ASdu)
      BY <1>2, ForwardedType DEF HandleIFrame
    <2> QED
      BY <1>2, <2>1 DEF HandleIFrame, Forward, senderVars, sentVars
  <1>3. CASE LosesStep
    <2>1. delivered' \in Seq(ASdu)
      BY <1>3, ForwardedType DEF LosesStep
    <2> QED
      BY <1>3, <2>1 DEF LosesStep, Forward, senderVars, sentVars
  <1>4. CASE Closes
    BY <1>4 DEF Closes, senderVars, readerVars, sentVars
  <1>5. CASE HandleReceiveSequenceNumber
    BY <1>5 DEF HandleReceiveSequenceNumber, readerVars, sentVars
  <1>6. CASE UNCHANGED vars
    BY <1>6 DEF vars, senderVars, readerVars, sentVars
  <1> QED
    BY <1>1, <1>2, <1>3, <1>4, <1>5, <1>6
       DEF Next, Reader, RejectFrame, LostReaderCloses, NoAckReceived

(* Every variable of the stream keeps its type: an ASDU written has a       *)
(* length, and one that is delivered is an ASDU again.                      *)
THEOREM FramingTypeCorrect == Spec => []TypeOK
  <1>1. Init => OtherTypes
    <2> SUFFICES ASSUME Init PROVE OtherTypes
      OBVIOUS
    <2>1. maxTimeNoAckReceived \in BOOLEAN /\ closed \in BOOLEAN
      BY Zenon DEF Init
    <2>2. delivered \in Seq(ASdu) /\ reader \in {"reading", "lost"}
      BY DEF Init
    <2> QED
      BY <2>1, <2>2 DEF OtherTypes
  <1>2. FramingInvariant /\ OtherTypes /\ [Next]_vars => OtherTypes'
    BY OtherTypesStep
  <1>3. FramingInvariant /\ OtherTypes => TypeOK
    <2> SUFFICES ASSUME FramingInvariant, OtherTypes PROVE TypeOK
      OBVIOUS
    <2>1. \A n \in Nat : n % SeqModulus \in SeqNumber
      BY SeqModulusAssumption, SMT DEF SeqNumber
    <2>2. /\ Len(delivered) \in Nat /\ Len(accepted) + failed \in Nat
          /\ settings \in Settings /\ accepted \in Seq(ASdus)
          /\ failed \in Nat /\ gap \in Nat
      BY DEF FramingInvariant, Typed
    <2>3. /\ sendSequenceNumber \in SeqNumber /\ receiveSequenceNumber \in SeqNumber
          /\ acknowledgedSendSequenceNumber \in SeqNumber
      BY <2>1, <2>2 DEF FramingInvariant, Counted, Windowed
    <2>4. wire \in Seq(FrameType)
      BY WireFramesType DEF FramingInvariant, Typed
    <2> QED
      BY <2>2, <2>3, <2>4 DEF TypeOK, OtherTypes
  <1> QED
    BY <1>1, <1>2, <1>3, FramingInvariantHolds, PTL DEF Spec

(* The command methods, one object and one set of elements each: the type's *)
(* own elements are what the decoder reads, and four elements of seven      *)
(* octets fit however long the fields are.                                  *)
LEMMA CommandElements ==
  /\ Elements.C_SC_NA_1 = <<"SingleCommand">>
  /\ Elements.C_SC_TA_1 = <<"SingleCommand", "Time56">>
  /\ Elements.C_DC_NA_1 = <<"DoubleCommand">>
  /\ Elements.C_DC_TA_1 = <<"DoubleCommand", "Time56">>
  /\ Elements.C_RC_NA_1 = <<"RegulatingStepCommand">>
  /\ Elements.C_RC_TA_1 = <<"RegulatingStepCommand", "Time56">>
  /\ Elements.C_SE_NA_1 = <<"NormalizedValue", "SetPointQualifier">>
  /\ Elements.C_SE_TA_1 = <<"NormalizedValue", "SetPointQualifier", "Time56">>
  /\ Elements.C_SE_NB_1 = <<"ScaledValue", "SetPointQualifier">>
  /\ Elements.C_SE_TB_1 = <<"ScaledValue", "SetPointQualifier", "Time56">>
  /\ Elements.C_SE_NC_1 = <<"ShortFloat", "SetPointQualifier">>
  /\ Elements.C_SE_TC_1 = <<"ShortFloat", "SetPointQualifier", "Time56">>
  /\ Elements.C_BO_NA_1 = <<"BinaryState">>
  /\ Elements.C_BO_TA_1 = <<"BinaryState", "Time56">>
  /\ Elements.C_IC_NA_1 = <<"Interrogation">>
  /\ Elements.C_CI_NA_1 = <<"CounterInterrogation">>
  /\ Elements.C_RD_NA_1 = <<>>
  /\ Elements.C_CS_NA_1 = <<"Time56">>
  /\ Elements.C_TS_NA_1 = <<"TestBitPattern">>
  /\ Elements.C_RP_NA_1 = <<"ResetProcess">>
  /\ Elements.C_CD_NA_1 = <<"Time16">>
  /\ Elements.C_TS_TA_1 = <<"TestSequenceCounter", "Time56">>
  /\ Elements.P_ME_NA_1 = <<"NormalizedValue", "ParameterOfMeasured">>
  /\ Elements.P_ME_NB_1 = <<"ScaledValue", "ParameterOfMeasured">>
  /\ Elements.P_ME_NC_1 = <<"ShortFloat", "ParameterOfMeasured">>
  /\ Elements.P_AC_NA_1 = <<"ParameterActivation">>
  /\ Elements.F_FR_NA_1 = <<"NameOfFile", "LengthOfFile", "FileReady">>
  /\ Elements.F_SR_NA_1 = <<"NameOfFile", "NameOfSection", "LengthOfFile", "SectionReady">>
  /\ Elements.F_SC_NA_1 = <<"NameOfFile", "NameOfSection", "SelectAndCall">>
  /\ Elements.F_LS_NA_1 = <<"NameOfFile", "NameOfSection", "LastSection", "Checksum">>
  /\ Elements.F_AF_NA_1 = <<"NameOfFile", "NameOfSection", "AckFile">>
  /\ Elements.F_SC_NB_1 = <<"NameOfFile", "Time56", "Time56">>
  /\ Elements.F_SG_NA_1 = <<"NameOfFile", "NameOfSection", "FileSegment">>
  /\ Elements.F_DR_TA_1 = <<"NameOfFile", "LengthOfFile", "StatusOfFile", "Time56">>
  <1>1. /\ Elements.C_SC_NA_1 = <<"SingleCommand">>
        /\ Elements.C_SC_TA_1 = <<"SingleCommand", "Time56">>
        /\ Elements.C_DC_NA_1 = <<"DoubleCommand">>
        /\ Elements.C_DC_TA_1 = <<"DoubleCommand", "Time56">>
        /\ Elements.C_RC_NA_1 = <<"RegulatingStepCommand">>
        /\ Elements.C_RC_TA_1 = <<"RegulatingStepCommand", "Time56">>
        /\ Elements.C_SE_NA_1 = <<"NormalizedValue", "SetPointQualifier">>
        /\ Elements.C_SE_TA_1 = <<"NormalizedValue", "SetPointQualifier", "Time56">>
        /\ Elements.C_SE_NB_1 = <<"ScaledValue", "SetPointQualifier">>
        /\ Elements.C_SE_TB_1 = <<"ScaledValue", "SetPointQualifier", "Time56">>
        /\ Elements.C_SE_NC_1 = <<"ShortFloat", "SetPointQualifier">>
        /\ Elements.C_SE_TC_1 = <<"ShortFloat", "SetPointQualifier", "Time56">>
    BY DEF Elements
  <1>2. /\ Elements.C_BO_NA_1 = <<"BinaryState">>
        /\ Elements.C_BO_TA_1 = <<"BinaryState", "Time56">>
        /\ Elements.C_IC_NA_1 = <<"Interrogation">>
        /\ Elements.C_CI_NA_1 = <<"CounterInterrogation">>
        /\ Elements.C_RD_NA_1 = <<>>
        /\ Elements.C_CS_NA_1 = <<"Time56">>
        /\ Elements.C_TS_NA_1 = <<"TestBitPattern">>
        /\ Elements.C_RP_NA_1 = <<"ResetProcess">>
        /\ Elements.C_CD_NA_1 = <<"Time16">>
        /\ Elements.C_TS_TA_1 = <<"TestSequenceCounter", "Time56">>
        /\ Elements.P_ME_NA_1 = <<"NormalizedValue", "ParameterOfMeasured">>
        /\ Elements.P_ME_NB_1 = <<"ScaledValue", "ParameterOfMeasured">>
    BY DEF Elements
  <1>3. /\ Elements.P_ME_NC_1 = <<"ShortFloat", "ParameterOfMeasured">>
        /\ Elements.P_AC_NA_1 = <<"ParameterActivation">>
        /\ Elements.F_FR_NA_1 = <<"NameOfFile", "LengthOfFile", "FileReady">>
        /\ Elements.F_SR_NA_1 = <<"NameOfFile", "NameOfSection", "LengthOfFile", "SectionReady">>
        /\ Elements.F_SC_NA_1 = <<"NameOfFile", "NameOfSection", "SelectAndCall">>
        /\ Elements.F_LS_NA_1 = <<"NameOfFile", "NameOfSection", "LastSection", "Checksum">>
        /\ Elements.F_AF_NA_1 = <<"NameOfFile", "NameOfSection", "AckFile">>
        /\ Elements.F_SC_NB_1 = <<"NameOfFile", "Time56", "Time56">>
        /\ Elements.F_SG_NA_1 = <<"NameOfFile", "NameOfSection", "FileSegment">>
        /\ Elements.F_DR_TA_1 = <<"NameOfFile", "LengthOfFile", "StatusOfFile", "Time56">>
    BY DEF Elements
  <1> QED
    BY <1>1, <1>2, <1>3

(* One object with the one set of elements the decoder reads for its type.  *)
OneSet(a) ==
  /\ a.type \in DOMAIN Elements /\ a.elements = Elements[a.type]
  /\ a.isSequenceOfElements = FALSE
  /\ a.objects = 1 /\ a.sets = 1 /\ a.octets = 0

LEMMA OneSetEach ==
  \A type \in DOMAIN Elements : \A e :
    e = Elements[type] => OneSet(Command(type, e))
  BY DEF OneSet, Command

LEMMA CommandsAreOneSet ==
  \A a \in Commands : OneSet(a)
  <1>1. {"C_SC_NA_1", "C_SC_TA_1", "C_DC_NA_1", "C_DC_TA_1", "C_RC_NA_1",
         "C_RC_TA_1", "C_SE_NA_1", "C_SE_TA_1", "C_SE_NB_1", "C_SE_TB_1",
         "C_SE_NC_1", "C_SE_TC_1", "C_BO_NA_1", "C_BO_TA_1", "C_IC_NA_1",
         "C_CI_NA_1", "C_RD_NA_1", "C_CS_NA_1", "C_TS_NA_1", "C_RP_NA_1",
         "C_CD_NA_1", "C_TS_TA_1", "P_ME_NA_1", "P_ME_NB_1", "P_ME_NC_1",
         "P_AC_NA_1", "F_FR_NA_1", "F_SR_NA_1", "F_SC_NA_1", "F_LS_NA_1",
         "F_AF_NA_1", "F_SC_NB_1"} \subseteq DOMAIN Elements
    BY DEF Elements
  <1>2. /\ OneSet(Command("C_SC_NA_1", <<"SingleCommand">>))
        /\ OneSet(Command("C_SC_TA_1", <<"SingleCommand", "Time56">>))
        /\ OneSet(Command("C_DC_NA_1", <<"DoubleCommand">>))
        /\ OneSet(Command("C_DC_TA_1", <<"DoubleCommand", "Time56">>))
        /\ OneSet(Command("C_RC_NA_1", <<"RegulatingStepCommand">>))
        /\ OneSet(Command("C_RC_TA_1", <<"RegulatingStepCommand", "Time56">>))
        /\ OneSet(Command("C_SE_NA_1", <<"NormalizedValue", "SetPointQualifier">>))
        /\ OneSet(Command("C_SE_TA_1", <<"NormalizedValue", "SetPointQualifier", "Time56">>))
    BY <1>1, CommandElements, OneSetEach, Zenon
  <1>3. /\ OneSet(Command("C_SE_NB_1", <<"ScaledValue", "SetPointQualifier">>))
        /\ OneSet(Command("C_SE_TB_1", <<"ScaledValue", "SetPointQualifier", "Time56">>))
        /\ OneSet(Command("C_SE_NC_1", <<"ShortFloat", "SetPointQualifier">>))
        /\ OneSet(Command("C_SE_TC_1", <<"ShortFloat", "SetPointQualifier", "Time56">>))
        /\ OneSet(Command("C_BO_NA_1", <<"BinaryState">>))
        /\ OneSet(Command("C_BO_TA_1", <<"BinaryState", "Time56">>))
        /\ OneSet(Command("C_IC_NA_1", <<"Interrogation">>))
        /\ OneSet(Command("C_CI_NA_1", <<"CounterInterrogation">>))
    BY <1>1, CommandElements, OneSetEach, Zenon
  <1>4. /\ OneSet(Command("C_RD_NA_1", <<>>))
        /\ OneSet(Command("C_CS_NA_1", <<"Time56">>))
        /\ OneSet(Command("C_TS_NA_1", <<"TestBitPattern">>))
        /\ OneSet(Command("C_RP_NA_1", <<"ResetProcess">>))
        /\ OneSet(Command("C_CD_NA_1", <<"Time16">>))
        /\ OneSet(Command("C_TS_TA_1", <<"TestSequenceCounter", "Time56">>))
        /\ OneSet(Command("P_ME_NA_1", <<"NormalizedValue", "ParameterOfMeasured">>))
        /\ OneSet(Command("P_ME_NB_1", <<"ScaledValue", "ParameterOfMeasured">>))
    BY <1>1, CommandElements, OneSetEach, Zenon
  <1>5. /\ OneSet(Command("P_ME_NC_1", <<"ShortFloat", "ParameterOfMeasured">>))
        /\ OneSet(Command("P_AC_NA_1", <<"ParameterActivation">>))
        /\ OneSet(Command("F_FR_NA_1", <<"NameOfFile", "LengthOfFile", "FileReady">>))
        /\ OneSet(Command("F_SR_NA_1", <<"NameOfFile", "NameOfSection", "LengthOfFile", "SectionReady">>))
        /\ OneSet(Command("F_SC_NA_1", <<"NameOfFile", "NameOfSection", "SelectAndCall">>))
        /\ OneSet(Command("F_LS_NA_1", <<"NameOfFile", "NameOfSection", "LastSection", "Checksum">>))
        /\ OneSet(Command("F_AF_NA_1", <<"NameOfFile", "NameOfSection", "AckFile">>))
        /\ OneSet(Command("F_SC_NB_1", <<"NameOfFile", "Time56", "Time56">>))
    BY <1>1, CommandElements, OneSetEach, Zenon
  <1> QED
    BY <1>2, <1>3, <1>4, <1>5, Zenon DEF Commands

LEMMA CommandFits ==
  ASSUME NEW a, OneSet(a), settings \in FieldLengths
  PROVE  Regular(a) /\ Fits(a)
  <1> DEFINE e == a.elements
             n == SetOctets(e, 0)
             ioa == settings.ioaFieldLength
             cot == settings.cotFieldLength
             ca == settings.commonAddressFieldLength
  <1>1. /\ a.type \in DOMAIN Elements /\ e = Elements[a.type]
        /\ a.isSequenceOfElements = FALSE
        /\ a.objects = 1 /\ a.sets = 1 /\ a.octets = 0
    BY DEF OneSet
  <1>2. /\ e \in Seq(DOMAIN ElementOctets) /\ Len(e) <= 4 /\ Len(e) \in Nat
        /\ a.type # "private"
    BY <1>1, ElementsType
  <1>3. n \in Nat /\ n <= 7 * Len(e)
    BY <1>2, SetOctetsType, SetOctetsAtMost
  <1>4. ioa \in 1 .. 3 /\ cot \in 1 .. 2 /\ ca \in 1 .. 2
    BY DEF FieldLengths
  <1>5. Regular(a)
    <2>1. SequenceLength(a) = 1
      BY <1>1 DEF SequenceLength
    <2> QED
      BY <1>1, <2>1 DEF Regular
  <1> HIDE DEF e
  <1>6. PayloadOctets(a, settings) = 1 * (ioa + 1 * n)
    BY <1>1, <1>2 DEF PayloadOctets, e
  <1>7. Fits(a)
    <2> DEFINE p == PayloadOctets(a, settings)
               l == Len(e)
    <2>1. p = 1 * (ioa + 1 * n) /\ n <= 7 * l /\ l <= 4 /\ l \in Nat /\ n \in Nat
      BY <1>2, <1>3, <1>6
    <2> HIDE DEF p, l, n, ioa, cot, ca
    <2>2. 6 + (2 + cot + ca + p) <= 255
      BY <1>4, <2>1
    <2> QED
      BY <2>2 DEF Fits, ASduOctets, DataUnitIdentifierOctets, ApciLength,
         BufferLength, p, cot, ca
  <1> QED
    BY <1>5, <1>7

LEMMA DirectoryIsOneSet == OneSet(SendDirectory(1))
  <1>1. "F_DR_TA_1" \in DOMAIN Elements
    BY DEF Elements
  <1> QED
    BY <1>1, CommandElements DEF OneSet, SendDirectory, Command

LEMMA SegmentOctets ==
  SetOctets(Elements["F_SG_NA_1"], 236) = 240
  <1> DEFINE N == DOMAIN ElementOctets
             a == "NameOfFile"
             b == "NameOfSection"
             c == "FileSegment"
             r == <<>>
             p == <<a>>
             q == <<a, b>>
             e == <<a, b, c>>
             Sum(f) == SetOctets(f, 236)
  <1>1. /\ {a, b, c} \subseteq N
        /\ ElementLength(a, 236) = 2 /\ ElementLength(b, 236) = 1
        /\ ElementLength(c, 236) = 237
    BY DEF ElementOctets, ElementLength
  <1> HIDE DEF N
  <1>2. /\ <<>> \in Seq(N) /\ <<a>> \in Seq(N) /\ <<a, b>> \in Seq(N)
    BY <1>1
  <1>3. Append(<<>>, a) = <<a>>
    OBVIOUS
  <1>4. Append(<<a>>, b) = <<a, b>>
    <2>1. /\ Append(<<a>>, b) \in Seq(N) /\ <<a, b>> \in Seq(N)
          /\ Len(Append(<<a>>, b)) = 2 /\ Len(<<a, b>>) = 2
          /\ \A i \in 1 .. 2 : Append(<<a>>, b)[i] = <<a, b>>[i]
      BY <1>1, <1>2, AppendProperties
    <2> QED
      BY <2>1, SeqEqual
  <1>5. Append(<<a, b>>, c) = <<a, b, c>>
    <2>1. /\ Append(<<a, b>>, c) \in Seq(N) /\ <<a, b, c>> \in Seq(N)
          /\ Len(Append(<<a, b>>, c)) = 3 /\ Len(<<a, b, c>>) = 3
          /\ \A i \in 1 .. 3 : Append(<<a, b>>, c)[i] = <<a, b, c>>[i]
      BY <1>1, <1>2, AppendProperties
    <2> QED
      BY <2>1, SeqEqual
  <1>6. Sum(r) = 0
    BY SetOctetsEmpty
  <1>7. \A f \in Seq(N), x \in N :
          Sum(Append(f, x)) = Sum(f) + ElementLength(x, 236)
    BY SetOctetsAppend DEF N
  <1>8. /\ r \in Seq(N) /\ p \in Seq(N) /\ q \in Seq(N)
        /\ Append(r, a) = p /\ Append(p, b) = q /\ Append(q, c) = e
    BY <1>2, <1>3, <1>4, <1>5
  <1>9. e = Elements.F_SG_NA_1
    BY CommandElements, Zenon
  <1> HIDE DEF a, b, c, r, p, q, e, Sum
  <1>10. /\ Sum(p) = Sum(r) + ElementLength(a, 236)
         /\ Sum(q) = Sum(p) + ElementLength(b, 236)
         /\ Sum(e) = Sum(q) + ElementLength(c, 236)
    <2>1. a \in N /\ b \in N /\ c \in N
      BY <1>1
    <2> QED
      BY <2>1, <1>7, <1>8, Zenon
  <1>11. Sum(p) = 2
    BY <1>1, <1>6, <1>10
  <1>12. Sum(q) = 3
    BY <1>1, <1>10, <1>11
  <1>13. Sum(e) = 240
    BY <1>1, <1>10, <1>12
  <1> QED
    BY <1>9, <1>13 DEF Sum

LEMMA SegmentFits ==
  ASSUME settings \in FieldLengths
  PROVE  Regular(SendSegment(236)) /\ Fits(SendSegment(236))
  <1> DEFINE a == SendSegment(236)
             e == Elements["F_SG_NA_1"]
             ioa == settings.ioaFieldLength
             cot == settings.cotFieldLength
             ca == settings.commonAddressFieldLength
  <1>1. /\ a.type = "F_SG_NA_1" /\ a.isSequenceOfElements = FALSE /\ a.objects = 1
        /\ a.sets = 1 /\ a.elements = e /\ a.octets = 236
    BY CommandElements DEF Command, SendSegment
  <1>2. "F_SG_NA_1" \in DOMAIN Elements
    BY DEF Elements
  <1>3. ioa \in 1 .. 3 /\ cot \in 1 .. 2 /\ ca \in 1 .. 2
    BY DEF FieldLengths
  <1> HIDE DEF a, e
  <1>4. Regular(a)
    <2>1. SequenceLength(a) = 1
      BY <1>1 DEF SequenceLength
    <2> QED
      BY <1>1, <1>2, <2>1 DEF Regular, e
  <1>5. PayloadOctets(a, settings) = 1 * (ioa + 1 * 240)
    BY <1>1, SegmentOctets DEF PayloadOctets, e
  <1>6. Fits(a)
    <2> DEFINE p == PayloadOctets(a, settings)
    <2>1. p = 1 * (ioa + 1 * 240)
      BY <1>5
    <2> HIDE DEF p, ioa, cot, ca
    <2>2. 6 + (2 + cot + ca + p) <= 255
      BY <1>3, <2>1
    <2> QED
      BY <2>2 DEF Fits, ASduOctets, DataUnitIdentifierOctets, ApciLength,
         BufferLength, p, cot, ca
  <1> QED
    BY <1>4, <1>6 DEF a

(* Whatever the lengths of the settings' fields, what a command method      *)
(* builds is read back with the elements it was given and never overflows   *)
(* the buffer.                                                              *)
THEOREM CommandsAlwaysArrive == Spec => []CommandsArrive
  <1>1. FramingInvariant => CommandsArrive
    <2> SUFFICES ASSUME FramingInvariant PROVE CommandsArrive
      OBVIOUS
    <2>1. settings \in FieldLengths
      BY SettingsAreLengths DEF FramingInvariant, Typed
    <2>2. ASSUME NEW a \in Commands PROVE Regular(a) /\ Fits(a)
      BY <2>1, CommandsAreOneSet, CommandFits
    <2>3. Regular(SendDirectory(1)) /\ Fits(SendDirectory(1))
      BY <2>1, DirectoryIsOneSet, CommandFits
    <2>4. Regular(SendSegment(236)) /\ Fits(SendSegment(236))
      BY <2>1, SegmentFits
    <2> QED
      BY <2>2, <2>3, <2>4 DEF CommandsArrive
  <1> QED
    BY <1>1, FramingInvariantHolds, PTL
============================================================================
