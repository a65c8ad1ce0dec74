------------------------ MODULE SequenceNumberProofs ------------------------
(* The arithmetic of modular counters that stand for absolute counts.       *)
EXTENDS SequenceNumbers, TLAPS

(* Division with remainder, for a modulus that is not a number. *)
LEMMA Remainder ==
  ASSUME NEW n \in Nat
  PROVE  \E q \in Nat : \E r \in SeqNumber :
           r = n % SeqModulus /\ n = SeqModulus * q + r
  <1>1. n \div SeqModulus \in Nat /\ n % SeqModulus \in SeqNumber
    BY SeqModulusAssumption, SMT DEF SeqNumber
  <1>2. n = SeqModulus * (n \div SeqModulus) + (n % SeqModulus)
    BY SeqModulusAssumption, SMT
  <1> QED
    BY <1>1, <1>2

(* Two multiples of the modulus that are less than it apart. *)
LEMMA Multiples ==
  ASSUME NEW d \in Int
  PROVE  /\ d >= 2 => SeqModulus * d >= 2 * SeqModulus
         /\ d <= -1 => SeqModulus * d <= -SeqModulus
  BY SeqModulusAssumption, SMT

LEMMA Distributes ==
  ASSUME NEW a \in Int, NEW b \in Int
  PROVE  SeqModulus * (a - b) = SeqModulus * a - SeqModulus * b
  BY SeqModulusAssumption, SMT

(* A remainder is determined by its bounds and its quotient. *)
LEMMA RemainderUnique ==
  ASSUME NEW n \in Nat, NEW q \in Int, NEW r \in SeqNumber,
         n = SeqModulus * q + r
  PROVE  n % SeqModulus = r
  <1>1. PICK q1 \in Nat : \E r1 \in SeqNumber :
          r1 = n % SeqModulus /\ n = SeqModulus * q1 + r1
    BY Remainder
  <1>a. PICK r1 \in SeqNumber : r1 = n % SeqModulus /\ n = SeqModulus * q1 + r1
    BY <1>1
  <1>0. SeqModulus * (q - q1) = SeqModulus * q - SeqModulus * q1
    BY Distributes
  <1>2. SeqModulus * (q - q1) = r1 - r
    <2> DEFINE x == SeqModulus * q
               y == SeqModulus * q1
    <2>1. x \in Int /\ y \in Int /\ r \in Int /\ r1 \in Int
      BY SeqModulusAssumption DEF SeqNumber
    <2>2. x + r = y + r1
      BY <1>a
    <2>3. SeqModulus * (q - q1) = x - y
      BY <1>0
    <2> HIDE DEF x, y
    <2> QED
      BY <2>1, <2>2, <2>3
  <1>3. r1 - r < SeqModulus /\ r1 - r > -SeqModulus
    BY <1>a, SeqModulusAssumption, SMT DEF SeqNumber
  <1>4. q - q1 \in Int
    BY <1>a
  <1>5. SeqModulus * (q - q1) = 0
    <2>1. CASE q - q1 >= 1
      <3>1. SeqModulus * (q - q1) >= SeqModulus
        BY <1>4, <2>1, SeqModulusAssumption, SMT
      <3> QED BY <3>1, <1>2, <1>3, <1>a, SeqModulusAssumption, SMT DEF SeqNumber
    <2>2. CASE q - q1 <= -1
      BY <1>4, <2>2, Multiples, <1>2, <1>3, <1>a, SeqModulusAssumption, SMT DEF SeqNumber
    <2>3. CASE q - q1 = 0
      BY <2>3, SeqModulusAssumption
    <2> QED BY <1>4, <2>1, <2>2, <2>3
  <1>6. r1 = r
    BY <1>5, <1>2, <1>a, SMT DEF SeqNumber
  <1> QED
    BY <1>6, <1>a

(* NextSeq counts one on, also where it wraps. *)
LEMMA NextSeqCounts ==
  ASSUME NEW n \in Nat
  PROVE  NextSeq(n % SeqModulus) = (n + 1) % SeqModulus
  <1>0. PICK q \in Nat : \E r \in SeqNumber :
          r = n % SeqModulus /\ n = SeqModulus * q + r
    BY Remainder
  <1>1. PICK r \in SeqNumber : r = n % SeqModulus /\ n = SeqModulus * q + r
    BY <1>0
  <1>2. CASE r + 1 < SeqModulus
    <2>1. n + 1 = SeqModulus * q + (r + 1) /\ r + 1 \in SeqNumber
      BY <1>1, <1>2, SeqModulusAssumption, SMT DEF SeqNumber
    <2>2. (n + 1) % SeqModulus = r + 1
      BY <2>1, <1>1, RemainderUnique
    <2>3. (r + 1) % SeqModulus = r + 1
      BY <2>1, SeqModulusAssumption, SMT DEF SeqNumber
    <2> QED
      BY <2>2, <2>3, <1>1 DEF NextSeq
  <1>3. CASE r + 1 = SeqModulus
    <2>1. n + 1 = SeqModulus * (q + 1) + 0 /\ 0 \in SeqNumber
      BY <1>1, <1>3, SeqModulusAssumption, SMT DEF SeqNumber
    <2>2. (n + 1) % SeqModulus = 0
      BY <2>1, <1>1, RemainderUnique
    <2>3. (r + 1) % SeqModulus = 0
      BY <1>3, SeqModulusAssumption, SMT
    <2> QED
      BY <2>2, <2>3, <1>1 DEF NextSeq
  <1> QED
    BY <1>1, <1>2, <1>3, SeqModulusAssumption, SMT DEF SeqNumber

LEMMA NextSeqType ==
  ASSUME NEW n \in SeqNumber
  PROVE  NextSeq(n) \in SeqNumber
  BY SeqModulusAssumption, SMT DEF SeqNumber, NextSeq

LEMMA DiffType ==
  ASSUME NEW m \in SeqNumber, NEW n \in SeqNumber
  PROVE  sequenceNumberDiff(m, n) \in SeqNumber
  BY SeqModulusAssumption, SMT DEF SeqNumber, sequenceNumberDiff

(* The difference of two counters is the difference of the counts, if that  *)
(* is less than the modulus.                                                *)
THEOREM DiffIsDistance ==
  ASSUME NEW m \in Nat, NEW n \in Nat, n <= m, m - n < SeqModulus
  PROVE  sequenceNumberDiff(m % SeqModulus, n % SeqModulus) = m - n
  <1>a. PICK q1 \in Nat : \E r1 \in SeqNumber :
          r1 = m % SeqModulus /\ m = SeqModulus * q1 + r1
    BY Remainder
  <1>1. PICK r1 \in SeqNumber : r1 = m % SeqModulus /\ m = SeqModulus * q1 + r1
    BY <1>a
  <1>b. PICK q2 \in Nat : \E r2 \in SeqNumber :
          r2 = n % SeqModulus /\ n = SeqModulus * q2 + r2
    BY Remainder
  <1>2. PICK r2 \in SeqNumber : r2 = n % SeqModulus /\ n = SeqModulus * q2 + r2
    BY <1>b
  <1> DEFINE d == q1 - q2
  <1>3. d \in Int
    BY <1>1, <1>2
  <1>4. m - n = SeqModulus * d + (r1 - r2)
    BY <1>1, <1>2, SeqModulusAssumption, SMT DEF SeqNumber
  <1> HIDE DEF d
  <1>5. d \in {0, 1}
    BY <1>1, <1>2, <1>3, <1>4, Multiples, SeqModulusAssumption, SMT DEF SeqNumber
  <1>6. CASE d = 0
    BY <1>1, <1>2, <1>4, <1>6, SeqModulusAssumption, SMT
       DEF SeqNumber, sequenceNumberDiff
  <1>7. CASE d = 1
    BY <1>1, <1>2, <1>4, <1>7, SeqModulusAssumption, SMT
       DEF SeqNumber, sequenceNumberDiff
  <1> QED
    BY <1>5, <1>6, <1>7

(* Whatever counter n is, going on from the count b by their difference     *)
(* leads to a count that has it.                                            *)
LEMMA DiffCounts ==
  ASSUME NEW n \in SeqNumber, NEW b \in Nat
  PROVE  (b + sequenceNumberDiff(n, b % SeqModulus)) % SeqModulus = n
  <1>a. PICK q \in Nat : \E r \in SeqNumber :
          r = b % SeqModulus /\ b = SeqModulus * q + r
    BY Remainder
  <1>1. PICK r \in SeqNumber : r = b % SeqModulus /\ b = SeqModulus * q + r
    BY <1>a
  <1> DEFINE c == b + sequenceNumberDiff(n, r)
  <1>2. CASE r > n
    <2>1. c = SeqModulus * (q + 1) + n /\ c \in Nat /\ q + 1 \in Int
      BY <1>1, <1>2, SeqModulusAssumption, SMT DEF SeqNumber, sequenceNumberDiff
    <2> HIDE DEF c
    <2>2. c % SeqModulus = n
      BY <2>1, RemainderUnique
    <2> QED
      BY <1>1, <2>2 DEF c
  <1>3. CASE ~(r > n)
    <2>1. c = SeqModulus * q + n /\ c \in Nat
      BY <1>1, <1>3, SeqModulusAssumption, SMT DEF SeqNumber, sequenceNumberDiff
    <2> HIDE DEF c
    <2>2. c % SeqModulus = n
      BY <1>1, <2>1, RemainderUnique
    <2> QED
      BY <1>1, <2>2 DEF c
  <1> QED
    BY <1>2, <1>3
=============================================================================
