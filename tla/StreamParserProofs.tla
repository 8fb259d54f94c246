-------------------------- MODULE StreamParserProofs --------------------------
(***************************************************************************)
(* What the readers yield does not depend on where a body is cut into      *)
(* chunks: YieldsInOrder and ChunksDoNotMatter of StreamParser, for every  *)
(* body.                                                                   *)
(*                                                                         *)
(* The invariant (ParserInv) splits the body into the bytes that left the  *)
(* decoder and those that did not, and the characters of the former into   *)
(* the frames taken and the buffer.  Three lemmas say that a text may be   *)
(* read in the parts the steps make: DecodeConcat (a character is not      *)
(* divided), SaidConcat and TokensConcat (a frame is whole).  All of them  *)
(* speak of the positions of a sequence and count them (UpTo), so that no  *)
(* induction over a sequence is needed.                                    *)
(***************************************************************************)
EXTENDS StreamParser, FiniteSetTheorems, SequenceTheorems, TLAPS

-----------------------------------------------------------------------------
(* Picking the elements at some positions.                                 *)

\* The positions in S up to i, by whose number an element is placed.
UpTo(S, i) == {j \in S : j <= i}

\* Positions of a sequence are finitely many, and so are those up to one of them.
LEMMA UpToFinite ==
  ASSUME NEW n \in Nat, NEW S \in SUBSET (1 .. n), NEW i
  PROVE  /\ IsFiniteSet(S) /\ Cardinality(S) \in Nat
         /\ IsFiniteSet(UpTo(S, i)) /\ Cardinality(UpTo(S, i)) \in 0 .. Cardinality(S)
<1>1. IsFiniteSet(1 .. n)
  BY FS_Interval
<1>2. IsFiniteSet(S)
  BY <1>1, FS_Subset
<1>3. UpTo(S, i) \in SUBSET S
  BY DEF UpTo
<1>4. IsFiniteSet(UpTo(S, i)) /\ Cardinality(UpTo(S, i)) <= Cardinality(S)
  BY <1>2, <1>3, FS_Subset
<1>5. Cardinality(S) \in Nat /\ Cardinality(UpTo(S, i)) \in Nat
  BY <1>2, <1>4, FS_CardinalityType
<1> QED
  BY <1>2, <1>4, <1>5

\* Every place from 1 to the number of positions is that of exactly one position.
LEMMA Placed ==
  ASSUME NEW n \in Nat, NEW S \in SUBSET (1 .. n)
  PROVE  /\ \A i \in S : Cardinality(UpTo(S, i)) \in 1 .. Cardinality(S)
         /\ \A i, j \in S : Cardinality(UpTo(S, i)) = Cardinality(UpTo(S, j)) => i = j
         /\ \A k \in 1 .. Cardinality(S) : \E i \in S : Cardinality(UpTo(S, i)) = k
<1> DEFINE place == [i \in S |-> Cardinality(UpTo(S, i))]
<1>1. \A i \in S : Cardinality(UpTo(S, i)) \in 1 .. Cardinality(S)
  <2> TAKE i \in S
  <2>1. i \in UpTo(S, i)
    BY DEF UpTo
  <2>2. IsFiniteSet(UpTo(S, i)) /\ Cardinality(UpTo(S, i)) \in 0 .. Cardinality(S)
    BY UpToFinite
  <2>3. Cardinality(UpTo(S, i)) # 0
    BY <2>1, <2>2, FS_EmptySet
  <2> QED
    BY <2>2, <2>3
<1>2. ASSUME NEW i \in S, NEW j \in S, Cardinality(UpTo(S, i)) = Cardinality(UpTo(S, j)), i < j
      PROVE  FALSE
  <2>1. \A k \in S : k <= i => k <= j
    BY <1>2
  <2>2. UpTo(S, i) \in SUBSET UpTo(S, j)
    BY <2>1 DEF UpTo
  <2>3. j \in UpTo(S, j) /\ j \notin UpTo(S, i)
    BY <1>2 DEF UpTo
  <2>4. IsFiniteSet(UpTo(S, j))
    BY UpToFinite
  <2>5. UpTo(S, i) = UpTo(S, j)
    BY <1>2, <2>2, <2>4, FS_Subset
  <2> QED
    BY <2>3, <2>5
<1>3. \A i, j \in S : Cardinality(UpTo(S, i)) = Cardinality(UpTo(S, j)) => i = j
  BY <1>2
<1>4. place \in Injection(S, 1 .. Cardinality(S))
  BY <1>1, <1>3 DEF Injection, IsInjective
<1>5. Cardinality(S) \in Nat
  BY UpToFinite
<1>6. place \in Surjection(S, 1 .. Cardinality(S))
  <2>1. IsFiniteSet(1 .. Cardinality(S)) /\ Cardinality(1 .. Cardinality(S)) = Cardinality(S)
    BY <1>5, FS_Interval
  <2> QED
    BY <1>4, <2>1, FS_Injection
<1>7. \A k \in 1 .. Cardinality(S) : \E i \in S : Cardinality(UpTo(S, i)) = k
  BY <1>6 DEF Surjection
<1> QED
  BY <1>1, <1>3, <1>7

\* What Picked returns: the element at position i in the place of i.
LEMMA PickedAt ==
  ASSUME NEW V, NEW s \in Seq(V), NEW S \in SUBSET (1 .. Len(s))
  PROVE  /\ Picked(s, S) \in Seq(V)
         /\ Len(Picked(s, S)) = Cardinality(S)
         /\ \A i \in S : Picked(s, S)[Cardinality(UpTo(S, i))] = s[i]
<1> DEFINE at(k) == CHOOSE i \in S : Cardinality(UpTo(S, i)) = k
<1>1. Len(s) \in Nat
  OBVIOUS
<1>2. Picked(s, S) = [k \in 1 .. Cardinality(S) |-> s[at(k)]]
  BY DEF Picked, UpTo
<1>3. \A k \in 1 .. Cardinality(S) : at(k) \in S /\ Cardinality(UpTo(S, at(k))) = k
  BY <1>1, Placed
<1>4. Cardinality(S) \in Nat
  BY <1>1, UpToFinite
<1> HIDE DEF at
<1>5. ASSUME NEW k \in 1 .. Cardinality(S)
      PROVE  s[at(k)] \in V
  <2>1. at(k) \in 1 .. Len(s)
    BY <1>3
  <2> QED
    BY <2>1, ElementOfSeq
<1>6. Picked(s, S) \in Seq(V) /\ Len(Picked(s, S)) = Cardinality(S)
  BY <1>2, <1>4, <1>5
<1>7. ASSUME NEW i \in S
      PROVE  Picked(s, S)[Cardinality(UpTo(S, i))] = s[i]
  <2> DEFINE k == Cardinality(UpTo(S, i))
  <2>1. k \in 1 .. Cardinality(S)
    BY <1>1, Placed
  <2>2. at(k) \in S /\ Cardinality(UpTo(S, at(k))) = Cardinality(UpTo(S, i))
    BY <1>3, <2>1
  <2>3. at(k) = i
    BY <1>1, <2>2, Placed
  <2> QED
    BY <1>2, <2>1, <2>3
<1> QED
  BY <1>6, <1>7

\* No positions, no elements.
LEMMA PickedNone ==
  ASSUME NEW V, NEW s \in Seq(V)
  PROVE  Picked(s, {}) = <<>>
<1>1. Picked(s, {}) \in Seq(V) /\ Len(Picked(s, {})) = 0
  BY PickedAt, FS_EmptySet
<1> QED
  BY <1>1

\* Positions counted from n on, and positions in a sequence whose first part has n elements.
Shift(S, n) == {i + n : i \in S}
Joint(S, T, n) == S \union Shift(T, n)

\* Counting from n on does not change the number of positions.
LEMMA ShiftCardinality ==
  ASSUME NEW m \in Nat, NEW S \in SUBSET (1 .. m), NEW n \in Nat
  PROVE  IsFiniteSet(Shift(S, n)) /\ Cardinality(Shift(S, n)) = Cardinality(S)
<1> DEFINE shift == [i \in S |-> i + n]
<1>1. \A i, j \in S : i + n = j + n => i = j
  OBVIOUS
<1>2. shift \in Injection(S, Shift(S, n))
  BY <1>1 DEF Injection, IsInjective, Shift
<1>3. shift \in Surjection(S, Shift(S, n))
  BY <1>2 DEF Surjection, Injection, Shift
<1>4. IsFiniteSet(S)
  BY UpToFinite
<1> QED
  BY <1>2, <1>3, <1>4, FS_Surjection

\* Positions of both parts of a sequence: those of the second part are the larger ones.
LEMMA TwoParts ==
  ASSUME NEW m \in Nat, NEW n \in Nat, NEW S \in SUBSET (1 .. m), NEW T \in SUBSET (1 .. n)
  PROVE  /\ Joint(S, T, m) \in SUBSET (1 .. m + n)
         /\ Cardinality(Joint(S, T, m)) = Cardinality(S) + Cardinality(T)
         /\ \A i \in S : UpTo(Joint(S, T, m), i) = UpTo(S, i)
         /\ \A i \in T : Cardinality(UpTo(Joint(S, T, m), i + m)) = Cardinality(S) + Cardinality(UpTo(T, i))
<1> DEFINE U == Joint(S, T, m)
<1> USE DEF Joint
<1>1. ASSUME NEW R \in SUBSET T
      PROVE  Cardinality(S \union Shift(R, m)) = Cardinality(S) + Cardinality(R)
  <2>1. R \in SUBSET (1 .. n)
    OBVIOUS
  <2>2. IsFiniteSet(Shift(R, m)) /\ Cardinality(Shift(R, m)) = Cardinality(R)
    BY <2>1, ShiftCardinality
  <2>3. IsFiniteSet(S) /\ Cardinality(S) \in Nat /\ Cardinality(R) \in Nat
    BY <2>1, UpToFinite
  <2>4. \A i \in R : i + m \notin S
    BY <2>1
  <2>5. S \cap Shift(R, m) = {}
    BY <2>4 DEF Shift
  <2>6. Cardinality(S \union Shift(R, m)) =
          Cardinality(S) + Cardinality(Shift(R, m)) - Cardinality(S \cap Shift(R, m))
    BY <2>2, <2>3, FS_Union
  <2>7. Cardinality(S \cap Shift(R, m)) = 0
    BY <2>5, FS_EmptySet
  <2> QED
    BY <2>2, <2>3, <2>6, <2>7
<1>2. U \in SUBSET (1 .. m + n)
  <2>1. \A i \in S : i \in 1 .. m + n
    OBVIOUS
  <2>2. \A i \in T : i + m \in 1 .. m + n
    OBVIOUS
  <2> QED
    BY <2>1, <2>2 DEF Shift
<1>3. ASSUME NEW i \in S PROVE UpTo(U, i) = UpTo(S, i)
  <2>1. \A j \in T : ~(j + m <= i)
    OBVIOUS
  <2> QED
    BY <2>1 DEF UpTo, Shift
<1>4. ASSUME NEW i \in T
      PROVE  Cardinality(UpTo(U, i + m)) = Cardinality(S) + Cardinality(UpTo(T, i))
  <2>1. \A j \in S : j <= i + m
    OBVIOUS
  <2>2. \A j \in T : j + m <= i + m <=> j <= i
    OBVIOUS
  <2>3. UpTo(U, i + m) = S \union Shift(UpTo(T, i), m)
    BY <2>1, <2>2 DEF UpTo, Shift
  <2>4. UpTo(T, i) \in SUBSET T
    BY DEF UpTo
  <2> QED
    BY <1>1, <2>3, <2>4
<1>5. Cardinality(U) = Cardinality(S) + Cardinality(T)
  BY <1>1
<1> QED
  BY <1>2, <1>3, <1>4, <1>5

\* Picking from a sequence of two parts is picking from each part.
LEMMA PickedConcat ==
  \A s, t \in Seq(AllChars) : \A S \in SUBSET (1 .. Len(s)) : \A T \in SUBSET (1 .. Len(t)) :
    Picked(s \o t, Joint(S, T, Len(s))) = Picked(s, S) \o Picked(t, T)
<1> TAKE s, t \in Seq(AllChars)
<1> TAKE S \in SUBSET (1 .. Len(s))
<1> TAKE T \in SUBSET (1 .. Len(t))
<1> DEFINE U == Joint(S, T, Len(s))
           both == Picked(s \o t, U)
           parts == Picked(s, S) \o Picked(t, T)
<1>1. Len(s) \in Nat /\ Len(t) \in Nat /\ s \o t \in Seq(AllChars) /\ Len(s \o t) = Len(s) + Len(t)
  OBVIOUS
<1>2. /\ U \in SUBSET (1 .. Len(s \o t))
      /\ Cardinality(U) = Cardinality(S) + Cardinality(T)
      /\ \A i \in S : UpTo(U, i) = UpTo(S, i)
      /\ \A i \in T : Cardinality(UpTo(U, i + Len(s))) = Cardinality(S) + Cardinality(UpTo(T, i))
  <2>1. Len(s) \in Nat /\ Len(t) \in Nat /\ Len(s \o t) = Len(s) + Len(t)
    BY <1>1
  <2> QED
    BY <2>1, TwoParts
<1>3. /\ both \in Seq(AllChars)
      /\ Len(both) = Cardinality(U)
      /\ \A i \in U : both[Cardinality(UpTo(U, i))] = (s \o t)[i]
  BY <1>1, <1>2, PickedAt
<1>4. /\ Picked(s, S) \in Seq(AllChars)
      /\ Len(Picked(s, S)) = Cardinality(S)
      /\ \A i \in S : Picked(s, S)[Cardinality(UpTo(S, i))] = s[i]
  BY PickedAt
<1>5. /\ Picked(t, T) \in Seq(AllChars)
      /\ Len(Picked(t, T)) = Cardinality(T)
      /\ \A i \in T : Picked(t, T)[Cardinality(UpTo(T, i))] = t[i]
  BY PickedAt
<1>6. /\ parts \in Seq(AllChars)
      /\ Len(parts) = Len(both)
  BY <1>2, <1>3, <1>4, <1>5
<1>7. ASSUME NEW k \in 1 .. Len(both)
      PROVE  both[k] = parts[k]
  <2>1. PICK i \in U : Cardinality(UpTo(U, i)) = k
    <3> HIDE DEF U, both
    <3>1. Len(s \o t) \in Nat /\ U \in SUBSET (1 .. Len(s \o t)) /\ k \in 1 .. Cardinality(U)
      BY <1>1, <1>2, <1>3
    <3>2. \A m \in 1 .. Cardinality(U) : \E i \in U : Cardinality(UpTo(U, i)) = m
      BY <3>1, Placed
    <3> QED
      BY <3>1, <3>2
  <2>2. both[k] = (s \o t)[i]
    BY <1>3, <2>1
  <2>3. CASE i \in S
    <3>1. k \in 1 .. Cardinality(S) /\ k = Cardinality(UpTo(S, i))
      BY <1>1, <1>2, <2>1, <2>3, Placed
    <3>2. parts[k] = s[i]
      BY <1>4, <1>5, <2>3, <3>1
    <3>3. (s \o t)[i] = s[i]
      BY <2>3
    <3> QED
      BY <2>2, <3>2, <3>3
  <2>4. CASE i \in Shift(T, Len(s))
    <3>1. PICK j \in T : i = j + Len(s)
      BY <2>4 DEF Shift
    <3>2. Cardinality(UpTo(T, j)) \in 1 .. Cardinality(T) /\ k = Cardinality(S) + Cardinality(UpTo(T, j))
      BY <1>1, <1>2, <2>1, <3>1, Placed
    <3>3. parts[k] = t[j]
      BY <1>4, <1>5, <3>1, <3>2
    <3>4. (s \o t)[i] = t[j]
      BY <3>1
    <3> QED
      BY <2>2, <3>3, <3>4
  <2> QED
    BY <2>3, <2>4 DEF Joint
<1> QED
  BY <1>3, <1>6, <1>7, SeqEqual

\* A sequence with the elements of two others, in their places, is their concatenation.
LEMMA IsConcat ==
  \A s, t, u \in Seq(AllChars) :
    /\ Len(u) = Len(s) + Len(t)
    /\ \A i \in DOMAIN s : u[i] = s[i]
    /\ \A i \in DOMAIN t : u[i + Len(s)] = t[i]
    => u = s \o t
<1> TAKE s, t, u \in Seq(AllChars)
<1> HAVE /\ Len(u) = Len(s) + Len(t)
         /\ \A i \in DOMAIN s : u[i] = s[i]
         /\ \A i \in DOMAIN t : u[i + Len(s)] = t[i]
<1>1. s \o t \in Seq(AllChars) /\ Len(s \o t) = Len(u)
  OBVIOUS
<1>2. ASSUME NEW i \in 1 .. Len(u)
      PROVE  u[i] = (s \o t)[i]
  <2>1. CASE i <= Len(s)
    BY <2>1
  <2>2. CASE i > Len(s)
    <3>1. i - Len(s) \in 1 .. Len(t) /\ (i - Len(s)) + Len(s) = i
      BY <2>2
    <3>2. u[i] = t[i - Len(s)]
      BY <3>1
    <3>3. (s \o t)[i] = t[i - Len(s)]
      BY <2>2
    <3> QED
      BY <3>2, <3>3
  <2> QED
    BY <2>1, <2>2
<1> QED
  BY <1>1, <1>2, SeqEqual

-----------------------------------------------------------------------------
(* The decoder.                                                            *)

\* Bytes decode to characters.
LEMMA DecodeType ==
  ASSUME NEW bytes \in Seq(Bytes)
  PROVE  /\ [i \in DOMAIN bytes |-> Char(bytes, i)] \in Seq(AllChars)
         /\ Len([i \in DOMAIN bytes |-> Char(bytes, i)]) = Len(bytes)
         /\ Decode(bytes) \in Seq(AllChars)
<1> DEFINE chars == [i \in DOMAIN bytes |-> Char(bytes, i)]
<1>1. \A i \in 1 .. Len(bytes) : Char(bytes, i) \in AllChars
  <2> TAKE i \in 1 .. Len(bytes)
  <2>1. bytes[i] \in Bytes
    BY ElementOfSeq
  <2> QED
    BY <2>1 DEF Char, Bytes, AllChars, TokenChars
<1>2. chars \in Seq(AllChars) /\ Len(chars) = Len(bytes)
  BY <1>1
<1>3. Decode(bytes) = Picked(chars, {i \in DOMAIN bytes : ~Begins(bytes, i)})
  BY DEF Decode
<1> HIDE DEF chars
<1>4. {i \in DOMAIN bytes : ~Begins(bytes, i)} \in SUBSET (1 .. Len(chars))
  BY <1>2
<1>5. Decode(bytes) \in Seq(AllChars)
  BY <1>2, <1>3, <1>4, PickedAt
<1> QED
  BY <1>2, <1>5 DEF chars

\* Bytes may be decoded in two parts unless a character is divided between them.
LEMMA DecodeConcat ==
  ASSUME NEW a \in Seq(Bytes), NEW b \in Seq(Bytes),
         Held(a) = <<>> \/ b = <<>> \/ b[1] # "e2"
  PROVE  Decode(a \o b) = Decode(a) \o Decode(b)
<1> DEFINE n == Len(a)
           c == a \o b
           charsA == [i \in DOMAIN a |-> Char(a, i)]
           charsB == [i \in DOMAIN b |-> Char(b, i)]
           charsC == [i \in DOMAIN c |-> Char(c, i)]
           shownA == {i \in DOMAIN a : ~Begins(a, i)}
           shownB == {i \in DOMAIN b : ~Begins(b, i)}
           shownC == {i \in DOMAIN c : ~Begins(c, i)}
<1>1. /\ n \in Nat /\ Len(b) \in Nat /\ c \in Seq(Bytes) /\ Len(c) = n + Len(b)
      /\ DOMAIN a = 1 .. n /\ DOMAIN b = 1 .. Len(b) /\ DOMAIN c = 1 .. n + Len(b)
  OBVIOUS
<1>2. \A i \in 1 .. n : c[i] = a[i]
  OBVIOUS
<1>3. \A i \in 1 .. Len(b) : c[i + n] = b[i]
  OBVIOUS
<1>4. n > 0 /\ Len(b) > 0 => a[n] # "e1" \/ b[1] # "e2"
  BY <1>1 DEF Held, Last
<1> HIDE DEF n, c
<1>5. ASSUME NEW i \in 1 .. n
      PROVE  Char(c, i) = Char(a, i) /\ (Begins(c, i) <=> Begins(a, i))
  <2>1. i > 1 => c[i - 1] = a[i - 1]
    BY <1>1, <1>2
  <2>2. Ends(c, i) <=> Ends(a, i)
    BY <1>2, <2>1 DEF Ends
  <2>3. Begins(c, i) <=> Begins(a, i)
    <3>1. CASE i < n
      <4>1. c[i + 1] = a[i + 1] /\ i < Len(a) /\ i < Len(c)
        BY <3>1, <1>1, <1>2 DEF n
      <4> QED
        BY <4>1, <1>2 DEF Begins
    <3>2. CASE i = n
      <4>1. ~(i < Len(a))
        BY <3>2, <1>1 DEF n
      <4>2. i < Len(c) => c[i + 1] = b[1] /\ Len(b) > 0
        BY <3>2, <1>1, <1>3
      <4>3. ~Begins(c, i)
        BY <3>2, <4>2, <1>1, <1>2, <1>4 DEF Begins
      <4> QED
        BY <4>1, <4>3 DEF Begins
    <3> QED
      BY <3>1, <3>2, <1>1
  <2> QED
    BY <1>2, <2>2, <2>3 DEF Char
<1>6. ASSUME NEW i \in 1 .. Len(b)
      PROVE  Char(c, i + n) = Char(b, i) /\ (Begins(c, i + n) <=> Begins(b, i))
  <2>1. Ends(c, i + n) <=> Ends(b, i)
    <3>1. CASE i > 1
      <4> DEFINE k == i + n
      <4>1. k \in Int /\ k > 1 /\ c[k] = b[i] /\ c[k - 1] = b[i - 1]
        BY <3>1, <1>1, <1>3
      <4> HIDE DEF k
      <4>2. Ends(c, k) <=> Ends(b, i)
        BY <3>1, <4>1 DEF Ends
      <4> QED
        BY <4>2 DEF k
    <3>2. CASE i = 1
      <4>1. i + n > 1 => n > 0 /\ c[i + n - 1] = a[n]
        BY <3>2, <1>1, <1>2
      <4>2. ~Ends(c, i + n)
        BY <3>2, <4>1, <1>1, <1>3, <1>4 DEF Ends
      <4> QED
        BY <3>2, <4>2 DEF Ends
    <3> QED
      BY <3>1, <3>2, <1>1
  <2>2. Begins(c, i + n) <=> Begins(b, i)
    <3>1. i + n < Len(c) <=> i < Len(b)
      BY <1>1
    <3>2. i < Len(b) => c[i + n + 1] = b[i + 1]
      BY <1>1, <1>3
    <3> QED
      BY <3>1, <3>2, <1>3 DEF Begins
  <2> QED
    BY <1>3, <2>1, <2>2 DEF Char
<1>7. /\ charsA \in Seq(AllChars) /\ charsB \in Seq(AllChars) /\ charsC \in Seq(AllChars)
      /\ Len(charsA) = n /\ Len(charsB) = Len(b) /\ Len(charsC) = n + Len(b)
  BY <1>1, DecodeType DEF n
<1>8. charsC = charsA \o charsB
  <2>1. \A i \in DOMAIN charsA : charsC[i] = charsA[i]
    BY <1>1, <1>5
  <2>2. \A i \in DOMAIN charsB : charsC[i + Len(charsA)] = charsB[i]
    BY <1>1, <1>6, <1>7
  <2> HIDE DEF charsA, charsB, charsC
  <2>3. Len(charsC) = Len(charsA) + Len(charsB)
    BY <1>7
  <2> QED
    BY <1>7, <2>1, <2>2, <2>3, IsConcat
<1>9. shownC = Joint(shownA, shownB, n)
  <2>1. \A i \in 1 .. n : i \in shownC <=> i \in shownA
    BY <1>1, <1>5
  <2>2. \A i \in 1 .. Len(b) : i + n \in shownC <=> i \in shownB
    BY <1>1, <1>6
  <2>3. \A i \in 1 .. n + Len(b) : i \in 1 .. n \/ \E j \in 1 .. Len(b) : i = j + n
    <3> TAKE i \in 1 .. n + Len(b)
    <3>1. i \in 1 .. n \/ (i - n \in 1 .. Len(b) /\ i = (i - n) + n)
      BY <1>1
    <3> QED
      BY <3>1
  <2>4. shownA \subseteq 1 .. n /\ shownB \subseteq 1 .. Len(b) /\ shownC \subseteq 1 .. n + Len(b)
    BY <1>1
  <2>5. \A i \in shownA : i \in 1 .. n + Len(b)
    BY <1>1, <2>4
  <2> HIDE DEF shownA, shownB, shownC
  <2> QED
    BY <2>1, <2>2, <2>3, <2>4 DEF Joint, Shift
<1>10. Decode(a) = Picked(charsA, shownA) /\ Decode(b) = Picked(charsB, shownB) /\ Decode(c) = Picked(charsC, shownC)
  BY DEF Decode
<1>11. shownA \in SUBSET (1 .. Len(charsA)) /\ shownB \in SUBSET (1 .. Len(charsB))
  BY <1>1, <1>7
<1> HIDE DEF charsA, charsB, charsC, shownA, shownB, shownC
<1>12. Picked(charsA \o charsB, Joint(shownA, shownB, Len(charsA))) =
        Picked(charsA, shownA) \o Picked(charsB, shownB)
  BY <1>7, <1>11, PickedConcat
<1>13. Decode(c) = Decode(a) \o Decode(b)
  BY <1>7, <1>8, <1>9, <1>10, <1>12
<1> QED
  BY <1>13 DEF c

-----------------------------------------------------------------------------
(* What the lines of a text say does not depend on what follows the end of *)
(* a frame.                                                                *)

Quiet(chars) == \A i \in DOMAIN chars : chars[i] = "nl"

\* Nothing, or a text that ends with a separator.
Closed(chars) ==
  chars # <<>> =>
    /\ Len(chars) >= Len(Separator)
    /\ \A i \in DOMAIN chars : i > Len(chars) - Len(Separator) => chars[i] = "nl"

\* A separator is one or two line ends, at least as long as what a line can reach; a line
\* end says nothing.
LEMMA SeparatorFacts ==
  /\ Separator \in Seq(AllChars) /\ Quiet(Separator)
  /\ Len(Separator) \in {1, 2} /\ Reach \in {1, 2} /\ Reach <= Len(Separator)
  /\ "nl" \notin Ending /\ "nl" \notin TokenChars
<1>1. "nl" \in AllChars
  BY DEF AllChars
<1>2. CASE protocol = "ndjson"
  BY <1>1, <1>2 DEF Separator, Quiet, Reach, Ending, TokenChars
<1>3. CASE protocol # "ndjson"
  BY <1>1, <1>3 DEF Separator, Quiet, Reach, Ending, TokenChars
<1> QED
  BY <1>2, <1>3

\* Said, element by element.
LEMMA SaidType ==
  ASSUME NEW chars \in Seq(AllChars)
  PROVE  /\ Said(chars) \in Seq(AllChars)
         /\ Len(Said(chars)) = Len(chars)
         /\ DOMAIN Said(chars) = 1 .. Len(chars)
         /\ \A i \in 1 .. Len(chars) : Said(chars)[i] = IF chars[i] = "nl" \/ Alone(chars, i) THEN chars[i] ELSE "junk"
<1>1. "junk" \in AllChars
  BY DEF AllChars
<1>2. \A i \in 1 .. Len(chars) : chars[i] \in AllChars
  BY ElementOfSeq
<1>3. DOMAIN chars = 1 .. Len(chars) /\ Len(chars) \in Nat
  OBVIOUS
<1> QED
  BY <1>1, <1>2, <1>3 DEF Said

\* Two parts of a text may be read one after the other when the first is closed, or when
\* the second has line ends only.
LEMMA SaidConcat ==
  ASSUME NEW x \in Seq(AllChars), NEW y \in Seq(AllChars), Closed(x) \/ Quiet(y)
  PROVE  Said(x \o y) = Said(x) \o Said(y)
<1> DEFINE m == Len(x)
           c == x \o y
<1>1. /\ m \in Nat /\ Len(y) \in Nat /\ c \in Seq(AllChars) /\ Len(c) = m + Len(y)
      /\ DOMAIN x = 1 .. m /\ DOMAIN y = 1 .. Len(y) /\ DOMAIN c = 1 .. m + Len(y)
  OBVIOUS
<1>2. \A i \in 1 .. m : c[i] = x[i]
  OBVIOUS
<1>3. \A i \in 1 .. Len(y) : c[i + m] = y[i]
  OBVIOUS
<1>4. Reach \in {1, 2}
  BY SeparatorFacts
<1>5. \/ \A i \in 1 .. m : i > m - Reach => x[i] = "nl"
      \/ \A i \in 1 .. Len(y) : y[i] = "nl"
  <2>1. CASE Closed(x)
    <3>1. ASSUME NEW i \in 1 .. m, i > m - Reach PROVE x[i] = "nl"
      <4>1. x # <<>>
        OBVIOUS
      <4>2. i > Len(x) - Len(Separator)
        BY <3>1, SeparatorFacts
      <4> QED
        BY <2>1, <4>1, <4>2 DEF Closed
    <3> QED
      BY <3>1
  <2>2. CASE Quiet(y)
    BY <2>2 DEF Quiet
  <2> QED
    BY <2>1, <2>2
<1>6. \A j \in 1 .. m + Len(y) : j \in 1 .. m \/ (j - m \in 1 .. Len(y) /\ j = (j - m) + m)
  BY <1>1
<1> HIDE DEF m, c
<1>7. ASSUME NEW i \in 1 .. m PROVE Said(c)[i] = Said(x)[i]
  <2>1. CASE x[i] = "nl"
    BY <2>1, <1>1, <1>2, SaidType DEF m
  <2>2. CASE x[i] # "nl"
    <3>1. \A j \in 1 .. Len(y) : j + m <= i + Reach => y[j] = "nl"
      BY <2>2, <1>1, <1>4, <1>5
    <3>2. ASSUME Alone(x, i), NEW j \in 1 .. m + Len(y), i - Reach <= j, j <= i + Reach
          PROVE  j = i \/ c[j] = "nl"
      <4>1. CASE j \in 1 .. m
        BY <4>1, <3>2, <1>1, <1>2 DEF Alone
      <4>2. CASE j - m \in 1 .. Len(y) /\ j = (j - m) + m
        BY <4>2, <3>1, <3>2, <1>1, <1>3
      <4> QED
        BY <4>1, <4>2, <1>6
    <3>3. ASSUME Alone(c, i), NEW j \in 1 .. m, i - Reach <= j, j <= i + Reach
          PROVE  j = i \/ x[j] = "nl"
      BY <3>3, <1>1, <1>2 DEF Alone
    <3>4. Alone(c, i) <=> Alone(x, i)
      BY <3>2, <3>3, <1>1 DEF Alone
    <3>5. Said(c)[i] = IF c[i] = "nl" \/ Alone(c, i) THEN c[i] ELSE "junk"
      BY <1>1, SaidType
    <3>6. Said(x)[i] = IF x[i] = "nl" \/ Alone(x, i) THEN x[i] ELSE "junk"
      BY SaidType DEF m
    <3> QED
      BY <3>4, <3>5, <3>6, <1>2
  <2> QED
    BY <2>1, <2>2
<1>8. ASSUME NEW i \in 1 .. Len(y) PROVE Said(c)[i + m] = Said(y)[i]
  <2> DEFINE k == i + m
  <2>1. k \in 1 .. m + Len(y) /\ c[k] = y[i]
    BY <1>1, <1>3
  <2>2. CASE y[i] = "nl"
    <3>1. Said(c)[k] = c[k]
      <4>1. c \in Seq(AllChars) /\ k \in 1 .. Len(c)
        BY <2>1, <1>1
      <4>2. Said(c)[k] = IF c[k] = "nl" \/ Alone(c, k) THEN c[k] ELSE "junk"
        BY <4>1, SaidType
      <4> QED
        BY <4>2, <2>1, <2>2
    <3>2. Said(y)[i] = y[i]
      BY <2>2, SaidType
    <3> QED
      BY <2>1, <3>1, <3>2
  <2>3. CASE y[i] # "nl"
    <3>1. \A j \in 1 .. m : k - Reach <= j => x[j] = "nl"
      BY <2>3, <1>1, <1>4, <1>5
    <3>2. ASSUME Alone(y, i), NEW j \in 1 .. m + Len(y), k - Reach <= j, j <= k + Reach
          PROVE  j = k \/ c[j] = "nl"
      <4>1. CASE j \in 1 .. m
        BY <4>1, <3>1, <3>2, <1>2
      <4>2. CASE j - m \in 1 .. Len(y) /\ j = (j - m) + m
        <5>1. i - Reach <= j - m /\ j - m <= i + Reach
          BY <3>2, <4>2, <1>1, <1>4
        <5>2. j - m = i \/ y[j - m] = "nl"
          BY <5>1, <4>2, <3>2, <1>1 DEF Alone
        <5> QED
          BY <5>2, <4>2, <1>3
      <4> QED
        BY <4>1, <4>2, <1>6
    <3>3. ASSUME Alone(c, k), NEW j \in 1 .. Len(y), i - Reach <= j, j <= i + Reach
          PROVE  j = i \/ y[j] = "nl"
      <4>1. j + m \in 1 .. m + Len(y) /\ k - Reach <= j + m /\ j + m <= k + Reach
        BY <3>3, <1>1, <1>4
      <4>2. j + m = k \/ c[j + m] = "nl"
        BY <4>1, <3>3, <1>1 DEF Alone
      <4> QED
        BY <4>2, <1>1, <1>3
    <3>4. Alone(c, k) <=> Alone(y, i)
      BY <3>2, <3>3, <1>1 DEF Alone
    <3>5. Said(c)[k] = IF c[k] = "nl" \/ Alone(c, k) THEN c[k] ELSE "junk"
      BY <2>1, <1>1, SaidType
    <3>6. Said(y)[i] = IF y[i] = "nl" \/ Alone(y, i) THEN y[i] ELSE "junk"
      BY SaidType
    <3> QED
      BY <3>4, <3>5, <3>6, <2>1
  <2> QED
    BY <2>2, <2>3
<1>9. /\ Said(x) \in Seq(AllChars) /\ Said(y) \in Seq(AllChars) /\ Said(c) \in Seq(AllChars)
      /\ DOMAIN Said(x) = 1 .. m /\ DOMAIN Said(y) = 1 .. Len(y)
      /\ Len(Said(x)) = m /\ Len(Said(c)) = Len(Said(x)) + Len(Said(y))
  BY <1>1, SaidType DEF m
<1>10. /\ \A i \in DOMAIN Said(x) : Said(c)[i] = Said(x)[i]
       /\ \A i \in DOMAIN Said(y) : Said(c)[i + Len(Said(x))] = Said(y)[i]
  BY <1>7, <1>8, <1>9
<1>11. Said(c) = Said(x) \o Said(y)
  BY <1>9, <1>10, IsConcat
<1> QED
  BY <1>11 DEF c

-----------------------------------------------------------------------------
(* The tokens of a text, and how it ends.                                  *)

\* A set of positions has a first and a last one.
LEMMA Extremes ==
  ASSUME NEW n \in Nat, NEW S \in SUBSET (1 .. n), S # {}
  PROVE  /\ \E i \in S : \A j \in S : i <= j
         /\ \E i \in S : \A j \in S : j <= i
<1>1. IsFiniteSet(S) /\ Cardinality(S) \in Nat \ {0}
  BY UpToFinite, FS_EmptySet
<1>2. \A i, j \in S : Cardinality(UpTo(S, i)) = Cardinality(UpTo(S, j)) => i = j
  BY Placed
<1>3. \A k \in 1 .. Cardinality(S) : \E i \in S : Cardinality(UpTo(S, i)) = k
  BY Placed
<1>4. ASSUME NEW i \in S, Cardinality(UpTo(S, i)) = 1, NEW j \in S, j < i
      PROVE  FALSE
  <2>1. \A k \in S : k <= j => k <= i
    BY <1>4
  <2>2. UpTo(S, j) \in SUBSET UpTo(S, i)
    BY <2>1 DEF UpTo
  <2>3. Cardinality(UpTo(S, j)) <= 1
    BY <1>4, <2>2, UpToFinite, FS_Subset
  <2>4. Cardinality(UpTo(S, j)) \in 1 .. Cardinality(S)
    BY Placed
  <2>5. Cardinality(UpTo(S, j)) = Cardinality(UpTo(S, i))
    BY <1>1, <1>4, <2>3, <2>4
  <2> QED
    BY <1>4, <1>2, <2>5
<1>5. \E i \in S : \A j \in S : i <= j
  <2>1. PICK i \in S : Cardinality(UpTo(S, i)) = 1
    BY <1>1, <1>3
  <2>2. \A j \in S : ~(j < i)
    BY <1>4, <2>1
  <2> QED
    BY <2>2
<1>6. \E i \in S : \A j \in S : j <= i
  <2>1. PICK i \in S : Cardinality(UpTo(S, i)) = Cardinality(S)
    BY <1>1, <1>3
  <2>2. UpTo(S, i) \in SUBSET S
    BY DEF UpTo
  <2>3. UpTo(S, i) = S
    BY <1>1, <2>1, <2>2, FS_Subset
  <2> QED
    BY <2>3 DEF UpTo
<1> QED
  BY <1>5, <1>6

Yields(chars) ==
  {i \in DOMAIN Said(chars) : Said(chars)[i] \in TokenChars /\ \A j \in Stops(chars) : i < j}

\* The tokens are picked from what the lines say.
LEMMA TokensType ==
  ASSUME NEW chars \in Seq(AllChars)
  PROVE  /\ Stops(chars) \in SUBSET (1 .. Len(chars))
         /\ Yields(chars) \in SUBSET (1 .. Len(chars))
         /\ Tokens(chars) = Picked(Said(chars), Yields(chars))
         /\ Tokens(chars) \in Seq(AllChars)
<1>1. Said(chars) \in Seq(AllChars) /\ DOMAIN Said(chars) = 1 .. Len(chars) /\ Len(Said(chars)) = Len(chars)
  BY SaidType
<1>2. Stops(chars) \in SUBSET (1 .. Len(chars)) /\ Yields(chars) \in SUBSET (1 .. Len(chars))
  BY <1>1 DEF Stops, Yields
<1>3. Tokens(chars) = Picked(Said(chars), Yields(chars))
  BY DEF Tokens, Yields
<1>4. Picked(Said(chars), Yields(chars)) \in Seq(AllChars)
  BY <1>1, <1>2, PickedAt
<1> QED
  BY <1>2, <1>3, <1>4

\* Line ends yield nothing and end nothing.
LEMMA QuietTokens ==
  ASSUME NEW chars \in Seq(AllChars), Quiet(chars)
  PROVE  Stops(chars) = {} /\ Tokens(chars) = <<>>
<1>1. \A i \in 1 .. Len(chars) : Said(chars)[i] = "nl"
  BY SaidType DEF Quiet
<1>2. DOMAIN Said(chars) = 1 .. Len(chars) /\ Said(chars) \in Seq(AllChars)
  BY SaidType
<1>3. Stops(chars) = {} /\ Yields(chars) = {}
  BY <1>1, <1>2, SeparatorFacts DEF Stops, Yields
<1> QED
  BY <1>2, <1>3, TokensType, PickedNone

\* The first stop decides how a text ends.
LEMMA EndOfAt ==
  ASSUME NEW chars \in Seq(AllChars), NEW i \in Stops(chars), \A j \in Stops(chars) : i <= j
  PROVE  EndOf(chars) = IF Said(chars)[i] = "done" THEN "returned" ELSE "malformed"
<1>1. Stops(chars) \subseteq Int
  BY TokensType
<1>2. Min(Stops(chars)) \in Stops(chars) /\ \A j \in Stops(chars) : Min(Stops(chars)) <= j
  BY DEF Min
<1>3. Min(Stops(chars)) = i
  BY <1>1, <1>2
<1> QED
  BY <1>3 DEF EndOf

\* The tokens of the second part come after those of the first, unless the first ends the
\* generator; the stops are those of both.
LEMMA TokensConcat ==
  ASSUME NEW x \in Seq(AllChars), NEW y \in Seq(AllChars), Closed(x) \/ Quiet(y)
  PROVE  /\ Stops(x) = {} => Tokens(x \o y) = Tokens(x) \o Tokens(y) /\ EndOf(x \o y) = EndOf(y)
         /\ Stops(x) # {} => Tokens(x \o y) = Tokens(x) /\ EndOf(x \o y) = EndOf(x)
         /\ Stops(x \o y) = Joint(Stops(x), Stops(y), Len(x))
<1> DEFINE m == Len(x)
           c == x \o y
<1>1. m \in Nat /\ Len(y) \in Nat /\ c \in Seq(AllChars) /\ Len(c) = m + Len(y)
  OBVIOUS
<1>2. /\ Said(x) \in Seq(AllChars) /\ Len(Said(x)) = m /\ DOMAIN Said(x) = 1 .. m
      /\ Said(y) \in Seq(AllChars) /\ Len(Said(y)) = Len(y) /\ DOMAIN Said(y) = 1 .. Len(y)
      /\ DOMAIN Said(c) = 1 .. m + Len(y)
  BY <1>1, SaidType
<1>3. Said(c) = Said(x) \o Said(y)
  BY SaidConcat
<1>4. \A i \in 1 .. m : Said(c)[i] = Said(x)[i]
  BY <1>2, <1>3
<1>5. \A i \in 1 .. Len(y) : Said(c)[i + m] = Said(y)[i]
  BY <1>2, <1>3
<1>6. \A j \in 1 .. m + Len(y) : j \in 1 .. m \/ (j - m \in 1 .. Len(y) /\ j = (j - m) + m)
  BY <1>1
<1>7. /\ Stops(x) \in SUBSET (1 .. m) /\ Yields(x) \in SUBSET (1 .. m)
      /\ Stops(y) \in SUBSET (1 .. Len(y)) /\ Yields(y) \in SUBSET (1 .. Len(y))
  BY TokensType
<1>8. Tokens(x) \in Seq(AllChars) /\ Tokens(y) \in Seq(AllChars)
  BY TokensType
<1>9. Said(x) \in Seq(AllChars) /\ Said(y) \in Seq(AllChars)
  BY <1>2
<1>10. /\ Yields(x) \in SUBSET (1 .. Len(Said(x)))
       /\ Yields(y) \in SUBSET (1 .. Len(Said(y))) /\ {} \in SUBSET (1 .. Len(Said(y)))
  BY <1>2, <1>7
<1> HIDE DEF m, c
<1>11. \A i \in 1 .. m : i \in Stops(c) <=> i \in Stops(x)
  BY <1>1, <1>2, <1>4 DEF Stops
<1>12. \A i \in 1 .. Len(y) : i + m \in Stops(c) <=> i \in Stops(y)
  BY <1>1, <1>2, <1>5 DEF Stops
<1>13. Stops(c) = Joint(Stops(x), Stops(y), m)
  <2>1. Stops(c) \subseteq 1 .. m + Len(y)
    BY <1>2 DEF Stops
  <2> QED
    BY <2>1, <1>6, <1>7, <1>11, <1>12 DEF Joint, Shift
<1>14. CASE Stops(x) = {}
  <2>1. ASSUME NEW i \in 1 .. m PROVE i \in Yields(c) <=> i \in Yields(x)
    <3>1. \A j \in Stops(c) : i < j
      BY <1>14, <1>13, <1>1, <1>7 DEF Joint, Shift
    <3> QED
      BY <3>1, <1>14, <1>1, <1>2, <1>4 DEF Yields
  <2>2. ASSUME NEW i \in 1 .. Len(y) PROVE i + m \in Yields(c) <=> i \in Yields(y)
    <3>1. (\A j \in Stops(c) : i + m < j) <=> (\A j \in Stops(y) : i < j)
      <4>1. \A j \in Stops(y) : i + m < j + m <=> i < j
        BY <1>1, <1>7
      <4> QED
        BY <4>1, <1>14, <1>13 DEF Joint, Shift
    <3>2. i + m \in DOMAIN Said(c) /\ i \in DOMAIN Said(y)
      BY <1>1, <1>2
    <3> QED
      BY <3>1, <3>2, <1>5 DEF Yields
  <2>3. Yields(c) = Joint(Yields(x), Yields(y), m)
    <3>1. Yields(c) \subseteq 1 .. m + Len(y)
      BY <1>2 DEF Yields
    <3> QED
      BY <3>1, <2>1, <2>2, <1>6, <1>7 DEF Joint, Shift
  <2>4. Tokens(c) = Tokens(x) \o Tokens(y)
    <3>1. Picked(Said(x) \o Said(y), Joint(Yields(x), Yields(y), Len(Said(x)))) =
            Picked(Said(x), Yields(x)) \o Picked(Said(y), Yields(y))
      BY <1>9, <1>10, PickedConcat
    <3> QED
      BY <3>1, <2>3, <1>1, <1>2, <1>3, TokensType
  <2>5. EndOf(c) = EndOf(y)
    <3>1. CASE Stops(y) = {}
      BY <3>1, <1>13, <1>14 DEF Joint, Shift, EndOf
    <3>2. CASE Stops(y) # {}
      <4>1. PICK i \in Stops(y) : \A j \in Stops(y) : i <= j
        BY <3>2, <1>1, <1>7, Extremes
      <4>2. i + m \in Stops(c) /\ \A j \in Stops(c) : i + m <= j
        BY <4>1, <1>1, <1>7, <1>13, <1>14 DEF Joint, Shift
      <4>3. Said(c)[i + m] = Said(y)[i]
        BY <1>5, <1>7
      <4> QED
        BY <4>1, <4>2, <4>3, <1>1, EndOfAt
    <3> QED
      BY <3>1, <3>2
  <2> QED
    BY <1>13, <1>14, <2>4, <2>5 DEF c, m
<1>15. CASE Stops(x) # {}
  <2>1. PICK i \in Stops(x) : \A j \in Stops(x) : i <= j
    BY <1>15, <1>1, <1>7, Extremes
  <2>2. i \in 1 .. m /\ i \in Stops(c) /\ \A j \in Stops(c) : i <= j
    BY <2>1, <1>1, <1>7, <1>13 DEF Joint, Shift
  <2>3. EndOf(c) = EndOf(x)
    BY <2>1, <2>2, <1>1, <1>4, EndOfAt
  <2>4. Yields(c) = Joint(Yields(x), {}, m)
    <3>1. \A k \in 1 .. m : (\A j \in Stops(c) : k < j) <=> (\A j \in Stops(x) : k < j)
      BY <2>1, <2>2, <1>1, <1>7
    <3>2. ASSUME NEW k \in 1 .. m PROVE k \in Yields(c) <=> k \in Yields(x)
      <4>1. (\A j \in Stops(c) : k < j) <=> (\A j \in Stops(x) : k < j)
        BY <3>1
      <4>2. k \in DOMAIN Said(c) /\ k \in DOMAIN Said(x) /\ Said(c)[k] = Said(x)[k]
        BY <1>1, <1>2, <1>4
      <4> QED
        BY <4>1, <4>2 DEF Yields
    <3>3. Yields(c) \subseteq 1 .. m
      BY <2>2, <1>1, <1>2 DEF Yields
    <3>4. Yields(c) = Yields(x)
      BY <3>2, <3>3, <1>7
    <3> QED
      BY <3>4 DEF Joint, Shift
  <2>5. Tokens(c) = Tokens(x)
    <3>1. Picked(Said(x) \o Said(y), Joint(Yields(x), {}, Len(Said(x)))) =
            Picked(Said(x), Yields(x)) \o Picked(Said(y), {})
      BY <1>9, <1>10, PickedConcat
    <3>2. Picked(Said(y), {}) = <<>>
      BY <1>2, PickedNone
    <3>3. Tokens(c) = Tokens(x) \o <<>>
      BY <3>1, <3>2, <2>4, <1>1, <1>2, <1>3, TokensType
    <3> QED
      BY <3>3, <1>8
  <2> QED
    BY <1>13, <1>15, <2>3, <2>5 DEF c, m
<1> QED
  BY <1>14, <1>15

-----------------------------------------------------------------------------
(* The invariant.                                                          *)

Outcomes == {"reading", "returned", "malformed", "rejected"}

\* What each variable holds.
TypeOK ==
  /\ protocol \in {"ndjson", "sse", "browser"}
  /\ text \in Seq(Bytes)
  /\ unread \in Seq(Bytes)
  /\ held \in {<<>>, <<"e1">>}
  /\ buffer \in Seq(AllChars)
  /\ out \in Seq(AllChars)
  /\ outcome \in Outcomes

\* The bytes that left the decoder, and the characters that left the buffer: a text of
\* whole frames, whose tokens are those yielded and whose end is the generator's.
Progress(whole, taken) ==
  /\ text = whole \o (held \o unread)
  /\ held = <<>> => Held(whole) = <<>>
  /\ Decode(whole) = taken \o buffer
  /\ Closed(taken)
  /\ out = Tokens(taken)
  /\ outcome \in {"reading", "rejected"} => EndOf(taken) = "reading"
  /\ outcome = "malformed" => EndOf(taken) = "malformed"
  /\ outcome = "returned" =>
       \/ EndOf(taken) = "returned"
       \/ EndOf(taken) = "reading" /\ unread = <<>> /\ SeparatorsIn(buffer) = {}

\* The inductive invariant.
ParserInv == TypeOK /\ \E whole \in Seq(Bytes), taken \in Seq(AllChars) : Progress(whole, taken)

\* A text ends the generator when it has a stop.
LEMMA StillReading ==
  ASSUME NEW chars
  PROVE  /\ EndOf(chars) \in {"reading", "returned", "malformed"}
         /\ EndOf(chars) = "reading" <=> Stops(chars) = {}
  BY DEF EndOf

\* Before the first frame.
LEMMA NothingTaken == Closed(<<>>) /\ Tokens(<<>>) = <<>> /\ EndOf(<<>>) = "reading"
<1>1. <<>> \in Seq(AllChars) /\ Quiet(<<>>)
  BY DEF Quiet
<1>2. Stops(<<>>) = {} /\ Tokens(<<>>) = <<>>
  BY <1>1, QuietTokens
<1> QED
  BY <1>2, StillReading DEF Closed

\* No bytes, no characters.
LEMMA DecodeNone == Decode(<<>>) = <<>>
<1>1. <<>> \in Seq(Bytes)
  OBVIOUS
<1> DEFINE chars == [i \in DOMAIN <<>> |-> Char(<<>>, i)]
<1>2. chars \in Seq(AllChars)
  BY <1>1, DecodeType
<1>3. {i \in DOMAIN <<>> : ~Begins(<<>>, i)} = {}
  OBVIOUS
<1>4. Decode(<<>>) = Picked(chars, {})
  BY <1>3 DEF Decode
<1> HIDE DEF chars
<1> QED
  BY <1>2, <1>4, PickedNone

\* Where a separator is, character by character.
LEMMA SeparatorAt ==
  ASSUME NEW chars \in Seq(AllChars), NEW i \in Int
  PROVE  i \in SeparatorsIn(chars) <=>
           /\ 1 <= i /\ i + Len(Separator) - 1 <= Len(chars)
           /\ \A j \in i .. i + Len(Separator) - 1 : chars[j] = "nl"
<1> DEFINE L == Len(Separator)
           part == SubSeq(chars, i, i + L - 1)
<1>1. L \in {1, 2} /\ Separator \in Seq(AllChars) /\ \A k \in 1 .. L : Separator[k] = "nl"
  BY SeparatorFacts DEF Quiet
<1>2. Len(chars) \in Nat
  OBVIOUS
<1>3. i \in SeparatorsIn(chars) <=> 1 <= i /\ i + L - 1 <= Len(chars) /\ part = Separator
  BY <1>1, <1>2 DEF SeparatorsIn
<1>4. ASSUME 1 <= i, i + L - 1 <= Len(chars)
      PROVE  part = Separator <=> \A j \in i .. i + L - 1 : chars[j] = "nl"
  <2>1. part \in Seq(AllChars) /\ Len(part) = L /\ \A k \in 1 .. L : part[k] = chars[i + k - 1]
    BY <1>1, <1>2, <1>4
  <2> HIDE DEF part, L
  <2>2. part = Separator <=> \A k \in 1 .. L : part[k] = "nl"
    <3>1. Len(Separator) = L
      BY DEF L
    <3>2. ASSUME \A k \in 1 .. L : part[k] = "nl" PROVE part = Separator
      BY <3>1, <3>2, <1>1, <2>1, SeqEqual
    <3> QED
      BY <3>2, <1>1
  <2>3. ASSUME \A k \in 1 .. L : part[k] = "nl", NEW j \in i .. i + L - 1 PROVE chars[j] = "nl"
    <3>1. j - i + 1 \in 1 .. L /\ i + (j - i + 1) - 1 = j
      BY <1>1, <2>3
    <3> QED
      BY <3>1, <2>1, <2>3
  <2>4. ASSUME \A j \in i .. i + L - 1 : chars[j] = "nl", NEW k \in 1 .. L PROVE part[k] = "nl"
    <3>1. i + k - 1 \in i .. i + L - 1
      BY <1>1, <2>4
    <3> QED
      BY <3>1, <2>1, <2>4
  <2> QED
    BY <2>2, <2>3, <2>4
<1> QED
  BY <1>3, <1>4

\* What a given text says depends on the protocol alone, which no step changes.
LEMMA UnchangedText ==
  ASSUME protocol' = protocol, NEW CONSTANT chars
  PROVE  /\ Separator' = Separator
         /\ Closed(chars)' = Closed(chars)
         /\ SeparatorsIn(chars)' = SeparatorsIn(chars)
         /\ Tokens(chars)' = Tokens(chars)
         /\ EndOf(chars)' = EndOf(chars)
<1>1. Separator' = Separator /\ Reach' = Reach /\ Ending' = Ending
  BY DEF Separator, Reach, Ending
<1>2. Closed(chars)' = Closed(chars) /\ SeparatorsIn(chars)' = SeparatorsIn(chars)
  BY <1>1 DEF Closed, SeparatorsIn
<1>3. \A i : Alone(chars, i)' = Alone(chars, i)
  BY <1>1 DEF Alone
<1>4. Said(chars)' = Said(chars)
  BY <1>3 DEF Said
<1>5. Stops(chars)' = Stops(chars)
  BY <1>1, <1>4 DEF Stops
<1>6. Tokens(chars)' = Tokens(chars) /\ EndOf(chars)' = EndOf(chars)
  BY <1>4, <1>5 DEF Tokens, EndOf
<1> QED
  BY <1>1, <1>2, <1>6

\* The invariant holds before the first chunk.
LEMMA InitInv == Init => ParserInv
<1> SUFFICES ASSUME Init PROVE ParserInv
  OBVIOUS
<1> USE DEF Init
<1>1. text \in Seq(Bytes)
  BY TextAssumption
<1>2. <<>> \in Seq(Bytes) /\ <<>> \in Seq(AllChars) /\ <<>> \o (held \o unread) = text
  BY <1>1
<1>3. TypeOK
  BY <1>1 DEF TypeOK, Outcomes
<1>4. Progress(<<>>, <<>>)
  BY <1>1, <1>2, NothingTaken, DecodeNone DEF Progress, Held
<1> QED
  BY <1>2, <1>3, <1>4 DEF ParserInv

\* What the decoder holds is bytes.
LEMMA HeldBytes == \A kept \in {<<>>, <<"e1">>} : kept \in Seq(Bytes)
<1>1. "e1" \in Bytes
  BY DEF Bytes
<1>2. <<"e1">> \in Seq(Bytes)
  BY <1>1
<1>3. <<>> \in Seq(Bytes)
  OBVIOUS
<1> QED
  BY <1>2, <1>3

\* Associativity, for bytes and for characters.
LEMMA BytesRegrouped == \A x, y, z \in Seq(Bytes) : (x \o y) \o z = x \o (y \o z)
<1> TAKE x, y, z \in Seq(Bytes)
<1> QED
  BY ConcatAssociative

LEMMA CharsRegrouped == \A x, y, z \in Seq(AllChars) : (x \o y) \o z = x \o (y \o z)
<1> TAKE x, y, z \in Seq(AllChars)
<1> QED
  BY ConcatAssociative

\* The bytes that the decoder does not hold.
Shown(bytes) == SubSeq(bytes, 1, Len(bytes) - Len(Held(bytes)))

\* They are a part of the bytes given.
LEMMA ShownType == ASSUME NEW bytes \in Seq(Bytes) PROVE Shown(bytes) \in Seq(Bytes)
<1>1. Len(bytes) - Len(Held(bytes)) \in 0 .. Len(bytes)
  BY DEF Held
<1> QED
  BY <1>1 DEF Shown

\* What leaves the decoder with some more bytes, and what it holds then.
LEMMA ChunkDecodes ==
  ASSUME NEW whole \in Seq(Bytes), NEW bytes \in Seq(Bytes), bytes # <<>>,
         Held(whole) = <<>> \/ bytes[1] # "e2"
  PROVE  /\ Held(bytes) \in {<<>>, <<"e1">>}
         /\ Decode(Shown(bytes)) \in Seq(AllChars)
         /\ Shown(bytes) \o Held(bytes) = bytes
         /\ Held(bytes) = <<>> => Held(whole \o Shown(bytes)) = <<>>
         /\ Decode(whole \o Shown(bytes)) = Decode(whole) \o Decode(Shown(bytes))
<1>1. PICK shown \in Seq(Bytes) : shown = Shown(bytes)
  BY ShownType
<1>2. shown = SubSeq(bytes, 1, Len(bytes) - Len(Held(bytes)))
  BY <1>1 DEF Shown
<1>3. Len(bytes) \in Nat \ {0}
  OBVIOUS
<1>4. Held(bytes) \in {<<>>, <<"e1">>}
  BY DEF Held
<1>5. Decode(shown) \in Seq(AllChars)
  BY DecodeType
<1>6. shown \o Held(bytes) = bytes /\ (Held(bytes) = <<>> => shown = bytes)
  <2>1. CASE Held(bytes) = <<>>
    <3>1. shown = bytes
      BY <2>1, <1>3, <1>2, SubSeqFull
    <3> QED
      BY <2>1, <3>1, <1>3
  <2>2. CASE Held(bytes) = <<"e1">>
    <3>1. bytes[Len(bytes)] = "e1"
      BY <2>2 DEF Held, Last
    <3>2. shown \in Seq(Bytes) /\ Len(shown) = Len(bytes) - 1 /\ \A k \in 1 .. Len(bytes) - 1 : shown[k] = bytes[k]
      BY <2>2, <1>3, <1>2
    <3>3. shown \o <<"e1">> = bytes
      <4> DEFINE again == shown \o <<"e1">>
      <4>1. <<"e1">> \in Seq(Bytes)
        BY DEF Bytes
      <4>2. again \in Seq(Bytes) /\ Len(again) = Len(bytes)
        BY <4>1, <3>2, <1>3
      <4>3. \A k \in 1 .. Len(bytes) : again[k] = bytes[k]
        BY <4>1, <3>1, <3>2, <1>3
      <4> HIDE DEF again
      <4>4. again = bytes
        BY <4>2, <4>3, <1>3, SeqEqual
      <4> QED
        BY <4>4 DEF again
    <3>4. Held(bytes) # <<>>
      BY <2>2
    <3> QED
      BY <2>2, <3>3, <3>4
  <2> QED
    BY <2>1, <2>2, <1>4
<1>7. Held(bytes) = <<>> => Held(whole \o shown) = <<>>
  <2> SUFFICES ASSUME Held(bytes) = <<>> PROVE Held(whole \o bytes) = <<>>
    BY <1>6
  <2>1. bytes[Len(bytes)] # "e1"
    BY <1>3 DEF Held, Last
  <2>2. (whole \o bytes)[Len(whole \o bytes)] = bytes[Len(bytes)]
    BY <1>3
  <2> QED
    BY <2>1, <2>2 DEF Held, Last
<1>8. Held(whole) = <<>> \/ shown = <<>> \/ shown[1] # "e2"
  <2>1. shown # <<>> => shown[1] = bytes[1]
    BY <1>3, <1>2, <1>4
  <2> QED
    BY <2>1
<1>9. Decode(whole \o shown) = Decode(whole) \o Decode(shown)
  BY <1>5, <1>8, DecodeConcat
<1> QED
  BY <1>1, <1>4, <1>5, <1>6, <1>7, <1>9

\* Read keeps the invariant: the chunk, with what was held, is decoded as in the whole text.
LEMMA ReadInv == ASSUME ParserInv, NEW n \in 1 .. Len(unread), Read(n) PROVE ParserInv'
<1>1. PICK whole \in Seq(Bytes), taken \in Seq(AllChars) : Progress(whole, taken)
  BY DEF ParserInv
<1>2. TypeOK
  BY DEF ParserInv
<1>3. PICK chunk \in Seq(Bytes) : chunk = SubSeq(unread, 1, n) /\ chunk # <<>>
  <2>1. unread \in Seq(Bytes) /\ Len(unread) \in Nat
    BY <1>2 DEF TypeOK
  <2>2. SubSeq(unread, 1, n) \in Seq(Bytes)
    BY <2>1
  <2>3. Len(SubSeq(unread, 1, n)) = n
    BY <2>1
  <2>4. SubSeq(unread, 1, n) # <<>>
    BY <2>3
  <2> QED
    BY <2>2, <2>4
<1>4. PICK rest \in Seq(Bytes) : rest = SubSeq(unread, n + 1, Len(unread))
  <2>1. SubSeq(unread, n + 1, Len(unread)) \in Seq(Bytes)
    BY <1>2 DEF TypeOK
  <2> QED
    BY <2>1
<1>5. unread = chunk \o rest
  <2>1. unread \in Seq(Bytes) /\ Len(unread) \in Nat
    BY <1>2 DEF TypeOK
  <2>2. SubSeq(unread, 1, n) \o SubSeq(unread, n + 1, Len(unread)) = SubSeq(unread, 1, Len(unread))
    BY <2>1, ConcatAdjacentSubSeq
  <2>3. SubSeq(unread, 1, Len(unread)) = unread
    BY <2>1, SubSeqFull
  <2> QED
    BY <1>3, <1>4, <2>2, <2>3
<1>6. PICK kept \in {<<>>, <<"e1">>} : kept = held
  BY <1>2 DEF TypeOK
<1>7. PICK bytes \in Seq(Bytes) : bytes = kept \o chunk
  <2>1. kept \in Seq(Bytes)
    BY HeldBytes
  <2>2. kept \o chunk \in Seq(Bytes)
    BY <2>1
  <2> QED
    BY <2>2
<1>8. PICK shown \in Seq(Bytes) : shown = Shown(bytes)
  BY ShownType
<1>9. /\ held' = Held(bytes)
      /\ buffer' = buffer \o Decode(shown)
      /\ unread' = rest
      /\ protocol' = protocol /\ text' = text /\ out' = out /\ outcome' = outcome
  BY <1>3, <1>4, <1>6, <1>7, <1>8 DEF Read, Shown
<1>10. /\ Held(bytes) \in {<<>>, <<"e1">>}
       /\ Decode(shown) \in Seq(AllChars)
       /\ shown \o Held(bytes) = bytes
       /\ Held(bytes) = <<>> => Held(whole \o shown) = <<>>
       /\ Decode(whole \o shown) = Decode(whole) \o Decode(shown)
  <2>1. kept = <<>> => Held(whole) = <<>>
    BY <1>1, <1>6 DEF Progress
  <2>2. bytes # <<>>
    <3>1. kept \in Seq(Bytes)
      BY HeldBytes
    <3>2. Len(chunk) # 0
      BY <1>3
    <3>3. kept \in Seq(Bytes) /\ Len(chunk) # 0
      BY <3>1, <3>2
    <3>4. Len(bytes) = Len(kept) + Len(chunk)
      BY <3>3, <1>7
    <3>5. Len(kept) \in Nat /\ Len(chunk) \in Nat
      BY <3>3
    <3>6. Len(bytes) # 0
      BY <3>3, <3>4, <3>5
    <3> QED
      BY <3>6
  <2>3. kept = <<"e1">> => bytes[1] = "e1"
    BY <1>7
  <2>4. Held(whole) = <<>> \/ bytes[1] # "e2"
    BY <2>1, <2>3
  <2> QED
    BY <2>2, <2>4, <1>8, ChunkDecodes
<1>11. kept \in Seq(Bytes)
  BY HeldBytes
<1>12. Held(bytes) \in Seq(Bytes)
  BY <1>10, HeldBytes
<1>13. outcome = "reading"
  BY DEF Read, Waiting
<1>14. TypeOK'
  BY <1>2, <1>9, <1>10 DEF TypeOK
<1>15. text = (whole \o shown) \o (Held(bytes) \o rest)
  <2>1. text = whole \o (kept \o (chunk \o rest))
    BY <1>1, <1>5, <1>6 DEF Progress
  <2>2. kept \o (chunk \o rest) = bytes \o rest
    <3>1. \A x \in Seq(Bytes) : (kept \o chunk) \o x = kept \o (chunk \o x)
      BY <1>11, BytesRegrouped
    <3> QED
      BY <3>1, <1>7
  <2>3. bytes \o rest = shown \o (Held(bytes) \o rest)
    <3>1. (shown \o Held(bytes)) \o rest = shown \o (Held(bytes) \o rest)
      <4>1. \A x \in Seq(Bytes) : (shown \o Held(bytes)) \o x = shown \o (Held(bytes) \o x)
        BY <1>12, BytesRegrouped
      <4> QED
        BY <4>1
    <3> QED
      BY <3>1, <1>10
  <2>4. Held(bytes) \o rest \in Seq(Bytes)
    BY <1>12
  <2>5. whole \o (shown \o (Held(bytes) \o rest)) = (whole \o shown) \o (Held(bytes) \o rest)
    <3>1. PICK after \in Seq(Bytes) : after = Held(bytes) \o rest
      BY <2>4
    <3>2. \A x \in Seq(Bytes) : (whole \o shown) \o x = whole \o (shown \o x)
      BY BytesRegrouped
    <3>3. (whole \o shown) \o after = whole \o (shown \o after)
      BY <3>2
    <3> QED
      BY <3>1, <3>3
  <2> QED
    BY <2>1, <2>2, <2>3, <2>5
<1>16. Decode(whole \o shown) = taken \o (buffer \o Decode(shown))
  <2>1. Decode(whole \o shown) = (taken \o buffer) \o Decode(shown)
    BY <1>1, <1>10 DEF Progress
  <2>2. buffer \in Seq(AllChars)
    BY <1>2 DEF TypeOK
  <2>3. (taken \o buffer) \o Decode(shown) = taken \o (buffer \o Decode(shown))
    BY <1>10, <2>2, CharsRegrouped
  <2> QED
    BY <2>1, <2>3
<1>17. Closed(taken)' = Closed(taken) /\ Tokens(taken)' = Tokens(taken) /\ EndOf(taken)' = EndOf(taken)
  BY <1>9, UnchangedText
<1>18. PICK next \in Seq(Bytes) : next = whole \o shown
  <2>1. whole \o shown \in Seq(Bytes)
    OBVIOUS
  <2> QED
    BY <2>1
<1>19. Progress(next, taken)'
  <2>1. (text = next \o (held \o unread))' /\ (Decode(next) = taken \o buffer)' /\ (held = <<>> => Held(next) = <<>>)'
    BY <1>9, <1>10, <1>15, <1>16, <1>18
  <2>2. Closed(taken)' /\ (out = Tokens(taken))' /\ (EndOf(taken) = "reading")' /\ (outcome = "reading")'
    BY <1>1, <1>9, <1>13, <1>17 DEF Progress
  <2> QED
    BY <2>1, <2>2 DEF Progress
<1> QED
  BY <1>14, <1>19 DEF ParserInv

\* A frame and its separator, out of a text that begins with them.
LEMMA FrameTaken ==
  ASSUME NEW chars \in Seq(AllChars), NEW at \in SeparatorsIn(chars)
  PROVE  /\ SubSeq(chars, 1, at - 1) \in Seq(AllChars)
         /\ SubSeq(chars, at + Len(Separator), Len(chars)) \in Seq(AllChars)
         /\ chars = (SubSeq(chars, 1, at - 1) \o Separator) \o SubSeq(chars, at + Len(Separator), Len(chars))
<1> DEFINE L == Len(Separator)
           frame == SubSeq(chars, 1, at - 1)
           middle == SubSeq(chars, at, at + L - 1)
           left == SubSeq(chars, at + L, Len(chars))
<1>1. L \in {1, 2} /\ Separator \in Seq(AllChars)
  BY SeparatorFacts
<1>2. Len(chars) \in Nat
  OBVIOUS
<1>3. at \in 1 .. Len(chars) - L + 1 /\ middle = Separator
  BY DEF SeparatorsIn
<1>4. at \in Nat \ {0} /\ at + L - 1 <= Len(chars)
  BY <1>1, <1>2, <1>3
<1> HIDE DEF L
<1>5. frame \in Seq(AllChars) /\ left \in Seq(AllChars)
  BY <1>1, <1>2, <1>4
<1>6. frame \o middle = SubSeq(chars, 1, at + L - 1)
  <2>1. SubSeq(chars, 1, at - 1) \o SubSeq(chars, (at - 1) + 1, at + L - 1) = SubSeq(chars, 1, at + L - 1)
    BY <1>1, <1>2, <1>4, ConcatAdjacentSubSeq
  <2>2. (at - 1) + 1 = at
    BY <1>4
  <2> QED
    BY <2>1, <2>2
<1>7. SubSeq(chars, 1, at + L - 1) \o left = chars
  <2>1. SubSeq(chars, 1, at + L - 1) \o SubSeq(chars, (at + L - 1) + 1, Len(chars)) = SubSeq(chars, 1, Len(chars))
    <3>1. PICK q \in Int : q = at + L - 1
      BY <1>1, <1>4
    <3>2. 1 \in 1 .. Len(chars) + 1 /\ q \in 1 - 1 .. Len(chars) /\ Len(chars) \in q .. Len(chars)
      BY <1>1, <1>2, <1>4, <3>1
    <3>3. SubSeq(chars, 1, q) \o SubSeq(chars, q + 1, Len(chars)) = SubSeq(chars, 1, Len(chars))
      BY <1>2, <3>2, ConcatAdjacentSubSeq
    <3> QED
      BY <3>1, <3>3
  <2>2. (at + L - 1) + 1 = at + L
    BY <1>1, <1>4
  <2>3. SubSeq(chars, 1, Len(chars)) = chars
    BY SubSeqFull
  <2> QED
    BY <2>1, <2>2, <2>3
<1> QED
  BY <1>3, <1>5, <1>6, <1>7 DEF L

\* The tokens and the end of a text to which a whole frame is added.
LEMMA FrameTokens ==
  ASSUME NEW taken \in Seq(AllChars), NEW frame \in Seq(AllChars), NEW next \in Seq(AllChars),
         Closed(taken), EndOf(taken) = "reading", next = taken \o (frame \o Separator)
  PROVE  /\ Closed(next)
         /\ Tokens(next) = Tokens(taken) \o Tokens(frame)
         /\ EndOf(next) = EndOf(frame)
<1>1. Separator \in Seq(AllChars) /\ Quiet(Separator) /\ Len(Separator) \in {1, 2}
  BY SeparatorFacts
<1>2. PICK whole \in Seq(AllChars) : whole = frame \o Separator
  <2>1. frame \o Separator \in Seq(AllChars)
    BY <1>1
  <2> QED
    BY <2>1
<1>3. Stops(Separator) = {} /\ Tokens(Separator) = <<>> /\ EndOf(Separator) = "reading"
  BY <1>1, QuietTokens, StillReading
<1>4. Tokens(whole) = Tokens(frame) /\ EndOf(whole) = EndOf(frame)
  <2>1. /\ Stops(frame) = {} => Tokens(whole) = Tokens(frame) \o Tokens(Separator) /\ EndOf(whole) = EndOf(Separator)
        /\ Stops(frame) # {} => Tokens(whole) = Tokens(frame) /\ EndOf(whole) = EndOf(frame)
    BY <1>1, <1>2, TokensConcat
  <2>2. Tokens(frame) \o <<>> = Tokens(frame)
    BY TokensType
  <2> QED
    BY <2>1, <2>2, <1>3, StillReading
<1>5. Tokens(next) = Tokens(taken) \o Tokens(whole) /\ EndOf(next) = EndOf(whole)
  <2>1. Stops(taken) = {}
    BY StillReading
  <2>2. Stops(taken) = {} => Tokens(taken \o whole) = Tokens(taken) \o Tokens(whole) /\ EndOf(taken \o whole) = EndOf(whole)
    BY TokensConcat
  <2> QED
    BY <2>1, <2>2, <1>2
<1>6. Closed(next)
  <2>1. Len(whole) = Len(frame) + Len(Separator) /\ \A k \in 1 .. Len(Separator) : whole[k + Len(frame)] = Separator[k]
    BY <1>1, <1>2
  <2>2. next = taken \o whole
    BY <1>2
  <2>3. Len(next) = Len(taken) + Len(frame) + Len(Separator)
    BY <2>1, <2>2, <1>1
  <2>4. Len(next) \in Nat /\ Len(taken) \in Nat /\ Len(frame) \in Nat
    OBVIOUS
  <2>5. ASSUME NEW i \in DOMAIN next, i > Len(next) - Len(Separator) PROVE next[i] = "nl"
    <3> DEFINE k == i - Len(taken) - Len(frame)
    <3>1. i \in 1 .. Len(next)
      OBVIOUS
    <3>2. k \in 1 .. Len(Separator) /\ k + Len(frame) \in 1 .. Len(whole) /\ i = (k + Len(frame)) + Len(taken)
      BY <3>1, <2>1, <2>3, <2>4, <2>5, <1>1
    <3> HIDE DEF k
    <3>3. next[(k + Len(frame)) + Len(taken)] = whole[k + Len(frame)]
      BY <3>2, <2>2, <2>4
    <3>4. Separator[k] = "nl"
      BY <3>2, <1>1 DEF Quiet
    <3> QED
      BY <3>2, <3>3, <3>4, <2>1
  <2>6. Len(next) >= Len(Separator)
    BY <2>3, <2>4, <1>1
  <2> QED
    BY <2>5, <2>6 DEF Closed
<1> QED
  BY <1>4, <1>5, <1>6

\* indexOf finds a separator when there is one.
LEMMA FirstSeparator ==
  ASSUME NEW chars \in Seq(AllChars), SeparatorsIn(chars) # {}
  PROVE  Min(SeparatorsIn(chars)) \in SeparatorsIn(chars)
<1>1. SeparatorsIn(chars) \in SUBSET (1 .. Len(chars))
  <2>1. PICK L \in {1, 2} : L = Len(Separator)
    BY SeparatorFacts
  <2>2. Len(chars) \in Nat
    OBVIOUS
  <2>3. ASSUME NEW i \in SeparatorsIn(chars) PROVE i \in 1 .. Len(chars)
    <3>1. i \in 1 .. Len(chars) - L + 1
      BY <2>1 DEF SeparatorsIn
    <3> QED
      BY <2>2, <3>1
  <2> QED
    BY <2>3
<1>2. \E i \in SeparatorsIn(chars) : \A j \in SeparatorsIn(chars) : i <= j
  <2>1. Len(chars) \in Nat
    OBVIOUS
  <2> QED
    BY <1>1, <2>1, Extremes
<1> QED
  BY <1>2 DEF Min

\* TakeFrame keeps the invariant: one more whole frame has been taken.
LEMMA TakeFrameInv == ASSUME ParserInv, TakeFrame PROVE ParserInv'
<1>1. PICK whole \in Seq(Bytes), taken \in Seq(AllChars) : Progress(whole, taken)
  BY DEF ParserInv
<1>2. TypeOK
  BY DEF ParserInv
<1>3. PICK chars \in Seq(AllChars) : chars = buffer
  BY <1>2 DEF TypeOK
<1>4. PICK at \in SeparatorsIn(chars) : at = Min(SeparatorsIn(chars))
  BY <1>3, FirstSeparator DEF TakeFrame
<1>5. PICK frame \in Seq(AllChars) : frame = SubSeq(chars, 1, at - 1)
  BY FrameTaken
<1>6. PICK left \in Seq(AllChars) : left = SubSeq(chars, at + Len(Separator), Len(chars))
  BY FrameTaken
<1>7. /\ buffer' = left /\ out' = out \o Tokens(frame) /\ outcome' = EndOf(frame)
      /\ protocol' = protocol /\ text' = text /\ unread' = unread /\ held' = held
      /\ outcome = "reading"
  BY <1>3, <1>4, <1>5, <1>6 DEF TakeFrame
<1>8. PICK framed \in Seq(AllChars) : framed = frame \o Separator
  <2>1. frame \o Separator \in Seq(AllChars)
    BY SeparatorFacts
  <2> QED
    BY <2>1
<1>9. PICK next \in Seq(AllChars) : next = taken \o framed
  <2>1. taken \o framed \in Seq(AllChars)
    OBVIOUS
  <2> QED
    BY <2>1
<1>10. Decode(whole) = next \o left
  <2>1. Decode(whole) = taken \o (framed \o left)
    <3>1. chars = (SubSeq(chars, 1, at - 1) \o Separator) \o SubSeq(chars, at + Len(Separator), Len(chars))
      BY FrameTaken
    <3>2. chars = framed \o left
      BY <3>1, <1>5, <1>6, <1>8
    <3> QED
      BY <3>2, <1>1, <1>3 DEF Progress
  <2>2. (taken \o framed) \o left = taken \o (framed \o left)
    <3>1. \A x \in Seq(AllChars) : (taken \o framed) \o x = taken \o (framed \o x)
      BY CharsRegrouped
    <3> QED
      BY <3>1
  <2> QED
    BY <2>1, <2>2, <1>9
<1>11. Closed(next) /\ Tokens(next) = Tokens(taken) \o Tokens(frame) /\ EndOf(next) = EndOf(frame)
  <2>1. Closed(taken) /\ EndOf(taken) = "reading"
    BY <1>1, <1>7 DEF Progress
  <2>2. next = taken \o (frame \o Separator)
    BY <1>8, <1>9
  <2> QED
    BY <2>1, <2>2, FrameTokens
<1>12. Closed(next)' = Closed(next) /\ Tokens(next)' = Tokens(next) /\ EndOf(next)' = EndOf(next)
  BY <1>7, UnchangedText
<1>13. EndOf(frame) \in {"reading", "returned", "malformed"}
  BY StillReading
<1>14. TypeOK'
  <2>1. Tokens(frame) \in Seq(AllChars) /\ out \in Seq(AllChars)
    BY <1>2, TokensType DEF TypeOK
  <2>2. out' \in Seq(AllChars)
    BY <2>1, <1>7
  <2>3. outcome' \in Outcomes
    BY <1>7, <1>13 DEF Outcomes
  <2> QED
    BY <1>2, <1>7, <2>2, <2>3 DEF TypeOK
<1>15. Progress(whole, next)'
  <2>1. (text = whole \o (held \o unread))' /\ (Decode(whole) = next \o buffer)' /\ (held = <<>> => Held(whole) = <<>>)'
    BY <1>1, <1>7, <1>10 DEF Progress
  <2>2. Closed(next)' /\ (out = Tokens(next))' /\ (EndOf(next) = outcome)'
    BY <1>1, <1>7, <1>11, <1>12 DEF Progress
  <2>3. (outcome \in {"reading", "returned", "malformed"})'
    BY <1>7, <1>13
  <2> QED
    BY <2>1, <2>2, <2>3 DEF Progress
<1> QED
  BY <1>14, <1>15 DEF ParserInv

\* BodyEnds keeps the invariant: nothing is taken.
LEMMA BodyEndsInv == ASSUME ParserInv, BodyEnds PROVE ParserInv'
<1>1. PICK whole \in Seq(Bytes), taken \in Seq(AllChars) : Progress(whole, taken)
  BY DEF ParserInv
<1>2. TypeOK
  BY DEF ParserInv
<1>3. /\ outcome = "reading" /\ SeparatorsIn(buffer) = {}
      /\ outcome' = "rejected" \/ (unread = <<>> /\ outcome' = "returned")
      /\ protocol' = protocol /\ text' = text /\ unread' = unread /\ held' = held
      /\ buffer' = buffer /\ out' = out
  BY DEF BodyEnds, Waiting
<1>4. PICK chars \in Seq(AllChars) : chars = buffer
  BY <1>2 DEF TypeOK
<1>5. /\ Closed(taken)' = Closed(taken) /\ Tokens(taken)' = Tokens(taken) /\ EndOf(taken)' = EndOf(taken)
      /\ SeparatorsIn(chars)' = SeparatorsIn(chars)
  BY <1>3, UnchangedText
<1>6. TypeOK'
  BY <1>2, <1>3 DEF TypeOK, Outcomes
<1>7. Progress(whole, taken)'
  <2>1. (text = whole \o (held \o unread))' /\ (Decode(whole) = taken \o buffer)' /\ (held = <<>> => Held(whole) = <<>>)'
    BY <1>1, <1>3 DEF Progress
  <2>2. Closed(taken)' /\ (out = Tokens(taken))' /\ (EndOf(taken) = "reading")'
    BY <1>1, <1>3, <1>5 DEF Progress
  <2>3. buffer' = chars
    BY <1>3, <1>4
  <2>4. (SeparatorsIn(buffer) = {})'
    BY <1>3, <1>4, <1>5, <2>3
  <2> QED
    BY <1>3, <2>1, <2>2, <2>4 DEF Progress
<1> QED
  BY <1>6, <1>7 DEF ParserInv

\* Wherever the chunks are cut, what has been yielded is the tokens of the whole frames
\* taken so far, and what is to come is in the buffer, the decoder and the body.
THEOREM ParserInvAlways == Spec => []ParserInv
<1>1. Init => ParserInv
  BY InitInv
<1>2. ParserInv /\ [Next]_vars => ParserInv'
  <2> SUFFICES ASSUME ParserInv, [Next]_vars PROVE ParserInv'
    OBVIOUS
  <2>1. CASE \E n \in 1 .. Len(unread) : Read(n)
    BY <2>1, ReadInv
  <2>2. CASE TakeFrame
    BY <2>2, TakeFrameInv
  <2>3. CASE BodyEnds
    BY <2>3, BodyEndsInv
  <2>4. CASE UNCHANGED vars
    <3>1. PICK whole \in Seq(Bytes), taken \in Seq(AllChars) : Progress(whole, taken)
      BY DEF ParserInv
    <3>2. PICK chars \in Seq(AllChars) : chars = buffer
      BY DEF ParserInv, TypeOK
    <3>3. /\ protocol' = protocol /\ text' = text /\ unread' = unread /\ held' = held
          /\ buffer' = buffer /\ out' = out /\ outcome' = outcome
      BY <2>4 DEF vars
    <3>4. /\ Closed(taken)' = Closed(taken) /\ Tokens(taken)' = Tokens(taken) /\ EndOf(taken)' = EndOf(taken)
          /\ SeparatorsIn(chars)' = SeparatorsIn(chars)
      BY <3>3, UnchangedText
    <3>5. buffer' = chars /\ SeparatorsIn(buffer)' = SeparatorsIn(buffer)
      BY <3>2, <3>3, <3>4
    <3>6. Progress(whole, taken)'
      BY <3>1, <3>3, <3>4, <3>5 DEF Progress
    <3>7. TypeOK'
      BY <3>3 DEF ParserInv, TypeOK
    <3> QED
      BY <3>6, <3>7 DEF ParserInv
  <2> QED
    BY <2>1, <2>2, <2>3, <2>4 DEF Next, Parse
<1> QED
  BY <1>1, <1>2, PTL DEF Spec

-----------------------------------------------------------------------------
(* What the invariant says of the whole text.                              *)

\* What the text delivers begins with the frames taken; when there is no separator in
\* the rest of it, nothing but line ends is to come.
LEMMA DeliveredBegins ==
  ASSUME NEW taken \in Seq(AllChars), NEW rest \in Seq(AllChars),
         Decode(text) = taken \o rest, Closed(taken)
  PROVE  \E more \in Seq(AllChars) :
           /\ Delivered = taken \o more
           /\ SeparatorsIn(rest) = {} => Quiet(more)
<1>1. PICK L \in {1, 2} : L = Len(Separator)
  BY SeparatorFacts
<1>2. PICK chars \in Seq(AllChars) : chars = taken \o rest
  <2>1. taken \o rest \in Seq(AllChars)
    OBVIOUS
  <2> QED
    BY <2>1
<1>3. PICK m \in Nat : m = Len(taken)
  OBVIOUS
<1>4. /\ Len(chars) \in Nat /\ Len(rest) \in Nat /\ Len(chars) = m + Len(rest)
      /\ \A i \in 1 .. m : chars[i] = taken[i]
      /\ \A i \in 1 .. Len(rest) : chars[i + m] = rest[i]
  BY <1>2, <1>3
<1> DEFINE last == SeparatorsIn(chars)
<1>5. Delivered = IF last = {} THEN <<>> ELSE SubSeq(chars, 1, Max(last) + L - 1)
  BY <1>1, <1>2 DEF Delivered
<1>6. \A i \in Int : i \in last <=>
        1 <= i /\ i + L - 1 <= Len(chars) /\ \A j \in i .. i + L - 1 : chars[j] = "nl"
  BY <1>1, SeparatorAt
<1>7. \A i \in Int : i \in SeparatorsIn(rest) <=>
        1 <= i /\ i + L - 1 <= Len(rest) /\ \A j \in i .. i + L - 1 : rest[j] = "nl"
  BY <1>1, SeparatorAt
<1>8. last \in SUBSET (1 .. Len(chars))
  <2>1. \A i \in last : i \in 1 .. Len(chars) - L + 1
    BY <1>1 DEF SeparatorsIn
  <2>2. \A i \in last : i \in 1 .. Len(chars)
    BY <1>4, <2>1
  <2> QED
    BY <2>2
<1> HIDE DEF last
<1>9. ASSUME taken # <<>> PROVE m - L + 1 \in last
  <2>1. /\ Len(taken) >= Len(Separator)
        /\ \A i \in DOMAIN taken : i > Len(taken) - Len(Separator) => taken[i] = "nl"
    BY <1>9 DEF Closed
  <2>2. DOMAIN taken = 1 .. m
    BY <1>3
  <2>3. m >= L /\ \A i \in 1 .. m : i > m - L => taken[i] = "nl"
    BY <1>1, <1>3, <2>1, <2>2
  <2>4. m - L + 1 \in Int /\ 1 <= m - L + 1 /\ (m - L + 1) + L - 1 <= Len(chars)
    BY <1>4, <2>3
  <2>5. ASSUME NEW j \in m - L + 1 .. (m - L + 1) + L - 1 PROVE chars[j] = "nl"
    <3>1. j \in 1 .. m /\ j > m - L
      BY <2>3
    <3> QED
      BY <3>1, <1>4, <2>3
  <2> QED
    BY <1>6, <2>4, <2>5
<1>10. CASE last = {}
  <2>1. taken = <<>>
    BY <1>10, <1>9
  <2>2. Delivered = taken \o <<>> /\ Quiet(<<>>) /\ <<>> \in Seq(AllChars)
    BY <1>5, <1>10, <2>1 DEF Quiet
  <2> QED
    BY <2>2
<1>11. CASE last # {}
  <2>1. PICK q \in last : \A j \in last : j <= q
    BY <1>4, <1>8, <1>11, Extremes
  <2>2. q \in 1 .. Len(chars) /\ q + L - 1 <= Len(chars) /\ \A j \in q .. q + L - 1 : chars[j] = "nl"
    BY <1>6, <1>8
  <2>3. Max(last) = q
    <3>1. \A j \in last : j \in Int
      BY <1>8
    <3>2. q \in last /\ \A j \in last : q >= j
      BY <2>1, <3>1
    <3>3. Max(last) \in last /\ \A j \in last : Max(last) >= j
      BY <3>2 DEF Max
    <3>4. Max(last) >= q /\ q >= Max(last)
      BY <3>2, <3>3
    <3> QED
      BY <3>1, <3>2, <3>3, <3>4
  <2>4. m <= q + L - 1
    <3>1. CASE taken = <<>>
      BY <1>3, <2>2, <3>1
    <3>2. CASE taken # <<>>
      <4>1. m - L + 1 \in last /\ m - L + 1 <= q
        BY <1>9, <2>1, <3>2
      <4> QED
        BY <2>2, <4>1
    <3> QED
      BY <3>1, <3>2
  <2>5. PICK e \in Nat : e = q + L - 1 /\ m <= e /\ e <= Len(chars)
    BY <2>2, <2>4
  <2>6. PICK more \in Seq(AllChars) : more = SubSeq(chars, m + 1, e)
    <3>1. SubSeq(chars, m + 1, e) \in Seq(AllChars)
      BY <2>5
    <3> QED
      BY <3>1
  <2>7. Len(more) = e - m /\ \A k \in 1 .. Len(more) : more[k] = chars[k + m]
    <3>1. Len(more) = e - m
      <4>1. Len(SubSeq(chars, m + 1, e)) = IF m + 1 <= e THEN e - (m + 1) + 1 ELSE 0
        BY <1>4, <2>5
      <4> QED
        BY <4>1, <2>5, <2>6
    <3>2. ASSUME NEW k \in 1 .. e - m PROVE more[k] = chars[k + m]
      <4>1. more[k] = chars[(m + 1) + k - 1] /\ (m + 1) + k - 1 = k + m
        BY <1>4, <2>5, <2>6
      <4> QED
        BY <4>1
    <3> QED
      BY <3>1, <3>2
  <2>8. Delivered = taken \o more
    <3>1. PICK shown \in Seq(AllChars) : shown = SubSeq(chars, 1, e)
      <4>1. SubSeq(chars, 1, e) \in Seq(AllChars)
        BY <2>5
      <4> QED
        BY <4>1
    <3>2. Len(shown) = e /\ \A k \in 1 .. e : shown[k] = chars[k]
      BY <2>5, <3>1
    <3>3. DOMAIN taken = 1 .. m /\ DOMAIN more = 1 .. Len(more)
      BY <1>3
    <3>4. Len(shown) = Len(taken) + Len(more)
      BY <1>3, <2>5, <2>7, <3>2
    <3>5. \A i \in DOMAIN taken : shown[i] = taken[i]
      BY <1>4, <2>5, <3>2, <3>3
    <3>6. \A i \in DOMAIN more : shown[i + Len(taken)] = more[i]
      <4> TAKE i \in DOMAIN more
      <4>1. i \in 1 .. e - m
        BY <2>7, <3>3
      <4>2. i + m \in 1 .. e /\ more[i] = chars[i + m]
        BY <2>5, <2>7, <4>1
      <4> QED
        BY <1>3, <3>2, <4>2
    <3>7. shown = taken \o more
      BY <3>4, <3>5, <3>6, IsConcat
    <3> QED
      BY <1>5, <1>11, <2>3, <2>5, <3>1, <3>7
  <2>9. ASSUME SeparatorsIn(rest) = {} PROVE Quiet(more)
    <3>1. q <= m
      <4> SUFFICES ASSUME q > m PROVE FALSE
        BY <2>2
      <4>1. q - m \in Int /\ 1 <= q - m /\ (q - m) + L - 1 <= Len(rest)
        BY <1>4, <2>2
      <4>2. ASSUME NEW j \in q - m .. (q - m) + L - 1 PROVE rest[j] = "nl"
        <5>1. j \in 1 .. Len(rest) /\ j + m \in q .. q + L - 1
          BY <4>1, <2>2, <1>4
        <5> QED
          BY <5>1, <1>4, <2>2
      <4>3. q - m \in SeparatorsIn(rest)
        BY <1>7, <4>1, <4>2
      <4> QED
        BY <2>9, <4>3
    <3>2. ASSUME NEW k \in DOMAIN more PROVE more[k] = "nl"
      <4>1. k \in 1 .. Len(more)
        OBVIOUS
      <4>2. k + m \in q .. q + L - 1
        <5>1. k \in 1 .. e - m
          BY <2>7, <4>1
        <5> QED
          BY <2>2, <2>5, <3>1, <5>1
      <4>3. more[k] = chars[k + m]
        BY <2>7, <4>1
      <4> QED
        BY <2>2, <4>2, <4>3
    <3> QED
      BY <3>2 DEF Quiet
  <2> QED
    BY <2>8, <2>9
<1> QED
  BY <1>10, <1>11

\* Half a character that stays in the decoder is no line end.
LEMMA HeldDecodes ==
  ASSUME NEW kept \in {<<>>, <<"e1">>}
  PROVE  /\ Decode(kept) \in Seq(AllChars)
         /\ \A i \in DOMAIN Decode(kept) : Decode(kept)[i] # "nl"
<1>1. CASE kept = <<>>
  <2>1. Decode(kept) = <<>>
    BY <1>1, DecodeNone
  <2>2. <<>> \in Seq(AllChars) /\ \A i \in DOMAIN <<>> : <<>>[i] # "nl"
    OBVIOUS
  <2> QED
    BY <2>1, <2>2
<1>2. CASE kept = <<"e1">>
  <2> DEFINE chars == [i \in DOMAIN kept |-> Char(kept, i)]
  <2>1. kept \in Seq(Bytes) /\ Len(kept) = 1 /\ DOMAIN kept = {1} /\ kept[1] = "e1"
    BY <1>2, HeldBytes
  <2>2. chars \in Seq(AllChars) /\ Len(chars) = 1
    BY <2>1, DecodeType
  <2>3. chars[1] = "junk"
    BY <2>1 DEF Char, Ends
  <2>4. {i \in DOMAIN kept : ~Begins(kept, i)} = {1}
    BY <2>1 DEF Begins
  <2>5. Decode(kept) = Picked(chars, {1})
    BY <2>4 DEF Decode
  <2> HIDE DEF chars
  <2>6. {1} \in SUBSET (1 .. Len(chars))
    BY <2>2
  <2>7. UpTo({1}, 1) = {1} /\ Cardinality({1}) = 1
    <3>1. UpTo({1}, 1) = {1}
      BY DEF UpTo
    <3> QED
      BY <3>1, FS_Singleton
  <2>8. /\ Picked(chars, {1}) \in Seq(AllChars)
        /\ Len(Picked(chars, {1})) = Cardinality({1})
        /\ \A i \in {1} : Picked(chars, {1})[Cardinality(UpTo({1}, i))] = chars[i]
    BY <2>2, <2>6, PickedAt
  <2>9. Decode(kept) \in Seq(AllChars) /\ Len(Decode(kept)) = 1 /\ Decode(kept)[1] = "junk"
    BY <2>3, <2>5, <2>7, <2>8
  <2> QED
    BY <2>9
<1> QED
  BY <1>1, <1>2

\* What the invariant says of the whole text, at a time.
LEMMA WholeText ==
  ASSUME ParserInv
  PROVE  \E taken, more \in Seq(AllChars) :
           /\ Closed(taken) /\ out = Tokens(taken) /\ Delivered = taken \o more
           /\ outcome = "malformed" => EndOf(taken) = "malformed"
           /\ outcome = "returned" =>
                EndOf(taken) = "returned" \/ (EndOf(taken) = "reading" /\ Quiet(more))
<1>1. PICK whole \in Seq(Bytes), taken \in Seq(AllChars) : Progress(whole, taken)
  BY DEF ParserInv
<1>2. TypeOK
  BY DEF ParserInv
<1>3. PICK kept \in {<<>>, <<"e1">>} : kept = held
  BY <1>2 DEF TypeOK
<1>4. PICK chars \in Seq(AllChars) : chars = buffer
  BY <1>2 DEF TypeOK
<1>5. PICK after \in Seq(Bytes) : after = kept \o unread
  <2>1. kept \in Seq(Bytes) /\ unread \in Seq(Bytes)
    BY <1>2, HeldBytes DEF TypeOK
  <2>2. kept \o unread \in Seq(Bytes)
    BY <2>1
  <2> QED
    BY <2>2
<1>6. PICK more \in Seq(AllChars) : more = Decode(after)
  BY DecodeType
<1>7. PICK rest \in Seq(AllChars) : rest = chars \o more
  <2>1. chars \o more \in Seq(AllChars)
    OBVIOUS
  <2> QED
    BY <2>1
<1>8. Decode(text) = taken \o rest
  <2>1. text = whole \o after /\ Decode(whole) = taken \o chars
    BY <1>1, <1>3, <1>4, <1>5 DEF Progress
  <2>2. Held(whole) = <<>> \/ after = <<>> \/ after[1] # "e2"
    <3>1. CASE kept = <<>>
      BY <1>1, <1>3, <3>1 DEF Progress
    <3>2. CASE kept = <<"e1">>
      <4>1. unread \in Seq(Bytes) /\ kept \in Seq(Bytes)
        BY <1>2, HeldBytes DEF TypeOK
      <4>2. after[1] = "e1"
        BY <1>5, <3>2, <4>1
      <4> QED
        BY <4>2
    <3> QED
      BY <3>1, <3>2
  <2>3. Decode(whole \o after) = Decode(whole) \o Decode(after)
    BY <2>2, DecodeConcat
  <2>4. (taken \o chars) \o more = taken \o (chars \o more)
    <3>1. \A x \in Seq(AllChars) : (taken \o chars) \o x = taken \o (chars \o x)
      BY CharsRegrouped
    <3> QED
      BY <3>1
  <2> QED
    BY <2>1, <2>3, <2>4, <1>6, <1>7
<1>9. Closed(taken)
  BY <1>1 DEF Progress
<1>10. PICK left \in Seq(AllChars) : Delivered = taken \o left /\ (SeparatorsIn(rest) = {} => Quiet(left))
  BY <1>8, <1>9, DeliveredBegins
<1>11. ASSUME unread = <<>>, SeparatorsIn(buffer) = {} PROVE SeparatorsIn(rest) = {}
  <2>1. more = Decode(kept)
    <3>1. after = kept
      BY <1>5, <1>11, HeldBytes
    <3> QED
      BY <3>1, <1>6
  <2>2. \A i \in 1 .. Len(more) : more[i] # "nl"
    <3>1. DOMAIN more = 1 .. Len(more)
      OBVIOUS
    <3>2. \A i \in DOMAIN more : more[i] # "nl"
      BY <2>1, HeldDecodes
    <3> QED
      BY <3>1, <3>2
  <2>3. PICK L \in {1, 2} : L = Len(Separator)
    BY SeparatorFacts
  <2>4. /\ Len(rest) = Len(chars) + Len(more) /\ Len(chars) \in Nat /\ Len(more) \in Nat
        /\ \A i \in 1 .. Len(chars) : rest[i] = chars[i]
        /\ \A i \in 1 .. Len(more) : rest[i + Len(chars)] = more[i]
    BY <1>7
  <2>5. ASSUME NEW i \in SeparatorsIn(rest) PROVE FALSE
    <3>1. i \in 1 .. Len(rest) - L + 1
      BY <2>3 DEF SeparatorsIn
    <3>2. i \in Int /\ i >= 1 /\ i + L - 1 <= Len(rest)
      BY <2>4, <3>1
    <3>3. \A j \in i .. i + L - 1 : rest[j] = "nl"
      BY <2>3, <2>5, <3>2, SeparatorAt
    <3>4. i + L - 1 <= Len(chars)
      <4> SUFFICES ASSUME i + L - 1 > Len(chars) PROVE FALSE
        BY <2>3, <2>4, <3>2
      <4>1. PICK k \in 1 .. Len(more) : k + Len(chars) = i + L - 1
        <5>1. (i + L - 1) - Len(chars) \in 1 .. Len(more)
          BY <2>3, <2>4, <3>2
        <5>2. ((i + L - 1) - Len(chars)) + Len(chars) = i + L - 1
          BY <2>3, <2>4, <3>2
        <5> QED
          BY <5>1, <5>2
      <4>2. i + L - 1 \in i .. i + L - 1
        BY <2>3, <3>2
      <4>3. rest[k + Len(chars)] = "nl"
        BY <3>3, <4>1, <4>2
      <4> QED
        BY <2>2, <2>4, <4>3
    <3>5. ASSUME NEW j \in i .. i + L - 1 PROVE chars[j] = "nl"
      <4>1. j \in 1 .. Len(chars)
        BY <2>3, <2>4, <3>2, <3>4
      <4> QED
        BY <4>1, <2>4, <3>3
    <3>6. i \in SeparatorsIn(chars)
      BY <2>3, <3>2, <3>4, <3>5, SeparatorAt
    <3> QED
      BY <1>4, <1>11, <3>6
  <2> QED
    BY <2>5
<1>12. outcome = "returned" => EndOf(taken) = "returned" \/ (EndOf(taken) = "reading" /\ Quiet(left))
  BY <1>1, <1>10, <1>11 DEF Progress
<1>13. out = Tokens(taken) /\ (outcome = "malformed" => EndOf(taken) = "malformed")
  BY <1>1 DEF Progress
<1> QED
  BY <1>9, <1>10, <1>12, <1>13

\* For every body and every cut of it into chunks, the tokens yielded so far (the yield
\* statements of the three readers) are the first ones of the whole text.
THEOREM YieldsInOrderAlways == Spec => []YieldsInOrder
<1>1. ParserInv => YieldsInOrder
  <2> SUFFICES ASSUME ParserInv PROVE YieldsInOrder
    OBVIOUS
  <2>1. PICK taken \in Seq(AllChars), more \in Seq(AllChars) :
          Closed(taken) /\ out = Tokens(taken) /\ Delivered = taken \o more
    BY WholeText
  <2>2. \E t \in Seq(AllChars) : Tokens(Delivered) = Tokens(taken) \o t
    <3>1. /\ Stops(taken) = {} => Tokens(taken \o more) = Tokens(taken) \o Tokens(more)
          /\ Stops(taken) # {} => Tokens(taken \o more) = Tokens(taken)
      BY <2>1, TokensConcat
    <3>2. Tokens(taken) \in Seq(AllChars) /\ Tokens(more) \in Seq(AllChars) /\ <<>> \in Seq(AllChars)
      BY TokensType
    <3>3. Tokens(taken) \o <<>> = Tokens(taken)
      BY <3>2
    <3> QED
      BY <2>1, <3>1, <3>2, <3>3
  <2>3. PICK t \in Seq(AllChars) : Tokens(Delivered) = Tokens(taken) \o t
    BY <2>2
  <2>4. PICK s \in Seq(AllChars) : s = out /\ s = Tokens(taken)
    BY <2>1, TokensType
  <2>5. Len(s) <= Len(s \o t) /\ SubSeq(s, 1, Len(s)) = s
    BY SubSeqFull
  <2>6. SubSeq(s \o t, 1, Len(s)) = s
    <3>1. PICK u \in Seq(AllChars) : u = s \o t
      <4>1. s \o t \in Seq(AllChars)
        OBVIOUS
      <4> QED
        BY <4>1
    <3>2. Len(u) = Len(s) + Len(t) /\ Len(s) \in Nat /\ Len(t) \in Nat /\ \A i \in 1 .. Len(s) : u[i] = s[i]
      BY <3>1
    <3>3. PICK v \in Seq(AllChars) : v = SubSeq(u, 1, Len(s))
      <4>1. SubSeq(u, 1, Len(s)) \in Seq(AllChars)
        BY <3>2
      <4> QED
        BY <4>1
    <3>4. Len(v) = Len(s) /\ \A i \in 1 .. Len(v) : v[i] = s[i]
      BY <3>2, <3>3
    <3>5. v = s
      BY <3>4, SeqEqual
    <3> QED
      BY <3>1, <3>3, <3>5
  <2> QED
    BY <2>3, <2>4, <2>5, <2>6 DEF YieldsInOrder, IsPrefix
<1> QED
  BY <1>1, ParserInvAlways, PTL

\* For every body and every cut of it into chunks, a reader that ends by itself has yielded
\* every token of the text and ended as the whole text calls for.
THEOREM ChunksDoNotMatterAlways == Spec => []ChunksDoNotMatter
<1>1. ParserInv => ChunksDoNotMatter
  <2> SUFFICES ASSUME ParserInv, outcome \in {"returned", "malformed"}
               PROVE  /\ out = Tokens(Delivered)
                      /\ outcome = IF EndOf(Delivered) = "malformed" THEN "malformed" ELSE "returned"
    BY DEF ChunksDoNotMatter
  <2>1. PICK taken \in Seq(AllChars), more \in Seq(AllChars) :
          /\ Closed(taken) /\ out = Tokens(taken) /\ Delivered = taken \o more
          /\ outcome = "malformed" => EndOf(taken) = "malformed"
          /\ outcome = "returned" =>
               EndOf(taken) = "returned" \/ (EndOf(taken) = "reading" /\ Quiet(more))
    BY WholeText
  <2>2. /\ Stops(taken) = {} => Tokens(taken \o more) = Tokens(taken) \o Tokens(more) /\ EndOf(taken \o more) = EndOf(more)
        /\ Stops(taken) # {} => Tokens(taken \o more) = Tokens(taken) /\ EndOf(taken \o more) = EndOf(taken)
    BY <2>1, TokensConcat
  <2>3. CASE EndOf(taken) # "reading"
    <3>1. Tokens(Delivered) = Tokens(taken) /\ EndOf(Delivered) = EndOf(taken)
      BY <2>1, <2>2, <2>3, StillReading
    <3> QED
      BY <2>1, <2>3, <3>1
  <2>4. CASE EndOf(taken) = "reading"
    <3>1. outcome = "returned" /\ Quiet(more) /\ Stops(taken) = {}
      BY <2>1, <2>4, StillReading
    <3>2. Tokens(more) = <<>> /\ EndOf(more) = "reading"
      BY <3>1, QuietTokens, StillReading
    <3>3. Tokens(taken) \o <<>> = Tokens(taken)
      BY TokensType
    <3> QED
      BY <2>1, <2>2, <3>1, <3>2, <3>3
  <2> QED
    BY <2>3, <2>4
<1> QED
  BY <1>1, ParserInvAlways, PTL

\* Every step takes bytes from the body, or characters from the buffer, or ends the
\* generator: the two loops cannot go on for ever.
LoopsShrink ==
  \/ Len(unread') < Len(unread)
  \/ unread' = unread /\ Len(buffer') < Len(buffer)
  \/ outcome = "reading" /\ outcome' # "reading"

\* The measure by which ParseEnds holds: bytes that are not read, then characters in the
\* buffer.
THEOREM LoopsShrinkAlways == Spec => [][LoopsShrink]_vars
<1>1. ParserInv /\ [Next]_vars => [LoopsShrink]_vars
  <2> SUFFICES ASSUME ParserInv, Next PROVE LoopsShrink
    OBVIOUS
  <2>1. unread \in Seq(Bytes) /\ Len(unread) \in Nat
    BY DEF ParserInv, TypeOK
  <2>2. ASSUME NEW n \in 1 .. Len(unread), Read(n) PROVE LoopsShrink
    <3>1. unread' = SubSeq(unread, n + 1, Len(unread))
      BY <2>2 DEF Read
    <3>2. Len(SubSeq(unread, n + 1, Len(unread))) = Len(unread) - n
      BY <2>1
    <3> QED
      BY <2>1, <3>1, <3>2 DEF LoopsShrink
  <2>3. CASE TakeFrame
    <3>1. PICK chars \in Seq(AllChars) : chars = buffer
      BY DEF ParserInv, TypeOK
    <3>2. PICK L \in {1, 2} : L = Len(Separator)
      BY SeparatorFacts
    <3>3. PICK at \in SeparatorsIn(chars) : at = Min(SeparatorsIn(chars))
      BY <2>3, <3>1, FirstSeparator DEF TakeFrame
    <3>4. unread' = unread /\ buffer' = SubSeq(chars, at + L, Len(chars))
      BY <2>3, <3>1, <3>2, <3>3 DEF TakeFrame
    <3>5. at \in 1 .. Len(chars) - L + 1
      BY <3>2 DEF SeparatorsIn
    <3>6. Len(chars) \in Nat /\ at \in Nat /\ at >= 1 /\ at + L - 1 <= Len(chars)
      BY <3>5
    <3>7. Len(SubSeq(chars, at + L, Len(chars))) = Len(chars) - (at + L) + 1
      BY <3>6
    <3>8. Len(SubSeq(chars, at + L, Len(chars))) < Len(chars)
      BY <3>6, <3>7
    <3> QED
      BY <3>1, <3>4, <3>8 DEF LoopsShrink
  <2>4. CASE BodyEnds
    BY <2>4 DEF BodyEnds, Waiting, LoopsShrink
  <2> QED
    BY <2>2, <2>3, <2>4 DEF Next, Parse
<1> QED
  BY <1>1, ParserInvAlways, PTL DEF Spec
=============================================================================
