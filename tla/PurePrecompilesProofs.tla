------------------------ MODULE PurePrecompilesProofs ------------------------
(***************************************************************************)
(* Theorems of PurePrecompiles: what from_be_bytes makes of a header word  *)
(* is its number in the positional system, so that modexp computes exactly *)
(* within its limit; and no set of precompiles takes anything back.        *)
(***************************************************************************)
EXTENDS PurePrecompiles, ScrollValidationProofs

-----------------------------------------------------------------------------
(* Numbers: from_be_bytes goes through the digits, the reference adds them up *)

\* v has the numbers of the first digits of d, up to the m-th; w has the values of m places.
HasPrefixes(d, m, v) == v = [n \in 0 .. m |-> IF n = 0 THEN 0 ELSE v[n - 1] * BYTE + d[n]]
HasPlaces(m, w)      == w = [n \in 0 .. m |-> IF n = 0 THEN 1 ELSE BYTE * w[n - 1]]

\* The first m elements of d are digits, and terms has each of them times the value of its place.
HasDigits(d, m)          == \A k \in 1 .. m : d[k] \in Nat
HasTerms(d, w, m, terms) ==
    terms \in [1 .. m -> Nat] /\ \A k \in 1 .. m : terms[k] = d[k] * w[m - k]

\* Every sequence of digits has the numbers of its prefixes.
LEMMA PrefixesExist ==
    ASSUME NEW d, NEW m \in Nat
    PROVE  \E v : HasPrefixes(d, m, v)
<1> DEFINE Bad == {n \in Nat : ~ \E v : HasPrefixes(d, n, v)}
<1>1. CASE Bad = {}
  BY <1>1
<1>2. CASE Bad # {}
  <2>1. PICK n \in Bad : \A k \in Bad : n <= k
    BY <1>2, FirstPosition
  <2>2. n \in Nat /\ ~ \E v : HasPrefixes(d, n, v)
    BY <2>1
  <2>3. \A k \in Nat : k < n => \E v : HasPrefixes(d, k, v)
    BY <2>1, <2>2
  <2> HIDE DEF Bad
  <2>4. PICK v : n > 0 => HasPrefixes(d, n - 1, v)
    <3>1. n > 0 => n - 1 \in Nat /\ n - 1 < n
      BY <2>2
    <3> QED BY <2>3, <3>1
  <2> DEFINE E(u, k) == IF k = 0 THEN 0 ELSE u[k - 1] * BYTE + d[k]
             h == [k \in 0 .. n |-> E(v, k)]
  <2>5. ASSUME NEW k \in 0 .. n PROVE E(v, k) = E(h, k)
    <3>1. CASE k = 0
      BY <3>1
    <3>2. CASE k # 0
      <4>1. k - 1 \in 0 .. n - 1 /\ k - 1 \in 0 .. n /\ n > 0
        BY <2>2, <3>2
      <4>2. v = [j \in 0 .. n - 1 |-> E(v, j)]
        BY <2>4, <4>1 DEF HasPrefixes
      <4> HIDE DEF E
      <4>3. v[k - 1] = E(v, k - 1) /\ h[k - 1] = E(v, k - 1)
        BY <4>1, <4>2
      <4> HIDE DEF h
      <4> QED BY <3>2, <4>3 DEF E
    <3> QED BY <3>1, <3>2
  <2> HIDE DEF E
  <2>6. h = [k \in 0 .. n |-> E(h, k)]
    BY <2>5
  <2> HIDE DEF h
  <2>7. HasPrefixes(d, n, h)
    BY <2>6 DEF HasPrefixes, E
  <2> QED BY <2>2, <2>7
<1> QED BY <1>1, <1>2

\* The places of a word have values.
LEMMA PlacesExist ==
    ASSUME NEW m \in Nat
    PROVE  \E w : HasPlaces(m, w)
<1> DEFINE Bad == {n \in Nat : ~ \E w : HasPlaces(n, w)}
<1>1. CASE Bad = {}
  BY <1>1
<1>2. CASE Bad # {}
  <2>1. PICK n \in Bad : \A k \in Bad : n <= k
    BY <1>2, FirstPosition
  <2>2. n \in Nat /\ ~ \E w : HasPlaces(n, w)
    BY <2>1
  <2>3. \A k \in Nat : k < n => \E w : HasPlaces(k, w)
    BY <2>1, <2>2
  <2> HIDE DEF Bad
  <2>4. PICK w : n > 0 => HasPlaces(n - 1, w)
    <3>1. n > 0 => n - 1 \in Nat /\ n - 1 < n
      BY <2>2
    <3> QED BY <2>3, <3>1
  <2> DEFINE E(u, k) == IF k = 0 THEN 1 ELSE BYTE * u[k - 1]
             h == [k \in 0 .. n |-> E(w, k)]
  <2>5. ASSUME NEW k \in 0 .. n PROVE E(w, k) = E(h, k)
    <3>1. CASE k = 0
      BY <3>1
    <3>2. CASE k # 0
      <4>1. k - 1 \in 0 .. n - 1 /\ k - 1 \in 0 .. n /\ n > 0
        BY <2>2, <3>2
      <4>2. w = [j \in 0 .. n - 1 |-> E(w, j)]
        BY <2>4, <4>1 DEF HasPlaces
      <4> HIDE DEF E
      <4>3. w[k - 1] = E(w, k - 1) /\ h[k - 1] = E(w, k - 1)
        BY <4>1, <4>2
      <4> HIDE DEF h
      <4> QED BY <3>2, <4>3 DEF E
    <3> QED BY <3>1, <3>2
  <2> HIDE DEF E
  <2>6. h = [k \in 0 .. n |-> E(h, k)]
    BY <2>5
  <2> HIDE DEF h
  <2>7. HasPlaces(n, h)
    BY <2>6 DEF HasPlaces, E
  <2> QED BY <2>2, <2>7
<1> QED BY <1>1, <1>2

\* from_be_bytes is the number of the whole sequence.
LEMMA FromBeBytesIsAPrefix ==
    ASSUME NEW bytes, Len(bytes) \in Nat
    PROVE  \E v : HasPrefixes(bytes, Len(bytes), v) /\ FromBeBytes(bytes) = v[Len(bytes)]
<1> DEFINE v == CHOOSE u : HasPrefixes(bytes, Len(bytes), u)
<1>1. HasPrefixes(bytes, Len(bytes), v)
  BY PrefixesExist
<1>2. FromBeBytes(bytes) = v[Len(bytes)]
  BY Zenon DEF FromBeBytes, HasPrefixes
<1> QED BY <1>1, <1>2

\* Place has the values of the places of a word.
LEMMA PlaceHasPlaces == HasPlaces(WORD, Place)
<1>1. WORD \in Nat
  BY PureAssumption
<1>2. \E w : HasPlaces(WORD, w)
  BY <1>1, PlacesExist
<1>3. Place = CHOOSE w : HasPlaces(WORD, w)
  BY Zenon DEF Place, HasPlaces
<1> QED BY <1>2, <1>3

\* Numbers and places are natural, and a number grows digit by digit, a place by a factor.
LEMMA PrefixesAreNat ==
    ASSUME NEW m \in Nat, NEW d, \A k \in 1 .. m : d[k] \in Nat, NEW v, HasPrefixes(d, m, v)
    PROVE  /\ \A n \in 0 .. m : v[n] \in Nat
           /\ v[0] = 0 /\ \A n \in 1 .. m : v[n] = v[n - 1] * BYTE + d[n]
<1>1. BYTE \in Nat
  BY PureAssumption
<1>2. v[0] = 0 /\ \A n \in 1 .. m : v[n] = v[n - 1] * BYTE + d[n]
  BY DEF HasPrefixes
<1> DEFINE Bad == {n \in Nat : n <= m /\ v[n] \notin Nat}
<1>3. CASE Bad # {}
  <2>1. PICK n \in Bad : \A k \in Bad : n <= k
    BY <1>3, FirstPosition
  <2>2. n \in 0 .. m /\ v[n] \notin Nat
    BY <2>1
  <2>3. n # 0
    BY <1>2, <2>2
  <2>4. v[n - 1] \in Nat
    BY <2>1, <2>2, <2>3
  <2> HIDE DEF Bad
  <2>5. n \in 1 .. m /\ d[n] \in Nat
    BY <2>2, <2>3
  <2>6. v[n] = v[n - 1] * BYTE + d[n]
    BY <1>2, <2>5
  <2>7. v[n - 1] * BYTE \in Nat
    BY <1>1, <2>4
  <2> HIDE DEF HasPrefixes
  <2> QED BY <2>2, <2>5, <2>6, <2>7
<1> QED BY <1>2, <1>3

\* The same for places.
LEMMA PlacesAreNat ==
    ASSUME NEW m \in Nat, NEW w, HasPlaces(m, w)
    PROVE  /\ \A n \in 0 .. m : w[n] \in Nat
           /\ w[0] = 1 /\ \A n \in 1 .. m : w[n] = BYTE * w[n - 1]
<1>1. BYTE \in Nat
  BY PureAssumption
<1>2. w[0] = 1 /\ \A n \in 1 .. m : w[n] = BYTE * w[n - 1]
  BY DEF HasPlaces
<1> DEFINE Bad == {n \in Nat : n <= m /\ w[n] \notin Nat}
<1>3. CASE Bad # {}
  <2>1. PICK n \in Bad : \A k \in Bad : n <= k
    BY <1>3, FirstPosition
  <2>2. n \in 0 .. m /\ w[n] \notin Nat
    BY <2>1
  <2>3. n # 0
    BY <1>2, <2>2
  <2>4. w[n - 1] \in Nat
    BY <2>1, <2>2, <2>3
  <2> HIDE DEF Bad
  <2>5. n \in 1 .. m
    BY <2>2, <2>3
  <2>6. w[n] = BYTE * w[n - 1]
    BY <1>2, <2>5
  <2>7. BYTE * w[n - 1] \in Nat
    BY <1>1, <2>4
  <2> QED BY <2>2, <2>6, <2>7
<1> QED BY <1>2, <1>3

\* A sum of zeros.
LEMMA SumOfZeros ==
    ASSUME NEW f, IsFiniteSet(DOMAIN f), \A x \in DOMAIN f : f[x] = 0
    PROVE  SumFunction(f) = 0
<1>1. PICK g : HasSums(f, g) /\ SumFunction(f) = g[DOMAIN f]
  BY SumFunctionIsSum
<1>2. \A s \in SUBSET DOMAIN f : g[s] = SumOn(f, g, s)
  BY <1>1 DEF HasSums
<1> DEFINE Bad == {n \in Nat : \E s \in SUBSET DOMAIN f : Cardinality(s) = n /\ g[s] # 0}
<1>3. CASE Bad = {}
  BY <1>1, <1>3, ChosenMember
<1>4. CASE Bad # {}
  <2>1. PICK n \in Bad : \A m \in Bad : n <= m
    BY <1>4, FirstPosition
  <2>2. PICK s \in SUBSET DOMAIN f : Cardinality(s) = n /\ g[s] # 0
    BY <2>1
  <2>3. \A u \in SUBSET DOMAIN f : Cardinality(u) \in Nat /\ Cardinality(u) < n => g[u] = 0
    BY <2>1
  <2> HIDE DEF Bad
  <2>4. s # {}
    BY <1>2, <2>2 DEF SumOn
  <2> DEFINE x == Chosen(s)
             u == s \ {x}
  <2>5. x \in s /\ u \in SUBSET DOMAIN f /\ Cardinality(u) \in Nat /\ Cardinality(u) < n
    <3>1. /\ x \in s /\ u \in SUBSET DOMAIN f /\ Cardinality(u) = Cardinality(s) - 1
          /\ Cardinality(s) \in Nat /\ Cardinality(s) > 0
      BY <2>4, ChosenMember
    <3> QED BY <2>2, <3>1
  <2>6. g[s] = f[x] + g[u]
    BY <1>2, <2>4 DEF SumOn
  <2>7. f[x] = 0 /\ g[u] = 0
    <3>1. x \in DOMAIN f
      BY <2>5
    <3> HIDE DEF x
    <3>2. f[x] = 0
      BY <3>1
    <3> QED BY <2>3, <2>5, <3>2
  <2> HIDE DEF x, u
  <2> QED BY <2>2, <2>6, <2>7
<1> QED BY <1>3, <1>4

\* One more digit, multiplied out.
LEMMA OneMoreDigit ==
    ASSUME NEW a \in Nat, NEW b \in Nat, NEW c \in Nat, NEW w \in Nat
    PROVE  (a * b + c) * w = a * (b * w) + c * w
OBVIOUS

\* One more term of a sum.
LEMMA OneMoreTerm ==
    ASSUME NEW m \in Nat, NEW before \in [1 .. m -> Int], NEW after \in [1 .. m -> Int],
           NEW n \in 1 .. m, NEW t \in Int,
           after[n] = before[n] + t, \A x \in 1 .. m : x # n => after[x] = before[x]
    PROVE  SumFunction(after) = SumFunction(before) + t
<1>1. IsFiniteSet(1 .. m)
  BY FS_Interval
<1> QED BY <1>1, SumChanges

\* The number of a sequence of digits is the sum of its digits, each times the value of its place.
LEMMA PrefixesAddUp ==
    ASSUME NEW m \in Nat, NEW d, HasDigits(d, m), NEW v, HasPrefixes(d, m, v),
           NEW w, HasPlaces(m, w), NEW terms, HasTerms(d, w, m, terms)
    PROVE  v[m] = SumFunction(terms)
<1> DEFINE D == 1 .. m
           f(n) == [k \in D |-> IF k <= n THEN d[k] * w[m - k] ELSE 0]
           F == [n \in 0 .. m |-> SumFunction(f(n))]
           Bad == {n \in Nat : n <= m /\ v[n] * w[m - n] # F[n]}
<1>0. /\ \A k \in 1 .. m : d[k] \in Nat
      /\ terms \in [1 .. m -> Nat] /\ \A k \in 1 .. m : terms[k] = d[k] * w[m - k]
  BY DEF HasDigits, HasTerms
<1>1. /\ \A n \in 0 .. m : v[n] \in Nat
      /\ v[0] = 0 /\ \A n \in 1 .. m : v[n] = v[n - 1] * BYTE + d[n]
  BY <1>0, PrefixesAreNat
<1>2. /\ \A n \in 0 .. m : w[n] \in Nat
      /\ w[0] = 1 /\ \A n \in 1 .. m : w[n] = BYTE * w[n - 1]
  BY PlacesAreNat
<1>3. IsFiniteSet(D) /\ BYTE \in Nat
  BY FS_Interval, PureAssumption
<1>4. \A k \in D : d[k] * w[m - k] \in Nat
  <2>1. ASSUME NEW k \in D PROVE d[k] * w[m - k] \in Nat
    <3>1. d[k] \in Nat /\ w[m - k] \in Nat
      BY <1>0, <1>2
    <3> QED BY <3>1
  <2> QED BY <2>1
<1>5. \A n \in 0 .. m : f(n) \in [D -> Int]
  BY <1>4
<1>6. CASE Bad # {}
  <2>1. PICK n \in Bad : \A k \in Bad : n <= k
    BY <1>6, FirstPosition
  <2> HIDE DEF f
  <2>2. n \in 0 .. m /\ v[n] * w[m - n] # SumFunction(f(n))
    BY <2>1
  <2>3. n # 0 => v[n - 1] * w[m - (n - 1)] = SumFunction(f(n - 1))
    BY <2>1, <2>2
  <2> HIDE DEF Bad
  <2>4. CASE n = 0
    <3>1. DOMAIN f(0) = D /\ \A k \in D : f(0)[k] = 0
      BY DEF f
    <3>2. SumFunction(f(0)) = 0
      BY <1>3, <3>1, SumOfZeros
    <3>3. w[m - 0] \in Nat
      BY <1>2
    <3> QED BY <1>1, <2>2, <2>4, <3>2, <3>3
  <2>5. CASE n # 0
    <3> DEFINE p == n - 1
               t == d[n] * w[m - n]
    <3>1. n \in D /\ p \in 0 .. m /\ m - n \in 0 .. m /\ m - p \in 1 .. m /\ (m - p) - 1 = m - n
      BY <2>2, <2>5
    <3>2. t \in Int
      BY <1>4, <3>1
    <3>3. f(n)[n] = f(p)[n] + t /\ \A x \in D : x # n => f(n)[x] = f(p)[x]
      BY <1>4, <3>1 DEF f
    <3>4. f(n) \in [D -> Int] /\ f(p) \in [D -> Int]
      BY <1>5, <2>2, <3>1
    <3> HIDE DEF f, t
    <3>5. SumFunction(f(n)) = SumFunction(f(p)) + t
      BY <1>3, <3>1, <3>2, <3>3, <3>4, OneMoreTerm
    <3>6. v[n] = v[p] * BYTE + d[n] /\ w[m - p] = BYTE * w[m - n]
      BY <1>1, <1>2, <3>1
    <3>7. v[p] \in Nat /\ d[n] \in Nat /\ w[m - n] \in Nat
      BY <1>0, <1>1, <1>2, <3>1
    <3>8. (v[p] * BYTE + d[n]) * w[m - n] = v[p] * (BYTE * w[m - n]) + d[n] * w[m - n]
      BY <1>3, <3>7, OneMoreDigit
    <3>9. v[n] * w[m - n] = v[p] * w[m - p] + t
      BY <3>6, <3>8 DEF t
    <3> QED BY <2>2, <2>3, <2>5, <3>5, <3>9
  <2> QED BY <2>4, <2>5
<1>7. CASE Bad = {}
  <2>1. m \in 0 .. m /\ v[m] * w[m - m] = SumFunction(f(m))
    <3> HIDE DEF f
    <3>1. m \in 0 .. m /\ F[m] = SumFunction(f(m))
      OBVIOUS
    <3> HIDE DEF F
    <3>2. ~(m \in Nat /\ m <= m /\ v[m] * w[m - m] # F[m])
      BY <1>7
    <3> QED BY <3>1, <3>2
  <2>2. f(m) = terms
    BY <1>0
  <2> HIDE DEF f, Bad
  <2>3. m - m = 0 /\ v[m] * 1 = v[m]
    BY <1>1
  <2>4. v[m] * w[m - m] = v[m]
    BY <1>2, <2>3
  <2> QED BY <2>1, <2>2, <2>4
<1> QED BY <1>6, <1>7

-----------------------------------------------------------------------------
(* The header of modexp *)

Bytes == 0 .. BYTE - 1

\* right_pad_with_offset gives the bytes of the input that goes on with zeros.
LEMMA PaddedBytes ==
    ASSUME input \in Seq(Bytes), NEW offset \in Nat
    PROVE  /\ DOMAIN RightPadWithOffset(input, offset) = 1 .. WORD
           /\ Len(RightPadWithOffset(input, offset)) = WORD
           /\ \A k \in 1 .. WORD : /\ RightPadWithOffset(input, offset)[k] = ByteAt(offset + k)
                                   /\ ByteAt(offset + k) \in Nat
<1> DEFINE data == SubSeq(input, offset + 1, Len(input))
           r    == RightPadWithOffset(input, offset)
<1>1. WORD \in Nat /\ BYTE \in Nat
  BY PureAssumption
<1>2. Len(input) \in Nat /\ \A k \in 1 .. Len(input) : input[k] \in Nat
  BY <1>1, LenProperties, ElementOfSeq DEF Bytes
<1>3. /\ Len(data) = IF offset + 1 <= Len(input) THEN Len(input) - offset ELSE 0
      /\ \A k \in 1 .. Len(input) - offset : data[k] = input[offset + k]
  <2>1. \A i \in offset + 1 .. Len(input) : input[i] \in Nat
    BY <1>2
  <2>2. /\ Len(data) = IF offset + 1 <= Len(input) THEN Len(input) - (offset + 1) + 1 ELSE 0
        /\ \A i \in 1 .. Len(input) - (offset + 1) + 1 : data[i] = input[offset + 1 + i - 1]
    BY <1>2, <2>1, SubSeqProperties
  <2> HIDE DEF data
  <2> QED BY <1>2, <2>2
<1>4. r = [k \in 1 .. WORD |-> IF k <= Len(data) THEN data[k] ELSE 0]
  BY DEF RightPadWithOffset
<1> HIDE DEF data, r
<1>5. DOMAIN r = 1 .. WORD /\ Len(r) = WORD
  BY <1>1, <1>4
<1>6. ASSUME NEW k \in 1 .. WORD PROVE r[k] = ByteAt(offset + k) /\ ByteAt(offset + k) \in Nat
  <2>1. CASE k <= Len(data)
    <3>1. k \in 1 .. Len(input) - offset /\ offset + k \in 1 .. Len(input)
      BY <1>1, <1>2, <1>3, <2>1
    <3> QED BY <1>2, <1>3, <1>4, <2>1, <3>1 DEF ByteAt
  <2>2. CASE ~(k <= Len(data))
    <3>1. ~(offset + k <= Len(input))
      BY <1>1, <1>2, <1>3, <2>2
    <3> QED BY <1>4, <2>2, <3>1 DEF ByteAt
  <2> QED BY <2>1, <2>2
<1> QED BY <1>5, <1>6 DEF r

\* What bernoulli_run and osaka_run read is the operand's length.
LEMMA HeaderWordIsOperandLength ==
    ASSUME input \in Seq(Bytes), NEW i \in Nat
    PROVE  HeaderWord(input, i) = OperandLength(i) /\ OperandLength(i) \in Nat
<1> DEFINE o == i * WORD
           r == RightPadWithOffset(input, o)
<1>1. WORD \in Nat /\ o \in Nat
  BY PureAssumption
<1> HIDE DEF o
<1>2. /\ DOMAIN r = 1 .. WORD /\ Len(r) = WORD
      /\ \A k \in 1 .. WORD : r[k] = ByteAt(o + k) /\ r[k] \in Nat
  BY <1>1, PaddedBytes
<1> HIDE DEF r
<1>3. PICK v : HasPrefixes(r, WORD, v) /\ FromBeBytes(r) = v[WORD]
  BY <1>1, <1>2, FromBeBytesIsAPrefix
<1> DEFINE terms == [k \in 1 .. WORD |-> r[k] * Place[WORD - k]]
<1>4. v[WORD] = SumFunction(terms)
  <2>1. \A k \in 1 .. WORD : r[k] \in Nat
    BY <1>2
  <2>2. \A k \in 1 .. WORD : Place[WORD - k] \in Nat /\ WORD - k \in 0 .. WORD
    BY <1>1, PlaceHasPlaces, PlacesAreNat
  <2>3. HasDigits(r, WORD) /\ HasTerms(r, Place, WORD, terms)
    BY <2>1, <2>2 DEF HasDigits, HasTerms
  <2> HIDE DEF terms
  <2> QED BY <1>1, <1>3, <2>3, PlaceHasPlaces, PrefixesAddUp
<1>5. v[WORD] \in Nat
  <2>1. \A n \in 0 .. WORD : v[n] \in Nat
    BY <1>1, <1>2, <1>3, PrefixesAreNat
  <2> QED BY <1>1, <2>1
<1>6. terms = [k \in 1 .. WORD |-> ByteAt(o + k) * Place[WORD - k]]
  BY <1>2
<1>7. OperandLength(i) = SumFunction([k \in 1 .. WORD |-> ByteAt(o + k) * Place[WORD - k]])
  BY DEF OperandLength, o
<1>8. HeaderWord(input, i) = FromBeBytes(r)
  BY DEF HeaderWord, r, o
<1> QED BY <1>3, <1>4, <1>5, <1>6, <1>7, <1>8

\* revm's implementation is reached if no length is above the limit.
LEMMA CheckedLengths ==
    ASSUME NEW lengths \in [1 .. 3 -> Nat], NEW limit \in Nat
    PROVE  LengthsChecked(lengths, limit) = "revm" <=> \A i \in 1 .. 3 : lengths[i] <= limit
<1> DEFINE long == {i \in 1 .. 3 : lengths[i] > limit}
           errors == <<"base overflow", "exp overflow", "mod overflow">>
<1>1. CASE long = {}
  <2>1. LengthsChecked(lengths, limit) = "revm"
    BY <1>1, Zenon DEF LengthsChecked
  <2>2. ASSUME NEW i \in 1 .. 3 PROVE lengths[i] <= limit
    <3>1. ~(lengths[i] > limit) /\ lengths[i] \in Nat
      BY <1>1
    <3> QED BY <3>1
  <2> QED BY <2>1, <2>2
<1>2. CASE long # {}
  <2>1. long \subseteq Nat
    OBVIOUS
  <2>2. \E i \in long : \A j \in long : i <= j
    BY <1>2, <2>1, FirstPosition
  <2>3. Min(long) \in long
    <3> HIDE DEF long
    <3> QED BY <2>2, Zenon DEF Min
  <2>4. \A i \in 1 .. 3 : errors[i] # "revm"
    <3>1. errors[1] = "base overflow" /\ errors[2] = "exp overflow" /\ errors[3] = "mod overflow"
      OBVIOUS
    <3> HIDE DEF errors
    <3>2. errors[1] # "revm" /\ errors[2] # "revm" /\ errors[3] # "revm"
      BY <3>1
    <3> QED BY <3>2
  <2>5. LengthsChecked(lengths, limit) = errors[Min(long)]
    BY <1>2, Zenon DEF LengthsChecked
  <2>6. Min(long) \in 1 .. 3
    BY <2>3
  <2>7. LengthsChecked(lengths, limit) # "revm"
    BY <2>4, <2>5, <2>6
  <2> QED BY <1>2, <2>7
<1> QED BY <1>1, <1>2

\* Both versions of modexp compute if no operand is longer than their limit.
LEMMA ModexpLengths ==
    ASSUME input \in Seq(Bytes)
    PROVE  /\ BernoulliModexp(input) = "revm"
                <=> \A i \in 0 .. 2 : OperandLength(i) <= BERNOULLI_MODEXP_LIMIT
           /\ OsakaModexp(input) = "revm"
                <=> \A i \in 0 .. 2 : OperandLength(i) <= OSAKA_MODEXP_LIMIT
<1> DEFINE lengths == [i \in 1 .. 3 |-> HeaderWord(input, i - 1)]
<1>1. ASSUME NEW i \in 1 .. 3
      PROVE  lengths[i] = OperandLength(i - 1) /\ OperandLength(i - 1) \in Nat
  <2>1. i - 1 \in Nat
    OBVIOUS
  <2>2. HeaderWord(input, i - 1) = OperandLength(i - 1) /\ OperandLength(i - 1) \in Nat
    BY <2>1, HeaderWordIsOperandLength
  <2>3. lengths[i] = HeaderWord(input, i - 1)
    OBVIOUS
  <2> QED BY <2>2, <2>3
<1>2. lengths \in [1 .. 3 -> Nat]
  BY <1>1
<1>3. /\ BernoulliModexp(input) = LengthsChecked(lengths, BERNOULLI_MODEXP_LIMIT)
      /\ OsakaModexp(input) = LengthsChecked(lengths, OSAKA_MODEXP_LIMIT)
  BY DEF BernoulliModexp, OsakaModexp
<1> HIDE DEF lengths
<1>4. ASSUME NEW limit \in Nat
      PROVE  LengthsChecked(lengths, limit) = "revm" <=> \A i \in 0 .. 2 : OperandLength(i) <= limit
  <2>1. LengthsChecked(lengths, limit) = "revm" <=> \A i \in 1 .. 3 : OperandLength(i - 1) <= limit
    BY <1>1, <1>2, CheckedLengths
  <2>2. \A i \in 0 .. 2 : i + 1 \in 1 .. 3 /\ (i + 1) - 1 = i
    OBVIOUS
  <2> QED BY <2>1, <2>2
<1> QED BY <1>3, <1>4, PureAssumption

-----------------------------------------------------------------------------
(* The forks *)

\* What a set of precompiles has at an address, and what an implementation answers.
ImplOf(p, address) == IF address \in DOMAIN p THEN p[address] ELSE "none"
Answer(impl) ==
    CASE impl = "none" -> "no precompile"
      [] impl = "not_implemented" -> "not implemented"
      [] impl = "modexp_32_bytes" -> BernoulliModexp(input)
      [] impl = "modexp_osaka" -> OsakaModexp(input)
      [] impl = "ripemd160_32_bytes" -> TsukiRipemd160(input)
      [] impl = "pairing_4_pairs" -> BernoulliPairing(input)
      [] OTHER -> "revm"

\* A set of precompiles computes a call of an address.
Computes(p, address) == Answer(ImplOf(p, address)) = "revm"

\* A call is answered by what the fork has at the address.
LEMMA CallsAreAnswered ==
    ASSUME NEW s, NEW address
    PROVE  Called(s, address, input) = Answer(ImplOf(NewWithSpec(s).inner, address))
BY Zenon DEF Called, Answer, ImplOf

\* A set that extends another one computes what the other one does, if its new entries do.
LEMMA ExtensionComputes ==
    ASSUME NEW p, NEW more, NEW address,
           address \in DOMAIN more /\ Computes(p, address) => Answer(more[address]) = "revm"
    PROVE  Computes(p, address) => Computes(Extend(p, more), address)
<1> DEFINE q == Extend(p, more)
<1>1. /\ DOMAIN q = DOMAIN more \cup DOMAIN p
      /\ address \in DOMAIN q => q[address] = IF address \in DOMAIN more THEN more[address] ELSE p[address]
  BY DEF Extend
<1> HIDE DEF q
<1>2. CASE address \in DOMAIN more
  <2>1. ImplOf(q, address) = more[address]
    BY <1>1, <1>2 DEF ImplOf
  <2> QED BY <1>2, <2>1 DEF Computes, q
<1>3. CASE address \notin DOMAIN more
  <2>1. ImplOf(q, address) = ImplOf(p, address)
    BY <1>1, <1>3 DEF ImplOf
  <2> QED BY <2>1 DEF Computes, q
<1> QED BY <1>2, <1>3

\* Implementations without a limit compute everything, and those of an excluded precompile nothing.
LEMMA AnswersWithoutLimits ==
    /\ Answer("sha256") = "revm" /\ Answer("p256verify") = "revm" /\ Answer("pairing") = "revm"
    /\ Answer("p256verify_osaka") = "revm" /\ Answer("transfer") = "revm"
    /\ Answer("not_implemented") # "revm" /\ Answer("none") # "revm"
BY DEF Answer

\* The modexp of Galileo computes what the older one does.
LEMMA OsakaModexpIsWider ==
    ASSUME input \in Seq(Bytes), Answer("modexp_32_bytes") = "revm"
    PROVE  Answer("modexp_osaka") = "revm"
<1>1. \A i \in 0 .. 2 : OperandLength(i) <= BERNOULLI_MODEXP_LIMIT /\ OperandLength(i) \in Nat
  <2>1. BernoulliModexp(input) = "revm"
    BY DEF Answer
  <2>2. \A i \in 0 .. 2 : OperandLength(i) <= BERNOULLI_MODEXP_LIMIT
    BY <2>1, ModexpLengths
  <2>3. \A i \in 0 .. 2 : OperandLength(i) \in Nat
    <3>1. \A i \in Nat : OperandLength(i) \in Nat
      BY HeaderWordIsOperandLength
    <3> QED BY <3>1
  <2> QED BY <2>2, <2>3
<1>2. \A i \in 0 .. 2 : OperandLength(i) <= OSAKA_MODEXP_LIMIT
  BY <1>1, PureAssumption
<1>3. OsakaModexp(input) = "revm"
  BY <1>2, ModexpLengths
<1> QED BY <1>3 DEF Answer

\* What the sets have where a later one replaces an entry.
LEMMA ReplacedEntries ==
    /\ ImplOf(PreBernoulli, "MODEXP") = "modexp_32_bytes"
    /\ ImplOf(Bernoulli, "MODEXP") = "modexp_32_bytes"
    /\ ImplOf(Euclid, "MODEXP") = "modexp_32_bytes"
    /\ ImplOf(Feynman, "MODEXP") = "modexp_32_bytes"
    /\ ImplOf(Galileo, "MODEXP") = "modexp_osaka"
    /\ ImplOf(Tsuki, "MODEXP") = "modexp_osaka"
    /\ ImplOf(Galileo, "RIPEMD160") = "not_implemented"
<1>1. /\ ImplOf(PreBernoulli, "MODEXP") = "modexp_32_bytes"
      /\ ImplOf(PreBernoulli, "RIPEMD160") = "not_implemented"
  BY DEF ImplOf, PreBernoulli
<1>2. ASSUME NEW p, NEW more, NEW address
      PROVE  ImplOf(Extend(p, more), address)
               = IF address \in DOMAIN more THEN more[address] ELSE ImplOf(p, address)
  BY DEF ImplOf, Extend
<1>3. /\ ImplOf(Bernoulli, "MODEXP") = "modexp_32_bytes"
      /\ ImplOf(Bernoulli, "RIPEMD160") = "not_implemented"
  BY <1>1, <1>2 DEF Bernoulli
<1>4. /\ ImplOf(Euclid, "MODEXP") = "modexp_32_bytes"
      /\ ImplOf(Euclid, "RIPEMD160") = "not_implemented"
  BY <1>2, <1>3 DEF Euclid
<1>5. /\ ImplOf(Feynman, "MODEXP") = "modexp_32_bytes"
      /\ ImplOf(Feynman, "RIPEMD160") = "not_implemented"
  BY <1>2, <1>4 DEF Feynman
<1>6. ImplOf(Galileo, "MODEXP") = "modexp_osaka" /\ ImplOf(Galileo, "RIPEMD160") = "not_implemented"
  BY <1>2, <1>5 DEF Galileo
<1>7. ImplOf(TsukiStatic, "MODEXP") = "modexp_osaka"
  BY <1>2, <1>6 DEF TsukiStatic
<1>8. ImplOf(Tsuki, "MODEXP") = "modexp_osaka"
  BY <1>2, <1>7 DEF Tsuki, TsukiExtensions
<1> QED BY <1>1, <1>3, <1>4, <1>5, <1>6, <1>8

\* No set of precompiles takes anything back.
LEMMA SetsTakeNothingBack ==
    ASSUME input \in Seq(Bytes), NEW address
    PROVE  /\ Computes(PreBernoulli, address) => Computes(Bernoulli, address)
           /\ Computes(Bernoulli, address) => Computes(Euclid, address)
           /\ Computes(Euclid, address) => Computes(Feynman, address)
           /\ Computes(Feynman, address) => Computes(Galileo, address)
           /\ Computes(Galileo, address) => Computes(Tsuki, address)
<1>1. Computes(PreBernoulli, address) => Computes(Bernoulli, address)
  BY ExtensionComputes, AnswersWithoutLimits DEF Bernoulli
<1>2. Computes(Bernoulli, address) => Computes(Euclid, address)
  BY ExtensionComputes, AnswersWithoutLimits DEF Euclid
<1>3. Computes(Euclid, address) => Computes(Feynman, address)
  BY ExtensionComputes, AnswersWithoutLimits DEF Feynman
<1>4. Computes(Feynman, address) => Computes(Galileo, address)
  <2> DEFINE more == [MODEXP |-> "modexp_osaka", P256VERIFY |-> "p256verify_osaka"]
  <2>1. /\ DOMAIN more = {"MODEXP", "P256VERIFY"}
        /\ more["MODEXP"] = "modexp_osaka" /\ more["P256VERIFY"] = "p256verify_osaka"
    OBVIOUS
  <2>2. Galileo = Extend(Feynman, more)
    BY DEF Galileo
  <2> HIDE DEF more
  <2>3. Computes(Feynman, "MODEXP") => Answer("modexp_osaka") = "revm"
    BY OsakaModexpIsWider, ReplacedEntries DEF Computes
  <2> QED BY <2>1, <2>2, <2>3, ExtensionComputes, AnswersWithoutLimits
<1>5. Computes(Galileo, address) => Computes(TsukiStatic, address)
  <2>1. ~Computes(Galileo, "RIPEMD160")
    BY ReplacedEntries, AnswersWithoutLimits DEF Computes
  <2> QED BY <2>1, ExtensionComputes DEF TsukiStatic
<1>6. Computes(TsukiStatic, address) => Computes(Tsuki, address)
  BY ExtensionComputes, AnswersWithoutLimits DEF Tsuki, TsukiExtensions
<1> QED BY <1>1, <1>2, <1>3, <1>4, <1>5, <1>6

\* Which set a fork has.
LEMMA SetsByFork ==
    /\ NewWithSpec(1).inner = PreBernoulli /\ NewWithSpec(2).inner = Bernoulli
    /\ NewWithSpec(3).inner = Bernoulli /\ NewWithSpec(4).inner = Bernoulli
    /\ NewWithSpec(5).inner = Euclid /\ NewWithSpec(6).inner = Feynman
    /\ NewWithSpec(7).inner = Galileo /\ NewWithSpec(8).inner = Tsuki
    /\ NewWithSpec(9).inner = Tsuki
BY DEF NewWithSpec, SHANGHAI, BERNOULLI, CURIE, DARWIN, EUCLID, FEYNMAN, GALILEO, TSUKI, TSUKI_V2

\* A later fork computes what an older one does.
LEMMA LaterForksCompute ==
    ASSUME input \in Seq(Bytes), NEW s \in ScrollSpecId, NEW t \in ScrollSpecId, s <= t, NEW address,
           Called(s, address, input) = "revm"
    PROVE  Called(t, address, input) = "revm"
<1> DEFINE C(n) == Computes(NewWithSpec(n).inner, address)
<1>1. /\ (C(1) => C(2)) /\ (C(2) => C(3)) /\ (C(3) => C(4)) /\ (C(4) => C(5))
      /\ (C(5) => C(6)) /\ (C(6) => C(7)) /\ (C(7) => C(8)) /\ (C(8) => C(9))
  BY SetsByFork, SetsTakeNothingBack
<1>2. \A n : C(n) <=> Called(n, address, input) = "revm"
  BY CallsAreAnswered DEF Computes
<1> HIDE DEF C
<1>3. s \in 1 .. 9 /\ t \in 1 .. 9
  BY DEF ScrollSpecId, SHANGHAI, TSUKI_V2
<1>4. C(s) => C(t)
  <2> DEFINE From(n) == \A m \in n .. 9 : C(n) => C(m)
  <2>1. From(9) /\ From(8) /\ From(7) /\ From(6)
    BY <1>1
  <2>2. From(5) /\ From(4) /\ From(3)
    BY <1>1
  <2>3. From(2) /\ From(1)
    BY <1>1
  <2>4. From(s) /\ t \in s .. 9
    BY <1>3, <2>1, <2>2, <2>3
  <2> QED BY <2>4
<1> QED BY <1>2, <1>4

-----------------------------------------------------------------------------
(* The theorems *)

\* The outcome is that of the call under the current fork.
IInv ==
    /\ spec \in ScrollSpecId /\ input \in Inputs
    /\ outcome = Called(spec, target, input)

\* An input is a sequence of bytes.
LEMMA InputsAreBytes == IInv => input \in Seq(Bytes)
BY PureAssumption DEF IInv, Bytes

\* The invariant holds.
LEMMA Invariant == Spec => []IInv
<1>1. Init => IInv
  BY DEF Init, IInv, ScrollSpecId, SHANGHAI, TSUKI_V2
<1>2. IInv /\ [Next]_vars => IInv'
  BY DEF IInv, Next, CallAgain, vars
<1> QED BY <1>1, <1>2, PTL DEF Spec

\* revm's modexp gets an input exactly if no operand is longer than the fork allows, for words of
\* any size: reading the header at its full width digit by digit gives the number that the input
\* stands for when it goes on with zeros for ever.
THEOREM ModexpComputesExactlyWithinLimit == Spec => []ModexpComputesWithinLimit
<1>1. IInv => ModexpComputesWithinLimit
  <2> SUFFICES ASSUME IInv, target = "MODEXP"
               PROVE  outcome = "revm" <=> \A i \in 0 .. 2 : OperandLength(i) <= ModexpLimit
    BY DEF ModexpComputesWithinLimit
  <2>1. outcome = Answer(ImplOf(NewWithSpec(spec).inner, "MODEXP")) /\ spec \in 1 .. 9
    BY CallsAreAnswered DEF IInv, ScrollSpecId, SHANGHAI, TSUKI_V2
  <2>2. ImplOf(NewWithSpec(spec).inner, "MODEXP")
          = IF spec < 7 THEN "modexp_32_bytes" ELSE "modexp_osaka"
    BY <2>1, SetsByFork, ReplacedEntries
  <2>3. Answer("modexp_32_bytes") = BernoulliModexp(input) /\ Answer("modexp_osaka") = OsakaModexp(input)
    BY DEF Answer
  <2>4. ModexpLimit = IF spec < 7 THEN BERNOULLI_MODEXP_LIMIT ELSE OSAKA_MODEXP_LIMIT
    BY DEF ModexpLimit, GALILEO
  <2> QED BY <2>1, <2>2, <2>3, <2>4, InputsAreBytes, ModexpLengths
<1> QED BY <1>1, Invariant, PTL

\* A call that reached revm's implementation under one fork reaches one under every later fork.
THEOREM ForksOnlyAdd == Spec => ForksTakeNothingBack
<1>1. IInv /\ [Next]_vars => [outcome = "revm" => outcome' = "revm"]_vars
  <2> SUFFICES ASSUME IInv, NEW s \in ScrollSpecId, CallAgain(s), outcome = "revm"
               PROVE  outcome' = "revm"
    BY DEF Next
  <2>1. Called(spec, target, input) = "revm" /\ spec \in ScrollSpecId /\ spec <= s
    BY DEF IInv, CallAgain, ScrollSpecId, SHANGHAI, TSUKI_V2
  <2>2. outcome' = Called(s, target, input)
    BY DEF CallAgain
  <2> QED BY <2>1, <2>2, InputsAreBytes, LaterForksCompute
<1> QED BY <1>1, Invariant, PTL DEF Spec, ForksTakeNothingBack
================================================================================
