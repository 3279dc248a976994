-------------------------- MODULE ScrollOpcodesProofs --------------------------
(***************************************************************************)
(* Theorems of ScrollOpcodes: gas and memory of a frame, MCOPY as EIP-5656 *)
(* has it, TSTORE and TLOAD as EIP-1153 has them.                          *)
(***************************************************************************)
EXTENDS ScrollOpcodes, SequenceTheorems, FiniteSetTheorems, WellFoundedInduction, TLAPS

-----------------------------------------------------------------------------
(* Words and their gas *)

\* A memory of num_words words has room for the bytes, and not a word too many.
LEMMA WordsHoldBytes ==
    ASSUME NEW n \in Nat
    PROVE  /\ NumWords(n) \in Nat /\ NumWords(n) * WORD \in Nat
           /\ n <= NumWords(n) * WORD /\ NumWords(n) * WORD < n + WORD
<1> DEFINE q == NumWords(n)
<1>1. WORD \in Nat /\ WORD > 0
  BY OpcodeAssumption
<1>2. q = (n + WORD - 1) \div WORD
  BY DEF NumWords
<1>3. n + WORD - 1 \in Nat
  BY <1>1
<1> HIDE DEF q
<1>4. q \in Nat /\ q * WORD \in Nat /\ q * WORD <= n + WORD - 1 /\ n + WORD - 1 < q * WORD + WORD
  <2> DEFINE a == n + WORD - 1
             d == a \div WORD
  <2>1. a \in Nat /\ d = q
    BY <1>2, <1>3
  <2>2. /\ d \in Nat /\ a % WORD \in Nat /\ a % WORD < WORD /\ a = d * WORD + (a % WORD)
    <3> HIDE DEF a
    <3> QED BY <1>1, <2>1
  <2>3. q * WORD \in Nat
    BY <1>1, <2>1, <2>2
  <2> HIDE DEF d
  <2> QED BY <1>1, <2>1, <2>2, <2>3
<1> QED BY <1>1, <1>4 DEF q

\* Whole words hold themselves.
LEMMA WholeWords ==
    ASSUME NEW k \in Nat
    PROVE  k * WORD \in Nat /\ NumWords(k * WORD) = k /\ (k * WORD) \div WORD = k
<1> DEFINE n == k * WORD
           q == NumWords(n)
           d == n \div WORD
<1>1. WORD \in Nat /\ WORD > 0
  BY OpcodeAssumption
<1>2. n \in Nat
  BY <1>1
<1>3. q \in Nat /\ n <= q * WORD /\ q * WORD < n + WORD
  BY <1>2, WordsHoldBytes
<1>4. d \in Nat /\ n % WORD \in Nat /\ n % WORD < WORD /\ n = d * WORD + (n % WORD)
  <2> HIDE DEF n
  <2> QED BY <1>1, <1>2
<1> HIDE DEF q, d
<1>5. q = k
  <2>1. k * WORD <= q * WORD /\ q * WORD < (k + 1) * WORD
    BY <1>1, <1>3
  <2>2. ~ (q < k)
    BY <1>1, <1>3, <2>1
  <2>3. ~ (k < q)
    BY <1>1, <1>3, <2>1
  <2> QED BY <1>3, <2>2, <2>3
<1>6. d = k
  <2>1. d * WORD <= k * WORD /\ k * WORD < (d + 1) * WORD
    BY <1>1, <1>4
  <2> QED BY <1>1, <1>4, <2>1
<1> QED BY <1>2, <1>5, <1>6 DEF q, d

\* More bytes need no fewer words.
LEMMA WordsGrow ==
    ASSUME NEW a \in Nat, NEW b \in Nat, a <= b
    PROVE  NumWords(a) <= NumWords(b)
<1> DEFINE p == NumWords(a)
           q == NumWords(b)
<1>1. WORD \in Nat /\ WORD > 0
  BY OpcodeAssumption
<1>2. /\ p \in Nat /\ a <= p * WORD /\ p * WORD < a + WORD
      /\ q \in Nat /\ b <= q * WORD /\ q * WORD < b + WORD
  BY WordsHoldBytes
<1> HIDE DEF p, q
<1>3. p * WORD < (q + 1) * WORD
  BY <1>1, <1>2
<1>4. p < q + 1
  BY <1>1, <1>2, <1>3
<1> QED BY <1>2, <1>4 DEF p, q

\* The gas of memory grows with it.
LEMMA MemoryGasGrows ==
    ASSUME NEW a \in Nat, NEW b \in Nat, a <= b
    PROVE  MemoryGas(a) \in Nat /\ MemoryGas(b) \in Nat /\ MemoryGas(a) <= MemoryGas(b)
<1>1. MEMORY_GAS \in Nat
  BY OpcodeAssumption
<1> DEFINE la == MEMORY_GAS * a
           lb == MEMORY_GAS * b
           sa == a * a
           sb == b * b
<1>2. la \in Nat /\ lb \in Nat /\ la <= lb
  BY <1>1
<1>3. sa \in Nat /\ sb \in Nat /\ sa <= sb
  <2>1. sa <= a * b /\ a * b <= sb
    OBVIOUS
  <2> QED BY <2>1
<1>4. MemoryGas(a) = la + sa \div 4 /\ MemoryGas(b) = lb + sb \div 4
  BY DEF MemoryGas
<1> HIDE DEF la, lb, sa, sb
<1> QED BY <1>2, <1>3, <1>4

-----------------------------------------------------------------------------
(* Memory *)

Entries == [slot : Slots, had : Values]
Frames  == [target : Addresses, static : BOOLEAN, remaining : 0 .. GasLimit, memory : Seq(Bytes),
            checkpoint : Nat]

\* The memory of f is whole words, and the gas limit has paid for it besides the gas g.
Paid(f, g) ==
    /\ Len(f.memory) = NumWords(Len(f.memory)) * WORD
    /\ MemoryGas(NumWords(Len(f.memory))) + g <= GasLimit

\* resize_memory: memory keeps its bytes, is zero in the new ones, and costs the difference.
LEMMA GrownMemory ==
    ASSUME NEW m \in Seq(Bytes), NEW end \in Nat, Len(m) = NumWords(Len(m)) * WORD
    PROVE  /\ Grown(m, end) \in Seq(Bytes)
           /\ Len(Grown(m, end)) = Max2(NumWords(Len(m)), NumWords(end)) * WORD
           /\ \A i \in 1 .. Len(m) : Grown(m, end)[i] = m[i]
           /\ \A i \in Len(m) + 1 .. Len(Grown(m, end)) : Grown(m, end)[i] = 0
           /\ ResizeGas(m, end) = MemoryGas(Max2(NumWords(Len(m)), NumWords(end)))
                                  - MemoryGas(NumWords(Len(m)))
<1> DEFINE n == Len(m)
           k == NumWords(n)
           e == NumWords(end)
           x == e * WORD - n
           z == [i \in 1 .. x |-> 0]
           l == IF x > 0 THEN x ELSE 0
<1>1. /\ WORD \in Nat /\ WORD > 0 /\ 0 \in Bytes
  BY OpcodeAssumption
<1>2. /\ n \in Nat /\ k \in Nat /\ e \in Nat /\ e * WORD \in Nat /\ n = k * WORD
  <2>1. n \in Nat
    BY LenProperties
  <2> QED BY <2>1, WordsHoldBytes
<1>3. x \in Int /\ (x > 0 <=> e > k)
  <2> HIDE DEF n, k, e
  <2>1. x \in Int /\ (x > 0 <=> k * WORD < e * WORD)
    BY <1>2
  <2>2. e <= k => e * WORD <= k * WORD
    BY <1>1, <1>2
  <2>3. e > k => (k + 1) * WORD <= e * WORD
    BY <1>1, <1>2
  <2>4. (k + 1) * WORD = k * WORD + WORD
    BY <1>1, <1>2
  <2> HIDE DEF x
  <2> QED BY <1>1, <1>2, <2>1, <2>2, <2>3, <2>4
<1>4. z \in Seq(Bytes) /\ Len(z) = l /\ l \in Nat /\ \A i \in 1 .. l : z[i] = 0
  <2> HIDE DEF x
  <2>1. l \in Nat /\ 1 .. x = 1 .. l
    BY <1>3
  <2>2. z \in [1 .. l -> Bytes]
    BY <1>1, <2>1
  <2>3. \A i \in 1 .. l : z[i] = 0
    BY <2>1
  <2> HIDE DEF z, l
  <2>4. z \in Seq(Bytes) /\ Len(z) = l
    BY <2>1, <2>2, LenProperties
  <2> QED BY <2>1, <2>3, <2>4
<1>5. Grown(m, end) = m \o z
  BY DEF Grown
<1> HIDE DEF z
<1>6. /\ m \o z \in Seq(Bytes) /\ Len(m \o z) = n + l
      /\ \A i \in 1 .. n : (m \o z)[i] = m[i]
      /\ \A i \in n + 1 .. n + l : (m \o z)[i] = 0
  <2>1. /\ m \o z \in Seq(Bytes) /\ Len(m \o z) = Len(m) + Len(z)
        /\ \A i \in 1 .. Len(m) + Len(z) : (m \o z)[i] = IF i <= Len(m) THEN m[i] ELSE z[i - Len(m)]
    BY <1>4, ConcatProperties
  <2> HIDE DEF l
  <2> QED BY <1>2, <1>4, <2>1 DEF n
<1>7. n + l = Max2(k, e) * WORD
  <2>1. CASE e > k
    BY <1>2, <1>3, <2>1 DEF Max2
  <2>2. CASE ~ (e > k)
    BY <1>2, <1>3, <2>2 DEF Max2
  <2> QED BY <2>1, <2>2
<1>8. ResizeGas(m, end) = MemoryGas(Max2(k, e)) - MemoryGas(k)
  <2>1. ResizeGas(m, end) = IF e * WORD <= n THEN 0 ELSE MemoryGas(e) - MemoryGas(k)
    BY DEF ResizeGas
  <2>2. MemoryGas(k) \in Nat
    BY <1>2, MemoryGasGrows
  <2>3. e * WORD <= n <=> ~ (e > k)
    BY <1>2, <1>3
  <2> HIDE DEF k, e, n
  <2> QED BY <1>2, <2>1, <2>2, <2>3 DEF Max2
<1> QED BY <1>5, <1>6, <1>7, <1>8 DEF n, k, e

\* A range beyond usize::MAX needs more memory than the gas limit pays.
LEMMA FarIsUnpaid ==
    ASSUME NEW k \in Nat, NEW g \in Nat, MemoryGas(k) + g <= GasLimit, NEW n \in Nat, USIZE_MAX <= n
    PROVE  MemoryGas(Max2(k, NumWords(n))) - MemoryGas(k) > g
<1> DEFINE u == NumWords(USIZE_MAX)
           w == NumWords(n)
           x == Max2(k, w)
<1>1. USIZE_MAX \in Nat /\ GasLimit \in Nat /\ MemoryGas(u) > GasLimit
  BY OpcodeAssumption
<1>2. u \in Nat /\ w \in Nat /\ u <= w
  BY <1>1, WordsHoldBytes, WordsGrow
<1> HIDE DEF u, w
<1>3. x \in Nat /\ u <= x
  BY <1>2 DEF Max2
<1> HIDE DEF x
<1>4. MemoryGas(u) \in Nat /\ MemoryGas(x) \in Nat /\ MemoryGas(u) <= MemoryGas(x) /\ MemoryGas(k) \in Nat
  BY <1>2, <1>3, MemoryGasGrows
<1> QED BY <1>1, <1>4 DEF x, w

\* The memory of EIP-5656 after a copy.
CopiedMemory(m, dst, src, len) ==
    LET new     == Max2(NumWords(Len(m)), NumWords(Max2(dst, src) + len))
        byte(i) == IF i \in DOMAIN m THEN m[i] ELSE 0
    IN  [i \in 1 .. new * WORD |->
           IF dst < i /\ i <= dst + len THEN byte(src + i - dst) ELSE byte(i)]

\* What copy_within makes of a memory that was grown for both ranges: the memory of EIP-5656.
LEMMA CopyMeetsEip5656 ==
    ASSUME NEW m \in Seq(Bytes), Len(m) = NumWords(Len(m)) * WORD,
           NEW dst \in Nat, NEW src \in Nat, NEW len \in Nat
    PROVE  CopyWithin(Grown(m, Max2(dst, src) + len), dst, src, len) = CopiedMemory(m, dst, src, len)
<1> DEFINE end     == Max2(dst, src) + len
           k       == NumWords(Len(m))
           e       == NumWords(end)
           new     == Max2(k, e)
           l       == new * WORD
           g       == Grown(m, end)
           byte(i) == IF i \in DOMAIN m THEN m[i] ELSE 0
<1>1. end \in Nat /\ dst + len <= end /\ src + len <= end
  BY DEF Max2
<1> HIDE DEF end
<1>2. /\ g \in Seq(Bytes) /\ Len(g) = l
      /\ \A i \in 1 .. Len(m) : g[i] = m[i]
      /\ \A i \in Len(m) + 1 .. Len(g) : g[i] = 0
  BY <1>1, GrownMemory
<1>3. /\ Len(m) \in Nat /\ DOMAIN m = 1 .. Len(m) /\ Len(g) \in Nat /\ DOMAIN g = 1 .. l
  BY <1>2, LenProperties
<1>4. k \in Nat /\ e \in Nat /\ end <= e * WORD /\ Len(m) = k * WORD /\ WORD \in Nat
  BY <1>1, <1>3, WordsHoldBytes, OpcodeAssumption
<1>5. end <= l
  <2> HIDE DEF k, e
  <2>1. new \in Nat /\ e <= new
    BY <1>4 DEF Max2
  <2> HIDE DEF new
  <2>2. e * WORD <= new * WORD
    BY <1>4, <2>1
  <2> QED BY <1>1, <1>4, <2>1, <2>2
<1> HIDE DEF g, l
<1>6. \A i \in 1 .. l : g[i] = byte(i)
  BY <1>2, <1>3
<1>7. \A i \in 1 .. l : dst < i /\ i <= dst + len => i - dst + src \in 1 .. l
  BY <1>1, <1>2, <1>3, <1>5
<1>8. CopyWithin(g, dst, src, len)
      = [i \in 1 .. l |-> IF i \in dst + 1 .. dst + len THEN g[i - dst + src] ELSE g[i]]
  BY <1>3 DEF CopyWithin
<1>9. \A i \in 1 .. l :
        (IF i \in dst + 1 .. dst + len THEN g[i - dst + src] ELSE g[i])
        = IF dst < i /\ i <= dst + len THEN byte(src + i - dst) ELSE byte(i)
  <2> TAKE i \in 1 .. l
  <2>1. i \in dst + 1 .. dst + len <=> dst < i /\ i <= dst + len
    BY <1>2, <1>3
  <2>2. CASE dst < i /\ i <= dst + len
    <3>1. i - dst + src \in 1 .. l /\ i - dst + src = src + i - dst
      BY <1>2, <1>3, <1>7, <2>2
    <3>2. g[i - dst + src] = byte(src + i - dst)
      BY <1>6, <3>1
    <3> HIDE DEF byte
    <3> QED BY <2>1, <2>2, <3>2
  <2>3. CASE ~ (dst < i /\ i <= dst + len)
    <3>1. g[i] = byte(i)
      BY <1>6
    <3> HIDE DEF byte
    <3> QED BY <2>1, <2>3, <3>1
  <2> QED BY <2>2, <2>3
<1>10. CopyWithin(g, dst, src, len)
       = [i \in 1 .. l |-> IF dst < i /\ i <= dst + len THEN byte(src + i - dst) ELSE byte(i)]
  <2> HIDE DEF byte
  <2> QED BY <1>8, <1>9
<1> QED BY <1>10 DEF g, l, end, CopiedMemory

\* mcopy does what EIP-5656 says, for a frame whose memory was paid: an operand beyond
\* usize::MAX, and a range that saturates there, ask for more memory than any gas limit pays.
LEMMA McopyMeetsEip5656 ==
    ASSUME NEW f \in Frames, Paid(f, f.remaining),
           NEW dst \in Nat, NEW src \in Nat, NEW len \in Nat
    PROVE  McopyResult(f, dst, src, len) = Eip5656(f, dst, src, len)
<1> DEFINE m       == f.memory
           k       == NumWords(Len(m))
           far     == Max2(dst, src) + len
           w       == NumWords(far)
           copied  == COPY_GAS * NumWords(len)
           resize  == ResizeGas(m, Saturated(far))
           copy    == CopyWithin(Grown(m, Saturated(far)), dst, src, len)
           new     == IF len = 0 THEN k ELSE Max2(k, w)
           more    == MemoryGas(new) - MemoryGas(k)
           gas     == copied + more
           byte(i) == IF i \in DOMAIN m THEN m[i] ELSE 0
           bytes   == [i \in 1 .. new * WORD |->
                         IF dst < i /\ i <= dst + len THEN byte(src + i - dst) ELSE byte(i)]
<1>1. /\ USIZE_MAX \in Nat /\ COPY_GAS \in Nat /\ WORD \in Nat /\ GasLimit \in Nat
  BY OpcodeAssumption
<1>2. /\ m \in Seq(Bytes) /\ Len(m) \in Nat /\ DOMAIN m = 1 .. Len(m) /\ f.remaining \in Nat
      /\ Len(m) = k * WORD /\ MemoryGas(k) + f.remaining <= GasLimit
  <2>1. m \in Seq(Bytes) /\ f.remaining \in Nat
    BY <1>1 DEF Frames
  <2> QED BY <2>1, LenProperties DEF Paid
<1>3. k \in Nat /\ Len(m) \div WORD = k /\ MemoryGas(k) \in Nat
  <2>1. k \in Nat
    BY <1>2, WordsHoldBytes
  <2> HIDE DEF k, m
  <2> QED BY <1>2, <2>1, WholeWords, MemoryGasGrows
<1>4. copied \in Nat
  <2>1. NumWords(len) \in Nat
    BY WordsHoldBytes
  <2> QED BY <1>1, <2>1
<1>5. far \in Nat /\ len <= far /\ dst <= far /\ src <= far
  BY DEF Max2
<1>6. w \in Nat /\ new \in Nat /\ k <= new
  <2>1. w \in Nat
    BY <1>5, WordsHoldBytes
  <2> HIDE DEF w, k
  <2> QED BY <1>3, <2>1 DEF Max2
<1>7. MemoryGas(new) \in Nat /\ more \in Nat
  <2> HIDE DEF new, k
  <2>1. MemoryGas(new) \in Nat /\ MemoryGas(k) <= MemoryGas(new)
    BY <1>3, <1>6, MemoryGasGrows
  <2> QED BY <1>3, <2>1
<1>8. Eip5656(f, dst, src, len)
      = IF gas > f.remaining THEN NoFrame ELSE [f EXCEPT !.remaining = @ - gas, !.memory = bytes]
  <2>1. gas = copied + MemoryGas(new) - MemoryGas(k)
    <3> HIDE DEF copied, new, k
    <3> QED BY <1>3, <1>4, <1>7
  <2> HIDE DEF gas, copied
  <2>2. Eip5656(f, dst, src, len)
        = LET old == Len(m) \div WORD
              n   == IF len = 0 THEN old ELSE Max2(old, NumWords(Max2(dst, src) + len))
              g   == copied + MemoryGas(n) - MemoryGas(old)
          IN  IF g > f.remaining THEN NoFrame
              ELSE [f EXCEPT !.remaining = @ - g,
                             !.memory = [i \in 1 .. n * WORD |->
                                IF dst < i /\ i <= dst + len THEN byte(src + i - dst) ELSE byte(i)]]
    BY DEF Eip5656, copied
  <2> QED BY <1>3, <2>1, <2>2
<1>9. McopyResult(f, dst, src, len)
      = IF len > USIZE_MAX \/ copied > f.remaining THEN NoFrame
        ELSE IF len = 0 THEN [f EXCEPT !.remaining = @ - copied]
        ELSE IF dst > USIZE_MAX \/ src > USIZE_MAX \/ copied + resize > f.remaining THEN NoFrame
        ELSE [f EXCEPT !.remaining = @ - copied - resize, !.memory = copy]
  <2>1. McopyResult(f, dst, src, len)
        = LET end == Saturated(Max2(dst, src) + len)
              c   == COPY_GAS * NumWords(len)
              r   == ResizeGas(m, end)
          IN  IF len > USIZE_MAX \/ c > f.remaining THEN NoFrame
              ELSE IF len = 0 THEN [f EXCEPT !.remaining = @ - c]
              ELSE IF dst > USIZE_MAX \/ src > USIZE_MAX \/ c + r > f.remaining THEN NoFrame
              ELSE [f EXCEPT !.remaining = @ - c - r, !.memory = CopyWithin(Grown(m, end), dst, src, len)]
    BY DEF McopyResult
  <2> QED BY <2>1
<1>10. len = 0 => more = 0 /\ gas = copied /\ bytes = m
  <2> SUFFICES ASSUME len = 0 PROVE more = 0 /\ gas = copied /\ bytes = m
    OBVIOUS
  <2>1. new = k
    OBVIOUS
  <2>2. more = 0 /\ gas = copied
    <3> HIDE DEF copied, k, new
    <3> QED BY <1>3, <1>4, <2>1
  <2>3. \A i \in 1 .. Len(m) : (IF dst < i /\ i <= dst + len THEN byte(src + i - dst) ELSE byte(i)) = m[i]
    BY <1>2
  <2>4. bytes = [i \in 1 .. Len(m) |->
                   IF dst < i /\ i <= dst + len THEN byte(src + i - dst) ELSE byte(i)]
    BY <1>2, <2>1
  <2>5. m = [i \in 1 .. Len(m) |-> m[i]]
    BY <1>2
  <2> HIDE DEF m, byte, bytes
  <2> QED BY <2>2, <2>3, <2>4, <2>5
<1>11. USIZE_MAX < far /\ len # 0 => gas > f.remaining /\ copied + resize > f.remaining
  <2> SUFFICES ASSUME USIZE_MAX < far, len # 0
               PROVE  gas > f.remaining /\ copied + resize > f.remaining
    OBVIOUS
  <2>1. more > f.remaining
    <3>1. MemoryGas(Max2(k, w)) - MemoryGas(k) > f.remaining
      <4> HIDE DEF k, far
      <4> QED BY <1>1, <1>2, <1>3, <1>5, FarIsUnpaid
    <3> QED BY <3>1
  <2>2. resize > f.remaining
    <3>1. Saturated(far) = USIZE_MAX
      BY <1>1, <1>5 DEF Saturated
    <3>2. resize = MemoryGas(Max2(k, NumWords(USIZE_MAX))) - MemoryGas(k)
      BY <1>1, <1>2, <3>1, GrownMemory
    <3>3. MemoryGas(Max2(k, NumWords(USIZE_MAX))) - MemoryGas(k) > f.remaining
      <4> HIDE DEF k
      <4> QED BY <1>1, <1>2, <1>3, FarIsUnpaid
    <3> QED BY <3>2, <3>3
  <2>3. resize \in Int
    <3>1. Saturated(far) \in Nat
      BY <1>1, <1>5 DEF Saturated
    <3>2. resize = MemoryGas(Max2(k, NumWords(Saturated(far)))) - MemoryGas(k)
      BY <1>2, <3>1, GrownMemory
    <3>3. Max2(k, NumWords(Saturated(far))) \in Nat
      BY <1>3, <3>1, WordsHoldBytes DEF Max2
    <3> QED BY <1>3, <3>2, <3>3, MemoryGasGrows
  <2> HIDE DEF more, copied, resize
  <2> QED BY <1>2, <1>4, <1>7, <2>1, <2>2, <2>3
<1>12. far <= USIZE_MAX /\ len # 0 => resize = more /\ copy = bytes
  <2> SUFFICES ASSUME far <= USIZE_MAX, len # 0 PROVE resize = more /\ copy = bytes
    OBVIOUS
  <2>1. Saturated(far) = far /\ new = Max2(k, w)
    BY DEF Saturated
  <2>2. resize = more
    BY <1>2, <1>5, <2>1, GrownMemory
  <2>3. copy = bytes
    <3> DEFINE v(n) == [i \in 1 .. n * WORD |->
                          IF dst < i /\ i <= dst + len THEN byte(src + i - dst) ELSE byte(i)]
    <3>1. CopyWithin(Grown(m, far), dst, src, len) = v(Max2(k, w))
      <4>1. CopyWithin(Grown(m, far), dst, src, len) = CopiedMemory(m, dst, src, len)
        <5> HIDE DEF m
        <5> QED BY <1>2, CopyMeetsEip5656
      <4> QED BY <4>1 DEF CopiedMemory
    <3>2. bytes = v(new) /\ copy = CopyWithin(Grown(m, Saturated(far)), dst, src, len)
      OBVIOUS
    <3> HIDE DEF v, m, far, new, k, w, bytes, copy
    <3> QED BY <2>1, <3>1, <3>2
  <2> QED BY <2>2, <2>3
<1> HIDE DEF m, k, far, w, copied, resize, copy, new, more, byte, bytes
<1>13. gas = copied + more /\ f = [f EXCEPT !.memory = m]
  BY DEF Frames, m
<1> HIDE DEF gas
<1>14. CASE len = 0
  <2>1. McopyResult(f, dst, src, len) = IF copied > f.remaining THEN NoFrame ELSE [f EXCEPT !.remaining = @ - copied]
    BY <1>1, <1>9, <1>14
  <2>2. [f EXCEPT !.remaining = @ - copied] = [f EXCEPT !.remaining = @ - copied, !.memory = m]
    BY DEF Frames, m
  <2> QED BY <1>8, <1>10, <1>14, <2>1, <2>2
<1>15. CASE len # 0 /\ USIZE_MAX < far
  <2>1. Eip5656(f, dst, src, len) = NoFrame
    BY <1>8, <1>11, <1>15
  <2>2. McopyResult(f, dst, src, len) = NoFrame
    BY <1>9, <1>11, <1>15
  <2> QED BY <2>1, <2>2
<1>16. CASE len # 0 /\ far <= USIZE_MAX
  <2>1. resize = more /\ copy = bytes
    BY <1>12, <1>16
  <2>2. ~ (len > USIZE_MAX) /\ ~ (dst > USIZE_MAX) /\ ~ (src > USIZE_MAX)
    BY <1>1, <1>5, <1>16
  <2>3. f.remaining - copied - more = f.remaining - gas
    BY <1>2, <1>4, <1>7, <1>13
  <2>4. copied > f.remaining => gas > f.remaining
    BY <1>2, <1>4, <1>7, <1>13
  <2>5. McopyResult(f, dst, src, len)
        = IF gas > f.remaining THEN NoFrame
          ELSE [f EXCEPT !.remaining = f.remaining - gas, !.memory = bytes]
    BY <1>9, <1>13, <1>16, <2>1, <2>2, <2>3, <2>4
  <2> QED BY <1>8, <2>5
<1> QED BY <1>1, <1>5, <1>14, <1>15, <1>16

-----------------------------------------------------------------------------
(* The invariant *)

Typed ==
    /\ spec \in Specs /\ transient \in [Slots -> Values]
    /\ undo \in Seq(Entries) /\ frames \in Seq(Frames)
    /\ out.value \in Nat /\ txs \in 0 .. MaxRuns

\* No open frame began beyond the journal, and none before the frame that called it.
CheckpointInv ==
    \A i \in DOMAIN frames :
        /\ frames[i].checkpoint <= Len(undo)
        /\ \A j \in DOMAIN frames : i <= j => frames[i].checkpoint <= frames[j].checkpoint

\* Only the running frame has gas, and the gas limit covers it and the memory of any open frame.
GasInv ==
    \A i \in DOMAIN frames :
        /\ Paid(frames[i], Top.remaining)
        /\ i < Len(frames) => frames[i].remaining = 0

\* Between transactions nothing is stored.
IdleInv == frames = << >> => transient = Empty /\ undo = << >>

IInv == Typed /\ CheckpointInv /\ GasInv /\ IdleInv

\* What the invariant says of the running frame.
LEMMA TopFrame ==
    ASSUME IInv, frames # << >>
    PROVE  /\ Len(frames) \in Nat /\ Len(frames) > 0 /\ Len(frames) \in DOMAIN frames
           /\ DOMAIN frames = 1 .. Len(frames)
           /\ Top \in Frames /\ Top.remaining \in Nat /\ Top.remaining <= GasLimit
           /\ Paid(Top, Top.remaining)
           /\ Len(undo) \in Nat /\ Top.checkpoint \in 0 .. Len(undo)
<1>1. frames \in Seq(Frames) /\ undo \in Seq(Entries)
  BY DEF IInv, Typed
<1>2. /\ Len(frames) \in Nat /\ Len(frames) > 0 /\ DOMAIN frames = 1 .. Len(frames)
      /\ Len(undo) \in Nat
  BY <1>1, EmptySeq, LenProperties
<1>3. Len(frames) \in DOMAIN frames /\ Top \in Frames
  BY <1>1, <1>2, ElementOfSeq DEF Top
<1>4. Top.checkpoint <= Len(undo) /\ Paid(Top, Top.remaining)
  BY <1>3 DEF IInv, CheckpointInv, GasInv, Top
<1>5. Top.checkpoint \in Nat /\ Top.remaining \in 0 .. GasLimit /\ GasLimit \in Nat
  BY <1>3, OpcodeAssumption DEF Frames
<1> QED BY <1>2, <1>3, <1>4, <1>5

\* What it says of every open frame.
LEMMA OpenFrames ==
    ASSUME IInv, NEW i \in DOMAIN frames
    PROVE  /\ frames[i] \in Frames /\ i \in 1 .. Len(frames) /\ Len(undo) \in Nat
           /\ frames[i].checkpoint \in Nat /\ frames[i].checkpoint <= Len(undo)
<1>1. frames \in Seq(Frames) /\ undo \in Seq(Entries)
  BY DEF IInv, Typed
<1>2. i \in 1 .. Len(frames) /\ Len(undo) \in Nat
  BY <1>1, LenProperties
<1>3. frames[i] \in Frames
  BY <1>1, <1>2, ElementOfSeq
<1> QED BY <1>2, <1>3 DEF Frames, IInv, CheckpointInv

\* The running frame, further on: less gas, memory that was paid for.
Advanced(f) ==
    /\ f \in Frames /\ f.target = Top.target /\ f.static = Top.static
    /\ f.checkpoint = Top.checkpoint
    /\ f.remaining <= Top.remaining /\ Paid(f, f.remaining)

\* Charging an opcode advances the frame.
LEMMA ChargedAdvances ==
    ASSUME IInv, NEW op \in Opcodes, Affordable(op)
    PROVE  Advanced(Charged(op))
<1> DEFINE g == Top.remaining - StaticGas[op]
           f == [Top EXCEPT !.remaining = g]
           w == MemoryGas(NumWords(Len(Top.memory)))
<1>1. frames # << >> /\ Top.remaining >= StaticGas[op] /\ StaticGas[op] \in Nat
  BY OpcodeAssumption DEF Affordable
<1>2. Top \in Frames /\ Top.remaining \in Nat /\ Top.remaining <= GasLimit /\ Paid(Top, Top.remaining)
  BY <1>1, TopFrame
<1>3. g \in Nat /\ g <= Top.remaining /\ g \in 0 .. GasLimit /\ GasLimit \in Nat
  BY <1>1, <1>2, OpcodeAssumption
<1> HIDE DEF g
<1>4. /\ f \in Frames /\ f.remaining = g /\ f.memory = Top.memory
      /\ f.target = Top.target /\ f.static = Top.static /\ f.checkpoint = Top.checkpoint
  BY <1>2, <1>3 DEF Frames
<1>5. w \in Nat /\ w + Top.remaining <= GasLimit
  <2>1. Len(Top.memory) \in Nat
    BY <1>2, LenProperties DEF Frames
  <2> QED BY <1>2, <2>1, WordsHoldBytes, MemoryGasGrows DEF Paid
<1> HIDE DEF f
<1>6. Paid(f, f.remaining)
  <2>1. w + g <= GasLimit
    <3> HIDE DEF w
    <3> QED BY <1>2, <1>3, <1>5
  <2> QED BY <1>2, <1>4, <2>1 DEF Paid
<1>7. Charged(op) = f
  BY DEF Charged, f, g
<1> QED BY <1>3, <1>4, <1>6, <1>7 DEF Advanced

\* What is left after the payment leaves room for the memory paid for.
LEMMA LeftAfterPaying ==
    ASSUME NEW have \in Nat, NEW top \in Nat, NEW limit \in Nat, NEW old \in Nat, NEW new \in Nat,
           NEW y \in Nat, NEW g \in Int, old <= new, old + have <= limit, have <= top,
           g = new - old + y, g <= have
    PROVE  g \in Nat /\ have - g \in 0 .. limit /\ have - g <= top /\ new + (have - g) <= limit
OBVIOUS

\* Gas g that pays for growing the memory to n words and for y besides.
LEMMA ResizedAdvances ==
    ASSUME NEW f, Advanced(f), NEW m \in Seq(Bytes), NEW n \in Nat, NEW y \in Nat, NEW g \in Int,
           NumWords(Len(f.memory)) <= n, Len(m) = n * WORD,
           g = MemoryGas(n) - MemoryGas(NumWords(Len(f.memory))) + y, g <= f.remaining,
           IInv, frames # << >>
    PROVE  Advanced([f EXCEPT !.remaining = @ - g, !.memory = m])
<1> DEFINE k == NumWords(Len(f.memory))
           r == [f EXCEPT !.remaining = @ - g, !.memory = m]
           left == f.remaining - g
<1>1. /\ f \in Frames /\ f.target = Top.target /\ f.static = Top.static
      /\ f.checkpoint = Top.checkpoint /\ f.remaining <= Top.remaining /\ Paid(f, f.remaining)
  BY DEF Advanced
<1>2. f.remaining \in 0 .. GasLimit /\ GasLimit \in Nat /\ f.memory \in Seq(Bytes)
      /\ Top.remaining \in Nat
  BY <1>1, OpcodeAssumption, TopFrame DEF Frames
<1>3. k \in Nat
  BY <1>2, LenProperties, WordsHoldBytes
<1>4. MemoryGas(k) \in Nat /\ MemoryGas(n) \in Nat /\ MemoryGas(k) <= MemoryGas(n)
      /\ MemoryGas(k) + f.remaining <= GasLimit
  <2>1. MemoryGas(k) + f.remaining <= GasLimit
    BY <1>1 DEF Paid
  <2> HIDE DEF k
  <2> QED BY <1>3, <2>1, MemoryGasGrows DEF k
<1>5. g \in Nat /\ left \in 0 .. GasLimit /\ left <= Top.remaining /\ MemoryGas(n) + left <= GasLimit
  <2>1. f.remaining \in Nat /\ f.remaining <= Top.remaining
    BY <1>1, <1>2
  <2> HIDE DEF k
  <2>2. g = MemoryGas(n) - MemoryGas(k) + y
    BY DEF k
  <2> QED BY <1>2, <1>4, <2>1, <2>2, LeftAfterPaying
<1>6. /\ r \in Frames /\ r.remaining = left /\ r.memory = m
      /\ r.target = f.target /\ r.static = f.static /\ r.checkpoint = f.checkpoint
  <2> HIDE DEF left
  <2>1. r = [f EXCEPT !.remaining = left, !.memory = m]
    BY DEF left
  <2> HIDE DEF r
  <2> QED BY <1>1, <1>5, <2>1 DEF Frames
<1>7. NumWords(Len(m)) = n
  BY WholeWords
<1> HIDE DEF r, left
<1>8. Paid(r, r.remaining)
  BY <1>5, <1>6, <1>7 DEF Paid
<1> QED BY <1>1, <1>5, <1>6, <1>8 DEF Advanced, r

\* A copy that is paid advances the frame.
LEMMA McopyAdvances ==
    ASSUME IInv, frames # << >>, NEW f, Advanced(f), NEW dst \in Nat, NEW src \in Nat, NEW len \in Nat,
           McopyResult(f, dst, src, len) # NoFrame
    PROVE  Advanced(McopyResult(f, dst, src, len))
<1> DEFINE m       == f.memory
           k       == NumWords(Len(m))
           copied  == COPY_GAS * NumWords(len)
           new     == IF len = 0 THEN k ELSE Max2(k, NumWords(Max2(dst, src) + len))
           gas     == copied + MemoryGas(new) - MemoryGas(k)
           byte(i) == IF i \in DOMAIN m THEN m[i] ELSE 0
           value(i) == IF dst < i /\ i <= dst + len THEN byte(src + i - dst) ELSE byte(i)
           bytes   == [i \in 1 .. new * WORD |-> value(i)]
<1>1. f \in Frames /\ Paid(f, f.remaining)
  BY DEF Advanced
<1>2. /\ m \in Seq(Bytes) /\ Len(m) \in Nat /\ DOMAIN m = 1 .. Len(m) /\ k \in Nat
      /\ Len(m) \div WORD = k
  <2>1. m \in Seq(Bytes)
    BY <1>1 DEF Frames
  <2>2. Len(m) \in Nat /\ DOMAIN m = 1 .. Len(m)
    BY <2>1, LenProperties
  <2>3. k \in Nat
    BY <2>2, WordsHoldBytes
  <2>4. Len(m) = k * WORD
    BY <1>1 DEF Paid
  <2> HIDE DEF k, m
  <2> QED BY <2>1, <2>2, <2>3, <2>4, WholeWords
<1>3. /\ COPY_GAS \in Nat /\ WORD \in Nat /\ 0 \in Bytes
  BY OpcodeAssumption
<1>4. copied \in Nat
  <2>1. NumWords(len) \in Nat
    BY WordsHoldBytes
  <2> QED BY <1>3, <2>1
<1>5. new \in Nat /\ k <= new
  <2>1. Max2(dst, src) + len \in Nat
    BY DEF Max2
  <2>2. NumWords(Max2(dst, src) + len) \in Nat
    BY <2>1, WordsHoldBytes
  <2> HIDE DEF k
  <2> QED BY <1>2, <2>2 DEF Max2
<1>6. MemoryGas(new) \in Nat /\ MemoryGas(k) \in Nat
  <2> HIDE DEF new, k
  <2> QED BY <1>2, <1>5, MemoryGasGrows
<1>7. bytes \in Seq(Bytes) /\ Len(bytes) = new * WORD
  <2>1. \A i \in Int : byte(i) \in Bytes
    BY <1>2, <1>3
  <2> HIDE DEF byte
  <2>2. \A i \in Int : value(i) \in Bytes
    BY <2>1
  <2>3. new * WORD \in Nat
    BY <1>3, <1>5
  <2> HIDE DEF value, new
  <2>4. bytes \in [1 .. new * WORD -> Bytes]
    BY <2>2, <2>3
  <2> DEFINE l == new * WORD
  <2> HIDE DEF l, bytes
  <2> QED BY <2>3, <2>4, LenProperties DEF l
<1>8. McopyResult(f, dst, src, len)
      = IF gas > f.remaining THEN NoFrame ELSE [f EXCEPT !.remaining = @ - gas, !.memory = bytes]
  <2>1. McopyResult(f, dst, src, len) = Eip5656(f, dst, src, len)
    BY <1>1, McopyMeetsEip5656
  <2> HIDE DEF copied
  <2>2. Eip5656(f, dst, src, len)
        = LET old == Len(m) \div WORD
              n   == IF len = 0 THEN old ELSE Max2(old, NumWords(Max2(dst, src) + len))
              g   == copied + MemoryGas(n) - MemoryGas(old)
          IN  IF g > f.remaining THEN NoFrame
              ELSE [f EXCEPT !.remaining = @ - g, !.memory = [i \in 1 .. n * WORD |-> value(i)]]
    BY DEF Eip5656, copied
  <2> HIDE DEF value
  <2> QED BY <1>2, <2>1, <2>2
<1> HIDE DEF bytes, new, copied
<1>9. gas \in Int /\ gas = MemoryGas(new) - MemoryGas(k) + copied
  <2> HIDE DEF k
  <2> QED BY <1>4, <1>6
<1>10. f.remaining \in Nat
  BY <1>1, OpcodeAssumption DEF Frames
<1> HIDE DEF gas
<1>11. gas <= f.remaining /\ McopyResult(f, dst, src, len) = [f EXCEPT !.remaining = @ - gas, !.memory = bytes]
  BY <1>8, <1>9, <1>10
<1>12. Advanced([f EXCEPT !.remaining = @ - gas, !.memory = bytes])
  BY <1>4, <1>5, <1>7, <1>9, <1>11, ResizedAdvances
<1> QED BY <1>11, <1>12

\* So does a byte that is stored and paid.
LEMMA Mstore8Advances ==
    ASSUME IInv, frames # << >>, NEW f, Advanced(f), NEW end \in Nat, NEW i \in Nat, NEW byte \in Bytes,
           ResizeGas(f.memory, end) <= f.remaining
    PROVE  Advanced([f EXCEPT !.remaining = @ - ResizeGas(f.memory, end),
                              !.memory = [Grown(@, end) EXCEPT ![i] = byte]])
<1> DEFINE m   == f.memory
           k   == NumWords(Len(m))
           new == Max2(k, NumWords(end))
           gas == ResizeGas(m, end)
           g   == Grown(m, end)
           s   == [g EXCEPT ![i] = byte]
<1>1. f \in Frames /\ Paid(f, f.remaining)
  BY DEF Advanced
<1>2. m \in Seq(Bytes) /\ Len(m) \in Nat /\ Len(m) = k * WORD /\ k \in Nat
  <2>1. m \in Seq(Bytes)
    BY <1>1 DEF Frames
  <2>2. Len(m) \in Nat
    BY <2>1, LenProperties
  <2> QED BY <1>1, <2>1, <2>2, WordsHoldBytes DEF Paid
<1>3. g \in Seq(Bytes) /\ Len(g) = new * WORD /\ gas = MemoryGas(new) - MemoryGas(k)
  BY <1>2, GrownMemory
<1>4. new \in Nat /\ k <= new
  <2>1. NumWords(end) \in Nat
    BY WordsHoldBytes
  <2> HIDE DEF k
  <2> QED BY <1>2, <2>1 DEF Max2
<1> HIDE DEF g
<1>5. s \in Seq(Bytes) /\ Len(s) = Len(g)
  <2>1. g \in [1 .. Len(g) -> Bytes] /\ Len(g) \in Nat
    BY <1>3, LenProperties
  <2>2. s \in [1 .. Len(g) -> Bytes]
    BY <2>1
  <2> HIDE DEF s
  <2> QED BY <2>1, <2>2, LenProperties
<1>6. MemoryGas(new) \in Nat /\ MemoryGas(k) \in Nat
  <2> HIDE DEF new, k
  <2> QED BY <1>2, <1>4, MemoryGasGrows
<1>7. gas \in Int /\ gas = MemoryGas(new) - MemoryGas(k) + 0 /\ gas <= f.remaining
  <2> HIDE DEF new, k
  <2> QED BY <1>3, <1>6
<1>8. Len(s) = new * WORD
  BY <1>3, <1>5
<1> HIDE DEF new, gas, s
<1>9. Advanced([f EXCEPT !.remaining = @ - gas, !.memory = s])
  <2>1. 0 \in Nat
    OBVIOUS
  <2> QED BY <1>4, <1>5, <1>7, <1>8, <2>1, ResizedAdvances
<1> QED BY <1>9 DEF gas, s, g

-----------------------------------------------------------------------------
(* Steps *)

\* An opcode that runs on: the frame advances, nothing else changes.
Continues(f) ==
    /\ frames # << >> /\ Advanced(f) /\ frames' = Replace(f) /\ out'.value \in Nat
    /\ UNCHANGED <<spec, txs>>

\* What becomes of the frames.
LEMMA ReplacedFrames ==
    ASSUME IInv, NEW f, Continues(f)
    PROVE  /\ frames' \in Seq(Frames) /\ Len(frames') = Len(frames) /\ frames' # << >>
           /\ DOMAIN frames' = DOMAIN frames /\ Len(frames) \in DOMAIN frames
           /\ \A i \in DOMAIN frames : frames'[i] = IF i = Len(frames) THEN f ELSE frames[i]
           /\ Top' = f
<1> DEFINE n == Len(frames)
<1>1. /\ frames \in Seq(Frames) /\ frames # << >> /\ f \in Frames /\ frames' = [frames EXCEPT ![n] = f]
      /\ n \in Nat /\ n > 0 /\ n \in DOMAIN frames /\ DOMAIN frames = 1 .. n
  BY TopFrame DEF Continues, Replace, Advanced, IInv, Typed
<1>2. /\ frames' \in Seq(Frames) /\ Len(frames') = n
      /\ \A i \in 1 .. n : frames'[i] = IF i = n THEN f ELSE frames[i]
  BY <1>1, ExceptSeq
<1>3. DOMAIN frames' = 1 .. n /\ frames' # << >>
  BY <1>1, <1>2, LenProperties, EmptySeq
<1>4. Top' = frames'[n]
  BY <1>2 DEF Top
<1> QED BY <1>1, <1>2, <1>3, <1>4

\* A step after which only the running frame is another keeps GasInv.
LEMMA ContinuesGas ==
    ASSUME IInv, NEW f, Continues(f)
    PROVE  GasInv'
<1>1. Advanced(f) /\ frames # << >>
  BY DEF Continues
<1>2. /\ f \in Frames /\ Paid(f, f.remaining) /\ f.remaining <= Top.remaining
      /\ f.remaining \in Nat /\ Top.remaining \in Nat
  BY <1>1, TopFrame, OpcodeAssumption DEF Advanced, Frames
<1>3. /\ Len(frames') = Len(frames) /\ DOMAIN frames' = DOMAIN frames /\ Top' = f
      /\ \A i \in DOMAIN frames : frames'[i] = IF i = Len(frames) THEN f ELSE frames[i]
      /\ DOMAIN frames = 1 .. Len(frames)
  BY <1>1, ReplacedFrames, TopFrame
<1>4. ASSUME NEW i \in DOMAIN frames, i # Len(frames)
      PROVE  Paid(frames[i], f.remaining) /\ frames[i].remaining = 0
  <2>1. Paid(frames[i], Top.remaining) /\ i < Len(frames) /\ frames[i].remaining = 0
    BY <1>1, <1>3, <1>4, TopFrame DEF IInv, GasInv
  <2>2. frames[i] \in Frames
    BY ElementOfSeq, <1>3, <1>4 DEF IInv, Typed
  <2> DEFINE w == MemoryGas(NumWords(Len(frames[i].memory)))
  <2>3. w \in Nat
    <3>1. Len(frames[i].memory) \in Nat
      BY <2>2, LenProperties DEF Frames
    <3> QED BY <3>1, WordsHoldBytes, MemoryGasGrows
  <2>4. w + Top.remaining <= GasLimit
    BY <2>1 DEF Paid
  <2>5. w + f.remaining <= GasLimit
    <3> HIDE DEF w
    <3> QED BY <1>2, <2>3, <2>4, OpcodeAssumption
  <2> QED BY <2>1, <2>5 DEF Paid
<1>5. ASSUME NEW i \in DOMAIN frames'
      PROVE  Paid(frames'[i], Top'.remaining) /\ (i < Len(frames') => frames'[i].remaining = 0)
  <2>1. CASE i = Len(frames)
    BY <1>2, <1>3, <2>1, TopFrame, <1>1
  <2>2. CASE i # Len(frames)
    BY <1>3, <1>4, <1>5, <2>2
  <2> QED BY <2>1, <2>2
<1> QED BY <1>5 DEF GasInv, Paid

\* Running on keeps the invariant.
LEMMA ContinuesInv ==
    ASSUME IInv, NEW f, Continues(f), UNCHANGED <<transient, undo>>
    PROVE  IInv'
<1>1. /\ frames' \in Seq(Frames) /\ Len(frames') = Len(frames) /\ frames' # << >>
      /\ DOMAIN frames' = DOMAIN frames /\ Len(frames) \in DOMAIN frames
      /\ \A i \in DOMAIN frames : frames'[i] = IF i = Len(frames) THEN f ELSE frames[i]
  BY ReplacedFrames
<1>2. Typed'
  BY <1>1 DEF IInv, Typed, Continues
<1>3. CheckpointInv'
  <2>1. \A i \in DOMAIN frames : frames'[i].checkpoint = frames[i].checkpoint
    BY <1>1 DEF Continues, Advanced, Top
  <2> QED BY <1>1, <2>1 DEF IInv, CheckpointInv
<1>4. GasInv'
  BY ContinuesGas
<1>5. IdleInv'
  BY <1>1 DEF IdleInv
<1> QED BY <1>2, <1>3, <1>4, <1>5 DEF IInv

\* The frames when the running one has ended and its caller got the gas g back.
Remaining(g) == [Front(frames) EXCEPT ![Len(frames) - 1].remaining = @ + g]

\* What is left of the frames when the running one ends, below the outermost.
LEMMA LeftFrames ==
    ASSUME IInv, NEW g \in 0 .. Top.remaining, frames # << >>, Len(frames) # 1,
           frames' = Remaining(g)
    PROVE  /\ frames' \in Seq(Frames) /\ Len(frames') = Len(frames) - 1 /\ frames' # << >>
           /\ DOMAIN frames' = 1 .. Len(frames) - 1 /\ Len(frames) - 1 \in DOMAIN frames'
           /\ \A i \in DOMAIN frames' :
                  frames'[i] = IF i = Len(frames) - 1 THEN [frames[i] EXCEPT !.remaining = g]
                               ELSE frames[i]
           /\ Top' = [frames[Len(frames) - 1] EXCEPT !.remaining = g]
<1> DEFINE n == Len(frames)
           b == frames[n - 1]
           r == [b EXCEPT !.remaining = g]
           u == SubSeq(frames, 1, n - 1)
<1>1. /\ frames \in Seq(Frames) /\ n \in Nat /\ n > 1 /\ n - 1 \in 1 .. n /\ DOMAIN frames = 1 .. n
      /\ Top.remaining \in Nat /\ Top.remaining <= GasLimit
  <2>1. /\ frames \in Seq(Frames) /\ n \in Nat /\ n > 0 /\ DOMAIN frames = 1 .. n
        /\ Top.remaining \in Nat /\ Top.remaining <= GasLimit
    BY TopFrame DEF IInv, Typed
  <2> QED BY <2>1
<1>2. b \in Frames /\ b.remaining = 0
  BY <1>1, ElementOfSeq DEF IInv, GasInv
<1>3. r \in Frames
  <2>1. g \in 0 .. GasLimit
    BY <1>1, OpcodeAssumption
  <2> HIDE DEF b
  <2> QED BY <1>2, <2>1 DEF Frames
<1>4. /\ u \in Seq(Frames) /\ Len(u) = n - 1 /\ \A i \in 1 .. n - 1 : u[i] = frames[i]
  BY <1>1, SubSeqProperties
<1>5. Front(frames) = u
  BY DEF Front
<1>6. u[n - 1] = b /\ [u[n - 1] EXCEPT !.remaining = @ + g] = r
  <2>1. u[n - 1] = b
    BY <1>1, <1>4
  <2>2. [b EXCEPT !.remaining = @ + g] = [b EXCEPT !.remaining = 0 + g]
    BY <1>2
  <2>3. 0 + g = g
    BY <1>1
  <2> QED BY <2>1, <2>2, <2>3
<1>7. frames' = [u EXCEPT ![n - 1] = r]
  <2> HIDE DEF u, r
  <2> QED BY <1>5, <1>6 DEF Remaining
<1> HIDE DEF u, r, b
<1> DEFINE l == n - 1
<1>8. l \in Nat /\ l > 0 /\ l \in 1 .. l
  BY <1>1
<1>9. /\ frames' \in Seq(Frames) /\ Len(frames') = l
      /\ \A i \in 1 .. l : frames'[i] = IF i = l THEN r ELSE u[i]
  <2>1. u \in Seq(Frames) /\ l \in 1 .. Len(u) /\ Len(u) = l /\ frames' = [u EXCEPT ![l] = r]
    BY <1>4, <1>7, <1>8
  <2> HIDE DEF l
  <2> QED BY <1>3, <2>1, ExceptSeq
<1>10. DOMAIN frames' = 1 .. l /\ frames' # << >> /\ Top' = frames'[l]
  <2> HIDE DEF l
  <2> QED BY <1>8, <1>9, LenProperties, EmptySeq DEF Top
<1>11. l \in DOMAIN frames' /\ Top' = r
  <2> HIDE DEF l
  <2> QED BY <1>8, <1>9, <1>10
<1>12. \A i \in 1 .. n - 1 : frames'[i] = IF i = n - 1 THEN [frames[i] EXCEPT !.remaining = g]
                                        ELSE frames[i]
  BY <1>4, <1>9 DEF r, b
<1>13. Top' = [frames[n - 1] EXCEPT !.remaining = g]
  BY <1>11 DEF r, b
<1> QED BY <1>9, <1>10, <1>11, <1>12, <1>13

\* A frame that ends keeps the invariant, whatever becomes of the storage.
LEMMA LeaveInv ==
    ASSUME IInv, frames # << >>, NEW g \in 0 .. Top.remaining,
           NEW storage \in [Slots -> Values], NEW entries \in Seq(Entries),
           \A i \in DOMAIN frames : i # Len(frames) => frames[i].checkpoint <= Len(entries),
           Leave(storage, entries, g)
    PROVE  IInv'
<1>1. /\ out'.value \in Nat /\ UNCHANGED <<spec, txs>>
  BY DEF Leave, NoOut
<1>2. CASE Len(frames) = 1
  <2>1. frames' = << >> /\ transient' = Empty /\ undo' = << >>
    BY <1>2 DEF Leave
  <2>2. DOMAIN frames' = {} /\ frames' \in Seq(Frames) /\ undo' \in Seq(Entries)
    BY <2>1, EmptySeq
  <2>3. Empty \in [Slots -> Values]
    BY OpcodeAssumption DEF Empty
  <2>4. Typed'
    BY <1>1, <2>1, <2>2, <2>3 DEF IInv, Typed
  <2>5. CheckpointInv' /\ GasInv' /\ IdleInv'
    BY <2>1, <2>2 DEF CheckpointInv, GasInv, IdleInv
  <2> QED BY <2>4, <2>5 DEF IInv
<1>3. CASE Len(frames) # 1
  <2> DEFINE n == Len(frames)
             l == n - 1
             w(i) == MemoryGas(NumWords(Len(frames[i].memory)))
  <2>1. frames' = Remaining(g) /\ transient' = storage /\ undo' = entries
    BY <1>3 DEF Leave, Remaining
  <2>2. /\ frames' \in Seq(Frames) /\ Len(frames') = l /\ frames' # << >>
        /\ DOMAIN frames' = 1 .. l /\ l \in DOMAIN frames'
        /\ \A i \in DOMAIN frames' :
               frames'[i] = IF i = l THEN [frames[i] EXCEPT !.remaining = g] ELSE frames[i]
        /\ Top' = [frames[l] EXCEPT !.remaining = g]
    BY <1>3, <2>1, LeftFrames
  <2>3. /\ frames \in Seq(Frames) /\ n \in Nat /\ n > 0 /\ DOMAIN frames = 1 .. n
        /\ Top.remaining \in Nat /\ GasLimit \in Nat /\ g \in Nat /\ g <= Top.remaining
    <3>1. Top.remaining \in Nat
      BY TopFrame
    <3> QED BY <3>1, TopFrame, OpcodeAssumption DEF IInv, Typed
  <2>4. \A i \in DOMAIN frames' : i \in DOMAIN frames /\ i < n /\ i # n
    BY <2>2, <2>3
  <2>5. \A i \in DOMAIN frames' : frames[i] \in Frames
    BY <2>3, <2>4, ElementOfSeq
  <2>6. \A i \in DOMAIN frames' : frames'[i].checkpoint = frames[i].checkpoint
                                  /\ frames'[i].memory = frames[i].memory
    BY <2>2, <2>5 DEF Frames
  <2>7. Top'.remaining = g
    BY <2>2, <2>5 DEF Frames
  <2>8. Typed'
    BY <1>1, <2>1, <2>2 DEF IInv, Typed
  <2>9. CheckpointInv'
    <3>1. \A i \in DOMAIN frames' : frames'[i].checkpoint <= Len(undo')
      BY <2>1, <2>4, <2>6
    <3>2. \A i, j \in DOMAIN frames' : i <= j => frames'[i].checkpoint <= frames'[j].checkpoint
      BY <2>4, <2>6 DEF IInv, CheckpointInv
    <3> QED BY <3>1, <3>2 DEF CheckpointInv
  <2>10. ASSUME NEW i \in DOMAIN frames'
         PROVE  Paid(frames'[i], g) /\ (i < l => frames'[i].remaining = 0)
    <3>1. Paid(frames[i], Top.remaining) /\ frames[i].remaining = 0
      BY <2>4 DEF IInv, GasInv
    <3>2. w(i) \in Nat
      <4>1. Len(frames[i].memory) \in Nat
        BY <2>5, LenProperties DEF Frames
      <4> QED BY <4>1, WordsHoldBytes, MemoryGasGrows
    <3>3. w(i) + Top.remaining <= GasLimit
      BY <3>1 DEF Paid
    <3>4. w(i) + g <= GasLimit
      <4> HIDE DEF w
      <4> QED BY <2>3, <3>2, <3>3
    <3>5. Paid(frames'[i], g)
      BY <2>6, <3>1, <3>4 DEF Paid
    <3>6. i < l => frames'[i] = frames[i]
      BY <2>2, <2>3
    <3> QED BY <3>1, <3>5, <3>6
  <2>11. GasInv'
    BY <2>2, <2>7, <2>10 DEF GasInv, Paid
  <2>12. IdleInv'
    BY <2>2 DEF IdleInv
  <2> QED BY <2>8, <2>9, <2>11, <2>12 DEF IInv
<1> QED BY <1>2, <1>3

\* Of any positions there is a first one, and Min is it.
LEMMA FirstPosition ==
    ASSUME NEW T, T \subseteq Nat, T # {}
    PROVE  Min(T) \in T /\ \A j \in T : Min(T) <= j
<1> DEFINE R == OpToRel(<, Nat)
<1>1. R = {p \in Nat \X Nat : p[1] < p[2]}
  BY Zenon DEF OpToRel
<1>2. IsWellFoundedOn(R, Nat)
  BY NatLessThanWellFounded
<1> HIDE DEF R
<1>3. PICK i \in T : \A j \in T : ~ (<<j, i>> \in R)
  BY <1>2, WFMin, Zenon
<1>4. ASSUME NEW j \in T PROVE i <= j
  <2>1. <<j, i>> \in Nat \X Nat /\ <<j, i>> \notin R
    BY <1>3
  <2>2. ~ (j < i)
    BY <1>1, <2>1
  <2> QED BY <2>1, <2>2
<1>5. \E k \in T : \A j \in T : k <= j
  BY <1>4
<1> QED BY <1>5, Zenon DEF Min

\* The journal's entries of a slot since a checkpoint.
Since(entries, n, slot) == {k \in n + 1 .. Len(entries) : entries[k].slot = slot}

\* What undoing the journal leaves in a slot.
LEMMA UndoneSlot ==
    ASSUME NEW entries \in Seq(Entries), NEW n \in Nat, NEW slot, Since(entries, n, slot) # {}
    PROVE  /\ Min(Since(entries, n, slot)) \in Since(entries, n, slot)
           /\ \A k \in Since(entries, n, slot) : Min(Since(entries, n, slot)) <= k
           /\ entries[Min(Since(entries, n, slot))].had \in Values
<1> DEFINE T == Since(entries, n, slot)
<1>1. Len(entries) \in Nat
  BY LenProperties
<1>2. T \subseteq Nat /\ T \subseteq 1 .. Len(entries)
  BY <1>1 DEF Since
<1> HIDE DEF T
<1>3. Min(T) \in T /\ \A k \in T : Min(T) <= k
  BY <1>2, FirstPosition DEF T
<1>4. entries[Min(T)] \in Entries
  BY <1>2, <1>3, ElementOfSeq
<1>5. entries[Min(T)].had \in Values
  BY <1>4 DEF Entries
<1> QED BY <1>3, <1>5 DEF T

\* checkpoint_revert leaves storage.
LEMMA UndoTyped ==
    ASSUME IInv, NEW n \in Nat
    PROVE  UndoTo(n) \in [Slots -> Values]
<1> DEFINE v(slot) == IF Since(undo, n, slot) = {} THEN transient[slot]
                      ELSE undo[Min(Since(undo, n, slot))].had
<1>1. UndoTo(n) = [slot \in Slots |-> v(slot)]
  BY DEF UndoTo, Since
<1>2. ASSUME NEW slot \in Slots PROVE v(slot) \in Values
  <2>1. transient[slot] \in Values /\ undo \in Seq(Entries)
    BY DEF IInv, Typed
  <2> QED BY <2>1, UndoneSlot
<1> HIDE DEF v
<1> QED BY <1>1, <1>2

\* A frame that fails keeps the invariant: it leaves the journal as it was when the frame began.
LEMMA FailsInv ==
    ASSUME IInv, frames # << >>, NEW g \in 0 .. Top.remaining,
           Leave(UndoTo(Top.checkpoint), SubSeq(undo, 1, Top.checkpoint), g)
    PROVE  IInv'
<1> DEFINE c == Top.checkpoint
<1>1. /\ c \in Nat /\ c \in 0 .. Len(undo) /\ undo \in Seq(Entries) /\ Len(undo) \in Nat
      /\ DOMAIN frames = 1 .. Len(frames) /\ Len(frames) \in DOMAIN frames /\ Len(frames) \in Nat
  BY TopFrame DEF IInv, Typed
<1>2. SubSeq(undo, 1, c) \in Seq(Entries) /\ Len(SubSeq(undo, 1, c)) = c
  <2> HIDE DEF c
  <2>1. CASE c = 0
    BY <1>1, <2>1, SubSeqProperties
  <2>2. CASE c > 0
    BY <1>1, <2>2, SubSeqProperties
  <2> QED BY <1>1, <2>1, <2>2
<1>3. UndoTo(c) \in [Slots -> Values]
  BY <1>1, UndoTyped
<1>4. \A i \in DOMAIN frames : frames[i].checkpoint <= c
  BY <1>1 DEF IInv, CheckpointInv, Top
<1> QED BY <1>2, <1>3, <1>4, LeaveInv

\* Less gas is paid for as well.
LEMMA LessIsPaid ==
    ASSUME NEW f \in Frames, NEW g \in Int, NEW h \in Int, h <= g, Paid(f, g)
    PROVE  Paid(f, h)
<1> DEFINE w == MemoryGas(NumWords(Len(f.memory)))
<1>1. w \in Nat
  <2>1. Len(f.memory) \in Nat
    BY LenProperties DEF Frames
  <2> QED BY <2>1, WordsHoldBytes, MemoryGasGrows
<1>2. w + g <= GasLimit /\ GasLimit \in Nat
  BY OpcodeAssumption DEF Paid
<1>3. w + h <= GasLimit
  <2> HIDE DEF w
  <2> QED BY <1>1, <1>2
<1> QED BY <1>3 DEF Paid

\* A frame that opens: its memory is empty, its checkpoint the end of the journal.
LEMMA OpenFrame ==
    ASSUME IInv, NEW a \in Addresses, NEW static \in BOOLEAN, NEW g \in 0 .. GasLimit
    PROVE  /\ Open(a, static, g) \in Frames /\ Paid(Open(a, static, g), g)
           /\ Open(a, static, g).remaining = g /\ Open(a, static, g).checkpoint = Len(undo)
           /\ Open(a, static, g).target = a /\ Open(a, static, g).static = static
<1> DEFINE f == Open(a, static, g)
<1>1. << >> \in Seq(Bytes) /\ Len(<< >>) = 0 /\ Len(undo) \in Nat /\ GasLimit \in Nat /\ g \in Nat
  BY EmptySeq, LenProperties, OpcodeAssumption DEF IInv, Typed
<1>2. f = [target |-> a, static |-> static, remaining |-> g, memory |-> << >>, checkpoint |-> Len(undo)]
  BY DEF Open
<1>3. f \in Frames /\ f.memory = << >> /\ f.remaining = g /\ f.checkpoint = Len(undo)
      /\ f.target = a /\ f.static = static
  BY <1>1, <1>2 DEF Frames
<1>4. NumWords(0) = 0 /\ 0 * WORD = 0
  <2>1. 0 * WORD = 0
    BY OpcodeAssumption
  <2> QED BY <2>1, WholeWords
<1>5. MemoryGas(0) = 0
  BY OpcodeAssumption DEF MemoryGas
<1> HIDE DEF f
<1>6. Paid(f, g)
  BY <1>1, <1>3, <1>4, <1>5 DEF Paid
<1> QED BY <1>3, <1>6 DEF f

\* A transaction begins.
LEMMA BeginInv ==
    ASSUME IInv, NEW a \in Addresses, Begin(a)
    PROVE  IInv'
<1> DEFINE f == Open(a, FALSE, GasLimit)
<1>1. /\ frames = << >> /\ txs < MaxRuns /\ txs' = txs + 1 /\ frames' = <<f>> /\ out'.value \in Nat
      /\ UNCHANGED <<spec, transient, undo>>
  BY DEF Begin, NoOut
<1>2. /\ f \in Frames /\ Paid(f, GasLimit) /\ f.remaining = GasLimit /\ f.checkpoint = Len(undo)
  <2>1. GasLimit \in 0 .. GasLimit
    BY OpcodeAssumption
  <2> QED BY <2>1, OpenFrame
<1> HIDE DEF f
<1>3. /\ frames' \in Seq(Frames) /\ Len(frames') = 1 /\ DOMAIN frames' = 1 .. 1 /\ frames'[1] = f
      /\ frames' # << >>
  BY <1>1, <1>2
<1>4. txs' \in 0 .. MaxRuns
  BY <1>1, OpcodeAssumption DEF IInv, Typed
<1>5. Typed'
  BY <1>1, <1>3, <1>4 DEF IInv, Typed
<1>6. Top' = f /\ Len(undo) \in Nat
  BY <1>3, LenProperties DEF Top, IInv, Typed
<1>7. CheckpointInv'
  BY <1>1, <1>2, <1>3, <1>6 DEF CheckpointInv
<1>8. GasInv'
  BY <1>2, <1>3, <1>6 DEF GasInv, Paid
<1> QED BY <1>3, <1>5, <1>7, <1>8 DEF IInv, IdleInv

\* The frames after a call.
LEMMA CalledFrames ==
    ASSUME IInv, frames # << >>, NEW r \in Frames, NEW f \in Frames, frames' = Append(Replace(r), f)
    PROVE  /\ frames' \in Seq(Frames) /\ Len(frames') = Len(frames) + 1 /\ frames' # << >>
           /\ DOMAIN frames' = 1 .. Len(frames) + 1 /\ Top' = f /\ frames'[Len(frames) + 1] = f
           /\ \A i \in DOMAIN frames : frames'[i] = IF i = Len(frames) THEN r ELSE frames[i]
<1> DEFINE n == Len(frames)
           q == Replace(r)
<1>1. /\ frames \in Seq(Frames) /\ n \in Nat /\ n > 0 /\ n \in 1 .. n /\ DOMAIN frames = 1 .. n
      /\ q = [frames EXCEPT ![n] = r]
  BY TopFrame DEF IInv, Typed, Replace
<1>2. /\ q \in Seq(Frames) /\ Len(q) = n
      /\ \A i \in 1 .. n : q[i] = IF i = n THEN r ELSE frames[i]
  <2> HIDE DEF q
  <2> QED BY <1>1, ExceptSeq
<1> HIDE DEF q
<1>3. frames' = Append(q, f)
  BY DEF q
<1>4. /\ frames' \in Seq(Frames) /\ Len(frames') = n + 1 /\ frames'[n + 1] = f
      /\ \A i \in 1 .. n : frames'[i] = q[i]
  BY <1>2, <1>3, AppendProperties
<1>5. DOMAIN frames' = 1 .. n + 1 /\ frames' # << >> /\ Top' = f
  <2> DEFINE l == n + 1
  <2>0. l > 0
    BY TopFrame
  <2>1. frames' \in Seq(Frames) /\ Len(frames') = l /\ frames'[l] = f /\ l > 0
    BY <1>4, <2>0
  <2> HIDE DEF l, n
  <2>2. DOMAIN frames' = 1 .. l /\ frames' # << >>
    BY <2>1, LenProperties, EmptySeq
  <2>3. Top' = frames'[l]
    BY <2>1 DEF Top
  <2> QED BY <2>1, <2>2, <2>3 DEF l
<1> QED BY <1>1, <1>2, <1>4, <1>5

\* A call leaves all gas to the frame it opens.
LEMMA CallCodeInv ==
    ASSUME IInv, NEW a \in Addresses, NEW scheme, CallCode(a, scheme)
    PROVE  IInv'
<1> DEFINE n      == Len(frames)
           g      == Top.remaining - CALL_GAS
           target == IF scheme = "delegatecall" THEN Top.target ELSE a
           static == Top.static \/ scheme = "staticcall"
           r      == [Top EXCEPT !.remaining = 0]
           f      == Open(target, static, g)
<1>1. /\ frames # << >> /\ Top.remaining >= CALL_GAS /\ frames' = Append(Replace(r), f)
      /\ out'.value \in Nat /\ UNCHANGED <<spec, transient, undo, txs>>
  BY DEF CallCode, NoOut
<1>2. /\ Top \in Frames /\ Top.remaining \in Nat /\ Top.remaining <= GasLimit /\ GasLimit \in Nat
      /\ CALL_GAS \in Nat /\ n \in Nat /\ n > 0 /\ DOMAIN frames = 1 .. n /\ Len(undo) \in Nat
  BY <1>1, TopFrame, OpcodeAssumption
<1>3. g \in 0 .. GasLimit /\ g <= Top.remaining
  BY <1>1, <1>2
<1>4. target \in Addresses /\ static \in BOOLEAN
  BY <1>2 DEF Frames
<1> HIDE DEF target, static, g
<1>5. f \in Frames /\ Paid(f, g) /\ f.remaining = g /\ f.checkpoint = Len(undo)
  BY <1>3, <1>4, OpenFrame
<1> HIDE DEF f
<1>6. r \in Frames /\ r.remaining = 0 /\ r.memory = Top.memory /\ r.checkpoint = Top.checkpoint
  BY <1>2 DEF Frames
<1> HIDE DEF r
<1>7. /\ frames' \in Seq(Frames) /\ Len(frames') = n + 1 /\ frames' # << >>
      /\ DOMAIN frames' = 1 .. n + 1 /\ Top' = f /\ frames'[n + 1] = f
      /\ \A i \in DOMAIN frames : frames'[i] = IF i = n THEN r ELSE frames[i]
  BY <1>1, <1>5, <1>6, CalledFrames
<1>8. Typed'
  BY <1>1, <1>7 DEF IInv, Typed
<1>9. \A i \in DOMAIN frames : frames'[i].checkpoint = frames[i].checkpoint
                               /\ frames'[i].memory = frames[i].memory /\ frames'[i].remaining = 0
  BY <1>2, <1>6, <1>7 DEF Top, IInv, GasInv
<1>10. CheckpointInv'
  <2>1. \A i \in DOMAIN frames' : frames'[i].checkpoint <= Len(undo')
    BY <1>1, <1>2, <1>5, <1>7, <1>9 DEF IInv, CheckpointInv
  <2>2. \A i, j \in DOMAIN frames' : i <= j => frames'[i].checkpoint <= frames'[j].checkpoint
    BY <1>1, <1>2, <1>5, <1>7, <1>9, <2>1 DEF IInv, CheckpointInv
  <2> QED BY <2>1, <2>2 DEF CheckpointInv
<1>11. GasInv'
  <2>1. ASSUME NEW i \in DOMAIN frames' PROVE Paid(frames'[i], g) /\ (i < n + 1 => frames'[i].remaining = 0)
    <3>1. CASE i = n + 1
      BY <1>2, <1>5, <1>7, <3>1
    <3>2. CASE i # n + 1
      <4>1. i \in DOMAIN frames
        BY <1>2, <1>7, <3>2
      <4>2. frames[i] \in Frames /\ Paid(frames[i], Top.remaining)
        BY <1>2, <4>1, ElementOfSeq DEF IInv, Typed, GasInv
      <4>3. Paid(frames[i], g)
        BY <1>2, <1>3, <4>2, LessIsPaid
      <4> QED BY <1>9, <4>1, <4>3 DEF Paid
    <3> QED BY <3>1, <3>2
  <2> QED BY <1>5, <1>7, <2>1 DEF GasInv, Paid
<1> QED BY <1>7, <1>8, <1>10, <1>11 DEF IInv, IdleInv

\* A halting frame keeps the invariant.
LEMMA HaltInv ==
    ASSUME IInv, Halt
    PROVE  IInv'
<1>1. frames # << >>
  BY DEF Halt, Leave
<1>2. 0 \in 0 .. Top.remaining
  BY <1>1, TopFrame
<1> QED BY <1>1, <1>2, FailsInv DEF Halt

\* So do frames that return or revert, with what gas they have left.
LEMMA EndInv ==
    ASSUME IInv, Return \/ Revert
    PROVE  IInv'
<1>1. frames # << >>
  BY DEF Return, Revert, Leave
<1>2. Top.remaining \in 0 .. Top.remaining
  BY <1>1, TopFrame
<1>3. CASE Return
  <2>1. /\ transient \in [Slots -> Values] /\ undo \in Seq(Entries)
        /\ \A i \in DOMAIN frames : frames[i].checkpoint <= Len(undo)
    BY DEF IInv, Typed, CheckpointInv
  <2> QED BY <1>1, <1>2, <1>3, <2>1, LeaveInv DEF Return
<1>4. CASE Revert
  BY <1>1, <1>2, <1>4, FailsInv DEF Revert
<1> QED BY <1>3, <1>4

\* What an allowed opcode does to the state.
Runs(op, f, v) ==
    /\ Affordable(op) /\ frames' = Replace(f) /\ out' = [op |-> op, value |-> v]
    /\ UNCHANGED <<spec, transient, undo, txs>>

\* An opcode that runs on keeps the invariant.
LEMMA RunsInv ==
    ASSUME IInv, NEW op, NEW f, NEW v \in Nat, Runs(op, f, v), Advanced(f)
    PROVE  IInv'
<1>1. Continues(f) /\ UNCHANGED <<transient, undo>>
  BY DEF Runs, Continues, Affordable
<1> QED BY <1>1, ContinuesInv

\* TSTORE keeps the invariant.
LEMMA TstoreInv ==
    ASSUME IInv, NEW k \in Keys, NEW v \in Values, Tstore(k, v)
    PROVE  IInv'
<1> DEFINE f     == Charged("TSTORE")
           slot  == <<Top.target, k>>
           entry == [slot |-> slot, had |-> transient[slot]]
<1>1. CASE ~ (IsEnabledIn(spec, CURIE) /\ ~Top.static)
  BY <1>1, HaltInv DEF Tstore
<1>2. CASE IsEnabledIn(spec, CURIE) /\ ~Top.static
  <2>1. /\ Affordable("TSTORE") /\ frames' = Replace(f)
        /\ transient' = [transient EXCEPT ![slot] = v]
        /\ undo' = IF transient[slot] = v THEN undo ELSE Append(undo, entry)
        /\ out' = NoOut /\ UNCHANGED <<spec, txs>>
    BY <1>2 DEF Tstore
  <2>2. frames # << >> /\ Advanced(f) /\ out'.value \in Nat
    BY <2>1, ChargedAdvances DEF Affordable, Opcodes, NoOut
  <2>3. Continues(f)
    BY <2>1, <2>2 DEF Continues
  <2> HIDE DEF f
  <2>4. /\ frames' \in Seq(Frames) /\ Len(frames') = Len(frames) /\ frames' # << >>
        /\ DOMAIN frames' = DOMAIN frames
        /\ \A i \in DOMAIN frames : frames'[i] = IF i = Len(frames) THEN f ELSE frames[i]
    BY <2>3, ReplacedFrames
  <2>5. slot \in Slots /\ transient[slot] \in Values
    BY <2>2, TopFrame DEF Frames, Slots, IInv, Typed
  <2> HIDE DEF slot
  <2>6. transient' \in [Slots -> Values]
    BY <2>1, <2>5 DEF IInv, Typed
  <2>7. undo' \in Seq(Entries) /\ Len(undo) \in Nat /\ Len(undo) <= Len(undo')
    <3>1. entry \in Entries
      BY <2>5 DEF Entries
    <3> HIDE DEF entry
    <3>2. undo \in Seq(Entries) /\ Len(undo) \in Nat
      BY LenProperties DEF IInv, Typed
    <3> QED BY <2>1, <3>1, <3>2, AppendProperties
  <2>8. Typed'
    BY <2>1, <2>2, <2>4, <2>6, <2>7 DEF IInv, Typed
  <2>9. CheckpointInv'
    <3>1. \A i \in DOMAIN frames : frames'[i].checkpoint = frames[i].checkpoint
      BY <2>2, <2>4 DEF Advanced, Top
    <3>2. \A i \in DOMAIN frames : frames[i].checkpoint <= Len(undo) /\ frames[i].checkpoint \in Nat
      BY OpenFrames
    <3>3. \A i \in DOMAIN frames' : frames'[i].checkpoint <= Len(undo')
      <4>1. undo' \in Seq(Entries) /\ Len(undo') \in Nat
        BY <2>7, LenProperties
      <4> QED BY <2>4, <2>7, <3>1, <3>2, <4>1
    <3>4. \A i, j \in DOMAIN frames' : i <= j => frames'[i].checkpoint <= frames'[j].checkpoint
      BY <2>4, <3>1 DEF IInv, CheckpointInv
    <3> QED BY <3>3, <3>4 DEF CheckpointInv
  <2>10. GasInv'
    BY <2>3, ContinuesGas
  <2> QED BY <2>4, <2>8, <2>9, <2>10 DEF IInv, IdleInv
<1> QED BY <1>1, <1>2

\* CLZ pushes a number.
LEMMA LeadingZerosIsNat == \A x : LeadingZeros(x) \in Nat
<1> TAKE x
<1> DEFINE S == {b \in 0 .. WordBits - 1 : x < 2^b}
<1>1. WordBits \in Nat
  BY OpcodeAssumption
<1>2. IsFiniteSet(0 .. WordBits - 1)
  BY <1>1, FS_Interval
<1>3. S \subseteq 0 .. WordBits - 1
  OBVIOUS
<1> HIDE DEF S
<1>4. Cardinality(S) \in Nat
  BY <1>2, <1>3, FS_Subset, FS_CardinalityType
<1> QED BY <1>4 DEF LeadingZeros, S

\* The opcodes that look at values only keep the invariant.
LEMMA ValueOpcodesInv ==
    ASSUME IInv
    PROVE  /\ Selfdestruct \/ Basefee \/ Difficulty => IInv'
           /\ \A k \in Keys : Tload(k) => IInv'
           /\ \A x : Clz(x) => IInv'
<1>1. ASSUME Selfdestruct PROVE IInv'
  BY <1>1, HaltInv DEF Selfdestruct, Execute
<1>2. ASSUME Basefee PROVE IInv'
  <2>1. Halt \/ Runs("BASEFEE", Charged("BASEFEE"), 1)
    BY <1>2 DEF Basefee, Execute, Runs
  <2>2. Runs("BASEFEE", Charged("BASEFEE"), 1) => Advanced(Charged("BASEFEE"))
    BY ChargedAdvances DEF Runs, Opcodes
  <2> QED BY <2>1, <2>2, HaltInv, RunsInv
<1>3. ASSUME Difficulty PROVE IInv'
  <2>1. Runs("DIFFICULTY", Charged("DIFFICULTY"), 0)
    BY <1>3 DEF Difficulty, Execute, Runs
  <2>2. Advanced(Charged("DIFFICULTY"))
    BY <2>1, ChargedAdvances DEF Runs, Opcodes
  <2> QED BY <2>1, <2>2, RunsInv
<1>4. ASSUME NEW k \in Keys, Tload(k) PROVE IInv'
  <2> DEFINE v == transient[<<Top.target, k>>]
  <2>1. Halt \/ Runs("TLOAD", Charged("TLOAD"), v)
    BY <1>4 DEF Tload, Execute, Runs
  <2>2. Runs("TLOAD", Charged("TLOAD"), v) => Advanced(Charged("TLOAD")) /\ v \in Nat
    <3> SUFFICES ASSUME Runs("TLOAD", Charged("TLOAD"), v)
                 PROVE  Advanced(Charged("TLOAD")) /\ v \in Nat
      OBVIOUS
    <3>1. Affordable("TLOAD") /\ frames # << >>
      BY DEF Runs, Affordable
    <3>2. <<Top.target, k>> \in Slots
      BY <3>1, TopFrame DEF Frames, Slots
    <3>3. v \in Nat
      BY <3>2, OpcodeAssumption DEF IInv, Typed
    <3> QED BY <3>1, <3>3, ChargedAdvances DEF Opcodes
  <2> HIDE DEF v
  <2> QED BY <2>1, <2>2, HaltInv, RunsInv
<1>5. ASSUME NEW x, Clz(x) PROVE IInv'
  <2> DEFINE v == LeadingZeros(x)
  <2>1. Halt \/ Runs("CLZ", Charged("CLZ"), v)
    BY <1>5 DEF Clz, Execute, Runs
  <2>2. Runs("CLZ", Charged("CLZ"), v) => Advanced(Charged("CLZ"))
    BY ChargedAdvances DEF Runs, Opcodes
  <2>3. v \in Nat
    BY LeadingZerosIsNat
  <2> HIDE DEF v
  <2> QED BY <2>1, <2>2, <2>3, HaltInv, RunsInv
<1> QED BY <1>1, <1>2, <1>3, <1>4, <1>5

\* MCOPY advances the frame or halts.
LEMMA McopyRuns ==
    ASSUME IInv, NEW dst \in Operands, NEW src \in Operands, NEW len \in Operands,
           Mcopy(dst, src, len)
    PROVE  Halt \/ \E r : Runs("MCOPY", r, 0) /\ Advanced(r)
<1> DEFINE r == McopyResult(Charged("MCOPY"), dst, src, len)
<1>1. Halt \/ (r # NoFrame /\ Runs("MCOPY", r, 0))
  BY DEF Mcopy, Execute, Runs
<1>2. Runs("MCOPY", r, 0) /\ r # NoFrame => Advanced(r)
  <2> SUFFICES ASSUME Runs("MCOPY", r, 0), r # NoFrame PROVE Advanced(r)
    OBVIOUS
  <2>1. Advanced(Charged("MCOPY")) /\ frames # << >>
    BY ChargedAdvances DEF Runs, Affordable, Opcodes
  <2>2. dst \in Nat /\ src \in Nat /\ len \in Nat
    BY OpcodeAssumption
  <2> QED BY <2>1, <2>2, McopyAdvances
<1> HIDE DEF r
<1> QED BY <1>1, <1>2

\* So does MSTORE8.
LEMMA Mstore8Runs ==
    ASSUME IInv, NEW at \in Operands, NEW byte \in Bytes, Mstore8(at, byte)
    PROVE  Halt \/ \E r : Runs("MSTORE8", r, 0) /\ Advanced(r)
<1> DEFINE end    == Saturated(at + 1)
           f      == Charged("MSTORE8")
           resize == ResizeGas(Top.memory, end)
           r      == [f EXCEPT !.remaining = @ - resize, !.memory = [Grown(@, end) EXCEPT ![at + 1] = byte]]
<1>1. Halt \/ (resize <= f.remaining /\ Runs("MSTORE8", r, 0))
  BY DEF Mstore8, Execute, Runs
<1>2. resize <= f.remaining /\ Runs("MSTORE8", r, 0) => Advanced(r)
  <2> SUFFICES ASSUME resize <= f.remaining, Runs("MSTORE8", r, 0) PROVE Advanced(r)
    OBVIOUS
  <2>1. Advanced(f) /\ frames # << >>
    BY ChargedAdvances DEF Runs, Affordable, Opcodes
  <2>2. end \in Nat /\ at + 1 \in Nat
    BY OpcodeAssumption DEF Saturated
  <2>3. f.memory = Top.memory
    BY <2>1, TopFrame DEF Charged, Frames
  <2> HIDE DEF f, end
  <2>4. ResizeGas(f.memory, end) <= f.remaining
    BY <2>3
  <2>5. Advanced([f EXCEPT !.remaining = @ - ResizeGas(f.memory, end),
                           !.memory = [Grown(@, end) EXCEPT ![at + 1] = byte]])
    BY <2>1, <2>2, <2>4, Mstore8Advances
  <2> QED BY <2>3, <2>5
<1> HIDE DEF r, resize
<1> QED BY <1>1, <1>2

\* Every step keeps the invariant.
LEMMA NextInv ==
    ASSUME IInv, [Next]_vars
    PROVE  IInv'
<1>1. ASSUME NEW a \in Addresses, Begin(a) PROVE IInv'
  BY <1>1, BeginInv
<1>2. ASSUME NEW a \in Addresses, NEW scheme, CallCode(a, scheme) PROVE IInv'
  BY <1>2, CallCodeInv
<1>3. ASSUME Return \/ Revert \/ OutOfGas PROVE IInv'
  BY <1>3, EndInv, HaltInv DEF OutOfGas
<1>4. ASSUME Selfdestruct \/ Basefee \/ Difficulty PROVE IInv'
  BY <1>4, ValueOpcodesInv
<1>5. ASSUME NEW k \in Keys, Tload(k) PROVE IInv'
  BY <1>5, ValueOpcodesInv
<1>6. ASSUME NEW k \in Keys, NEW v \in Values, Tstore(k, v) PROVE IInv'
  BY <1>6, TstoreInv
<1>7. ASSUME NEW x \in Operands, Clz(x) PROVE IInv'
  BY <1>7, ValueOpcodesInv
<1>8. ASSUME NEW dst \in Operands, NEW src \in Operands, NEW len \in Operands, Mcopy(dst, src, len)
      PROVE  IInv'
  BY <1>8, McopyRuns, HaltInv, RunsInv
<1>9. ASSUME NEW at \in Operands, NEW byte \in Bytes, Mstore8(at, byte) PROVE IInv'
  BY <1>9, Mstore8Runs, HaltInv, RunsInv
<1>10. CASE UNCHANGED vars
  BY <1>10 DEF vars, IInv, Typed, CheckpointInv, GasInv, Paid, IdleInv, Top
<1> QED BY <1>1, <1>2, <1>3, <1>4, <1>5, <1>6, <1>7, <1>8, <1>9, <1>10 DEF Next

\* Nothing runs at first.
LEMMA InitInv == Init => IInv
<1> SUFFICES ASSUME Init PROVE IInv
  OBVIOUS
<1>1. /\ spec \in Specs /\ transient = Empty /\ undo = << >> /\ frames = << >> /\ out.value = 0 /\ txs = 0
  BY DEF Init, NoOut
<1>2. Empty \in [Slots -> Values] /\ MaxRuns \in Nat
  BY OpcodeAssumption DEF Empty
<1>3. DOMAIN frames = {} /\ frames \in Seq(Frames) /\ undo \in Seq(Entries)
  BY <1>1, EmptySeq
<1> QED BY <1>1, <1>2, <1>3 DEF IInv, Typed, CheckpointInv, GasInv, IdleInv

\* Frames, journal, gas and memory stay consistent through nested frames that fail.
THEOREM Invariant == Spec => []IInv
<1>1. IInv /\ [Next]_vars => IInv'
  BY NextInv
<1> QED BY <1>1, InitInv, PTL DEF Spec

\* The gas of a frame never goes below zero, whatever memory its opcodes ask for, and the
\* journal never becomes shorter than an open frame's checkpoint.
THEOREM OpcodesAreTyped == Spec => []TypeOK
<1>1. IInv => TypeOK
  <2> SUFFICES ASSUME IInv PROVE TypeOK
    OBVIOUS
  <2> DEFINE R == [target : Addresses, static : BOOLEAN, remaining : 0 .. GasLimit,
                   memory : Seq(Bytes), checkpoint : 0 .. Len(undo)]
  <2>1. \A i \in 1 .. Len(frames) : frames[i] \in R
    <3> TAKE i \in 1 .. Len(frames)
    <3>1. i \in DOMAIN frames
      BY LenProperties DEF IInv, Typed
    <3> QED BY <3>1, OpenFrames DEF Frames
  <2>2. frames \in Seq(R)
    <3>1. Len(frames) \in Nat /\ DOMAIN frames = 1 .. Len(frames) /\ frames \in [1 .. Len(frames) -> Frames]
      BY LenProperties DEF IInv, Typed
    <3> HIDE DEF R
    <3>2. frames \in [1 .. Len(frames) -> R]
      BY <2>1, <3>1
    <3> QED BY <3>1, <3>2
  <2> QED BY <2>2 DEF IInv, Typed, TypeOK, Entries
<1> QED BY <1>1, Invariant, PTL

\* In every frame that running code can produce, MCOPY does what EIP-5656 says, for operands of
\* any size and any usize: the narrowing, the order of the checks and the early return show
\* neither in the result nor in the gas nor in what halts.
THEOREM CopiesAreEip5656 == Spec => []McopyIsEip5656
<1>1. IInv => McopyIsEip5656
  <2> SUFFICES ASSUME IInv, frames # << >>, NEW dst \in Operands, NEW src \in Operands, NEW len \in Operands
               PROVE  McopyResult(Top, dst, src, len) = Eip5656(Top, dst, src, len)
    BY DEF McopyIsEip5656
  <2>1. Top \in Frames /\ Paid(Top, Top.remaining)
    BY TopFrame
  <2>2. dst \in Nat /\ src \in Nat /\ len \in Nat
    BY OpcodeAssumption
  <2> QED BY <2>1, <2>2, McopyMeetsEip5656
<1> QED BY <1>1, Invariant, PTL

-----------------------------------------------------------------------------
(* Undoing the journal *)

\* The storage after undoing the entries beyond the first n.
UndoIn(storage, entries, n) ==
    [slot \in Slots |-> IF Since(entries, n, slot) = {} THEN storage[slot]
                        ELSE entries[Min(Since(entries, n, slot))].had]

\* checkpoint_revert in terms of storage and journal.
LEMMA UndoToIsUndoIn ==
    /\ \A n : UndoTo(n) = UndoIn(transient, undo, n)
    /\ \A n : UndoTo(n)' = UndoIn(transient', undo', n)
BY DEF UndoTo, UndoIn, Since

\* Undoing leaves storage.
LEMMA UndoInTyped ==
    ASSUME NEW storage \in [Slots -> Values], NEW entries \in Seq(Entries), NEW n \in Nat
    PROVE  UndoIn(storage, entries, n) \in [Slots -> Values]
<1> DEFINE v(slot) == IF Since(entries, n, slot) = {} THEN storage[slot]
                      ELSE entries[Min(Since(entries, n, slot))].had
<1>1. UndoIn(storage, entries, n) = [slot \in Slots |-> v(slot)]
  BY DEF UndoIn
<1>2. \A slot \in Slots : v(slot) \in Values
  BY UndoneSlot
<1> HIDE DEF v
<1> QED BY <1>1, <1>2

\* Undoing nothing changes nothing.
LEMMA UndoNothing ==
    ASSUME NEW storage \in [Slots -> Values], NEW entries \in Seq(Entries)
    PROVE  UndoIn(storage, entries, Len(entries)) = storage
<1>1. Len(entries) \in Nat
  BY LenProperties
<1>2. \A slot : Since(entries, Len(entries), slot) = {}
  BY <1>1 DEF Since
<1> QED BY <1>2 DEF UndoIn

\* A store, and the journal's entry for it.
StoredIn(storage, slot, v) == [storage EXCEPT ![slot] = v]
EntryOf(storage, slot)     == [slot |-> slot, had |-> storage[slot]]

\* A value stored with its entry is undone to the same storage.
LEMMA UndoStored ==
    ASSUME NEW storage \in [Slots -> Values], NEW entries \in Seq(Entries), NEW slot \in Slots,
           NEW v \in Values, NEW n \in Nat, n <= Len(entries)
    PROVE  UndoIn(StoredIn(storage, slot, v), Append(entries, EntryOf(storage, slot)), n)
           = UndoIn(storage, entries, n)
<1> DEFINE e  == EntryOf(storage, slot)
           es == Append(entries, e)
           st == StoredIn(storage, slot, v)
           l  == Len(entries)
<1>1. l \in Nat /\ e \in Entries
  BY LenProperties DEF Entries, EntryOf
<1>2. /\ es \in Seq(Entries) /\ Len(es) = l + 1 /\ es[l + 1] = e
      /\ \A k \in 1 .. l : es[k] = entries[k]
  <2> HIDE DEF e
  <2> QED BY <1>1, AppendProperties
<1>3. /\ e.slot = slot /\ e.had = storage[slot]
      /\ st[slot] = v /\ \A s \in Slots : s # slot => st[s] = storage[s]
  BY DEF EntryOf, StoredIn
<1> HIDE DEF e, es, st
<1>4. ASSUME NEW s \in Slots
      PROVE  (IF Since(es, n, s) = {} THEN st[s] ELSE es[Min(Since(es, n, s))].had)
             = IF Since(entries, n, s) = {} THEN storage[s] ELSE entries[Min(Since(entries, n, s))].had
  <2> DEFINE T == Since(entries, n, s)
             U == Since(es, n, s)
  <2>1. T \subseteq 1 .. l /\ T \subseteq Nat /\ n + 1 .. l \subseteq 1 .. l
    BY <1>1 DEF Since
  <2>2. U = IF s = slot THEN T \cup {l + 1} ELSE T
    <3>1. n + 1 .. l + 1 = (n + 1 .. l) \cup {l + 1}
      BY <1>1
    <3>2. \A k \in n + 1 .. l : es[k].slot = entries[k].slot
      BY <1>2, <2>1
    <3> QED BY <1>2, <1>3, <3>1, <3>2 DEF Since
  <2> HIDE DEF T, U
  <2>3. CASE T = {}
    <3>1. CASE s = slot
      <4>1. U = {l + 1}
        BY <2>2, <2>3, <3>1
      <4>2. Min(U) \in U
        <5>1. U # {} /\ U \subseteq Nat
          BY <1>1, <4>1
        <5> QED BY <5>1, FirstPosition
      <4>3. Min(U) = l + 1 /\ U # {}
        BY <4>1, <4>2
      <4> QED BY <1>2, <1>3, <2>3, <3>1, <4>3 DEF T, U
    <3>2. CASE s # slot
      BY <1>3, <2>2, <2>3, <3>2 DEF T, U
    <3> QED BY <3>1, <3>2
  <2>4. CASE T # {}
    <3>1. Min(T) \in T /\ (\A k \in T : Min(T) <= k) /\ Min(T) \in 1 .. l
      BY <2>1, <2>4, FirstPosition
    <3>2. U \subseteq Nat /\ U # {} /\ T \subseteq U
      <4>1. l + 1 \in Nat
        BY <1>1
      <4>2. T \subseteq U /\ U \subseteq T \cup {l + 1}
        BY <2>2
      <4> QED BY <2>1, <2>4, <4>1, <4>2
    <3>3. Min(U) \in U /\ \A k \in U : Min(U) <= k
      BY <3>2, FirstPosition
    <3>4. Min(U) = Min(T)
      <4>1. Min(U) <= Min(T)
        BY <3>1, <3>2, <3>3
      <4>2. Min(U) # l + 1
        BY <1>1, <3>1, <4>1
      <4>3. Min(U) \in T
        BY <2>2, <3>3, <4>2
      <4>4. Min(T) <= Min(U) /\ Min(T) \in Nat /\ Min(U) \in Nat
        BY <2>1, <3>1, <4>3
      <4> QED BY <4>1, <4>4
    <3>5. es[Min(U)] = entries[Min(T)]
      BY <1>2, <3>1, <3>4
    <3> QED BY <2>4, <3>2, <3>5 DEF T, U
  <2> QED BY <2>3, <2>4
<1>5. UndoIn(st, es, n) = UndoIn(storage, entries, n)
  BY <1>4 DEF UndoIn
<1> QED BY <1>5 DEF st, es, e

\* After a frame was undone, an outer one can still be: the entries that are left lead from
\* the storage that was restored to the same storage as all of them did.
LEMMA UndoTwice ==
    ASSUME NEW storage \in [Slots -> Values], NEW entries \in Seq(Entries),
           NEW c \in 0 .. Len(entries), NEW n \in Nat, n <= c
    PROVE  UndoIn(UndoIn(storage, entries, c), SubSeq(entries, 1, c), n) = UndoIn(storage, entries, n)
<1> DEFINE es == SubSeq(entries, 1, c)
           st == UndoIn(storage, entries, c)
           l  == Len(entries)
<1>1. l \in Nat /\ c \in Nat /\ c <= l
  BY LenProperties
<1>2. Len(es) = c /\ \A k \in 1 .. c : es[k] = entries[k]
  <2>1. \A k \in 1 .. c : entries[k] \in Entries
    BY <1>1, ElementOfSeq
  <2>2. /\ Len(es) = IF 1 <= c THEN c - 1 + 1 ELSE 0
        /\ \A k \in 1 .. c - 1 + 1 : es[k] = entries[1 + k - 1]
    BY <1>1, <2>1, SubSeqProperties
  <2> HIDE DEF es
  <2> QED BY <1>1, <2>2
<1> HIDE DEF es
<1>3. ASSUME NEW s \in Slots
      PROVE  (IF Since(es, n, s) = {} THEN st[s] ELSE es[Min(Since(es, n, s))].had)
             = IF Since(entries, n, s) = {} THEN storage[s] ELSE entries[Min(Since(entries, n, s))].had
  <2> DEFINE A == Since(es, n, s)
             B == Since(entries, c, s)
             C == Since(entries, n, s)
  <2>1. /\ C = A \cup B /\ A \subseteq 1 .. c /\ B \subseteq c + 1 .. l /\ C \subseteq Nat
    <3>1. n + 1 .. l = (n + 1 .. c) \cup (c + 1 .. l) /\ n + 1 .. c \subseteq 1 .. c
          /\ n + 1 .. l \subseteq Nat
      BY <1>1
    <3>2. A = {k \in n + 1 .. c : entries[k].slot = s}
      BY <1>2, <3>1 DEF Since
    <3> QED BY <3>1, <3>2 DEF Since
  <2>2. st[s] = IF B = {} THEN storage[s] ELSE entries[Min(B)].had
    BY DEF UndoIn
  <2> HIDE DEF A, B, C, st
  <2>3. CASE A = {}
    BY <2>1, <2>2, <2>3 DEF A, B, C
  <2>4. CASE A # {}
    <3>1. Min(A) \in A /\ (\A k \in A : Min(A) <= k) /\ Min(A) \in 1 .. c
      BY <2>1, <2>4, FirstPosition
    <3>2. C # {} /\ Min(C) \in C /\ \A k \in C : Min(C) <= k
      BY <2>1, <2>4, FirstPosition
    <3>3. Min(C) <= Min(A) /\ Min(A) \in Nat /\ Min(C) \in Nat /\ Min(C) <= c
      <4>1. Min(A) \in C
        BY <2>1, <3>1
      <4>2. Min(C) <= Min(A)
        BY <3>2, <4>1
      <4>3. Min(C) \in Nat
        BY <2>1, <3>2
      <4>4. Min(A) \in Nat /\ Min(A) <= c
        BY <1>1, <3>1
      <4> QED BY <1>1, <4>2, <4>3, <4>4
    <3>4. Min(C) \in A
      BY <1>1, <2>1, <3>2, <3>3
    <3>5. Min(C) = Min(A)
      BY <3>1, <3>3, <3>4
    <3>6. es[Min(A)] = entries[Min(C)]
      BY <1>2, <3>1, <3>5
    <3> QED BY <2>4, <3>2, <3>6 DEF A, C
  <2> QED BY <2>3, <2>4
<1> HIDE DEF st
<1>4. UndoIn(st, es, n) = UndoIn(storage, entries, n)
  BY <1>3 DEF UndoIn
<1> QED BY <1>4 DEF st, es

-----------------------------------------------------------------------------
(* EIP-1153 *)

\* A frame as EIP-1153 sees it, and the frames of a journal.
View(f, storage) == [owner |-> f.target, static |-> f.static, saved |-> storage]
CallsIn(fs, storage, entries) ==
    [i \in DOMAIN fs |-> View(fs[i], UndoIn(storage, entries, fs[i].checkpoint))]
CallRecords == [owner : Addresses, static : BOOLEAN, saved : [Slots -> Values]]

\* The refinement mapping in terms of frames, storage and journal.
LEMMA OpenCallsMap ==
    /\ OpenCalls = CallsIn(frames, transient, undo)
    /\ OpenCalls' = CallsIn(frames', transient', undo')
BY UndoToIsUndoIn DEF OpenCalls, AtBeginning, CallsIn, View

\* A frame as EIP-1153 sees it is a call.
LEMMA ViewIsCall ==
    ASSUME NEW f \in Frames, NEW storage \in [Slots -> Values]
    PROVE  /\ View(f, storage) \in CallRecords
           /\ View(f, storage).owner = f.target /\ View(f, storage).static = f.static
           /\ View(f, storage).saved = storage
BY DEF View, CallRecords, Frames

\* There are as many calls as frames, in the same order.
LEMMA CallsOfFrames ==
    ASSUME NEW fs \in Seq(Frames), NEW storage \in [Slots -> Values], NEW entries \in Seq(Entries)
    PROVE  /\ CallsIn(fs, storage, entries) \in Seq(CallRecords)
           /\ Len(CallsIn(fs, storage, entries)) = Len(fs)
           /\ DOMAIN CallsIn(fs, storage, entries) = DOMAIN fs
           /\ \A i \in DOMAIN fs : CallsIn(fs, storage, entries)[i]
                                   = View(fs[i], UndoIn(storage, entries, fs[i].checkpoint))
           /\ CallsIn(fs, storage, entries) = << >> <=> fs = << >>
<1> DEFINE cs   == CallsIn(fs, storage, entries)
           c(i) == View(fs[i], UndoIn(storage, entries, fs[i].checkpoint))
<1>1. Len(fs) \in Nat /\ DOMAIN fs = 1 .. Len(fs) /\ \A i \in DOMAIN fs : fs[i] \in Frames
  BY LenProperties, ElementOfSeq
<1>2. cs = [i \in 1 .. Len(fs) |-> c(i)]
  BY <1>1 DEF CallsIn
<1>3. \A i \in 1 .. Len(fs) : c(i) \in CallRecords
  <2> TAKE i \in 1 .. Len(fs)
  <2>1. fs[i] \in Frames /\ fs[i].checkpoint \in Nat
    BY <1>1 DEF Frames
  <2>2. UndoIn(storage, entries, fs[i].checkpoint) \in [Slots -> Values]
    BY <2>1, UndoInTyped
  <2> QED BY <2>1, <2>2, ViewIsCall
<1> HIDE DEF cs, c
<1>4. cs \in Seq(CallRecords) /\ Len(cs) = Len(fs) /\ DOMAIN cs = 1 .. Len(fs)
  BY <1>1, <1>2, <1>3
<1>5. cs = << >> <=> fs = << >>
  BY <1>1, <1>4, EmptySeq
<1>6. \A i \in 1 .. Len(fs) : cs[i] = c(i)
  BY <1>2
<1> QED BY <1>1, <1>4, <1>5, <1>6 DEF cs, c

\* The calls of the open frames, and the running one among them.
LEMMA TopCall ==
    ASSUME IInv
    PROVE  /\ OpenCalls \in Seq(CallRecords) /\ Len(OpenCalls) = Len(frames)
           /\ OpenCalls = << >> <=> frames = << >>
           /\ frames # << >> => /\ EIP1153!Top.owner = Top.target
                                /\ EIP1153!Top.static = Top.static
                                /\ EIP1153!Top.saved = UndoTo(Top.checkpoint)
<1>1. frames \in Seq(Frames) /\ transient \in [Slots -> Values] /\ undo \in Seq(Entries)
  BY DEF IInv, Typed
<1>2. /\ OpenCalls \in Seq(CallRecords) /\ Len(OpenCalls) = Len(frames)
      /\ OpenCalls = << >> <=> frames = << >>
      /\ \A i \in DOMAIN frames :
             OpenCalls[i] = View(frames[i], UndoIn(transient, undo, frames[i].checkpoint))
  BY <1>1, CallsOfFrames, OpenCallsMap
<1>3. ASSUME frames # << >>
      PROVE  /\ EIP1153!Top.owner = Top.target /\ EIP1153!Top.static = Top.static
             /\ EIP1153!Top.saved = UndoTo(Top.checkpoint)
  <2>1. Len(frames) \in DOMAIN frames /\ Top \in Frames /\ Top.checkpoint \in Nat
    BY <1>3, TopFrame DEF Frames
  <2>2. OpenCalls[Len(OpenCalls)] = View(Top, UndoTo(Top.checkpoint))
    BY <1>2, <2>1, UndoToIsUndoIn DEF Top
  <2>3. UndoTo(Top.checkpoint) \in [Slots -> Values]
    BY <2>1, UndoTyped
  <2> QED BY <2>1, <2>2, <2>3, ViewIsCall DEF EIP1153!Top
<1> QED BY <1>2, <1>3

\* A step that keeps of every frame who runs it, whether it is static and what it undoes to is
\* none to EIP-1153.
LEMMA SameCalls ==
    ASSUME IInv, IInv', DOMAIN frames' = DOMAIN frames,
           \A i \in DOMAIN frames :
               /\ frames'[i].target = frames[i].target /\ frames'[i].static = frames[i].static
               /\ UndoIn(transient', undo', frames'[i].checkpoint)
                  = UndoIn(transient, undo, frames[i].checkpoint)
    PROVE  OpenCalls' = OpenCalls
<1>1. \A i \in DOMAIN frames :
          View(frames'[i], UndoIn(transient', undo', frames'[i].checkpoint))
          = View(frames[i], UndoIn(transient, undo, frames[i].checkpoint))
  BY DEF View
<1> QED BY <1>1, OpenCallsMap DEF CallsIn

\* A transaction begins.
LEMMA BeginImplements ==
    ASSUME IInv, NEW a \in Addresses, Begin(a)
    PROVE  EIP1153!Begin(a)
<1> DEFINE f == Open(a, FALSE, GasLimit)
<1>1. /\ frames = << >> /\ frames' = <<f>> /\ out' = NoOut /\ transient' = transient /\ undo' = undo
  BY DEF Begin
<1>2. transient = EIP1153!Empty /\ OpenCalls = << >>
  BY <1>1, TopCall DEF IInv, IdleInv, Empty, EIP1153!Empty, Slots
<1>3. /\ f \in Frames /\ f.checkpoint = Len(undo) /\ f.target = a /\ f.static = FALSE
  <2>1. GasLimit \in 0 .. GasLimit
    BY OpcodeAssumption
  <2> QED BY <2>1, OpenFrame
<1>4. UndoIn(transient, undo, Len(undo)) = transient
  BY UndoNothing DEF IInv, Typed
<1> HIDE DEF f
<1>5. OpenCalls' = <<EIP1153!Call(a, FALSE)>>
  <2> DEFINE c == EIP1153!Call(a, FALSE)
  <2>1. DOMAIN frames' = 1 .. 1 /\ frames'[1] = f
    BY <1>1
  <2>2. View(f, transient) = c
    BY <1>3 DEF View, EIP1153!Call
  <2> HIDE DEF c
  <2>3. OpenCalls' = [i \in 1 .. 1 |-> c]
    BY <1>1, <1>3, <1>4, <2>1, <2>2, OpenCallsMap DEF CallsIn
  <2>4. OpenCalls' = <<c>>
    BY <2>3
  <2> QED BY <2>4 DEF c
<1>6. LastAnswer' = None
  BY <1>1 DEF LastAnswer, NoOut
<1> QED BY <1>1, <1>2, <1>5, <1>6 DEF EIP1153!Begin

\* A call opens one, for the account whose name the code runs in.
LEMMA CallCodeImplements ==
    ASSUME IInv, NEW a \in Addresses, NEW scheme, CallCode(a, scheme)
    PROVE  \E target \in Addresses, static \in BOOLEAN : EIP1153!Open(target, static)
<1> DEFINE n      == Len(frames)
           g      == Top.remaining - CALL_GAS
           target == IF scheme = "delegatecall" THEN Top.target ELSE a
           below  == scheme = "staticcall"
           static == Top.static \/ below
           r      == [Top EXCEPT !.remaining = 0]
           f      == Open(target, static, g)
<1>1. /\ frames # << >> /\ Top.remaining >= CALL_GAS /\ frames' = Append(Replace(r), f)
      /\ out' = NoOut /\ transient' = transient /\ undo' = undo
  BY DEF CallCode
<1>2. /\ Top \in Frames /\ Top.remaining \in Nat /\ Top.remaining <= GasLimit /\ GasLimit \in Nat
      /\ CALL_GAS \in Nat /\ n \in Nat /\ n > 0 /\ DOMAIN frames = 1 .. n
  BY <1>1, TopFrame, OpcodeAssumption
<1>3. g \in 0 .. GasLimit
  BY <1>1, <1>2
<1>4. target \in Addresses /\ below \in BOOLEAN /\ static \in BOOLEAN
  BY <1>2 DEF Frames
<1>5. static = (Top.static \/ below)
  OBVIOUS
<1> HIDE DEF target, below, static, g
<1>6. /\ f \in Frames /\ f.checkpoint = Len(undo) /\ f.target = target /\ f.static = static
  BY <1>3, <1>4, OpenFrame
<1> HIDE DEF f
<1>7. /\ r \in Frames /\ r.target = Top.target /\ r.static = Top.static
      /\ r.checkpoint = Top.checkpoint
  BY <1>2 DEF Frames
<1> HIDE DEF r
<1>8. /\ frames' \in Seq(Frames) /\ Len(frames') = n + 1 /\ DOMAIN frames' = 1 .. n + 1
      /\ frames'[n + 1] = f
      /\ \A i \in DOMAIN frames : frames'[i] = IF i = n THEN r ELSE frames[i]
  BY <1>1, <1>6, <1>7, CalledFrames
<1>9. IInv'
  BY CallCodeInv
<1> DEFINE new == EIP1153!Call(target, static)
           u(i) == UndoIn(transient, undo, frames'[i].checkpoint)
<1>10. /\ OpenCalls \in Seq(CallRecords) /\ Len(OpenCalls) = n
      /\ \A i \in 1 .. n : OpenCalls[i] = View(frames[i], UndoIn(transient, undo, frames[i].checkpoint))
  <2>1. frames \in Seq(Frames) /\ transient \in [Slots -> Values] /\ undo \in Seq(Entries)
    BY DEF IInv, Typed
  <2> QED BY <1>2, <2>1, CallsOfFrames, OpenCallsMap
<1>11. /\ OpenCalls' \in Seq(CallRecords) /\ Len(OpenCalls') = n + 1
       /\ \A i \in 1 .. n + 1 : OpenCalls'[i] = View(frames'[i], u(i))
  <2>1. transient \in [Slots -> Values] /\ undo \in Seq(Entries)
    BY DEF IInv, Typed
  <2>2. OpenCalls' = CallsIn(frames', transient, undo)
    BY <1>1, OpenCallsMap
  <2>3. /\ OpenCalls' \in Seq(CallRecords) /\ Len(OpenCalls') = Len(frames')
        /\ \A i \in DOMAIN frames' : OpenCalls'[i] = View(frames'[i], u(i))
    BY <1>8, <2>1, <2>2, CallsOfFrames
  <2> HIDE DEF u
  <2> QED BY <1>8, <2>3
<1>12. new \in CallRecords /\ new = View(f, transient)
  <2>1. new = View(f, transient)
    BY <1>6 DEF View, EIP1153!Call
  <2> HIDE DEF new
  <2> QED BY <1>6, <2>1, ViewIsCall DEF IInv, Typed
<1>13. \A i \in 1 .. n : OpenCalls'[i] = OpenCalls[i]
  <2> TAKE i \in 1 .. n
  <2>1. /\ frames'[i].target = frames[i].target /\ frames'[i].static = frames[i].static
        /\ frames'[i].checkpoint = frames[i].checkpoint
    BY <1>2, <1>7, <1>8 DEF Top
  <2>2. View(frames'[i], u(i)) = View(frames[i], UndoIn(transient, undo, frames[i].checkpoint))
    BY <2>1 DEF View
  <2>3. i \in 1 .. n + 1
    BY <1>2
  <2> HIDE DEF u
  <2> QED BY <1>10, <1>11, <2>2, <2>3
<1>14. OpenCalls'[n + 1] = new
  <2>1. UndoIn(transient, undo, Len(undo)) = transient
    BY UndoNothing DEF IInv, Typed
  <2>2. View(frames'[n + 1], u(n + 1)) = new
    BY <1>6, <1>8, <1>12, <2>1
  <2>3. n + 1 \in 1 .. n + 1
    BY <1>2
  <2> HIDE DEF u
  <2> QED BY <1>11, <2>2, <2>3
<1> HIDE DEF new, u
<1>15. OpenCalls' = Append(OpenCalls, new)
  <2>1. /\ Append(OpenCalls, new) \in Seq(CallRecords) /\ Len(Append(OpenCalls, new)) = n + 1
        /\ Append(OpenCalls, new)[n + 1] = new
        /\ \A i \in 1 .. n : Append(OpenCalls, new)[i] = OpenCalls[i]
    BY <1>10, <1>12, AppendProperties
  <2>2. \A i \in 1 .. n + 1 : OpenCalls'[i] = Append(OpenCalls, new)[i]
    <3> TAKE i \in 1 .. n + 1
    <3>1. i \in 1 .. n \/ i = n + 1
      BY <1>2
    <3> QED BY <1>13, <1>14, <2>1, <3>1
  <2> QED BY <1>11, <2>1, <2>2, SeqEqual
<1>16. /\ OpenCalls # << >> /\ EIP1153!Top.static = Top.static
  BY <1>1, TopCall
<1>17. LastAnswer' = None
  BY <1>1 DEF LastAnswer, NoOut
<1>18. EIP1153!Open(target, below)
  BY <1>1, <1>5, <1>15, <1>16, <1>17 DEF EIP1153!Open, new
<1> QED BY <1>4, <1>18

\* A frame that ends closes its call, if what the frame leaves in the journal leads the others
\* back to where they began.
LEMMA LeaveImplements ==
    ASSUME IInv, IInv', NEW g \in 0 .. Top.remaining,
           NEW storage \in [Slots -> Values], NEW entries \in Seq(Entries),
           \A i \in DOMAIN frames : UndoIn(storage, entries, frames[i].checkpoint)
                                    = UndoIn(transient, undo, frames[i].checkpoint),
           Leave(storage, entries, g)
    PROVE  EIP1153!End(storage)
<1> DEFINE n == Len(frames)
           c(i) == View(frames[i], UndoIn(transient, undo, frames[i].checkpoint))
           before == SubSeq(OpenCalls, 1, Len(OpenCalls) - 1)
<1>1. frames # << >> /\ n \in Nat /\ n > 0 /\ DOMAIN frames = 1 .. n
  BY TopFrame DEF Leave
<1>2. /\ OpenCalls \in Seq(CallRecords) /\ Len(OpenCalls) = n /\ OpenCalls # << >>
      /\ \A i \in 1 .. n : OpenCalls[i] = c(i)
  <2>1. frames \in Seq(Frames) /\ transient \in [Slots -> Values] /\ undo \in Seq(Entries)
    BY DEF IInv, Typed
  <2> QED BY <1>1, <2>1, CallsOfFrames, OpenCallsMap
<1> HIDE DEF c
<1>3. /\ before \in Seq(CallRecords) /\ Len(before) = n - 1 /\ \A i \in 1 .. n - 1 : before[i] = c(i)
  <2> DEFINE cs == OpenCalls
             l  == n - 1
  <2>1. cs \in Seq(CallRecords) /\ l \in Nat /\ l <= Len(cs) /\ before = SubSeq(cs, 1, l)
        /\ \A i \in 1 .. l : cs[i] = c(i)
    BY <1>1, <1>2
  <2> HIDE DEF cs, l, before
  <2>2. \A i \in 1 .. l : cs[i] \in CallRecords
    BY <2>1, ElementOfSeq
  <2>3. before \in Seq(CallRecords) /\ Len(before) = l /\ \A i \in 1 .. l : before[i] = cs[i]
    BY <2>1, <2>2, SubSeqProperties
  <2> QED BY <2>1, <2>3 DEF l
<1> HIDE DEF before
<1>4. LastAnswer' = None
  BY DEF Leave, LastAnswer, NoOut
<1>5. CASE n = 1
  <2>1. frames' = << >> /\ transient' = Empty
    BY <1>5 DEF Leave
  <2>2. OpenCalls' = << >>
    <3>1. DOMAIN frames' = {}
      BY <2>1
    <3> QED BY <3>1 DEF OpenCalls
  <2>3. before = << >>
    BY <1>3, <1>5, EmptySeq
  <2>4. transient' = EIP1153!Empty
    BY <2>1 DEF Empty, EIP1153!Empty, Slots
  <2> QED BY <1>2, <1>4, <1>5, <2>2, <2>3, <2>4 DEF EIP1153!End, before
<1>6. CASE n # 1
  <2> DEFINE l == n - 1
             d(i) == View(frames'[i], UndoIn(transient', undo', frames'[i].checkpoint))
  <2>1. frames' = Remaining(g) /\ transient' = storage /\ undo' = entries
    BY <1>6 DEF Leave, Remaining
  <2>2. /\ frames' \in Seq(Frames) /\ Len(frames') = l /\ DOMAIN frames' = 1 .. l
        /\ \A i \in DOMAIN frames' :
               frames'[i] = IF i = l THEN [frames[i] EXCEPT !.remaining = g] ELSE frames[i]
    BY <1>1, <1>6, <2>1, LeftFrames
  <2>3. \A i \in 1 .. l : i \in 1 .. n
    BY <1>1
  <2>4. \A i \in 1 .. l : d(i) = c(i)
    <3> TAKE i \in 1 .. l
    <3>1. i \in DOMAIN frames /\ frames[i] \in Frames
      BY <1>1, <2>3, OpenFrames
    <3>2. /\ frames'[i].target = frames[i].target /\ frames'[i].static = frames[i].static
          /\ frames'[i].checkpoint = frames[i].checkpoint
      BY <2>2, <3>1 DEF Frames
    <3> QED BY <2>1, <3>1, <3>2 DEF View, c
  <2>5. /\ OpenCalls' \in Seq(CallRecords) /\ Len(OpenCalls') = l
        /\ \A i \in 1 .. l : OpenCalls'[i] = d(i)
    <3>1. transient' \in [Slots -> Values] /\ undo' \in Seq(Entries)
      BY <2>1
    <3> DEFINE cs == CallsIn(frames', transient', undo')
    <3>2. frames' \in Seq(Frames)
      BY <2>2
    <3>3. cs \in Seq(CallRecords) /\ Len(cs) = Len(frames') /\ \A i \in DOMAIN frames' : cs[i] = d(i)
      BY <3>1, <3>2, CallsOfFrames
    <3>4. OpenCalls' = cs
      BY OpenCallsMap
    <3> HIDE DEF d, l, cs
    <3> QED BY <2>2, <3>3, <3>4
  <2> HIDE DEF d
  <2>6. OpenCalls' = before
    BY <1>3, <2>4, <2>5, SeqEqual
  <2> QED BY <1>2, <1>4, <1>6, <2>1, <2>6 DEF EIP1153!End, before
<1> QED BY <1>5, <1>6

\* A frame that fails takes its stores back, and leaves the journal as the other frames need it.
LEMMA FailImplements ==
    ASSUME IInv, IInv', NEW g \in 0 .. Top.remaining,
           Leave(UndoTo(Top.checkpoint), SubSeq(undo, 1, Top.checkpoint), g)
    PROVE  EIP1153!Fail
<1> DEFINE c       == Top.checkpoint
           storage == UndoTo(c)
           entries == SubSeq(undo, 1, c)
<1>1. /\ frames # << >> /\ c \in 0 .. Len(undo) /\ c \in Nat /\ Len(undo) \in Nat
      /\ undo \in Seq(Entries) /\ transient \in [Slots -> Values]
      /\ DOMAIN frames = 1 .. Len(frames) /\ Len(frames) \in DOMAIN frames /\ Len(frames) \in Nat
  BY TopFrame DEF Leave, IInv, Typed
<1>2. storage \in [Slots -> Values] /\ storage = UndoIn(transient, undo, c)
  BY <1>1, UndoTyped, UndoToIsUndoIn
<1>3. entries \in Seq(Entries)
  <2>1. \A k \in 1 .. c : undo[k] \in Entries
    BY <1>1, ElementOfSeq
  <2> HIDE DEF c
  <2> QED BY <1>1, <2>1, SubSeqProperties
<1>4. \A i \in DOMAIN frames : frames[i].checkpoint \in Nat /\ frames[i].checkpoint <= c
  BY <1>1, OpenFrames DEF IInv, CheckpointInv, Top
<1>5. \A i \in DOMAIN frames : UndoIn(storage, entries, frames[i].checkpoint)
                               = UndoIn(transient, undo, frames[i].checkpoint)
  BY <1>1, <1>2, <1>4, UndoTwice
<1>6. Leave(storage, entries, g)
  OBVIOUS
<1> HIDE DEF storage, entries
<1>7. EIP1153!End(storage)
  BY <1>2, <1>3, <1>5, <1>6, LeaveImplements
<1> QED BY <1>1, <1>7, TopCall DEF EIP1153!Fail, storage

\* A halting frame fails.
LEMMA HaltImplements ==
    ASSUME IInv, IInv', Halt
    PROVE  EIP1153!Fail
<1>1. 0 \in 0 .. Top.remaining
  BY TopFrame DEF Halt, Leave
<1> QED BY <1>1, FailImplements DEF Halt

\* So does one that reverts; one that returns succeeds.
LEMMA EndImplements ==
    ASSUME IInv, IInv', Return \/ Revert
    PROVE  EIP1153!Succeed \/ EIP1153!Fail
<1>1. Top.remaining \in 0 .. Top.remaining
  BY TopFrame DEF Return, Revert, Leave
<1>2. CASE Return
  <2>1. transient \in [Slots -> Values] /\ undo \in Seq(Entries)
    BY DEF IInv, Typed
  <2>2. EIP1153!End(transient)
    BY <1>1, <1>2, <2>1, LeaveImplements DEF Return
  <2> QED BY <2>2 DEF EIP1153!Succeed
<1>3. CASE Revert
  BY <1>1, <1>3, FailImplements DEF Revert
<1> QED BY <1>2, <1>3

\* An opcode that runs on without a store changes no call.
LEMMA RunsImplements ==
    ASSUME IInv, NEW op, NEW f, NEW v \in Nat, Runs(op, f, v), Advanced(f)
    PROVE  /\ UNCHANGED <<transient, OpenCalls>> /\ frames # << >>
           /\ LastAnswer' = IF op = "TLOAD" THEN v ELSE None
<1>1. Continues(f) /\ transient' = transient /\ undo' = undo /\ out' = [op |-> op, value |-> v]
  BY DEF Runs, Continues, Affordable
<1>2. IInv'
  BY <1>1, ContinuesInv
<1>3. /\ DOMAIN frames' = DOMAIN frames
      /\ \A i \in DOMAIN frames : frames'[i] = IF i = Len(frames) THEN f ELSE frames[i]
  BY <1>1, ReplacedFrames
<1>4. /\ f.target = Top.target /\ f.static = Top.static /\ f.checkpoint = Top.checkpoint
  BY DEF Advanced
<1>5. OpenCalls' = OpenCalls
  <2>1. \A i \in DOMAIN frames :
            /\ frames'[i].target = frames[i].target /\ frames'[i].static = frames[i].static
            /\ frames'[i].checkpoint = frames[i].checkpoint
    BY <1>3, <1>4 DEF Top
  <2> QED BY <1>1, <1>2, <1>3, <2>1, SameCalls
<1> QED BY <1>1, <1>5 DEF LastAnswer, Continues

\* TSTORE stores in the name of the account that runs, unless it fails.
LEMMA TstoreImplements ==
    ASSUME IInv, NEW k \in Keys, NEW v \in Values, Tstore(k, v)
    PROVE  EIP1153!Fail \/ EIP1153!Store(k, v)
<1> DEFINE f     == Charged("TSTORE")
           slot  == <<Top.target, k>>
           entry == [slot |-> slot, had |-> transient[slot]]
<1>1. IInv'
  BY TstoreInv
<1>2. CASE ~ (IsEnabledIn(spec, CURIE) /\ ~Top.static)
  BY <1>1, <1>2, HaltImplements DEF Tstore
<1>3. CASE IsEnabledIn(spec, CURIE) /\ ~Top.static
  <2>1. /\ Affordable("TSTORE") /\ frames' = Replace(f)
        /\ transient' = [transient EXCEPT ![slot] = v]
        /\ undo' = IF transient[slot] = v THEN undo ELSE Append(undo, entry)
        /\ out' = NoOut /\ UNCHANGED <<spec, txs>>
    BY <1>3 DEF Tstore
  <2>2. frames # << >> /\ Advanced(f) /\ out'.value \in Nat
    BY <2>1, ChargedAdvances DEF Affordable, Opcodes, NoOut
  <2>3. Continues(f)
    BY <2>1, <2>2 DEF Continues
  <2> HIDE DEF f
  <2>4. /\ DOMAIN frames' = DOMAIN frames
        /\ \A i \in DOMAIN frames : frames'[i] = IF i = Len(frames) THEN f ELSE frames[i]
    BY <2>3, ReplacedFrames
  <2>5. slot \in Slots /\ transient \in [Slots -> Values] /\ undo \in Seq(Entries)
    BY <2>2, TopFrame DEF Frames, Slots, IInv, Typed
  <2>6. EIP1153!Top.owner = Top.target /\ EIP1153!Top.static = Top.static /\ OpenCalls # << >>
    BY <2>2, TopCall
  <2>7. \A n \in Nat : n <= Len(undo) => UndoIn(transient', undo', n) = UndoIn(transient, undo, n)
    <3> HIDE DEF slot
    <3>1. CASE transient[slot] = v
      BY <2>1, <2>5, <3>1
    <3>2. CASE transient[slot] # v
      <4>1. undo' = Append(undo, [slot |-> slot, had |-> transient[slot]])
        BY <2>1, <3>2
      <4>2. transient' = StoredIn(transient, slot, v) /\ undo' = Append(undo, EntryOf(transient, slot))
        BY <2>1, <4>1 DEF StoredIn, EntryOf
      <4> QED BY <2>5, <4>2, UndoStored
    <3> QED BY <3>1, <3>2
  <2>8. OpenCalls' = OpenCalls
    <3>1. \A i \in DOMAIN frames :
              /\ frames'[i].target = frames[i].target /\ frames'[i].static = frames[i].static
              /\ frames'[i].checkpoint = frames[i].checkpoint
      BY <2>2, <2>4 DEF Advanced, Top
    <3>2. \A i \in DOMAIN frames : frames[i].checkpoint \in Nat /\ frames[i].checkpoint <= Len(undo)
      BY OpenFrames
    <3> QED BY <1>1, <2>4, <2>7, <3>1, <3>2, SameCalls
  <2>9. LastAnswer' = None
    BY <2>1 DEF LastAnswer, NoOut
  <2>10. transient' = [transient EXCEPT ![<<EIP1153!Top.owner, k>>] = v]
    BY <2>1, <2>6
  <2>11. ~ EIP1153!Top.static
    BY <1>3, <2>6
  <2> QED BY <2>6, <2>8, <2>9, <2>10, <2>11 DEF EIP1153!Store
<1> QED BY <1>2, <1>3

\* TLOAD answers with what the account that runs has stored, unless it fails.
LEMMA TloadImplements ==
    ASSUME IInv, NEW k \in Keys, Tload(k)
    PROVE  EIP1153!Fail \/ EIP1153!Load(k)
<1> DEFINE v == transient[<<Top.target, k>>]
<1>1. IInv'
  BY ValueOpcodesInv
<1>2. Halt \/ Runs("TLOAD", Charged("TLOAD"), v)
  BY DEF Tload, Execute, Runs
<1>3. CASE Halt
  BY <1>1, <1>3, HaltImplements
<1>4. CASE Runs("TLOAD", Charged("TLOAD"), v)
  <2>1. Affordable("TLOAD") /\ frames # << >>
    BY <1>4 DEF Runs, Affordable
  <2>2. <<Top.target, k>> \in Slots
    BY <2>1, TopFrame DEF Frames, Slots
  <2>3. v \in Nat /\ Advanced(Charged("TLOAD"))
    BY <2>1, <2>2, ChargedAdvances, OpcodeAssumption DEF IInv, Typed, Opcodes
  <2>4. EIP1153!Top.owner = Top.target /\ OpenCalls # << >>
    BY <2>1, TopCall
  <2>5. v = transient[<<EIP1153!Top.owner, k>>]
    BY <2>4
  <2> HIDE DEF v
  <2>6. UNCHANGED <<transient, OpenCalls>> /\ LastAnswer' = v
    BY <1>4, <2>3, RunsImplements
  <2> QED BY <2>4, <2>5, <2>6 DEF EIP1153!Load
<1> QED BY <1>2, <1>3, <1>4

\* Any other opcode is none of EIP-1153's business, unless it fails.
LEMMA OtherImplements ==
    ASSUME IInv, IInv', NEW op \in Opcodes \ {"TLOAD"}, NEW f, NEW v \in Nat,
           Halt \/ (Runs(op, f, v) /\ Advanced(f))
    PROVE  EIP1153!Fail \/ EIP1153!Other
<1>1. CASE Halt
  BY <1>1, HaltImplements
<1>2. CASE Runs(op, f, v) /\ Advanced(f)
  BY <1>2, RunsImplements DEF EIP1153!Other
<1> QED BY <1>1, <1>2

\* Every step is one of EIP-1153's.
LEMMA NextImplements ==
    ASSUME IInv, [Next]_vars
    PROVE  [EIP1153!Next]_(EIP1153!vars)
<1>1. IInv'
  BY NextInv
<1>2. ASSUME NEW a \in Addresses, Begin(a) PROVE EIP1153!Next
  <2>1. EIP1153!Begin(a)
    BY <1>2, BeginImplements
  <2> QED BY <2>1 DEF EIP1153!Next
<1>3. ASSUME NEW a \in Addresses, NEW scheme, CallCode(a, scheme) PROVE EIP1153!Next
  <2>1. \E target \in Addresses, static \in BOOLEAN : EIP1153!Open(target, static)
    BY <1>3, CallCodeImplements
  <2> QED BY <2>1 DEF EIP1153!Next
<1>4. EIP1153!Succeed \/ EIP1153!Fail \/ EIP1153!Other => EIP1153!Next
  BY DEF EIP1153!Next
<1>5. CASE Return \/ Revert
  BY <1>1, <1>4, <1>5, EndImplements
<1>6. CASE OutOfGas \/ Selfdestruct
  BY <1>1, <1>4, <1>6, HaltImplements DEF OutOfGas, Selfdestruct, Execute
<1>7. ASSUME NEW op \in Opcodes \ {"TLOAD"}, NEW f, NEW v \in Nat, Halt \/ (Runs(op, f, v) /\ Advanced(f))
      PROVE  EIP1153!Next
  BY <1>1, <1>4, <1>7, OtherImplements
<1>8. CASE Basefee
  <2>1. Halt \/ Runs("BASEFEE", Charged("BASEFEE"), 1)
    BY <1>8 DEF Basefee, Execute, Runs
  <2>2. "BASEFEE" \in Opcodes \ {"TLOAD"} /\ 1 \in Nat
    BY DEF Opcodes
  <2>3. Runs("BASEFEE", Charged("BASEFEE"), 1) => Advanced(Charged("BASEFEE"))
    BY <2>2, ChargedAdvances DEF Runs
  <2> QED BY <1>7, <2>1, <2>2, <2>3
<1>9. CASE Difficulty
  <2>1. Runs("DIFFICULTY", Charged("DIFFICULTY"), 0)
    BY <1>9 DEF Difficulty, Execute, Runs
  <2>2. "DIFFICULTY" \in Opcodes \ {"TLOAD"} /\ 0 \in Nat
    BY DEF Opcodes
  <2>3. Advanced(Charged("DIFFICULTY"))
    BY <2>1, <2>2, ChargedAdvances DEF Runs
  <2> QED BY <1>7, <2>1, <2>2, <2>3
<1>10. ASSUME NEW k \in Keys, Tload(k) PROVE EIP1153!Next
  <2>1. EIP1153!Fail \/ EIP1153!Load(k)
    BY <1>10, TloadImplements
  <2> QED BY <2>1 DEF EIP1153!Next
<1>11. ASSUME NEW k \in Keys, NEW v \in Values, Tstore(k, v) PROVE EIP1153!Next
  <2>1. EIP1153!Fail \/ EIP1153!Store(k, v)
    BY <1>11, TstoreImplements
  <2> QED BY <2>1 DEF EIP1153!Next
<1>12. ASSUME NEW x \in Operands, Clz(x) PROVE EIP1153!Next
  <2> DEFINE v == LeadingZeros(x)
  <2>1. Halt \/ Runs("CLZ", Charged("CLZ"), v)
    BY <1>12 DEF Clz, Execute, Runs
  <2>2. "CLZ" \in Opcodes \ {"TLOAD"} /\ v \in Nat
    BY LeadingZerosIsNat DEF Opcodes
  <2>3. Runs("CLZ", Charged("CLZ"), v) => Advanced(Charged("CLZ"))
    BY <2>2, ChargedAdvances DEF Runs
  <2> HIDE DEF v
  <2> QED BY <1>7, <2>1, <2>2, <2>3
<1>13. ASSUME NEW dst \in Operands, NEW src \in Operands, NEW len \in Operands, Mcopy(dst, src, len)
       PROVE  EIP1153!Next
  <2>1. Halt \/ \E r : Runs("MCOPY", r, 0) /\ Advanced(r)
    BY <1>13, McopyRuns
  <2>2. "MCOPY" \in Opcodes \ {"TLOAD"} /\ 0 \in Nat
    BY DEF Opcodes
  <2> QED BY <1>7, <2>1, <2>2
<1>14. ASSUME NEW at \in Operands, NEW byte \in Bytes, Mstore8(at, byte) PROVE EIP1153!Next
  <2>1. Halt \/ \E r : Runs("MSTORE8", r, 0) /\ Advanced(r)
    BY <1>14, Mstore8Runs
  <2>2. "MSTORE8" \in Opcodes \ {"TLOAD"} /\ 0 \in Nat
    BY DEF Opcodes
  <2> QED BY <1>7, <2>1, <2>2
<1>15. CASE UNCHANGED vars
  <2>1. frames' = frames /\ transient' = transient /\ undo' = undo /\ out' = out
    BY <1>15 DEF vars
  <2>2. OpenCalls' = OpenCalls
    BY <1>1, <2>1, OpenCallsMap
  <2> QED BY <2>1, <2>2 DEF EIP1153!vars, LastAnswer
<1> QED BY <1>2, <1>3, <1>5, <1>6, <1>8, <1>9, <1>10, <1>11, <1>12, <1>13, <1>14, <1>15 DEF Next

\* TSTORE and TLOAD are EIP-1153's, for any number of accounts, slots and values, through frames
\* nested to any depth that succeed and fail in any order.
THEOREM TransientStorageIsEip1153 == Spec => ImplementsEip1153
<1>1. Init => EIP1153!Init
  <2> SUFFICES ASSUME Init PROVE EIP1153!Init
    OBVIOUS
  <2>1. transient = Empty /\ frames = << >> /\ out = NoOut
    BY DEF Init
  <2>2. OpenCalls = << >>
    <3>1. DOMAIN frames = {}
      BY <2>1
    <3> QED BY <3>1 DEF OpenCalls
  <2>3. LastAnswer = None
    BY <2>1 DEF LastAnswer, NoOut
  <2> QED BY <2>1, <2>2, <2>3 DEF EIP1153!Init, EIP1153!Empty, Empty, Slots
<1>2. IInv /\ [Next]_vars => [EIP1153!Next]_(EIP1153!vars)
  BY NextImplements
<1> QED BY <1>1, <1>2, Invariant, PTL DEF Spec, ImplementsEip1153, EIP1153!Spec
================================================================================
