--------------------------- MODULE SupplyDriverProofs ---------------------------
(***************************************************************************)
(* The driver of the supply, for any nominal values, settings and damage.  *)
(*   Sums       one changed byte of a telegram, or a late answer before    *)
(*              it, changes what the checksum is compared with             *)
(*   Scales     a word reads back as what it was made of, nearly           *)
(*   DriverInv  the words of the supply are those of what it was asked,    *)
(*              and an answer that is taken is its own                     *)
(*   ConstructorInv   the supply obeys a constructor whose settings are    *)
(*              within its nominal values, so that only a fault fails it   *)
(***************************************************************************)
EXTENDS SupplyDriver, WellFoundedInduction, SequenceTheorems, TLAPS

-------------------------------------------------------------------------------
(* Sums of bytes                                                              *)

\* Induction over the members of a set, from the least number outside it.
LEMMA Inductive ==
    ASSUME NEW T, 0 \in T, \A n \in Nat : n \in T => n + 1 \in T
    PROVE  Nat \subseteq T
<1> SUFFICES ASSUME Nat \ T # {} PROVE FALSE
  OBVIOUS
<1>1. PICK x \in Nat \ T : \A y \in Nat \ T : ~(<<y, x>> \in OpToRel(<, Nat))
  <2> DEFINE U == Nat \ T
  <2>1. U \subseteq Nat /\ U # {}
    OBVIOUS
  <2> HIDE DEF U
  <2>2. \E x \in U : \A y \in U : ~(<<y, x>> \in OpToRel(<, Nat))
    BY <2>1, WFMin, NatLessThanWellFounded, Zenon
  <2> QED
    BY <2>2, Zenon DEF U
<1>2. x # 0 /\ x - 1 \in Nat /\ x - 1 < x /\ (x - 1) + 1 = x
  <2>1. x \in Nat /\ x \notin T
    OBVIOUS
  <2> HIDE <1>1
  <2> QED
    BY <2>1
<1>3. <<x - 1, x>> \in OpToRel(<, Nat)
  BY <1>1, <1>2, Zenon DEF OpToRel
<1>4. x - 1 \in T
  BY <1>1, <1>2, <1>3
<1> QED
  BY <1>1, <1>2, <1>4

\* The loop has a sum after each byte.
LEMMA SumsExist ==
    ASSUME NEW bytes \in Seq(Int)
    PROVE  /\ Sums(bytes)[0] = 0
           /\ \A n \in 1 .. Len(bytes) : Sums(bytes)[n] = Sums(bytes)[n - 1] + bytes[n]
<1> DEFINE Runs(f, k) == f = [n \in 0 .. k |-> IF n = 0 THEN 0 ELSE f[n - 1] + bytes[n]]
           T == {k \in Nat : \E f : Runs(f, k)}
<1>1. 0 \in T
  <2>1. Runs([n \in 0 .. 0 |-> 0], 0)
    OBVIOUS
  <2> QED
    BY <2>1
<1>2. ASSUME NEW k \in Nat, k \in T PROVE k + 1 \in T
  <2>1. PICK f : Runs(f, k)
    BY <1>2
  <2> DEFINE g == [n \in 0 .. k + 1 |-> IF n = k + 1 THEN f[k] + bytes[k + 1] ELSE f[n]]
  <2>2. ASSUME NEW n \in 0 .. k + 1
        PROVE  g[n] = IF n = 0 THEN 0 ELSE g[n - 1] + bytes[n]
    <3>1. CASE n = k + 1
      BY <3>1
    <3>2. CASE n # k + 1
      <4>1. n \in 0 .. k /\ g[n] = f[n] /\ (n # 0 => n - 1 \in 0 .. k + 1 /\ g[n - 1] = f[n - 1])
        BY <3>2
      <4>2. f[n] = IF n = 0 THEN 0 ELSE f[n - 1] + bytes[n]
        BY <2>1, <4>1
      <4> QED
        BY <4>1, <4>2
    <3> QED
      BY <3>1, <3>2
  <2>3. g = [n \in 0 .. k + 1 |-> IF n = 0 THEN 0 ELSE g[n - 1] + bytes[n]]
    <3> HIDE DEF g
    <3>1. g = [n \in 0 .. k + 1 |-> g[n]]
      BY DEF g
    <3> QED
      BY <2>2, <3>1
  <2>4. k + 1 \in Nat
    OBVIOUS
  <2> HIDE DEF g
  <2> QED
    BY <2>3, <2>4, Zenon
<1>3. Len(bytes) \in T
  <2> HIDE DEF T
  <2> QED
    BY <1>1, <1>2, Inductive
<1>4. Runs(Sums(bytes), Len(bytes))
  <2>1. Sums(bytes) = CHOOSE f : Runs(f, Len(bytes))
    BY DEF Sums
  <2> HIDE DEF Runs
  <2> QED
    BY <1>3, <2>1, Zenon DEF T
<1>5. \A n \in 0 .. Len(bytes) : Sums(bytes)[n] = IF n = 0 THEN 0 ELSE Sums(bytes)[n - 1] + bytes[n]
  <2> DEFINE f == Sums(bytes)
  <2> HIDE DEF f
  <2>1. Runs(f, Len(bytes))
    BY <1>4 DEF f
  <2> QED
    BY <2>1 DEF f
<1> QED
  BY <1>5

LEMMA SumsAreIntegers ==
    ASSUME NEW bytes \in Seq(Int)
    PROVE  (\A n \in 0 .. Len(bytes) : Sums(bytes)[n] \in Int) /\ Total(bytes) \in Int
<1> DEFINE T == {n \in Nat : n <= Len(bytes) => Sums(bytes)[n] \in Int}
<1>1. 0 \in T
  BY SumsExist
<1>2. ASSUME NEW n \in Nat, n \in T PROVE n + 1 \in T
  <2> SUFFICES ASSUME n + 1 <= Len(bytes) PROVE Sums(bytes)[n + 1] \in Int
    OBVIOUS
  <2>1. n + 1 \in 1 .. Len(bytes) /\ (n + 1) - 1 = n /\ Sums(bytes)[n] \in Int /\ bytes[n + 1] \in Int
    BY <1>2
  <2>2. Sums(bytes)[n + 1] = Sums(bytes)[n] + bytes[n + 1]
    BY <2>1, SumsExist
  <2> QED
    BY <2>1, <2>2
<1>3. Nat \subseteq T
  <2> HIDE DEF T
  <2> QED
    BY <1>1, <1>2, Inductive
<1> QED
  BY <1>3 DEF Total

\* A sum of bytes is small, and not less than the first of them.
LEMMA SumsAreBounded ==
    ASSUME NEW bytes \in Seq(Byte)
    PROVE  /\ Total(bytes) \in 0 .. 255 * Len(bytes)
           /\ Len(bytes) > 0 => Total(bytes) >= bytes[1]
<1> DEFINE T == {n \in Nat : n <= Len(bytes) =>
                     Sums(bytes)[n] \in 0 .. 255 * n /\ (n > 0 => Sums(bytes)[n] >= bytes[1])}
<1>0. bytes \in Seq(Int) /\ \A j \in 1 .. Len(bytes) : bytes[j] \in 0 .. 255
  <2>1. Byte \subseteq Int
    BY DEF Byte
  <2>2. \A j \in 1 .. Len(bytes) : bytes[j] \in Byte
    BY ElementOfSeq
  <2> QED
    BY <2>1, <2>2, SeqMonotonic DEF Byte
<1>1. 0 \in T
  BY <1>0, SumsExist
<1>2. ASSUME NEW n \in Nat, n \in T PROVE n + 1 \in T
  <2> SUFFICES ASSUME n + 1 <= Len(bytes)
               PROVE  Sums(bytes)[n + 1] \in 0 .. 255 * (n + 1) /\ Sums(bytes)[n + 1] >= bytes[1]
    OBVIOUS
  <2>1. n + 1 \in 1 .. Len(bytes) /\ (n + 1) - 1 = n /\ bytes[n + 1] \in 0 .. 255
    BY <1>0
  <2>2. Sums(bytes)[n] \in 0 .. 255 * n /\ (n > 0 => Sums(bytes)[n] >= bytes[1])
    BY <1>2
  <2>3. Sums(bytes)[n + 1] = Sums(bytes)[n] + bytes[n + 1]
    BY <1>0, <2>1, SumsExist
  <2>4. n = 0 => bytes[n + 1] = bytes[1]
    OBVIOUS
  <2>5. bytes[1] \in 0 .. 255
    BY <1>0, <2>1
  <2> DEFINE s == Sums(bytes)[n]
             t == Sums(bytes)[n + 1]
             x == bytes[n + 1]
             y == bytes[1]
  <2>6. /\ s \in 0 .. 255 * n /\ (n > 0 => s >= y)
        /\ x \in 0 .. 255 /\ y \in 0 .. 255 /\ t = s + x /\ (n = 0 => x = y)
    BY <2>1, <2>2, <2>3, <2>4, <2>5
  <2> HIDE DEF s, t, x, y
  <2>7. t \in 0 .. 255 * (n + 1) /\ t >= y
    BY <2>6
  <2> QED
    BY <2>7 DEF t, y
<1>3. Nat \subseteq T
  <2> HIDE DEF T
  <2> QED
    BY <1>1, <1>2, Inductive
<1> QED
  BY <1>3 DEF Total

LEMMA SumsDiffer ==
    ASSUME NEW a \in Seq(Int), NEW b \in Seq(Int), Len(a) = Len(b), NEW i \in 1 .. Len(a),
           \A j \in 1 .. Len(a) : j # i => a[j] = b[j]
    PROVE  Total(a) - Total(b) = a[i] - b[i]
<1> DEFINE T == {n \in Nat : n <= Len(a) =>
                     Sums(a)[n] - Sums(b)[n] = IF n < i THEN 0 ELSE a[i] - b[i]}
<1>1. 0 \in T
  BY SumsExist
<1>2. ASSUME NEW n \in Nat, n \in T PROVE n + 1 \in T
  <2> SUFFICES ASSUME n + 1 <= Len(a)
               PROVE  Sums(a)[n + 1] - Sums(b)[n + 1] = IF n + 1 < i THEN 0 ELSE a[i] - b[i]
    OBVIOUS
  <2>1. n + 1 \in 1 .. Len(a) /\ (n + 1) - 1 = n /\ a[n + 1] \in Int /\ b[n + 1] \in Int
    OBVIOUS
  <2>2. Sums(a)[n] - Sums(b)[n] = IF n < i THEN 0 ELSE a[i] - b[i]
    BY <1>2
  <2>3. Sums(a)[n + 1] = Sums(a)[n] + a[n + 1] /\ Sums(b)[n + 1] = Sums(b)[n] + b[n + 1]
    BY <2>1, SumsExist
  <2>4. Sums(a)[n] \in Int /\ Sums(b)[n] \in Int
    BY SumsAreIntegers
  <2>5. n + 1 # i => a[n + 1] = b[n + 1]
    BY <2>1
  <2>6. a[i] \in Int /\ b[i] \in Int /\ i \in Int
    OBVIOUS
  <2>7. CASE n + 1 = i
    BY <2>1, <2>2, <2>3, <2>4, <2>6, <2>7
  <2>8. CASE n + 1 # i
    <3>1. n + 1 < i <=> n < i
      BY <2>6, <2>8
    <3> QED
      BY <2>1, <2>2, <2>3, <2>4, <2>5, <2>6, <2>8, <3>1
  <2> QED
    BY <2>7, <2>8
<1>3. Nat \subseteq T
  <2> HIDE DEF T
  <2> QED
    BY <1>1, <1>2, Inductive
<1>4. Len(a) \in Nat /\ i \in Int /\ i <= Len(a)
  OBVIOUS
<1> QED
  BY <1>3, <1>4 DEF Total

LEMMA SumsJoin ==
    ASSUME NEW a \in Seq(Int), NEW b \in Seq(Int)
    PROVE  Total(a \o b) = Total(a) + Total(b)
<1> DEFINE c == a \o b
           S == {n \in Nat : n <= Len(a) => Sums(c)[n] = Sums(a)[n]}
           T == {n \in Nat : n <= Len(b) => Sums(c)[Len(a) + n] = Total(a) + Sums(b)[n]}
<1>0. /\ c \in Seq(Int) /\ Len(c) = Len(a) + Len(b)
      /\ \A n \in 1 .. Len(a) : c[n] = a[n]
      /\ \A n \in 1 .. Len(b) : c[Len(a) + n] = b[n]
  OBVIOUS
<1> HIDE DEF c
<1>1. 0 \in S
  BY <1>0, SumsExist
<1>2. ASSUME NEW n \in Nat, n \in S PROVE n + 1 \in S
  <2> SUFFICES ASSUME n + 1 <= Len(a) PROVE Sums(c)[n + 1] = Sums(a)[n + 1]
    OBVIOUS
  <2>1. n + 1 \in 1 .. Len(a) /\ n + 1 \in 1 .. Len(c) /\ (n + 1) - 1 = n
    BY <1>0
  <2>2. Sums(c)[n + 1] = Sums(c)[n] + c[n + 1] /\ Sums(a)[n + 1] = Sums(a)[n] + a[n + 1]
    BY <1>0, <2>1, SumsExist
  <2> QED
    BY <1>0, <1>2, <2>1, <2>2
<1>3. Nat \subseteq S
  <2> HIDE DEF S
  <2> QED
    BY <1>1, <1>2, Inductive
<1>4. Sums(c)[Len(a)] = Total(a)
  BY <1>3 DEF Total
<1>5. 0 \in T
  <2>1. Sums(b)[0] = 0 /\ Total(a) \in Int
    BY SumsExist, SumsAreIntegers
  <2> QED
    BY <1>4, <2>1
<1>6. ASSUME NEW n \in Nat, n \in T PROVE n + 1 \in T
  <2> SUFFICES ASSUME n + 1 <= Len(b)
               PROVE  Sums(c)[Len(a) + (n + 1)] = Total(a) + Sums(b)[n + 1]
    OBVIOUS
  <2>1. /\ n + 1 \in 1 .. Len(b) /\ (n + 1) - 1 = n
        /\ Len(a) + (n + 1) \in 1 .. Len(c) /\ (Len(a) + (n + 1)) - 1 = Len(a) + n
    BY <1>0
  <2>2. Sums(c)[Len(a) + (n + 1)] = Sums(c)[Len(a) + n] + c[Len(a) + (n + 1)]
    BY <1>0, <2>1, SumsExist
  <2>3. Sums(b)[n + 1] = Sums(b)[n] + b[n + 1]
    BY <2>1, SumsExist
  <2>4. Sums(c)[Len(a) + n] = Total(a) + Sums(b)[n]
    BY <1>6
  <2>5. Total(a) \in Int /\ Sums(b)[n] \in Int /\ b[n + 1] \in Int /\ c[Len(a) + (n + 1)] = b[n + 1]
    BY <1>0, <2>1, SumsAreIntegers
  <2> QED
    BY <2>2, <2>3, <2>4, <2>5
<1>7. Nat \subseteq T
  <2> HIDE DEF T
  <2> QED
    BY <1>5, <1>6, Inductive
<1>8. Sums(c)[Len(a) + Len(b)] = Total(a) + Sums(b)[Len(b)]
  BY <1>7
<1> QED
  BY <1>0, <1>8 DEF Total, c

-------------------------------------------------------------------------------
(* The checksum                                                               *)

LEMMA ByteRange == ASSUME NEW b PROVE b \in Byte <=> b \in Int /\ 0 <= b /\ b <= 255
BY DEF Byte

MaxWord == 65535

LEMMA HighLow ==
    ASSUME NEW n \in Int
    PROVE  /\ High(n) \in Int /\ Low(n) \in Byte /\ n = 256 * High(n) + Low(n)
           /\ 0 <= n => 0 <= High(n)
           /\ 0 <= n /\ n <= MaxWord => High(n) \in Byte
<1> DEFINE h == High(n)
           l == Low(n)
<1>1. h \in Int /\ l \in Int /\ 0 <= l /\ l <= 255 /\ n = 256 * h + l
  <2>1. h = n \div 256 /\ l = n % 256
    BY DEF High, Low
  <2> HIDE DEF h, l
  <2> QED
    BY <2>1
<1> HIDE DEF h, l
<1>2. (0 <= n => 0 <= h) /\ (0 <= n /\ n <= MaxWord => h <= 255)
  BY <1>1 DEF MaxWord
<1> QED
  BY <1>1, <1>2, ByteRange DEF h, l

LEMMA HighLowNat == ASSUME NEW n \in Nat PROVE High(n) \in Nat /\ Low(n) \in Nat
<1> DEFINE h == High(n)
           l == Low(n)
<1>1. h \in Int /\ l \in Int /\ 0 <= l /\ 0 <= h
  <2>1. h = n \div 256 /\ l = n % 256
    BY DEF High, Low
  <2> HIDE DEF h, l
  <2> QED
    BY <2>1
<1> QED
  BY <1>1

LEMMA JoinedBytes ==
    ASSUME NEW h \in Byte, NEW l \in Byte
    PROVE  High(256 * h + l) = h /\ Low(256 * h + l) = l
<1>1. h \in Int /\ l \in Int /\ 0 <= l /\ l <= 255
  BY ByteRange
<1> QED
  BY <1>1 DEF High, Low

LEMMA SameSum ==
    ASSUME NEW m \in Int, NEW n \in Int, High(m) = High(n), Low(m) = Low(n)
    PROVE  m = n
<1> DEFINE h == High(n)
           l == Low(n)
<1>1. m = 256 * h + l /\ n = 256 * h + l
  BY HighLow
<1> HIDE DEF h, l
<1> QED
  BY <1>1

\* A byte that is changed on its way is another byte.
LEMMA ChangedByte ==
    ASSUME NEW byte \in Nat, NEW d \in Int, 1 <= d, d <= 255
    PROVE  (byte + d) % 256 \in Nat /\ (byte + d) % 256 # byte
OBVIOUS

LEMMA BytesAreNumbers == ASSUME NEW s \in Seq(Byte) PROVE s \in Seq(Nat) /\ s \in Seq(Int)
<1>1. Byte \subseteq Nat /\ Byte \subseteq Int
  BY DEF Byte
<1> QED
  BY <1>1, SeqMonotonic

LEMMA ChecksumIsAdded ==
    ASSUME NEW body \in Seq(Byte)
    PROVE  /\ Total(body) \in Nat
           /\ WithChecksum(body) \in Seq(Nat)
           /\ Len(WithChecksum(body)) = Len(body) + 2
           /\ \A n \in 1 .. Len(body) : WithChecksum(body)[n] = body[n]
           /\ WithChecksum(body)[Len(body) + 1] = High(Total(body))
           /\ WithChecksum(body)[Len(body) + 2] = Low(Total(body))
<1>1. Total(body) \in Nat
  BY SumsAreBounded
<1>2. body \in Seq(Nat)
  BY BytesAreNumbers
<1>3. High(Total(body)) \in Nat /\ Low(Total(body)) \in Nat
  BY <1>1, HighLowNat
<1> DEFINE h == High(Total(body))
           l == Low(Total(body))
<1>4. WithChecksum(body) = body \o <<h, l>>
  BY DEF WithChecksum
<1> HIDE DEF h, l
<1> QED
  BY <1>1, <1>2, <1>3, <1>4 DEF h, l

LEMMA CheckedBytes ==
    ASSUME NEW s \in Seq(Nat), NEW n \in Nat, Len(s) = n + 2
    PROVE  /\ Checked(s) \in Seq(Nat) /\ Len(Checked(s)) = n
           /\ \A j \in 1 .. n : Checked(s)[j] = s[j]
<1>1. Checked(s) = SubSeq(s, 1, n)
  BY DEF Checked
<1>2. \A j \in 1 .. n : s[j] \in Nat
  BY ElementOfSeq
<1>3. /\ SubSeq(s, 1, n) \in Seq(Nat)
      /\ Len(SubSeq(s, 1, n)) = IF 1 <= n THEN n - 1 + 1 ELSE 0
      /\ \A j \in 1 .. n - 1 + 1 : SubSeq(s, 1, n)[j] = s[1 + j - 1]
  BY <1>2, SubSeqProperties
<1>4. n - 1 + 1 = n /\ (IF 1 <= n THEN n - 1 + 1 ELSE 0) = n /\ \A j \in 1 .. n : 1 + j - 1 = j
  OBVIOUS
<1> QED
  BY <1>1, <1>3, <1>4

LEMMA TelegramMatches ==
    ASSUME NEW body \in Seq(Byte)
    PROVE  Checked(WithChecksum(body)) = body /\ ChecksumMatches(WithChecksum(body))
<1> DEFINE s == WithChecksum(body)
<1>1. /\ s \in Seq(Nat) /\ Len(s) = Len(body) + 2
      /\ \A n \in 1 .. Len(body) : s[n] = body[n]
      /\ s[Len(body) + 1] = High(Total(body)) /\ s[Len(body) + 2] = Low(Total(body))
  BY ChecksumIsAdded
<1>2. body \in Seq(Nat)
  BY BytesAreNumbers
<1> HIDE DEF s
<1>3. Checked(s) = body
  <2>1. /\ Len(body) \in Nat
        /\ Checked(s) \in Seq(Nat) /\ Len(Checked(s)) = Len(body)
        /\ \A j \in 1 .. Len(body) : Checked(s)[j] = s[j]
    BY <1>1, CheckedBytes
  <2> QED
    BY <1>1, <1>2, <2>1, SeqEqual
<1>4. Len(s) - 1 = Len(body) + 1
  BY <1>1
<1> QED
  BY <1>1, <1>3, <1>4 DEF s, ChecksumMatches

\* A byte that is changed changes the sum, or is one of the two it is compared with:
\* in a telegram of any length it is found (ps2000.py:59-65,68-77).
THEOREM DamageIsFound ==
    ASSUME NEW body \in Seq(Byte), NEW i \in 1 .. Len(body) + 2, NEW x \in Nat,
           x # WithChecksum(body)[i]
    PROVE  ~ChecksumMatches([WithChecksum(body) EXCEPT ![i] = x])
<1> DEFINE s == WithChecksum(body)
           t == [s EXCEPT ![i] = x]
<1> SUFFICES ~ChecksumMatches(t)
  OBVIOUS
<1>1. /\ Total(body) \in Nat /\ s \in Seq(Nat) /\ Len(s) = Len(body) + 2
      /\ s[Len(body) + 1] = High(Total(body)) /\ s[Len(body) + 2] = Low(Total(body))
  BY ChecksumIsAdded
<1>2. Checked(s) = body
  BY TelegramMatches
<1> HIDE DEF s
<1>3. /\ t \in Seq(Nat) /\ Len(t) = Len(s) /\ t[i] = x
      /\ \A j \in 1 .. Len(s) : j # i => t[j] = s[j]
  BY <1>1, ExceptSeq
<1> HIDE DEF t
<1>4. Len(body) \in Nat /\ Len(t) = Len(body) + 2
  BY <1>1, <1>3
<1>0. /\ Checked(t) \in Seq(Nat) /\ Len(Checked(t)) = Len(body)
      /\ \A j \in 1 .. Len(body) : Checked(t)[j] = t[j]
  BY <1>3, <1>4, CheckedBytes
<1>8. ChecksumMatches(t) => /\ t[Len(body) + 1] = High(Total(Checked(t)))
                            /\ t[Len(body) + 2] = Low(Total(Checked(t)))
  <2>1. Len(t) - 1 = Len(body) + 1
    BY <1>4
  <2> QED
    BY <1>4, <2>1, Zenon DEF ChecksumMatches
<1>5. t[i] # s[i]
  BY <1>3 DEF s
<1>6. CASE i = Len(body) + 1 \/ i = Len(body) + 2
  <2>1. \A j \in 1 .. Len(body) : t[j] = body[j]
    <3>1. \A j \in 1 .. Len(body) : s[j] = body[j]
      BY ChecksumIsAdded DEF s
    <3> QED
      BY <1>1, <1>3, <1>4, <1>6, <3>1
  <2>2. Checked(t) = body
    BY <1>0, <2>1, BytesAreNumbers, SeqEqual
  <2> QED
    BY <1>1, <1>5, <1>6, <1>8, <2>2, Zenon
<1>7. CASE i \in 1 .. Len(body)
  <2>1. t[Len(body) + 1] = s[Len(body) + 1] /\ t[Len(body) + 2] = s[Len(body) + 2]
    <3>1. /\ Len(body) + 1 \in 1 .. Len(s) /\ Len(body) + 2 \in 1 .. Len(s)
          /\ Len(body) + 1 # i /\ Len(body) + 2 # i
      BY <1>1, <1>4, <1>7
    <3> QED
      BY <1>3, <3>1, Zenon
  <2>2. \A j \in 1 .. Len(body) : body[j] = s[j]
    BY ChecksumIsAdded DEF s
  <2>3. Total(Checked(t)) - Total(body) = x - s[i]
    <3>1. Checked(t) \in Seq(Int) /\ body \in Seq(Int)
      BY <1>0, SeqMonotonic, BytesAreNumbers
    <3>2. \A j \in 1 .. Len(body) : j # i => Checked(t)[j] = body[j]
      BY <1>0, <1>1, <1>3, <1>4, <2>2
    <3>3. Checked(t)[i] = x /\ body[i] = s[i]
      BY <1>0, <1>3, <1>7, <2>2
    <3> QED
      BY <1>0, <1>7, <3>1, <3>2, <3>3, SumsDiffer
  <2>4. Total(Checked(t)) \in Int /\ Total(body) \in Int
    BY <1>0, <1>1, SumsAreIntegers, SeqMonotonic
  <2>5. Total(Checked(t)) # Total(body)
    <3> DEFINE y == s[i]
    <3>1. y \in Int /\ x \in Int /\ x # y /\ Total(Checked(t)) - Total(body) = x - y
      BY <1>1, <1>3, <1>5, <2>3
    <3> HIDE DEF y
    <3> QED
      BY <2>4, <3>1
  <2>6. ~(High(Total(Checked(t))) = High(Total(body)) /\ Low(Total(Checked(t))) = Low(Total(body)))
    BY <2>4, <2>5, SameSum
  <2> QED
    BY <1>1, <1>8, <2>1, <2>6, Zenon
<1> QED
  BY <1>1, <1>4, <1>6, <1>7

\* What comes before a telegram adds to its sum.
LEMMA LateIsFound ==
    ASSUME NEW late \in Seq(Byte), Len(late) > 0, late[1] > 0, NEW body \in Seq(Byte)
    PROVE  ~ChecksumMatches(late \o WithChecksum(body))
<1> DEFINE s == WithChecksum(body)
           t == late \o s
           c == late \o body
<1> SUFFICES ~ChecksumMatches(t)
  OBVIOUS
<1>1. /\ s \in Seq(Nat) /\ Len(s) = Len(body) + 2 /\ \A n \in 1 .. Len(body) : s[n] = body[n]
      /\ s[Len(body) + 1] = High(Total(body)) /\ s[Len(body) + 2] = Low(Total(body))
  BY ChecksumIsAdded
<1>2. /\ late \in Seq(Nat) /\ body \in Seq(Nat) /\ late \in Seq(Int) /\ body \in Seq(Int)
      /\ Len(late) \in Nat /\ Len(body) \in Nat
  BY BytesAreNumbers
<1> HIDE DEF s
<1>3. /\ c \in Seq(Nat) /\ Len(c) = Len(late) + Len(body)
      /\ t \in Seq(Nat) /\ Len(t) = Len(c) + 2
  <2>1. /\ c \in Seq(Nat) /\ Len(c) = Len(late) + Len(body)
        /\ t \in Seq(Nat) /\ Len(t) = Len(late) + Len(s)
    BY <1>1, <1>2, ConcatProperties
  <2> HIDE DEF c, t
  <2> QED
    BY <1>1, <1>2, <2>1
<1>4. /\ \A j \in 1 .. Len(c) : t[j] = c[j]
      /\ t[Len(c) + 1] = High(Total(body)) /\ t[Len(c) + 2] = Low(Total(body))
  <2>1. \A j \in 1 .. Len(late) + Len(s) : t[j] = IF j <= Len(late) THEN late[j] ELSE s[j - Len(late)]
    BY <1>1, <1>2, ConcatProperties
  <2>2. \A j \in 1 .. Len(late) + Len(body) : c[j] = IF j <= Len(late) THEN late[j] ELSE body[j - Len(late)]
    BY <1>2, ConcatProperties
  <2> HIDE DEF t, c
  <2>3. ASSUME NEW j \in 1 .. Len(c) PROVE t[j] = c[j]
    <3>1. j \in 1 .. Len(late) + Len(body) /\ j \in 1 .. Len(late) + Len(s)
      BY <1>1, <1>2, <1>3
    <3>2. CASE j <= Len(late)
      BY <2>1, <2>2, <3>1, <3>2
    <3>3. CASE j > Len(late)
      <4>1. j - Len(late) \in 1 .. Len(body) /\ ~(j <= Len(late))
        BY <1>2, <3>1, <3>3
      <4>2. t[j] = s[j - Len(late)] /\ c[j] = body[j - Len(late)]
        BY <2>1, <2>2, <3>1, <4>1
      <4> QED
        BY <1>1, <4>1, <4>2
    <3> QED
      BY <1>2, <3>1, <3>2, <3>3
  <2>4. /\ Len(c) + 1 \in 1 .. Len(late) + Len(s) /\ ~(Len(c) + 1 <= Len(late))
        /\ (Len(c) + 1) - Len(late) = Len(body) + 1
        /\ Len(c) + 2 \in 1 .. Len(late) + Len(s) /\ ~(Len(c) + 2 <= Len(late))
        /\ (Len(c) + 2) - Len(late) = Len(body) + 2
    <3> DEFINE a == Len(late)
               b == Len(body)
    <3>1. /\ a \in Nat /\ b \in Nat /\ Len(c) = a + b /\ Len(s) = b + 2 /\ Len(late) = a
      BY <1>1, <1>2, <1>3
    <3> HIDE DEF a, b
    <3>2. /\ (a + b) + 1 \in 1 .. a + (b + 2) /\ ~((a + b) + 1 <= a) /\ ((a + b) + 1) - a = b + 1
          /\ (a + b) + 2 \in 1 .. a + (b + 2) /\ ~((a + b) + 2 <= a) /\ ((a + b) + 2) - a = b + 2
      BY <3>1
    <3> QED
      BY <3>1, <3>2, Zenon DEF b
  <2>5. t[Len(c) + 1] = s[Len(body) + 1] /\ t[Len(c) + 2] = s[Len(body) + 2]
    BY <2>1, <2>4
  <2> QED
    BY <1>1, <2>3, <2>5
<1>5. Total(c) = Total(late) + Total(body) /\ Total(late) > 0 /\ Total(late) \in Int /\ Total(body) \in Int
  <2>1. Total(c) = Total(late) + Total(body)
    BY <1>2, SumsJoin
  <2>2. Total(late) \in Int /\ Total(body) \in Int
    BY <1>2, SumsAreIntegers
  <2>3. Total(late) >= late[1] /\ late[1] \in Int
    BY SumsAreBounded, <1>2
  <2> HIDE DEF c
  <2> QED
    BY <2>1, <2>2, <2>3
<1> HIDE DEF c, t
<1>6. Checked(t) = c
  <2>1. Len(c) \in Nat
    BY <1>2, <1>3
  <2>2. /\ Checked(t) \in Seq(Nat) /\ Len(Checked(t)) = Len(c)
        /\ \A j \in 1 .. Len(c) : Checked(t)[j] = t[j]
    BY <1>3, <2>1, CheckedBytes
  <2>3. \A j \in 1 .. Len(Checked(t)) : Checked(t)[j] = c[j]
    BY <1>4, <2>2, Zenon
  <2> QED
    BY <1>3, <2>2, <2>3, SeqEqual
<1>7. Total(c) \in Int /\ Total(c) # Total(body)
  BY <1>5
<1>8. ~(High(Total(c)) = High(Total(body)) /\ Low(Total(c)) = Low(Total(body)))
  BY <1>5, <1>7, SameSum
<1>9. ChecksumMatches(t) => t[Len(c) + 1] = High(Total(c)) /\ t[Len(c) + 2] = Low(Total(c))
  <2>1. Len(t) - 1 = Len(c) + 1
    BY <1>2, <1>3
  <2> QED
    BY <1>3, <1>6, <2>1, Zenon DEF ChecksumMatches
<1> QED
  BY <1>4, <1>8, <1>9, Zenon

-------------------------------------------------------------------------------
(* Telegrams                                                                  *)

Types == {QUERY, SEND, ANSWER}
Header(type, object, data) == <<Delimiter(type, data), 0, object>>

LEMMA HeaderBytes ==
    ASSUME NEW type \in Types, NEW object \in Byte, NEW data \in Seq(Byte), Len(data) <= 4
    PROVE  /\ Header(type, object, data) \in Seq(Byte) /\ Len(Header(type, object, data)) = 3
           /\ Header(type, object, data)[1] > 0
<1> DEFINE d == Delimiter(type, data)
<1>1. d \in Int /\ 0 < d /\ d <= 255
  <2> DEFINE k == IF data = <<>> THEN 0 ELSE Len(data) - 1
  <2>1. k \in Int /\ 0 <= k /\ k <= 3
    BY EmptySeq
  <2>2. type \in Int /\ 0 <= type /\ type <= 192
    BY DEF Types, QUERY, SEND, ANSWER
  <2>3. d = 48 + type + k
    BY DEF Delimiter
  <2> HIDE DEF k, d
  <2> QED
    BY <2>1, <2>2, <2>3
<1> HIDE DEF d
<1>2. d \in Byte /\ 0 \in Byte
  BY <1>1, ByteRange
<1>3. Header(type, object, data) = <<d, 0, object>>
  BY DEF Header, d
<1> QED
  BY <1>1, <1>2, <1>3

\* A telegram of four bytes of data at most: what it is made of, that it can be made, and
\* that it is accepted.
LEMMA Telegrams ==
    ASSUME NEW type \in Types, NEW object \in Byte, NEW data \in Seq(Byte), Len(data) <= 4
    PROVE  LET body == Header(type, object, data) \o data
               s == Construct(type, object, data)
           IN  /\ s = WithChecksum(body) /\ body \in Seq(Byte)
               /\ s \in Seq(Byte) /\ Len(s) = Len(data) + 5 /\ s[1] > 0
               /\ \A n \in 1 .. Len(data) : s[3 + n] = data[n]
               /\ Constructible(s) /\ Accepted(s) /\ Binary(s) = data
<1> DEFINE head == Header(type, object, data)
           body == head \o data
           s == Construct(type, object, data)
<1>1. head \in Seq(Byte) /\ Len(head) = 3 /\ head[1] > 0 /\ Len(data) \in Nat
  BY HeaderBytes
<1>2. s = WithChecksum(body)
  BY DEF Construct, Header
<1> HIDE DEF head
<1>3. /\ body \in Seq(Byte) /\ Len(body) = Len(data) + 3 /\ body[1] > 0
      /\ \A n \in 1 .. Len(data) : body[3 + n] = data[n]
  <2>1. /\ body \in Seq(Byte) /\ Len(body) = 3 + Len(data)
        /\ \A n \in 1 .. 3 + Len(data) : body[n] = IF n <= 3 THEN head[n] ELSE data[n - 3]
    <3>1. /\ body \in Seq(Byte) /\ Len(body) = Len(head) + Len(data)
          /\ \A n \in 1 .. Len(head) + Len(data) :
                 body[n] = IF n <= Len(head) THEN head[n] ELSE data[n - Len(head)]
      BY <1>1, ConcatProperties
    <3> QED
      BY <1>1, <3>1, Zenon
  <2> HIDE DEF body
  <2>2. body[1] = head[1]
    BY <1>1, <2>1
  <2>3. ASSUME NEW n \in 1 .. Len(data) PROVE body[3 + n] = data[n]
    <3>1. 3 + n \in 1 .. 3 + Len(data) /\ ~(3 + n <= 3) /\ (3 + n) - 3 = n
      BY <1>1
    <3> QED
      BY <2>1, <3>1
  <2> QED
    BY <1>1, <2>1, <2>2, <2>3
<1> HIDE DEF body
<1>4. /\ Total(body) \in Nat /\ s \in Seq(Nat) /\ Len(s) = Len(data) + 5
      /\ \A n \in 1 .. Len(data) + 3 : s[n] = body[n]
      /\ s[Len(data) + 4] = High(Total(body)) /\ s[Len(data) + 5] = Low(Total(body))
  <2>1. Len(body) + 1 = Len(data) + 4 /\ Len(body) + 2 = Len(data) + 5
    BY <1>1, <1>3
  <2> QED
    BY <1>2, <1>3, <2>1, ChecksumIsAdded
<1>5. High(Total(body)) \in Byte /\ Low(Total(body)) \in Byte
  <2> DEFINE n == Total(body)
  <2>1. n \in 0 .. 255 * Len(body)
    BY <1>3, SumsAreBounded
  <2> HIDE DEF n
  <2>2. n \in Int /\ 0 <= n /\ n <= MaxWord
    BY <1>1, <1>3, <2>1 DEF MaxWord
  <2> QED
    BY <2>2, HighLow DEF n
<1> HIDE DEF s
<1>6. \A n \in 1 .. Len(s) : s[n] \in Byte
  <2> TAKE n \in 1 .. Len(s)
  <2>1. CASE n <= Len(data) + 3
    <3>1. n \in 1 .. Len(data) + 3 /\ n \in 1 .. Len(body)
      BY <1>1, <1>3, <1>4, <2>1
    <3> QED
      BY <1>3, <1>4, <3>1, ElementOfSeq
  <2>2. CASE n = Len(data) + 4 \/ n = Len(data) + 5
    BY <1>4, <1>5, <2>2
  <2> QED
    BY <1>1, <1>4, <2>1, <2>2
<1>7. s \in Seq(Byte) /\ Constructible(s)
  BY <1>4, <1>6 DEF Constructible
<1>8. \A n \in 1 .. Len(data) : s[3 + n] = data[n]
  <2>1. \A n \in 1 .. Len(data) : 3 + n \in 1 .. Len(data) + 3
    BY <1>1
  <2> QED
    BY <1>3, <1>4, <2>1, Zenon
<1>9. Accepted(s)
  BY <1>1, <1>2, <1>3, <1>4, TelegramMatches DEF Accepted
<1>10. Binary(s) = data
  <2>1. Binary(s) = SubSeq(s, 4, Len(data) + 3)
    BY <1>1, <1>4 DEF Binary
  <2>2. \A i \in 4 .. Len(data) + 3 : s[i] \in Byte
    BY <1>1, <1>4, <1>6
  <2>3. /\ SubSeq(s, 4, Len(data) + 3) \in Seq(Byte)
        /\ Len(SubSeq(s, 4, Len(data) + 3)) = IF 4 <= Len(data) + 3 THEN Len(data) + 3 - 4 + 1 ELSE 0
        /\ \A i \in 1 .. Len(data) + 3 - 4 + 1 : SubSeq(s, 4, Len(data) + 3)[i] = s[4 + i - 1]
    BY <1>1, <2>2, SubSeqProperties
  <2>4. /\ Len(Binary(s)) = Len(data) /\ Binary(s) \in Seq(Byte)
        /\ \A i \in 1 .. Len(data) : Binary(s)[i] = s[3 + i]
    <3>1. /\ Len(data) + 3 - 4 + 1 = Len(data)
          /\ (IF 4 <= Len(data) + 3 THEN Len(data) + 3 - 4 + 1 ELSE 0) = Len(data)
          /\ \A i \in 1 .. Len(data) : 4 + i - 1 = 3 + i
      BY <1>1
    <3> QED
      BY <2>1, <2>3, <3>1
  <2> QED
    BY <1>8, <2>4, SeqEqual
<1>11. s[1] > 0
  <2>1. s[1] = body[1]
    BY <1>1, <1>4
  <2> QED
    BY <1>3, <2>1
<1> QED
  BY <1>2, <1>3, <1>4, <1>7, <1>8, <1>9, <1>10, <1>11 DEF body, head, s

-------------------------------------------------------------------------------
(* The scale                                                                  *)

LEMMA RoundedIsNear ==
    ASSUME NEW a \in Int, NEW b \in Int, b > 0
    PROVE  /\ Rounded(a, b) \in Int
           /\ -b <= 2 * (b * Rounded(a, b) - a) /\ 2 * (b * Rounded(a, b) - a) <= b
<1> DEFINE q == a \div b
           r == a % b
           w == Rounded(a, b)
<1>1. q \in Int /\ r \in Int /\ 0 <= r /\ r < b /\ a = b * q + r
  <2> HIDE DEF q, r
  <2>1. q = a \div b /\ r = a % b
    BY DEF q, r
  <2> QED
    BY <2>1
<1>2. \/ w = q /\ 2 * r <= b
      \/ w = q + 1 /\ 2 * r >= b
  <2>1. w = IF 2 * r < b \/ (2 * r = b /\ q % 2 = 0) THEN q ELSE q + 1
    BY DEF Rounded
  <2> HIDE DEF q, r, w
  <2> QED
    BY <1>1, <2>1
<1> HIDE DEF q, r, w
<1>3. w \in Int /\ -b <= 2 * (b * w - a) /\ 2 * (b * w - a) <= b
  <2> DEFINE p == b * q
  <2>1. p \in Int /\ a = p + r /\ b * (q + 1) = p + b
    BY <1>1
  <2>2. b * w = p \/ b * w = p + b
    BY <1>2, <2>1
  <2>3. CASE w = q /\ 2 * r <= b
    <3>1. b * w = p
      BY <2>3
    <3> HIDE DEF p
    <3> QED
      BY <1>1, <2>1, <2>3, <3>1
  <2>4. CASE w = q + 1 /\ 2 * r >= b
    <3>1. b * w = p + b
      BY <2>1, <2>4
    <3> HIDE DEF p
    <3> QED
      BY <1>1, <2>1, <2>4, <3>1
  <2> QED
    BY <1>2, <2>3, <2>4
<1> QED
  BY <1>3 DEF w

\* What a setting becomes is within half a step of it.
LEMMA WordIsNear ==
    ASSUME NEW t \in Int, NEW n \in Int, n > 0
    PROVE  /\ Word(t, n) \in Int
           /\ -(10 * n) <= 2 * (10 * n * Word(t, n) - FullScale * t)
           /\ 2 * (10 * n * Word(t, n) - FullScale * t) <= 10 * n
<1>1. FullScale * t \in Int /\ 10 * n \in Int /\ 10 * n > 0
  BY DEF FullScale
<1> QED
  BY <1>1, RoundedIsNear DEF Word

LEMMA WordReadsBack ==
    ASSUME NEW t \in Int, NEW n \in Int, n > 0
    PROVE  Reads(Word(t, n), n, t)
<1> DEFINE e == 2 * (10 * n * Word(t, n) - FullScale * t)
<1>1. e \in Int /\ -(10 * n) <= e /\ e <= 10 * n
  <2>1. -(10 * n) <= e /\ e <= 10 * n /\ Word(t, n) \in Int
    BY WordIsNear
  <2>2. e \in Int
    BY <2>1 DEF FullScale
  <2> QED
    BY <2>1, <2>2
<1> HIDE DEF e
<1>2. e \in -(10 * n) .. 10 * n
  BY <1>1
<1> QED
  BY <1>2 DEF e, Reads

\* A setting within the nominal value is within the scale.
LEMMA WordFits ==
    ASSUME NEW t \in Int, NEW n \in Int, n > 0, 0 <= t, t <= 10 * n
    PROVE  0 <= Word(t, n) /\ Word(t, n) <= FullScale
<1> DEFINE w == Word(t, n)
           p == n * w
<1>1. w \in Int /\ p \in Int /\ -(10 * n) <= 20 * p - 51200 * t /\ 20 * p - 51200 * t <= 10 * n
  <2>1. w \in Int /\ -(10 * n) <= 2 * (10 * n * w - 25600 * t) /\ 2 * (10 * n * w - 25600 * t) <= 10 * n
    BY WordIsNear DEF FullScale
  <2> HIDE DEF w
  <2> QED
    BY <2>1
<1> HIDE DEF w
<1>2. ASSUME w < 0 PROVE FALSE
  <2>1. p <= -n
    BY <1>1, <1>2
  <2> HIDE DEF p
  <2> QED
    BY <1>1, <2>1
<1>3. ASSUME w > 25600 PROVE FALSE
  <2>1. p >= n * 25601
    BY <1>1, <1>3
  <2> HIDE DEF p
  <2> QED
    BY <1>1, <2>1
<1> QED
  BY <1>1, <1>2, <1>3 DEF w, FullScale

\* Scaled by the larger of two nominal values, a setting is read by the smaller one as
\* no more than it was.
LEMMA WordErrsLow ==
    ASSUME NEW t \in Int, NEW u \in Int, NEW i \in Int, 0 < i, i <= u, u <= 255, 0 <= Word(t, u)
    PROVE  2 * (10 * i * Word(t, u) - FullScale * t) <= 10 * i
<1> DEFINE w == Word(t, u)
           e == u * w
           x == i * w
<1>1. w \in Int /\ 0 <= w /\ 20 * e - 51200 * t <= 10 * u /\ e \in Int /\ x \in Int
  <2>1. w \in Int /\ 2 * (10 * u * w - 25600 * t) <= 10 * u
    BY WordIsNear DEF FullScale
  <2> HIDE DEF w
  <2> QED
    BY <2>1 DEF w
<1> HIDE DEF w
<1>2. 0 <= e
  BY <1>1
<1>3. 0 <= t
  <2> HIDE DEF e
  <2> QED
    BY <1>1, <1>2
<1>4. i * e = u * x
  BY <1>1
<1>5. i * (20 * e) <= i * (51200 * t + 10 * u)
  <2> HIDE DEF e
  <2>1. 20 * e <= 51200 * t + 10 * u
    BY <1>1
  <2> QED
    BY <1>1, <2>1
<1>6. i * t <= u * t
  BY <1>3
<1>7. u * (20 * x) <= u * (51200 * t + 10 * i)
  <2> DEFINE ie == i * e
             ux == u * x
             it == i * t
             ut == u * t
             ui == u * i
  <2> HIDE DEF e, x
  <2>1. /\ i * (20 * e) = 20 * ie /\ u * (20 * x) = 20 * ux
        /\ i * (51200 * t + 10 * u) = 51200 * it + 10 * ui
        /\ u * (51200 * t + 10 * i) = 51200 * ut + 10 * ui
        /\ ie \in Int /\ ux \in Int /\ it \in Int /\ ut \in Int /\ ui \in Int /\ ie = ux /\ it <= ut
    BY <1>1, <1>4, <1>6
  <2> HIDE DEF ie, ux, it, ut, ui
  <2> QED
    BY <1>5, <2>1
<1>8. 20 * x <= 51200 * t + 10 * i
  <2> DEFINE a == 20 * x
             b == 51200 * t + 10 * i
  <2>1. a \in Int /\ b \in Int /\ u * a <= u * b
    BY <1>1, <1>7
  <2> HIDE DEF a, b
  <2>2. ASSUME b < a PROVE FALSE
    <3>1. u * b < u * a
      BY <2>1, <2>2
    <3> QED
      BY <2>1, <3>1
  <2>3. a <= b
    BY <2>1, <2>2
  <2> QED
    BY <2>3 DEF a, b
<1>9. 10 * i * w = 10 * x
  BY <1>1
<1> HIDE DEF x
<1>10. 2 * (10 * i * w - 25600 * t) <= 10 * i
  BY <1>1, <1>8, <1>9
<1> QED
  BY <1>10 DEF w, FullScale

-------------------------------------------------------------------------------
(* The invariants                                                            *)

Early == {"validate"} \cup Opening
Later == Initialising \cup {"monitor", "ready", "release", "used"}

DriverTypeOK ==
    /\ pc \in Early \cup Later \cup {"raised"}
    /\ config \in [update : BOOLEAN, state : BOOLEAN, given : BOOLEAN]
    /\ portOpen \in BOOLEAN /\ remote \in BOOLEAN /\ output \in BOOLEAN
    /\ nominal \in Nominals /\ faults \in Nat
    /\ words \in [Words -> Nat] /\ \A o \in Words : words[o] <= MaxWord
    /\ DOMAIN asked = Words

\* What the supply says of itself is known before anything is set.
KnownInv ==
    /\ pc \in Early => \A o \in Words : asked[o] = <<>>
    /\ pc \in Later \cup {"i_nom"} => uNom = nominal[1]
    /\ pc \in Later => iNom = nominal[2]

\* The supply holds what it was asked to, on the scale of the supply.
AskedInv ==
    \A o \in Words : asked[o] # <<>> =>
        /\ uNom = nominal[1] /\ iNom = nominal[2]
        /\ asked[o][1] \in Int /\ words[o] = Word(asked[o][1], ScaleOfSet(o))

\* The last call heard what the supply holds.
LastInv ==
    /\ DamageIsSeen
    /\ last.kind = "integer" /\ last.how = "own" =>
           last.object \in Words /\ last.result = words[last.object]

DriverInv == DriverTypeOK /\ KnownInv /\ AskedInv /\ LastInv

\* The port is open until shutdown is over, and a release comes after a telegram that
\* failed, if one was sent in vain.
OpenInv == pc \in Opening \cup Initialising \cup {"monitor", "ready", "release"} => portOpen

FailInv ==
    /\ pc = "release" /\ failedAt \in Initialising => faults >= 1
    /\ pc = "raised" => FailedInitReleases
    /\ pc \notin {"release", "raised", "used"} => failedAt = None

\* Without a failure the steps of init_device have been obeyed one by one.
ObeyedInv ==
    faults = 0 =>
        /\ pc \in {"state", "voltage", "current", "output"} => remote
        /\ pc \in {"current", "output"} => words[VOLTAGE] = Word(InitialSettings.voltage, uNom)
        /\ pc = "output" => words[CURRENT] = Word(InitialSettings.current, iNom)

-------------------------------------------------------------------------------
(* Calls and their answers                                                    *)

IsFloat(call) ==
    call.kind = "float" /\ call.object \in {NominalVoltage, NominalCurrent} /\ call.data = <<>>
IsInteger(call) == call.kind = "integer" /\ call.object \in Words /\ call.data = <<>>
IsControl(call) == call.kind = "control" /\ call.object = CONTROL /\ call.data = <<>>
IsSetControl(call) ==
    /\ call.kind = "set control" /\ call.object = CONTROL
    /\ \E mask \in {1, 16}, bits \in {0, 1, 16} : call.data = <<mask, bits>>
IsSetInteger(call) ==
    /\ call.kind = "set integer" /\ call.object \in Words /\ call.value \in Int
    /\ Word(call.value, ScaleOfSet(call.object)) \in Int
    /\ call.data = Split(Word(call.value, ScaleOfSet(call.object)))

IsCall(call) ==
    IsFloat(call) \/ IsInteger(call) \/ IsControl(call) \/ IsSetControl(call) \/ IsSetInteger(call)

AnswerObject(call) ==
    IF call.kind \in {"float", "integer", "control"} THEN call.object ELSE Acknowledged

AnswerData(call) ==
    CASE call.kind = "float" -> <<nominal[IF call.object = NominalVoltage THEN 1 ELSE 2], 0, 0, 0>>
      [] call.kind = "integer" -> Split(words[call.object])
      [] call.kind = "control" -> <<Bit(remote), Bit(output)>>
      [] OTHER -> <<0>>

LEMMA AnswerIs ==
    ASSUME NEW call, IsCall(call)
    PROVE  Answer(call) = Construct(ANSWER, AnswerObject(call), AnswerData(call))
BY DEF IsCall, IsFloat, IsInteger, IsControl, IsSetControl, IsSetInteger, Answer, AnswerObject,
       AnswerData, Data, Verdict

LEMMA NominalBytes ==
    ASSUME nominal \in Nominals
    PROVE  /\ nominal[1] \in Int /\ 0 < nominal[1] /\ nominal[1] <= 255
           /\ nominal[2] \in Int /\ 0 < nominal[2] /\ nominal[2] <= 255
BY DriverAssumption DEF DriverAssumption

LEMMA AnswerBytes ==
    ASSUME DriverTypeOK, NEW call, IsCall(call)
    PROVE  /\ AnswerObject(call) \in Byte
           /\ AnswerData(call) \in Seq(Byte) /\ Len(AnswerData(call)) <= 4
<1>1. AnswerObject(call) \in Byte
  <2>1. NominalVoltage \in Byte /\ NominalCurrent \in Byte /\ CONTROL \in Byte /\ Acknowledged \in Byte
    BY DEF Byte, CONTROL, NominalVoltage, NominalCurrent, Acknowledged
  <2>2. \A o \in Words : o \in Byte
    BY DEF Words, Byte, OVP, OCP, VOLTAGE, CURRENT
  <2> QED
    BY <2>1, <2>2 DEF IsCall, IsFloat, IsInteger, IsControl, IsSetControl, IsSetInteger, AnswerObject
<1>2. 0 \in Byte /\ \A b \in BOOLEAN : Bit(b) \in Byte
  BY DEF Byte, Bit
<1>3. CASE IsFloat(call)
  <2> DEFINE n == nominal[IF call.object = NominalVoltage THEN 1 ELSE 2]
  <2>1. n \in Byte
    BY NominalBytes, ByteRange DEF DriverTypeOK
  <2>2. AnswerData(call) = <<n, 0, 0, 0>>
    BY <1>3 DEF IsFloat, AnswerData
  <2> HIDE DEF n
  <2> QED
    BY <1>1, <1>2, <2>1, <2>2
<1>4. CASE IsInteger(call)
  <2> DEFINE w == words[call.object]
  <2>1. w \in Int /\ 0 <= w /\ w <= MaxWord
    BY <1>4 DEF IsInteger, DriverTypeOK
  <2>2. High(w) \in Byte /\ Low(w) \in Byte
    BY <2>1, HighLow
  <2>3. AnswerData(call) = <<High(w), Low(w)>>
    BY <1>4 DEF IsInteger, AnswerData, Split
  <2> HIDE DEF w
  <2> QED
    BY <1>1, <2>2, <2>3
<1>5. CASE IsControl(call)
  <2>1. AnswerData(call) = <<Bit(remote), Bit(output)>>
    BY <1>5 DEF IsControl, AnswerData
  <2> QED
    BY <1>1, <1>2, <2>1 DEF DriverTypeOK
<1>6. CASE IsSetControl(call) \/ IsSetInteger(call)
  <2>1. AnswerData(call) = <<0>>
    BY <1>6 DEF IsSetControl, IsSetInteger, AnswerData
  <2> QED
    BY <1>1, <1>2, <2>1
<1> QED
  BY <1>3, <1>4, <1>5, <1>6 DEF IsCall

\* The answer to a call is accepted, and is what it is to the functions of the driver.
LEMMA OwnAnswer ==
    ASSUME DriverTypeOK, NEW call, IsCall(call)
    PROVE  /\ ~Raises(call, Answer(call))
           /\ call.kind = "float" => Result(call, Answer(call)) = nominal[IF call.object = NominalVoltage THEN 1 ELSE 2]
           /\ call.kind = "integer" => Result(call, Answer(call)) = words[call.object]
<1> DEFINE s == Answer(call)
           data == AnswerData(call)
<1>1. /\ data \in Seq(Byte) /\ Len(data) <= 4 /\ Accepted(s) /\ Binary(s) = data
      /\ \A n \in 1 .. Len(data) : s[3 + n] = data[n]
  <2>1. ANSWER \in Types
    BY DEF Types
  <2> DEFINE o == AnswerObject(call)
             t == Construct(ANSWER, o, data)
  <2>2. s = t /\ o \in Byte /\ data \in Seq(Byte) /\ Len(data) <= 4
    BY AnswerIs, AnswerBytes
  <2> HIDE DEF o, data, s
  <2>3. Accepted(t) /\ Binary(t) = data /\ \A n \in 1 .. Len(data) : t[3 + n] = data[n]
    BY <2>1, <2>2, Telegrams
  <2> QED
    BY <2>2, <2>3
<1> HIDE DEF s
<1>2. CASE IsFloat(call)
  <2>1. data = <<nominal[IF call.object = NominalVoltage THEN 1 ELSE 2], 0, 0, 0>>
    BY <1>2 DEF IsFloat, AnswerData
  <2> HIDE DEF data
  <2> QED
    BY <1>1, <1>2, <2>1 DEF IsFloat, Raises, Result, s
<1>3. CASE IsInteger(call)
  <2> DEFINE w == words[call.object]
  <2>1. data = <<High(w), Low(w)>>
    BY <1>3 DEF IsInteger, AnswerData, Split
  <2>2. w \in Int
    BY <1>3 DEF IsInteger, DriverTypeOK
  <2> HIDE DEF w, data
  <2>3. s[4] = High(w) /\ s[5] = Low(w)
    BY <1>1, <2>1
  <2>4. Integer(s) = w
    BY <2>2, <2>3, HighLow DEF Integer
  <2> QED
    BY <1>1, <1>3, <2>4 DEF IsInteger, Raises, Result, s, w
<1>4. CASE IsControl(call)
  <2>1. data = <<Bit(remote), Bit(output)>>
    BY <1>4 DEF IsControl, AnswerData
  <2> HIDE DEF data
  <2> QED
    BY <1>1, <1>4, <2>1 DEF IsControl, Raises, s
<1>5. CASE IsSetControl(call)
  <2>1. data = <<0>>
    BY <1>5 DEF IsSetControl, AnswerData
  <2> HIDE DEF data
  <2>2. <<0>> # <<>> /\ <<0>> # <<255>>
    OBVIOUS
  <2> QED
    BY <1>1, <1>5, <2>1, <2>2 DEF IsSetControl, Raises, s
<1>6. CASE IsSetInteger(call)
  BY <1>1, <1>6 DEF IsSetInteger, Raises, s
<1> QED
  BY <1>2, <1>3, <1>4, <1>5, <1>6 DEF IsCall

\* A damaged answer raises.
LEMMA DamagedAnswer ==
    ASSUME DriverTypeOK, NEW call, IsCall(call), NEW answer \in Damaged(Answer(call))
    PROVE  Raises(call, answer)
<1> DEFINE body == Header(ANSWER, AnswerObject(call), AnswerData(call)) \o AnswerData(call)
           s == WithChecksum(body)
<1>1. body \in Seq(Byte) /\ Answer(call) = s
  <2>1. ANSWER \in Types
    BY DEF Types
  <2> QED
    BY <2>1, AnswerIs, AnswerBytes, Telegrams
<1>2. PICK i \in 1 .. Len(s), d \in Damage : answer = [s EXCEPT ![i] = (@ + d) % 256]
  BY <1>1 DEF Damaged
<1> HIDE DEF body
<1>3. s \in Seq(Nat) /\ Len(s) = Len(body) + 2
  BY <1>1, ChecksumIsAdded
<1> DEFINE byte == s[i]
           x == (byte + d) % 256
<1>4. byte \in Nat
  BY <1>3, ElementOfSeq
<1>5. d \in Int /\ 1 <= d /\ d <= 255
  BY DriverAssumption DEF DriverAssumption
<1>6. x \in Nat /\ x # byte
  BY <1>4, <1>5, ChangedByte
<1>7. answer = [s EXCEPT ![i] = x]
  BY <1>2
<1>8. i \in 1 .. Len(body) + 2
  BY <1>3
<1> HIDE DEF x
<1>9. ~ChecksumMatches(answer)
  BY <1>1, <1>6, <1>7, <1>8, DamageIsFound
<1> QED
  BY <1>9 DEF Raises, Accepted

LEMMA ShortTelegrams ==
    ASSUME NEW object \in Byte, NEW data \in Seq(Byte), Len(data) = 1 \/ Len(data) = 2
    PROVE  LET s == Construct(ANSWER, object, data)
           IN  s \in Seq(Byte) /\ Len(s) > 0 /\ s[1] > 0
<1> DEFINE s == Construct(ANSWER, object, data)
<1>1. ANSWER \in Types /\ Len(data) <= 4
  <2> HIDE DEF s
  <2>1. CASE Len(data) = 1
    BY <2>1 DEF Types
  <2>2. CASE Len(data) = 2
    BY <2>2 DEF Types
  <2> QED
    BY <2>1, <2>2, Zenon
<1>2. s \in Seq(Byte) /\ Len(s) = Len(data) + 5 /\ s[1] > 0
  BY <1>1, Telegrams
<1> HIDE DEF s
<1>3. Len(s) > 0
  BY <1>2
<1> QED
  BY <1>2, <1>3 DEF s

\* An answer that comes with a late one raises.
LEMMA LateAnswer ==
    ASSUME DriverTypeOK, NEW call, IsCall(call), NEW late \in Late
    PROVE  Raises(call, late \o Answer(call))
<1> DEFINE body == Header(ANSWER, AnswerObject(call), AnswerData(call)) \o AnswerData(call)
<1>1. ANSWER \in Types
  BY DEF Types
<1>2. body \in Seq(Byte) /\ Answer(call) = WithChecksum(body)
  BY <1>1, AnswerIs, AnswerBytes, Telegrams
<1>3. late \in Seq(Byte) /\ Len(late) > 0 /\ late[1] > 0
  <2>1. 0 \in Byte /\ 1 \in Byte /\ Acknowledged \in Byte /\ CONTROL \in Byte /\ VOLTAGE \in Byte
    BY DEF Acknowledged, CONTROL, VOLTAGE, Byte
  <2>2. /\ <<0>> \in Seq(Byte) /\ Len(<<0>>) = 1
        /\ <<1, 1>> \in Seq(Byte) /\ Len(<<1, 1>>) = 2
        /\ <<0, 0>> \in Seq(Byte) /\ Len(<<0, 0>>) = 2
    BY <2>1
  <2>3. CASE late = Verdict(0)
    BY <2>1, <2>2, <2>3, ShortTelegrams DEF Verdict
  <2>4. CASE late = Data(CONTROL, <<1, 1>>)
    BY <2>1, <2>2, <2>4, ShortTelegrams DEF Data
  <2>5. CASE late = Data(VOLTAGE, <<0, 0>>)
    BY <2>1, <2>2, <2>5, ShortTelegrams DEF Data
  <2> QED
    BY <2>3, <2>4, <2>5, Zenon DEF Late
<1> HIDE DEF body
<1>4. ~ChecksumMatches(late \o Answer(call))
  BY <1>2, <1>3, LateIsFound
<1> QED
  BY <1>4 DEF Raises, Accepted

\* A verdict raises in the functions that unpack more than it has.
LEMMA Refusal ==
    ASSUME NEW call, IsCall(call), NEW code \in {9, 15, 48}
    PROVE  Raises(call, Verdict(code)) <=> call.kind \in {"float", "control"}
<1> DEFINE s == Verdict(code)
<1>1. ANSWER \in Types /\ Acknowledged \in Byte /\ code \in Byte /\ <<code>> \in Seq(Byte) /\ Len(<<code>>) <= 4
  BY DEF Types, Byte, Acknowledged
<1>2. Accepted(s) /\ Binary(s) = <<code>>
  BY <1>1, Telegrams DEF Verdict
<1> HIDE DEF s
<1>3. Raises(call, s) <=> call.kind \in {"float", "control"}
  <2>1. Len(<<code>>) # 4 /\ Len(<<code>>) < 2 /\ <<code>> \notin {<<>>, <<255>>}
    OBVIOUS
  <2> DEFINE b == <<code>>
  <2> HIDE DEF b
  <2>2. Accepted(s) /\ Binary(s) = b /\ Len(b) # 4 /\ Len(b) < 2 /\ b \notin {<<>>, <<255>>}
    BY <1>2, <2>1 DEF b
  <2>3. Raises(call, s) <=> call.kind = "float" \/ call.kind = "control"
    BY <2>2, Zenon DEF Raises
  <2> QED
    BY <2>3, Zenon
<1> QED
  BY <1>3 DEF s

\* What a function of the driver sends, if it can be sent, is bytes.
LEMMA SentWords ==
    ASSUME NEW call, IsSetInteger(call), Constructible(Sent(call))
    PROVE  /\ Word(call.value, ScaleOfSet(call.object)) <= MaxWord
           /\ Word(call.value, ScaleOfSet(call.object)) \in Nat
           /\ 256 * call.data[1] + call.data[2] = Word(call.value, ScaleOfSet(call.object))
<1> DEFINE w == Word(call.value, ScaleOfSet(call.object))
           h == High(w)
           l == Low(w)
<1>1. w \in Int /\ call.data = <<h, l>>
  BY DEF IsSetInteger, Split
<1> HIDE DEF w
<1>2. h \in Int /\ l \in Byte /\ w = 256 * h + l
  BY <1>1, HighLow
<1> HIDE DEF h, l
<1>3. l \in Int /\ 0 <= l /\ l <= 255
  BY <1>2, ByteRange
<1>4. h \in Byte
  <2> DEFINE body == Header(SEND, call.object, call.data) \o call.data
             x == High(Total(body))
             y == Low(Total(body))
             d == Delimiter(SEND, call.data)
             o == call.object
  <2>1. Sent(call) = (<<d, 0, o>> \o <<h, l>>) \o <<x, y>>
    <3>1. <<h, l>> # <<>>
      OBVIOUS
    <3> QED
      BY <1>1, <3>1 DEF Sent, Construct, WithChecksum, Header
  <2> HIDE DEF body, x, y, d, o
  <2> DEFINE S == {d, 0, o, h, l, x, y}
             a == <<d, 0, o>>
             b == <<h, l>>
             c == <<x, y>>
  <2>2. /\ a \in Seq(S) /\ b \in Seq(S) /\ c \in Seq(S)
        /\ Len(a) = 3 /\ Len(b) = 2 /\ Len(c) = 2 /\ b[1] = h
    OBVIOUS
  <2> HIDE DEF S, a, b, c
  <2>3. /\ a \o b \in Seq(S) /\ Len(a \o b) = 5 /\ (a \o b)[4] = h
    <3>1. /\ a \o b \in Seq(S) /\ Len(a \o b) = Len(a) + Len(b)
          /\ \A i \in 1 .. Len(a) + Len(b) : (a \o b)[i] = IF i <= Len(a) THEN a[i] ELSE b[i - Len(a)]
      BY <2>2, ConcatProperties
    <3> QED
      BY <2>2, <3>1
  <2>4. Len((a \o b) \o c) = 7 /\ ((a \o b) \o c)[4] = h
    <3> DEFINE e == a \o b
    <3>1. e \in Seq(S) /\ Len(e) = 5 /\ e[4] = h
      BY <2>3
    <3> HIDE DEF e
    <3>2. /\ Len(e \o c) = Len(e) + Len(c)
          /\ \A i \in 1 .. Len(e) + Len(c) : (e \o c)[i] = IF i <= Len(e) THEN e[i] ELSE c[i - Len(e)]
      BY <2>2, <3>1, ConcatProperties
    <3>3. Len(e \o c) = 7 /\ (e \o c)[4] = h
      BY <2>2, <3>1, <3>2
    <3> QED
      BY <3>3 DEF e
  <2>5. Len(Sent(call)) = 7 /\ Sent(call)[4] = h
    BY <2>1, <2>4 DEF a, b, c
  <2>6. 4 \in 1 .. 7
    OBVIOUS
  <2> QED
    BY <2>5, <2>6, Zenon DEF Constructible
<1>5. h \in Int /\ 0 <= h /\ h <= 255
  BY <1>4, ByteRange
<1>6. w <= MaxWord /\ w \in Nat
  BY <1>2, <1>3, <1>5 DEF MaxWord
<1>7. 256 * call.data[1] + call.data[2] = w
  BY <1>1, <1>2
<1> QED
  BY <1>6, <1>7 DEF w

\* Telegrams without a value, and words within the scale, can always be sent.
LEMMA CanBeSent ==
    ASSUME NEW call, IsCall(call),
           IsSetInteger(call) => /\ 0 <= Word(call.value, ScaleOfSet(call.object))
                                 /\ Word(call.value, ScaleOfSet(call.object)) <= MaxWord
    PROVE  Constructible(Sent(call))
<1> DEFINE type == IF call.data = <<>> THEN QUERY ELSE SEND
           data == call.data
           o == call.object
<1>1. type \in Types
  BY DEF Types
<1>2. o \in Byte
  <2>1. NominalVoltage \in Byte /\ NominalCurrent \in Byte /\ CONTROL \in Byte
    BY DEF Byte, CONTROL, NominalVoltage, NominalCurrent
  <2>2. \A w \in Words : w \in Byte
    BY DEF Words, Byte, OVP, OCP, VOLTAGE, CURRENT
  <2>3. o = NominalVoltage \/ o = NominalCurrent \/ o = CONTROL \/ o \in Words
    BY Zenon DEF IsCall, IsFloat, IsInteger, IsControl, IsSetControl, IsSetInteger
  <2> QED
    BY <2>1, <2>2, <2>3, Zenon
<1>3. data \in Seq(Byte) /\ Len(data) <= 4
  <2>1. CASE IsSetInteger(call)
    <3> DEFINE w == Word(call.value, ScaleOfSet(call.object))
    <3>1. w \in Int /\ 0 <= w /\ w <= MaxWord /\ data = <<High(w), Low(w)>>
      BY <2>1, Zenon DEF IsSetInteger, Split
    <3> HIDE DEF w
    <3>2. High(w) \in Byte /\ Low(w) \in Byte
      BY <3>1, HighLow
    <3> HIDE DEF data
    <3> QED
      BY <3>1, <3>2
  <2>2. CASE IsSetControl(call)
    <3>1. PICK mask \in {1, 16}, bits \in {0, 1, 16} : data = <<mask, bits>>
      BY <2>2, Zenon DEF IsSetControl
    <3>2. mask \in Byte /\ bits \in Byte
      BY DEF Byte
    <3> HIDE DEF data
    <3> QED
      BY <3>1, <3>2
  <2>3. CASE data = <<>>
    BY <2>3, EmptySeq
  <2> QED
    BY <2>1, <2>2, <2>3 DEF IsCall, IsFloat, IsInteger, IsControl
<1>4. Sent(call) = Construct(type, o, data)
  BY DEF Sent
<1> HIDE DEF type, data, o
<1>5. Constructible(Construct(type, o, data))
  BY <1>1, <1>2, <1>3, Telegrams
<1> QED
  BY <1>4, <1>5

-------------------------------------------------------------------------------
(* Transfers: what may come of a call                                         *)

Ended(call, how, raised) ==
    /\ last'.kind = call.kind /\ last'.object = call.object /\ last'.how = how
    /\ last'.raised = raised

InVain(call) ==
    /\ ~portOpen \/ ~Constructible(Sent(call))
    /\ Ended(call, "nothing", TRUE)
    /\ UNCHANGED <<words, remote, output, asked, faults>>

Obeyed(call) ==
    /\ portOpen /\ Constructible(Sent(call))
    /\ Executed(call) /\ Asks(call, 0) /\ faults' = faults
    /\ Ended(call, "own", FALSE) /\ last'.result = Result(call, Answer(call))

Refused(call) ==
    /\ \/ faults' = faults + 1
       \/ faults' = faults /\ Denied(call)
       \/ faults' = faults /\ call.kind = "set integer" /\ 256 * call.data[1] + call.data[2] > FullScale
    /\ UNCHANGED <<words, remote, output, asked>>
    /\ IF call.kind \in {"float", "control"} THEN Ended(call, "refusal", TRUE)
       ELSE Ended(call, "refusal", FALSE)

Spoiled(call) ==
    /\ portOpen /\ Constructible(Sent(call))
    /\ Executed(call) /\ Asks(call, 0) /\ faults' = faults + 1
    /\ \E how \in {"nothing", "garbled"} : Ended(call, how, TRUE)

LEMMA TransferEnds ==
    ASSUME DriverTypeOK, NEW call, IsCall(call), Transfer(call)
    PROVE  InVain(call) \/ Obeyed(call) \/ Refused(call) \/ Spoiled(call)
<1>1. CASE NotSent(call)
  BY <1>1 DEF NotSent, InVain, Ended, Raised, supply
<1>2. CASE Answered(call)
  <2>1. PICK verdict \in Verdicts(call) :
           /\ IF verdict = 0 THEN Executed(call) ELSE UNCHANGED supply
           /\ last' = IF verdict = 0 THEN Outcome(call, Answer(call), "own")
                                     ELSE Outcome(call, Verdict(verdict), "refusal")
           /\ Asks(call, verdict)
           /\ faults' = IF verdict = 15 THEN faults + 1 ELSE faults
    BY <1>2 DEF Answered
  <2>2. CASE verdict = 0
    <3>1. Executed(call) /\ Asks(call, 0) /\ faults' = faults /\ last' = Outcome(call, Answer(call), "own")
      BY <2>1, <2>2
    <3>2. ~Raises(call, Answer(call))
      BY OwnAnswer
    <3>3. Ended(call, "own", FALSE) /\ last'.result = Result(call, Answer(call))
      BY <3>1, <3>2 DEF Outcome, Ended
    <3> QED
      BY <1>2, <3>1, <3>3 DEF Answered, Obeyed
  <2>3. CASE verdict # 0
    <3>1. UNCHANGED supply /\ asked' = asked /\ last' = Outcome(call, Verdict(verdict), "refusal")
      BY <2>1, <2>3 DEF Asks
    <3>2. verdict \in {9, 15, 48}
      BY <2>3 DEF Verdicts
    <3>3. Raises(call, Verdict(verdict)) <=> call.kind \in {"float", "control"}
      BY <3>2, Refusal
    <3>4. IF call.kind \in {"float", "control"} THEN Ended(call, "refusal", TRUE)
          ELSE Ended(call, "refusal", FALSE)
      BY <3>1, <3>3 DEF Outcome, Ended
    <3>5. \/ faults' = faults + 1
          \/ faults' = faults /\ Denied(call)
          \/ faults' = faults /\ call.kind = "set integer" /\ 256 * call.data[1] + call.data[2] > FullScale
      BY <2>1, <2>3 DEF Verdicts
    <3> QED
      BY <3>1, <3>4, <3>5 DEF Refused, supply
  <2> QED
    BY <2>2, <2>3
<1>3. CASE Garbled(call)
  <2>1. \E how \in {"nothing", "garbled"} : Ended(call, how, TRUE)
    <3>1. CASE last' = Raised(call)
      BY <3>1 DEF Raised, Ended
    <3>2. ASSUME NEW answer \in Damaged(Answer(call)), last' = Outcome(call, answer, "garbled")
          PROVE  Ended(call, "garbled", TRUE)
      BY <3>2, DamagedAnswer DEF Outcome, Ended
    <3>3. ASSUME NEW late \in Late, last' = Outcome(call, late \o Answer(call), "garbled")
          PROVE  Ended(call, "garbled", TRUE)
      BY <3>3, LateAnswer DEF Outcome, Ended
    <3> QED
      BY <1>3, <3>1, <3>2, <3>3 DEF Garbled
  <2> QED
    BY <1>3, <2>1 DEF Garbled, Spoiled
<1> QED
  BY <1>1, <1>2, <1>3 DEF Transfer

Holds(o, tenths, held) ==
    /\ uNom = nominal[1] /\ iNom = nominal[2]
    /\ tenths \in Int /\ held = Word(tenths, ScaleOfSet(o))

\* What the supply holds and was asked to, after a call.
SupplyKept ==
    /\ remote' \in BOOLEAN /\ output' \in BOOLEAN
    /\ words' \in [Words -> Nat] /\ \A o \in Words : words'[o] <= MaxWord
    /\ DOMAIN asked' = Words
    /\ \A o \in Words : asked'[o] # <<>> => Holds(o, asked'[o][1], words'[o])

LEMMA ExecutedKeeps ==
    ASSUME DriverTypeOK, AskedInv, NEW call, IsCall(call), Constructible(Sent(call)),
           IsSetInteger(call) => uNom = nominal[1] /\ iNom = nominal[2],
           Executed(call), Asks(call, 0)
    PROVE  SupplyKept
<1>1. CASE IsSetInteger(call)
  <2> DEFINE o == call.object
             w == Word(call.value, ScaleOfSet(o))
  <2>1. o \in Words /\ call.value \in Int /\ call.kind = "set integer"
    BY <1>1 DEF IsSetInteger
  <2>2. w <= MaxWord /\ w \in Nat /\ 256 * call.data[1] + call.data[2] = w
    BY <1>1, SentWords
  <2>3. words' = [words EXCEPT ![o] = w] /\ remote' = remote /\ output' = output
    BY <2>1, <2>2, Zenon DEF Executed
  <2>4. asked' = [asked EXCEPT ![o] = <<call.value>>]
    BY <2>1, Zenon DEF Asks
  <2>5. Holds(o, call.value, w)
    BY <1>1, <2>1 DEF Holds
  <2> HIDE DEF w, o
  <2>6. /\ words' \in [Words -> Nat] /\ words'[o] = w
        /\ \A p \in Words : p # o => words'[p] = words[p]
    BY <2>1, <2>2, <2>3 DEF DriverTypeOK
  <2>7. /\ DOMAIN asked' = Words /\ asked'[o] = <<call.value>> /\ asked'[o][1] = call.value
        /\ \A p \in Words : p # o => asked'[p] = asked[p]
    BY <2>1, <2>4 DEF DriverTypeOK
  <2>8. \A p \in Words : words'[p] <= MaxWord
    <3> TAKE p \in Words
    <3>1. CASE p = o
      BY <2>2, <2>6, <3>1, Zenon
    <3>2. CASE p # o
      BY <2>6, <3>2, Zenon DEF DriverTypeOK
    <3> QED
      BY <3>1, <3>2
  <2>9. \A p \in Words : asked'[p] # <<>> => Holds(p, asked'[p][1], words'[p])
    <3> TAKE p \in Words
    <3>1. CASE p = o
      BY <2>5, <2>6, <2>7, <3>1, Zenon
    <3>2. CASE p # o
      BY <2>6, <2>7, <3>2, Zenon DEF AskedInv, Holds
    <3> QED
      BY <3>1, <3>2
  <2>10. remote' \in BOOLEAN /\ output' \in BOOLEAN
    BY <2>3, Zenon DEF DriverTypeOK
  <2> QED
    BY <2>6, <2>7, <2>8, <2>9, <2>10, Zenon DEF SupplyKept
<1>2. CASE ~IsSetInteger(call)
  <2>1. call.kind # "set integer"
    BY <1>2 DEF IsCall, IsFloat, IsInteger, IsControl, IsSetControl
  <2>2. words' = words /\ asked' = asked
    BY <2>1, Zenon DEF Executed, Asks
  <2>3. remote' \in BOOLEAN /\ output' \in BOOLEAN
    <3>1. /\ remote' = remote \/ remote' = (call.data[2] = 16)
          /\ output' = output \/ output' = (call.data[2] = 1)
      BY Zenon DEF Executed
    <3>2. (call.data[2] = 16) \in BOOLEAN /\ (call.data[2] = 1) \in BOOLEAN
      BY Zenon
    <3> QED
      BY <3>1, <3>2, Zenon DEF DriverTypeOK
  <2> QED
    BY <2>2, <2>3, Zenon DEF SupplyKept, DriverTypeOK, AskedInv, Holds
<1> QED
  BY <1>1, <1>2

LEMMA TransferKeeps ==
    ASSUME DriverTypeOK, AskedInv, NEW call, IsCall(call),
           IsSetInteger(call) => uNom = nominal[1] /\ iNom = nominal[2],
           Transfer(call)
    PROVE  SupplyKept /\ LastInv' /\ faults' \in Nat
<1>1. SupplyKept
  <2>1. CASE InVain(call) \/ Refused(call)
    <3>1. UNCHANGED <<words, remote, output, asked>>
      BY <2>1, Zenon DEF InVain, Refused
    <3> QED
      BY <3>1, Zenon DEF SupplyKept, DriverTypeOK, AskedInv, Holds
  <2>2. CASE Obeyed(call) \/ Spoiled(call)
    <3>1. Constructible(Sent(call)) /\ Executed(call) /\ Asks(call, 0)
      BY <2>2, Zenon DEF Obeyed, Spoiled
    <3> QED
      BY <3>1, ExecutedKeeps
  <2> QED
    BY <2>1, <2>2, TransferEnds, Zenon
<1>2. LastInv'
  <2>1. CASE InVain(call) \/ Refused(call) \/ Spoiled(call)
    <3>1. last'.how # "own" /\ (last'.how = "garbled" => last'.raised)
      BY <2>1 DEF InVain, Refused, Spoiled, Ended
    <3> QED
      BY <3>1 DEF LastInv, DamageIsSeen
  <2>2. CASE Obeyed(call)
    <3>1. last'.how = "own" /\ last'.kind = call.kind /\ last'.object = call.object
      BY <2>2 DEF Obeyed, Ended
    <3>2. CASE call.kind = "integer"
      <4>1. call.object \in Words
        BY <3>2 DEF IsCall, IsFloat, IsInteger, IsControl, IsSetControl, IsSetInteger
      <4>2. last'.result = words[call.object]
        BY <2>2, <3>2, OwnAnswer DEF Obeyed
      <4>3. words' = words
        BY <2>2, <3>2 DEF Obeyed, Executed
      <4> QED
        BY <3>1, <4>1, <4>2, <4>3 DEF LastInv, DamageIsSeen
    <3> QED
      BY <3>1, <3>2 DEF LastInv, DamageIsSeen
  <2> QED
    BY <2>1, <2>2, TransferEnds, Zenon
<1>3. faults' \in Nat
  <2>1. faults' = faults \/ faults' = faults + 1
    BY TransferEnds, Zenon DEF InVain, Obeyed, Refused, Spoiled
  <2> QED
    BY <2>1 DEF DriverTypeOK
<1> QED
  BY <1>1, <1>2, <1>3

\* Only the setters of words ask for any.
LEMMA AskedKept ==
    ASSUME DriverTypeOK, NEW call, IsCall(call), ~IsSetInteger(call), Transfer(call)
    PROVE  asked' = asked /\ words' = words
<1>1. call.kind # "set integer"
  BY DEF IsCall, IsFloat, IsInteger, IsControl, IsSetControl
<1>2. Executed(call) => words' = words
  BY <1>1, Zenon DEF Executed
<1>3. Asks(call, 0) => asked' = asked
  BY <1>1, Zenon DEF Asks
<1> QED
  BY <1>2, <1>3, TransferEnds, Zenon DEF InVain, Obeyed, Refused, Spoiled

\* What is heard of a nominal value, if anything, is that value.
LEMMA NominalHeard ==
    ASSUME DriverTypeOK, NEW call, IsFloat(call), Transfer(call), ~last'.raised
    PROVE  last'.result = nominal[IF call.object = NominalVoltage THEN 1 ELSE 2]
<1>1. IsCall(call) /\ call.kind = "float"
  BY DEF IsCall, IsFloat
<1>2. ~InVain(call) /\ ~Refused(call) /\ ~Spoiled(call)
  <2>1. call.kind \in {"float", "control"}
    BY <1>1
  <2>2. \A how : ~Ended(call, how, TRUE)
    BY DEF Ended
  <2> QED
    BY <2>1, <2>2, Zenon DEF InVain, Refused, Spoiled
<1>3. Obeyed(call)
  BY <1>1, <1>2, TransferEnds
<1> QED
  BY <1>1, <1>3, OwnAnswer DEF Obeyed

-------------------------------------------------------------------------------
(* The calls that are made                                                    *)

LEMMA SettingIsCall ==
    ASSUME DriverTypeOK, KnownInv, pc \in Later, NEW o \in Words, NEW tenths \in Int
    PROVE  /\ IsSetInteger(SetInteger(o, tenths)) /\ IsCall(SetInteger(o, tenths))
           /\ uNom = nominal[1] /\ iNom = nominal[2]
<1>1. uNom = nominal[1] /\ iNom = nominal[2]
  BY DEF KnownInv
<1>2. /\ uNom \in Int /\ uNom > 0
      /\ iNom \in Int /\ iNom > 0
  BY <1>1, NominalBytes DEF DriverTypeOK
<1> DEFINE n == ScaleOfSet(o)
           w == Word(tenths, n)
<1>3. n \in Int /\ n > 0
  BY <1>2 DEF ScaleOfSet
<1> HIDE DEF n
<1>4. w \in Int
  BY <1>3, WordIsNear
<1> HIDE DEF w
<1> DEFINE call == SetInteger(o, tenths)
<1>7. call.kind = "set integer" /\ call.object = o /\ call.value = tenths /\ call.data = Split(w)
  <2>1. call.kind = "set integer" /\ call.object = o /\ call.value = tenths
    BY DEF SetInteger
  <2>2. call.data = Split(Word(tenths, ScaleOfSet(o)))
    BY DEF SetInteger
  <2> QED
    BY <2>1, <2>2, Zenon DEF w, n
<1> HIDE DEF call
<1>8. ScaleOfSet(call.object) = n /\ Word(call.value, ScaleOfSet(call.object)) = w
  BY <1>7, Zenon DEF w, n
<1>6. IsSetInteger(call)
  BY <1>4, <1>7, <1>8, Zenon DEF IsSetInteger
<1> QED
  BY <1>1, <1>6, Zenon DEF IsCall, call

LEMMA ControlIsCall ==
    ASSUME NEW on \in BOOLEAN
    PROVE  /\ IsSetControl(SetRemote(on)) /\ IsCall(SetRemote(on))
           /\ IsSetControl(SetOutput(on)) /\ IsCall(SetOutput(on))
           /\ SetRemote(on).data[1] = 16 /\ (SetRemote(on).data[2] = 16 <=> on)
           /\ SetOutput(on).data[1] = 1 /\ (SetOutput(on).data[2] = 1 <=> on)
<1>1. ASSUME NEW mask \in {1, 16}, NEW bits \in {0, 1, 16}
      PROVE  /\ IsSetControl(SetControl(mask, bits)) /\ IsCall(SetControl(mask, bits))
             /\ SetControl(mask, bits).data[1] = mask /\ SetControl(mask, bits).data[2] = bits
  <2> DEFINE call == SetControl(mask, bits)
  <2>1. call.kind = "set control" /\ call.object = CONTROL /\ call.data = <<mask, bits>>
    BY DEF SetControl
  <2> HIDE DEF call
  <2>2. call.data[1] = mask /\ call.data[2] = bits
    <3>1. <<mask, bits>>[1] = mask /\ <<mask, bits>>[2] = bits
      OBVIOUS
    <3> QED
      BY <2>1, <3>1, Zenon
  <2>3. IsSetControl(call)
    BY <2>1, Zenon DEF IsSetControl
  <2> QED
    BY <2>2, <2>3, Zenon DEF IsCall, call
<1>2. /\ SetRemote(on) = SetControl(16, IF on THEN 16 ELSE 0)
      /\ SetOutput(on) = SetControl(1, IF on THEN 1 ELSE 0)
  BY DEF SetRemote, SetOutput
<1>3. (IF on THEN 16 ELSE 0) \in {0, 1, 16} /\ (IF on THEN 1 ELSE 0) \in {0, 1, 16}
  OBVIOUS
<1>4. ((IF on THEN 16 ELSE 0) = 16 <=> on) /\ ((IF on THEN 1 ELSE 0) = 1 <=> on)
  OBVIOUS
<1> QED
  BY <1>1, <1>2, <1>3, <1>4, Zenon

LEMMA QueryIsCall ==
    /\ IsControl(GetControl) /\ IsCall(GetControl)
    /\ \A o \in Words : IsInteger(GetInteger(o)) /\ IsCall(GetInteger(o))
    /\ \A o \in {NominalVoltage, NominalCurrent} :
           IsFloat(GetFloat(o)) /\ IsCall(GetFloat(o)) /\ GetFloat(o).object = o
BY DEF GetControl, GetInteger, GetFloat, Query, IsControl, IsInteger, IsFloat, IsCall

\* The calls of the constructor, and that of shutdown.
LEMMA CallsAt ==
    /\ CallAt("open") = SetRemote(TRUE) /\ CallAt("remote") = SetRemote(TRUE)
    /\ CallAt("u_nom") = GetFloat(NominalVoltage) /\ CallAt("i_nom") = GetFloat(NominalCurrent)
    /\ CallAt("state") = GetControl
    /\ CallAt("voltage") = SetInteger(VOLTAGE, InitialSettings.voltage)
    /\ CallAt("current") = SetInteger(CURRENT, InitialSettings.current)
    /\ CallAt("output") = SetOutput(config.state)
    /\ CallAt("release") = SetRemote(FALSE)
BY DEF CallAt

LEMMA CallIsCall ==
    ASSUME DriverTypeOK, KnownInv, pc \in Opening \cup Initialising \cup {"release"}
    PROVE  /\ IsCall(CallAt(pc))
           /\ IsSetInteger(CallAt(pc)) => pc \in {"voltage", "current"}
           /\ pc \in {"voltage", "current"} => /\ IsSetInteger(CallAt(pc))
                                              /\ uNom = nominal[1] /\ iNom = nominal[2]
<1>1. CASE pc \in {"open", "remote", "output", "release"}
  <2>1. IsCall(CallAt(pc)) /\ IsSetControl(CallAt(pc))
    <3>1. config.state \in BOOLEAN
      BY DEF DriverTypeOK
    <3> QED
      BY <1>1, <3>1, CallsAt, ControlIsCall
  <2> QED
    BY <1>1, <2>1 DEF IsSetControl, IsSetInteger
<1>2. CASE pc \in {"u_nom", "i_nom", "state"}
  <2>1. IsCall(CallAt(pc)) /\ (IsFloat(CallAt(pc)) \/ IsControl(CallAt(pc)))
    BY <1>2, CallsAt, QueryIsCall
  <2> QED
    BY <1>2, <2>1 DEF IsFloat, IsControl, IsSetInteger
<1>3. CASE pc \in {"voltage", "current"}
  <2>1. VOLTAGE \in Words /\ CURRENT \in Words
    BY DEF Words
  <2>2. InitialSettings.voltage \in Int /\ InitialSettings.current \in Int
    BY DriverAssumption DEF DriverAssumption
  <2>3. pc \in Later
    BY <1>3 DEF Later, Initialising
  <2> QED
    BY <1>3, <2>1, <2>2, <2>3, CallsAt, SettingIsCall
<1> QED
  BY <1>1, <1>2, <1>3 DEF Opening, Initialising

-------------------------------------------------------------------------------
(* The invariant of the supply and of what was asked                          *)

LEMMA DriverInvInit == Init => DriverInv
<1> SUFFICES ASSUME Init PROVE DriverInv
  OBVIOUS
<1> USE DEF Init
<1>1. DriverTypeOK
  <2>1. words \in [Words -> Nat] /\ \A o \in Words : words[o] <= MaxWord
    BY DEF MaxWord
  <2> QED
    BY <2>1 DEF DriverTypeOK, Early
<1>2. KnownInv /\ AskedInv
  BY DEF KnownInv, AskedInv, Later, Early, Opening, Initialising
<1>3. LastInv
  BY DEF LastInv, DamageIsSeen, Raised, GetControl, Query
<1> QED
  BY <1>1, <1>2, <1>3 DEF DriverInv

\* The points the constructor goes through.
LEMMA FollowingPoints ==
    ASSUME pc \in Opening \cup Initialising
    PROVE  /\ Following \in {"u_nom", "i_nom"} \cup Initialising \cup {"monitor"}
           /\ Following = "u_nom" <=> pc = "open"
           /\ Following = "i_nom" <=> pc = "u_nom"
           /\ Following = "remote" <=> pc = "i_nom"
           /\ Following = "state" <=> pc = "remote"
           /\ Following = "voltage" => pc = "state"
           /\ Following = "current" <=> pc = "voltage"
           /\ Following = "output" <=> pc = "current"
BY DEF Opening, Initialising, Following, AfterState

\* Nothing that is asked for before the nominal values are known is kept back.
LEMMA AskedKnown ==
    ASSUME SupplyKept, UNCHANGED nominal,
           (uNom' = uNom /\ iNom' = iNom) \/ \A o \in Words : asked'[o] = <<>>
    PROVE  AskedInv'
BY DEF SupplyKept, Holds, AskedInv, ScaleOfSet

LEMMA InitialiseKeeps == DriverInv /\ Initialise => DriverInv'
<1> SUFFICES ASSUME DriverInv, Initialise PROVE DriverInv'
  OBVIOUS
<1> DEFINE call == CallAt(pc)
<1>1. /\ DriverTypeOK /\ KnownInv /\ AskedInv /\ LastInv
      /\ pc \in Opening \cup Initialising /\ Transfer(call)
      /\ UNCHANGED <<config, portOpen, nominal>>
  BY DEF DriverInv, Initialise
<1>2. \/ /\ last'.raised /\ pc' = ShutsDown(pc) /\ UNCHANGED <<uNom, iNom>>
      \/ /\ ~last'.raised /\ pc' = Following
         /\ uNom' = IF pc = "u_nom" THEN last'.result ELSE uNom
         /\ iNom' = IF pc = "i_nom" THEN last'.result ELSE iNom
  BY DEF Initialise
<1>3. /\ IsCall(call) /\ (IsSetInteger(call) => uNom = nominal[1] /\ iNom = nominal[2])
      /\ (IsSetInteger(call) => pc \in {"voltage", "current"})
  BY <1>1, CallIsCall
<1> HIDE DEF call
<1>4. SupplyKept /\ LastInv' /\ faults' \in Nat
  BY <1>1, <1>3, TransferKeeps
<1>5. pc \in Early => asked' = asked
  <2>1. pc \in Early => pc \notin {"voltage", "current"}
    BY DEF Early, Opening
  <2> QED
    BY <1>1, <1>3, <2>1, AskedKept
<1>6. pc \in Early => \A o \in Words : asked'[o] = <<>>
  BY <1>1, <1>5 DEF KnownInv
<1>7. pc' \in {"u_nom", "i_nom"} \cup Initialising \cup {"monitor", "raised", "release"}
  BY <1>1, <1>2, FollowingPoints DEF ShutsDown
<1>8. ~(pc = "u_nom" \/ pc = "i_nom") => UNCHANGED <<uNom, iNom>>
  BY <1>2
<1>9. pc \in {"u_nom", "i_nom"} => pc \in Early
  BY DEF Early, Opening
<1>10. AskedInv'
  BY <1>1, <1>4, <1>6, <1>8, <1>9, AskedKnown
<1>11. DriverTypeOK'
  BY <1>1, <1>4, <1>7 DEF DriverTypeOK, SupplyKept, Early, Later, Opening, Initialising
<1>12. KnownInv'
  <2>1. pc' \in Early => \A o \in Words : asked'[o] = <<>>
    <3>1. pc' \in Early => pc \in Early
      BY <1>1, <1>2, FollowingPoints DEF ShutsDown, Early, Opening, Initialising
    <3> QED
      BY <1>6, <3>1
  <2>2. CASE pc = "u_nom" /\ ~last'.raised
    <3>1. pc' = "i_nom" /\ uNom' = last'.result
      BY <1>1, <1>2, <2>2, FollowingPoints
    <3>2. call = GetFloat(NominalVoltage)
      BY <2>2, CallsAt DEF call
    <3>3. IsFloat(call) /\ call.object = NominalVoltage
      BY <3>2, QueryIsCall
    <3>4. uNom' = nominal[1]
      BY <1>1, <2>2, <3>1, <3>3, NominalHeard
    <3> QED
      BY <1>1, <2>1, <3>1, <3>4 DEF KnownInv, Later, Initialising
  <2>3. CASE pc = "i_nom" /\ ~last'.raised
    <3>1. pc' = "remote" /\ iNom' = last'.result /\ uNom' = uNom
      BY <1>1, <1>2, <2>3, FollowingPoints
    <3>2. call = GetFloat(NominalCurrent)
      BY <2>3, CallsAt DEF call
    <3>3. IsFloat(call) /\ call.object = NominalCurrent /\ NominalCurrent # NominalVoltage
      BY <3>2, QueryIsCall DEF NominalCurrent, NominalVoltage
    <3>4. iNom' = nominal[2]
      BY <1>1, <2>3, <3>1, <3>3, NominalHeard
    <3> QED
      BY <1>1, <2>1, <2>3, <3>1, <3>4 DEF KnownInv
  <2>4. CASE pc \in {"u_nom", "i_nom"} /\ last'.raised
    <3>1. pc' = "raised"
      BY <1>2, <2>4 DEF ShutsDown, Opening
    <3> QED
      BY <2>1, <3>1 DEF KnownInv, Later, Initialising
  <2>5. CASE pc \notin {"u_nom", "i_nom"}
    <3>1. UNCHANGED <<uNom, iNom, nominal>>
      BY <1>1, <1>8, <2>5
    <3>2. pc = "open" => pc' \in {"u_nom", "raised"}
      BY <1>1, <1>2, FollowingPoints DEF ShutsDown, Opening
    <3>3. pc # "open" => pc \in Later /\ pc' # "i_nom"
      BY <1>1, <1>2, <2>5, FollowingPoints DEF ShutsDown, Opening, Later
    <3> QED
      BY <1>1, <2>1, <3>1, <3>2, <3>3 DEF KnownInv, Later, Initialising
  <2> QED
    BY <2>2, <2>3, <2>4, <2>5
<1> QED
  BY <1>4, <1>10, <1>11, <1>12 DEF DriverInv

LEMMA ShutdownKeeps == DriverInv /\ Shutdown => DriverInv'
<1> SUFFICES ASSUME DriverInv, Shutdown PROVE DriverInv'
  OBVIOUS
<1> DEFINE call == SetRemote(FALSE)
<1>1. /\ DriverTypeOK /\ KnownInv /\ AskedInv
      /\ pc = "release" /\ Transfer(call) /\ portOpen' = last'.raised /\ pc' \in {"used", "raised"}
      /\ UNCHANGED <<config, uNom, iNom, nominal>>
  BY CallsAt DEF DriverInv, Shutdown
<1>2. IsCall(call) /\ ~IsSetInteger(call)
  BY ControlIsCall DEF IsSetControl, IsSetInteger
<1> HIDE DEF call
<1>3. SupplyKept /\ LastInv' /\ faults' \in Nat
  BY <1>1, <1>2, TransferKeeps
<1>4. last'.raised \in BOOLEAN
  BY <1>1, <1>2, TransferEnds DEF InVain, Obeyed, Refused, Spoiled, Ended
<1>5. AskedInv'
  BY <1>1, <1>3, AskedKnown
<1>6. DriverTypeOK'
  BY <1>1, <1>3, <1>4 DEF DriverTypeOK, SupplyKept, Later
<1>7. KnownInv'
  BY <1>1 DEF KnownInv, Later, Early, Opening, Initialising
<1> QED
  BY <1>3, <1>5, <1>6, <1>7 DEF DriverInv

LEMMA UseKeeps == DriverInv /\ Use => DriverInv'
<1> SUFFICES ASSUME DriverInv, Use PROVE DriverInv'
  OBVIOUS
<1>1. /\ DriverTypeOK /\ KnownInv /\ AskedInv
      /\ pc \in {"ready", "used"} /\ pc' = pc
      /\ UNCHANGED <<config, uNom, iNom, portOpen, nominal>>
  BY DEF DriverInv, Use, driver
<1>2. pc \in Later
  BY <1>1 DEF Later
<1>3. PICK call : /\ Transfer(call) /\ IsCall(call)
                  /\ IsSetInteger(call) => uNom = nominal[1] /\ iNom = nominal[2]
  <2>1. CASE \E object \in Words, tenths \in Settings : Transfer(SetInteger(object, tenths))
    <3>1. PICK object \in Words, tenths \in Settings : Transfer(SetInteger(object, tenths))
      BY <2>1
    <3>2. tenths \in Int
      BY DriverAssumption DEF DriverAssumption
    <3> QED
      BY <1>1, <1>2, <3>1, <3>2, SettingIsCall
  <2>2. CASE \E object \in Words : Transfer(GetInteger(object))
    BY <2>2, QueryIsCall DEF IsInteger, IsSetInteger
  <2>3. CASE \E on \in BOOLEAN : Transfer(SetOutput(on))
    BY <2>3, ControlIsCall DEF IsSetControl, IsSetInteger
  <2>4. CASE Transfer(GetControl)
    BY <2>4, QueryIsCall DEF IsControl, IsSetInteger
  <2> QED
    BY <2>1, <2>2, <2>3, <2>4, Zenon DEF Use
<1>4. SupplyKept /\ LastInv' /\ faults' \in Nat
  BY <1>1, <1>3, TransferKeeps
<1>5. AskedInv'
  BY <1>1, <1>4, AskedKnown
<1>6. DriverTypeOK'
  BY <1>1, <1>4 DEF DriverTypeOK, SupplyKept
<1>7. KnownInv'
  BY <1>1 DEF KnownInv, Later, Early, Opening, Initialising
<1> QED
  BY <1>4, <1>5, <1>6, <1>7 DEF DriverInv

LEMMA DriverInvNext == DriverInv /\ [Next]_vars => DriverInv'
<1> SUFFICES ASSUME DriverInv, [Next]_vars PROVE DriverInv'
  OBVIOUS
<1>1. ASSUME UNCHANGED <<config, uNom, iNom, nominal, words, remote, output, last, asked, faults>>,
             portOpen' \in BOOLEAN,
             pc' \in Early \cup Later \cup {"raised"},
             pc' \in Early => pc \in Early, pc' \in Later => pc \in Later,
             pc' = "i_nom" => pc = "i_nom"
      PROVE  DriverInv'
  <2>1. DriverTypeOK'
    BY <1>1 DEF DriverInv, DriverTypeOK
  <2>2. KnownInv'
    BY <1>1 DEF DriverInv, KnownInv
  <2>3. AskedInv' /\ LastInv'
    BY <1>1 DEF DriverInv, AskedInv, LastInv, DamageIsSeen, ScaleOfSet
  <2> QED
    BY <2>1, <2>2, <2>3 DEF DriverInv
<1>2. CASE Validate
  <2>1. /\ UNCHANGED <<config, uNom, iNom, nominal, words, remote, output, last, asked, faults>>
        /\ pc = "validate" /\ pc' \in {"open", "raised"} /\ (portOpen' = portOpen \/ portOpen' = TRUE)
    BY <1>2 DEF Validate, supply
  <2> QED
    BY <1>1, <2>1 DEF DriverInv, DriverTypeOK, Early, Later, Opening, Initialising
<1>3. CASE MakeMonitor \/ EndUse
  <2>1. /\ UNCHANGED <<config, uNom, iNom, portOpen, nominal, words, remote, output, last, asked, faults>>
        /\ pc \in {"monitor", "ready"} /\ pc' \in {"ready", "release"}
    BY <1>3 DEF MakeMonitor, EndUse, ShutsDown, Opening, supply, driver
  <2> QED
    BY <1>1, <2>1 DEF DriverInv, DriverTypeOK, Early, Later, Opening, Initialising
<1>4. CASE UNCHANGED vars
  <2>1. UNCHANGED <<config, uNom, iNom, portOpen, nominal, words, remote, output, last, asked, faults, pc>>
    BY <1>4 DEF vars, supply, driver
  <2> QED
    BY <1>1, <2>1 DEF DriverInv, DriverTypeOK
<1> QED
  BY <1>2, <1>3, <1>4, InitialiseKeeps, ShutdownKeeps, UseKeeps DEF Next

LEMMA DriverInvariant == Spec => []DriverInv
<1> QED
  BY DriverInvInit, DriverInvNext, PTL DEF Spec

\* An answer with any one byte changed, or that is read together with a late one, is never
\* returned by _transfer, whatever it answers and whichever byte it is (ps2000.py:68-77).
THEOREM DamageIsAlwaysSeen == Spec => []DamageIsSeen
<1>1. DriverInv => DamageIsSeen
  BY DEF DriverInv, LastInv
<1> QED
  BY <1>1, DriverInvariant, PTL

\* A setting that was obeyed is read back to half a step, for every value and every supply
\* (ps2000.py:242-272).
THEOREM SettingsAlwaysReadBack == Spec => []SettingsReadBack
<1>1. DriverInv => SettingsReadBack
  <2> SUFFICES ASSUME DriverInv, last.kind = "integer", last.how = "own", asked[last.object] # <<>>,
                      last.object # OCP
               PROVE  Reads(last.result, ScaleOfSet(last.object), asked[last.object][1])
    BY DEF SettingsReadBack, ScaleOfSet
  <2> DEFINE o == last.object
  <2>1. o \in Words /\ last.result = words[o]
    BY DEF DriverInv, LastInv
  <2>2. /\ uNom = nominal[1] /\ iNom = nominal[2]
        /\ asked[o][1] \in Int /\ words[o] = Word(asked[o][1], ScaleOfSet(o))
    BY <2>1 DEF DriverInv, AskedInv
  <2>3. ScaleOfSet(o) \in Int /\ ScaleOfSet(o) > 0
    BY <2>2, NominalBytes DEF DriverInv, DriverTypeOK, ScaleOfSet
  <2> QED
    BY <2>1, <2>2, <2>3, WordReadsBack
<1> QED
  BY <1>1, DriverInvariant, PTL

\* The threshold of the current is on the safe side on any supply with no more amperes
\* than volts, whatever it was set to (ps2000.py:250-256).
THEOREM OcpAlwaysErrsLow == Spec => []OcpErrsLow
<1>1. DriverInv => OcpErrsLow
  <2> SUFFICES ASSUME DriverInv, asked[OCP] # <<>>, iNom <= uNom
               PROVE  2 * (10 * iNom * words[OCP] - FullScale * asked[OCP][1]) <= 10 * iNom
    BY DEF OcpErrsLow
  <2>1. OCP \in Words /\ OCP # CURRENT
    BY DEF Words, OCP, CURRENT
  <2>2. /\ uNom = nominal[1] /\ iNom = nominal[2]
        /\ asked[OCP][1] \in Int /\ words[OCP] = Word(asked[OCP][1], uNom)
    BY <2>1 DEF DriverInv, AskedInv, ScaleOfSet
  <2>3. /\ uNom \in Int /\ uNom <= 255
        /\ iNom \in Int /\ 0 < iNom
    BY <2>2, NominalBytes DEF DriverInv, DriverTypeOK
  <2>4. 0 <= words[OCP]
    BY <2>1 DEF DriverInv, DriverTypeOK
  <2> QED
    BY <2>2, <2>3, <2>4, WordErrsLow
<1> QED
  BY <1>1, DriverInvariant, PTL

-------------------------------------------------------------------------------
(* The constructor                                                            *)

\* The initial settings are within the nominal values of the supply.
SettingsFit ==
    \A n \in Nominals : InitialSettings.voltage <= 10 * n[1] /\ InitialSettings.current <= 10 * n[2]

ConstructorInv == OpenInv /\ FailInv /\ ObeyedInv

LEMMA InitialWordsFit ==
    ASSUME DriverInv, SettingsFit, pc \in {"voltage", "current"}
    PROVE  LET call == CallAt(pc)
               w == Word(call.value, ScaleOfSet(call.object))
           IN  0 <= w /\ w <= FullScale
<1>1. DriverTypeOK /\ KnownInv /\ pc \in Later
  BY DEF DriverInv, Later, Initialising
<1>2. uNom = nominal[1] /\ iNom = nominal[2]
  BY <1>1 DEF KnownInv
<1>3. /\ uNom \in Int /\ uNom > 0 /\ InitialSettings.voltage <= 10 * uNom
      /\ iNom \in Int /\ iNom > 0 /\ InitialSettings.current <= 10 * iNom
  BY <1>1, <1>2, NominalBytes DEF DriverTypeOK, SettingsFit
<1>4. /\ InitialSettings.voltage \in Int /\ 0 <= InitialSettings.voltage
      /\ InitialSettings.current \in Int /\ 0 <= InitialSettings.current
  BY DriverAssumption DEF DriverAssumption
<1>5. /\ 0 <= Word(InitialSettings.voltage, uNom) /\ Word(InitialSettings.voltage, uNom) <= FullScale
      /\ 0 <= Word(InitialSettings.current, iNom) /\ Word(InitialSettings.current, iNom) <= FullScale
  BY <1>3, <1>4, WordFits
<1>6. CASE pc = "voltage"
  <2>1. CallAt(pc) = SetInteger(VOLTAGE, InitialSettings.voltage)
    BY <1>6, CallsAt
  <2>2. /\ SetInteger(VOLTAGE, InitialSettings.voltage).value = InitialSettings.voltage
        /\ SetInteger(VOLTAGE, InitialSettings.voltage).object = VOLTAGE
    BY DEF SetInteger
  <2>3. ScaleOfSet(VOLTAGE) = uNom
    BY DEF ScaleOfSet, VOLTAGE, CURRENT
  <2> QED
    BY <1>5, <2>1, <2>2, <2>3, Zenon
<1>7. CASE pc = "current"
  <2>1. CallAt(pc) = SetInteger(CURRENT, InitialSettings.current)
    BY <1>7, CallsAt
  <2>2. /\ SetInteger(CURRENT, InitialSettings.current).value = InitialSettings.current
        /\ SetInteger(CURRENT, InitialSettings.current).object = CURRENT
    BY DEF SetInteger
  <2>3. ScaleOfSet(CURRENT) = iNom
    BY DEF ScaleOfSet, VOLTAGE, CURRENT
  <2> QED
    BY <1>5, <2>1, <2>2, <2>3, Zenon
<1> QED
  BY <1>6, <1>7

\* What init_device sends reaches the supply.
LEMMA InitialCallIsSent ==
    ASSUME DriverInv, SettingsFit, OpenInv, pc \in Initialising
    PROVE  portOpen /\ Constructible(Sent(CallAt(pc)))
<1>1. portOpen
  BY DEF OpenInv
<1> DEFINE call == CallAt(pc)
           w == Word(call.value, ScaleOfSet(call.object))
<1>2. /\ IsCall(call)
      /\ IsSetInteger(call) => pc \in {"voltage", "current"}
  BY CallIsCall DEF DriverInv
<1>3. IsSetInteger(call) => 0 <= w /\ w <= FullScale
  BY <1>2, InitialWordsFit
<1>4. IsSetInteger(call) => 0 <= w /\ w <= MaxWord
  <2>1. IsSetInteger(call) => w \in Int
    BY DEF IsSetInteger
  <2> HIDE DEF w, call
  <2> QED
    BY <1>3, <2>1 DEF FullScale, MaxWord
<1> HIDE DEF call
<1>5. Constructible(Sent(call))
  BY <1>2, <1>4, CanBeSent DEF w
<1> QED
  BY <1>1, <1>5 DEF call

LEMMA WithinScale == \A n \in Nat : n <= FullScale => ~(n > FullScale)
BY DEF FullScale

\* Without a failure it is obeyed, if it is not a value that remote control is missing for;
\* and only a failure raises.
LEMMA InitialCallIsObeyed ==
    ASSUME DriverInv, SettingsFit, OpenInv, pc \in Initialising, Transfer(CallAt(pc))
    PROVE  /\ last'.raised => faults' = faults + 1
           /\ \/ faults' = faults + 1
              \/ faults' = faults /\ Obeyed(CallAt(pc))
              \/ faults' = faults /\ ~remote /\ pc \in {"voltage", "current", "output"}
<1> DEFINE call == CallAt(pc)
<1>1. portOpen /\ Constructible(Sent(call))
  BY InitialCallIsSent
<1>2. IsCall(call) /\ DriverTypeOK
  BY CallIsCall DEF DriverInv
<1>3. call.kind = "set integer" => 256 * call.data[1] + call.data[2] <= FullScale
  <2> SUFFICES ASSUME call.kind = "set integer" PROVE 256 * call.data[1] + call.data[2] <= FullScale
    OBVIOUS
  <2>1. IsSetInteger(call) /\ pc \in {"voltage", "current"}
    <3>1. IsSetInteger(call)
      BY <1>2 DEF IsCall, IsFloat, IsInteger, IsControl, IsSetControl
    <3> QED
      BY <3>1, CallIsCall DEF DriverInv
  <2> DEFINE w == Word(call.value, ScaleOfSet(call.object))
  <2>2. w <= FullScale
    BY <2>1, InitialWordsFit
  <2>3. 256 * call.data[1] + call.data[2] = w
    BY <1>1, <2>1, SentWords
  <2> QED
    BY <2>2, <2>3, Zenon
<1>4. Denied(call) => ~remote /\ pc \in {"voltage", "current", "output"}
  <2>1. CASE pc = "remote"
    <3>1. call.kind = "set control" /\ call.data[1] = 16
      BY <2>1, CallsAt, ControlIsCall DEF IsSetControl
    <3>2. 16 # 1
      OBVIOUS
    <3> QED
      BY <3>1, <3>2, Zenon DEF Denied
  <2>2. CASE pc = "state"
    <3>1. call.kind = "control"
      BY <2>2, CallsAt, QueryIsCall DEF IsControl
    <3> QED
      BY <3>1 DEF Denied
  <2>3. CASE pc \in {"voltage", "current", "output"}
    BY <2>3, Zenon DEF Denied
  <2> QED
    BY <2>1, <2>2, <2>3 DEF Initialising
<1>5. call.kind \in {"float", "control"} => ~Denied(call)
  BY DEF Denied
<1>6. ~(256 * call.data[1] + call.data[2] > FullScale) \/ call.kind # "set integer"
  <2> SUFFICES ASSUME call.kind = "set integer" PROVE ~(256 * call.data[1] + call.data[2] > FullScale)
    OBVIOUS
  <2> DEFINE v == 256 * call.data[1] + call.data[2]
  <2>1. IsSetInteger(call)
    BY <1>2 DEF IsCall, IsFloat, IsInteger, IsControl, IsSetControl
  <2>2. v \in Nat
    BY <1>1, <2>1, SentWords
  <2>3. v <= FullScale
    BY <1>3
  <2> QED
    BY <2>2, <2>3, WithinScale, Zenon
<1> HIDE DEF call
<1>7. last'.raised => faults' = faults + 1
  <2>1. CASE Obeyed(call)
    BY <2>1 DEF Obeyed, Ended
  <2>2. CASE Refused(call)
    BY <1>5, <1>6, <2>2, Zenon DEF Refused, Ended
  <2>3. CASE Spoiled(call)
    BY <2>3 DEF Spoiled
  <2>4. ~InVain(call)
    BY <1>1, Zenon DEF InVain
  <2> QED
    BY <1>2, <2>1, <2>2, <2>3, <2>4, TransferEnds DEF call
<1>8. \/ faults' = faults + 1
      \/ faults' = faults /\ Obeyed(call)
      \/ faults' = faults /\ ~remote /\ pc \in {"voltage", "current", "output"}
  <2>1. CASE Obeyed(call)
    BY <2>1, Zenon DEF Obeyed
  <2>2. CASE Refused(call)
    BY <1>4, <1>6, <2>2, Zenon DEF Refused
  <2>3. CASE Spoiled(call)
    BY <2>3, Zenon DEF Spoiled
  <2>4. ~InVain(call)
    BY <1>1, Zenon DEF InVain
  <2> QED
    BY <1>2, <2>1, <2>2, <2>3, <2>4, TransferEnds DEF call
<1> QED
  BY <1>7, <1>8 DEF call

LEMMA ConstructorInvInit == Init => ConstructorInv
BY DEF Init, ConstructorInv, OpenInv, FailInv, FailedInitReleases, ObeyedInv, Opening, Initialising, None

LEMMA InitialiseConstructs == DriverInv /\ SettingsFit /\ ConstructorInv /\ Initialise => ConstructorInv'
<1> SUFFICES ASSUME DriverInv, SettingsFit, ConstructorInv, Initialise PROVE ConstructorInv'
  OBVIOUS
<1> DEFINE call == CallAt(pc)
<1>1. /\ OpenInv /\ FailInv /\ ObeyedInv /\ faults \in Nat /\ faults' \in Nat
      /\ pc \in Opening \cup Initialising /\ Transfer(call) /\ portOpen' = portOpen
  <2>1. DriverInv'
    BY InitialiseKeeps
  <2> QED
    BY <2>1 DEF ConstructorInv, Initialise, DriverInv, DriverTypeOK
<1>2. \/ /\ last'.raised /\ pc' = ShutsDown(pc) /\ failedAt' = pc
      \/ ~last'.raised /\ pc' = Following /\ failedAt' = failedAt
  BY DEF Initialise
<1>3. pc \in Initialising =>
          /\ last'.raised => faults' = faults + 1
          /\ \/ faults' = faults + 1
             \/ faults' = faults /\ Obeyed(call)
             \/ faults' = faults /\ ~remote /\ pc \in {"voltage", "current", "output"}
  BY <1>1, InitialCallIsObeyed
<1> HIDE DEF call
<1>4. OpenInv'
  BY <1>1 DEF OpenInv
<1>5. FailInv'
  <2>1. CASE last'.raised /\ pc \in Opening
    <3>1. pc' = "raised" /\ failedAt' = pc /\ failedAt' \notin Initialising /\ failedAt' # "monitor"
      BY <1>2, <2>1 DEF ShutsDown, Opening, Initialising
    <3> QED
      BY <3>1, Zenon DEF FailInv, FailedInitReleases
  <2>2. CASE last'.raised /\ pc \in Initialising
    <3>1. pc' = "release"
      BY <1>2, <2>2 DEF ShutsDown, Opening, Initialising
    <3>2. faults' >= 1
      BY <1>1, <1>3, <2>2
    <3> QED
      BY <3>1, <3>2 DEF FailInv
  <2>3. CASE ~last'.raised
    <3>1. pc' \notin {"release", "raised", "used"} /\ failedAt' = failedAt
      BY <1>1, <1>2, <2>3, FollowingPoints DEF Initialising
    <3>2. failedAt = None
      BY <1>1 DEF FailInv, Opening, Initialising
    <3> QED
      BY <3>1, <3>2 DEF FailInv
  <2> QED
    BY <1>1, <2>1, <2>2, <2>3
<1>6. ObeyedInv'
  <2> SUFFICES ASSUME faults' = 0
               PROVE  /\ pc' \in {"state", "voltage", "current", "output"} => remote'
                      /\ pc' \in {"current", "output"} => words'[VOLTAGE] = Word(InitialSettings.voltage, uNom')
                      /\ pc' = "output" => words'[CURRENT] = Word(InitialSettings.current, iNom')
    BY DEF ObeyedInv
  <2>1. faults' # faults + 1
    BY <1>1
  <2>2. CASE pc' \notin {"state", "voltage", "current", "output"}
    BY <2>2
  <2>3. CASE pc' \in {"state", "voltage", "current", "output"}
    <3>1. /\ pc \in {"remote", "state", "voltage", "current"} /\ pc' = Following
          /\ pc' = "state" <=> pc = "remote"
          /\ pc' = "voltage" => pc = "state"
          /\ pc' = "current" <=> pc = "voltage"
          /\ pc' = "output" <=> pc = "current"
      BY <1>1, <1>2, <2>3, FollowingPoints DEF ShutsDown, Opening, Initialising
    <3>2. pc \in Initialising /\ pc \notin Opening /\ UNCHANGED <<uNom, iNom>>
      BY <3>1 DEF Opening, Initialising, Initialise
    <3>3. faults = 0 /\ (pc # "remote" => remote)
      <4>1. faults = 0
        BY <1>1, <1>3, <2>1, <3>2
      <4> QED
        BY <1>1, <3>1, <4>1 DEF ObeyedInv
    <3>4. Executed(call)
      BY <1>3, <2>1, <3>1, <3>2, <3>3 DEF Obeyed
    <3>5. CASE pc = "remote"
      <4>1. call = SetRemote(TRUE)
        BY <3>5, CallsAt DEF call
      <4>2. call.kind = "set control" /\ call.data[1] = 16 /\ call.data[2] = 16
        BY <4>1, ControlIsCall DEF IsSetControl
      <4>3. remote'
        BY <3>4, <4>2, Zenon DEF Executed
      <4> QED
        BY <3>1, <3>5, <4>3
    <3>6. CASE pc = "state"
      <4>1. call.kind = "control"
        BY <3>6, CallsAt, QueryIsCall DEF call, IsControl
      <4>2. remote' = remote
        BY <3>4, <4>1 DEF Executed
      <4> QED
        BY <3>1, <3>3, <3>6, <4>2
    <3>7. CASE pc = "voltage" \/ pc = "current"
      <4>1. /\ IsSetInteger(call) /\ Constructible(Sent(call)) /\ DOMAIN words = Words
        BY <3>2, <3>7, CallIsCall, InitialCallIsSent DEF call, DriverInv, DriverTypeOK, ConstructorInv
      <4>2. 256 * call.data[1] + call.data[2] = Word(call.value, ScaleOfSet(call.object))
        BY <4>1, SentWords
      <4>3. /\ words' = [words EXCEPT ![call.object] = Word(call.value, ScaleOfSet(call.object))]
            /\ remote' = remote
        BY <3>4, <4>1, <4>2, Zenon DEF Executed, IsSetInteger
      <4>4. VOLTAGE \in Words /\ CURRENT \in Words /\ VOLTAGE # CURRENT
        BY DEF Words, VOLTAGE, CURRENT
      <4>5. CASE pc = "voltage"
        <5>1. call = SetInteger(VOLTAGE, InitialSettings.voltage)
          BY <4>5, CallsAt DEF call
        <5>2. call.object = VOLTAGE /\ call.value = InitialSettings.voltage
          BY <5>1 DEF SetInteger
        <5>3. ScaleOfSet(VOLTAGE) = uNom
          BY <4>4 DEF ScaleOfSet
        <5>4. words'[VOLTAGE] = Word(InitialSettings.voltage, uNom)
          BY <4>1, <4>3, <4>4, <5>2, <5>3, Zenon
        <5> QED
          BY <3>1, <3>2, <3>3, <4>3, <4>5, <5>4
      <4>6. CASE pc = "current"
        <5>1. call = SetInteger(CURRENT, InitialSettings.current)
          BY <4>6, CallsAt DEF call
        <5>2. call.object = CURRENT /\ call.value = InitialSettings.current
          BY <5>1 DEF SetInteger
        <5>3. ScaleOfSet(CURRENT) = iNom
          BY DEF ScaleOfSet
        <5>4. words'[CURRENT] = Word(InitialSettings.current, iNom)
          BY <4>1, <4>3, <4>4, <5>2, <5>3, Zenon
        <5>5. words'[VOLTAGE] = words[VOLTAGE]
          BY <4>1, <4>3, <4>4, <5>2, Zenon
        <5>6. words[VOLTAGE] = Word(InitialSettings.voltage, uNom)
          BY <1>1, <3>3, <4>6 DEF ObeyedInv
        <5> QED
          BY <3>1, <3>2, <3>3, <4>3, <4>6, <5>4, <5>5, <5>6
      <4> QED
        BY <3>7, <4>5, <4>6
    <3> QED
      BY <3>1, <3>5, <3>6, <3>7
  <2> QED
    BY <2>2, <2>3
<1> QED
  BY <1>4, <1>5, <1>6 DEF ConstructorInv

LEMMA ShutdownConstructs == DriverInv /\ ConstructorInv /\ Shutdown => ConstructorInv'
<1> SUFFICES ASSUME DriverInv, ConstructorInv, Shutdown PROVE ConstructorInv'
  OBVIOUS
<1> DEFINE call == SetRemote(FALSE)
<1>1. /\ OpenInv /\ FailInv /\ DriverTypeOK /\ faults \in Nat
      /\ pc = "release" /\ Transfer(call) /\ portOpen' = last'.raised /\ pc' \in {"used", "raised"}
      /\ failedAt' = failedAt /\ portOpen
  BY CallsAt DEF ConstructorInv, Shutdown, DriverInv, DriverTypeOK, OpenInv
<1>2. IsCall(call) /\ call.kind = "set control" /\ call.data[1] = 16 /\ call.data[2] # 16
  BY ControlIsCall DEF IsSetControl
<1> HIDE DEF call
<1>3. Constructible(Sent(call)) /\ ~Denied(call)
  <2>1. ~IsSetInteger(call)
    BY <1>2 DEF IsSetInteger
  <2>2. 16 # 1
    OBVIOUS
  <2>3. ~Denied(call)
    BY <1>2, <2>2, Zenon DEF Denied
  <2> QED
    BY <1>2, <2>1, <2>3, CanBeSent
<1>4. faults' = faults + 1 \/ Obeyed(call)
  <2>1. ~InVain(call)
    BY <1>1, <1>3, Zenon DEF InVain
  <2>2. Refused(call) => faults' = faults + 1
    BY <1>2, <1>3, Zenon DEF Refused
  <2> QED
    BY <1>1, <1>2, <2>1, <2>2, TransferEnds, Zenon DEF Spoiled
<1>5. Obeyed(call) => ~portOpen' /\ ~remote'
  <2> SUFFICES ASSUME Obeyed(call) PROVE ~portOpen' /\ ~remote'
    OBVIOUS
  <2>1. ~portOpen'
    BY <1>1 DEF Obeyed, Ended
  <2>2. remote' = (call.data[2] = 16)
    BY <1>2, Zenon DEF Obeyed, Executed
  <2> QED
    BY <1>2, <2>1, <2>2, Zenon
<1>6. FailInv'
  <2>1. CASE Obeyed(call)
    BY <1>1, <1>5, <2>1 DEF FailInv, FailedInitReleases
  <2>2. CASE faults' = faults + 1
    <3>1. failedAt \in Initialising => ~(faults' <= 1)
      BY <1>1, <2>2 DEF FailInv
    <3>2. faults' # 0
      BY <1>1, <2>2
    <3> QED
      BY <1>1, <3>1, <3>2, Zenon DEF FailInv, FailedInitReleases
  <2> QED
    BY <1>4, <2>1, <2>2
<1>7. OpenInv' /\ ObeyedInv'
  BY <1>1 DEF OpenInv, ObeyedInv, Opening, Initialising
<1> QED
  BY <1>6, <1>7 DEF ConstructorInv

LEMMA ConstructorInvNext == DriverInv /\ SettingsFit /\ ConstructorInv /\ [Next]_vars => ConstructorInv'
<1> SUFFICES ASSUME DriverInv, SettingsFit, ConstructorInv, [Next]_vars PROVE ConstructorInv'
  OBVIOUS
<1>1. OpenInv /\ FailInv /\ ObeyedInv
  BY DEF ConstructorInv
<1>2. CASE Validate
  <2>1. \/ pc' = "open" /\ portOpen' = TRUE /\ failedAt' = failedAt /\ pc = "validate"
        \/ pc' = "raised" /\ failedAt' = "validate"
    BY <1>2 DEF Validate
  <2> QED
    BY <1>1, <2>1 DEF ConstructorInv, OpenInv, FailInv, FailedInitReleases, ObeyedInv, Opening, Initialising
<1>3. CASE MakeMonitor
  <2>1. /\ portOpen' = portOpen /\ pc = "monitor"
        /\ \/ pc' = "ready" /\ failedAt' = failedAt
           \/ pc' = "release" /\ failedAt' = "monitor"
    BY <1>3 DEF MakeMonitor, ShutsDown, Opening, driver
  <2> QED
    BY <1>1, <2>1 DEF ConstructorInv, OpenInv, FailInv, ObeyedInv, Opening, Initialising
<1>4. CASE EndUse
  <2>1. portOpen' = portOpen /\ pc = "ready" /\ pc' = "release" /\ failedAt' = failedAt
    BY <1>4 DEF EndUse, driver
  <2> QED
    BY <1>1, <2>1 DEF ConstructorInv, OpenInv, FailInv, ObeyedInv, Opening, Initialising, None
<1>5. CASE Use
  <2>1. portOpen' = portOpen /\ pc \in {"ready", "used"} /\ pc' = pc /\ failedAt' = failedAt
    BY <1>5 DEF Use, driver
  <2> QED
    BY <1>1, <2>1 DEF ConstructorInv, OpenInv, FailInv, ObeyedInv, Opening, Initialising
<1>6. CASE UNCHANGED vars
  BY <1>1, <1>6 DEF vars, driver, supply, ConstructorInv, OpenInv, FailInv, FailedInitReleases, ObeyedInv
<1> QED
  BY <1>2, <1>3, <1>4, <1>5, <1>6, InitialiseConstructs, ShutdownConstructs DEF Next

LEMMA ConstructorInvariant == ASSUME SettingsFit PROVE Spec => []ConstructorInv
<1>1. DriverInv /\ ConstructorInv /\ [Next]_vars => ConstructorInv'
  BY ConstructorInvNext
<1> QED
  BY <1>1, ConstructorInvInit, DriverInvariant, PTL DEF Spec

\* A controller whose construction failed has given the supply back and closed the port,
\* if no second telegram failed, for initial settings the supply can take
\* (power_controller.py:102-104, 155-160).
THEOREM FailedInitAlwaysReleases == ASSUME SettingsFit PROVE Spec => []FailedInitReleases
<1>1. ConstructorInv => FailedInitReleases
  BY DEF ConstructorInv, FailInv, FailedInitReleases
<1> QED
  BY <1>1, ConstructorInvariant, PTL

\* The constructor switches the output on with the initial settings set
\* (power_controller.py:124-127).
THEOREM OutputIsOnWhenSet == ASSUME SettingsFit PROVE Spec => OnOnlyWhenSet
<1> DEFINE Set == /\ Reads(words[VOLTAGE], uNom, InitialSettings.voltage)
                  /\ Reads(words[CURRENT], iNom, InitialSettings.current)
<1>1. DriverInv /\ ConstructorInv /\ pc = "output" /\ faults = 0 => Set
  <2> SUFFICES ASSUME DriverInv, ConstructorInv, pc = "output", faults = 0 PROVE Set
    OBVIOUS
  <2>1. /\ words[VOLTAGE] = Word(InitialSettings.voltage, uNom)
        /\ words[CURRENT] = Word(InitialSettings.current, iNom)
    BY DEF ConstructorInv, ObeyedInv
  <2>2. uNom = nominal[1] /\ iNom = nominal[2]
    BY DEF DriverInv, KnownInv, Later, Initialising
  <2>3. uNom \in Int /\ uNom > 0 /\ iNom \in Int /\ iNom > 0
    BY <2>2, NominalBytes DEF DriverInv, DriverTypeOK
  <2>4. InitialSettings.voltage \in Int /\ InitialSettings.current \in Int
    BY DriverAssumption DEF DriverAssumption
  <2> QED
    BY <2>1, <2>3, <2>4, WordReadsBack
<1>2. DriverInv /\ ConstructorInv /\ [Next]_vars =>
          [pc = "output" /\ ~output /\ output' /\ faults = 0 => Set]_vars
  BY <1>1
<1> QED
  BY <1>2, DriverInvariant, ConstructorInvariant, PTL DEF Spec, OnOnlyWhenSet
================================================================================
