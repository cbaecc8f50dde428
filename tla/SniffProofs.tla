------------------------------ MODULE SniffProofs ------------------------------
(***************************************************************************)
(* Proofs about Sniff, for every source and not only the headers of a run:    *)
(* no source has two formats, what follows a header never changes its format,   *)
(* and the magics of registration.go agree with the guest.                        *)
(***************************************************************************)
EXTENDS Sniff, Integers, SequenceTheorems, TLAPS

(* What has been read of a source is bytes. *)
SourceInv == src \in Seq(Byte)

LEMMA SourceInvariant == Spec => []SourceInv
  <1>1. Init => SourceInv
    BY DEF Init, SourceInv
  <1>2. ASSUME SourceInv, [Next]_src
        PROVE  SourceInv'
    <2>1. CASE Next
      <3>1. PICK t \in Templates : /\ Len(src) < Len(t)
                                   /\ \E b \in t[Len(src) + 1] : Read(b)
        BY <2>1 DEF Next
      <3>2. t \in Seq(SUBSET Byte)
        BY SniffAssumption
      <3>3. Len(src) + 1 \in 1 .. Len(t)
        <4>1. Len(src) \in Nat
          BY <1>2, LenProperties DEF SourceInv
        <4>2. Len(t) \in Nat
          BY <3>2, LenProperties
        <4>. QED  BY <3>1, <4>1, <4>2
      <3>4. t[Len(src) + 1] \subseteq Byte
        BY <3>2, <3>3, ElementOfSeq
      <3>5. PICK b \in Byte : src' = Append(src, b)
        BY <3>1, <3>4 DEF Read
      <3>. QED  BY <1>2, <3>5, AppendProperties DEF SourceInv
    <2>. QED  BY <1>2, <2>1 DEF SourceInv
  <1>. QED  BY <1>1, <1>2, PTL DEF Spec

(* The bytes of a source. *)
LEMMA SourceBytes ==
  ASSUME NEW s \in Seq(Byte)
  PROVE  /\ Len(s) \in Nat
         /\ \A i \in 1 .. Len(s) : s[i] \in 0 .. 255
  BY LenProperties, ElementOfSeq DEF Byte

----------------------------------------------------------------------------
(* The numbers of a WBMP header. *)

(* The value of up to four groups, most significant first. *)
LEMMA GroupsValue ==
  ASSUME NEW s, NEW first \in Nat, first > 0,
         NEW last \in first .. first + 3,
         \A i \in first .. last : s[i] \in 0 .. 255
  PROVE  groupsValue(s, first, last) =
           IF last = first THEN s[first] % 128
           ELSE IF last = first + 1
             THEN (s[first] % 128) * 128 + (s[first + 1] % 128)
           ELSE IF last = first + 2
             THEN ((s[first] % 128) * 128 + (s[first + 1] % 128)) * 128
                    + (s[first + 2] % 128)
           ELSE (((s[first] % 128) * 128 + (s[first + 1] % 128)) * 128
                    + (s[first + 2] % 128)) * 128 + (s[first + 3] % 128)
  <1>. DEFINE Body(f) == [i \in first - 1 .. last |->
                            IF i < first THEN 0 ELSE f[i - 1] * 128 + (s[i] % 128)]
              v1 == s[first] % 128
              v2 == v1 * 128 + (s[first + 1] % 128)
              v3 == v2 * 128 + (s[first + 2] % 128)
              v4 == v3 * 128 + (s[first + 3] % 128)
              f0 == [i \in first - 1 .. last |->
                       IF i = first - 1 THEN 0
                       ELSE IF i = first THEN v1
                       ELSE IF i = first + 1 THEN v2
                       ELSE IF i = first + 2 THEN v3 ELSE v4]
              val == CHOOSE f : f = Body(f)
  <1>1. v1 \in Nat
    BY SMTT(30)
  <1>2. f0 = Body(f0)
    <2>. SUFFICES ASSUME NEW i \in first - 1 .. last
                  PROVE  f0[i] = IF i < first THEN 0
                                 ELSE f0[i - 1] * 128 + (s[i] % 128)
      BY SMT
    <2>1. i \in {first - 1, first, first + 1, first + 2, first + 3}
      BY SMT
    <2>2. 0 * 128 + v1 = v1
      BY <1>1
    <2>. HIDE DEF v1
    <2>. QED  BY <2>1, <2>2 DEF v1
  <1>3. val = Body(val)
    BY <1>2, Zenon
  <1>4. groupsValue(s, first, last) = val[last]
    BY Zenon DEF groupsValue
  <1>. HIDE DEF val
  <1>5. \A i \in first - 1 .. last :
          val[i] = IF i < first THEN 0 ELSE val[i - 1] * 128 + (s[i] % 128)
    BY <1>3
  <1>6. val[first - 1] = 0
    BY <1>5
  <1>7. val[first] = v1
    BY <1>1, <1>5, <1>6
  <1>. HIDE DEF v1
  <1>8. last >= first + 1 => val[first + 1] = v2
    BY <1>5, <1>7
  <1>9. last >= first + 2 => val[first + 2] = v3
    BY <1>5, <1>8
  <1>10. last >= first + 3 => val[first + 3] = v4
    BY <1>5, <1>9
  <1>11. val[last] = IF last = first THEN v1
                     ELSE IF last = first + 1 THEN v2
                     ELSE IF last = first + 2 THEN v3 ELSE v4
    BY <1>7, <1>8, <1>9, <1>10
  <1>. QED  BY <1>4, <1>11 DEF v1

\* The n groups from position first are a number sniff_wbmp reads.
readsNumber(s, first, n) ==
  /\ first + n - 1 <= Len(s)
  /\ s[first + n - 1] < 128
  /\ \A i \in first .. first + n - 2 : s[i] >= 128
  /\ s[first] # 128
  /\ groupsValue(s, first, first + n - 1) \in 1 .. MaxDimension

(* dimension finds the one number that begins at a position, or none. *)
LEMMA DimensionReads ==
  ASSUME NEW s \in Seq(Byte), NEW first \in Nat, first > 0
  PROVE  /\ \A n \in 1 .. 4 : readsNumber(s, first, n) => dimension(s, first) = first + n
         /\ dimension(s, first) # 0 =>
              \E n \in 1 .. 4 : /\ readsNumber(s, first, n)
                                /\ dimension(s, first) = first + n
  <1>. DEFINE ends  == groupEnds(s, first)
              last  == Min(ends)
              value(i) == groupsValue(s, first, i)
  <1>1. Len(s) \in Nat /\ \A i \in 1 .. Len(s) : s[i] \in 0 .. 255
    BY SourceBytes
  <1>2. /\ ends \subseteq Int
        /\ \A i \in Int : i \in ends <=>
             first <= i /\ i <= first + 3 /\ i <= Len(s) /\ s[i] < 128
    BY DEF groupEnds
  <1>3. ASSUME NEW i \in ends, \A j \in first .. i - 1 : j \notin ends
        PROVE  last = i
    <2>1. \A j \in ends : i <= j
      BY <1>2, <1>3
    <2>2. \A j \in ends : j \in Int
      BY <1>2
    <2>. HIDE DEF ends
    <2>3. \A j \in ends : (\A k \in ends : j <= k) => j = i
      BY <2>1, <2>2
    <2>. QED  BY <2>1, <2>3 DEF Min
  <1>4. dimension(s, first) =
          IF ends # {} /\ s[first] # 128 /\ value(last) \in 1 .. MaxDimension
            THEN last + 1 ELSE 0
    BY DEF dimension
  <1>. HIDE DEF ends, last, value
  <1>5. ASSUME NEW n \in 1 .. 4, readsNumber(s, first, n)
        PROVE  dimension(s, first) = first + n
    <2>. DEFINE i == first + n - 1
    <2>1. i \in ends
      BY <1>2, <1>5 DEF readsNumber
    <2>2. ASSUME NEW j \in first .. i - 1
          PROVE  j \notin ends
      <3>. DEFINE c == s[j]
      <3>1. c >= 128 /\ c \in 0 .. 255
        BY <1>1, <1>5, SMTT(30) DEF readsNumber
      <3>2. j \in ends => c < 128
        BY <1>2
      <3>. HIDE DEF c
      <3>. QED  BY <3>1, <3>2
    <2>3. last = i
      <3>. HIDE DEF i
      <3>. QED  BY <1>3, <2>1, <2>2
    <2>4. value(i) \in 1 .. MaxDimension /\ s[first] # 128
      BY <1>5 DEF readsNumber, value
    <2>. QED  BY <1>4, <2>1, <2>3, <2>4
  <1>6. ASSUME dimension(s, first) # 0
        PROVE  \E n \in 1 .. 4 : /\ readsNumber(s, first, n)
                                /\ dimension(s, first) = first + n
    <2>1. ends # {}
      BY <1>4, <1>6
    <2>2. PICK i \in ends : \A j \in first .. i - 1 : j \notin ends
      <3>. DEFINE least(i) == i \in ends /\ \A j \in first .. i - 1 : j \notin ends
      <3>1. \A i \in ends : i \in {first, first + 1, first + 2, first + 3}
        BY <1>2
      <3>2. first \in ends => least(first)
        BY <1>2
      <3>3. first \notin ends /\ first + 1 \in ends => least(first + 1)
        BY <1>2
      <3>4. first \notin ends /\ first + 1 \notin ends /\ first + 2 \in ends
              => least(first + 2)
        BY <1>2
      <3>5. first \notin ends /\ first + 1 \notin ends /\ first + 2 \notin ends
              /\ first + 3 \in ends => least(first + 3)
        BY <1>2
      <3>. QED  BY <2>1, <3>1, <3>2, <3>3, <3>4, <3>5
    <2>3. last = i
      BY <1>3, <2>2
    <2>4. i \in first .. first + 3 /\ i <= Len(s) /\ s[i] < 128
      BY <1>2, <2>2
    <2>. DEFINE n == i - first + 1
    <2>5. n \in 1 .. 4 /\ first + n - 1 = i /\ first + n = i + 1
      BY <2>4
    <2>6. ASSUME NEW j \in first .. first + n - 2
          PROVE  s[j] >= 128
      <3>. DEFINE c == s[j]
      <3>1. j \in first .. i - 1 /\ j \in 1 .. Len(s)
        BY <1>1, <2>4
      <3>2. j \notin ends /\ c \in 0 .. 255
        BY <1>1, <2>2, <3>1
      <3>3. j \in Int /\ first <= j /\ j <= first + 3 /\ j <= Len(s)
        BY <1>1, <2>4, <3>1
      <3>4. c < 128 => j \in ends
        BY <1>2, <3>3
      <3>5. c >= 128
        <4>. HIDE DEF c
        <4>. QED  BY <3>2, <3>4
      <3>. QED  BY <3>5
    <2>7. s[first] # 128 /\ value(i) \in 1 .. MaxDimension
          /\ dimension(s, first) = i + 1
      BY <1>4, <1>6, <2>3
    <2>8. readsNumber(s, first, n)
      BY <2>4, <2>5, <2>6, <2>7 DEF readsNumber, value
    <2>. QED  BY <2>5, <2>7, <2>8
  <1>. QED  BY <1>5, <1>6

(* The bytes of a part of a source. *)
LEMMA SourceRange ==
  ASSUME NEW s \in Seq(Byte), NEW first \in Nat, first > 0, NEW last \in Int,
         last <= Len(s)
  PROVE  \A i \in first .. last : s[i] \in 0 .. 255
  <1>1. Len(s) \in Nat /\ \A i \in 1 .. Len(s) : s[i] \in 0 .. 255
    BY SourceBytes
  <1>2. \A i \in first .. last : i \in 1 .. Len(s)
    BY <1>1
  <1>. QED  BY <1>1, <1>2

(* A slice of a source and its bytes. *)
LEMMA Slice ==
  ASSUME NEW s \in Seq(Byte), NEW first \in Nat, first > 0, NEW n \in Nat, n > 0,
         first + n - 1 <= Len(s)
  PROVE  LET b == SubSeq(s, first, first + n - 1)
         IN  /\ b \in Seq(Byte) /\ Len(b) = n /\ DOMAIN b = 1 .. n
             /\ \A i \in 1 .. n : b[i] = s[first + i - 1]
  <1>. DEFINE b == SubSeq(s, first, first + n - 1)
  <1>1. \A i \in first .. first + n - 1 : s[i] \in Byte
    <2>. DEFINE last == first + n - 1
    <2>1. last \in Int /\ last <= Len(s)
      OBVIOUS
    <2>. HIDE DEF last
    <2>2. \A i \in first .. last : s[i] \in 0 .. 255
      BY <2>1, SourceRange, Zenon
    <2>. QED  BY <2>2, Zenon DEF last, Byte
  <1>2. /\ b \in Seq(Byte) /\ Len(b) = n
        /\ \A i \in 1 .. n : b[i] = s[first + i - 1]
    <2>1. first + n - 1 \in Int /\ first <= first + n - 1
      OBVIOUS
    <2>. QED  BY <1>1, <2>1, SubSeqProperties
  <1>. HIDE DEF b
  <1>3. DOMAIN b = 1 .. n
    BY <1>2, LenProperties
  <1>. QED  BY <1>2, <1>3 DEF b

(* The low seven bits of a byte. *)
LEMMA SevenBits ==
  \A c \in 0 .. 255 : /\ c % 128 \in 0 .. 127
                      /\ c >= 128 => c % 128 = c - 128
  OBVIOUS

(* sniff_wbmp's loop takes exactly the shortest encodings, of up to four bytes, of
   the dimensions. *)
LEMMA ReadsShortest ==
  ASSUME NEW s \in Seq(Byte), NEW first \in Nat, first > 0, NEW n \in 1 .. 4,
         first + n - 1 <= Len(s)
  PROVE  readsNumber(s, first, n)
           <=> encodesDimension(SubSeq(s, first, first + n - 1))
  <1>. DEFINE b == SubSeq(s, first, first + n - 1)
              last == first + n - 1
              v == valueOf(b)
              g == groupsValue(s, first, last)
              c1 == s[first]
              c2 == s[first + 1]
              c3 == s[first + 2]
              c4 == s[first + 3]
              d(c) == c % 128
  <1>. SUFFICES readsNumber(s, first, n) <=> encodesDimension(b)
    OBVIOUS
  <1>0. n \in Nat /\ n > 0 /\ n \in {1, 2, 3, 4} /\ last \in Int
    OBVIOUS
  <1>1. /\ Len(b) = n /\ DOMAIN b = 1 .. n
        /\ \A i \in 1 .. n : b[i] = s[first + i - 1]
    <2>1. /\ b \in Seq(Byte) /\ Len(b) = n /\ DOMAIN b = 1 .. n
          /\ \A i \in 1 .. n : b[i] = s[first + i - 1]
      BY <1>0, Slice, Zenon
    <2>. QED  BY <2>1
  <1>2. \A i \in first .. last : s[i] \in 0 .. 255
    BY <1>0, SourceRange, Zenon
  <1>3. readsNumber(s, first, n) <=>
          /\ s[last] < 128
          /\ \A i \in first .. last - 1 : s[i] >= 128
          /\ c1 # 128
          /\ g \in 1 .. MaxDimension
    BY DEF readsNumber
  <1>4. encodesDimension(b) <=>
          /\ \A i \in 1 .. n : b[i] >= 128 <=> i < n
          /\ v \in 1 .. MaxDimension
          /\ v >= weights[n]
    BY <1>1 DEF encodesDimension
  <1>5. /\ n = 1 => v = d(b[1]) * weights[1] + 0 + 0 + 0
        /\ n = 2 => v = d(b[2]) * weights[1] + d(b[1]) * weights[2] + 0 + 0
        /\ n = 3 => v = d(b[3]) * weights[1] + d(b[2]) * weights[2]
                        + d(b[1]) * weights[3] + 0
        /\ n = 4 => v = d(b[4]) * weights[1] + d(b[3]) * weights[2]
                        + d(b[2]) * weights[3] + d(b[1]) * weights[4]
    BY <1>1 DEF valueOf
  <1>6. /\ weights[1] = 1 /\ weights[2] = 128 /\ weights[3] = 16384
        /\ weights[4] = 2097152
    BY DEF weights
  <1>. HIDE DEF b, v, g
  <1>7. CASE n = 1
    <2>1. b[1] = c1 /\ c1 \in 0 .. 255
      BY <1>1, <1>2, <1>7
    <2>2. g = d(c1)
      BY <1>2, <1>7, GroupsValue, SMTT(30) DEF g
    <2>3. readsNumber(s, first, n) <=> c1 < 128 /\ c1 # 128 /\ g \in 1 .. MaxDimension
      BY <1>3, <1>7
    <2>. HIDE DEF c1
    <2>4. v = d(c1)
      BY <1>5, <1>6, <1>7, <2>1
    <2>5. encodesDimension(b) <=> c1 < 128 /\ v \in 1 .. MaxDimension /\ v >= 1
      BY <1>4, <1>6, <1>7, <2>1
    <2>. QED  BY <2>1, <2>2, <2>3, <2>4, <2>5
  <1>8. CASE n = 2
    <2>1. b[1] = c1 /\ b[2] = c2 /\ c1 \in 0 .. 255 /\ c2 \in 0 .. 255
      BY <1>1, <1>2, <1>8
    <2>2. g = d(c1) * 128 + d(c2)
      BY <1>2, <1>8, GroupsValue DEF g
    <2>3. readsNumber(s, first, n) <=> c2 < 128 /\ c1 >= 128 /\ c1 # 128
                                       /\ g \in 1 .. MaxDimension
      BY <1>3, <1>8
    <2>. HIDE DEF c1, c2
    <2>4. v = d(c2) + d(c1) * 128
      BY <1>5, <1>6, <1>8, <2>1
    <2>5. encodesDimension(b) <=> c1 >= 128 /\ c2 < 128
                                  /\ v \in 1 .. MaxDimension /\ v >= 128
      BY <1>4, <1>6, <1>8, <2>1
    <2>6. /\ d(c1) \in 0 .. 127
          /\ d(c2) \in 0 .. 127
          /\ c1 >= 128 => d(c1) = c1 - 128
      BY <2>1, SevenBits, ZenonT(30)
    <2>7. v = g
      <3>. DEFINE e1 == d(c1)
              e2 == d(c2)
      <3>1. v = e2 + e1 * 128 /\ g = e1 * 128 + e2
        BY <2>2, <2>4
      <3>2. e1 \in 0 .. 127 /\ e2 \in 0 .. 127
        BY <2>6
      <3>. HIDE DEF e1, e2
      <3>. QED  BY <3>1, <3>2
    <2>8. c1 >= 128 => (c1 # 128 <=> v >= 128)
      BY <2>1, <2>4, <2>6
    <2>. QED  BY <2>3, <2>5, <2>7, <2>8
  <1>9. CASE n = 3
    <2>1. /\ b[1] = c1 /\ b[2] = c2 /\ b[3] = c3
          /\ c1 \in 0 .. 255 /\ c2 \in 0 .. 255 /\ c3 \in 0 .. 255
      BY <1>1, <1>2, <1>9
    <2>2. g = (d(c1) * 128 + d(c2)) * 128 + d(c3)
      BY <1>2, <1>9, GroupsValue DEF g
    <2>3. readsNumber(s, first, n) <=> c3 < 128 /\ c1 >= 128 /\ c2 >= 128 /\ c1 # 128
                                       /\ g \in 1 .. MaxDimension
      BY <1>3, <1>9
    <2>. HIDE DEF c1, c2, c3
    <2>4. v = d(c3) + d(c2) * 128 + d(c1) * 16384
      BY <1>5, <1>6, <1>9, <2>1
    <2>5. encodesDimension(b) <=> c1 >= 128 /\ c2 >= 128 /\ c3 < 128
                                  /\ v \in 1 .. MaxDimension /\ v >= 16384
      BY <1>4, <1>6, <1>9, <2>1
    <2>6. /\ d(c1) \in 0 .. 127
          /\ d(c2) \in 0 .. 127
          /\ d(c3) \in 0 .. 127
          /\ c1 >= 128 => d(c1) = c1 - 128
      BY <2>1, SevenBits, ZenonT(30)
    <2>7. v = g
      <3>. DEFINE e1 == d(c1)
              e2 == d(c2)
              e3 == d(c3)
      <3>1. v = e3 + e2 * 128 + e1 * 16384 /\ g = (e1 * 128 + e2) * 128 + e3
        BY <2>2, <2>4
      <3>2. e1 \in 0 .. 127 /\ e2 \in 0 .. 127 /\ e3 \in 0 .. 127
        BY <2>6
      <3>. HIDE DEF e1, e2, e3
      <3>. QED  BY <3>1, <3>2
    <2>8. c1 >= 128 => (c1 # 128 <=> v >= 16384)
      BY <2>1, <2>4, <2>6
    <2>. QED  BY <2>3, <2>5, <2>7, <2>8
  <1>10. CASE n = 4
    <2>1. /\ b[1] = c1 /\ b[2] = c2 /\ b[3] = c3 /\ b[4] = c4
          /\ c1 \in 0 .. 255 /\ c2 \in 0 .. 255
          /\ c3 \in 0 .. 255 /\ c4 \in 0 .. 255
      BY <1>1, <1>2, <1>10
    <2>2. g = ((d(c1) * 128 + d(c2)) * 128 + d(c3)) * 128 + d(c4)
      BY <1>2, <1>10, GroupsValue DEF g
    <2>3. readsNumber(s, first, n) <=> /\ c4 < 128 /\ c1 >= 128 /\ c2 >= 128
                                       /\ c3 >= 128 /\ c1 # 128
                                       /\ g \in 1 .. MaxDimension
      <3>1. first .. last - 1 = {first, first + 1, first + 2} /\ last = first + 3
        BY <1>10
      <3>. QED  BY <1>3, <3>1, Zenon
    <2>. HIDE DEF c1, c2, c3, c4
    <2>4. v = d(c4) + d(c3) * 128 + d(c2) * 16384 + d(c1) * 2097152
      BY <1>5, <1>6, <1>10, <2>1
    <2>5. encodesDimension(b) <=> /\ c1 >= 128 /\ c2 >= 128 /\ c3 >= 128 /\ c4 < 128
                                  /\ v \in 1 .. MaxDimension /\ v >= 2097152
      BY <1>4, <1>6, <1>10, <2>1, SMTT(30)
    <2>6. /\ d(c1) \in 0 .. 127
          /\ d(c2) \in 0 .. 127
          /\ d(c3) \in 0 .. 127
          /\ d(c4) \in 0 .. 127
          /\ c1 >= 128 => d(c1) = c1 - 128
      BY <2>1, SevenBits, ZenonT(30)
    <2>7. v = g
      <3>. DEFINE e1 == d(c1)
              e2 == d(c2)
              e3 == d(c3)
              e4 == d(c4)
      <3>1. v = e4 + e3 * 128 + e2 * 16384 + e1 * 2097152
            /\ g = ((e1 * 128 + e2) * 128 + e3) * 128 + e4
        BY <2>2, <2>4
      <3>2. e1 \in 0 .. 127 /\ e2 \in 0 .. 127 /\ e3 \in 0 .. 127 /\ e4 \in 0 .. 127
        BY <2>6
      <3>. HIDE DEF e1, e2, e3, e4
      <3>. QED  BY <3>1, <3>2
    <2>8. c1 >= 128 => (c1 # 128 <=> v >= 2097152)
      BY <2>1, <2>4, <2>6
    <2>. QED  BY <2>3, <2>5, <2>7, <2>8
  <1>. QED  BY <1>0, <1>7, <1>8, <1>9, <1>10

(* sniff_wbmp accepts exactly two zero bytes and two dimensions from 1 to 0xFFFFFF in
   their shortest encodings, of at most four groups (WBMPHeadersExact), whatever
   follows and for sources of any length. *)
THEOREM WBMPHeadersAreExact == Spec => []WBMPHeadersExact
  <1>1. ASSUME SourceInv
        PROVE  WBMPHeadersExact
    <2>. DEFINE s == src
                encodes(first, n) == encodesDimension(SubSeq(s, first, first + n - 1))
    <2>1. s \in Seq(Byte) /\ Len(s) \in Nat
      BY <1>1, SourceBytes DEF SourceInv
    <2>. HIDE DEF s
    <2>2. ASSUME NEW first \in Nat, first > 0, NEW n \in 1 .. 4
          PROVE  readsNumber(s, first, n) <=>
                   first + n - 1 <= Len(s) /\ encodes(first, n)
      BY <2>1, <2>2, ReadsShortest DEF readsNumber
    <2>. HIDE DEF encodes
    <2>3. ASSUME sniff_wbmp(s)
          PROVE  \E a, b \in 1 .. 4 :
                   /\ s[1] = 0 /\ s[2] = 0
                   /\ readsNumber(s, 3, a) /\ readsNumber(s, 3 + a, b)
      <3>1. s[1] = 0 /\ s[2] = 0 /\ dimension(s, 3) # 0
            /\ dimension(s, dimension(s, 3)) # 0
        BY <2>3 DEF sniff_wbmp
      <3>2. PICK a \in 1 .. 4 : readsNumber(s, 3, a) /\ dimension(s, 3) = 3 + a
        BY <2>1, <3>1, DimensionReads
      <3>3. 3 + a \in Nat /\ 3 + a > 0
        OBVIOUS
      <3>4. PICK b \in 1 .. 4 : readsNumber(s, 3 + a, b)
        BY <2>1, <3>1, <3>2, <3>3, DimensionReads
      <3>. QED  BY <3>1, <3>2, <3>4
    <2>4. ASSUME NEW a \in 1 .. 4, NEW b \in 1 .. 4, s[1] = 0, s[2] = 0,
                 readsNumber(s, 3, a), readsNumber(s, 3 + a, b)
          PROVE  sniff_wbmp(s)
      <3>1. dimension(s, 3) = 3 + a
        BY <2>1, <2>4, DimensionReads
      <3>2. dimension(s, 3 + a) = 3 + a + b
        BY <2>1, <2>4, DimensionReads
      <3>3. Len(s) >= 4
        <4>1. 3 + a + b - 1 <= Len(s)
          BY <2>4 DEF readsNumber
        <4>. QED  BY <2>1, <4>1
      <3>4. 3 + a # 0 /\ 3 + a + b # 0
        OBVIOUS
      <3>. QED  BY <2>4, <3>1, <3>2, <3>3, <3>4, Zenon DEF sniff_wbmp
    <2>5. ASSUME NEW a \in 1 .. 4, NEW b \in 1 .. 4
          PROVE  readsNumber(s, 3, a) /\ readsNumber(s, 3 + a, b) <=>
                   /\ Len(s) >= 2 + a + b
                   /\ encodesDimension(SubSeq(s, 3, 2 + a))
                   /\ encodesDimension(SubSeq(s, 3 + a, 2 + a + b))
      <3>1. /\ 3 + a - 1 = 2 + a /\ 3 + a + b - 1 = 2 + a + b
            /\ 3 + a \in Nat /\ 3 + a > 0
        OBVIOUS
      <3>2. readsNumber(s, 3, a) <=>
              3 + a - 1 <= Len(s) /\ encodesDimension(SubSeq(s, 3, 2 + a))
        BY <2>2, <3>1 DEF encodes
      <3>3. readsNumber(s, 3 + a, b) <=>
              3 + a + b - 1 <= Len(s) /\ encodesDimension(SubSeq(s, 3 + a, 2 + a + b))
        BY <2>2, <3>1 DEF encodes
      <3>. QED  BY <2>1, <3>2, <3>3
    <2>6. sniff_wbmp(s) <=>
            \E a, b \in 1 .. 4 :
              /\ Len(s) >= 2 + a + b
              /\ s[1] = 0 /\ s[2] = 0
              /\ encodesDimension(SubSeq(s, 3, 2 + a))
              /\ encodesDimension(SubSeq(s, 3 + a, 2 + a + b))
      BY <2>3, <2>4, <2>5, ZenonT(30)
    <2>. QED  BY <2>6 DEF WBMPHeadersExact, s
  <1>. QED  BY <1>1, SourceInvariant, PTL

----------------------------------------------------------------------------
(* The Handsum header. *)

\* Three bytes, big-endian.
bits24(a, b, c) == a * 65536 + b * 256 + c

\* sniff_hnsm's tests of the 24 bits a header begins with.
isHandsum(c32) ==
  /\ c32 \div 512 = hnsmTopBits
  /\ (c32 \div 128) % 4 # 1
  /\ c32 % 32 # 31

\* Three bytes that are one of hnsmFormats' magics.
isMagic(bytes) ==
  \E color \in {0, 2, 3}, quality \in 0 .. 3, geom \in 0 .. 30 :
    bytes = hnsmMagic(color, quality, geom)

(* Taking a 24-bit header apart and packing its fields are inverse. *)
LEMMA HandsumFields ==
  ASSUME NEW a \in 0 .. 255, NEW b \in 0 .. 255, NEW c \in 0 .. 255
  PROVE  isHandsum(bits24(a, b, c)) <=> isMagic(<<a, b, c>>)
  <1>. DEFINE c32 == a * 65536 + b * 256 + c
              v(color, quality, geom) ==
                32619 * 512 + color * 128 + quality * 32 + geom
  <1>1. ASSUME NEW color \in 0 .. 3, NEW quality \in 0 .. 3, NEW geom \in 0 .. 31
        PROVE  <<a, b, c>> = hnsmMagic(color, quality, geom)
                 <=> c32 = v(color, quality, geom)
    <2>. DEFINE n == v(color, quality, geom)
    <2>1. n \in Nat /\ n < 16777216
      BY SMT
    <2>2. hnsmMagic(color, quality, geom) =
            <<(n \div 65536) % 256, (n \div 256) % 256, n % 256>>
      BY DEF hnsmMagic, hnsmTopBits
    <2>. HIDE DEF n
    <2>3. (/\ a = (n \div 65536) % 256
           /\ b = (n \div 256) % 256
           /\ c = n % 256) <=> c32 = n
      BY <2>1, SMT
    <2>. QED  BY <2>2, <2>3 DEF n
  <1>2. c32 \in Nat /\ c32 < 16777216
    BY SMT
  <1>. HIDE DEF c32
  <1>3. ASSUME c32 \div 512 = 32619, (c32 \div 128) % 4 # 1, c32 % 32 # 31
        PROVE  \E color \in {0, 2, 3}, quality \in 0 .. 3, geom \in 0 .. 30 :
                 <<a, b, c>> = hnsmMagic(color, quality, geom)
    <2>. DEFINE color   == (c32 \div 128) % 4
                quality == (c32 \div 32) % 4
                geom    == c32 % 32
    <2>1. color \in {0, 2, 3} /\ quality \in 0 .. 3 /\ geom \in 0 .. 30
      BY <1>2, <1>3
    <2>2. c32 = v(color, quality, geom)
      BY <1>2, <1>3
    <2>. HIDE DEF color, quality, geom, v
    <2>3. <<a, b, c>> = hnsmMagic(color, quality, geom)
      BY <1>1, <2>1, <2>2, SMTT(30)
    <2>. QED  BY <2>1, <2>3
  <1>4. ASSUME NEW color \in {0, 2, 3}, NEW quality \in 0 .. 3, NEW geom \in 0 .. 30,
               <<a, b, c>> = hnsmMagic(color, quality, geom)
        PROVE  c32 \div 512 = 32619 /\ (c32 \div 128) % 4 # 1 /\ c32 % 32 # 31
    <2>1. c32 = v(color, quality, geom)
      <3>. HIDE DEF v
      <3>. QED  BY <1>1, <1>4
    <2>. QED  BY <2>1
  <1>. QED  BY <1>3, <1>4, SMTT(30) DEF isHandsum, isMagic, bits24, hnsmTopBits, c32

(* A source's first three bytes are a Handsum magic exactly when sniff_hnsm takes
   them. *)
LEMMA HandsumHeader ==
  ASSUME NEW s \in Seq(Byte)
  PROVE  sniff_hnsm(s) <=> Len(s) >= 3 /\ SubSeq(s, 1, 3) \in hnsmMagics
  <1>1. CASE Len(s) >= 3
    <2>. DEFINE a == s[1]
                b == s[2]
                c == s[3]
                first3 == SubSeq(s, 1, 3)
    <2>1. a \in 0 .. 255 /\ b \in 0 .. 255 /\ c \in 0 .. 255
      BY <1>1, SourceBytes
    <2>2. first3 \in Seq(Byte) /\ Len(first3) = 3
          /\ first3[1] = a /\ first3[2] = b /\ first3[3] = c
      <3>1. \A i \in 1 .. 3 : s[i] \in Byte
        BY <1>1, SourceBytes DEF Byte
      <3>2. \A i \in 1 .. 3 - 1 + 1 : first3[i] = s[1 + i - 1]
        BY <3>1, SubSeqProperties
      <3>3. /\ first3[1] = s[1 + 1 - 1] /\ first3[2] = s[1 + 2 - 1]
            /\ first3[3] = s[1 + 3 - 1]
        BY <3>2
      <3>4. first3 \in Seq(Byte) /\ Len(first3) = 3
        BY <3>1, SubSeqProperties
      <3>. QED  BY <3>3, <3>4
    <2>3. first3 = <<a, b, c>>
      <3>1. <<a, b, c>> \in Seq(Byte) /\ Len(<<a, b, c>>) = 3
        BY <2>1 DEF Byte
      <3>2. \A i \in 1 .. 3 : first3[i] = <<a, b, c>>[i]
        <4>1. \A i \in 1 .. 3 : i = 1 \/ i = 2 \/ i = 3
          OBVIOUS
        <4>. HIDE DEF first3, a, b, c
        <4>. QED  BY <2>2, <4>1
      <3>. HIDE DEF first3, a, b, c
      <3>. QED  BY <2>2, <3>1, <3>2, SeqEqual
    <2>4. sniff_hnsm(s) <=> isMagic(<<a, b, c>>)
      <3>1. sniff_hnsm(s) <=> isHandsum(bits24(a, b, c))
        BY <1>1, SMT DEF sniff_hnsm, isHandsum, bits24
      <3>. HIDE DEF a, b, c
      <3>2. isHandsum(bits24(a, b, c)) <=> isMagic(<<a, b, c>>)
        BY <2>1, HandsumFields, Zenon
      <3>. QED  BY <3>1, <3>2
    <2>5. first3 \in hnsmMagics <=> isMagic(<<a, b, c>>)
      <3>. HIDE DEF a, b, c, first3
      <3>. QED  BY <2>3, SMT DEF hnsmMagics, isMagic
    <2>. QED  BY <1>1, <2>4, <2>5
  <1>2. CASE ~ (Len(s) >= 3)
    BY <1>2 DEF sniff_hnsm
  <1>. QED  BY <1>1, <1>2

(* hnsmFormats' magics are exactly the headers sniff_hnsm accepts
   (HandsumMagicsExact). *)
THEOREM HandsumMagicsAreExact == Spec => []HandsumMagicsExact
  <1>1. SourceInv => HandsumMagicsExact
    BY HandsumHeader DEF SourceInv, HandsumMagicsExact
  <1>. QED  BY <1>1, SourceInvariant, PTL

----------------------------------------------------------------------------
(* Signatures. *)

\* The prefixes a source is compared with.
Patterns == Seq(SUBSET Byte)

(* A function on 1 .. n is a sequence. *)
LEMMA FunctionIsSequence ==
  ASSUME NEW S, NEW n \in Nat, NEW f \in [1 .. n -> S]
  PROVE  f \in Seq(S) /\ Len(f) = n
  OBVIOUS

LEMMA ExactlyPattern ==
  ASSUME NEW w \in Seq(Byte)
  PROVE  /\ Exactly(w) \in Patterns
         /\ Len(Exactly(w)) = Len(w)
         /\ \A i \in 1 .. Len(w) : Exactly(w)[i] = {w[i]}
  <1>1. Len(w) \in Nat /\ DOMAIN w = 1 .. Len(w) /\ w \in [1 .. Len(w) -> Byte]
    BY LenProperties
  <1>2. Exactly(w) \in [1 .. Len(w) -> SUBSET Byte]
    BY <1>1 DEF Exactly
  <1>3. Exactly(w) \in Seq(SUBSET Byte) /\ Len(Exactly(w)) = Len(w)
    BY <1>1, <1>2, FunctionIsSequence
  <1>. QED  BY <1>1, <1>3 DEF Exactly, Patterns

(* The letters of the signatures are bytes. *)
LEMMA AsciiBytes == \A x \in DOMAIN ascii : ascii[x] \in Byte
  <1>1. DOMAIN ascii = {"B", "C", "E", "F", "G", "I", "K", "M", "N", "P", "R", "W",
                        "a", "f", "i", "o", "q"}
    BY DEF ascii
  <1>2. /\ ascii["B"] = 66 /\ ascii["C"] = 67 /\ ascii["E"] = 69 /\ ascii["F"] = 70
        /\ ascii["G"] = 71 /\ ascii["I"] = 73 /\ ascii["K"] = 75 /\ ascii["M"] = 77
        /\ ascii["N"] = 78 /\ ascii["P"] = 80 /\ ascii["R"] = 82 /\ ascii["W"] = 87
        /\ ascii["a"] = 97 /\ ascii["f"] = 102 /\ ascii["i"] = 105
        /\ ascii["o"] = 111 /\ ascii["q"] = 113
    BY DEF ascii
  <1>. QED  BY <1>1, <1>2 DEF Byte

LEMMA LettersPattern ==
  ASSUME NEW w \in Seq(DOMAIN ascii)
  PROVE  /\ letters(w) \in Patterns
         /\ Len(letters(w)) = Len(w)
         /\ \A i \in 1 .. Len(w) : letters(w)[i] = {ascii[w[i]]}
  <1>1. Len(w) \in Nat /\ DOMAIN w = 1 .. Len(w) /\ w \in [1 .. Len(w) -> DOMAIN ascii]
    BY LenProperties
  <1>2. \A x \in DOMAIN ascii : ascii[x] \in Byte
    BY AsciiBytes
  <1>3. letters(w) \in [1 .. Len(w) -> SUBSET Byte]
    BY <1>1, <1>2 DEF letters
  <1>4. letters(w) \in Seq(SUBSET Byte) /\ Len(letters(w)) = Len(w)
    BY <1>1, <1>3, FunctionIsSequence
  <1>. QED  BY <1>1, <1>4 DEF letters, Patterns

LEMMA WildcardsPattern == Wildcards(4) \in Patterns
  <1>1. Wildcards(4) \in [1 .. 4 -> SUBSET Byte]
    BY DEF Wildcards
  <1>. QED  BY <1>1, FunctionIsSequence DEF Patterns

(* Two patterns, one after the other. *)
LEMMA ConcatPattern ==
  ASSUME NEW p \in Patterns, NEW q \in Patterns
  PROVE  p \o q \in Patterns
  BY ConcatProperties DEF Patterns

(* A source that starts with two patterns starts with the first, and goes on with
   the second. *)
LEMMA StartsWithFirst ==
  ASSUME NEW p \in Patterns, NEW q \in Patterns, NEW s \in Seq(Byte),
         starts(s, p \o q)
  PROVE  /\ starts(s, p)
         /\ \A i \in 1 .. Len(q) : s[Len(p) + i] \in q[i]
  <1>1. /\ Len(p \o q) = Len(p) + Len(q)
        /\ \A i \in 1 .. Len(p) + Len(q) :
             (p \o q)[i] = IF i <= Len(p) THEN p[i] ELSE q[i - Len(p)]
    BY ConcatProperties DEF Patterns
  <1>2. /\ Len(p) \in Nat /\ Len(q) \in Nat /\ Len(s) \in Nat
        /\ DOMAIN p = 1 .. Len(p)
        /\ DOMAIN (p \o q) = 1 .. Len(p) + Len(q)
    BY <1>1, ConcatPattern, LenProperties DEF Patterns
  <1>3. Len(s) >= Len(p) + Len(q)
    BY <1>1 DEF starts
  <1>4. \A i \in 1 .. Len(p) + Len(q) : s[i] \in (p \o q)[i]
    BY <1>2 DEF starts
  <1>5. ASSUME NEW i \in 1 .. Len(p)
        PROVE  s[i] \in p[i]
    <2>1. i \in 1 .. Len(p) + Len(q) /\ i <= Len(p)
      BY <1>2
    <2>. QED  BY <1>1, <1>4, <2>1
  <1>6. ASSUME NEW i \in 1 .. Len(q)
        PROVE  s[Len(p) + i] \in q[i]
    <2>. DEFINE j == Len(p) + i
    <2>1. j \in 1 .. Len(p) + Len(q) /\ ~ (j <= Len(p)) /\ j - Len(p) = i
      BY <1>2
    <2>. HIDE DEF j
    <2>2. s[j] \in q[j - Len(p)]
      BY <1>1, <1>4, <2>1
    <2>. QED  BY <2>1, <2>2 DEF j
  <1>7. Len(s) >= Len(p)
    BY <1>2, <1>3
  <1>. QED  BY <1>2, <1>5, <1>6, <1>7 DEF starts

(* A source that starts with the given bytes, or the given letters. *)
LEMMA StartsExactly ==
  ASSUME NEW w \in Seq(Byte)
  PROVE  \A s : starts(s, Exactly(w)) => \A i \in 1 .. Len(w) : s[i] = w[i]
  <1>. SUFFICES ASSUME NEW s, starts(s, Exactly(w))
                PROVE  \A i \in 1 .. Len(w) : s[i] = w[i]
    OBVIOUS
  <1>1. DOMAIN Exactly(w) = 1 .. Len(w)
    BY ExactlyPattern, LenProperties DEF Patterns
  <1>2. \A i \in 1 .. Len(w) : s[i] \in {w[i]}
    BY <1>1, ExactlyPattern DEF starts
  <1>. QED  BY <1>2

LEMMA StartsLetters ==
  ASSUME NEW w \in Seq(DOMAIN ascii), NEW s, starts(s, letters(w))
  PROVE  /\ Len(w) >= 1 => s[1] = ascii[w[1]]
         /\ Len(w) >= 2 => s[2] = ascii[w[2]]
  <1>1. DOMAIN letters(w) = 1 .. Len(w)
    BY LettersPattern, LenProperties DEF Patterns
  <1>2. \A i \in 1 .. Len(w) : s[i] \in {ascii[w[i]]}
    BY <1>1, LettersPattern DEF starts
  <1>3. Len(w) \in Nat
    BY LenProperties
  <1>4. /\ Len(w) >= 1 => 1 \in 1 .. Len(w)
        /\ Len(w) >= 2 => 2 \in 1 .. Len(w)
    BY <1>3
  <1>. QED  BY <1>2, <1>4

(* What a source starts with, it starts with however it goes on. *)
LEMMA StartsGrows ==
  ASSUME NEW s \in Seq(Byte), NEW b \in Byte, NEW p \in Patterns, starts(s, p)
  PROVE  starts(Append(s, b), p)
  <1>1. /\ Len(Append(s, b)) = Len(s) + 1
        /\ \A i \in 1 .. Len(s) : Append(s, b)[i] = s[i]
    BY AppendProperties
  <1>2. Len(s) \in Nat /\ Len(p) \in Nat /\ DOMAIN p = 1 .. Len(p)
    BY LenProperties DEF Patterns
  <1>. QED  BY <1>1, <1>2 DEF starts

(* The words of letters among the signatures. *)
LEMMA Words ==
  /\ <<"B", "M">> \in Seq(DOMAIN ascii) /\ <<"G", "I", "F">> \in Seq(DOMAIN ascii)
  /\ <<"R", "I", "F", "F">> \in Seq(DOMAIN ascii)
  /\ <<"W", "E", "B", "P">> \in Seq(DOMAIN ascii)
  /\ <<"q", "o", "i", "f">> \in Seq(DOMAIN ascii)
  /\ <<"P", "K", "M">> \in Seq(DOMAIN ascii)
  /\ <<"P">> \in Seq(DOMAIN ascii) /\ <<"a">> \in Seq(DOMAIN ascii)
  BY DEF ascii

LEMMA BMPHead ==
  LET p == letters(<<"B", "M">>)
  IN  p \in Patterns /\ \A s : starts(s, p) => s[1] = 66 /\ s[2] = 77
  <1>. DEFINE w == <<"B", "M">>
  <1>1. w \in Seq(DOMAIN ascii) /\ Len(w) = 2 /\ ascii[w[1]] = 66 /\ ascii[w[2]] = 77
    BY Words DEF ascii
  <1>. HIDE DEF w
  <1>2. \A s : starts(s, letters(w)) => s[1] = 66 /\ s[2] = 77
    BY <1>1, StartsLetters
  <1>. QED  BY <1>1, <1>2, LettersPattern DEF w

LEMMA QOIHead ==
  LET p == letters(<<"q", "o", "i", "f">>)
  IN  p \in Patterns /\ \A s : starts(s, p) => s[1] = 113 /\ s[2] = 111
  <1>. DEFINE w == <<"q", "o", "i", "f">>
  <1>1. w \in Seq(DOMAIN ascii) /\ Len(w) = 4 /\ ascii[w[1]] = 113 /\ ascii[w[2]] = 111
    BY Words DEF ascii
  <1>. HIDE DEF w
  <1>2. \A s : starts(s, letters(w)) => s[1] = 113 /\ s[2] = 111
    BY <1>1, StartsLetters
  <1>. QED  BY <1>1, <1>2, LettersPattern DEF w

LEMMA PNGHead ==
  pngBytes \in Patterns /\ \A s : starts(s, pngBytes) => s[1] = 137 /\ s[2] = 80
  <1>. DEFINE w == <<137, 80, 78, 71, 13, 10, 26, 10>>
  <1>1. w \in Seq(Byte) /\ Len(w) = 8 /\ w[1] = 137 /\ w[2] = 80
    BY DEF Byte
  <1>. HIDE DEF w
  <1>2. \A s : starts(s, Exactly(w)) => s[1] = 137 /\ s[2] = 80
    BY <1>1, StartsExactly
  <1>. QED  BY <1>1, <1>2, ExactlyPattern DEF w, pngBytes

LEMMA JPEGHead ==
  LET p == Exactly(<<255, 216, 255>>)
  IN  p \in Patterns /\ \A s : starts(s, p) => s[1] = 255 /\ s[2] = 216
  <1>. DEFINE w == <<255, 216, 255>>
  <1>1. w \in Seq(Byte) /\ Len(w) = 3 /\ w[1] = 255 /\ w[2] = 216
    BY DEF Byte
  <1>. HIDE DEF w
  <1>2. \A s : starts(s, Exactly(w)) => s[1] = 255 /\ s[2] = 216
    BY <1>1, StartsExactly
  <1>. QED  BY <1>1, <1>2, ExactlyPattern DEF w

LEMMA THHead ==
  LET p == Exactly(<<195, 190, 254>>)
  IN  p \in Patterns /\ \A s : starts(s, p) => s[1] = 195 /\ s[2] = 190
  <1>. DEFINE w == <<195, 190, 254>>
  <1>1. w \in Seq(Byte) /\ Len(w) = 3 /\ w[1] = 195 /\ w[2] = 190
    BY DEF Byte
  <1>. HIDE DEF w
  <1>2. \A s : starts(s, Exactly(w)) => s[1] = 195 /\ s[2] = 190
    BY <1>1, StartsExactly
  <1>. QED  BY <1>1, <1>2, ExactlyPattern DEF w

(* Every signature and magic that begins with GIF. *)
LEMMA GIFHead ==
  ASSUME NEW rest \in Patterns
  PROVE  LET p == letters(<<"G", "I", "F">>) \o rest
         IN  /\ p \in Patterns
             /\ \A s \in Seq(Byte) : starts(s, p) => s[1] = 71 /\ s[2] = 73
  <1>. DEFINE w == <<"G", "I", "F">>
  <1>1. w \in Seq(DOMAIN ascii) /\ Len(w) = 3 /\ ascii[w[1]] = 71 /\ ascii[w[2]] = 73
    BY Words DEF ascii
  <1>. HIDE DEF w
  <1>2. letters(w) \in Patterns /\ letters(w) \o rest \in Patterns
    BY <1>1, LettersPattern, ConcatPattern
  <1>3. \A s \in Seq(Byte) : starts(s, letters(w) \o rest) => starts(s, letters(w))
    BY <1>2, StartsWithFirst
  <1>4. \A s : starts(s, letters(w)) => s[1] = 71 /\ s[2] = 73
    BY <1>1, StartsLetters
  <1>. QED  BY <1>2, <1>3, <1>4 DEF w

LEMMA WEBPHead ==
  /\ riffWebp \in Patterns
  /\ \A s \in Seq(Byte) : starts(s, riffWebp) => s[1] = 82 /\ s[2] = 73
  <1>. DEFINE w == <<"R", "I", "F", "F">>
              p == letters(w)
              q == Wildcards(4)
              r == letters(<<"W", "E", "B", "P">>)
  <1>1. w \in Seq(DOMAIN ascii) /\ Len(w) = 4 /\ ascii[w[1]] = 82 /\ ascii[w[2]] = 73
    BY Words DEF ascii
  <1>2. r \in Patterns
    BY Words, LettersPattern
  <1>3. riffWebp = (p \o q) \o r
    BY DEF riffWebp
  <1>. HIDE DEF w, q, r
  <1>4. p \in Patterns /\ q \in Patterns /\ p \o q \in Patterns
    BY <1>1, LettersPattern, WildcardsPattern, ConcatPattern DEF q
  <1>5. \A s : starts(s, p) => s[1] = 82 /\ s[2] = 73
    BY <1>1, StartsLetters
  <1>. HIDE DEF p
  <1>6. \A s \in Seq(Byte) : starts(s, riffWebp) => starts(s, p)
    BY <1>2, <1>3, <1>4, StartsWithFirst
  <1>7. riffWebp \in Patterns
    BY <1>2, <1>3, <1>4, ConcatPattern
  <1>. QED  BY <1>5, <1>6, <1>7

(* P and one more byte. *)
LEMMA PHead ==
  ASSUME NEW rest \in Patterns, Len(rest) >= 1
  PROVE  LET p == letters(<<"P">>) \o rest
         IN  /\ p \in Patterns
             /\ \A s \in Seq(Byte) : starts(s, p) => s[1] = 80 /\ s[2] \in rest[1]
  <1>. DEFINE w == <<"P">>
  <1>1. w \in Seq(DOMAIN ascii) /\ Len(w) = 1 /\ ascii[w[1]] = 80
    BY Words DEF ascii
  <1>. HIDE DEF w
  <1>2. /\ letters(w) \in Patterns /\ Len(letters(w)) = 1
        /\ letters(w) \o rest \in Patterns
    BY <1>1, LettersPattern, ConcatPattern
  <1>3. \A s : starts(s, letters(w)) => s[1] = 80
    BY <1>1, StartsLetters
  <1>4. ASSUME NEW s \in Seq(Byte), starts(s, letters(w) \o rest)
        PROVE  s[1] = 80 /\ s[2] \in rest[1]
    <2>1. /\ starts(s, letters(w))
          /\ \A i \in 1 .. Len(rest) : s[1 + i] \in rest[i]
      BY <1>2, <1>4, StartsWithFirst
    <2>2. s[1] = 80
      BY <1>3, <2>1
    <2>3. 1 \in 1 .. Len(rest)
      BY LenProperties DEF Patterns
    <2>4. s[1 + 1] \in rest[1]
      BY <2>1, <2>3
    <2>. QED  BY <2>2, <2>4
  <1>. QED  BY <1>2, <1>4 DEF w

LEMMA ETC2Head ==
  LET p == letters(<<"P", "K", "M">>) \o <<{32}>>
  IN  /\ p \in Patterns
      /\ \A s \in Seq(Byte) : starts(s, p) => s[1] = 80 /\ s[2] = 75
  <1>. DEFINE w == <<"P", "K", "M">>
              rest == <<{32}>>
  <1>1. w \in Seq(DOMAIN ascii) /\ Len(w) = 3 /\ ascii[w[1]] = 80 /\ ascii[w[2]] = 75
    BY Words DEF ascii
  <1>2. rest \in Patterns
    BY DEF Patterns, Byte
  <1>. HIDE DEF w, rest
  <1>3. letters(w) \in Patterns /\ letters(w) \o rest \in Patterns
    BY <1>1, <1>2, LettersPattern, ConcatPattern
  <1>4. \A s \in Seq(Byte) : starts(s, letters(w) \o rest) => starts(s, letters(w))
    BY <1>2, <1>3, StartsWithFirst
  <1>5. \A s : starts(s, letters(w)) => s[1] = 80 /\ s[2] = 75
    BY <1>1, StartsLetters
  <1>. QED  BY <1>3, <1>4, <1>5 DEF w, rest

LEMMA NIEHead ==
  LET p == <<{110}, {195}, {175}, {69, 65}>>
  IN  p \in Patterns /\ \A s : starts(s, p) => s[1] = 110 /\ s[2] = 195
  BY DEF Patterns, Byte, starts

----------------------------------------------------------------------------
(* One source, one format. *)

\* The one format a source can have, by its first bytes.
formatOf(s) ==
  IF s[2] \in {0, 1}
    THEN IF s[1] = 0 /\ s[2] = 0 /\ (s[3] >= 128 \/ s[4] # 0) THEN "WBMP" ELSE "TGA"
  ELSE IF s[1] = 66  THEN "BMP"
  ELSE IF s[1] = 137 THEN "PNG"
  ELSE IF s[1] = 255 THEN "JPEG"
  ELSE IF s[1] = 71  THEN "GIF"
  ELSE IF s[1] = 82  THEN "WEBP"
  ELSE IF s[1] = 113 THEN "QOI"
  ELSE IF s[1] = 110 THEN "NIE"
  ELSE IF s[1] = 80  THEN IF s[2] = 75 THEN "ETC2" ELSE "NPBM"
  ELSE IF s[1] = 195 THEN "TH" ELSE "HNSM"

(* What the signatures of each format are. *)
LEMMA SignaturesOf ==
  /\ signatures["BMP"]  = {letters(<<"B", "M">>)}
  /\ signatures["PNG"]  = {pngBytes}
  /\ signatures["JPEG"] = {Exactly(<<255, 216, 255>>)}
  /\ signatures["GIF"]  = {letters(<<"G", "I", "F">>) \o <<{56}, {55, 57}>>
                             \o letters(<<"a">>)}
  /\ signatures["WEBP"] = {riffWebp}
  /\ signatures["QOI"]  = {letters(<<"q", "o", "i", "f">>)}
  /\ signatures["NIE"]  = {<<{110}, {195}, {175}, {69, 65}>>}
  /\ signatures["NPBM"] = {letters(<<"P">>) \o <<49 .. 54, blank, Byte>>,
                           letters(<<"P">>) \o <<{54}>>}
  /\ signatures["ETC2"] = {letters(<<"P", "K", "M">>) \o <<{32}>>}
  /\ signatures["TH"]   = {Exactly(<<195, 190, 254>>)}
  BY Zenon DEF signatures

LEMMA AcceptsSignature ==
  ASSUME NEW s,
         NEW f \in {"BMP", "PNG", "JPEG", "GIF", "WEBP", "QOI", "NIE", "NPBM", "ETC2",
                    "TH"}
  PROVE  accepts(f, s) <=> \E p \in signatures[f] : starts(s, p)
  <1>1. f # "TGA" /\ f # "WBMP" /\ f # "HNSM"
    OBVIOUS
  <1>. QED  BY <1>1 DEF accepts

LEMMA AcceptsOther ==
  ASSUME NEW s
  PROVE  /\ accepts("TGA", s) <=> sniff_tga(s)
         /\ accepts("WBMP", s) <=> sniff_wbmp(s)
         /\ accepts("HNSM", s) <=> sniff_hnsm(s)
  BY DEF accepts

LEMMA FormatNames ==
  Formats = {"BMP", "PNG", "JPEG", "GIF", "WEBP", "QOI", "NIE", "NPBM", "ETC2", "TH",
             "TGA", "WBMP", "HNSM"}
  BY DEF Formats, decoderObjSize

\* The formats that have signatures.
Signed == {"BMP", "PNG", "JPEG", "GIF", "WEBP", "QOI", "NIE", "NPBM", "ETC2", "TH"}

(* The last pattern of the GIF signature. *)
LEMMA GIFSignature ==
  LET p == letters(<<"G", "I", "F">>) \o <<{56}, {55, 57}>> \o letters(<<"a">>)
  IN  /\ p \in Patterns
      /\ \A s \in Seq(Byte) : starts(s, p) => s[1] = 71 /\ s[2] = 73
  <1>. DEFINE a == letters(<<"G", "I", "F">>)
              b == <<{56}, {55, 57}>>
              c == letters(<<"a">>)
  <1>1. a \in Patterns /\ b \in Patterns /\ c \in Patterns
    <2>1. a \in Patterns /\ c \in Patterns
      BY Words, LettersPattern
    <2>2. b \in Patterns
      BY DEF Patterns, Byte
    <2>. QED  BY <2>1, <2>2
  <1>2. b \o c \in Patterns
    <2>. HIDE DEF b, c
    <2>. QED  BY <1>1, ConcatPattern
  <1>3. /\ a \o (b \o c) \in Patterns
        /\ \A s \in Seq(Byte) : starts(s, a \o (b \o c)) => s[1] = 71 /\ s[2] = 73
    <2>. HIDE DEF b, c
    <2>. QED  BY <1>2, GIFHead
  <1>4. (a \o b) \o c = a \o (b \o c)
    <2>. HIDE DEF a, b, c
    <2>. QED  BY <1>1, ConcatAssociative DEF Patterns
  <1>. QED  BY <1>3, <1>4

LEMMA NPBMSignatures ==
  /\ \A p \in signatures["NPBM"] : p \in Patterns
  /\ \A s \in Seq(Byte) : \A p \in signatures["NPBM"] :
       starts(s, p) => s[1] = 80 /\ s[2] \in 49 .. 54
  <1>. DEFINE q == <<49 .. 54, blank, Byte>>
              r == <<{54}>>
              P == letters(<<"P">>)
  <1>1. q \in Patterns /\ Len(q) >= 1 /\ q[1] = 49 .. 54
    BY DEF Patterns, Byte, blank
  <1>2. r \in Patterns /\ Len(r) >= 1 /\ r[1] = {54}
    BY DEF Patterns, Byte
  <1>3. signatures["NPBM"] = {P \o q, P \o r}
    BY SignaturesOf
  <1>. HIDE DEF q, r
  <1>4. /\ P \o q \in Patterns
        /\ \A s \in Seq(Byte) : starts(s, P \o q) => s[1] = 80 /\ s[2] \in q[1]
    BY <1>1, PHead
  <1>5. /\ P \o r \in Patterns
        /\ \A s \in Seq(Byte) : starts(s, P \o r) => s[1] = 80 /\ s[2] \in r[1]
    BY <1>2, PHead
  <1>. HIDE DEF P
  <1>6. \A s \in Seq(Byte) : starts(s, P \o r) => s[1] = 80 /\ s[2] \in 49 .. 54
    BY <1>2, <1>5
  <1>. QED  BY <1>1, <1>3, <1>4, <1>5, <1>6

(* What formatOf says of the first two bytes. *)
LEMMA FormatByHead ==
  ASSUME NEW s
  PROVE  /\ s[1] = 66 /\ s[2] = 77 => formatOf(s) = "BMP"
         /\ s[1] = 137 /\ s[2] = 80 => formatOf(s) = "PNG"
         /\ s[1] = 255 /\ s[2] = 216 => formatOf(s) = "JPEG"
         /\ s[1] = 71 /\ s[2] = 73 => formatOf(s) = "GIF"
         /\ s[1] = 82 /\ s[2] = 73 => formatOf(s) = "WEBP"
         /\ s[1] = 113 /\ s[2] = 111 => formatOf(s) = "QOI"
         /\ s[1] = 110 /\ s[2] = 195 => formatOf(s) = "NIE"
         /\ s[1] = 80 /\ s[2] = 75 => formatOf(s) = "ETC2"
         /\ s[1] = 195 /\ s[2] = 190 => formatOf(s) = "TH"
         /\ s[1] = 80 /\ s[2] \in 49 .. 54 => formatOf(s) = "NPBM"
         /\ s[1] = 254 /\ s[2] \in {214, 215} => formatOf(s) = "HNSM"
  <1>. DEFINE a == s[1]
              b == s[2]
              other == IF s[1] = 0 /\ s[2] = 0 /\ (s[3] >= 128 \/ s[4] # 0)
                         THEN "WBMP" ELSE "TGA"
  <1>1. formatOf(s) = IF b \in {0, 1} THEN other
                      ELSE IF a = 66  THEN "BMP"
                      ELSE IF a = 137 THEN "PNG"
                      ELSE IF a = 255 THEN "JPEG"
                      ELSE IF a = 71  THEN "GIF"
                      ELSE IF a = 82  THEN "WEBP"
                      ELSE IF a = 113 THEN "QOI"
                      ELSE IF a = 110 THEN "NIE"
                      ELSE IF a = 80  THEN IF b = 75 THEN "ETC2" ELSE "NPBM"
                      ELSE IF a = 195 THEN "TH" ELSE "HNSM"
    BY Zenon DEF formatOf
  <1>. HIDE DEF a, b, other
  <1>2. /\ a = 80 /\ b \in 49 .. 54 => formatOf(s) = "NPBM"
        /\ a = 254 /\ b \in {214, 215} => formatOf(s) = "HNSM"
    BY <1>1
  <1>. QED  BY <1>1, <1>2 DEF a, b

(* Each signature is a pattern that begins as formatOf says. *)
signedOK(f) ==
  /\ signatures[f] \subseteq Patterns
  /\ \A s \in Seq(Byte) : \A p \in signatures[f] : starts(s, p) => formatOf(s) = f

LEMMA SignaturesOK == \A f \in Signed : signedOK(f)
  <1>1. signedOK("BMP")
    <2>. DEFINE p == letters(<<"B", "M">>)
    <2>1. signatures["BMP"] = {p}
      BY SignaturesOf, Zenon
    <2>2. p \in Patterns /\ \A s \in Seq(Byte) : starts(s, p) => s[1] = 66 /\ s[2] = 77
      BY BMPHead, Zenon
    <2>. HIDE DEF p
    <2>. QED  BY <2>1, <2>2, FormatByHead DEF signedOK
  <1>2. signedOK("PNG")
    <2>. DEFINE p == pngBytes
    <2>1. signatures["PNG"] = {p}
      BY SignaturesOf, Zenon
    <2>2. p \in Patterns /\ \A s \in Seq(Byte) : starts(s, p) => s[1] = 137 /\ s[2] = 80
      BY PNGHead, ZenonT(30)
    <2>. HIDE DEF p
    <2>. QED  BY <2>1, <2>2, FormatByHead DEF signedOK
  <1>3. signedOK("JPEG")
    <2>. DEFINE p == Exactly(<<255, 216, 255>>)
    <2>1. signatures["JPEG"] = {p}
      BY SignaturesOf, Zenon
    <2>2. p \in Patterns /\ \A s : starts(s, p) => s[1] = 255 /\ s[2] = 216
      BY JPEGHead, Zenon
    <2>. HIDE DEF p
    <2>. QED  BY <2>1, <2>2, FormatByHead DEF signedOK
  <1>4. signedOK("GIF")
    <2>. DEFINE p == letters(<<"G", "I", "F">>) \o <<{56}, {55, 57}>>
                     \o letters(<<"a">>)
    <2>1. signatures["GIF"] = {p}
      BY SignaturesOf, Zenon
    <2>2. p \in Patterns /\ \A s \in Seq(Byte) : starts(s, p) => s[1] = 71 /\ s[2] = 73
      BY GIFSignature, Zenon
    <2>. HIDE DEF p
    <2>. QED  BY <2>1, <2>2, FormatByHead DEF signedOK
  <1>5. signedOK("WEBP")
    <2>. DEFINE p == riffWebp
    <2>1. signatures["WEBP"] = {p}
      BY SignaturesOf, Zenon
    <2>2. p \in Patterns /\ \A s \in Seq(Byte) : starts(s, p) => s[1] = 82 /\ s[2] = 73
      BY WEBPHead, Zenon
    <2>. HIDE DEF p
    <2>. QED  BY <2>1, <2>2, FormatByHead DEF signedOK
  <1>6. signedOK("QOI")
    <2>. DEFINE p == letters(<<"q", "o", "i", "f">>)
    <2>1. signatures["QOI"] = {p}
      BY SignaturesOf, Zenon
    <2>2. p \in Patterns /\ \A s \in Seq(Byte) : starts(s, p) => s[1] = 113 /\ s[2] = 111
      BY QOIHead, ZenonT(30)
    <2>. HIDE DEF p
    <2>. QED  BY <2>1, <2>2, FormatByHead DEF signedOK
  <1>7. signedOK("NIE")
    <2>. DEFINE p == <<{110}, {195}, {175}, {69, 65}>>
    <2>1. signatures["NIE"] = {p}
      BY SignaturesOf, Zenon
    <2>2. p \in Patterns /\ \A s : starts(s, p) => s[1] = 110 /\ s[2] = 195
      BY NIEHead, Zenon
    <2>. HIDE DEF p
    <2>. QED  BY <2>1, <2>2, FormatByHead DEF signedOK
  <1>8. signedOK("ETC2")
    <2>. DEFINE p == letters(<<"P", "K", "M">>) \o <<{32}>>
    <2>1. signatures["ETC2"] = {p}
      BY SignaturesOf, Zenon
    <2>2. p \in Patterns /\ \A s \in Seq(Byte) : starts(s, p) => s[1] = 80 /\ s[2] = 75
      BY ETC2Head, Zenon
    <2>. HIDE DEF p
    <2>. QED  BY <2>1, <2>2, FormatByHead DEF signedOK
  <1>9. signedOK("TH")
    <2>. DEFINE p == Exactly(<<195, 190, 254>>)
    <2>1. signatures["TH"] = {p}
      BY SignaturesOf, Zenon
    <2>2. p \in Patterns /\ \A s : starts(s, p) => s[1] = 195 /\ s[2] = 190
      BY THHead, Zenon
    <2>. HIDE DEF p
    <2>. QED  BY <2>1, <2>2, FormatByHead DEF signedOK
  <1>10. signedOK("NPBM")
    BY NPBMSignatures, FormatByHead DEF signedOK
  <1>. QED
    BY <1>1, <1>2, <1>3, <1>4, <1>5, <1>6, <1>7, <1>8, <1>9, <1>10 DEF Signed

(* The heuristics leave the first four bytes of a TGA, WBMP or Handsum source. *)
LEMMA TGAFormat ==
  ASSUME NEW s \in Seq(Byte), sniff_tga(s)
  PROVE  formatOf(s) = "TGA"
  <1>. DEFINE a == s[1]
              b == s[2]
              c == s[3]
              d == s[4]
  <1>1. c \in {1, 2, 3, 9, 10, 11} /\ mapFieldsOK(s)
    BY DEF sniff_tga, tgaHeaderOK
  <1>2. d = 0 /\ (b = 1 \/ b = 0)
    <2>1. 4 \in 4 .. 8
      OBVIOUS
    <2>. QED  BY <1>1, <2>1 DEF mapFieldsOK
  <1>3. formatOf(s) = IF b \in {0, 1}
                        THEN IF a = 0 /\ b = 0 /\ (c >= 128 \/ d # 0)
                               THEN "WBMP" ELSE "TGA"
                        ELSE formatOf(s)
    BY Zenon DEF formatOf
  <1>. HIDE DEF a, b, c, d
  <1>. QED  BY <1>1, <1>2, <1>3

LEMMA WBMPFormat ==
  ASSUME NEW s \in Seq(Byte), sniff_wbmp(s)
  PROVE  formatOf(s) = "WBMP"
  <1>1. s[1] = 0 /\ s[2] = 0 /\ Len(s) >= 4 /\ dimension(s, 3) # 0
        /\ dimension(s, dimension(s, 3)) # 0
    BY DEF sniff_wbmp
  <1>2. PICK n \in 1 .. 4 : readsNumber(s, 3, n) /\ dimension(s, 3) = 3 + n
    BY <1>1, DimensionReads
  <1>. DEFINE c == s[3]
              d == s[4]
  <1>3. c \in 0 .. 255 /\ d \in 0 .. 255
    BY <1>1, SourceBytes
  <1>4. c >= 128 \/ d # 0
    <2>1. CASE n = 1
      <3>1. 3 + n = 4
        BY <2>1
      <3>2. PICK m \in 1 .. 4 : readsNumber(s, 4, m)
        BY <1>1, <1>2, <3>1, DimensionReads
      <3>3. CASE m = 1
        <4>1. groupsValue(s, 4, 4) \in 1 .. MaxDimension
          BY <3>2, <3>3 DEF readsNumber
        <4>2. groupsValue(s, 4, 4) = d % 128
          <5>1. \A i \in 4 .. 4 : s[i] \in 0 .. 255
            BY <1>3
          <5>. QED  BY <5>1, GroupsValue, SMTT(30)
        <4>. HIDE DEF d
        <4>3. d = 0 => d % 128 = 0
          OBVIOUS
        <4>4. MaxDimension \in Nat
          BY DEF MaxDimension
        <4>. QED  BY <4>1, <4>2, <4>3, <4>4
      <3>4. CASE m # 1
        <4>1. 4 \in 4 .. 4 + m - 2
          BY <3>4
        <4>2. d >= 128
          BY <3>2, <4>1 DEF readsNumber
        <4>. HIDE DEF d
        <4>. QED  BY <4>2
      <3>. QED  BY <3>3, <3>4
    <2>2. CASE n # 1
      <3>1. 3 \in 3 .. 3 + n - 2
        BY <2>2
      <3>. QED  BY <1>2, <3>1 DEF readsNumber
    <2>. QED  BY <2>1, <2>2
  <1>5. formatOf(s) = IF s[2] \in {0, 1}
                        THEN IF s[1] = 0 /\ s[2] = 0 /\ (c >= 128 \/ d # 0)
                               THEN "WBMP" ELSE "TGA"
                        ELSE formatOf(s)
    BY Zenon DEF formatOf
  <1>. HIDE DEF c, d
  <1>. QED  BY <1>1, <1>4, <1>5

LEMMA HandsumFormat ==
  ASSUME NEW s \in Seq(Byte), sniff_hnsm(s)
  PROVE  formatOf(s) = "HNSM"
  <1>. DEFINE a == s[1]
              b == s[2]
              c == s[3]
              c32 == a * 65536 + b * 256 + c
  <1>1. a \in 0 .. 255 /\ b \in 0 .. 255 /\ c \in 0 .. 255
    BY SourceBytes DEF sniff_hnsm
  <1>2. c32 \div 512 = 32619
    BY SMT DEF sniff_hnsm, hnsmTopBits
  <1>3. a = 254 /\ b \in {214, 215}
    <2>. HIDE DEF a, b, c
    <2>1. a * 128 + (b \div 2) = 32619
      BY <1>1, <1>2, SMT
    <2>. QED  BY <1>1, <2>1, SMT
  <1>. QED  BY <1>3, FormatByHead

(* Whatever sniff_fourcc's tests accept has the format its first bytes say. *)
LEMMA AcceptedFormat ==
  ASSUME NEW s \in Seq(Byte), NEW f \in Formats, accepts(f, s)
  PROVE  f = formatOf(s)
  <1>1. CASE f \in Signed
    <2>1. PICK p \in signatures[f] : starts(s, p)
      BY <1>1, AcceptsSignature DEF Signed
    <2>. QED  BY <1>1, <2>1, SignaturesOK DEF signedOK
  <1>2. CASE f = "TGA"
    BY <1>2, AcceptsOther, TGAFormat
  <1>3. CASE f = "WBMP"
    BY <1>3, AcceptsOther, WBMPFormat
  <1>4. CASE f = "HNSM"
    BY <1>4, AcceptsOther, HandsumFormat
  <1>. QED  BY <1>1, <1>2, <1>3, <1>4, FormatNames DEF Signed

(* No source passes the tests of two formats (OneFormatOnly). *)
THEOREM EverySourceHasOneFormat == Spec => []OneFormatOnly
  <1>1. SourceInv => OneFormatOnly
    BY AcceptedFormat, Zenon DEF SourceInv, OneFormatOnly
  <1>. QED  BY <1>1, SourceInvariant, PTL

----------------------------------------------------------------------------
(* What sniff_fourcc answers. *)

(* order names every format once. *)
LEMMA OrderNames ==
  /\ Len(order) = 13
  /\ \A i \in 1 .. 13 : order[i] \in Formats
  /\ \A f \in Formats : \E i \in 1 .. 13 : order[i] = f
  /\ \A i, j \in 1 .. 13 : order[i] = order[j] => i = j
  <1>1. /\ order[1] = "BMP" /\ order[2] = "PNG" /\ order[3] = "JPEG"
        /\ order[4] = "GIF" /\ order[5] = "WEBP" /\ order[6] = "QOI"
        /\ order[7] = "NIE" /\ order[8] = "NPBM" /\ order[9] = "ETC2"
        /\ order[10] = "TH" /\ order[11] = "TGA" /\ order[12] = "WBMP"
        /\ order[13] = "HNSM"
    BY DEF order
  <1>2. Len(order) = 13
    BY DEF order
  <1>. DEFINE places == {1, 2, 3, 4, 5, 6, 7, 8, 9, 10, 11, 12, 13}
  <1>3. 1 .. 13 = places
    OBVIOUS
  <1>4. \A i \in places : order[i] \in Formats
    BY <1>1, FormatNames
  <1>5. \A f \in Formats : \E i \in places : order[i] = f
    BY <1>1, FormatNames
  <1>6. \A i, j \in places : order[i] = order[j] => i = j
    BY <1>1
  <1>. QED  BY <1>2, <1>3, <1>4, <1>5, <1>6

(* It answers the source's one format when a test accepts the source, and none when
   no test does. *)
LEMMA Answer ==
  ASSUME NEW s \in Seq(Byte)
  PROVE  IF \E f \in Formats : accepts(f, s)
           THEN sniff_fourcc(s) = formatOf(s) /\ accepts(formatOf(s), s)
           ELSE sniff_fourcc(s) = noFormat
  <1>. DEFINE hits == {i \in 1 .. Len(order) : accepts(order[i], s)}
              first == IF hits # {} THEN Min(hits) ELSE 0
  <1>1. sniff_fourcc(s) = IF first = 0 THEN noFormat ELSE order[first]
    BY Zenon DEF sniff_fourcc, SelectInSeq
  <1>2. CASE \E f \in Formats : accepts(f, s)
    <2>1. PICK f \in Formats : accepts(f, s)
      BY <1>2
    <2>2. f = formatOf(s)
      BY <2>1, AcceptedFormat
    <2>3. PICK i \in 1 .. 13 : order[i] = f
      BY OrderNames
    <2>4. \A j \in hits : j = i
      <3>. SUFFICES ASSUME NEW j \in 1 .. 13, accepts(order[j], s) PROVE j = i
        BY OrderNames
      <3>1. order[j] = formatOf(s)
        BY OrderNames, AcceptedFormat
      <3>. QED  BY <2>2, <2>3, <3>1, OrderNames
    <2>5. i \in hits
      BY <2>1, <2>3, OrderNames
    <2>. HIDE DEF hits
    <2>6. hits = {i}
      BY <2>4, <2>5
    <2>7. Min({i}) = i
      BY DEF Min
    <2>8. first = i
      BY <2>6, <2>7
    <2>. HIDE DEF first
    <2>. QED  BY <1>1, <1>2, <2>1, <2>2, <2>3, <2>8
  <1>3. CASE ~ \E f \in Formats : accepts(f, s)
    <2>1. hits = {}
      BY <1>3, OrderNames
    <2>2. first = 0
      BY <2>1
    <2>. HIDE DEF first
    <2>. QED  BY <1>1, <1>3, <2>2
  <1>. QED  BY <1>2, <1>3

----------------------------------------------------------------------------
(* The magics. *)

(* The bytes of a magic made of two parts. *)
LEMMA TwoPartMagic ==
  ASSUME NEW w \in Seq(Byte), NEW rest \in Seq(Byte)
  PROVE  \A s : starts(s, Exactly(w \o rest)) => \A i \in 1 .. Len(w) : s[i] = w[i]
  <1>. SUFFICES ASSUME NEW s, starts(s, Exactly(w \o rest))
                PROVE  \A i \in 1 .. Len(w) : s[i] = w[i]
    OBVIOUS
  <1>1. /\ w \o rest \in Seq(Byte)
        /\ Len(w) \in Nat /\ Len(rest) \in Nat
        /\ Len(w \o rest) = Len(w) + Len(rest)
        /\ \A i \in 1 .. Len(w) + Len(rest) : i <= Len(w) => (w \o rest)[i] = w[i]
    BY ConcatProperties, LenProperties
  <1>. DEFINE whole == w \o rest
  <1>2. \A i \in 1 .. Len(whole) : s[i] = whole[i]
    <2>. whole \in Seq(Byte) /\ starts(s, Exactly(whole))
      BY <1>1
    <2>. HIDE DEF whole
    <2>. QED  BY StartsExactly
  <1>. QED  BY <1>1, <1>2

(* What formatOf says of a source that begins with a zero. *)
LEMMA FormatOfZero ==
  ASSUME NEW s, s[1] = 0
  PROVE  /\ s[2] = 0 /\ s[3] = 30 /\ s[4] = 20 => formatOf(s) = "WBMP"
         /\ s[2] = 0 /\ s[3] = 129 => formatOf(s) = "WBMP"
         /\ s[2] = 0 /\ s[3] \in {2, 11} /\ s[4] = 0 => formatOf(s) = "TGA"
         /\ s[2] = 1 => formatOf(s) = "TGA"
  <1>. DEFINE b == s[2]
              c == s[3]
              d == s[4]
  <1>1. formatOf(s) = IF b \in {0, 1}
                        THEN IF s[1] = 0 /\ b = 0 /\ (c >= 128 \/ d # 0)
                               THEN "WBMP" ELSE "TGA"
                        ELSE formatOf(s)
    BY Zenon DEF formatOf
  <1>. HIDE DEF b, c, d
  <1>2. /\ b = 0 /\ c = 30 /\ d = 20 => formatOf(s) = "WBMP"
        /\ b = 0 /\ c = 129 => formatOf(s) = "WBMP"
        /\ b = 0 /\ c \in {2, 11} /\ d = 0 => formatOf(s) = "TGA"
        /\ b = 1 => formatOf(s) = "TGA"
    BY <1>1
  <1>. QED  BY <1>2 DEF b, c, d

(* The three headers of the TGA magics. *)
LEMMA TGAMagic ==
  ASSUME NEW s, NEW p \in tgaMagics, starts(s, p)
  PROVE  formatOf(s) = "TGA"
  <1>. DEFINE deep == <<0, 0, 0, 0, 160, 0, 120, 0, 24, 32>>
              flat == <<0, 0, 0, 0, 160, 0, 120, 0, 8, 32>>
              start1 == <<0, 0, 2, 0, 0, 0, 0, 0>>
              start2 == <<0, 1, 1, 0, 0, 0, 1, 24>>
              start3 == <<0, 0, 11, 0, 0, 0, 0, 0>>
  <1>1. \/ p = Exactly(start1 \o deep)
        \/ p = Exactly(start2 \o flat)
        \/ p = Exactly(start3 \o flat)
    BY Zenon DEF tgaMagics
  <1>2. deep \in Seq(Byte) /\ flat \in Seq(Byte)
        /\ start1 \in Seq(Byte) /\ start2 \in Seq(Byte) /\ start3 \in Seq(Byte)
    BY DEF Byte
  <1>3. start1 \in Seq(Byte) /\ Len(start1) = 8
        /\ start1[1] = 0 /\ start1[2] = 0 /\ start1[3] = 2 /\ start1[4] = 0
    BY DEF Byte
  <1>4. start2 \in Seq(Byte) /\ Len(start2) = 8
        /\ start2[1] = 0 /\ start2[2] = 1
    BY DEF Byte
  <1>5. start3 \in Seq(Byte) /\ Len(start3) = 8
        /\ start3[1] = 0 /\ start3[2] = 0 /\ start3[3] = 11 /\ start3[4] = 0
    BY DEF Byte
  <1>6. 1 \in 1 .. 8 /\ 2 \in 1 .. 8 /\ 3 \in 1 .. 8 /\ 4 \in 1 .. 8
    OBVIOUS
  <1>. HIDE DEF deep, flat, start1, start2, start3
  <1>. DEFINE begins(w, rest) == \A x : starts(x, Exactly(w \o rest)) =>
                                          \A i \in 1 .. Len(w) : x[i] = w[i]
  <1>7. \A w, rest \in Seq(Byte) : begins(w, rest)
    BY TwoPartMagic
  <1>8. begins(start1, deep) /\ begins(start2, flat) /\ begins(start3, flat)
    <2>. HIDE DEF begins
    <2>. QED  BY <1>2, <1>7
  <1>9. CASE p = Exactly(start1 \o deep)
    <2>. starts(s, Exactly(start1 \o deep))
      BY <1>9
    <2>1. \A i \in 1 .. Len(start1) : s[i] = start1[i]
      BY <1>8
    <2>2. s[1] = 0 /\ s[2] = 0 /\ s[3] = 2 /\ s[4] = 0
      BY <1>3, <1>6, <2>1
    <2>. QED  BY <2>2, FormatOfZero
  <1>10. CASE p = Exactly(start2 \o flat)
    <2>. starts(s, Exactly(start2 \o flat))
      BY <1>10
    <2>1. \A i \in 1 .. Len(start2) : s[i] = start2[i]
      BY <1>8
    <2>2. s[1] = 0 /\ s[2] = 1
      BY <1>4, <1>6, <2>1
    <2>. QED  BY <2>2, FormatOfZero
  <1>11. CASE p = Exactly(start3 \o flat)
    <2>. starts(s, Exactly(start3 \o flat))
      BY <1>11
    <2>1. \A i \in 1 .. Len(start3) : s[i] = start3[i]
      BY <1>8
    <2>2. s[1] = 0 /\ s[2] = 0 /\ s[3] = 11 /\ s[4] = 0
      BY <1>5, <1>6, <2>1
    <2>. QED  BY <2>2, FormatOfZero
  <1>. QED  BY <1>1, <1>9, <1>10, <1>11

LEMMA WBMPMagic ==
  ASSUME NEW s, NEW p \in {Exactly(<<0, 0, 30, 20>>), Exactly(<<0, 0, 129, 32, 120>>)},
         starts(s, p)
  PROVE  formatOf(s) = "WBMP"
  <1>. DEFINE u == <<0, 0, 30, 20>>
              v == <<0, 0, 129, 32, 120>>
  <1>0. u \in Seq(Byte) /\ v \in Seq(Byte)
    BY DEF Byte
  <1>1. u \in Seq(Byte) /\ Len(u) = 4 /\ u[1] = 0 /\ u[2] = 0 /\ u[3] = 30 /\ u[4] = 20
    BY DEF Byte
  <1>2. v \in Seq(Byte) /\ Len(v) = 5 /\ v[1] = 0 /\ v[2] = 0 /\ v[3] = 129
    BY DEF Byte
  <1>3. p = Exactly(u) \/ p = Exactly(v)
    BY Zenon
  <1>4. /\ 1 \in 1 .. 4 /\ 2 \in 1 .. 4 /\ 3 \in 1 .. 4 /\ 4 \in 1 .. 4
        /\ 1 \in 1 .. 5 /\ 2 \in 1 .. 5 /\ 3 \in 1 .. 5
    OBVIOUS
  <1>. HIDE DEF u, v
  <1>5. CASE p = Exactly(u)
    <2>. starts(s, Exactly(u))
      BY <1>5
    <2>1. \A i \in 1 .. Len(u) : s[i] = u[i]
      BY <1>0, StartsExactly, Zenon
    <2>2. s[1] = 0 /\ s[2] = 0 /\ s[3] = 30 /\ s[4] = 20
      BY <1>1, <1>4, <2>1
    <2>. QED  BY <2>2, FormatOfZero
  <1>6. CASE p = Exactly(v)
    <2>. starts(s, Exactly(v))
      BY <1>6
    <2>1. \A i \in 1 .. Len(v) : s[i] = v[i]
      BY <1>0, StartsExactly, Zenon
    <2>2. s[1] = 0 /\ s[2] = 0 /\ s[3] = 129
      BY <1>2, <1>4, <2>1
    <2>. QED  BY <2>2, FormatOfZero
  <1>. QED  BY <1>3, <1>5, <1>6

LEMMA NPBMMagic ==
  ASSUME NEW s, NEW p \in {Exactly(<<80, 53>>), Exactly(<<80, 54>>)}, starts(s, p)
  PROVE  formatOf(s) = "NPBM"
  <1>. DEFINE u == <<80, 53>>
              v == <<80, 54>>
  <1>0. u \in Seq(Byte) /\ v \in Seq(Byte)
    BY DEF Byte
  <1>1. /\ u \in Seq(Byte) /\ Len(u) = 2 /\ u[1] = 80 /\ u[2] = 53
        /\ v \in Seq(Byte) /\ Len(v) = 2 /\ v[1] = 80 /\ v[2] = 54
    BY DEF Byte
  <1>2. p = Exactly(u) \/ p = Exactly(v)
    BY Zenon
  <1>3. 1 \in 1 .. 2 /\ 2 \in 1 .. 2
    OBVIOUS
  <1>. HIDE DEF u, v
  <1>4. s[1] = 80 /\ s[2] \in {53, 54}
    <2>1. CASE p = Exactly(u)
      <3>. starts(s, Exactly(u))
        BY <2>1
      <3>1. \A i \in 1 .. Len(u) : s[i] = u[i]
        BY <1>0, StartsExactly, Zenon
      <3>. QED  BY <1>1, <1>3, <3>1
    <2>2. CASE p = Exactly(v)
      <3>. starts(s, Exactly(v))
        BY <2>2
      <3>1. \A i \in 1 .. Len(v) : s[i] = v[i]
        BY <1>0, StartsExactly, Zenon
      <3>. QED  BY <1>1, <1>3, <3>1
    <2>. QED  BY <1>2, <2>1, <2>2
  <1>5. s[2] \in 49 .. 54
    BY <1>4
  <1>. QED  BY <1>4, <1>5, FormatByHead

LEMMA NIEMagic ==
  ASSUME NEW s, starts(s, Exactly(<<110, 195, 175, 69>>))
  PROVE  formatOf(s) = "NIE"
  <1>. DEFINE w == <<110, 195, 175, 69>>
  <1>1. w \in Seq(Byte) /\ Len(w) = 4 /\ w[1] = 110 /\ w[2] = 195
    BY DEF Byte
  <1>2. 1 \in 1 .. 4 /\ 2 \in 1 .. 4
    OBVIOUS
  <1>. HIDE DEF w
  <1>3. s[1] = 110 /\ s[2] = 195
    <2>1. starts(s, Exactly(w))
      BY Zenon DEF w
    <2>. QED  BY <1>1, <1>2, <2>1, StartsExactly
  <1>. QED  BY <1>3, FormatByHead

LEMMA GIFMagic ==
  ASSUME NEW s \in Seq(Byte), starts(s, letters(<<"G", "I", "F">>) \o <<{56}>>)
  PROVE  formatOf(s) = "GIF"
  <1>. DEFINE rest == <<{56}>>
  <1>1. rest \in Patterns
    BY DEF Patterns, Byte
  <1>2. starts(s, letters(<<"G", "I", "F">>) \o rest)
    BY Zenon
  <1>. HIDE DEF rest
  <1>3. s[1] = 71 /\ s[2] = 73
    BY <1>1, <1>2, GIFHead
  <1>. QED  BY <1>3, FormatByHead

(* The magics of the formats that have the guest's own signatures, and the others. *)
LEMMA MagicsOf ==
  /\ \A f \in {"BMP", "PNG", "JPEG", "WEBP", "QOI", "ETC2", "TH"} :
       magics[f] = signatures[f]
  /\ magics["GIF"] = {letters(<<"G", "I", "F">>) \o <<{56}>>}
  /\ magics["NIE"] = {Exactly(<<110, 195, 175, 69>>)}
  /\ magics["NPBM"] = {Exactly(<<80, 53>>), Exactly(<<80, 54>>)}
  /\ magics["WBMP"] = {Exactly(<<0, 0, 30, 20>>), Exactly(<<0, 0, 129, 32, 120>>)}
  /\ magics["TGA"] = tgaMagics
  /\ magics["HNSM"] = {}
  <1>1. /\ magics["BMP"] = {letters(<<"B", "M">>)}
        /\ magics["PNG"] = {pngBytes}
        /\ magics["JPEG"] = {Exactly(<<255, 216, 255>>)}
        /\ magics["WEBP"] = {riffWebp}
        /\ magics["QOI"] = {letters(<<"q", "o", "i", "f">>)}
        /\ magics["ETC2"] = {letters(<<"P", "K", "M">>) \o <<{32}>>}
        /\ magics["TH"] = {Exactly(<<195, 190, 254>>)}
    BY Zenon DEF magics
  <1>2. \A f \in {"BMP", "PNG", "JPEG", "WEBP", "QOI", "ETC2", "TH"} :
          magics[f] = signatures[f]
    <2>. DEFINE same(f) == magics[f] = signatures[f]
    <2>1. same("BMP") /\ same("PNG") /\ same("JPEG") /\ same("WEBP")
          /\ same("QOI") /\ same("ETC2") /\ same("TH")
      BY <1>1, SignaturesOf, ZenonT(30)
    <2>. HIDE DEF same
    <2>2. \A f \in {"BMP", "PNG", "JPEG", "WEBP", "QOI", "ETC2", "TH"} : same(f)
      BY <2>1
    <2>. QED  BY <2>2, Zenon DEF same
  <1>3. /\ magics["GIF"] = {letters(<<"G", "I", "F">>) \o <<{56}>>}
        /\ magics["NIE"] = {Exactly(<<110, 195, 175, 69>>)}
        /\ magics["NPBM"] = {Exactly(<<80, 53>>), Exactly(<<80, 54>>)}
        /\ magics["WBMP"] = {Exactly(<<0, 0, 30, 20>>), Exactly(<<0, 0, 129, 32, 120>>)}
        /\ magics["TGA"] = tgaMagics
        /\ magics["HNSM"] = {}
    BY Zenon DEF magics
  <1>. QED  BY <1>2, <1>3, Zenon

(* A magic sends to this module only sources that begin as its format's do. *)
LEMMA RoutedFormat ==
  ASSUME NEW s \in Seq(Byte), NEW f \in routed(s)
  PROVE  f = formatOf(s) /\ f \in Formats
  <1>1. CASE f = "HNSM" /\ Len(s) >= 3 /\ SubSeq(s, 1, 3) \in hnsmMagics
    <2>1. sniff_hnsm(s)
      BY <1>1, HandsumHeader, Zenon
    <2>. QED  BY <1>1, <2>1, HandsumFormat, FormatNames
  <1>2. CASE f \in Formats /\ \E p \in magics[f] : starts(s, p)
    <2>1. PICK p \in magics[f] : starts(s, p)
      BY <1>2
    <2>2. CASE f \in {"BMP", "PNG", "JPEG", "WEBP", "QOI", "ETC2", "TH"}
      <3>1. p \in signatures[f]
        BY <2>1, <2>2, MagicsOf, ZenonT(30)
      <3>. QED  BY <1>2, <2>1, <2>2, <3>1, SignaturesOK DEF signedOK, Signed
    <2>3. CASE f = "GIF"
      <3>1. p = letters(<<"G", "I", "F">>) \o <<{56}>>
        BY <2>1, <2>3, MagicsOf, Zenon
      <3>2. formatOf(s) = "GIF"
        BY <2>1, <3>1, GIFMagic, Zenon
      <3>. QED  BY <1>2, <2>3, <3>2
    <2>4. CASE f = "NIE"
      <3>1. p = Exactly(<<110, 195, 175, 69>>)
        BY <2>1, <2>4, MagicsOf, Zenon
      <3>2. formatOf(s) = "NIE"
        BY <2>1, <3>1, NIEMagic, Zenon
      <3>. QED  BY <1>2, <2>4, <3>2
    <2>5. CASE f = "NPBM"
      <3>1. p \in {Exactly(<<80, 53>>), Exactly(<<80, 54>>)}
        BY <2>1, <2>5, MagicsOf, Zenon
      <3>2. formatOf(s) = "NPBM"
        BY <2>1, <3>1, NPBMMagic, Zenon
      <3>. QED  BY <1>2, <2>5, <3>2
    <2>6. CASE f = "WBMP"
      <3>1. p \in {Exactly(<<0, 0, 30, 20>>), Exactly(<<0, 0, 129, 32, 120>>)}
        BY <2>1, <2>6, MagicsOf, Zenon
      <3>2. formatOf(s) = "WBMP"
        BY <2>1, <3>1, WBMPMagic, Zenon
      <3>. QED  BY <1>2, <2>6, <3>2
    <2>7. CASE f = "TGA"
      <3>1. p \in tgaMagics
        BY <2>1, <2>7, MagicsOf, Zenon
      <3>2. formatOf(s) = "TGA"
        BY <2>1, <3>1, TGAMagic, Zenon
      <3>. QED  BY <1>2, <2>7, <3>2
    <2>8. CASE f = "HNSM"
      BY <2>1, <2>8, MagicsOf, Zenon
    <2>. QED  BY <1>2, <2>2, <2>3, <2>4, <2>5, <2>6, <2>7, <2>8, FormatNames
  <1>. QED  BY <1>1, <1>2, Zenon DEF routed

(* A magic never sends a source to this module under a name the guest contradicts
   (MagicsAgreeWithGuest). *)
THEOREM MagicsNeverMislead == Spec => []MagicsAgreeWithGuest
  <1>1. ASSUME SourceInv, NEW f \in routed(src)
        PROVE  routed(src) = {f} /\ sniff_fourcc(src) \in {f, noFormat}
    <2>1. src \in Seq(Byte)
      BY <1>1 DEF SourceInv
    <2>2. \A g \in routed(src) : g = formatOf(src)
      BY <2>1, RoutedFormat, Zenon
    <2>3. sniff_fourcc(src) = formatOf(src) \/ sniff_fourcc(src) = noFormat
      BY <2>1, Answer, Zenon
    <2>. QED  BY <1>1, <2>2, <2>3, Zenon
  <1>2. SourceInv => MagicsAgreeWithGuest
    BY <1>1, Zenon DEF MagicsAgreeWithGuest
  <1>. QED  BY <1>2, SourceInvariant, PTL

----------------------------------------------------------------------------
(* Reading on. *)

(* One byte more. *)
LEMMA OneMore ==
  ASSUME NEW s \in Seq(Byte), NEW b \in Byte
  PROVE  /\ Append(s, b) \in Seq(Byte)
         /\ Len(Append(s, b)) = Len(s) + 1
         /\ \A i \in 1 .. Len(s) : Append(s, b)[i] = s[i]
  BY AppendProperties

(* A number sniff_wbmp has read does not depend on what follows it. *)
LEMMA NumberGrows ==
  ASSUME NEW s \in Seq(Byte), NEW b \in Byte, NEW first \in Nat, first > 0,
         NEW n \in 1 .. 4, readsNumber(s, first, n)
  PROVE  readsNumber(Append(s, b), first, n)
  <1>. DEFINE t == Append(s, b)
              last == first + n - 1
  <1>1. /\ t \in Seq(Byte)
        /\ Len(t) = Len(s) + 1
        /\ \A i \in 1 .. Len(s) : t[i] = s[i]
    BY OneMore, Zenon
  <1>2. Len(s) \in Nat /\ \A i \in 1 .. Len(s) : s[i] \in 0 .. 255
    BY SourceBytes
  <1>3. last <= Len(s) /\ last \in first .. first + 3
    BY DEF readsNumber
  <1>4. \A i \in first .. last : i \in 1 .. Len(s)
    BY <1>2, <1>3
  <1>. HIDE DEF t
  <1>5. \A i \in first .. last : t[i] = s[i] /\ s[i] \in 0 .. 255
    BY <1>1, <1>2, <1>4
  <1>6. groupsValue(t, first, last) = groupsValue(s, first, last)
    <2>. DEFINE same(i) == i <= last => t[i] = s[i]
    <2>1. same(first) /\ same(first + 1) /\ same(first + 2) /\ same(first + 3)
      BY <1>5
    <2>2. \A i \in first .. last : s[i] \in 0 .. 255
      BY <1>5
    <2>3. \A i \in first .. last : t[i] \in 0 .. 255
      BY <1>5
    <2>. DEFINE v1(x) == x[first] % 128
                v2(x) == v1(x) * 128 + (x[first + 1] % 128)
                v3(x) == v2(x) * 128 + (x[first + 2] % 128)
                v4(x) == v3(x) * 128 + (x[first + 3] % 128)
                value(x) == IF last = first THEN v1(x)
                            ELSE IF last = first + 1 THEN v2(x)
                            ELSE IF last = first + 2 THEN v3(x) ELSE v4(x)
    <2>4. groupsValue(s, first, last) = value(s)
      BY <1>3, <2>2, GroupsValue
    <2>5. groupsValue(t, first, last) = value(t)
      BY <1>3, <2>3, GroupsValue
    <2>6. v1(t) = v1(s)
      BY <1>3, <2>1
    <2>. HIDE DEF v1
    <2>7. last >= first + 1 => v2(t) = v2(s)
      BY <1>3, <2>1, <2>6
    <2>. HIDE DEF v2
    <2>8. last >= first + 2 => v3(t) = v3(s)
      BY <1>3, <2>1, <2>7
    <2>. HIDE DEF v3
    <2>9. last >= first + 3 => v4(t) = v4(s)
      BY <1>3, <2>1, <2>8
    <2>. HIDE DEF v4
    <2>10. value(t) = value(s)
      BY <1>3, <2>6, <2>7, <2>8, <2>9
    <2>. QED  BY <2>4, <2>5, <2>10
  <1>7. /\ s[last] < 128
        /\ \A i \in first .. last - 1 : s[i] >= 128
        /\ s[first] # 128
        /\ groupsValue(s, first, last) \in 1 .. MaxDimension
    BY DEF readsNumber
  <1>8. last \in first .. last /\ first \in first .. last
        /\ \A i \in first .. last - 1 : i \in first .. last
    BY <1>3
  <1>9. /\ t[last] < 128
        /\ \A i \in first .. last - 1 : t[i] >= 128
        /\ t[first] # 128
        /\ groupsValue(t, first, last) \in 1 .. MaxDimension
    BY <1>5, <1>6, <1>7, <1>8
  <1>10. last <= Len(t)
    BY <1>1, <1>2, <1>3
  <1>11. first + n - 2 = last - 1
    OBVIOUS
  <1>. QED  BY <1>9, <1>10, <1>11 DEF readsNumber, t

LEMMA WBMPGrows ==
  ASSUME NEW s \in Seq(Byte), NEW b \in Byte, sniff_wbmp(s)
  PROVE  sniff_wbmp(Append(s, b))
  <1>. DEFINE t == Append(s, b)
              second == dimension(s, 3)
  <1>1. /\ t \in Seq(Byte)
        /\ Len(t) = Len(s) + 1
        /\ \A i \in 1 .. Len(s) : t[i] = s[i]
    BY OneMore, Zenon
  <1>2. /\ Len(s) >= 4 /\ s[1] = 0 /\ s[2] = 0
        /\ second # 0 /\ dimension(s, second) # 0
    BY DEF sniff_wbmp
  <1>3. PICK n \in 1 .. 4 : readsNumber(s, 3, n) /\ second = 3 + n
    BY <1>2, DimensionReads
  <1>4. second \in Nat /\ second > 0
    BY <1>3
  <1>5. PICK m \in 1 .. 4 : readsNumber(s, second, m)
    <2>. HIDE DEF second
    <2>. QED  BY <1>2, <1>4, DimensionReads
  <1>6. readsNumber(t, 3, n)
    BY <1>3, NumberGrows
  <1>7. readsNumber(t, second, m)
    <2>. HIDE DEF second
    <2>. QED  BY <1>4, <1>5, NumberGrows
  <1>8. dimension(t, 3) = second
    <2>. HIDE DEF second, t
    <2>1. dimension(t, 3) = 3 + n
      BY <1>1, <1>6, DimensionReads
    <2>. QED  BY <1>3, <2>1
  <1>9. dimension(t, second) = second + m
    <2>. HIDE DEF second, t
    <2>. QED  BY <1>1, <1>4, <1>7, DimensionReads
  <1>10. second + m # 0
    <2>. HIDE DEF second
    <2>. QED  BY <1>4
  <1>11. Len(t) >= 4 /\ t[1] = 0 /\ t[2] = 0
    <2>1. 1 \in 1 .. Len(s) /\ 2 \in 1 .. Len(s) /\ Len(s) \in Nat
      BY <1>2, SourceBytes
    <2>. HIDE DEF t
    <2>. QED  BY <1>1, <1>2, <2>1
  <1>. HIDE DEF t, second
  <1>. QED  BY <1>2, <1>8, <1>9, <1>10, <1>11, Zenon DEF sniff_wbmp, t

(* The fields of a TGA header are its bytes from the second to the last. *)
LEMMA TGAFields ==
  ASSUME NEW s, NEW t, \A i \in 2 .. 18 : t[i] = s[i], tgaHeaderOK(s)
  PROVE  tgaHeaderOK(t)
  <1>1. /\ t[2] = s[2] /\ t[3] = s[3] /\ t[4] = s[4] /\ t[5] = s[5] /\ t[6] = s[6]
        /\ t[7] = s[7] /\ t[8] = s[8] /\ t[13] = s[13] /\ t[14] = s[14]
        /\ t[15] = s[15] /\ t[16] = s[16] /\ t[17] = s[17] /\ t[18] = s[18]
    OBVIOUS
  <1>2. mapFieldsOK(t) <=> mapFieldsOK(s)
    <2>1. (\A i \in 4 .. 8 : t[i] = 0) <=> (\A i \in 4 .. 8 : s[i] = 0)
      OBVIOUS
    <2>. QED  BY <1>1, <2>1, ZenonT(30) DEF mapFieldsOK
  <1>. QED  BY <1>1, <1>2, ZenonT(30) DEF tgaHeaderOK

LEMMA AcceptsGrows ==
  ASSUME NEW s \in Seq(Byte), NEW b \in Byte, NEW f \in Formats, accepts(f, s)
  PROVE  accepts(f, Append(s, b))
  <1>. DEFINE t == Append(s, b)
  <1>1. /\ t \in Seq(Byte)
        /\ Len(t) = Len(s) + 1
        /\ \A i \in 1 .. Len(s) : t[i] = s[i]
    BY OneMore, Zenon
  <1>2. Len(s) \in Nat
    BY SourceBytes
  <1>3. CASE f \in Signed
    <2>1. PICK p \in signatures[f] : starts(s, p)
      BY <1>3, AcceptsSignature DEF Signed
    <2>2. p \in Patterns
      BY <1>3, SignaturesOK DEF signedOK
    <2>3. starts(t, p)
      BY <2>1, <2>2, StartsGrows
    <2>. QED  BY <1>3, <2>3, AcceptsSignature DEF Signed
  <1>4. CASE f = "TGA"
    <2>1. Len(s) >= 18 /\ tgaHeaderOK(s)
      BY <1>4, AcceptsOther DEF sniff_tga
    <2>2. \A i \in 2 .. 18 : i \in 1 .. Len(s)
      BY <1>2, <2>1
    <2>. HIDE DEF t
    <2>3. tgaHeaderOK(t)
      BY <1>1, <2>1, <2>2, TGAFields
    <2>4. Len(t) >= 18
      BY <1>1, <1>2, <2>1
    <2>5. accepts("TGA", t)
      BY <2>3, <2>4, AcceptsOther DEF sniff_tga
    <2>. QED  BY <1>4, <2>5 DEF t
  <1>5. CASE f = "WBMP"
    BY <1>5, AcceptsOther, WBMPGrows
  <1>6. CASE f = "HNSM"
    <2>1. sniff_hnsm(s) /\ Len(s) >= 3
      BY <1>6, AcceptsOther DEF sniff_hnsm
    <2>2. 1 \in 1 .. Len(s) /\ 2 \in 1 .. Len(s) /\ 3 \in 1 .. Len(s)
      BY <1>2, <2>1
    <2>. HIDE DEF t
    <2>3. t[1] = s[1] /\ t[2] = s[2] /\ t[3] = s[3] /\ Len(t) >= 3
      BY <1>1, <1>2, <2>1, <2>2
    <2>4. sniff_hnsm(t)
      <3>. DEFINE ok(a, b0, c) == LET c32 == a * 65536 + b0 * 256 + c
                                  IN  /\ c32 \div 512 = hnsmTopBits
                                      /\ (c32 \div 128) % 4 # 1
                                      /\ c32 % 32 # 31
      <3>1. \A x : sniff_hnsm(x) <=> Len(x) >= 3 /\ ok(x[1], x[2], x[3])
        BY SMT DEF sniff_hnsm
      <3>. HIDE DEF ok
      <3>. QED  BY <2>1, <2>3, <3>1
    <2>5. accepts("HNSM", t)
      BY <2>4, AcceptsOther
    <2>. QED  BY <1>6, <2>5 DEF t
  <1>. QED  BY <1>3, <1>4, <1>5, <1>6, FormatNames DEF Signed

(* The bytes that follow a header never change what sniff_fourcc said of it
   (LongerSourceSameFormat). *)
THEOREM VerdictsStand == Spec => LongerSourceSameFormat
  <1>1. ASSUME SourceInv, SourceInv', [Next]_src, sniff_fourcc(src) # noFormat
        PROVE  sniff_fourcc(src') = sniff_fourcc(src)
    <2>1. src \in Seq(Byte) /\ src' \in Seq(Byte)
      BY <1>1 DEF SourceInv
    <2>. DEFINE f == formatOf(src)
    <2>2. sniff_fourcc(src) = f /\ accepts(f, src) /\ f \in Formats
      BY <1>1, <2>1, Answer, AcceptedFormat
    <2>3. CASE Next
      <3>1. PICK b : src' = Append(src, b)
        BY <2>3 DEF Next, Read
      <3>2. b \in Byte
        <4>1. /\ Len(src') = Len(src) + 1
              /\ src'[Len(src) + 1] = b
          BY <2>1, <3>1, AppendProperties, LenProperties
        <4>2. Len(src) + 1 \in 1 .. Len(src')
          BY <2>1, <4>1, LenProperties
        <4>. QED  BY <2>1, <4>1, <4>2, ElementOfSeq
      <3>3. accepts(f, src')
        <4>. HIDE DEF f
        <4>. QED  BY <2>1, <2>2, <3>1, <3>2, AcceptsGrows
      <3>4. formatOf(src') = f
        <4>. HIDE DEF f
        <4>. QED  BY <2>1, <2>2, <3>3, AcceptedFormat
      <3>. HIDE DEF f
      <3>. QED  BY <2>1, <2>2, <3>3, <3>4, Answer
    <2>4. CASE UNCHANGED src
      BY <2>4
    <2>. QED  BY <1>1, <2>3, <2>4
  <1>. QED  BY <1>1, SourceInvariant, PTL DEF Spec, LongerSourceSameFormat

=============================================================================
