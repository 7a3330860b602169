------------------------ MODULE ImageVersionProofs --------------------------
(***************************************************************************)
(* Proofs about ImageVersion, for every set of hosts, ports, words and     *)
(* tags, for paths of any length and any blanks around a reference.        *)
(***************************************************************************)
EXTENDS ImageVersion, SequenceTheorems, WellFoundedInduction, TLAPS

(* What a text may be made of.                                              *)
Tokens == Hosts \cup Ports \cup Words \cup Tags \cup {":", "/", "@", "space"}

Free(s, t) == \A i \in 1 .. Len(s) : s[i] # t

-----------------------------------------------------------------------------
(* strings.LastIndex is the position no later occurrence follows.           *)
LEMMA LastIndexIs ==
    ASSUME NEW S, NEW s \in Seq(S), NEW t, NEW i \in 1 .. Len(s), s[i] = t,
           \A j \in 1 .. Len(s) : j > i => s[j] # t
    PROVE  LastIndex(s, t) = i
<1>. DEFINE I == {j \in 1 .. Len(s) : s[j] = t}
<1>1. i \in I /\ \A j \in I : i >= j
  BY LenProperties
<1>2. \A x \in I : (\A y \in I : x >= y) => x = i
  BY <1>1, LenProperties
<1>3. Max(I) = i
  BY <1>1, <1>2 DEF Max
<1>4. LastIndex(s, t) = IF I # {} THEN Max(I) ELSE 0
  BY DEF LastIndex, SelectLastInSeq
<1>. QED
  BY <1>1, <1>3, <1>4

(* Where the token does not occur, there is no last index.                  *)
LEMMA LastIndexNone ==
    ASSUME NEW S, NEW s \in Seq(S), NEW t, Free(s, t)
    PROVE  LastIndex(s, t) = 0
BY DEF LastIndex, SelectLastInSeq, Free

(* A set of positions has a greatest one: its distance from the end         *)
(* has a least element, for the naturals are well founded.                  *)
LEMMA MaximumExists ==
    ASSUME NEW n \in Nat, NEW I \in SUBSET (1 .. n), I # {}
    PROVE  \E m \in I : \A j \in I : m >= j
<1>. DEFINE R == OpToRel(<, Nat)
            D == {n - j : j \in I}
<1>1. IsWellFoundedOn(R, Nat)
  BY NatLessThanWellFounded
<1>2. D \subseteq Nat /\ D # {}
  <2>1. \A j \in I : n - j \in Nat /\ n - j \in D
    OBVIOUS
  <2>2. PICK j \in I : TRUE
    OBVIOUS
  <2>. QED
    BY <2>1, <2>2
<1>3. PICK d \in D : \A y \in D : ~ (<<y, d>> \in R)
  BY <1>1, <1>2, WFMin
<1>4. PICK m \in I : d = n - m
  BY <1>3
<1>5. ASSUME NEW j \in I PROVE m >= j
  <2>1. n - j \in D /\ ~ (<<n - j, d>> \in R)
    BY <1>3
  <2>2. ~ (n - j < d)
    BY <2>1, <1>2, <1>3 DEF OpToRel
  <2>. QED
    BY <2>2, <1>4
<1>. QED
  BY <1>5

(* A last index is a position of the token, or 0.                           *)
LEMMA LastIndexType ==
    ASSUME NEW S, NEW s \in Seq(S), NEW t
    PROVE  /\ LastIndex(s, t) \in 0 .. Len(s)
           /\ LastIndex(s, t) # 0 => s[LastIndex(s, t)] = t
<1>1. CASE Free(s, t)
  BY <1>1, LastIndexNone, LenProperties
<1>2. CASE ~ Free(s, t)
  <2>. DEFINE I == {j \in 1 .. Len(s) : s[j] = t}
  <2>1. Len(s) \in Nat /\ I \in SUBSET (1 .. Len(s)) /\ I # {}
    BY <1>2, LenProperties DEF Free
  <2>2. PICK m \in I : \A j \in I : m >= j
    BY <2>1, MaximumExists
  <2>3. LastIndex(s, t) = m
    BY <2>1, <2>2, LastIndexIs
  <2>. QED
    BY <2>1, <2>2, <2>3
<1>. QED
  BY <1>1, <1>2

(* strings.TrimSpace gives back what blanks surround.                       *)
LEMMA TrimSpaceOfBlanks ==
    ASSUME NEW S, "space" \in S, NEW body \in Seq(S), body # <<>>, Free(body, "space"),
           NEW blanks \in Seq({"space"})
    PROVE  TrimSpace(blanks \o body \o blanks) = body
<1>. DEFINE n == Len(blanks)
            k == Len(body)
            s == blanks \o body \o blanks
            I == {j \in 1 .. Len(s) : s[j] # "space"}
<1>1. blanks \in Seq(S) /\ n \in Nat /\ k \in Nat /\ k > 0
  BY SeqMonotonic, LenProperties, EmptySeq
<1>2. blanks \o body \in Seq(S) /\ Len(blanks \o body) = n + k
  BY <1>1, ConcatProperties
<1>3. s \in Seq(S) /\ Len(s) = n + k + n
  BY <1>1, <1>2, ConcatProperties
<1>4. \A j \in 1 .. n : blanks[j] = "space"
  BY ElementOfSeq
<1>5. \A j \in 1 .. n + k : s[j] = IF j <= n THEN blanks[j] ELSE body[j - n]
  <2>1. \A j \in 1 .. n + k : s[j] = (blanks \o body)[j]
    BY <1>1, <1>2, ConcatProperties
  <2>2. \A j \in 1 .. n + k :
            (blanks \o body)[j] = IF j <= n THEN blanks[j] ELSE body[j - n]
    BY <1>1, ConcatProperties
  <2>. QED
    BY <2>1, <2>2
<1>6. \A j \in n + k + 1 .. n + k + n : s[j] = blanks[j - (n + k)]
  <2>1. \A j \in 1 .. (n + k) + n :
            s[j] = IF j <= n + k THEN (blanks \o body)[j] ELSE blanks[j - (n + k)]
    BY <1>1, <1>2, ConcatProperties
  <2>. QED
    BY <2>1, <1>1
<1>7. I = n + 1 .. n + k
  <2>1. ASSUME NEW j \in 1 .. n PROVE j \notin I
    BY <2>1, <1>1, <1>4, <1>5
  <2>2. ASSUME NEW j \in n + k + 1 .. n + k + n PROVE j \notin I
    <3>1. j - (n + k) \in 1 .. n
      BY <1>1, <2>2
    <3>. QED
      BY <3>1, <1>1, <1>4, <1>6
  <2>3. ASSUME NEW j \in n + 1 .. n + k PROVE j \in I
    <3>1. j - n \in 1 .. k /\ s[j] = body[j - n]
      BY <1>1, <1>5, <2>3
    <3>. QED
      BY <3>1, <1>1, <1>3 DEF Free
  <2>4. \A j \in I : j \in 1 .. n \/ j \in n + 1 .. n + k \/ j \in n + k + 1 .. n + k + n
    BY <1>1, <1>3
  <2>. QED
    BY <2>1, <2>2, <2>3, <2>4
<1>8. I # {} /\ Min(I) = n + 1 /\ Max(I) = n + k
  <2>. HIDE DEF I
  <2>1. n + 1 \in I /\ n + k \in I /\ \A j \in I : n + 1 =< j /\ n + k >= j
    BY <1>1, <1>7
  <2>2. \A x \in I : x \in Nat
    BY <1>1, <1>7
  <2>3. \A x \in I : (\A y \in I : x =< y) => x = n + 1
    BY <1>1, <2>1, <2>2
  <2>4. \A x \in I : (\A y \in I : x >= y) => x = n + k
    BY <1>1, <2>1, <2>2
  <2>5. Min(I) = n + 1
    BY <2>1, <2>3 DEF Min
  <2>6. Max(I) = n + k
    BY <2>1, <2>4 DEF Max
  <2>. QED
    BY <2>1, <2>5, <2>6
<1>9. TrimSpace(s) = SubSeq(s, n + 1, n + k)
  <2>1. TrimSpace(s) = IF (IF I # {} THEN Min(I) ELSE 0) = 0 THEN <<>>
                       ELSE SubSeq(s, IF I # {} THEN Min(I) ELSE 0,
                                      IF I # {} THEN Max(I) ELSE 0)
    BY DEF TrimSpace, SelectInSeq, SelectLastInSeq
  <2>2. n + 1 # 0
    BY <1>1
  <2>. HIDE DEF I, s
  <2>. QED
    BY <2>1, <2>2, <1>8
<1>10. \A j \in n + 1 .. n + k : s[j] \in S
  BY <1>1, <1>3, ElementOfSeq
<1>11. /\ SubSeq(s, n + 1, n + k) \in Seq(S)
       /\ Len(SubSeq(s, n + 1, n + k)) = k
       /\ \A j \in 1 .. k : SubSeq(s, n + 1, n + k)[j] = s[n + j]
  <2>. DEFINE a == n + 1
              b == n + k
  <2>1. a \in Int /\ b \in Int /\ a <= b /\ b - a + 1 = k /\ \A j \in 1 .. k : a + j - 1 = n + j
    BY <1>1
  <2>2. /\ SubSeq(s, a, b) \in Seq(S)
        /\ Len(SubSeq(s, a, b)) = IF a <= b THEN b - a + 1 ELSE 0
        /\ \A j \in 1 .. b - a + 1 : SubSeq(s, a, b)[j] = s[a + j - 1]
    <3>. HIDE DEF s, a, b
    <3>. QED
      BY <2>1, <1>10, SubSeqProperties DEF a, b
  <2>. QED
    BY <2>1, <2>2
<1>12. \A j \in 1 .. k : s[n + j] = body[j]
  BY <1>1, <1>5
<1>. QED
  BY <1>1, <1>9, <1>11, <1>12, SeqEqual

-----------------------------------------------------------------------------
(* A token that occurs in neither part does not occur in the whole.         *)
LEMMA FreeConcat ==
    ASSUME NEW S, NEW a \in Seq(S), NEW b \in Seq(S), NEW t, Free(a, t), Free(b, t)
    PROVE  Free(a \o b, t)
<1>1. Len(a) \in Nat /\ Len(b) \in Nat /\ Len(a \o b) = Len(a) + Len(b)
  BY LenProperties, ConcatProperties
<1>2. SUFFICES ASSUME NEW i \in 1 .. Len(a) + Len(b)
               PROVE  (a \o b)[i] # t
  BY <1>1 DEF Free
<1>3. (a \o b)[i] = IF i <= Len(a) THEN a[i] ELSE b[i - Len(a)]
  BY ConcatProperties
<1>4. CASE i <= Len(a)
  BY <1>1, <1>3, <1>4 DEF Free
<1>5. CASE ~ (i <= Len(a))
  <2>1. i - Len(a) \in 1 .. Len(b)
    BY <1>1, <1>5
  <2>. QED
    BY <1>3, <1>5, <2>1 DEF Free
<1>. QED
  BY <1>4, <1>5

(* What can stand at the end of a text.                                     *)
LEMMA Suffix ==
    ASSUME NEW S, NEW a \in Seq(S), NEW b \in Seq(S)
    PROVE  /\ Len(a \o b) = Len(a) + Len(b)
           /\ \A i \in 1 .. Len(a) : (a \o b)[i] = a[i]
           /\ \A i \in 1 .. Len(b) : (a \o b)[Len(a) + i] = b[i]
           /\ \A i \in 1 .. Len(a \o b) :
                i \in 1 .. Len(a) \/ \E j \in 1 .. Len(b) : i = Len(a) + j
<1>1. Len(a) \in Nat /\ Len(b) \in Nat
  BY LenProperties
<1>2. Len(a \o b) = Len(a) + Len(b)
  BY ConcatProperties
<1>3. \A i \in 1 .. Len(a) : (a \o b)[i] = a[i]
  BY <1>1, ConcatProperties
<1>4. ASSUME NEW i \in 1 .. Len(b) PROVE (a \o b)[Len(a) + i] = b[i]
  <2>1. Len(a) + i \in 1 .. Len(a) + Len(b) /\ ~ (Len(a) + i <= Len(a))
        /\ Len(a) + i - Len(a) = i
    BY <1>1
  <2>. QED
    BY <2>1, ConcatProperties
<1>5. ASSUME NEW i \in 1 .. Len(a) + Len(b), i \notin 1 .. Len(a)
      PROVE  i - Len(a) \in 1 .. Len(b) /\ i = Len(a) + (i - Len(a))
  BY <1>1, <1>5
<1>. QED
  BY <1>2, <1>3, <1>4, <1>5

(* A token of the suffix has its last index there.                          *)
LEMMA LastIndexInSuffix ==
    ASSUME NEW S, NEW a \in Seq(S), NEW b \in Seq(S), NEW t, NEW k \in 1 .. Len(b),
           b[k] = t, \A j \in 1 .. Len(b) : j > k => b[j] # t
    PROVE  LastIndex(a \o b, t) = Len(a) + k
<1>. DEFINE s == a \o b
            n == Len(a)
<1>1. s \in Seq(S) /\ n \in Nat /\ Len(b) \in Nat /\ Len(s) = n + Len(b)
  BY LenProperties, ConcatProperties
<1>2. n + k \in 1 .. Len(s) /\ s[n + k] = t
  <2>1. n + k \in 1 .. n + Len(b)
    BY <1>1
  <2>. QED
    BY <2>1, <1>1, Suffix
<1>3. ASSUME NEW j \in 1 .. Len(s), j > n + k PROVE s[j] # t
  <2>1. j \notin 1 .. n
    BY <1>1, <1>3
  <2>2. PICK i \in 1 .. Len(b) : j = n + i
    BY <2>1, Suffix
  <2>3. i > k /\ s[j] = b[i]
    <3>1. i > k
      BY <1>1, <1>3, <2>2
    <3>. QED
      BY <3>1, <2>2, Suffix
  <2>. QED
    BY <2>3
<1>. HIDE DEF s
<1>4. LastIndex(s, t) = n + k
  BY <1>1, <1>2, <1>3, LastIndexIs
<1>. QED
  BY <1>4 DEF s

(* A token the suffix does not have has its last index in front of it.      *)
LEMMA LastIndexBeforeSuffix ==
    ASSUME NEW S, NEW a \in Seq(S), NEW b \in Seq(S), NEW t, Free(b, t)
    PROVE  LastIndex(a \o b, t) \in 0 .. Len(a)
<1>. DEFINE s == a \o b
            l == LastIndex(s, t)
<1>1. s \in Seq(S) /\ Len(a) \in Nat /\ Len(s) \in Nat
  BY LenProperties, ConcatProperties
<1>. HIDE DEF s
<1>2. l \in 0 .. Len(s) /\ (l # 0 => s[l] = t)
  BY <1>1, LastIndexType
<1>. HIDE DEF l
<1>3. CASE l = 0
  BY <1>1, <1>3 DEF l, s
<1>4. CASE l # 0
  <2>1. l \in 1 .. Len(s)
    BY <1>1, <1>2, <1>4
  <2>2. l \in 1 .. Len(a) \/ \E j \in 1 .. Len(b) : l = Len(a) + j
    BY <2>1, Suffix DEF s
  <2>3. ASSUME NEW j \in 1 .. Len(b), l = Len(a) + j PROVE FALSE
    <3>1. s[l] = b[j]
      BY <2>3, Suffix DEF s
    <3>. QED
      BY <3>1, <1>2, <1>4 DEF Free
  <2>4. l \in 1 .. Len(a)
    BY <2>2, <2>3
  <2>. QED
    BY <1>1, <2>4 DEF l, s
<1>. QED
  BY <1>3, <1>4

(* Cutting at the end of the first part gives the first part back.          *)
LEMMA PrefixOfConcat ==
    ASSUME NEW S, NEW a \in Seq(S), NEW b \in Seq(S)
    PROVE  SubSeq(a \o b, 1, Len(a)) = a
<1>1. Len(a) \in Nat
  BY LenProperties
<1>2. CASE Len(a) = 0
  BY <1>2, SubSeqEmpty, EmptySeq
<1>3. CASE Len(a) # 0
  <2>1. 1 \in 1 .. Len(a) /\ Len(a) \in 1 .. Len(a)
    BY <1>1, <1>3
  <2>2. SubSeq(a \o b, 1, Len(a)) = SubSeq(a, 1, Len(a))
    BY <2>1, SubSeqOfConcat1
  <2>. QED
    BY <2>2, SubSeqFull
<1>. QED
  BY <1>2, <1>3

(* image[:digest] takes the digest off, and nothing else.                   *)
LEMMA CutDigestOfDigest ==
    ASSUME NEW name \in Seq(Tokens), NEW d \in Words
    PROVE  CutDigest(name \o <<"@", d, ":", d>>) = name
<1>. DEFINE rest == <<"@", d, ":", d>>
            n == Len(name)
<1>1. rest \in Seq(Tokens) /\ Len(rest) = 4 /\ n \in Nat
  BY LenProperties DEF Tokens
<1>2. rest[1] = "@" /\ \A j \in 2 .. 4 : rest[j] # "@"
  BY TokensAssumption
<1>. HIDE DEF rest
<1>3. LastIndex(name \o rest, "@") = n + 1
  <2>1. 1 \in 1 .. Len(rest) /\ rest[1] = "@"
    BY <1>1, <1>2
  <2>2. \A j \in 1 .. Len(rest) : j > 1 => rest[j] # "@"
    BY <1>1, <1>2
  <2>3. \A a, b \in Seq(Tokens) : \A k \in 1 .. Len(b) :
            b[k] = "@" /\ (\A j \in 1 .. Len(b) : j > k => b[j] # "@")
                => LastIndex(a \o b, "@") = Len(a) + k
    BY LastIndexInSuffix
  <2>4. LastIndex(name \o rest, "@") = Len(name) + 1
    BY <2>1, <2>2, <2>3, <1>1, Zenon
  <2>. QED
    BY <2>4
<1>4. n + 1 > 0 /\ n + 1 - 1 = n
  BY <1>1
<1>5. CutDigest(name \o rest) = SubSeq(name \o rest, 1, n)
  BY <1>3, <1>4 DEF CutDigest
<1>. QED
  BY <1>1, <1>5, PrefixOfConcat DEF rest

(* Without an at sign there is nothing to cut.                              *)
LEMMA CutDigestOfName ==
    ASSUME NEW name \in Seq(Tokens), Free(name, "@")
    PROVE  CutDigest(name) = name
BY LastIndexNone DEF CutDigest

(* The tag: the only thing behind the last slash that follows a colon.      *)
Tag(name) ==
    IF LastIndex(name, ":") > LastIndex(name, "/")
    THEN SubSeq(name, LastIndex(name, ":") + 1, Len(name)) ELSE <<>>

(* The last colon of a tagged name is behind all its slashes.               *)
LEMMA TagOfTagged ==
    ASSUME NEW name \in Seq(Tokens), NEW t \in Tags
    PROVE  Tag(name \o <<":", t>>) = <<t>>
<1>. DEFINE rest == <<":", t>>
            s == name \o rest
            n == Len(name)
<1>1. rest \in Seq(Tokens) /\ Len(rest) = 2 /\ n \in Nat
  BY LenProperties DEF Tokens
<1>2. rest[1] = ":" /\ rest[2] = t /\ t # ":" /\ \A j \in 1 .. 2 : rest[j] # "/"
  BY TokensAssumption
<1>. HIDE DEF rest
<1>3. Len(s) = n + 2 /\ s[n + 2] = t
  <2>1. Len(name \o rest) = Len(name) + Len(rest)
    BY <1>1, ConcatProperties
  <2>2. 2 \in 1 .. Len(rest)
    BY <1>1
  <2>3. \A a, b \in Seq(Tokens) :
            \A i \in 1 .. Len(b) : (a \o b)[Len(a) + i] = b[i]
    BY Suffix
  <2>4. (name \o rest)[Len(name) + 2] = rest[2]
    BY <1>1, <2>2, <2>3, Zenon
  <2>. QED
    BY <2>1, <2>4, <1>1, <1>2
<1>4. LastIndex(s, ":") = n + 1
  <2>1. 1 \in 1 .. Len(rest) /\ \A j \in 1 .. Len(rest) : j > 1 => rest[j] # ":"
    BY <1>1, <1>2
  <2>. QED
    BY <2>1, <1>1, <1>2, LastIndexInSuffix
<1>5. LastIndex(s, "/") \in 0 .. n
  BY <1>1, <1>2, LastIndexBeforeSuffix DEF Free
<1>6. Tag(s) = SubSeq(s, n + 2, n + 2)
  <2>1. LastIndex(s, ":") > LastIndex(s, "/") /\ LastIndex(s, ":") + 1 = n + 2
    BY <1>1, <1>4, <1>5
  <2>. QED
    BY <2>1, <1>3 DEF Tag
<1>7. SubSeq(s, n + 2, n + 2) = <<t>>
  <2>. DEFINE m == n + 2
              u == SubSeq(s, m, m)
  <2>1. m \in Int /\ m - m + 1 = 1 /\ m <= m /\ \A i \in m .. m : s[i] \in Tokens
    BY <1>1, <1>3 DEF Tokens
  <2>. HIDE DEF s, m
  <2>2. /\ SubSeq(s, m, m) \in Seq(Tokens)
        /\ Len(SubSeq(s, m, m)) = IF m <= m THEN m - m + 1 ELSE 0
        /\ \A i \in 1 .. m - m + 1 : SubSeq(s, m, m)[i] = s[m + i - 1]
    BY <2>1, SubSeqProperties
  <2>3. u \in Seq(Tokens) /\ Len(u) = 1 /\ u[1] = s[m]
    BY <2>1, <2>2
  <2>4. <<t>> \in Seq(Tokens) /\ Len(<<t>>) = 1 /\ <<t>>[1] = t
    BY DEF Tokens
  <2>5. u[1] = t
    BY <2>3, <1>3 DEF m
  <2>6. \A i \in 1 .. Len(u) : u[i] = <<t>>[i]
    BY <2>3, <2>4, <2>5
  <2>. HIDE DEF u
  <2>7. u = <<t>>
    BY <2>3, <2>4, <2>6, SeqEqual
  <2>. QED
    BY <2>7 DEF u, m
<1>. QED
  BY <1>6, <1>7 DEF rest

(* The last index is not before any occurrence.                             *)
LEMMA LastIndexAtLeast ==
    ASSUME NEW S, NEW s \in Seq(S), NEW t, NEW i \in 1 .. Len(s), s[i] = t
    PROVE  LastIndex(s, t) >= i
<1>. DEFINE I == {j \in 1 .. Len(s) : s[j] = t}
<1>1. Len(s) \in Nat /\ I \in SUBSET (1 .. Len(s)) /\ i \in I /\ I # {}
  BY LenProperties
<1>2. PICK m \in I : \A j \in I : m >= j
  BY <1>1, MaximumExists
<1>3. LastIndex(s, t) = m
  BY <1>1, <1>2, LastIndexIs
<1>. QED
  BY <1>1, <1>2, <1>3

(* A colon in front of the last slash belongs to the registry.              *)
LEMMA TagOfUntagged ==
    ASSUME NEW h \in Seq(Tokens), NEW p \in Seq(Tokens), Free(p, ":"),
           h = <<>> \/ h[Len(h)] = "/"
    PROVE  Tag(h \o p) = <<>>
<1>. DEFINE s == h \o p
            c == LastIndex(s, ":")
            l == LastIndex(s, "/")
<1>1. s \in Seq(Tokens) /\ Len(h) \in Nat /\ Len(s) \in Nat
  BY LenProperties, ConcatProperties
<1>2. c \in 0 .. Len(h)
  BY LastIndexBeforeSuffix
<1>3. l \in 0 .. Len(s)
  BY <1>1, LastIndexType
<1>4. ~ (c > l)
  <2>1. CASE Len(h) = 0
    <3>. HIDE DEF c, l, s
    <3>. QED
      BY <2>1, <1>1, <1>2, <1>3
  <2>2. CASE Len(h) # 0
    <3>1. Len(h) \in 1 .. Len(h) /\ h[Len(h)] = "/"
      BY <2>2, <1>1, EmptySeq
    <3>2. /\ Len(h \o p) = Len(h) + Len(p)
          /\ \A i \in 1 .. Len(h) : (h \o p)[i] = h[i]
      BY Suffix
    <3>3. Len(p) \in Nat
      BY LenProperties
    <3>4. Len(h) \in 1 .. Len(s) /\ s[Len(h)] = "/"
      BY <3>1, <3>2, <3>3
    <3>. HIDE DEF s
    <3>5. l >= Len(h)
      BY <3>4, <1>1, LastIndexAtLeast
    <3>. HIDE DEF c, l
    <3>. QED
      BY <3>5, <1>1, <1>2, <1>3
  <2>. QED
    BY <2>1, <2>2
<1>. HIDE DEF s
<1>5. Tag(s) = <<>>
  BY <1>4 DEF Tag
<1>. QED
  BY <1>5 DEF s

-----------------------------------------------------------------------------
(* What the grammar puts into each part of a text.                          *)
LEMMA HostTextShape ==
    ASSUME NEW r \in References
    PROVE  /\ HostText(r) \in Seq(Tokens)
           /\ Free(HostText(r), "@") /\ Free(HostText(r), "space")
           /\ HostText(r) = <<>> \/ HostText(r)[Len(HostText(r))] = "/"
<1>1. r.host \in Hosts \cup {None} /\ r.port \in Ports \cup {None}
  BY DEF References
<1>2. CASE r.host = None
  <2>1. HostText(r) = <<>>
    BY <1>2 DEF HostText, Optional
  <2>. QED
    BY <2>1, EmptySeq DEF Free
<1>3. CASE r.host # None
  <2>. DEFINE a == <<r.host>>
              b == Optional(r.port, <<":", r.port>>)
              c == <<"/">>
  <2>1. HostText(r) = (a \o b) \o c
    BY <1>3 DEF HostText, Optional
  <2>2. a \in Seq(Tokens) /\ Free(a, "@") /\ Free(a, "space")
    BY <1>1, <1>3, TokensAssumption DEF Free, Tokens
  <2>3. b \in Seq(Tokens) /\ Free(b, "@") /\ Free(b, "space")
    <3>1. CASE r.port = None
      BY <3>1, EmptySeq DEF Free, Optional
    <3>2. CASE r.port # None
      BY <3>2, <1>1, TokensAssumption DEF Free, Optional, Tokens
    <3>. QED
      BY <3>1, <3>2
  <2>4. c \in Seq(Tokens) /\ Free(c, "@") /\ Free(c, "space") /\ Len(c) = 1 /\ c[1] = "/"
    BY DEF Free, Tokens
  <2>. HIDE DEF a, b, c
  <2>5. a \o b \in Seq(Tokens) /\ Free(a \o b, "@") /\ Free(a \o b, "space")
    BY <2>2, <2>3, ConcatProperties, FreeConcat
  <2>. DEFINE d == a \o b
  <2>. HIDE DEF d
  <2>6. d \o c \in Seq(Tokens) /\ Free(d \o c, "@") /\ Free(d \o c, "space")
    BY <2>4, <2>5, ConcatProperties, FreeConcat DEF d
  <2>7. (d \o c)[Len(d \o c)] = "/"
    <3>1. \A x, y \in Seq(Tokens) :
              /\ Len(x \o y) = Len(x) + Len(y)
              /\ \A i \in 1 .. Len(y) : (x \o y)[Len(x) + i] = y[i]
      BY Suffix
    <3>2. d \in Seq(Tokens) /\ 1 \in 1 .. Len(c)
      BY <2>4, <2>5 DEF d
    <3>3. Len(d \o c) = Len(d) + Len(c) /\ (d \o c)[Len(d) + 1] = c[1]
      BY <2>4, <3>1, <3>2, Zenon
    <3>. QED
      BY <3>3, <2>4
  <2>. QED
    BY <2>1, <2>6, <2>7 DEF d
<1>. QED
  BY <1>2, <1>3

(* A path of any length has neither colon, at sign nor blank.               *)
LEMMA PathShape ==
    ASSUME NEW p \in Paths
    PROVE  /\ p \in Seq(Tokens) /\ p # <<>>
           /\ Free(p, "@") /\ Free(p, "space") /\ Free(p, ":")
<1>1. p \in Seq(Words \cup {"/"}) /\ p # <<>>
  BY PathsAssumption
<1>2. p \in Seq(Tokens)
  BY <1>1, SeqMonotonic DEF Tokens
<1>3. \A i \in 1 .. Len(p) : p[i] \in Words \cup {"/"}
  BY <1>1, ElementOfSeq
<1>. QED
  BY <1>1, <1>2, <1>3, TokensAssumption DEF Free

(* What a tag adds to a text has neither at sign nor blank.                 *)
LEMMA TagTextShape ==
    ASSUME NEW t \in Tags \cup {None}
    PROVE  /\ Optional(t, <<":", t>>) \in Seq(Tokens)
           /\ Free(Optional(t, <<":", t>>), "@")
           /\ Free(Optional(t, <<":", t>>), "space")
<1>1. CASE t = None
  BY <1>1, EmptySeq DEF Free, Optional
<1>2. CASE t # None
  BY <1>2, TokensAssumption DEF Free, Optional, Tokens
<1>. QED
  BY <1>1, <1>2

(* What a digest adds to a text has no blank.                               *)
LEMMA DigestTextShape ==
    ASSUME NEW d \in Words \cup {None}
    PROVE  /\ Optional(d, <<"@", d, ":", d>>) \in Seq(Tokens)
           /\ Free(Optional(d, <<"@", d, ":", d>>), "space")
<1>1. CASE d = None
  BY <1>1, EmptySeq DEF Free, Optional
<1>2. CASE d # None
  BY <1>2, TokensAssumption DEF Free, Optional, Tokens
<1>. QED
  BY <1>1, <1>2

-----------------------------------------------------------------------------
(* kubeRayVersionFromImage reads the tag of a reference and nothing else,   *)
(* whatever its registry, the length of its path and its digest.            *)
THEOREM VersionOfReference ==
    ASSUME NEW r \in References
    PROVE  kubeRayVersionFromImage(ImageText(r)) = Optional(r.tag, <<r.tag>>)
<1>. DEFINE h == HostText(r)
            T == Optional(r.tag, <<":", r.tag>>)
            D == Optional(r.digest, <<"@", r.digest, ":", r.digest>>)
            name == (h \o r.path) \o T
            body == name \o D
<1>1. /\ r.path \in Paths /\ r.tag \in Tags \cup {None}
      /\ r.digest \in Words \cup {None} /\ r.blanks \in Seq({"space"})
  BY BlanksAssumption DEF References
<1>2. h \in Seq(Tokens) /\ Free(h, "@") /\ Free(h, "space")
      /\ (h = <<>> \/ h[Len(h)] = "/")
  BY HostTextShape
<1>3. /\ r.path \in Seq(Tokens) /\ r.path # <<>>
      /\ Free(r.path, "@") /\ Free(r.path, "space") /\ Free(r.path, ":")
  BY <1>1, PathShape
<1>4. T \in Seq(Tokens) /\ Free(T, "@") /\ Free(T, "space")
  BY <1>1, TagTextShape
<1>5. D \in Seq(Tokens) /\ Free(D, "space")
  BY <1>1, DigestTextShape
<1>6. ImageText(r) = r.blanks \o body \o r.blanks
  BY DEF ImageText
<1>. DEFINE q == h \o r.path
<1>. HIDE DEF h, T, D
<1>7. q \in Seq(Tokens) /\ q # <<>> /\ Free(q, "@") /\ Free(q, "space")
  BY <1>2, <1>3, ConcatProperties, FreeConcat, ConcatEqualIffEmpty
<1>. HIDE DEF q
<1>8. q \o T \in Seq(Tokens) /\ q \o T # <<>> /\ Free(q \o T, "@") /\ Free(q \o T, "space")
  BY <1>7, <1>4, ConcatProperties, FreeConcat, ConcatEqualIffEmpty
<1>9. name = q \o T
  BY DEF q
<1>. HIDE DEF name
<1>10. body \in Seq(Tokens) /\ body # <<>> /\ Free(body, "space")
  <2>1. name \in Seq(Tokens) /\ name # <<>> /\ Free(name, "space")
    BY <1>8, <1>9
  <2>. QED
    BY <2>1, <1>5, ConcatProperties, FreeConcat, ConcatEqualIffEmpty
<1>11. TrimSpace(ImageText(r)) = body
  <2>1. "space" \in Tokens
    BY DEF Tokens
  <2>. HIDE DEF body
  <2>. QED
    BY <2>1, <1>1, <1>6, <1>10, TrimSpaceOfBlanks
<1>12. CutDigest(body) = name
  <2>1. CASE r.digest = None
    <3>1. D = <<>>
      BY <2>1 DEF D, Optional
    <3>2. body = name
      BY <3>1, <1>8, <1>9, ConcatEmptySeq
    <3>. QED
      BY <3>2, <1>8, <1>9, CutDigestOfName
  <2>2. CASE r.digest # None
    <3>1. D = <<"@", r.digest, ":", r.digest>> /\ r.digest \in Words
      BY <2>2, <1>1 DEF D, Optional
    <3>. QED
      BY <3>1, <1>8, <1>9, CutDigestOfDigest
  <2>. QED
    BY <2>1, <2>2
<1>13. Tag(name) = Optional(r.tag, <<r.tag>>)
  <2>1. CASE r.tag = None
    <3>1. T = <<>>
      BY <2>1 DEF T, Optional
    <3>2. name = q
      BY <3>1, <1>7, <1>9, ConcatEmptySeq
    <3>3. Tag(q) = <<>>
      BY <1>2, <1>3, TagOfUntagged DEF q
    <3>. QED
      BY <2>1, <3>2, <3>3 DEF Optional
  <2>2. CASE r.tag # None
    <3>1. T = <<":", r.tag>> /\ r.tag \in Tags
      BY <2>2, <1>1 DEF T, Optional
    <3>2. Tag(q \o T) = <<r.tag>>
      BY <3>1, <1>7, TagOfTagged
    <3>. QED
      BY <2>2, <3>2, <1>9 DEF Optional
  <2>. QED
    BY <2>1, <2>2
<1>. HIDE DEF body
<1>14. kubeRayVersionFromImage(ImageText(r)) = Tag(CutDigest(TrimSpace(ImageText(r))))
  BY DEF kubeRayVersionFromImage, Tag
<1>. QED
  BY <1>11, <1>12, <1>13, <1>14

(* An image that is missing has no version.                                 *)
LEMMA VersionOfNothing == kubeRayVersionFromImage(<<>>) = <<>>
<1>1. <<>> \in Seq(Tokens) /\ Len(<<>>) = 0
  BY EmptySeq
<1>2. TrimSpace(<<>>) = <<>>
  <2>. DEFINE I == {i \in 1 .. Len(<<>>) : <<>>[i] # "space"}
  <2>1. I = {}
    BY <1>1
  <2>2. TrimSpace(<<>>) = IF (IF I # {} THEN Min(I) ELSE 0) = 0 THEN <<>>
                          ELSE SubSeq(<<>>, IF I # {} THEN Min(I) ELSE 0,
                                            IF I # {} THEN Max(I) ELSE 0)
    BY DEF TrimSpace, SelectInSeq, SelectLastInSeq
  <2>. HIDE DEF I
  <2>. QED
    BY <2>1, <2>2
<1>3. \A t : LastIndex(<<>>, t) = 0
  <2>1. \A t : Free(<<>>, t)
    BY <1>1 DEF Free
  <2>. QED
    BY <1>1, <2>1, LastIndexNone
<1>4. CutDigest(<<>>) = <<>> /\ Tag(<<>>) = <<>>
  BY <1>3 DEF CutDigest, Tag
<1>5. kubeRayVersionFromImage(<<>>) = Tag(CutDigest(TrimSpace(<<>>)))
  BY DEF kubeRayVersionFromImage, Tag
<1>. QED
  BY <1>2, <1>4, <1>5

(* The images are references or missing. The copy has the vendored image    *)
(* or, if there is one to override, the platform's: after applyParams always*)
(* the one desired. The release was computed in this pass.                  *)
ImageInv ==
    /\ related \in References \cup {Missing}
    /\ vendored \in References \cup {Missing}
    /\ params \in {vendored, updateParam(vendored)}
    /\ pc \in {"releases", "params", "render"}
    /\ pc = "render" => params = updateParam(vendored)
    /\ pc # "releases" => releases = desiredModuleReleases(resolveKubeRayVersion)

(* What applyParams writes is a function of the vendored file and the       *)
(* environment, also when it rewrites its own output; and what releasesAction*)
(* reports is still what they give when the image is deployed.              *)
THEOREM ImageInvariant == Spec => []ImageInv
<1>1. Init => ImageInv
  BY DEF Init, ImageInv
<1>2. ImageInv /\ [Next]_vars => ImageInv'
  <2>. SUFFICES ASSUME ImageInv, [Next]_vars PROVE ImageInv'
    OBVIOUS
  <2>1. CASE releasesAction
    BY <2>1 DEF releasesAction, ImageInv, updateParam, desiredModuleReleases,
       resolveKubeRayVersion, resolveKubeRayImage, defaultKubeRayImage
  <2>2. CASE applyParams
    BY <2>2 DEF applyParams, ImageInv, updateParam, desiredModuleReleases,
       resolveKubeRayVersion, resolveKubeRayImage, defaultKubeRayImage
  <2>3. CASE PassEnds
    BY <2>3 DEF PassEnds, ImageInv, updateParam
  <2>4. CASE UNCHANGED vars
    BY <2>4 DEF vars, ImageInv, updateParam, desiredModuleReleases,
       resolveKubeRayVersion, resolveKubeRayImage, defaultKubeRayImage
  <2>. QED
    BY <2>1, <2>2, <2>3, <2>4 DEF Next
<1>. QED
  BY <1>1, <1>2, PTL DEF Spec

(* The version of an image that may be missing.                             *)
LEMMA VersionOfImage ==
    ASSUME NEW r \in References \cup {Missing}
    PROVE  kubeRayVersionFromImage(IF r = Missing THEN <<>> ELSE ImageText(r)) = TagOf(r)
<1>1. CASE r = Missing
  BY <1>1, VersionOfNothing DEF TagOf
<1>2. CASE r # Missing
  BY <1>2, VersionOfReference DEF TagOf
<1>. QED
  BY <1>1, <1>2

(* kubeRayVersionFromImage finds the tag of the image of RELATED_IMAGE_* and*)
(* of the one in params.env, however long their paths are.                  *)
THEOREM VersionsAreTags == Spec => []VersionIsTag
<1>1. ImageInv => VersionIsTag
  BY VersionOfReference DEF ImageInv, VersionIsTag, TagOf
<1>. QED
  BY <1>1, ImageInvariant, PTL

(* The release releasesAction reports names the image applyParams deploys,  *)
(* or, where that has no tag, the vendored one, for every pair of images    *)
(* and in every pass; a params.env without the key is the only exception.   *)
THEOREM ReleasesNameDeployed == Spec => []ReleaseNamesDeployed
<1>1. ASSUME ImageInv, pc = "render" PROVE ReleaseNamesDeployed
  <2>. DEFINE resolved == IF related = Missing THEN vendored ELSE related
              version == IF TagOf(resolved) # <<>> THEN TagOf(resolved) ELSE TagOf(vendored)
  <2>1. kubeRayVersionFromImage(defaultKubeRayImage) = TagOf(vendored)
    BY <1>1, VersionOfImage DEF ImageInv, defaultKubeRayImage
  <2>2. kubeRayVersionFromImage(resolveKubeRayImage) = TagOf(resolved)
    <3>1. CASE related = Missing
      BY <3>1, <2>1 DEF resolveKubeRayImage
    <3>2. CASE related # Missing
      BY <3>2, <1>1, VersionOfReference DEF ImageInv, resolveKubeRayImage, TagOf
    <3>. QED
      BY <3>1, <3>2
  <2>3. resolveKubeRayVersion = version
    BY <2>1, <2>2 DEF resolveKubeRayVersion
  <2>4. releases = IF version = <<>> THEN {} ELSE {version}
    BY <1>1, <2>3 DEF ImageInv, desiredModuleReleases
  <2>5. params = updateParam(vendored)
    BY <1>1 DEF ImageInv
  <2>6. CASE params # Missing
    <3>1. params = resolved
      BY <2>5, <2>6 DEF updateParam
    <3>. QED
      BY <2>4, <2>6, <3>1 DEF ReleaseNamesDeployed
  <2>7. CASE params = Missing
    <3>1. vendored = Missing /\ TagOf(vendored) = <<>>
      BY <2>5, <2>7 DEF updateParam, TagOf
    <3>2. resolved = related
      BY <3>1
    <3>. QED
      BY <2>4, <2>7, <3>1, <3>2 DEF ReleaseNamesDeployed
  <2>. QED
    BY <2>6, <2>7
<1>2. ImageInv => ReleaseNamesDeployed
  BY <1>1 DEF ReleaseNamesDeployed
<1>. QED
  BY <1>2, ImageInvariant, PTL
=============================================================================
