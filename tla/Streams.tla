------------------------------ MODULE Streams -------------------------------
(***************************************************************************)
(* Lemmas that several proofs need.  Most are about messages one after the *)
(* other in a stream of bytes: byte j of message i is the pair <<i, j>>.   *)
(***************************************************************************)
EXTENDS SequenceTheorems, WellFoundedInduction, TLAPS

(* The bytes of s are the messages h + 1 .. n of the lengths len, one      *)
(* after the other; off says where each of them ends.                      *)
LaidOut(s, h, n, len, off) ==
  /\ h <= n
  /\ off \in [h .. n -> 0 .. Len(s)]
  /\ off[h] = 0 /\ off[n] = Len(s)
  /\ \A i, j \in h .. n : i <= j => off[i] <= off[j]
  /\ \A i \in h + 1 .. n :
       /\ off[i] = off[i - 1] + len[i]
       /\ \A j \in 1 .. len[i] : s[off[i - 1] + j] = <<i, j>>

Laid(s, h, n, len) == \E off \in [h .. n -> 0 .. Len(s)] : LaidOut(s, h, n, len, off)

(* s begins with l bytes of message i.                                     *)
Begins(s, i, l) == \A j \in 1 .. l : s[j] = <<i, j>>

(* A set of numbers has a smallest one.                                    *)
LEMMA Smallest ==
  ASSUME NEW T, T \subseteq Nat, T # {}
  PROVE  \E m \in T : \A k \in T : m <= k
<1>1. PICK m \in T : \A k \in T : ~ (<<k, m>> \in OpToRel(<, Nat))
  BY NatLessThanWellFounded, WFMin
<1>2. \A k \in T : ~ (k < m)
  BY <1>1 DEF OpToRel
<1> QED BY <1>2

(* A place within the part of length n that begins after a.                *)
LEMMA Within ==
  ASSUME NEW a \in Nat, NEW n \in Nat, NEW m \in Nat, a + n <= m, NEW j \in 1 .. n
  PROVE  a + j \in 1 .. m
OBVIOUS

(* The same place from n on.                                               *)
LEMMA Shift ==
  ASSUME NEW a \in Int, NEW b \in Int, NEW l \in Int, NEW n \in Nat, NEW m \in Nat,
         a >= n, b = a + l, b <= m
  PROVE  a - n \in Nat /\ b - n = (a - n) + l /\ b - n <= m - n /\ n + (a - n) = a
OBVIOUS

(* Two sequences, one after the other.                                     *)
LEMMA Joined ==
  ASSUME NEW S, NEW s \in Seq(S), NEW t \in Seq(S), NEW l \in Nat, Len(s) = l
  PROVE  /\ s \o t \in Seq(S) /\ Len(s \o t) = l + Len(t)
         /\ \A j \in 1 .. Len(s \o t) : (s \o t)[j] = IF j <= l THEN s[j] ELSE t[j - l]
BY ConcatProperties

(* Nothing is laid out where there is nothing to lay out.                  *)
LEMMA LaidNothing ==
  ASSUME NEW h \in Nat, NEW len
  PROVE  Laid(<<>>, h, h, len)
<1> DEFINE off == [i \in h .. h |-> 0]
<1>1. h .. h = {h} /\ Len(<<>>) = 0 /\ 0 .. 0 = {0} /\ h + 1 .. h = {}
  BY EmptySeq
<1>2. off \in [h .. h -> 0 .. Len(<<>>)] /\ off[h] = 0
  BY <1>1
<1> HIDE DEF off
<1>3. LaidOut(<<>>, h, h, len, off)
  BY <1>1, <1>2 DEF LaidOut
<1> QED BY <1>2, <1>3 DEF Laid

(* One message.                                                            *)
LEMMA LaidMessage ==
  ASSUME NEW S, NEW s \in Seq(S), NEW i \in Nat \ {0}, NEW len, len[i] = Len(s),
         \A j \in 1 .. Len(s) : s[j] = <<i, j>>
  PROVE  Laid(s, i - 1, i, len)
<1> DEFINE off == [k \in i - 1 .. i |-> IF k = i THEN Len(s) ELSE 0]
<1>1. Len(s) \in Nat /\ i - 1 .. i = {i - 1, i} /\ (i - 1) + 1 .. i = {i} /\ i - 1 # i /\ i - 1 <= i
  BY LenProperties
<1>2. off \in [i - 1 .. i -> 0 .. Len(s)] /\ off[i - 1] = 0 /\ off[i] = Len(s)
  BY <1>1
<1> HIDE DEF off
<1>3. \A k, l \in i - 1 .. i : k <= l => off[k] <= off[l]
  BY <1>1, <1>2
<1>4. \A j \in 1 .. Len(s) : 0 + j = j
  BY <1>1
<1>5. LaidOut(s, i - 1, i, len, off)
  BY <1>1, <1>2, <1>3, <1>4 DEF LaidOut
<1> QED BY <1>2, <1>5 DEF Laid

(* The lengths of other messages do not matter.                            *)
LEMMA LaidSame ==
  ASSUME NEW s, NEW h \in Nat, NEW n \in Nat, NEW len, NEW more, Laid(s, h, n, len),
         \A i \in h + 1 .. n : more[i] = len[i]
  PROVE  Laid(s, h, n, more)
BY DEF Laid, LaidOut

(* Two streams, one after the other.                                       *)
LEMMA LaidConcat ==
  ASSUME NEW S, NEW s \in Seq(S), NEW t \in Seq(S), NEW len,
         NEW a \in Nat, NEW b \in Nat, NEW c \in Nat, \A i \in a + 1 .. c : len[i] \in Nat,
         Laid(s, a, b, len), Laid(t, b, c, len)
  PROVE  Laid(s \o t, a, c, len)
<1>1. PICK o \in [a .. b -> 0 .. Len(s)] : LaidOut(s, a, b, len, o)
  BY DEF Laid
<1>2. PICK p \in [b .. c -> 0 .. Len(t)] : LaidOut(t, b, c, len, p)
  BY DEF Laid
<1> DEFINE m == Len(s)
           n == Len(t)
           off == [i \in a .. c |-> IF i <= b THEN o[i] ELSE m + p[i]]
<1>3. /\ m \in Nat /\ n \in Nat /\ Len(s \o t) = m + n
      /\ \A i \in 1 .. m + n : (s \o t)[i] = IF i <= m THEN s[i] ELSE t[i - m]
  BY ConcatProperties, LenProperties
<1>4. /\ a <= b /\ o[a] = 0 /\ o[b] = m /\ \A i, j \in a .. b : i <= j => o[i] <= o[j]
      /\ b <= c /\ p[b] = 0 /\ p[c] = n /\ \A i, j \in b .. c : i <= j => p[i] <= p[j]
      /\ \A i \in a .. b : o[i] \in 0 .. m
      /\ \A i \in b .. c : p[i] \in 0 .. n
  BY <1>1, <1>2 DEF LaidOut
<1>5. \A i \in a .. c : /\ i <= b => i \in a .. b /\ off[i] = o[i] /\ off[i] \in 0 .. m
                        /\ i >= b => i \in b .. c /\ off[i] = m + p[i] /\ off[i] \in m .. m + n
  BY <1>3, <1>4
<1> HIDE DEF m, n, off
<1>6. off[a] = 0 /\ off[c] = m + n /\ \A i \in a .. c : off[i] \in 0 .. m + n
  <2>1. a \in a .. c /\ c \in a .. c /\ a <= b /\ c >= b
    BY <1>4
  <2>2. off[a] = 0 /\ off[c] = m + n
    BY <1>4, <1>5, <2>1
  <2> QED BY <1>3, <1>5, <2>2
<1>7. \A i, j \in a .. c : i <= j => off[i] <= off[j]
  <2> SUFFICES ASSUME NEW i \in a .. c, NEW j \in a .. c, i <= j PROVE off[i] <= off[j]
    OBVIOUS
  <2>1. CASE j <= b
    <3>1. i \in a .. b /\ j \in a .. b /\ off[i] = o[i] /\ off[j] = o[j]
      BY <1>5, <2>1
    <3> QED BY <1>4, <3>1
  <2>2. CASE i >= b
    <3>1. /\ i \in b .. c /\ j \in b .. c /\ off[i] = m + p[i] /\ off[j] = m + p[j]
      BY <1>5, <2>2
    <3>2. p[i] <= p[j] /\ p[i] \in Nat /\ p[j] \in Nat
      BY <1>4, <3>1
    <3> QED BY <1>3, <3>1, <3>2
  <2>3. CASE i <= b /\ j >= b
    <3>1. off[i] \in 0 .. m /\ off[j] \in m .. m + n
      BY <1>5, <2>3
    <3> QED BY <1>3, <3>1
  <2> QED BY <2>1, <2>2, <2>3
<1>8. ASSUME NEW i \in a + 1 .. c
      PROVE  /\ off[i] = off[i - 1] + len[i]
             /\ \A j \in 1 .. len[i] : (s \o t)[off[i - 1] + j] = <<i, j>>
  <2>1. i \in a .. c /\ i - 1 \in a .. c /\ len[i] \in Nat
    OBVIOUS
  <2>2. CASE i <= b
    <3>1. i \in a + 1 .. b /\ i - 1 <= b
      BY <2>2
    <3>2. off[i] = o[i] /\ off[i - 1] = o[i - 1] /\ o[i] \in 0 .. m /\ o[i - 1] \in 0 .. m
      BY <1>5, <2>1, <3>1
    <3>3. o[i] = o[i - 1] + len[i] /\ \A j \in 1 .. len[i] : s[o[i - 1] + j] = <<i, j>>
      BY <1>1, <3>1 DEF LaidOut
    <3>4. ASSUME NEW j \in 1 .. len[i] PROVE (s \o t)[o[i - 1] + j] = s[o[i - 1] + j]
      <4> DEFINE l == len[i]
                 q == o[i - 1]
      <4>1. q \in Nat /\ l \in Nat /\ q + l <= m
        BY <1>3, <2>1, <3>2, <3>3
      <4> HIDE DEF q, l
      <4>2. q + j \in 1 .. m
        BY <1>3, <4>1, Within DEF l
      <4>3. q + j \in 1 .. m + n /\ q + j <= m
        BY <1>3, <4>2
      <4> QED BY <1>3, <4>3 DEF q
    <3> QED BY <3>2, <3>3, <3>4
  <2>3. CASE i > b
    <3>1. i \in b + 1 .. c /\ i - 1 >= b /\ i >= b
      BY <2>3
    <3>2. off[i] = m + p[i] /\ off[i - 1] = m + p[i - 1] /\ p[i] \in 0 .. n /\ p[i - 1] \in 0 .. n
      BY <1>4, <1>5, <2>1, <3>1
    <3>3. p[i] = p[i - 1] + len[i] /\ \A j \in 1 .. len[i] : t[p[i - 1] + j] = <<i, j>>
      BY <1>2, <3>1 DEF LaidOut
    <3>4. ASSUME NEW j \in 1 .. len[i] PROVE (s \o t)[off[i - 1] + j] = t[p[i - 1] + j]
      <4> DEFINE l == len[i]
                 q == p[i - 1]
      <4>1. q \in Nat /\ l \in Nat /\ q + l <= n /\ off[i - 1] = m + q
        BY <1>3, <2>1, <3>2, <3>3
      <4> HIDE DEF q, l
      <4>2. q + j \in 1 .. n
        BY <1>3, <4>1, Within DEF l
      <4>3. m + q + j \in 1 .. m + n /\ ~ (m + q + j <= m) /\ (m + q + j) - m = q + j
        BY <1>3, <4>1, <4>2
      <4> QED BY <1>3, <4>1, <4>3 DEF q
    <3>5. off[i] = off[i - 1] + len[i]
      <4>1. m \in Nat /\ p[i - 1] \in Nat /\ p[i] = p[i - 1] + len[i]
        BY <1>3, <3>2, <3>3
      <4> QED BY <2>1, <3>2, <4>1
    <3> QED BY <3>3, <3>4, <3>5
  <2>4. i <= b \/ i > b
    OBVIOUS
  <2> QED BY <2>2, <2>3, <2>4
<1>9. off \in [a .. c -> 0 .. Len(s \o t)]
  BY <1>3, <1>6 DEF off
<1>10. LaidOut(s \o t, a, c, len, off)
  <2>1. a <= c /\ off[c] = Len(s \o t)
    BY <1>3, <1>4, <1>6
  <2> QED BY <1>6, <1>7, <1>8, <1>9, <2>1 DEF LaidOut
<1> QED BY <1>9, <1>10 DEF Laid

(* What a stream begins with.                                              *)
LEMMA LaidFirst ==
  ASSUME NEW S, NEW s \in Seq(S), NEW h \in Nat, NEW n \in Nat, NEW len,
         \A i \in h + 1 .. n : len[i] \in Nat, Laid(s, h, n, len)
  PROVE  /\ h <= n
         /\ h = n => s = <<>>
         /\ h < n => /\ len[h + 1] <= Len(s)
                     /\ \A j \in 1 .. len[h + 1] : s[j] = <<h + 1, j>>
<1>1. PICK off \in [h .. n -> 0 .. Len(s)] : LaidOut(s, h, n, len, off)
  BY DEF Laid
<1>2. h <= n /\ off[h] = 0 /\ off[n] = Len(s) /\ Len(s) \in Nat
  BY <1>1, LenProperties DEF LaidOut
<1>3. h = n => s = <<>>
  BY <1>2, EmptySeq
<1>4. ASSUME h < n
      PROVE  /\ len[h + 1] <= Len(s)
             /\ \A j \in 1 .. len[h + 1] : s[j] = <<h + 1, j>>
  <2>1. h + 1 \in h + 1 .. n /\ (h + 1) - 1 = h /\ h + 1 \in h .. n /\ len[h + 1] \in Nat
    BY <1>4
  <2>2. /\ off[h + 1] = off[(h + 1) - 1] + len[h + 1]
        /\ \A j \in 1 .. len[h + 1] : s[off[(h + 1) - 1] + j] = <<h + 1, j>>
    BY <1>1, <2>1 DEF LaidOut
  <2>3. off[h + 1] \in 0 .. Len(s)
    BY <2>1
  <2> QED BY <1>2, <2>1, <2>2, <2>3
<1> QED BY <1>2, <1>3, <1>4

(* A stream without its first message.                                     *)
LEMMA LaidRest ==
  ASSUME NEW S, NEW s \in Seq(S), NEW h \in Nat, NEW n \in Nat, h < n, NEW len,
         \A i \in h + 1 .. n : len[i] \in Nat, Laid(s, h, n, len),
         NEW t \in Seq(S), Len(t) = Len(s) - len[h + 1],
         \A j \in 1 .. Len(t) : t[j] = s[len[h + 1] + j]
  PROVE  Laid(t, h + 1, n, len)
<1>0. PICK off \in [h .. n -> 0 .. Len(s)] : LaidOut(s, h, n, len, off)
  BY DEF Laid
<1> DEFINE l == len[h + 1]
           new == [i \in h + 1 .. n |-> off[i] - l]
<1>1. Len(s) \in Nat /\ Len(t) \in Nat /\ h + 1 \in h .. n /\ h + 1 \in h + 1 .. n /\ l \in Nat
  BY LenProperties
<1>2. /\ off[h] = 0 /\ off[n] = Len(s)
      /\ \A i, j \in h .. n : i <= j => off[i] <= off[j]
      /\ \A i \in h .. n : off[i] \in 0 .. Len(s)
  BY <1>0 DEF LaidOut
<1>3. off[h + 1] = l
  <2>1. (h + 1) - 1 = h
    BY <1>1
  <2>2. off[h + 1] = off[h] + l
    BY <1>0, <1>1, <2>1 DEF LaidOut
  <2> QED BY <1>1, <1>2, <2>2
<1>4. \A i \in h + 1 .. n : i \in h .. n /\ new[i] = off[i] - l /\ off[i] >= l
  BY <1>1, <1>2, <1>3
<1> HIDE DEF l
<1>5. /\ new \in [h + 1 .. n -> 0 .. Len(t)] /\ new[h + 1] = 0 /\ new[n] = Len(t)
  BY <1>1, <1>2, <1>3, <1>4 DEF l
<1>6. \A i, j \in h + 1 .. n : i <= j => new[i] <= new[j]
  <2> SUFFICES ASSUME NEW i \in h + 1 .. n, NEW j \in h + 1 .. n, i <= j PROVE new[i] <= new[j]
    OBVIOUS
  <2>1. i \in h .. n /\ j \in h .. n /\ new[i] = off[i] - l /\ new[j] = off[j] - l
    BY <1>4
  <2>2. off[i] <= off[j] /\ off[i] \in Int /\ off[j] \in Int
    BY <1>2, <2>1
  <2> QED BY <1>1, <2>1, <2>2
<1>7. ASSUME NEW i \in h + 2 .. n
      PROVE  /\ new[i] = new[i - 1] + len[i]
             /\ \A j \in 1 .. len[i] : t[new[i - 1] + j] = <<i, j>>
  <2>1. i \in h + 1 .. n /\ i - 1 \in h + 1 .. n /\ i - 1 \in h .. n /\ len[i] \in Nat
    OBVIOUS
  <2>2. off[i] = off[i - 1] + len[i] /\ \A j \in 1 .. len[i] : s[off[i - 1] + j] = <<i, j>>
    BY <1>0, <2>1 DEF LaidOut
  <2>3. new[i] = off[i] - l /\ new[i - 1] = off[i - 1] - l /\ off[i - 1] >= l
    BY <1>4, <2>1
  <2>4. off[i] \in 0 .. Len(s) /\ off[i - 1] \in 0 .. Len(s)
    BY <1>2, <2>1
  <2>5. /\ new[i - 1] \in Nat /\ new[i] = new[i - 1] + len[i] /\ new[i] <= Len(t)
        /\ l + new[i - 1] = off[i - 1]
    <3> DEFINE a == off[i - 1]
               b == off[i]
               k == len[i]
    <3>1. a \in Int /\ b \in Int /\ k \in Int /\ a >= l /\ b = a + k /\ b <= Len(s)
      <4>1. a \in Int /\ b \in Int /\ b <= Len(s)
        BY <2>4
      <4> QED BY <2>1, <2>2, <2>3, <4>1
    <3>2. new[i] = b - l /\ new[i - 1] = a - l /\ Len(t) = Len(s) - l
      BY <2>3 DEF l
    <3>3. Len(s) \in Nat /\ l \in Nat
      BY <1>1
    <3> HIDE DEF a, b, k
    <3>4. a - l \in Nat /\ b - l = (a - l) + k /\ b - l <= Len(s) - l /\ l + (a - l) = a
      BY <3>1, <3>3, Shift
    <3> QED BY <3>2, <3>4 DEF a, k
  <2>6. ASSUME NEW j \in 1 .. len[i] PROVE t[new[i - 1] + j] = s[off[i - 1] + j]
    <3>1. new[i - 1] + j \in 1 .. Len(t)
      BY <1>1, <2>1, <2>5, Within
    <3>2. t[new[i - 1] + j] = s[l + (new[i - 1] + j)]
      BY <3>1 DEF l
    <3>3. l + (new[i - 1] + j) = (l + new[i - 1]) + j
      BY <1>1, <2>1, <2>5
    <3> QED BY <2>5, <3>2, <3>3
  <2> QED BY <2>2, <2>5, <2>6
<1> HIDE DEF new
<1>8. LaidOut(t, h + 1, n, len, new)
  <2>1. (h + 1) + 1 = h + 2 /\ h + 1 <= n
    BY <1>1
  <2> QED BY <1>5, <1>6, <1>7, <2>1 DEF LaidOut
<1> QED BY <1>5, <1>8 DEF Laid

(* Cutting a sequence in two.                                              *)
LEMMA Cut ==
  ASSUME NEW S, NEW s \in Seq(S), NEW n \in 0 .. Len(s)
  PROVE  LET first == SubSeq(s, 1, n)
             rest  == SubSeq(s, n + 1, Len(s))
         IN  /\ first \in Seq(S) /\ Len(first) = n
             /\ \A j \in 1 .. n : first[j] = s[j]
             /\ rest \in Seq(S) /\ Len(rest) = Len(s) - n
             /\ \A j \in 1 .. Len(s) - n : rest[j] = s[n + j]
             /\ first \o rest = s
<1>1. Len(s) \in Nat /\ \A i \in 1 .. Len(s) : s[i] \in S
  BY LenProperties, ElementOfSeq
<1> DEFINE first == SubSeq(s, 1, n)
           rest  == SubSeq(s, n + 1, Len(s))
<1>2. first \in Seq(S) /\ Len(first) = n /\ \A j \in 1 .. n : first[j] = s[j]
  <2>1. \A i \in 1 .. n : s[i] \in S
    BY <1>1
  <2>2. /\ first \in Seq(S) /\ Len(first) = IF 1 <= n THEN n - 1 + 1 ELSE 0
        /\ \A j \in 1 .. n - 1 + 1 : first[j] = s[1 + j - 1]
    BY <2>1, SubSeqProperties
  <2> QED BY <2>2
<1>3. /\ rest \in Seq(S) /\ Len(rest) = Len(s) - n
      /\ \A j \in 1 .. Len(s) - n : rest[j] = s[n + j]
  <2>1. \A i \in n + 1 .. Len(s) : s[i] \in S
    BY <1>1
  <2>2. /\ rest \in Seq(S)
        /\ Len(rest) = IF n + 1 <= Len(s) THEN Len(s) - (n + 1) + 1 ELSE 0
        /\ \A j \in 1 .. Len(s) - (n + 1) + 1 : rest[j] = s[(n + 1) + j - 1]
    BY <1>1, <2>1, SubSeqProperties
  <2> QED BY <1>1, <2>2
<1>4. first \o rest = s
  <2>1. first \o rest = SubSeq(s, 1, Len(s))
    <3>1. 1 \in 1 .. Len(s) + 1 /\ n \in 1 - 1 .. Len(s) /\ Len(s) \in n .. Len(s)
      BY <1>1
    <3> QED BY <3>1, ConcatAdjacentSubSeq
  <2> QED BY <2>1, SubSeqFull
<1> HIDE DEF first, rest
<1>5. /\ first \in Seq(S) /\ Len(first) = n /\ \A j \in 1 .. n : first[j] = s[j]
      /\ rest \in Seq(S) /\ Len(rest) = Len(s) - n
      /\ \A j \in 1 .. Len(s) - n : rest[j] = s[n + j]
      /\ first \o rest = s
  BY <1>2, <1>3, <1>4
<1> QED BY <1>5 DEF first, rest

(* Taking the first message off a stream.                                  *)
LEMMA LaidTake ==
  ASSUME NEW S, NEW s \in Seq(S), s # <<>>, NEW h \in Nat, NEW n \in Nat, NEW len,
         \A i \in h + 1 .. n : len[i] \in Nat, Laid(s, h, n, len)
  PROVE  LET l     == len[h + 1]
             first == SubSeq(s, 1, l)
             rest  == SubSeq(s, l + 1, Len(s))
         IN  /\ h < n /\ l \in 0 .. Len(s) /\ Begins(s, h + 1, l)
             /\ first \in Seq(S) /\ Len(first) = l /\ Begins(first, h + 1, l)
             /\ rest \in Seq(S) /\ Laid(rest, h + 1, n, len)
<1> DEFINE l     == len[h + 1]
           first == SubSeq(s, 1, l)
           rest  == SubSeq(s, l + 1, Len(s))
<1>1. h < n /\ Len(s) \in Nat
  BY LaidFirst, LenProperties
<1>2. l \in Nat
  <2>1. h + 1 \in h + 1 .. n
    BY <1>1
  <2> QED BY <2>1
<1>3. l <= Len(s) /\ \A j \in 1 .. l : s[j] = <<h + 1, j>>
  BY <1>1, LaidFirst
<1>4. l \in 0 .. Len(s)
  BY <1>1, <1>2, <1>3
<1>5. /\ first \in Seq(S) /\ Len(first) = l /\ \A j \in 1 .. l : first[j] = s[j]
      /\ rest \in Seq(S) /\ Len(rest) = Len(s) - l
      /\ \A j \in 1 .. Len(s) - l : rest[j] = s[l + j]
  <2> HIDE DEF l
  <2> QED BY <1>4, Cut
<1>6. Laid(rest, h + 1, n, len)
  <2>1. rest \in Seq(S) /\ Len(rest) = Len(s) - l /\ \A j \in 1 .. Len(rest) : rest[j] = s[l + j]
    BY <1>5
  <2> HIDE DEF rest
  <2> QED BY <1>1, <2>1, LaidRest
<1> HIDE DEF first, rest
<1>7. Begins(s, h + 1, l) /\ Begins(first, h + 1, l)
  BY <1>3, <1>5 DEF Begins
<1> QED BY <1>1, <1>3, <1>4, <1>5, <1>6, <1>7 DEF first, rest
=============================================================================
