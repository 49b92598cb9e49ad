------------------------ MODULE SessionStart_proofs -------------------------
(***************************************************************************)
(* Proofs about SessionStart: for any number of hosts, accounts, forms and *)
(* sessions, whatever answers at the hosts,                                *)
(*   - the list of recent hosts shows those started last, the last one     *)
(*     first (NewestListed), and never forgets a password (PasswordKept);  *)
(*   - a session logs in with what the list shows (TriesListedAccount), at *)
(*     its own sockets and in TLS where the DRAC wants that (RightSockets);*)
(*   - the web server of an old DRAC is left logged out (WebLoggedOut);    *)
(*   - the page says of an account what is so (StatusOfAccount).           *)
(*                                                                         *)
(* What the last four rest on is that a host has one session at a time,    *)
(* which dracmap says (OneEach).                                           *)
(***************************************************************************)
EXTENDS SessionStart, Streams, FiniteSetTheorems

-----------------------------------------------------------------------------
(* Sequences without an element, and with one in front.                    *)

LEMMA SmallestIsMin ==
  ASSUME NEW T, T \subseteq Nat, T # {}
  PROVE  Min(T) \in T
<1>1. \E m \in T : \A k \in T : m <= k
  BY Smallest
<1> QED BY <1>1 DEF Min

LEMMA RemoveAtProperties ==
  ASSUME NEW S, NEW s \in Seq(S), NEW k \in 1 .. Len(s)
  PROVE  /\ RemoveAt(s, k) \in Seq(S) /\ Len(RemoveAt(s, k)) = Len(s) - 1
         /\ \A i \in 1 .. Len(s) - 1 : RemoveAt(s, k)[i] = IF i < k THEN s[i] ELSE s[i + 1]
<1> DEFINE a == SubSeq(s, 1, k - 1)
           b == SubSeq(s, k + 1, Len(s))
<1>1. Len(s) \in Nat /\ k \in Nat /\ 1 <= k /\ k <= Len(s)
  BY LenProperties
<1>2. a \in Seq(S) /\ Len(a) = k - 1 /\ \A i \in 1 .. k - 1 : a[i] = s[i]
  BY <1>1, SubSeqProperties
<1>3. b \in Seq(S) /\ Len(b) = Len(s) - k /\ \A i \in 1 .. Len(s) - k : b[i] = s[k + i]
  BY <1>1, SubSeqProperties
<1> HIDE DEF a, b
<1> PICK l \in Nat : l = k - 1
  BY <1>1
<1>4. /\ a \o b \in Seq(S) /\ Len(a \o b) = Len(s) - 1
      /\ \A i \in 1 .. Len(s) - 1 : (a \o b)[i] = IF i <= l THEN a[i] ELSE b[i - l]
  <2>1. a \in Seq(S) /\ b \in Seq(S) /\ Len(a) = l /\ l + Len(b) = Len(s) - 1
    BY <1>1, <1>2, <1>3
  <2>2. a \o b \in Seq(S) /\ Len(a \o b) = l + Len(b)
    BY <2>1, Joined
  <2>3. \A i \in 1 .. Len(a \o b) : (a \o b)[i] = IF i <= l THEN a[i] ELSE b[i - l]
    BY <2>1, Joined
  <2> QED BY <2>1, <2>2, <2>3
<1>5. ASSUME NEW i \in 1 .. Len(s) - 1
      PROVE  (a \o b)[i] = IF i < k THEN s[i] ELSE s[i + 1]
  <2>1. CASE i < k
    BY <1>1, <1>2, <1>4, <2>1
  <2>2. CASE ~ (i < k)
    <3>1. ~ (i <= l) /\ i - l \in 1 .. Len(s) - k /\ k + (i - l) = i + 1
      BY <1>1, <2>2
    <3> QED BY <1>3, <1>4, <2>2, <3>1
  <2> QED BY <2>1, <2>2
<1> QED BY <1>4, <1>5 DEF RemoveAt, a, b

LEMMA InFrontProperties ==
  ASSUME NEW S, NEW e \in S, NEW s \in Seq(S)
  PROVE  /\ <<e>> \o s \in Seq(S) /\ Len(<<e>> \o s) = Len(s) + 1
         /\ (<<e>> \o s)[1] = e /\ \A i \in 2 .. Len(s) + 1 : (<<e>> \o s)[i] = s[i - 1]
<1>1. <<e>> \in Seq(S) /\ Len(<<e>>) = 1 /\ <<e>>[1] = e /\ Len(s) \in Nat
  BY LenProperties
<1> DEFINE a == <<e>>
<1>2. a \in Seq(S) /\ Len(a) = 1 /\ a[1] = e
  BY <1>1
<1> HIDE DEF a
<1>3. /\ a \o s \in Seq(S) /\ Len(a \o s) = 1 + Len(s)
      /\ \A i \in 1 .. Len(a \o s) : (a \o s)[i] = IF i <= 1 THEN a[i] ELSE s[i - 1]
  BY <1>2, Joined
<1> QED BY <1>1, <1>2, <1>3 DEF a

LEMMA RemoveFirstIsAt ==
  ASSUME NEW S, NEW s \in Seq(S), NEW h, NEW k \in 1 .. Len(s), s[k] = h,
         \A i \in 1 .. Len(s) : s[i] = h => i = k
  PROVE  RemoveFirst(s, h) = RemoveAt(s, k)
<1>1. {i \in 1 .. Len(s) : s[i] = h} = {k}
  OBVIOUS
<1>2. k \in Nat
  BY LenProperties
<1>3. Min({k}) = k
  <2>1. {k} \subseteq Nat /\ {k} # {}
    BY <1>2
  <2> QED BY <2>1, SmallestIsMin
<1> QED BY <1>1, <1>3 DEF RemoveFirst, SelectInSeq

LEMMA RemoveFirstOfNone ==
  ASSUME NEW s, NEW h, \A i \in 1 .. Len(s) : s[i] # h
  PROVE  RemoveFirst(s, h) = s
BY DEF RemoveFirst

-----------------------------------------------------------------------------
(* The list of recent hosts.                                               *)

(* Each host is in the order once, and the list follows it as far as it    *)
(* goes.                                                                   *)
Once(o) == \A i, j \in 1 .. Len(o) : o[i] = o[j] => i = j

Follows(r, o) ==
  /\ Len(r) = IF Len(o) < MaxRecent THEN Len(o) ELSE MaxRecent
  /\ \A i \in 1 .. Len(r) : r[i].host = o[i]

RecentInv == TypeOK /\ Once(order) /\ Follows(recent, order)

LEMMA RecentFacts ==
  ASSUME TypeOK
  PROVE  /\ recent \in Seq(Entries) /\ Len(recent) \in Nat /\ DOMAIN recent = 1 .. Len(recent)
         /\ \A i \in 1 .. Len(recent) : recent[i] \in Entries
         /\ order \in Seq(Hosts) /\ Len(order) \in Nat
         /\ MaxRecent \in Nat /\ MaxRecent >= 1
<1>1. recent \in Seq(Entries) /\ order \in Seq(Hosts)
  BY DEF TypeOK
<1> QED BY <1>1, LenProperties, ElementOfSeq, RecentAssumption

LEMMA NewestListedFollows == RecentInv => NewestListed
<1> SUFFICES ASSUME RecentInv PROVE NewestListed
  OBVIOUS
<1> DEFINE m == IF Len(order) < MaxRecent THEN Len(order) ELSE MaxRecent
           s == SubSeq(order, 1, m)
<1>1. /\ DOMAIN recent = 1 .. Len(recent) /\ Len(recent) = m
      /\ \A i \in 1 .. m : recent[i].host = order[i]
  BY RecentFacts DEF RecentInv, Follows
<1>2. m \in Nat /\ \A i \in 1 .. m : order[i] \in Hosts
  <2>1. order \in Seq(Hosts) /\ Len(order) \in Nat /\ MaxRecent \in Nat
    BY RecentFacts DEF RecentInv
  <2>2. m \in Nat /\ m <= Len(order)
    BY <2>1
  <2> QED BY <2>1, <2>2, ElementOfSeq
<1> HIDE DEF m
<1>3. s \in Seq(Hosts) /\ Len(s) = m /\ \A i \in 1 .. m : s[i] = order[i]
  BY <1>2, SubSeqProperties
<1> HIDE DEF s
<1>4. s = [i \in 1 .. m |-> s[i]]
  BY <1>3, LenProperties
<1>5. [i \in DOMAIN recent |-> recent[i].host] = s
  BY <1>1, <1>3, <1>4
<1> QED BY <1>5 DEF NewestListed, s, m

(* getRecentDrac finds the entry of a host that is listed.                 *)
LEMMA EntryFound ==
  ASSUME TypeOK, NEW h, Listed(h)
  PROVE  /\ GetRecentDrac(h) \in 1 .. Len(recent) /\ recent[GetRecentDrac(h)].host = h
         /\ Entry(h) \in Entries
<1> DEFINE T == {i \in 1 .. Len(recent) : recent[i].host = h}
<1>1. T # {} /\ T \subseteq Nat
  BY RecentFacts DEF Listed
<1>2. GetRecentDrac(h) = Min(T)
  BY <1>1 DEF GetRecentDrac, SelectInSeq
<1>3. GetRecentDrac(h) \in T
  BY <1>1, <1>2, SmallestIsMin
<1> QED BY <1>3, RecentFacts DEF Entry

LEMMA CompletedIsAccount ==
  ASSUME TypeOK, NEW h, NEW a \in Accounts
  PROVE  Completed(h, a) \in Accounts
<1>1. CASE ~ Listed(h)
  BY <1>1 DEF Completed
<1>2. CASE Listed(h)
  <2>1. Entry(h).login \in Words \cup {""} /\ Entry(h).passwd \in Words \cup {""}
    BY <1>2, EntryFound DEF Entries
  <2>2. a.login \in Words \cup {""} /\ a.passwd \in Words \cup {""}
    BY DEF Accounts
  <2> QED BY <1>2, <2>1, <2>2 DEF Completed, Account, Accounts
<1> QED BY <1>1, <1>2

(* What stays of the list when the entry of a host is taken out.           *)
LEMMA WithoutHost ==
  ASSUME RecentInv, NEW h \in Hosts
  PROVE  /\ Without(h) \in Seq(Entries)
         /\ \A i \in 1 .. Len(Without(h)) : Without(h)[i].host = RemoveFirst(order, h)[i]
         /\ RemoveFirst(order, h) \in Seq(Hosts)
         /\ Len(Without(h)) \in Nat /\ Len(RemoveFirst(order, h)) \in Nat
         /\ Once(RemoveFirst(order, h))
         /\ \A i \in 1 .. Len(RemoveFirst(order, h)) : RemoveFirst(order, h)[i] # h
         /\ \/ Len(Without(h)) = Len(RemoveFirst(order, h)) /\ Len(Without(h)) <= MaxRecent
            \/ /\ Len(Without(h)) <= Len(RemoveFirst(order, h))
               /\ Len(Without(h)) \in {MaxRecent - 1, MaxRecent}
<1> PICK L \in Nat, m \in Nat : L = Len(order) /\ m = Len(recent)
  BY RecentFacts DEF RecentInv
<1>1. /\ MaxRecent \in Nat /\ MaxRecent >= 1 /\ recent \in Seq(Entries) /\ order \in Seq(Hosts)
      /\ m = IF L < MaxRecent THEN L ELSE MaxRecent
      /\ m <= L /\ m <= MaxRecent
      /\ DOMAIN recent = 1 .. m
  BY RecentFacts DEF RecentInv, Follows
<1>2. /\ \A i \in 1 .. m : recent[i].host = order[i]
      /\ \A i, j \in 1 .. L : order[i] = order[j] => i = j
  BY <1>1 DEF RecentInv, Follows, Once
<1>3. CASE \A i \in 1 .. L : order[i] # h
  <2>1. RemoveFirst(order, h) = order
    BY <1>3, RemoveFirstOfNone
  <2>2. ~ Listed(h)
    BY <1>1, <1>2, <1>3 DEF Listed
  <2>3. Without(h) = recent
    BY <2>2 DEF Without
  <2>4. (m = L /\ m <= MaxRecent) \/ (m <= L /\ m = MaxRecent)
    BY <1>1
  <2> QED BY <1>1, <1>2, <1>3, <2>1, <2>3, <2>4 DEF Once
<1>4. ASSUME NEW k \in 1 .. L, order[k] = h
      PROVE  /\ RemoveFirst(order, h) \in Seq(Hosts) /\ Len(RemoveFirst(order, h)) = L - 1
             /\ \A i \in 1 .. L - 1 : RemoveFirst(order, h)[i] = IF i < k THEN order[i] ELSE order[i + 1]
             /\ Once(RemoveFirst(order, h))
             /\ \A i \in 1 .. L - 1 : RemoveFirst(order, h)[i] # h
  <2> DEFINE o == RemoveFirst(order, h)
  <2>1. o = RemoveAt(order, k)
    BY <1>1, <1>2, <1>4, RemoveFirstIsAt
  <2>2. /\ o \in Seq(Hosts) /\ Len(o) = L - 1
        /\ \A i \in 1 .. L - 1 : o[i] = IF i < k THEN order[i] ELSE order[i + 1]
    BY <1>1, <2>1, RemoveAtProperties
  <2> HIDE DEF o
  <2> DEFINE at(i) == IF i < k THEN i ELSE i + 1
  <2>3. \A i \in 1 .. L - 1 : at(i) \in 1 .. L /\ at(i) # k /\ o[i] = order[at(i)]
    BY <2>2
  <2>4. \A i, j \in 1 .. L - 1 : at(i) = at(j) => i = j
    OBVIOUS
  <2> HIDE DEF at
  <2>5. \A i \in 1 .. L - 1 : o[i] # h
    BY <1>2, <1>4, <2>3
  <2>6. \A i, j \in 1 .. L - 1 : o[i] = o[j] => i = j
    BY <1>2, <2>3, <2>4
  <2> QED BY <2>2, <2>5, <2>6 DEF Once, o
<1>5. ASSUME NEW k \in 1 .. L, order[k] = h, k <= m
      PROVE  /\ Without(h) \in Seq(Entries) /\ Len(Without(h)) = m - 1
             /\ \A i \in 1 .. m - 1 : Without(h)[i] = IF i < k THEN recent[i] ELSE recent[i + 1]
  <2>1. Listed(h)
    BY <1>1, <1>2, <1>5 DEF Listed
  <2>2. GetRecentDrac(h) \in 1 .. m /\ recent[GetRecentDrac(h)].host = h
    BY <2>1, EntryFound DEF RecentInv
  <2>3. GetRecentDrac(h) = k
    BY <1>1, <1>2, <1>5, <2>2
  <2>4. Without(h) = RemoveAt(recent, k)
    BY <2>1, <2>3 DEF Without
  <2>5. k \in 1 .. Len(recent)
    BY <1>5
  <2> QED BY <1>1, <2>4, <2>5, RemoveAtProperties
<1>6. ASSUME NEW k \in 1 .. L, order[k] = h, k <= m
      PROVE  \A i \in 1 .. m - 1 : Without(h)[i].host = RemoveFirst(order, h)[i]
  <2> SUFFICES ASSUME NEW i \in 1 .. m - 1 PROVE Without(h)[i].host = RemoveFirst(order, h)[i]
    OBVIOUS
  <2>1. i \in 1 .. L - 1 /\ i \in 1 .. m /\ i + 1 \in 1 .. m
    BY <1>1
  <2> QED BY <1>2, <1>4, <1>5, <1>6, <2>1
<1>7. ASSUME NEW k \in 1 .. L, order[k] = h, k <= m
      PROVE  \/ m - 1 = L - 1 /\ m - 1 <= MaxRecent
             \/ m - 1 <= L - 1 /\ m - 1 \in {MaxRecent - 1, MaxRecent}
  BY <1>1
<1>8. ASSUME NEW k \in 1 .. L, order[k] = h, ~ (k <= m)
      PROVE  /\ Without(h) = recent /\ m <= L - 1 /\ m = MaxRecent
             /\ \A i \in 1 .. m : Without(h)[i].host = RemoveFirst(order, h)[i]
  <2>1. ~ Listed(h)
    BY <1>1, <1>2, <1>8 DEF Listed
  <2>2. Without(h) = recent
    BY <2>1 DEF Without
  <2>3. m <= L - 1 /\ m = MaxRecent
    BY <1>1, <1>8
  <2>4. \A i \in 1 .. m : i < k /\ i \in 1 .. L - 1
    BY <1>8, <2>3
  <2> QED BY <1>2, <1>4, <1>8, <2>2, <2>3, <2>4
<1>9. CASE \E k \in 1 .. L : order[k] = h
  <2> PICK k \in 1 .. L : order[k] = h
    BY <1>9
  <2>1. CASE k <= m
    <3>1. m \in Nat \ {0} /\ L \in Nat \ {0}
      BY <2>1
    <3>2. m - 1 \in Nat /\ L - 1 \in Nat
      BY <3>1
    <3>3. Len(Without(h)) = m - 1 /\ Len(RemoveFirst(order, h)) = L - 1
      BY <1>4, <1>5, <2>1
    <3> QED BY <1>4, <1>5, <1>6, <1>7, <2>1, <3>2, <3>3
  <2>2. CASE ~ (k <= m)
    <3>1. L - 1 \in Nat
      OBVIOUS
    <3>2. Len(Without(h)) = m /\ Len(RemoveFirst(order, h)) = L - 1
      BY <1>4, <1>8, <2>2
    <3> QED BY <1>1, <1>4, <1>8, <2>2, <3>1, <3>2
  <2> QED BY <2>1, <2>2
<1> QED BY <1>3, <1>9
LEMMA TrimmedProperties ==
  ASSUME NEW l \in Seq(Entries), Len(l) <= MaxRecent + 1
  PROVE  /\ Trimmed(l) \in Seq(Entries)
         /\ Len(Trimmed(l)) = IF Len(l) < MaxRecent THEN Len(l) ELSE MaxRecent
         /\ \A i \in 1 .. Len(Trimmed(l)) : Trimmed(l)[i] = l[i]
<1>1. MaxRecent \in Nat /\ Len(l) \in Nat /\ \A i \in 1 .. Len(l) : l[i] \in Entries
  BY RecentAssumption, LenProperties, ElementOfSeq
<1>2. CASE Len(l) > MaxRecent
  <2> DEFINE f == SubSeq(l, 1, Len(l) - 1)
  <2>1. Len(l) - 1 = MaxRecent /\ \A i \in 1 .. Len(l) - 1 : l[i] \in Entries
    BY <1>1, <1>2
  <2>2. f \in Seq(Entries) /\ Len(f) = MaxRecent /\ \A i \in 1 .. MaxRecent : f[i] = l[i]
    BY <1>1, <2>1, SubSeqProperties
  <2>3. Trimmed(l) = f
    BY <1>2 DEF Trimmed, Front
  <2> QED BY <1>1, <1>2, <2>2, <2>3
<1>3. CASE ~ (Len(l) > MaxRecent)
  BY <1>1, <1>3 DEF Trimmed
<1> QED BY <1>2, <1>3

LEMMA WithoutIsPart ==
  ASSUME TypeOK, NEW h, NEW i \in 1 .. Len(Without(h))
  PROVE  \E j \in 1 .. Len(recent) : Without(h)[i] = recent[j]
<1>1. CASE ~ Listed(h)
  BY <1>1 DEF Without
<1>2. CASE Listed(h)
  <2> PICK k \in 1 .. Len(recent) : Without(h) = RemoveAt(recent, k)
    BY <1>2, EntryFound DEF Without
  <2>1. /\ Len(RemoveAt(recent, k)) = Len(recent) - 1
        /\ \A n \in 1 .. Len(recent) - 1 : RemoveAt(recent, k)[n] = IF n < k THEN recent[n] ELSE recent[n + 1]
    BY RecentFacts, RemoveAtProperties
  <2>2. i \in 1 .. Len(recent) /\ i + 1 \in 1 .. Len(recent) /\ i \in 1 .. Len(recent) - 1
    BY <2>1, RecentFacts
  <2> QED BY <2>1, <2>2
<1> QED BY <1>1, <1>2

(* The list with the entry of a host that was started: behind it are       *)
(* entries of others that were there before.                               *)
OthersKept(r, h) ==
  \A i \in 2 .. Len(r) : r[i].host # h /\ \E j \in 1 .. Len(recent) : r[i] = recent[j]

LEMMA HostStarted ==
  ASSUME RecentInv, NEW h \in Hosts, NEW e \in Entries, e.host = h, NEW r, NEW o,
         r = InFront(Without(h), e), o = <<h>> \o RemoveFirst(order, h)
  PROVE  /\ r \in Seq(Entries) /\ Len(r) \in Nat /\ Len(r) <= MaxRecent /\ Len(r) >= 1 /\ r[1] = e
         /\ o \in Seq(Hosts) /\ Once(o) /\ Follows(r, o)
         /\ OthersKept(r, h)
<1> DEFINE W == Without(h)
           R == RemoveFirst(order, h)
           l == <<e>> \o W
<1> PICK m \in Nat, n \in Nat : m = Len(W) /\ n = Len(R)
  BY WithoutHost
<1>1. /\ W \in Seq(Entries) /\ R \in Seq(Hosts) /\ MaxRecent \in Nat /\ MaxRecent >= 1
      /\ \/ m = n /\ m <= MaxRecent
         \/ m <= n /\ m \in {MaxRecent - 1, MaxRecent}
  BY WithoutHost, RecentFacts DEF RecentInv
<1>2. /\ \A i \in 1 .. m : W[i].host = R[i]
      /\ \A i, j \in 1 .. n : R[i] = R[j] => i = j
      /\ \A i \in 1 .. n : R[i] # h
  BY WithoutHost DEF Once
<1>3. \A i \in 1 .. m : \E j \in 1 .. Len(recent) : W[i] = recent[j]
  BY WithoutIsPart DEF RecentInv
<1>4. o \in Seq(Hosts) /\ Len(o) = n + 1 /\ o[1] = h /\ \A i \in 2 .. n + 1 : o[i] = R[i - 1]
  BY <1>1, InFrontProperties
<1>5. l \in Seq(Entries) /\ Len(l) = m + 1 /\ l[1] = e /\ \A i \in 2 .. m + 1 : l[i] = W[i - 1]
  BY <1>1, InFrontProperties
<1>6. r = Trimmed(l)
  BY DEF InFront
<1> HIDE DEF W, R, l
<1>7. m + 1 <= MaxRecent + 1
  BY <1>1
<1>8. /\ r \in Seq(Entries) /\ Len(r) = IF m + 1 < MaxRecent THEN m + 1 ELSE MaxRecent
      /\ \A i \in 1 .. Len(r) : r[i] = l[i]
  BY <1>5, <1>6, <1>7, TrimmedProperties
<1> PICK q \in Nat : q = Len(r)
  BY <1>8, LenProperties
<1>9. q <= MaxRecent /\ q >= 1 /\ q <= m + 1
  BY <1>1, <1>8
<1>10. q = IF n + 1 < MaxRecent THEN n + 1 ELSE MaxRecent
  BY <1>1, <1>8
<1>11. r[1] = e
  BY <1>5, <1>8, <1>9
<1> DEFINE Kept(i) == /\ r[i].host = o[i] /\ r[i].host # h
                      /\ \E j \in 1 .. Len(recent) : r[i] = recent[j]
<1>12. ASSUME NEW i \in 2 .. q PROVE Kept(i)
  <2>1. i \in 2 .. m + 1 /\ i \in 1 .. q /\ i - 1 \in 1 .. m /\ i - 1 \in 1 .. n /\ i \in 2 .. n + 1
    BY <1>1, <1>9
  <2>2. r[i] = W[i - 1]
    BY <1>5, <1>8, <2>1
  <2>3. o[i] = R[i - 1] /\ W[i - 1].host = R[i - 1] /\ R[i - 1] # h
    BY <1>2, <1>4, <2>1
  <2>4. \E j \in 1 .. Len(recent) : W[i - 1] = recent[j]
    BY <1>3, <2>1
  <2> QED BY <2>2, <2>3, <2>4
<1>13. Follows(r, o)
  <2>1. ASSUME NEW i \in 1 .. q PROVE r[i].host = o[i]
    <3>1. CASE i = 1
      BY <1>4, <1>11, <3>1
    <3>2. CASE i # 1
      <4>1. i \in 2 .. q
        BY <3>2
      <4> QED BY <1>12, <4>1
    <3> QED BY <3>1, <3>2
  <2> QED BY <1>4, <1>10, <2>1 DEF Follows
<1>14. Once(o)
  <2> SUFFICES ASSUME NEW i \in 1 .. n + 1, NEW j \in 1 .. n + 1, o[i] = o[j] PROVE i = j
    BY <1>4 DEF Once
  <2>1. \A k \in 1 .. n + 1 : k # 1 => k \in 2 .. n + 1 /\ k - 1 \in 1 .. n
    OBVIOUS
  <2>2. CASE i = 1 \/ j = 1
    BY <1>2, <1>4, <2>1, <2>2
  <2>3. CASE i # 1 /\ j # 1
    <3>1. i - 1 = j - 1
      BY <1>2, <1>4, <2>1, <2>3
    <3> QED BY <3>1
  <2> QED BY <2>2, <2>3
<1>15. OthersKept(r, h)
  BY <1>12 DEF OthersKept
<1> QED BY <1>4, <1>8, <1>9, <1>11, <1>13, <1>14, <1>15

(* In a list in which each host is once, an entry is the one that is found. *)
FoundByHost ==
  \A i \in 1 .. Len(recent) : Listed(recent[i].host) /\ Entry(recent[i].host) = recent[i]

LEMMA OnlyEntry == RecentInv => FoundByHost
<1> SUFFICES ASSUME RecentInv, NEW i \in 1 .. Len(recent)
             PROVE  Listed(recent[i].host) /\ Entry(recent[i].host) = recent[i]
  BY DEF FoundByHost
<1> DEFINE h == recent[i].host
<1>1. Listed(h)
  BY RecentFacts DEF RecentInv, Listed
<1>2. GetRecentDrac(h) \in 1 .. Len(recent) /\ recent[GetRecentDrac(h)].host = h
  BY <1>1, EntryFound DEF RecentInv
<1>3. \A j \in 1 .. Len(recent) : j \in 1 .. Len(order)
  BY RecentFacts DEF RecentInv, Follows
<1>4. GetRecentDrac(h) = i
  BY <1>2, <1>3 DEF RecentInv, Follows, Once
<1> QED BY <1>1, <1>4 DEF Entry

(* setupDracClient with a new session.                                     *)
LEMMA SetupStep ==
  ASSUME RecentInv, NEW h \in Hosts, NEW a \in Accounts, dracmap[h] = NoSession,
         form' \in [Forms -> {Idle} \cup [state : {"found"}, host : Hosts, account : Accounts]],
         SetupDracClient(h, a)
  PROVE  /\ RecentInv'
         /\ Completed(h, a) \in Accounts /\ dracmap' = [dracmap EXCEPT ![h] = Completed(h, a)]
         /\ Listed(h)' /\ (Entry(h))' = NewEntry(h, a)
         /\ \A g : g # h /\ Listed(g)' => Listed(g) /\ (Entry(g))' = Entry(g)
<1> DEFINE e == NewEntry(h, a)
<1>1. /\ dracmap' = [dracmap EXCEPT ![h] = Completed(h, a)] /\ starts < MaxStarts
      /\ recent' = InFront(Without(h), e) /\ order' = <<h>> \o RemoveFirst(order, h)
      /\ starts' = starts + 1
  BY DEF SetupDracClient
<1>2. TypeOK
  BY DEF RecentInv
<1>3. Completed(h, a) \in Accounts
  BY <1>2, CompletedIsAccount
<1>4. e \in Entries /\ e.host = h
  BY <1>3 DEF NewEntry, Entries, Accounts
<1> HIDE DEF e
<1>5. /\ recent' \in Seq(Entries) /\ Len(recent') \in Nat /\ Len(recent') <= MaxRecent
      /\ Len(recent') >= 1 /\ recent'[1] = e
      /\ order' \in Seq(Hosts) /\ Once(order') /\ Follows(recent', order')
  <2> PICK r, o : r = recent' /\ o = order'
    OBVIOUS
  <2>1. r = InFront(Without(h), e) /\ o = <<h>> \o RemoveFirst(order, h)
    BY <1>1
  <2>2. r \in Seq(Entries) /\ Len(r) \in Nat /\ Len(r) <= MaxRecent /\ Len(r) >= 1 /\ r[1] = e
    BY <1>4, <2>1, HostStarted
  <2>3. o \in Seq(Hosts) /\ Once(o) /\ Follows(r, o)
    BY <1>4, <2>1, HostStarted
  <2> QED BY <2>2, <2>3
<1>6. \A i \in 2 .. Len(recent') : /\ recent'[i].host # h
                                   /\ \E j \in 1 .. Len(recent) : recent'[i] = recent[j]
  <2> PICK r, o : r = recent' /\ o = order'
    OBVIOUS
  <2>1. r = InFront(Without(h), e) /\ o = <<h>> \o RemoveFirst(order, h)
    BY <1>1
  <2>2. OthersKept(r, h)
    BY <1>4, <2>1, HostStarted
  <2> QED BY <2>2 DEF OthersKept
<1>7. TypeOK'
  <2>1. dracmap' \in [Hosts -> Accounts \cup {NoSession}]
    BY <1>1, <1>2, <1>3 DEF TypeOK
  <2>2. starts' \in 0 .. MaxStarts
    BY <1>1, <1>2, RecentAssumption DEF TypeOK
  <2> QED BY <1>5, <2>1, <2>2 DEF TypeOK
<1>8. RecentInv'
  BY <1>5, <1>7 DEF RecentInv
<1>9. \A i \in 1 .. Len(recent') : Listed(recent[i].host)' /\ (Entry(recent[i].host))' = recent'[i]
  <2>1. (RecentInv => FoundByHost)'
    BY OnlyEntry, PTL
  <2> QED BY <1>8, <2>1 DEF FoundByHost
<1>10. Listed(h)' /\ (Entry(h))' = e
  <2>1. 1 \in 1 .. Len(recent')
    BY <1>5
  <2> QED BY <1>4, <1>5, <1>9, <2>1
<1>11. ASSUME NEW g, g # h, Listed(g)' PROVE Listed(g) /\ (Entry(g))' = Entry(g)
  <2>1. DOMAIN recent' = 1 .. Len(recent')
    BY <1>5, LenProperties
  <2>2. PICK i \in 1 .. Len(recent') : recent'[i].host = g
    BY <1>11, <2>1 DEF Listed
  <2>3. i # 1
    BY <1>4, <1>5, <1>11, <2>2
  <2>4. i \in 2 .. Len(recent')
    BY <2>3
  <2>5. PICK j \in 1 .. Len(recent) : recent'[i] = recent[j]
    BY <1>6, <2>4
  <2>6. Listed(g) /\ Entry(g) = recent[j]
    BY <2>2, <2>5, OnlyEntry DEF FoundByHost
  <2>7. (Entry(g))' = recent'[i]
    BY <1>9, <2>2
  <2> QED BY <2>5, <2>6, <2>7
<1> QED BY <1>1, <1>3, <1>8, <1>10, <1>11 DEF e

LEMMA RecentStep ==
  ASSUME RecentInv, [StartNext]_vars
  PROVE  RecentInv'
<1>1. TypeOK /\ Once(order) /\ Follows(recent, order)
  BY DEF RecentInv
<1>2. CASE UNCHANGED recentVars
  BY <1>1, <1>2 DEF recentVars, RecentInv, TypeOK
<1>3. ASSUME NEW f \in Forms, NEW h \in Hosts, NEW a \in Accounts, Post(f, h, a)
      PROVE  RecentInv'
  <2>1. UNCHANGED <<recent, dracmap, order, starts>>
    BY <1>3 DEF Post
  <2>2. form' \in [Forms -> {Idle} \cup [state : {"found"}, host : Hosts, account : Accounts]]
    <3>1. CASE form' = [form EXCEPT ![f] = [state |-> "found", host |-> h, account |-> a]]
      BY <1>1, <3>1 DEF TypeOK
    <3>2. CASE /\ Listed(h)
               /\ form' = [form EXCEPT ![f] = [state |-> "found", host |-> h,
                                               account |-> Account(Entry(h).login, Entry(h).passwd)]]
      <4>1. Account(Entry(h).login, Entry(h).passwd) \in Accounts
        BY <1>1, <3>2, EntryFound DEF Entries, Account, Accounts
      <4> QED BY <1>1, <3>2, <4>1 DEF TypeOK
    <3> QED BY <1>3, <3>1, <3>2 DEF Post
  <2> QED BY <1>1, <2>1, <2>2 DEF RecentInv, TypeOK
<1>4. ASSUME NEW h \in Hosts, NEW a \in Accounts, SetupDracClient(h, a),
             form' \in [Forms -> {Idle} \cup [state : {"found"}, host : Hosts, account : Accounts]]
      PROVE  RecentInv'
  <2>1. CASE dracmap[h] = NoSession
    BY <1>4, <2>1, SetupStep
  <2>2. CASE dracmap[h] # NoSession
    <3>1. UNCHANGED <<recent, dracmap, order, starts>>
      BY <1>4, <2>2 DEF SetupDracClient
    <3> QED BY <1>1, <1>4, <3>1 DEF RecentInv, TypeOK
  <2> QED BY <2>1, <2>2
<1>5. ASSUME NEW f \in Forms, SubmitForm(f) PROVE RecentInv'
  <2>1. form[f].host \in Hosts /\ form[f].account \in Accounts
    BY <1>1, <1>5 DEF SubmitForm, TypeOK
  <2>2. form' \in [Forms -> {Idle} \cup [state : {"found"}, host : Hosts, account : Accounts]]
    BY <1>1, <1>5 DEF SubmitForm, TypeOK
  <2> QED BY <1>4, <1>5, <2>1, <2>2 DEF SubmitForm
<1>6. ASSUME NEW h \in Hosts, Visit(h) PROVE RecentInv'
  <2>1. Account("", "") \in Accounts
    BY DEF Account, Accounts
  <2> QED BY <1>1, <1>4, <1>6, <2>1 DEF Visit, TypeOK
<1>7. ASSUME NEW h \in Hosts, EndSession(h) PROVE RecentInv'
  BY <1>1, <1>7 DEF EndSession, RecentInv, TypeOK
<1> QED BY <1>2, <1>3, <1>5, <1>6, <1>7
        DEF StartNext, vars, Submit, VisitPage, FinishSession

-----------------------------------------------------------------------------
(* The sessions.                                                           *)

(* Between the dial and the end of a session C has a context of it.        *)
Dialled == {"init", "read", "initVideo", "up"}

(* What is so of a session where it is.                                    *)
WhereItIs(s) ==
  /\ pc[s] \in Probing \cup {"new", "dial"} => ctxId[s] = -1 /\ through[s] = "none"
  /\ pc[s] \in Dialled => ctxId[s] >= 0 /\ console[s] # "nothing"
  /\ pc[s] \in {"initVideo", "up"} => account[s] = GoodAccount
  /\ console[s] = "session" => account[s] = GoodAccount
  /\ pc[s] = "new" => console[s] = "nothing"
  /\ Current(s) => host[s] \in Hosts

TlsKeptBy(s) ==
  /\ through[s] = "plain" => ~ WantsTls(s)
  /\ pc[s] = "up" /\ Is(s, {"drac6 with tls"}) => socket[s].video # "plain"

(* The page and a session that is at the host.                             *)
StatusFits(s) ==
  Current(s) =>
    /\ status[host[s]] = "auth error" => account[s] # GoodAccount
    /\ status[host[s]] \in {"video connected", "ready"} => account[s] = GoodAccount

(* An id is given once, and to a session that has dialled.                 *)
Past == {s \in Sessions : pc[s] \in Dialled \cup {"close", "over", "freed"}}

IdsGiven ==
  /\ \A s \in Sessions : ctxId[s] < nextId
  /\ nextId <= Cardinality(Past)

(* A session waits for the logout where the web server has one open.       *)
InWeb(s) == pc[s] \in {"page", "logout"} /\ account[s] = GoodAccount

WebCounted ==
  \A h \in Hosts : web[h] = IF \E s \in Sessions : host[s] = h /\ InWeb(s) THEN 1 ELSE 0

(* A host has one session at a time, which dracmap says.                   *)
OneEach ==
  /\ \A s \in Sessions : Current(s) => dracmap[host[s]] # NoSession
  /\ \A s, t \in Sessions : Current(s) /\ Current(t) /\ host[s] = host[t] => s = t

SessionsInv ==
  /\ ConnectTypeOK /\ OneEach /\ OwnSockets /\ IdsGiven /\ WebCounted
  /\ \A s \in Sessions : WhereItIs(s) /\ TlsKeptBy(s) /\ StatusFits(s)

(* A step of a session leaves the others as they are, and what the page    *)
(* and the web servers say of other hosts.                                 *)
Unmoved(t) ==
  /\ host'[t] = host[t] /\ pc'[t] = pc[t] /\ account'[t] = account[t] /\ console'[t] = console[t]
  /\ ctxId'[t] = ctxId[t] /\ through'[t] = through[t] /\ socket'[t] = socket[t]

OnlyOf(s) ==
  /\ \A t \in Sessions \ {s} : Unmoved(t)
  /\ \A h \in Hosts \ {host[s]} : status'[h] = status[h] /\ web'[h] = web[h]
  /\ kind' = kind

LEMMA OwnContext ==
  ASSUME SessionsInv, NEW s \in Sessions, pc[s] \in Dialled
  PROVE  GetDracCtx(s) = s
BY DEF SessionsInv, WhereItIs, OwnSockets

LEMMA ActsOnOwn ==
  ASSUME SessionsInv, NEW s \in Sessions, Probe(s) \/ Connect(s)
  PROVE  OnlyOf(s)
<1>1. ConnectTypeOK
  BY DEF SessionsInv
<1>2. CASE GetFrontPage(s)
  BY <1>1, <1>2 DEF GetFrontPage, OnlyOf, Unmoved, ConnectTypeOK, ownVars, glueVars, Goto
<1>3. CASE GetFails(s) \/ PostLoginFails(s) \/ DialFails(s)
  BY <1>1, <1>3 DEF GetFails, PostLoginFails, DialFails, OnlyOf, Unmoved, ConnectTypeOK, ownVars, glueVars, Goto, Says
<1>4. CASE PostLogin(s)
  BY <1>1, <1>4 DEF PostLogin, OnlyOf, Unmoved, ConnectTypeOK, ownVars, glueVars, Goto
<1>5. CASE GetConsolePage(s) \/ GetConsolePageFails(s)
  BY <1>1, <1>5 DEF GetConsolePage, GetConsolePageFails, OnlyOf, Unmoved, ConnectTypeOK, ownVars, glueVars, Goto
<1>6. CASE Logout(s)
  BY <1>1, <1>6 DEF Logout, OnlyOf, Unmoved, ConnectTypeOK, ownVars, glueVars, Goto, Says
<1>7. CASE Dial(s)
  BY <1>1, <1>7 DEF Dial, AllocDracClientCtx, OnlyOf, Unmoved, ConnectTypeOK, ownVars, Goto, Says
<1>8. CASE SendLogin(s)
  <2>1. GetDracCtx(s) = s
    BY <1>8, OwnContext DEF SendLogin, Dialled
  <2> QED BY <1>1, <1>8, <2>1 DEF SendLogin, GlueStartSsl, OnlyOf, Unmoved, ConnectTypeOK, ownVars, Goto
<1>9. CASE LoginRefused(s) \/ LoginAccepted(s)
  BY <1>1, <1>9 DEF LoginRefused, LoginAccepted, OnlyOf, Unmoved, ConnectTypeOK, ownVars, glueVars, Goto, Says
<1>10. CASE StartVideo(s)
  <2>1. GetDracCtx(s) = s
    BY <1>10, OwnContext DEF StartVideo, Dialled
  <2> QED BY <1>1, <1>10, <2>1 DEF StartVideo, GlueStartSsl, OnlyOf, Unmoved, ConnectTypeOK, ownVars, Goto
<1>11. CASE VideoUpdate(s) \/ SocketFails(s)
  BY <1>1, <1>11 DEF VideoUpdate, SocketFails, OnlyOf, Unmoved, ConnectTypeOK, ownVars, glueVars, Goto, Says
<1>12. CASE Free(s)
  BY <1>1, <1>12 DEF Free, FreeDracClientCtx, OnlyOf, Unmoved, ConnectTypeOK, Goto
<1> QED BY <1>2, <1>3, <1>4, <1>5, <1>6, <1>7, <1>8, <1>9, <1>10, <1>11, <1>12 DEF Probe, Connect

(* So what is so of the others stays so; of the status this holds because  *)
(* no other session is at the host.                                        *)
LEMMA OthersStay ==
  ASSUME SessionsInv, NEW s \in Sessions, OnlyOf(s), Current(s) \/ status' = status,
         NEW t \in Sessions \ {s}
  PROVE  WhereItIs(t)' /\ TlsKeptBy(t)' /\ StatusFits(t)'
<1>1. WhereItIs(t) /\ TlsKeptBy(t) /\ StatusFits(t) /\ Unmoved(t) /\ kind' = kind
  BY DEF SessionsInv, OnlyOf
<1>2. WhereItIs(t)' /\ TlsKeptBy(t)'
  BY <1>1 DEF WhereItIs, TlsKeptBy, Unmoved, WantsTls, Is, Current
<1>3. ASSUME Current(t) PROVE status'[host[t]] = status[host[t]]
  <2>1. host[t] \in Hosts
    BY <1>1, <1>3 DEF WhereItIs
  <2>2. Current(s) => host[t] # host[s]
    BY <1>3 DEF SessionsInv, OneEach
  <2> QED BY <2>1, <2>2 DEF OnlyOf
<1>4. StatusFits(t)'
  BY <1>1, <1>3 DEF StatusFits, Current, Unmoved
<1> QED BY <1>2, <1>4

LEMMA ProbeKeeps ==
  ASSUME SessionsInv, NEW s \in Sessions, Probe(s)
  PROVE  WhereItIs(s)' /\ TlsKeptBy(s)' /\ StatusFits(s)' /\ Current(s) /\ Current(s)'
         /\ host' = host /\ UNCHANGED <<ctxId, refs, nextId>> /\ pc[s] \in Probing
<1>1. WhereItIs(s) /\ TlsKeptBy(s) /\ StatusFits(s) /\ ConnectTypeOK
  BY DEF SessionsInv
<1>2. CASE GetFrontPage(s)
  BY <1>1, <1>2 DEF GetFrontPage, WhereItIs, TlsKeptBy, StatusFits, Current, ConnectTypeOK,
       ownVars, glueVars, Goto, WantsTls, Is, Dialled, Probing
<1>3. CASE GetFails(s) \/ PostLoginFails(s)
  BY <1>1, <1>3 DEF GetFails, PostLoginFails, WhereItIs, TlsKeptBy, StatusFits, Current, ConnectTypeOK,
       ownVars, glueVars, Goto, Says, WantsTls, Is, Dialled, Probing
<1>4. CASE PostLogin(s)
  BY <1>1, <1>4 DEF PostLogin, WhereItIs, TlsKeptBy, StatusFits, Current, ConnectTypeOK,
       ownVars, glueVars, Goto, WantsTls, Is, Dialled, Probing
<1>5. CASE GetConsolePage(s)
  BY <1>1, <1>5 DEF GetConsolePage, WhereItIs, TlsKeptBy, StatusFits, Current, ConnectTypeOK,
       ownVars, glueVars, Goto, WantsTls, Is, Dialled, Probing
<1>6. CASE GetConsolePageFails(s)
  BY <1>1, <1>6 DEF GetConsolePageFails, WhereItIs, TlsKeptBy, StatusFits, Current, ConnectTypeOK,
       ownVars, glueVars, Goto, WantsTls, Is, Dialled, Probing, Deferred
<1>7. CASE Logout(s)
  BY <1>1, <1>7 DEF Logout, WhereItIs, TlsKeptBy, StatusFits, Current, ConnectTypeOK,
       ownVars, glueVars, Goto, Says, WantsTls, Is, Dialled, Probing
<1> QED BY <1>2, <1>3, <1>4, <1>5, <1>6, <1>7 DEF Probe

(* A login that the DRAC can read and accepts comes from the right account. *)
LEMMA AcceptedIsGood ==
  ASSUME SessionsInv, NEW s \in Sessions, pc[s] = "read", Accepts(s)
  PROVE  account[s] = GoodAccount
BY DEF SessionsInv, WhereItIs, Accepts, ConnectTypeOK, Dialled

LEMMA ConnectKeeps ==
  ASSUME SessionsInv, NEW s \in Sessions, Connect(s), ~ Free(s)
  PROVE  WhereItIs(s)' /\ TlsKeptBy(s)' /\ StatusFits(s)' /\ Current(s)
         /\ host' = host /\ account' = account /\ web' = web
         /\ pc[s] \in Dialled \cup {"dial"} /\ pc'[s] \in Dialled \cup {"close"}
<1>1. WhereItIs(s) /\ TlsKeptBy(s) /\ StatusFits(s) /\ ConnectTypeOK
  BY DEF SessionsInv
<1>2. CASE Dial(s)
  <2>1. Cardinality(Sessions) \in Nat
    BY ConnectAssumption, FS_CardinalityType
  <2>2. nextId \in Nat
    <3>1. nextId \in Ids
      BY <1>1 DEF ConnectTypeOK
    <3> QED BY <2>1, <3>1 DEF Ids
  <2>3. ctxId'[s] = nextId
    BY <1>1, <1>2 DEF Dial, AllocDracClientCtx, Fresh, ConnectTypeOK
  <2>4. ctxId'[s] >= 0
    BY <2>2, <2>3
  <2> QED BY <1>1, <1>2, <2>4 DEF Dial, WhereItIs, TlsKeptBy, StatusFits, Current,
       ConnectTypeOK, ownVars, Goto, Says, WantsTls, Is, Dialled, Probing
<1>3. CASE DialFails(s)
  BY <1>1, <1>3 DEF DialFails, WhereItIs, TlsKeptBy, StatusFits, Current, ConnectTypeOK,
       ownVars, glueVars, Goto, Says, WantsTls, Is, Dialled, Probing
<1>4. CASE SendLogin(s)
  <2>1. GetDracCtx(s) = s
    BY <1>4, OwnContext DEF SendLogin, Dialled
  <2>2. /\ through'[s] = socket'[s].ctrl
        /\ WantsTls(s) => socket'[s].ctrl \in {"tls", "broken"}
    <3>1. through' = [through EXCEPT ![s] = socket'[s].ctrl]
      BY <1>4, <2>1 DEF SendLogin
    <3>2. ASSUME WantsTls(s) PROVE socket'[s].ctrl \in {"tls", "broken"}
      <4>1. PICK k \in {"tls", "broken"} : socket' = [socket EXCEPT ![s]["ctrl"] = k]
        BY <1>4, <2>1, <3>2 DEF SendLogin, GlueStartSsl, TlsSocket
      <4>2. socket[s] \in [{"ctrl", "video"} -> SocketKinds] /\ socket \in [Sessions -> [{"ctrl", "video"} -> SocketKinds]]
        BY <1>1 DEF ConnectTypeOK, Channels
      <4> QED BY <4>1, <4>2
    <3> QED BY <1>1, <3>1, <3>2 DEF ConnectTypeOK
  <2> QED BY <1>1, <1>4, <2>2 DEF SendLogin, WhereItIs, TlsKeptBy, StatusFits, Current,
       ConnectTypeOK, ownVars, Goto, WantsTls, Is, Dialled, Probing
<1>5. CASE LoginRefused(s)
  <2>1. account[s] # GoodAccount
    BY <1>5 DEF LoginRefused, Accepts
  <2> QED BY <1>1, <1>5, <2>1 DEF LoginRefused, WhereItIs, TlsKeptBy, StatusFits, Current, ConnectTypeOK,
       ownVars, glueVars, Goto, Says, WantsTls, Is, Dialled, Probing
<1>6. CASE LoginAccepted(s)
  <2>1. account[s] = GoodAccount
    BY <1>6, AcceptedIsGood DEF LoginAccepted
  <2> QED BY <1>1, <1>6, <2>1 DEF LoginAccepted, WhereItIs, TlsKeptBy, StatusFits, Current, ConnectTypeOK,
       ownVars, glueVars, Goto, Says, WantsTls, Is, Dialled, Probing
<1>7. CASE StartVideo(s)
  <2>1. GetDracCtx(s) = s
    BY <1>7, OwnContext DEF StartVideo, Dialled
  <2>2. Is(s, {"drac6 with tls"}) => socket'[s].video # "plain"
    BY <1>1, <1>7, <2>1 DEF StartVideo, GlueStartSsl, TlsSocket, ConnectTypeOK, Channels
  <2> QED BY <1>1, <1>7, <2>2 DEF StartVideo, WhereItIs, TlsKeptBy, StatusFits, Current,
       ConnectTypeOK, ownVars, Goto, WantsTls, Is, Dialled, Probing
<1>8. CASE VideoUpdate(s)
  BY <1>1, <1>8 DEF VideoUpdate, WhereItIs, TlsKeptBy, StatusFits, Current, ConnectTypeOK,
       ownVars, glueVars, Goto, Says, WantsTls, Is, Dialled, Probing
<1>9. CASE SocketFails(s)
  BY <1>1, <1>9 DEF SocketFails, Waiting, WhereItIs, TlsKeptBy, StatusFits, Current, ConnectTypeOK,
       ownVars, glueVars, Goto, WantsTls, Is, Dialled, Probing
<1> QED BY <1>2, <1>3, <1>4, <1>5, <1>6, <1>7, <1>8, <1>9 DEF Connect

(* The table of contexts.                                                  *)
LEMMA Counts ==
  ASSUME ConnectTypeOK
  PROVE  /\ Cardinality(Sessions) \in Nat /\ IsFiniteSet(Past) /\ Cardinality(Past) \in Nat
         /\ Cardinality(Past) <= Cardinality(Sessions)
         /\ nextId \in Nat /\ nextId \in Ids /\ Ids = 0 .. Cardinality(Sessions)
         /\ \A s \in Sessions : ctxId[s] \in Int /\ ctxId[s] >= -1
<1>1. Cardinality(Sessions) \in Nat /\ IsFiniteSet(Sessions)
  BY ConnectAssumption, FS_CardinalityType
<1>2. Past \in SUBSET Sessions
  BY DEF Past
<1>3. IsFiniteSet(Past) /\ Cardinality(Past) \in Nat /\ Cardinality(Past) <= Cardinality(Sessions)
  BY <1>1, <1>2, FS_Subset, FS_CardinalityType
<1>4. nextId \in Ids /\ ctxId \in [Sessions -> Ids \cup {-1}]
  BY DEF ConnectTypeOK
<1>5. \A i \in Ids \cup {-1} : i \in Int /\ i >= -1
  BY <1>1 DEF Ids
<1>6. nextId \in Nat
  BY <1>1, <1>4 DEF Ids
<1> QED BY <1>1, <1>3, <1>4, <1>5, <1>6 DEF Ids

LEMMA PastGrows ==
  ASSUME Past \subseteq Past'
  PROVE  Cardinality(Past) <= Cardinality(Past') /\ IsFiniteSet(Past')
<1>1. Past' \in SUBSET Sessions /\ IsFiniteSet(Sessions)
  BY ConnectAssumption DEF Past
<1>2. IsFiniteSet(Past')
  BY <1>1, FS_Subset
<1>3. Past \in SUBSET Past'
  OBVIOUS
<1> QED BY <1>2, <1>3, FS_Subset

LEMMA IdsStay ==
  ASSUME SessionsInv, UNCHANGED <<ctxId, refs, nextId>>, Past \subseteq Past'
  PROVE  OwnSockets' /\ IdsGiven'
<1>1. OwnSockets /\ IdsGiven /\ ConnectTypeOK
  BY DEF SessionsInv
<1>2. OwnSockets'
  BY <1>1 DEF OwnSockets, GetDracCtx
<1>3. nextId <= Cardinality(Past) /\ nextId' = nextId
  BY <1>1 DEF IdsGiven
<1>4. Cardinality(Past) <= Cardinality(Past') /\ Cardinality(Past) \in Nat /\ Cardinality(Past') \in Nat /\ nextId \in Nat
  BY <1>1, PastGrows, Counts, FS_CardinalityType
<1>5. nextId' <= Cardinality(Past')
  BY <1>3, <1>4
<1> QED BY <1>1, <1>2, <1>5 DEF IdsGiven

LEMMA DialIds ==
  ASSUME SessionsInv, NEW s \in Sessions, Dial(s)
  PROVE  OwnSockets' /\ IdsGiven' /\ nextId' \in Ids /\ nextId < nextId'
         /\ ctxId' = [ctxId EXCEPT ![s] = nextId] /\ DOMAIN refs' = DOMAIN refs \cup {nextId}
         /\ \A id \in DOMAIN refs' : refs'[id] \in Sessions
<1>1. ConnectTypeOK /\ OwnSockets /\ IdsGiven /\ WhereItIs(s)
  BY DEF SessionsInv
<1> PICK n \in Nat : n = nextId
  BY <1>1, Counts
<1>2. /\ pc[s] = "dial" /\ pc' = [pc EXCEPT ![s] = "init"]
      /\ ctxId' = [ctxId EXCEPT ![s] = n] /\ nextId' = n + 1
      /\ refs' = [id \in DOMAIN refs \cup {n} |-> IF id = n THEN s ELSE refs[id]]
  BY DEF Dial, AllocDracClientCtx, Fresh, Goto
<1>3. ctxId[s] = -1
  BY <1>1, <1>2 DEF WhereItIs
<1>4. /\ ctxId \in [Sessions -> Ids \cup {-1}] /\ DOMAIN pc = Sessions
      /\ \A t \in Sessions : ctxId[t] \in Int /\ ctxId[t] < n
      /\ \A id \in DOMAIN refs : refs[id] \in Sessions
      /\ DOMAIN refs = {ctxId[t] : t \in Sessions} \ {-1}
  <2>1. /\ ctxId \in [Sessions -> Ids \cup {-1}] /\ DOMAIN pc = Sessions
        /\ \A id \in DOMAIN refs : refs[id] \in Sessions
    BY <1>1 DEF ConnectTypeOK
  <2>2. \A t \in Sessions : ctxId[t] \in Int /\ ctxId[t] < n
    BY <1>1, Counts DEF IdsGiven
  <2>3. DOMAIN refs = {ctxId[t] : t \in Sessions} \ {-1}
    BY <1>1 DEF OwnSockets
  <2> QED BY <2>1, <2>2, <2>3
<1>5. n \notin DOMAIN refs /\ n # -1
  BY <1>4
<1>6. DOMAIN refs' = DOMAIN refs \cup {n} /\ refs'[n] = s /\ \A id \in DOMAIN refs : refs'[id] = refs[id]
  BY <1>2, <1>5
<1>7. ctxId'[s] = n /\ \A t \in Sessions \ {s} : ctxId'[t] = ctxId[t]
  BY <1>2, <1>4
<1>8. \A t \in Sessions : ctxId'[t] >= 0 => ctxId'[t] \in DOMAIN refs' /\ refs'[ctxId'[t]] = t
  <2>1. \A t \in Sessions : ctxId[t] >= 0 => ctxId[t] \in DOMAIN refs /\ refs[ctxId[t]] = t
    BY <1>1 DEF OwnSockets, GetDracCtx
  <2> QED BY <1>6, <1>7, <2>1
<1>9. DOMAIN refs' = {ctxId'[t] : t \in Sessions} \ {-1}
  BY <1>3, <1>4, <1>5, <1>6, <1>7
<1>10. /\ Past' = Past \cup {s} /\ s \notin Past
  BY <1>2, <1>4 DEF Past, Dialled
<1>11. n + 1 <= Cardinality(Past') /\ n + 1 <= Cardinality(Sessions)
  <2>1. IsFiniteSet(Past) /\ Cardinality(Past) \in Nat /\ n <= Cardinality(Past)
    BY <1>1, Counts DEF IdsGiven
  <2>2. Cardinality(Past') = Cardinality(Past) + 1
    BY <1>10, <2>1, FS_AddElement
  <2>3. Past' \in SUBSET Sessions
    BY DEF Past
  <2>4. Cardinality(Past') <= Cardinality(Sessions) /\ Cardinality(Sessions) \in Nat
    BY <2>3, ConnectAssumption, FS_Subset, FS_CardinalityType
  <2> QED BY <2>1, <2>2, <2>4
<1>12. \A t \in Sessions : ctxId'[t] < nextId'
  BY <1>2, <1>4, <1>7
<1>13. n + 1 \in Ids
  BY <1>1, <1>11, Counts
<1>14. \A id \in DOMAIN refs' : refs'[id] \in Sessions
  BY <1>4, <1>6
<1>15. OwnSockets'
  BY <1>8, <1>9 DEF OwnSockets, GetDracCtx
<1>16. IdsGiven'
  BY <1>2, <1>11, <1>12 DEF IdsGiven
<1> QED BY <1>2, <1>6, <1>13, <1>14, <1>15, <1>16

LEMMA FreeIds ==
  ASSUME SessionsInv, NEW s \in Sessions, Free(s)
  PROVE  OwnSockets' /\ IdsGiven' /\ ctxId' \in [Sessions -> Ids \cup {-1}]
         /\ DOMAIN refs' \subseteq DOMAIN refs /\ \A id \in DOMAIN refs' : refs'[id] = refs[id]
<1>1. ConnectTypeOK /\ OwnSockets /\ IdsGiven
  BY DEF SessionsInv
<1>2. /\ pc[s] = "over" /\ pc' = [pc EXCEPT ![s] = "freed"] /\ nextId' = nextId
      /\ IF ctxId[s] >= 0 THEN FreeDracClientCtx(s) ELSE UNCHANGED <<ctxId, refs>>
  BY DEF Free, Goto
<1>3. Past \subseteq Past'
  BY <1>1, <1>2 DEF Past, ConnectTypeOK, Dialled
<1>4. CASE ~ (ctxId[s] >= 0)
  BY <1>1, <1>2, <1>3, <1>4, IdsStay DEF ConnectTypeOK
<1>5. CASE ctxId[s] >= 0
  <2>1. /\ refs' = [id \in DOMAIN refs \ {ctxId[s]} |-> refs[id]]
        /\ ctxId' = [ctxId EXCEPT ![s] = -1]
    BY <1>2, <1>5 DEF FreeDracClientCtx
  <2>2. ctxId \in [Sessions -> Ids \cup {-1}]
    BY <1>1 DEF ConnectTypeOK
  <2>3. /\ \A t \in Sessions : ctxId[t] >= 0 => ctxId[t] \in DOMAIN refs /\ refs[ctxId[t]] = t
        /\ DOMAIN refs = {ctxId[t] : t \in Sessions} \ {-1}
    BY <1>1 DEF OwnSockets, GetDracCtx
  <2>4. \A t \in Sessions \ {s} : ctxId'[t] = ctxId[t] /\ (ctxId[t] >= 0 => ctxId[t] # ctxId[s])
    BY <1>5, <2>1, <2>2, <2>3
  <2>5. ctxId'[s] = -1
    BY <2>1, <2>2
  <2>6. DOMAIN refs' = DOMAIN refs \ {ctxId[s]} /\ \A id \in DOMAIN refs' : refs'[id] = refs[id]
    BY <2>1
  <2>7. \A t \in Sessions : ctxId'[t] >= 0 => ctxId'[t] \in DOMAIN refs' /\ refs'[ctxId'[t]] = t
    BY <2>3, <2>4, <2>5, <2>6
  <2>8. \A t \in Sessions : ctxId[t] \in Int /\ ctxId[t] >= -1
    BY <1>1, Counts
  <2>9. DOMAIN refs' = {ctxId'[t] : t \in Sessions} \ {-1}
    BY <1>5, <2>3, <2>4, <2>5, <2>6, <2>8
  <2>10. nextId' <= Cardinality(Past')
    <3>1. nextId <= Cardinality(Past) /\ nextId \in Nat /\ Cardinality(Past) \in Nat
      BY <1>1, Counts DEF IdsGiven
    <3>2. Cardinality(Past) <= Cardinality(Past') /\ Cardinality(Past') \in Nat
      BY <1>3, PastGrows, FS_CardinalityType
    <3> QED BY <1>2, <3>1, <3>2
  <2>11. \A t \in Sessions : ctxId'[t] < nextId'
    <3>1. nextId \in Nat /\ \A t \in Sessions : ctxId[t] < nextId
      BY <1>1, Counts DEF IdsGiven
    <3> QED BY <1>2, <2>4, <2>5, <3>1
  <2>12. ctxId' \in [Sessions -> Ids \cup {-1}]
    BY <2>1, <2>2
  <2> QED BY <2>6, <2>7, <2>9, <2>10, <2>11, <2>12 DEF OwnSockets, IdsGiven, GetDracCtx
<1> QED BY <1>4, <1>5

(* The sessions of the web servers.                                        *)
LEMMA WebBefore ==
  ASSUME SessionsInv, NEW s \in Sessions, Current(s)
  PROVE  host[s] \in Hosts /\ web[host[s]] = IF InWeb(s) THEN 1 ELSE 0
<1>1. host[s] \in Hosts
  BY DEF SessionsInv, WhereItIs
<1>2. web[host[s]] = IF \E t \in Sessions : host[t] = host[s] /\ InWeb(t) THEN 1 ELSE 0
  BY <1>1 DEF SessionsInv, WebCounted
<1>3. \A t \in Sessions : host[t] = host[s] /\ InWeb(t) => t = s
  BY DEF SessionsInv, OneEach, InWeb, Current
<1> QED BY <1>1, <1>2, <1>3

LEMMA WebAfter ==
  ASSUME SessionsInv, NEW s \in Sessions, OnlyOf(s), Current(s), host'[s] = host[s],
         web'[host[s]] = IF InWeb(s)' THEN 1 ELSE 0
  PROVE  WebCounted'
<1> SUFFICES ASSUME NEW h \in Hosts
             PROVE  web'[h] = IF \E t \in Sessions : host'[t] = h /\ InWeb(t)' THEN 1 ELSE 0
  BY DEF WebCounted
<1>1. \A t \in Sessions \ {s} : host'[t] = host[t] /\ (InWeb(t)' <=> InWeb(t))
  BY DEF OnlyOf, Unmoved, InWeb
<1>2. CASE h = host[s]
  <2>1. \A t \in Sessions : host[t] = h /\ InWeb(t) => t = s
    BY <1>2 DEF SessionsInv, OneEach, InWeb, Current
  <2>2. (\E t \in Sessions : host'[t] = h /\ InWeb(t)') <=> InWeb(s)'
    BY <1>1, <1>2, <2>1
  <2> QED BY <1>2, <2>2
<1>3. CASE h # host[s]
  <2>1. (\E t \in Sessions : host'[t] = h /\ InWeb(t)') <=> \E t \in Sessions : host[t] = h /\ InWeb(t)
    BY <1>1, <1>3
  <2>2. web'[h] = web[h]
    BY <1>3 DEF OnlyOf
  <2> QED BY <2>1, <2>2 DEF SessionsInv, WebCounted
<1> QED BY <1>2, <1>3

LEMMA WebSame ==
  ASSUME SessionsInv, NEW s \in Sessions, \A t \in Sessions \ {s} : Unmoved(t), web' = web,
         ~ InWeb(s), ~ InWeb(s)'
  PROVE  WebCounted'
<1>1. \A t \in Sessions \ {s} : host'[t] = host[t] /\ (InWeb(t)' <=> InWeb(t))
  BY DEF Unmoved, InWeb
<1>2. \A h : (\E t \in Sessions : host'[t] = h /\ InWeb(t)') <=> \E t \in Sessions : host[t] = h /\ InWeb(t)
  BY <1>1
<1> QED BY <1>2 DEF SessionsInv, WebCounted

LEMMA WebOfProbe ==
  ASSUME SessionsInv, NEW s \in Sessions, Probe(s)
  PROVE  web'[host[s]] = IF InWeb(s)' THEN 1 ELSE 0
<1>1. ConnectTypeOK /\ host[s] \in Hosts /\ web[host[s]] = IF InWeb(s) THEN 1 ELSE 0
  BY ProbeKeeps, WebBefore DEF SessionsInv
<1>2. CASE GetFrontPage(s)
  BY <1>1, <1>2 DEF GetFrontPage, InWeb, ConnectTypeOK, ownVars, Goto
<1>3. CASE GetFails(s) \/ PostLoginFails(s)
  BY <1>1, <1>3 DEF GetFails, PostLoginFails, InWeb, ConnectTypeOK, ownVars, Goto
<1>4. CASE PostLogin(s)
  <2>1. pc[s] = "login" /\ pc'[s] = "page" /\ account' = account
    BY <1>1, <1>4 DEF PostLogin, ConnectTypeOK, ownVars, Goto
  <2>2. web'[host[s]] = IF account[s] = GoodAccount THEN web[host[s]] + 1 ELSE web[host[s]]
    BY <1>1, <1>4 DEF PostLogin, ConnectTypeOK
  <2>3. web[host[s]] = 0
    BY <1>1, <2>1 DEF InWeb
  <2> QED BY <2>1, <2>2, <2>3 DEF InWeb
<1>5. CASE GetConsolePage(s) \/ GetConsolePageFails(s)
  BY <1>1, <1>5 DEF GetConsolePage, GetConsolePageFails, Deferred, InWeb, ConnectTypeOK, ownVars, Goto
<1>6. CASE Logout(s)
  <2>1. pc[s] = "logout" /\ pc'[s] \in {"close", "dial"} /\ account' = account
    BY <1>1, <1>6 DEF Logout, ConnectTypeOK, ownVars, Goto
  <2>2. web'[host[s]] = IF account[s] = GoodAccount THEN web[host[s]] - 1 ELSE web[host[s]]
    BY <1>1, <1>6 DEF Logout, ConnectTypeOK
  <2>3. web[host[s]] = IF account[s] = GoodAccount THEN 1 ELSE 0
    BY <1>1, <2>1 DEF InWeb
  <2> QED BY <2>1, <2>2, <2>3 DEF InWeb
<1> QED BY <1>2, <1>3, <1>4, <1>5, <1>6 DEF Probe

(* The types.                                                              *)
LEMMA ProbeTypes ==
  ASSUME SessionsInv, NEW s \in Sessions, Probe(s)
  PROVE  ConnectTypeOK'
<1>1. ConnectTypeOK
  BY DEF SessionsInv
<1>2. web' \in [Hosts -> Ids]
  <2>1. host[s] \in Hosts /\ web'[host[s]] \in {0, 1}
    BY ProbeKeeps, WebBefore, WebOfProbe
  <2>2. web \in [Hosts -> Ids] /\ (web' = web \/ \E n : web' = [web EXCEPT ![host[s]] = n])
    BY <1>1 DEF ConnectTypeOK, Probe, GetFrontPage, GetFails, PostLogin, PostLoginFails, GetConsolePage,
                GetConsolePageFails, Logout
  <2>3. 0 \in Ids /\ 1 \in Ids
    <3>1. {s} \in SUBSET Sessions /\ IsFiniteSet(Sessions)
      BY ConnectAssumption
    <3>2. Cardinality({s}) = 1 /\ Cardinality({s}) <= Cardinality(Sessions)
      BY <3>1, FS_Singleton, FS_Subset
    <3> QED BY <1>1, <3>2, Counts
  <2> QED BY <2>1, <2>2, <2>3
<1>3. CASE GetFrontPage(s)
  <2>1. console' \in [Sessions -> {"nothing", "account", "session"}] /\ alive' \in BOOLEAN
    BY <1>1, <1>3 DEF GetFrontPage, ConnectTypeOK
  <2>2. pc' = pc \/ pc' = [pc EXCEPT ![s] = "dial"] \/ pc' = [pc EXCEPT ![s] = "login"]
    BY <1>3 DEF GetFrontPage, Goto
  <2>3. UNCHANGED <<kind, status, host, account, failed, glueVars>>
    BY <1>3 DEF GetFrontPage, ownVars
  <2> QED BY <1>1, <1>2, <2>1, <2>2, <2>3 DEF ConnectTypeOK, glueVars, Probing
<1>4. CASE GetFails(s) \/ PostLoginFails(s)
  BY <1>1, <1>2, <1>4 DEF GetFails, PostLoginFails, ConnectTypeOK, ownVars, glueVars, Goto, Says
<1>5. CASE PostLogin(s)
  BY <1>1, <1>2, <1>5 DEF PostLogin, ConnectTypeOK, ownVars, glueVars, Goto, Probing
<1>6. CASE GetConsolePage(s) \/ GetConsolePageFails(s)
  BY <1>1, <1>2, <1>6 DEF GetConsolePage, GetConsolePageFails, ConnectTypeOK, ownVars, glueVars, Goto, Probing, Deferred
<1>7. CASE Logout(s)
  BY <1>1, <1>2, <1>7 DEF Logout, ConnectTypeOK, ownVars, glueVars, Goto, Says, Probing
<1> QED BY <1>3, <1>4, <1>5, <1>6, <1>7 DEF Probe

LEMMA ConnectTypes ==
  ASSUME SessionsInv, NEW s \in Sessions, Connect(s)
  PROVE  ConnectTypeOK'
<1>1. ConnectTypeOK
  BY DEF SessionsInv
<1>2. CASE Dial(s)
  <2>1. ctxId' \in [Sessions -> Ids \cup {-1}] /\ nextId' \in Ids /\ DOMAIN refs' \subseteq Ids
    BY <1>1, <1>2, DialIds DEF ConnectTypeOK
  <2>2. \A id \in DOMAIN refs' : refs'[id] \in Sessions
    BY <1>2, DialIds
  <2>3. socket' \in [Sessions -> [Channels -> SocketKinds]]
    BY <1>1, <1>2 DEF Dial, ConnectTypeOK, SocketKinds
  <2> QED BY <1>1, <1>2, <2>1, <2>2, <2>3 DEF Dial, ConnectTypeOK, ownVars, Goto, Says
<1>3. CASE DialFails(s)
  BY <1>1, <1>3 DEF DialFails, ConnectTypeOK, ownVars, glueVars, Goto, Says
<1>4. ASSUME NEW c \in Channels, GetDracCtx(s) = s, GlueStartSsl(s, c)
      PROVE  socket' \in [Sessions -> [Channels -> SocketKinds]]
  <2>1. PICK k \in {"tls", "broken"} : socket' = [socket EXCEPT ![s][c] = k]
    BY <1>4 DEF GlueStartSsl, TlsSocket
  <2>2. k \in SocketKinds /\ socket \in [Sessions -> [Channels -> SocketKinds]]
    BY <1>1 DEF SocketKinds, ConnectTypeOK
  <2> QED BY <2>1, <2>2
<1>5. CASE SendLogin(s)
  <2>1. GetDracCtx(s) = s
    BY <1>5, OwnContext DEF SendLogin, Dialled
  <2>2. socket' \in [Sessions -> [Channels -> SocketKinds]]
    BY <1>1, <1>4, <1>5, <2>1 DEF SendLogin, ConnectTypeOK, Channels
  <2>3. socket'[s].ctrl \in SocketKinds
    BY <2>2 DEF Channels
  <2>4. through' \in [Sessions -> SocketKinds]
    BY <1>1, <1>5, <2>1, <2>3 DEF SendLogin, ConnectTypeOK
  <2> QED BY <1>1, <1>5, <2>2, <2>4 DEF SendLogin, ConnectTypeOK, ownVars, Goto
<1>6. CASE LoginRefused(s) \/ VideoUpdate(s) \/ SocketFails(s)
  BY <1>1, <1>6 DEF LoginRefused, VideoUpdate, SocketFails, ConnectTypeOK, ownVars, glueVars, Goto, Says
<1>7. CASE LoginAccepted(s)
  <2>1. socket' \in [Sessions -> [Channels -> SocketKinds]]
    <3>1. socket' = socket \/ socket' = [socket EXCEPT ![s]["video"] = "plain"]
      BY <1>7 DEF LoginAccepted
    <3>2. "plain" \in SocketKinds /\ "video" \in Channels
      BY DEF SocketKinds, Channels
    <3>3. socket \in [Sessions -> [Channels -> SocketKinds]]
      BY <1>1 DEF ConnectTypeOK
    <3> QED BY <3>1, <3>2, <3>3
  <2> QED BY <1>1, <1>7, <2>1 DEF LoginAccepted, ConnectTypeOK, ownVars, Goto, Says
<1>8. CASE StartVideo(s)
  <2>1. GetDracCtx(s) = s
    BY <1>8, OwnContext DEF StartVideo, Dialled
  <2>2. socket' \in [Sessions -> [Channels -> SocketKinds]]
    BY <1>1, <1>4, <1>8, <2>1 DEF StartVideo, ConnectTypeOK, Channels
  <2> QED BY <1>1, <1>8, <2>2 DEF StartVideo, ConnectTypeOK, ownVars, Goto
<1>9. CASE Free(s)
  <2>1. /\ ctxId' \in [Sessions -> Ids \cup {-1}] /\ DOMAIN refs' \subseteq Ids
        /\ \A id \in DOMAIN refs' : refs'[id] \in Sessions
    BY <1>1, <1>9, FreeIds DEF ConnectTypeOK
  <2>2. socket' \in [Sessions -> [Channels -> SocketKinds]] /\ through' \in [Sessions -> SocketKinds]
    BY <1>1, <1>9 DEF Free, ConnectTypeOK, SocketKinds, NoSockets
  <2>3. account' \in [Sessions -> Accounts]
    BY <1>1, <1>9 DEF Free, ConnectTypeOK, Account, Accounts
  <2> QED BY <1>1, <1>9, <2>1, <2>2, <2>3 DEF Free, ConnectTypeOK, Goto
<1> QED BY <1>2, <1>3, <1>5, <1>6, <1>7, <1>8, <1>9 DEF Connect

(* A step of ctrlReader.                                                   *)
LEMMA ReaderStep ==
  ASSUME SessionsInv, NEW s \in Sessions, Probe(s) \/ Connect(s), UNCHANGED recentVars
  PROVE  SessionsInv'
<1>1. ConnectTypeOK /\ ConnectTypeOK' /\ OnlyOf(s) /\ dracmap' = dracmap
  BY ProbeTypes, ConnectTypes, ActsOnOwn DEF SessionsInv, recentVars
<1>2. \A t \in Sessions \ {s} : Unmoved(t)
  BY <1>1 DEF OnlyOf
<1>3. ASSUME Current(s), host' = host, Past \subseteq Past' PROVE OneEach'
  <2>1. \A t \in Sessions : Current(t)' => Current(t) /\ host'[t] = host[t]
    BY <1>2, <1>3 DEF Unmoved, Current
  <2> QED BY <1>1, <2>1 DEF SessionsInv, OneEach
<1>4. ASSUME WhereItIs(s)' /\ TlsKeptBy(s)' /\ StatusFits(s)', Current(s) \/ status' = status
      PROVE  \A t \in Sessions : WhereItIs(t)' /\ TlsKeptBy(t)' /\ StatusFits(t)'
  BY <1>1, <1>4, OthersStay
<1>5. CASE Probe(s)
  <2>1. /\ WhereItIs(s)' /\ TlsKeptBy(s)' /\ StatusFits(s)' /\ Current(s) /\ host' = host
        /\ UNCHANGED <<ctxId, refs, nextId>> /\ pc[s] \in Probing
    BY <1>5, ProbeKeeps
  <2>2. Past \subseteq Past'
    BY <1>2, <2>1 DEF Past, Probing, Dialled, Unmoved
  <2>3. OwnSockets' /\ IdsGiven'
    BY <2>1, <2>2, IdsStay
  <2>4. WebCounted'
    <3>1. web'[host[s]] = IF InWeb(s)' THEN 1 ELSE 0
      BY <1>5, WebOfProbe
    <3> QED BY <1>1, <2>1, <3>1, WebAfter
  <2> QED BY <1>1, <1>3, <1>4, <2>1, <2>2, <2>3, <2>4 DEF SessionsInv
<1>6. CASE Connect(s) /\ ~ Free(s)
  <2>1. /\ WhereItIs(s)' /\ TlsKeptBy(s)' /\ StatusFits(s)' /\ Current(s) /\ host' = host
        /\ web' = web /\ pc[s] \in Dialled \cup {"dial"} /\ pc'[s] \in Dialled \cup {"close"}
    BY <1>6, ConnectKeeps
  <2>2. Past \subseteq Past'
    BY <1>2, <2>1 DEF Past, Unmoved
  <2>3. OwnSockets' /\ IdsGiven'
    <3>1. CASE Dial(s)
      BY <3>1, DialIds
    <3>2. CASE ~ Dial(s)
      <4>1. UNCHANGED <<ctxId, refs, nextId>>
        BY <1>6, <3>2 DEF Connect, DialFails, SendLogin, LoginRefused, LoginAccepted, StartVideo,
                          VideoUpdate, SocketFails, glueVars
      <4> QED BY <2>2, <4>1, IdsStay
    <3> QED BY <3>1, <3>2
  <2>4. WebCounted'
    BY <1>2, <2>1, WebSame DEF InWeb, Dialled
  <2> QED BY <1>1, <1>3, <1>4, <2>1, <2>2, <2>3, <2>4 DEF SessionsInv
<1>7. CASE Free(s)
  <2>1. /\ pc[s] = "over" /\ pc'[s] = "freed" /\ host'[s] = NoHost /\ through'[s] = "none"
        /\ console'[s] = "nothing" /\ UNCHANGED <<status, web>>
    BY <1>1, <1>7 DEF Free, Goto, ConnectTypeOK
  <2>2. WhereItIs(s)' /\ TlsKeptBy(s)' /\ StatusFits(s)'
    BY <2>1 DEF WhereItIs, TlsKeptBy, StatusFits, Current, Probing, Dialled
  <2>3. OwnSockets' /\ IdsGiven'
    BY <1>7, FreeIds
  <2>4. WebCounted'
    BY <1>2, <2>1, WebSame DEF InWeb
  <2>5. OneEach'
    <3>1. \A t \in Sessions : Current(t)' => t # s /\ Current(t) /\ host'[t] = host[t]
      BY <1>2, <2>1 DEF Unmoved, Current
    <3> QED BY <1>1, <3>1 DEF SessionsInv, OneEach
  <2> QED BY <1>1, <1>4, <2>1, <2>2, <2>3, <2>4, <2>5 DEF SessionsInv
<1> QED BY <1>5, <1>6, <1>7

(* A new session.                                                          *)
LEMMA BeginStep ==
  ASSUME SessionsInv, RecentInv, NEW s \in Sessions, NEW h \in Hosts, NEW a \in Accounts,
         dracmap[h] = NoSession, dracmap' = [dracmap EXCEPT ![h] = a], Begin(s, h, a)
  PROVE  SessionsInv' /\ host'[s] = h /\ account'[s] = a /\ \A t \in Sessions \ {s} : Unmoved(t)
<1>1. /\ ConnectTypeOK /\ pc[s] = "new" /\ WhereItIs(s) /\ TlsKeptBy(s)
      /\ dracmap \in [Hosts -> Accounts \cup {NoSession}] /\ NoSession \notin Accounts
  BY RecentAssumption DEF SessionsInv, RecentInv, TypeOK, Begin
<1>2. /\ host' = [host EXCEPT ![s] = h] /\ account' = [account EXCEPT ![s] = a]
      /\ pc' = [pc EXCEPT ![s] = "get"] /\ status' = [status EXCEPT ![h] = "connecting"]
      /\ UNCHANGED <<kind, web, console, failed, socket, ctxId, refs, nextId, through, alive>>
  BY DEF Begin, Goto, Connecting, glueVars
<1>3. host'[s] = h /\ account'[s] = a /\ pc'[s] = "get" /\ \A t \in Sessions \ {s} : Unmoved(t)
  BY <1>1, <1>2 DEF ConnectTypeOK, Unmoved
<1>4. status'[h] = "connecting" /\ \A g \in Hosts \ {h} : status'[g] = status[g]
  BY <1>1, <1>2 DEF ConnectTypeOK
<1>5. ConnectTypeOK'
  BY <1>1, <1>2 DEF ConnectTypeOK, Probing
<1>6. \A t \in Sessions : Current(t) => host[t] \in Hosts /\ host[t] # h /\ dracmap'[host[t]] = dracmap[host[t]]
  BY <1>1 DEF SessionsInv, WhereItIs, OneEach
<1>7. dracmap'[h] # NoSession
  BY <1>1
<1>8. OneEach'
  <2>1. \A t \in Sessions : Current(t)' /\ t # s => Current(t) /\ host'[t] = host[t]
    BY <1>3 DEF Unmoved, Current
  <2> QED BY <1>3, <1>6, <1>7, <2>1 DEF SessionsInv, OneEach
<1>9. OwnSockets' /\ IdsGiven'
  <2>1. Past \subseteq Past'
    BY <1>1, <1>3 DEF Past, Dialled, Unmoved
  <2> QED BY <1>2, <2>1, IdsStay
<1>10. WebCounted'
  BY <1>1, <1>2, <1>3, WebSame DEF InWeb
<1>11. WhereItIs(s)' /\ TlsKeptBy(s)' /\ StatusFits(s)'
  BY <1>1, <1>2, <1>3, <1>4 DEF WhereItIs, TlsKeptBy, StatusFits, Current, Probing, Dialled
<1>12. ASSUME NEW t \in Sessions \ {s} PROVE WhereItIs(t)' /\ TlsKeptBy(t)' /\ StatusFits(t)'
  <2>1. WhereItIs(t) /\ TlsKeptBy(t) /\ StatusFits(t) /\ Unmoved(t) /\ kind' = kind
    BY <1>2, <1>3 DEF SessionsInv
  <2>2. Current(t) => status'[host[t]] = status[host[t]]
    BY <1>4, <1>6
  <2>3. StatusFits(t)'
    BY <2>1, <2>2 DEF StatusFits, Current, Unmoved
  <2> QED BY <2>1, <2>3 DEF WhereItIs, TlsKeptBy, Unmoved, WantsTls, Is, Current
<1> QED BY <1>3, <1>5, <1>8, <1>9, <1>10, <1>11, <1>12 DEF SessionsInv

(* The end of a session.                                                   *)
LEMMA FinishStep ==
  ASSUME SessionsInv, RecentInv, NEW s \in Sessions, NEW h \in Hosts, host[s] = h,
         EndSession(h), Finish(s)
  PROVE  SessionsInv'
<1>1. /\ ConnectTypeOK /\ pc[s] = "close" /\ WhereItIs(s) /\ TlsKeptBy(s)
      /\ dracmap \in [Hosts -> Accounts \cup {NoSession}]
  BY DEF SessionsInv, RecentInv, TypeOK, Finish
<1>2. /\ pc' = [pc EXCEPT ![s] = "over"] /\ dracmap' = [dracmap EXCEPT ![h] = NoSession]
      /\ UNCHANGED <<kind, status, web, host, account, console, failed, socket, ctxId, refs, nextId, through, alive>>
  BY DEF Finish, Goto, EndSession, ownVars, glueVars
<1>3. pc'[s] = "over" /\ OnlyOf(s)
  BY <1>1, <1>2 DEF ConnectTypeOK, OnlyOf, Unmoved
<1>4. \A t \in Sessions \ {s} : Unmoved(t)
  BY <1>3 DEF OnlyOf
<1>5. ConnectTypeOK'
  BY <1>1, <1>2 DEF ConnectTypeOK
<1>6. OneEach'
  <2>1. \A t \in Sessions : Current(t)' => t # s /\ Current(t)
    BY <1>3, <1>4 DEF Unmoved, Current
  <2>2. \A t \in Sessions : Current(t)' => host[t] \in Hosts /\ host[t] # h
    BY <1>1, <2>1 DEF SessionsInv, OneEach, WhereItIs, Current
  <2>3. \A t \in Sessions : Current(t)' => dracmap'[host[t]] = dracmap[host[t]]
    BY <1>1, <1>2, <2>2
  <2> QED BY <1>2, <2>1, <2>3 DEF SessionsInv, OneEach
<1>7. OwnSockets' /\ IdsGiven'
  <2>1. Past \subseteq Past'
    BY <1>3, <1>4 DEF Past, Unmoved
  <2> QED BY <1>2, <2>1, IdsStay
<1>8. WebCounted'
  BY <1>1, <1>2, <1>3, <1>4, WebSame DEF InWeb
<1>9. WhereItIs(s)' /\ TlsKeptBy(s)' /\ StatusFits(s)'
  BY <1>1, <1>2, <1>3 DEF WhereItIs, TlsKeptBy, StatusFits, Current, Probing, Dialled, WantsTls, Is
<1>10. \A t \in Sessions \ {s} : WhereItIs(t)' /\ TlsKeptBy(t)' /\ StatusFits(t)'
  BY <1>2, <1>3, OthersStay
<1> QED BY <1>5, <1>6, <1>7, <1>8, <1>9, <1>10 DEF SessionsInv

-----------------------------------------------------------------------------
(* Both together.                                                          *)

StartInv == RecentInv /\ SessionsInv /\ TriesListedAccount

(* What a step does to the passwords in the list.                          *)
KeepsPasswords ==
  \A h \in Hosts : Listed(h) /\ Entry(h).passwd # "" /\ Listed(h)' => (Entry(h).passwd)' # ""

LEMMA ListUnchanged ==
  ASSUME RecentInv, RecentInv', recent' = recent
  PROVE  /\ \A h : Listed(h)' => Listed(h) /\ (Entry(h))' = Entry(h)
         /\ KeepsPasswords
<1>1. ASSUME NEW h, Listed(h)' PROVE Listed(h) /\ (Entry(h))' = Entry(h)
  <2>1. DOMAIN recent = 1 .. Len(recent)
    BY RecentFacts DEF RecentInv
  <2>2. Listed(h)
    BY <1>1 DEF Listed
  <2>3. PICK i \in 1 .. Len(recent) : recent[i].host = h
    BY <2>1, <2>2 DEF Listed
  <2>4. Entry(h) = recent[i]
    BY <2>3, OnlyEntry DEF FoundByHost
  <2>5. (RecentInv => FoundByHost)'
    BY OnlyEntry, PTL
  <2>6. (Entry(h))' = recent'[i]
    BY <2>3, <2>5 DEF FoundByHost
  <2> QED BY <2>2, <2>4, <2>6
<1>2. KeepsPasswords
  BY <1>1 DEF KeepsPasswords
<1> QED BY <1>1, <1>2

(* The list stays, and so do the accounts of the sessions that go on.      *)
LEMMA TriesSame ==
  ASSUME RecentInv, RecentInv', TriesListedAccount, recent' = recent,
         \A t \in Sessions : Current(t)' => Current(t) /\ host'[t] = host[t] /\ account'[t] = account[t]
  PROVE  TriesListedAccount'
<1> SUFFICES ASSUME NEW t \in Sessions, Current(t)', Listed(host[t])'
             PROVE  account'[t] = Account((Entry(host[t])).login, (Entry(host[t])).passwd)'
  BY DEF TriesListedAccount
<1>1. PICK h : h = host[t]
  OBVIOUS
<1>2. Current(t) /\ host'[t] = h /\ account'[t] = account[t]
  BY <1>1
<1>3. Listed(h) /\ (Entry(h))' = Entry(h)
  BY <1>2, ListUnchanged
<1> QED BY <1>1, <1>2, <1>3 DEF TriesListedAccount, Account

LEMMA StartBegins == StartInit => StartInv
<1> SUFFICES ASSUME StartInit PROVE StartInv
  OBVIOUS
<1>1. RecentInv
  <2>1. recent = <<>> /\ order = <<>> /\ starts = 0 /\ MaxRecent \in Nat /\ MaxStarts \in Nat /\ MaxRecent >= 1
    BY RecentAssumption DEF StartInit, Init
  <2>2. <<>> \in Seq(Entries) /\ <<>> \in Seq(Hosts) /\ Len(<<>>) = 0
    BY EmptySeq
  <2>3. TypeOK
    BY <2>1, <2>2 DEF StartInit, Init, TypeOK
  <2>4. Once(order) /\ Follows(recent, order)
    BY <2>1, <2>2 DEF Once, Follows
  <2> QED BY <2>3, <2>4 DEF RecentInv
<1>2. 0 \in Ids
  <2>1. Cardinality(Sessions) \in Nat
    BY ConnectAssumption, FS_CardinalityType
  <2> QED BY <2>1 DEF Ids
<1>3. /\ \A s \in Sessions : /\ pc[s] = "new" /\ ctxId[s] = -1 /\ through[s] = "none"
                             /\ console[s] = "nothing" /\ account[s] = Account("", "")
      /\ web = [h \in Hosts |-> 0] /\ refs = << >> /\ nextId = 0
  BY DEF StartInit, ConnectInit
<1>4. DOMAIN refs = {}
  <2>1. << >> \in Seq({}) /\ Len(<< >>) = 0
    BY EmptySeq
  <2>2. DOMAIN << >> = 1 .. 0
    BY <2>1, LenProperties
  <2>3. 1 .. 0 = {}
    OBVIOUS
  <2> QED BY <1>3, <2>2, <2>3
<1>5. ConnectTypeOK
  <2>1. Account("", "") \in Accounts
    BY DEF Account, Accounts
  <2> QED BY <1>2, <1>4, <2>1, ConnectAssumption
          DEF StartInit, ConnectInit, ConnectTypeOK, NoSockets, SocketKinds
<1>6. OwnSockets /\ IdsGiven
  <2> PICK no \in Int : no = -1
    OBVIOUS
  <2>4. ~ (no >= 0) /\ no < 0
    OBVIOUS
  <2>5. nextId = 0 /\ \A s \in Sessions : ctxId[s] = no
    BY <1>3
  <2>1. OwnSockets
    <3>1. \A s \in Sessions : ~ (ctxId[s] >= 0)
      BY <2>4, <2>5
    <3>2. {ctxId[s] : s \in Sessions} \ {-1} = {}
      BY <1>3
    <3> QED BY <1>4, <3>1, <3>2 DEF OwnSockets
  <2>2. Cardinality(Past) \in Nat
    BY <1>5, Counts
  <2>3. \A s \in Sessions : ctxId[s] < nextId
    BY <2>4, <2>5
  <2>6. nextId <= Cardinality(Past)
    BY <2>2, <2>5
  <2> QED BY <2>1, <2>3, <2>6 DEF IdsGiven
<1>7. \A s \in Sessions : ~ Current(s) /\ ~ InWeb(s)
  BY <1>3 DEF Current, InWeb
<1>8. OneEach /\ WebCounted /\ TriesListedAccount
  BY <1>3, <1>7 DEF OneEach, WebCounted, TriesListedAccount
<1>9. \A s \in Sessions : WhereItIs(s) /\ TlsKeptBy(s) /\ StatusFits(s)
  BY <1>3, <1>7 DEF WhereItIs, TlsKeptBy, StatusFits, Dialled
<1> QED BY <1>1, <1>5, <1>6, <1>8, <1>9 DEF StartInv, SessionsInv

(* A request finds the session of its host, or makes a new one.            *)
LEMMA RequestStep ==
  ASSUME StartInv, RecentInv', NEW h \in Hosts, NEW a \in Accounts,
         SetupDracClient(h, a), BeginNew(h, a)
  PROVE  SessionsInv' /\ TriesListedAccount' /\ KeepsPasswords
<1>1. RecentInv /\ SessionsInv /\ TriesListedAccount /\ ConnectTypeOK
  BY DEF StartInv, SessionsInv
<1>2. CASE dracmap[h] # NoSession
  <2>1. recent' = recent /\ dracmap' = dracmap
    BY <1>2 DEF SetupDracClient
  <2>2. UNCHANGED connectVars
    BY <1>2 DEF BeginNew
  <2>3. UNCHANGED <<kind, status, web, host, account, pc, console, failed, socket, ctxId, refs, nextId, through, alive>>
    BY <2>2 DEF connectVars, ownVars, glueVars
  <2>4. SessionsInv'
    <3>1. ConnectTypeOK' /\ OneEach'
      BY <1>1, <2>1, <2>3 DEF SessionsInv, ConnectTypeOK, OneEach, Current
    <3>2. OwnSockets' /\ IdsGiven'
      BY <1>1, <2>3 DEF SessionsInv, OwnSockets, GetDracCtx, IdsGiven, Past
    <3>3. WebCounted'
      BY <1>1, <2>3 DEF SessionsInv, WebCounted, InWeb
    <3>4. \A t \in Sessions : WhereItIs(t)' /\ TlsKeptBy(t)' /\ StatusFits(t)'
      BY <1>1, <2>3 DEF SessionsInv, WhereItIs, TlsKeptBy, StatusFits, Current, WantsTls, Is
    <3> QED BY <3>1, <3>2, <3>3, <3>4 DEF SessionsInv
  <2>5. TriesListedAccount'
    BY <1>1, <2>1, <2>3, TriesSame DEF Current, StartInv
  <2> QED BY <1>1, <2>1, <2>4, <2>5, ListUnchanged
<1>3. CASE dracmap[h] = NoSession
  <2> PICK s \in Sessions : Begin(s, h, Completed(h, a))
    BY <1>3 DEF BeginNew
  <2>1. form' \in [Forms -> {Idle} \cup [state : {"found"}, host : Hosts, account : Accounts]]
    BY DEF RecentInv, TypeOK
  <2>2. /\ Completed(h, a) \in Accounts /\ dracmap' = [dracmap EXCEPT ![h] = Completed(h, a)]
        /\ Listed(h)' /\ (Entry(h))' = NewEntry(h, a)
    BY <1>1, <1>3, <2>1, SetupStep
  <2>3. \A g : g # h /\ Listed(g)' => Listed(g) /\ (Entry(g))' = Entry(g)
    BY <1>1, <1>3, <2>1, SetupStep
  <2>4. SessionsInv' /\ host'[s] = h /\ account'[s] = Completed(h, a) /\ \A t \in Sessions \ {s} : Unmoved(t)
    BY <1>1, <1>3, <2>2, BeginStep
  <2>5. TriesListedAccount'
    <3> SUFFICES ASSUME NEW t \in Sessions, Current(t)', Listed(host[t])'
                 PROVE  account'[t] = Account((Entry(host[t])).login, (Entry(host[t])).passwd)'
      BY DEF TriesListedAccount
    <3> PICK g : g = host'[t]
      OBVIOUS
    <3>1. CASE t = s
      <4> PICK c \in Accounts : c = Completed(h, a)
        BY <2>2
      <4>1. account'[t] = c /\ g = h /\ (Entry(h))' = [host |-> h, login |-> c.login, passwd |-> c.passwd]
        BY <2>2, <2>4, <3>1 DEF NewEntry
      <4>2. c = [login |-> c.login, passwd |-> c.passwd]
        BY DEF Accounts
      <4> QED BY <4>1, <4>2 DEF Account
    <3>2. CASE t # s
      <4>1. Current(t) /\ host[t] = g /\ account'[t] = account[t]
        BY <2>4, <3>2 DEF Unmoved, Current
      <4>2. g # h
        BY <1>1, <1>3, <4>1 DEF SessionsInv, OneEach
      <4>3. Listed(g) /\ (Entry(g))' = Entry(g)
        BY <2>3, <4>2
      <4> QED BY <1>1, <4>1, <4>3 DEF TriesListedAccount, Account
    <3> QED BY <3>1, <3>2
  <2>6. KeepsPasswords
    <3>1. ASSUME NEW g \in Hosts, Listed(g), Entry(g).passwd # "", Listed(g)', g # h
          PROVE  (Entry(g))'.passwd # ""
      BY <2>3, <3>1
    <3>2. ASSUME Listed(h), Entry(h).passwd # ""
          PROVE  (Entry(h))'.passwd # ""
      <4>1. Completed(h, a).passwd # ""
        BY <3>2 DEF Completed, Account
      <4> PICK c \in Accounts : c = Completed(h, a)
        BY <2>2
      <4>2. (Entry(h))' = [host |-> h, login |-> c.login, passwd |-> c.passwd]
        BY <2>2 DEF NewEntry
      <4>3. c.passwd # ""
        BY <4>1
      <4>4. (Entry(h))'.passwd = c.passwd
        BY <4>2
      <4> QED BY <4>3, <4>4
    <3> QED BY <3>1, <3>2 DEF KeepsPasswords
  <2> QED BY <2>4, <2>5, <2>6
<1> QED BY <1>2, <1>3

(* Every step.                                                             *)
LEMMA StartStep == StartInv /\ [StartNext]_vars => StartInv' /\ KeepsPasswords
<1> SUFFICES ASSUME StartInv, [StartNext]_vars PROVE StartInv' /\ KeepsPasswords
  OBVIOUS
<1>1. RecentInv /\ SessionsInv /\ TriesListedAccount /\ ConnectTypeOK /\ TypeOK
  BY DEF StartInv, SessionsInv, RecentInv
<1>2. RecentInv'
  BY <1>1, RecentStep
<1>3. ASSUME recent' = recent, dracmap' = dracmap, UNCHANGED connectVars
      PROVE  StartInv' /\ KeepsPasswords
  <2>1. UNCHANGED <<kind, status, web, host, account, pc, console, failed, socket, ctxId, refs, nextId, through, alive>>
    BY <1>3 DEF connectVars, ownVars, glueVars
  <2>2. ConnectTypeOK' /\ OneEach'
    BY <1>1, <1>3, <2>1 DEF SessionsInv, ConnectTypeOK, OneEach, Current
  <2>3. OwnSockets' /\ IdsGiven'
    BY <1>1, <2>1 DEF SessionsInv, OwnSockets, GetDracCtx, IdsGiven, Past
  <2>4. WebCounted'
    BY <1>1, <2>1 DEF SessionsInv, WebCounted, InWeb
  <2>5. \A t \in Sessions : WhereItIs(t)' /\ TlsKeptBy(t)' /\ StatusFits(t)'
    BY <1>1, <2>1 DEF SessionsInv, WhereItIs, TlsKeptBy, StatusFits, Current, WantsTls, Is
  <2>6. SessionsInv'
    BY <2>2, <2>3, <2>4, <2>5 DEF SessionsInv
  <2>7. TriesListedAccount' /\ KeepsPasswords
    <3>1. \A t \in Sessions : Current(t)' => Current(t) /\ host'[t] = host[t] /\ account'[t] = account[t]
      BY <2>1 DEF Current
    <3> QED BY <1>1, <1>2, <1>3, <3>1, TriesSame, ListUnchanged
  <2> QED BY <1>2, <2>6, <2>7 DEF StartInv
<1>4. ASSUME SessionsInv', recent' = recent,
             \A t \in Sessions : Current(t)' => Current(t) /\ host'[t] = host[t] /\ account'[t] = account[t]
      PROVE  StartInv' /\ KeepsPasswords
  BY <1>1, <1>2, <1>4, TriesSame, ListUnchanged DEF StartInv
<1>5. CASE UNCHANGED vars
  BY <1>3, <1>5 DEF vars, recentVars
<1>6. ASSUME NEW f \in Forms, NEW h \in Hosts, NEW a \in Accounts, Post(f, h, a), UNCHANGED connectVars
      PROVE  StartInv' /\ KeepsPasswords
  BY <1>3, <1>6 DEF Post
<1>7. ASSUME NEW f \in Forms, Submit(f) PROVE StartInv' /\ KeepsPasswords
  <2>1. form[f].host \in Hosts /\ form[f].account \in Accounts
    BY <1>1, <1>7 DEF Submit, SubmitForm, TypeOK
  <2> QED BY <1>2, <1>7, <2>1, RequestStep DEF Submit, SubmitForm, StartInv
<1>8. ASSUME NEW h \in Hosts, VisitPage(h) PROVE StartInv' /\ KeepsPasswords
  <2>1. Account("", "") \in Accounts
    BY DEF Account, Accounts
  <2> QED BY <1>2, <1>8, <2>1, RequestStep DEF VisitPage, Visit, StartInv
<1>9. ASSUME NEW h \in Hosts, FinishSession(h) PROVE StartInv' /\ KeepsPasswords
  <2>1. PICK s \in Sessions : host[s] = h /\ Finish(s)
    BY <1>9 DEF FinishSession
  <2>2. SessionsInv'
    BY <1>1, <1>9, <2>1, FinishStep DEF FinishSession
  <2>3. recent' = recent /\ host' = host /\ account' = account
    BY <1>9, <2>1 DEF FinishSession, EndSession, Finish, ownVars
  <2>4. \A t \in Sessions : Current(t)' => Current(t)
    BY <1>1, <2>1 DEF Finish, Goto, Current, ConnectTypeOK
  <2> QED BY <1>4, <2>2, <2>3, <2>4
<1>10. ASSUME NEW s \in Sessions, Probe(s) \/ Connect(s), UNCHANGED recentVars
       PROVE  StartInv' /\ KeepsPasswords
  <2>1. SessionsInv' /\ OnlyOf(s)
    BY <1>1, <1>10, ReaderStep, ActsOnOwn
  <2>2. recent' = recent
    BY <1>10 DEF recentVars
  <2>3. Current(s)' => Current(s) /\ host'[s] = host[s] /\ account'[s] = account[s]
    <3>1. CASE Probe(s)
      <4>1. account' = account
        BY <3>1 DEF Probe, GetFrontPage, GetFails, PostLogin, PostLoginFails, GetConsolePage,
                    GetConsolePageFails, Logout, ownVars
      <4> QED BY <1>1, <3>1, <4>1, ProbeKeeps
    <3>2. CASE Connect(s) /\ ~ Free(s)
      BY <1>1, <3>2, ConnectKeeps
    <3>3. CASE Free(s)
      BY <1>1, <3>3 DEF Free, Goto, Current, ConnectTypeOK
    <3> QED BY <1>10, <3>1, <3>2, <3>3
  <2>4. \A t \in Sessions \ {s} : Current(t)' => Current(t) /\ host'[t] = host[t] /\ account'[t] = account[t]
    BY <2>1 DEF OnlyOf, Unmoved, Current
  <2> QED BY <1>4, <2>1, <2>2, <2>3, <2>4
<1> QED BY <1>5, <1>6, <1>7, <1>8, <1>9, <1>10 DEF StartNext

(* The invariant of both, of every state there is.                         *)
THEOREM StartInvariance == StartSpec => []StartInv
<1>1. StartInit => StartInv
  BY StartBegins
<1>2. StartInv /\ [StartNext]_vars => StartInv'
  BY StartStep
<1> QED BY <1>1, <1>2, PTL DEF StartSpec

-----------------------------------------------------------------------------
(* What follows from it.                                                   *)

(* RecentDracs.NewestListed: recentDracs holds the hosts that              *)
(* setupDracClient started last, in that order and each once, however many *)
(* it holds.                                                               *)
THEOREM RecentHostsListed == StartSpec => []NewestListed
<1>1. StartInv => NewestListed
  BY NewestListedFollows DEF StartInv
<1> QED BY <1>1, StartInvariance, PTL

(* RecentDracs.PasswordKept: whatever request comes, with an account or    *)
(* without, a password in the list is replaced only by another one, as     *)
(* long as the host stays listed.                                          *)
THEOREM PasswordsStay == StartSpec => PasswordKept
<1>1. StartInv /\ [StartNext]_vars => [KeepsPasswords]_recentVars
  BY StartStep
<1>2. StartInv /\ [StartNext]_vars
        => [\A h \in Hosts : Listed(h) /\ Entry(h).passwd # "" /\ Listed(h)'
              => (Entry(h).passwd)' # ""]_recentVars
  BY <1>1 DEF KeepsPasswords
<1> QED BY <1>2, StartInvariance, PTL DEF StartSpec, PasswordKept

(* SessionStart.TriesListedAccount: what a session logs in with is what    *)
(* the list shows of its host, although the list goes on changing under    *)
(* the sessions.                                                           *)
THEOREM ListedAccountsTried == StartSpec => []TriesListedAccount
<1>1. StartInv => TriesListedAccount
  BY DEF StartInv
<1> QED BY <1>1, StartInvariance, PTL

(* DracConnect.WebLoggedOut: getDracType leaves no session open at the web *)
(* server of an old DRAC, wherever it fails.                               *)
THEOREM WebServersLeft == StartSpec => []WebLoggedOut
<1>1. StartInv => WebLoggedOut
  <2>1. SessionsInv => WebLoggedOut
    BY DEF SessionsInv, WebCounted, WebLoggedOut, InWeb, Probing
  <2> QED BY <2>1 DEF StartInv
<1> QED BY <1>1, StartInvariance, PTL

(* SessionStart.RightSockets: the id in a context finds its own session,   *)
(* whichever came and went, so that C writes to the sockets of that, and   *)
(* in TLS where the DRAC wants it.                                         *)
THEOREM SocketsAreRight == StartSpec => []RightSockets
<1>1. StartInv => RightSockets
  BY DEF StartInv, SessionsInv, RecentInv, RightSockets, StartTypeOK, TlsKept, TlsKeptBy
<1> QED BY <1>1, StartInvariance, PTL

(* DracConnect.StatusOfAccount: the page says "auth error" only of a wrong *)
(* account and "ready" only of a right one, also after another session     *)
(* was at the host.                                                        *)
THEOREM StatusIsOfAccount == StartSpec => []StatusOfAccount
<1>1. StartInv => StatusOfAccount
  BY DEF StartInv, SessionsInv, StatusFits, StatusOfAccount
<1> QED BY <1>1, StartInvariance, PTL
=============================================================================
