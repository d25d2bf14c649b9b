----------------------------- MODULE TextProofs -----------------------------
(***************************************************************************)
(* What MCText checks over a small alphabet, for text of any length.       *)
(***************************************************************************)
EXTENDS MCText, CrhProofs, FiniteSetTheorems

-----------------------------------------------------------------------------
(* A suffix, position by position. *)
LEMMA SuffixByPosition ==
    ASSUME NEW d \in Seq(Nat), NEW t \in Seq(Nat)
    PROVE  IsSuffix(d, t) <=>
              /\ Len(d) <= Len(t)
              /\ \A i \in 1..Len(d) : d[i] = t[(Len(t) - Len(d)) + i]
<1> DEFINE k == Len(d)
           n == Len(t)
           rd == Reverse(d)
           rt == Reverse(t)
<1>1. /\ k \in Nat /\ \A i \in 1..k : d[i] \in Nat
      /\ n \in Nat /\ \A i \in 1..n : t[i] \in Nat
  OBVIOUS
<1>2. rd = [i \in 1..k |-> d[(k - i) + 1]] /\ rt = [i \in 1..n |-> t[(n - i) + 1]]
  BY DEF Reverse
<1> HIDE DEF k, n
<1>3. rd \in Seq(Nat) /\ Len(rd) = k /\ rt \in Seq(Nat) /\ Len(rt) = n
  <2>1. /\ \A i \in 1..k : d[(k - i) + 1] \in Nat
        /\ \A i \in 1..n : t[(n - i) + 1] \in Nat
    BY <1>1
  <2> QED
    BY <1>1, <1>2, <2>1
<1>4. IsSuffix(d, t) <=> k <= n /\ SubSeq(rd, 1, k) = SubSeq(rt, 1, k)
  BY <1>3 DEF IsSuffix, IsPrefix
<1> SUFFICES ASSUME k <= n
             PROVE  SubSeq(rd, 1, k) = SubSeq(rt, 1, k) <=> \A i \in 1..k : d[i] = t[(n - k) + i]
  BY <1>4 DEF k, n
<1>5. SubSeq(rd, 1, k) = SubSeq(rt, 1, k) <=> \A i \in 1..k : rd[i] = rt[i]
  <2> HIDE DEF rd, rt
  <2>1. /\ SubSeq(rd, 1, k) \in Seq(Nat) /\ Len(SubSeq(rd, 1, k)) = k
        /\ SubSeq(rt, 1, k) \in Seq(Nat) /\ Len(SubSeq(rt, 1, k)) = k
    BY <1>1, <1>3
  <2>2. \A i \in 1..k : SubSeq(rd, 1, k)[i] = rd[i] /\ SubSeq(rt, 1, k)[i] = rt[i]
    BY <1>1, <1>3
  <2> QED
    BY <2>1, <2>2
<1>6. \A i \in 1..k : rd[i] = d[(k - i) + 1] /\ rt[i] = t[(n - i) + 1]
  BY <1>1, <1>2
<1> HIDE DEF rd, rt
<1>7. ASSUME \A i \in 1..k : rd[i] = rt[i], NEW i \in 1..k
      PROVE  d[i] = t[(n - k) + i]
  <2> DEFINE j == (k - i) + 1
  <2>1. j \in 1..k /\ (k - j) + 1 = i /\ (n - j) + 1 = (n - k) + i
    BY <1>1
  <2> HIDE DEF j
  <2>2. rd[j] = rt[j] /\ rd[j] = d[(k - j) + 1] /\ rt[j] = t[(n - j) + 1]
    BY <1>6, <1>7, <2>1
  <2> QED
    BY <2>1, <2>2
<1>8. ASSUME \A i \in 1..k : d[i] = t[(n - k) + i], NEW i \in 1..k
      PROVE  rd[i] = rt[i]
  <2> DEFINE j == (k - i) + 1
  <2>1. j \in 1..k /\ (n - i) + 1 = (n - k) + j
    BY <1>1
  <2>2. rd[i] = d[j] /\ rt[i] = t[(n - k) + j]
    BY <1>6, <2>1
  <2> HIDE DEF j
  <2> QED
    BY <1>8, <2>1, <2>2
<1> QED
  BY <1>5, <1>7, <1>8

(* Texts of one length that agree at every position are one text.          *)
LEMMA SameText ==
    ASSUME NEW A, NEW a \in Seq(A), NEW b \in Seq(A), Len(a) = Len(b),
           \A i \in 1..Len(a) : a[i] = b[i]
    PROVE  a = b
  OBVIOUS

(* A text with a suffix is what precedes it, and the suffix.               *)
LEMMA SuffixSplits ==
    ASSUME NEW d \in Seq(Nat), NEW t \in Seq(Nat), IsSuffix(d, t)
    PROVE  /\ t = SubSeq(t, 1, Len(t) - Len(d)) \o d
           /\ Len(d) <= Len(t)
<1> DEFINE n == Len(t) - Len(d)
           h == SubSeq(t, 1, n)
<1>1. Len(d) <= Len(t) /\ \A i \in 1..Len(d) : d[i] = t[n + i]
  BY SuffixByPosition
<1>2. n \in Nat /\ Len(t) = n + Len(d) /\ Len(d) \in Nat
  BY <1>1
<1> HIDE DEF n
<1>3. h \in Seq(Nat) /\ Len(h) = n /\ \A i \in 1..n : h[i] = t[i]
  BY <1>2
<1> HIDE DEF h
<1> DEFINE u == h \o d
<1>4. u \in Seq(Nat) /\ Len(u) = Len(t)
  BY <1>2, <1>3
<1>5. /\ \A i \in 1..n : u[i] = h[i]
      /\ \A i \in 1..Len(d) : u[n + i] = d[i]
  BY <1>3
<1> HIDE DEF u
<1>6. ASSUME NEW i \in 1..Len(t)
      PROVE  u[i] = t[i]
  <2>1. CASE i <= n
    BY <1>2, <1>3, <1>5, <2>1
  <2>2. CASE i > n
    <3> DEFINE j == i - n
    <3>1. j \in 1..Len(d) /\ i = n + j
      BY <1>2, <2>2
    <3> HIDE DEF j
    <3> QED
      BY <1>1, <1>5, <3>1
  <2> QED
    BY <1>2, <2>1, <2>2
<1>7. u = t
  BY <1>4, <1>6, SameText
<1> QED
  BY <1>1, <1>7 DEF u, h, n

(* What is appended is a suffix, and what precedes it is what there was.   *)
LEMMA AppendedIsSuffix ==
    ASSUME NEW d \in Seq(Nat), NEW h \in Seq(Nat)
    PROVE  /\ IsSuffix(d, h \o d)
           /\ SubSeq(h \o d, 1, Len(h \o d) - Len(d)) = h
<1> DEFINE t == h \o d
<1>1. t \in Seq(Nat) /\ Len(t) = Len(h) + Len(d) /\ Len(h) \in Nat /\ Len(d) \in Nat
  OBVIOUS
<1>2. /\ \A i \in 1..Len(h) : t[i] = h[i]
      /\ \A i \in 1..Len(d) : t[Len(h) + i] = d[i]
  OBVIOUS
<1> HIDE DEF t
<1>3. Len(t) - Len(d) = Len(h) /\ Len(d) <= Len(t)
  BY <1>1
<1>4. IsSuffix(d, t)
  BY <1>1, <1>2, <1>3, SuffixByPosition
<1>5. SubSeq(t, 1, Len(h)) = h
  <2> DEFINE s == SubSeq(t, 1, Len(h))
  <2>1. s \in Seq(Nat) /\ Len(s) = Len(h) /\ \A i \in 1..Len(h) : s[i] = t[i]
    BY <1>1
  <2> HIDE DEF s
  <2>2. \A i \in 1..Len(h) : s[i] = h[i]
    BY <1>2, <2>1
  <2>3. s = h
    BY <2>1, <2>2, SameText
  <2> QED
    BY <2>3 DEF s
<1> QED
  BY <1>3, <1>4, <1>5 DEF t

-----------------------------------------------------------------------------
(* The code's test for a host is the reference's.                          *)
LEMMA HostsTakePorts ==
    ASSUME NEW h \in Seq(Nat)
    PROVE  WellFormedHost(h) <=> TakesPort(h)
<1>1. DOMAIN h = 1..Len(h) /\ Len(h) \in Nat
  OBVIOUS
<1>2. Contains(h, COLON) <=> \E i \in DOMAIN h : h[i] = COLON
  BY <1>1 DEF Contains
<1>3. h # <<>> => Last(h) = h[Len(h)]
  BY DEF Last
<1> QED
  BY <1>2, <1>3 DEF WellFormedHost, TakesPort

LEMMA SuffixIsText == ASSUME NEW scheme PROVE DefaultSuffix(scheme) \in Seq(Nat)
  BY DEF DefaultSuffix, COLON

(* Normalising takes one spelling of an endpoint to the other.             *)
LEMMA NormalizedIsSpelled ==
    ASSUME NEW scheme, NEW x \in Seq(Nat), ToAsciiLowercase(x) = x
    PROVE  x \in Spellings(scheme, NormalizeAuthority(scheme, x))
<1> DEFINE d == DefaultSuffix(scheme)
           host == SubSeq(x, 1, Len(x) - Len(d))
           strips == scheme \in {HTTP, HTTPS} /\ IsSuffix(d, x) /\ WellFormedHost(host)
<1>1. NormalizeAuthority(scheme, x) = IF strips THEN host ELSE x
  BY Zenon DEF NormalizeAuthority
<1>2. CASE strips
  <2>1. d \in Seq(Nat)
    BY SuffixIsText
  <2>2. x = host \o d /\ Len(d) <= Len(x)
    <3> HIDE DEF d
    <3> QED
      BY <1>2, <2>1, SuffixSplits
  <2>3. host \in Seq(Nat)
    <3> HIDE DEF d
    <3> QED
      BY <2>1, <2>2
  <2>4. TakesPort(host)
    <3> HIDE DEF host
    <3> QED
      BY <1>2, <2>3, HostsTakePorts
  <2> HIDE DEF host
  <2> QED
    BY <1>1, <1>2, <2>2, <2>4 DEF Spellings
<1>3. CASE ~strips
  BY <1>1, <1>3 DEF Spellings
<1> QED
  BY <1>2, <1>3

(* A default port that is spelled out is left out.                         *)
LEMMA PortIsLeftOut ==
    ASSUME NEW scheme \in {HTTP, HTTPS}, NEW h \in Seq(Nat), TakesPort(h),
           ToAsciiLowercase(h) = h,
           ToAsciiLowercase(h \o DefaultSuffix(scheme)) = h \o DefaultSuffix(scheme)
    PROVE  /\ NormalizeAuthority(scheme, h) = h
           /\ NormalizeAuthority(scheme, h \o DefaultSuffix(scheme)) = h
<1> DEFINE d == DefaultSuffix(scheme)
           t == h \o d
<1>1. WellFormedHost(h)
  BY HostsTakePorts
<1>2. ~IsSuffix(d, h)
  BY <1>1, DefaultPortIsNoHost
<1>3. NormalizeAuthority(scheme, h) = h
  BY <1>2, NormalizeFolded, Zenon
<1>4. d \in Seq(Nat)
  BY SuffixIsText
<1> HIDE DEF d
<1>5. IsSuffix(d, t) /\ SubSeq(t, 1, Len(t) - Len(d)) = h
  BY <1>4, AppendedIsSuffix
<1>6. ToAsciiLowercase(t) = t
  BY DEF d
<1> HIDE DEF t
<1>7. NormalizeAuthority(scheme, t) = h
  BY <1>1, <1>5, <1>6, Zenon DEF NormalizeAuthority, d
<1> QED
  BY <1>3, <1>7 DEF t, d

LEMMA EndpointsAgree ==
    ASSUME NEW scheme, NEW x \in Seq(Nat), NEW y \in Seq(Nat),
           ToAsciiLowercase(x) = x, ToAsciiLowercase(y) = y
    PROVE  NormalizeAuthority(scheme, x) = NormalizeAuthority(scheme, y) <=>
              SameEndpoint(scheme, x, y)
<1>1. ASSUME NormalizeAuthority(scheme, x) = NormalizeAuthority(scheme, y)
      PROVE  SameEndpoint(scheme, x, y)
  <2> DEFINE h == NormalizeAuthority(scheme, x)
  <2>1. x \in Spellings(scheme, h) /\ y \in Spellings(scheme, h)
    BY <1>1, NormalizedIsSpelled, Zenon
  <2> HIDE DEF h
  <2>2. CASE h \in {x, y}
    BY <2>1, <2>2 DEF SameEndpoint
  <2>3. CASE h \notin {x, y}
    <3>1. x = y
      BY <2>1, <2>3 DEF Spellings
    <3>2. x \in Spellings(scheme, x)
      BY DEF Spellings
    <3> QED
      BY <3>1, <3>2 DEF SameEndpoint
  <2> QED
    BY <2>2, <2>3
<1>2. ASSUME NEW h \in Seq(Nat), NEW t \in Seq(Nat), ToAsciiLowercase(h) = h,
             ToAsciiLowercase(t) = t, t \in Spellings(scheme, h)
      PROVE  NormalizeAuthority(scheme, h) = NormalizeAuthority(scheme, t)
  <2>1. CASE t = h
    BY <2>1
  <2>2. CASE t # h
    <3>1. scheme \in {HTTP, HTTPS} /\ TakesPort(h) /\ t = h \o DefaultSuffix(scheme)
      BY <1>2, <2>2 DEF Spellings
    <3>2. NormalizeAuthority(scheme, h) = h
      BY <1>2, <3>1, PortIsLeftOut, Zenon
    <3>3. NormalizeAuthority(scheme, t) = h
      BY <1>2, <3>1, PortIsLeftOut, Zenon
    <3> QED
      BY <3>2, <3>3, Zenon
  <2> QED
    BY <2>1, <2>2
<1>3. ASSUME SameEndpoint(scheme, x, y)
      PROVE  NormalizeAuthority(scheme, x) = NormalizeAuthority(scheme, y)
  <2>1. y \in Spellings(scheme, x) \/ x \in Spellings(scheme, y)
    BY <1>3 DEF SameEndpoint
  <2> QED
    BY <1>2, <2>1, Zenon
<1> QED
  BY <1>1, <1>3

-----------------------------------------------------------------------------
\* Requests of any text, with any body.
TextRequests ==
    [method : Seq(Nat), scheme : Seq(Nat), authority : Seq(Nat), path : Seq(Nat),
     query : Seq(Nat), body_sha256 : {Sha256(b) : b \in Seq(Nat)}]

(***************************************************************************)
(* hash.rs:77-91 and verifier.rs:280-287: normalising twice changes        *)
(* nothing, whatever the scheme and the authority.                         *)
(***************************************************************************)
THEOREM NormalizeIdempotentHolds ==
    ASSUME left \in TextRequests
    PROVE  NormalizeIdempotent
<1>1. left.authority \in Seq(Nat)
  BY DEF TextRequests
<1> QED
  BY <1>1, NormalizeTwice DEF NormalizeIdempotent

\* What the digest is made of: characters, and digests of bodies.
Symbols == Nat \cup Seq(Nat)

LEMMA RequestIsHashable ==
    ASSUME NEW p \in TextRequests, FieldsFit(p)
    PROVE  Hashable(Symbols, p)
<1>1. /\ p.method \in Seq(Nat) /\ p.scheme \in Seq(Nat) /\ p.authority \in Seq(Nat)
      /\ p.path \in Seq(Nat) /\ p.query \in Seq(Nat)
  BY DEF TextRequests
<1>2. PICK b \in Seq(Nat) : p.body_sha256 = <<b>>
  BY DEF TextRequests, Sha256
<1>3. DOMAIN p = {"method", "scheme", "authority", "path", "query", "body_sha256"}
  BY DEF TextRequests
<1>4. /\ Len(p.method) < LenRange /\ Len(p.scheme) < LenRange /\ Len(p.authority) < LenRange
      /\ Len(p.path) < LenRange /\ Len(p.query) < LenRange /\ Len(p.body_sha256) < LenRange
  BY <1>3 DEF FieldsFit
<1>5. LenRange \in Nat /\ 1 < LenRange
  <2>1. Len(p.body_sha256) = 1
    BY <1>2
  <2> QED
    BY <1>4, <2>1, LenRangeAssumption
<1>6. \A s \in Seq(Nat) : s \in Seq(Symbols)
  BY DEF Symbols
<1>7. HashedMethod(p) \in Seq(Nat) /\ Len(HashedMethod(p)) = Len(p.method)
  BY <1>1, FoldShape DEF HashedMethod
<1>8. HashedScheme(p) \in Seq(Nat) /\ Len(HashedScheme(p)) = Len(p.scheme)
  BY <1>1, FoldShape DEF HashedScheme
<1>9. HashedAuthority(p) \in Seq(Nat) /\ Len(HashedAuthority(p)) < LenRange
  <2>1. HashedAuthority(p) \in Seq(Nat) /\ Len(HashedAuthority(p)) <= Len(p.authority)
    BY <1>1, NormalizedIsText, Zenon DEF HashedAuthority
  <2> QED
    BY <1>1, <1>4, <1>5, <2>1
<1>10. HashedPath(p) \in Seq(Nat) /\ Len(HashedPath(p)) < LenRange
  BY <1>1, <1>4, <1>5 DEF HashedPath, OrRoot, ROOT, SLASH
<1>11. p.body_sha256 \in Seq(Symbols)
  <2>1. b \in Symbols
    BY DEF Symbols
  <2> HIDE DEF Symbols
  <2> QED
    BY <1>2, <2>1
<1>12. /\ Short(Symbols, HashedMethod(p)) /\ Short(Symbols, HashedScheme(p))
       /\ Short(Symbols, HashedAuthority(p)) /\ Short(Symbols, HashedPath(p))
       /\ Short(Symbols, p.query) /\ Short(Symbols, p.body_sha256)
  BY <1>1, <1>4, <1>6, <1>7, <1>8, <1>9, <1>10, <1>11 DEF Short
<1> QED
  BY <1>12 DEF Hashable, Shorts

\* The fields of two requests, as they are hashed, agree.
SameFields(p, q) ==
    /\ HashedMethod(p) = HashedMethod(q)
    /\ HashedScheme(p) = HashedScheme(q)
    /\ HashedAuthority(p) = HashedAuthority(q)
    /\ HashedPath(p) = HashedPath(q)
    /\ p.query = q.query
    /\ p.body_sha256 = q.body_sha256

LEMMA SameFieldsSameHash ==
    ASSUME NEW p, NEW q, SameFields(p, q)
    PROVE  CanonicalRequestHash(p) = CanonicalRequestHash(q)
  BY Zenon
     DEF SameFields, CanonicalRequestHash, HashedMethod, HashedScheme, HashedAuthority, HashedPath

LEMMA SameFieldsSameAction ==
    ASSUME NEW p \in TextRequests, NEW q \in TextRequests
    PROVE  SameFields(p, q) <=> SameAction(p, q)
<1>1. /\ p.method \in Seq(Nat) /\ p.scheme \in Seq(Nat) /\ p.authority \in Seq(Nat)
      /\ q.method \in Seq(Nat) /\ q.scheme \in Seq(Nat) /\ q.authority \in Seq(Nat)
  BY DEF TextRequests
<1>2. HashedMethod(p) = HashedMethod(q) <=> EqIgnoreAsciiCase(p.method, q.method)
  <2>1. /\ ToAsciiLowercase(ToAsciiUppercase(p.method)) = ToAsciiLowercase(p.method)
        /\ ToAsciiLowercase(ToAsciiUppercase(q.method)) = ToAsciiLowercase(q.method)
        /\ ToAsciiUppercase(ToAsciiLowercase(p.method)) = ToAsciiUppercase(p.method)
        /\ ToAsciiUppercase(ToAsciiLowercase(q.method)) = ToAsciiUppercase(q.method)
    BY <1>1, FoldTwice
  <2> QED
    BY <2>1, Zenon DEF HashedMethod, EqIgnoreAsciiCase
<1>3. HashedScheme(p) = HashedScheme(q) <=> EqIgnoreAsciiCase(p.scheme, q.scheme)
  BY DEF HashedScheme, EqIgnoreAsciiCase
<1> DEFINE x == ToAsciiLowercase(p.authority)
           y == ToAsciiLowercase(q.authority)
<1>4. /\ x \in Seq(Nat) /\ ToAsciiLowercase(x) = x
      /\ y \in Seq(Nat) /\ ToAsciiLowercase(y) = y
  BY <1>1, FoldShape, FoldTwice
<1>5. ASSUME NEW scheme
      PROVE  NormalizeAuthority(scheme, p.authority) = NormalizeAuthority(scheme, q.authority)
                <=> SameEndpoint(scheme, x, y)
  <2>1. /\ NormalizeAuthority(scheme, p.authority) = NormalizeAuthority(scheme, x)
        /\ NormalizeAuthority(scheme, q.authority) = NormalizeAuthority(scheme, y)
    BY <1>4, Zenon DEF NormalizeAuthority
  <2> HIDE DEF x, y
  <2> QED
    BY <1>4, <2>1, EndpointsAgree, Zenon
<1>6. HashedScheme(p) = HashedScheme(q) =>
         (HashedAuthority(p) = HashedAuthority(q) <=>
             SameEndpoint(ToAsciiLowercase(p.scheme), x, y))
  BY <1>5, Zenon DEF HashedAuthority, HashedScheme
<1>7. HashedPath(p) = HashedPath(q) <=> p.path = q.path \/ {p.path, q.path} = {<<>>, ROOT}
  BY DEF HashedPath, OrRoot
<1> QED
  BY <1>2, <1>3, <1>6, <1>7 DEF SameFields, SameAction

(***************************************************************************)
(* hash.rs:93-99 and 110-122, for any two requests whose fields fit the    *)
(* length prefix: the hash is the same exactly when the action is.         *)
(***************************************************************************)
THEOREM CrhIdentifiesActionHolds ==
    ASSUME left \in TextRequests, right \in TextRequests
    PROVE  CrhIdentifiesAction
<1> SUFFICES ASSUME FieldsFit(left), FieldsFit(right)
             PROVE  CanonicalRequestHash(left) = CanonicalRequestHash(right)
                       <=> SameAction(left, right)
  BY DEF CrhIdentifiesAction
<1>1. Nat \subseteq Symbols
  BY DEF Symbols
<1>2. CanonicalRequestHash(left) = CanonicalRequestHash(right) => SameFields(left, right)
  BY <1>1, RequestIsHashable, HashIdentifiesFields DEF SameFields
<1> QED
  BY <1>2, SameFieldsSameHash, SameFieldsSameAction

-----------------------------------------------------------------------------
(* No sequence of naturals descends forever.                               *)
LEMMA NatDescends ==
    \E R : IsWellFoundedOn(R, Nat) /\ \A x, y \in Nat : x < y => <<x, y>> \in R
<1>1. \A x, y \in Nat : x < y => <<x, y>> \in OpToRel(<, Nat)
  BY Zenon DEF OpToRel
<1> QED
  BY <1>1, NatLessThanWellFounded, Zenon

(* A set of naturals has a least element, and `Min` is it.                 *)
LEMMA LeastOf ==
    ASSUME NEW S, S \subseteq Nat, S # {}
    PROVE  Min(S) \in S /\ \A y \in S : Min(S) <= y
<1>1. PICK R : IsWellFoundedOn(R, Nat) /\ \A x, y \in Nat : x < y => <<x, y>> \in R
  BY NatDescends
<1>2. IsWellFoundedOn(R, Nat)
  BY <1>1
<1>3. \A x, y \in Nat : x < y => <<x, y>> \in R
  BY <1>1
<1>4. PICK x \in S : \A y \in S : ~(<<y, x>> \in R)
  BY <1>2, WFMin
<1>5. ASSUME NEW y \in S
      PROVE  x <= y
  <2>1. x \in Nat /\ y \in Nat
    OBVIOUS
  <2>2. ~(y < x)
    BY <1>3, <1>4, <2>1
  <2> QED
    BY <2>1, <2>2
<1> QED
  BY <1>4, <1>5 DEF Min

(* A bounded, non-empty set of naturals has a greatest element.            *)
LEMMA GreatestBelow ==
    ASSUME NEW S, S \subseteq Nat, S # {}, NEW n \in Nat, \A y \in S : y <= n
    PROVE  \E x \in S : \A y \in S : y <= x
<1> DEFINE T == {k \in Nat : n - k \in S}
<1>1. \A y \in S : n - y \in T
  OBVIOUS
<1>2. T \subseteq Nat /\ T # {}
  BY <1>1
<1>3. Min(T) \in T /\ \A y \in T : Min(T) <= y
  <2> HIDE DEF T
  <2> QED
    BY <1>2, LeastOf
<1>4. ASSUME NEW y \in S
      PROVE  y <= n - Min(T)
  BY <1>1, <1>3
<1> QED
  BY <1>3, <1>4

-----------------------------------------------------------------------------
\* The reference's segments, one at a time.
StartsOf(p) == {0} \cup {i \in 1..Len(p) : p[i] = SLASH}
EndOf(p, i) == Min({j \in {k \in 1..Len(p) : p[k] = SLASH} : j > i} \cup {Len(p) + 1})
RankOf(p, i) == Cardinality({k \in StartsOf(p) : k < i})
SegmentAt(p, i) == <<RankOf(p, i), SubSeq(p, i + 1, EndOf(p, i) - 1)>>

(* Segments are told apart by where they start.                            *)
LEMMA SegmentsByStart ==
    ASSUME NEW p
    PROVE  Segments(p) = {SegmentAt(p, i) : i \in StartsOf(p)}
  BY DEF Segments, SegmentAt, RankOf, EndOf, StartsOf

(* There are finitely many starts, one at the front.                       *)
LEMMA StartsAreFinite ==
    ASSUME NEW p \in Seq(Nat)
    PROVE  /\ StartsOf(p) \subseteq 0..Len(p)
           /\ IsFiniteSet(StartsOf(p))
           /\ 0 \in StartsOf(p)
           /\ Cardinality(StartsOf(p)) \in Nat
<1>1. StartsOf(p) \subseteq 0..Len(p) /\ 0 \in StartsOf(p)
  BY DEF StartsOf
<1>2. IsFiniteSet(0..Len(p))
  BY FS_Interval
<1>3. IsFiniteSet(StartsOf(p))
  BY <1>1, <1>2, FS_Subset
<1> QED
  BY <1>1, <1>3, FS_CardinalityType

(* A segment ends at the next slash, or where the path does.               *)
LEMMA EndIsNext ==
    ASSUME NEW p \in Seq(Nat), NEW i \in 0..Len(p)
    PROVE  /\ EndOf(p, i) \in (i + 1)..(Len(p) + 1)
           /\ EndOf(p, i) <= Len(p) => p[EndOf(p, i)] = SLASH
           /\ \A j \in (i + 1)..(EndOf(p, i) - 1) : p[j] # SLASH
<1> DEFINE S == {j \in {k \in 1..Len(p) : p[k] = SLASH} : j > i} \cup {Len(p) + 1}
<1>1. S \subseteq Nat /\ S # {}
  OBVIOUS
<1>2. Min(S) \in S /\ \A y \in S : Min(S) <= y
  <2> HIDE DEF S
  <2> QED
    BY <1>1, LeastOf
<1>3. EndOf(p, i) = Min(S)
  BY DEF EndOf
<1> DEFINE e == EndOf(p, i)
<1>4. e \in S /\ \A y \in S : e <= y
  BY <1>2, <1>3
<1> HIDE DEF e
<1>5. e \in (i + 1)..(Len(p) + 1) /\ (e <= Len(p) => p[e] = SLASH)
  BY <1>4
<1>6. ASSUME NEW j \in (i + 1)..(e - 1), p[j] = SLASH
      PROVE  FALSE
  BY <1>4, <1>5, <1>6
<1> QED
  BY <1>5, <1>6 DEF e

(* ... and that determines it.                                             *)
LEMMA EndIsOnly ==
    ASSUME NEW p \in Seq(Nat), NEW i \in 0..Len(p), NEW e \in (i + 1)..(Len(p) + 1),
           e <= Len(p) => p[e] = SLASH,
           \A j \in (i + 1)..(e - 1) : p[j] # SLASH
    PROVE  EndOf(p, i) = e
<1> DEFINE f == EndOf(p, i)
<1>1. /\ f \in (i + 1)..(Len(p) + 1)
      /\ f <= Len(p) => p[f] = SLASH
      /\ \A j \in (i + 1)..(f - 1) : p[j] # SLASH
  BY EndIsNext
<1> HIDE DEF f
<1>2. ~(f < e)
  BY <1>1
<1>3. ~(e < f)
  BY <1>1
<1> QED
  BY <1>1, <1>2, <1>3 DEF f

(* Segments are numbered from 0 without a gap at the end or a repetition.  *)
LEMMA RanksCount ==
    ASSUME NEW p \in Seq(Nat)
    PROVE  /\ \A i \in StartsOf(p) : RankOf(p, i) \in Nat
           /\ \A i, j \in StartsOf(p) : i < j => RankOf(p, i) < RankOf(p, j)
           /\ \A i \in StartsOf(p) :
                 (\A j \in StartsOf(p) : j <= i) =>
                     RankOf(p, i) = Cardinality(StartsOf(p)) - 1
<1> DEFINE S == StartsOf(p)
           B(i) == {k \in S : k < i}
<1>1. (\A k \in S : k \in Nat) /\ IsFiniteSet(S) /\ \A i \in S : RankOf(p, i) = Cardinality(B(i))
  BY StartsAreFinite DEF RankOf
<1> HIDE DEF S
<1>0. \A i, k : k \in B(i) <=> k \in S /\ k < i
  OBVIOUS
<1> HIDE DEF B
<1>2. ASSUME NEW i \in S
      PROVE  IsFiniteSet(B(i)) /\ Cardinality(B(i)) \in Nat
  <2>1. B(i) \in SUBSET S
    BY <1>0
  <2>2. IsFiniteSet(B(i))
    BY <1>1, <2>1, FS_Subset
  <2> QED
    BY <2>2, FS_CardinalityType
<1>3. ASSUME NEW i \in S, NEW j \in S, i < j
      PROVE  Cardinality(B(i)) < Cardinality(B(j))
  <2>1. B(i) \in SUBSET B(j) /\ i \in B(j) /\ i \notin B(i)
    BY <1>0, <1>1, <1>3
  <2>2. Cardinality(B(i)) <= Cardinality(B(j)) /\ Cardinality(B(j)) # Cardinality(B(i))
    BY <1>2, <2>1, FS_Subset
  <2> QED
    BY <1>2, <2>2
<1>4. ASSUME NEW i \in S, \A j \in S : j <= i
      PROVE  Cardinality(B(i)) = Cardinality(S) - 1
  <2>1. S = B(i) \cup {i} /\ i \notin B(i)
    BY <1>0, <1>1, <1>4
  <2>2. Cardinality(S) = Cardinality(B(i)) + 1
    BY <1>2, <2>1, FS_AddElement
  <2> QED
    BY <1>2, <2>2
<1> QED
  BY <1>1, <1>2, <1>3, <1>4 DEF S, B

(* A number belongs to one segment.                                        *)
LEMMA RankIsUnique ==
    ASSUME NEW p \in Seq(Nat), NEW i \in StartsOf(p), NEW j \in StartsOf(p),
           RankOf(p, i) = RankOf(p, j)
    PROVE  i = j
<1>1. RankOf(p, i) \in Nat /\ RankOf(p, j) \in Nat
  BY RanksCount
<1>2. ~(i < j) /\ ~(j < i)
  BY <1>1, RanksCount
<1> QED
  BY <1>2, StartsAreFinite

(* There are as many segments as starts.                                   *)
LEMMA SegmentsCount ==
    ASSUME NEW p \in Seq(Nat)
    PROVE  Cardinality(Segments(p)) = Cardinality(StartsOf(p))
<1> DEFINE S == StartsOf(p)
           T == Segments(p)
           f == [i \in S |-> SegmentAt(p, i)]
<1>1. IsFiniteSet(S)
  BY StartsAreFinite
<1>2. T = {SegmentAt(p, i) : i \in S}
  BY SegmentsByStart
<1>3. ASSUME NEW i \in S, NEW j \in S, f[i] = f[j]
      PROVE  i = j
  <2>1. SegmentAt(p, i) = SegmentAt(p, j)
    BY <1>3
  <2>2. RankOf(p, i) = RankOf(p, j)
    BY <2>1 DEF SegmentAt
  <2> QED
    BY <2>2, RankIsUnique
<1>4. f \in [S -> T] /\ \A t \in T : \E i \in S : f[i] = t
  BY <1>2
<1> HIDE DEF f, S, T
<1>5. f \in Bijection(S, T)
  BY <1>3, <1>4 DEF Bijection, Injection, Surjection, IsInjective
<1>6. ExistsBijection(S, T)
  BY <1>5 DEF ExistsBijection
<1>7. Cardinality(T) = Cardinality(S)
  BY <1>1, <1>6, FS_Bijection
<1> QED
  BY <1>7 DEF S, T

-----------------------------------------------------------------------------
\* Where a path follows a prefix.
Follows(p, s, n) == \A i \in 1..n : i <= Len(p) /\ p[i] = s[i]

(* A prefix, position by position.                                         *)
LEMMA PrefixByPosition ==
    ASSUME NEW s \in Seq(Nat), NEW p \in Seq(Nat)
    PROVE  IsPrefix(s, p) <=> Follows(p, s, Len(s))
<1>1. IsPrefix(s, p) <=> Len(s) <= Len(p) /\ SubSeq(s, 1, Len(s)) = SubSeq(p, 1, Len(s))
  BY DEF IsPrefix
<1>2. CASE Len(s) <= Len(p)
  <2> DEFINE a == SubSeq(s, 1, Len(s))
             b == SubSeq(p, 1, Len(s))
  <2>1. /\ a \in Seq(Nat) /\ Len(a) = Len(s) /\ \A i \in 1..Len(s) : a[i] = s[i]
        /\ b \in Seq(Nat) /\ Len(b) = Len(s) /\ \A i \in 1..Len(s) : b[i] = p[i]
    BY <1>2
  <2> HIDE DEF a, b
  <2>2. a = b <=> \A i \in 1..Len(s) : a[i] = b[i]
    BY <2>1, SameText
  <2>3. a = b <=> \A i \in 1..Len(s) : p[i] = s[i]
    BY <2>1, <2>2
  <2>4. IsPrefix(s, p) <=> a = b
    BY <1>1, <1>2 DEF a, b
  <2> QED
    BY <1>2, <2>3, <2>4 DEF Follows
<1>3. CASE ~(Len(s) <= Len(p))
  <2>1. Len(s) \in 1..Len(s) /\ ~(Len(s) <= Len(p))
    BY <1>3
  <2> QED
    BY <1>1, <1>3, <2>1 DEF Follows
<1> QED
  BY <1>2, <1>3

(* Two paths that agree so far start the same segments, under the same     *)
(* numbers.                                                                *)
LEMMA SameStarts ==
    ASSUME NEW s \in Seq(Nat), NEW p \in Seq(Nat), NEW n \in 0..Len(s), Follows(p, s, n)
    PROVE  /\ n <= Len(p)
           /\ \A i \in 0..n : i \in StartsOf(s) <=> i \in StartsOf(p)
           /\ \A i \in 0..n : RankOf(s, i) = RankOf(p, i)
<1>1. n <= Len(p)
  <2>1. CASE n = 0
    BY <2>1
  <2>2. CASE n # 0
    BY <2>2 DEF Follows
  <2> QED
    BY <2>1, <2>2
<1>2. ASSUME NEW i \in 0..n
      PROVE  i \in StartsOf(s) <=> i \in StartsOf(p)
  BY <1>1 DEF Follows, StartsOf
<1>3. ASSUME NEW i \in 0..n
      PROVE  RankOf(s, i) = RankOf(p, i)
  <2>1. StartsOf(s) \subseteq Nat /\ StartsOf(p) \subseteq Nat
    BY StartsAreFinite
  <2>2. \A k : (k \in StartsOf(s) /\ k < i) <=> (k \in StartsOf(p) /\ k < i)
    <3> SUFFICES ASSUME NEW k, k \in Nat, k < i
                 PROVE  k \in StartsOf(s) <=> k \in StartsOf(p)
      BY <2>1
    <3> QED
      BY <1>2
  <2>3. {k \in StartsOf(s) : k < i} = {k \in StartsOf(p) : k < i}
    BY <2>2
  <2> QED
    BY <2>3 DEF RankOf
<1> QED
  BY <1>1, <1>2, <1>3

(* The segment a position belongs to.                                      *)
LEMMA LastStart ==
    ASSUME NEW s \in Seq(Nat), NEW n \in 0..Len(s)
    PROVE  \E a \in StartsOf(s) : /\ a <= n
                                  /\ \A j \in StartsOf(s) : j <= n => j <= a
                                  /\ EndOf(s, a) > n
<1> DEFINE K == {i \in StartsOf(s) : i <= n}
<1>1. K \subseteq Nat /\ K # {} /\ n \in Nat /\ \A i \in K : i <= n
  BY StartsAreFinite
<1>2. PICK a \in K : \A y \in K : y <= a
  <2> HIDE DEF K
  <2> QED
    BY <1>1, GreatestBelow
<1>3. a \in StartsOf(s) /\ a \in 0..n
  BY <1>1, <1>2
<1> DEFINE e == EndOf(s, a)
<1>4. e \in (a + 1)..(Len(s) + 1) /\ (e <= Len(s) => s[e] = SLASH)
  BY <1>3, EndIsNext
<1> HIDE DEF e
<1>5. e > n
  <2> SUFFICES ASSUME e <= n
               PROVE  FALSE
    BY <1>4
  <2>1. e \in StartsOf(s)
    BY <1>4 DEF StartsOf
  <2> QED
    BY <1>2, <1>3, <1>4, <2>1
<1> QED
  BY <1>2, <1>3, <1>5 DEF e

(* A part of a text, position by position.                                 *)
LEMMA PartByPosition ==
    ASSUME NEW t \in Seq(Nat), NEW a \in Nat, NEW e \in (a + 1)..(Len(t) + 1)
    PROVE  /\ Len(SubSeq(t, a + 1, e - 1)) = (e - 1) - a
           /\ \A k \in 1..((e - 1) - a) : SubSeq(t, a + 1, e - 1)[k] = t[a + k]
<1>1. a + 1 \in Nat /\ e - 1 \in Nat /\ e - 1 <= Len(t) /\ a <= e - 1
  OBVIOUS
<1>2. Len(SubSeq(t, a + 1, e - 1)) = (e - 1) - a
  BY <1>1
<1>3. ASSUME NEW k \in 1..((e - 1) - a)
      PROVE  SubSeq(t, a + 1, e - 1)[k] = t[a + k]
  BY <1>1, <1>2
<1> QED
  BY <1>2, <1>3

(* A segment found among another path's is found in the same place, if the *)
(* two agree up to its start; then they agree through it.                  *)
LEMMA SegmentInPlace ==
    ASSUME NEW s \in Seq(Nat), NEW p \in Seq(Nat), NEW n \in 0..Len(s), Follows(p, s, n),
           NEW a \in StartsOf(s), a <= n, SegmentAt(s, a) \in Segments(p)
    PROVE  /\ a \in StartsOf(p)
           /\ EndOf(p, a) = EndOf(s, a)
           /\ \A j \in (a + 1)..(EndOf(s, a) - 1) : p[j] = s[j]
<1>1. a \in 0..n
  BY StartsAreFinite
<1>2. a \in StartsOf(p) /\ RankOf(s, a) = RankOf(p, a) /\ a <= Len(p) /\ a \in 0..Len(p)
  BY <1>1, SameStarts
<1>3. PICK b \in StartsOf(p) : SegmentAt(s, a) = SegmentAt(p, b)
  BY SegmentsByStart
<1> DEFINE e == EndOf(s, a)
           f == EndOf(p, a)
           u == SubSeq(s, a + 1, e - 1)
           v == SubSeq(p, a + 1, f - 1)
<1>4. RankOf(s, a) = RankOf(p, b) /\ u = SubSeq(p, b + 1, EndOf(p, b) - 1)
  BY <1>3 DEF SegmentAt
<1>5. b = a
  BY <1>2, <1>4, RankIsUnique
<1>6. u = v
  BY <1>4, <1>5
<1>7. e \in (a + 1)..(Len(s) + 1) /\ f \in (a + 1)..(Len(p) + 1)
  BY <1>1, <1>2, EndIsNext
<1> HIDE DEF e, f
<1>8. /\ Len(u) = (e - 1) - a /\ \A k \in 1..((e - 1) - a) : u[k] = s[a + k]
      /\ Len(v) = (f - 1) - a /\ \A k \in 1..((f - 1) - a) : v[k] = p[a + k]
  <2>1. a \in Nat
    BY <1>1
  <2>2. Len(u) = (e - 1) - a /\ \A k \in 1..((e - 1) - a) : u[k] = s[a + k]
    BY <1>7, <2>1, PartByPosition
  <2>3. Len(v) = (f - 1) - a /\ \A k \in 1..((f - 1) - a) : v[k] = p[a + k]
    BY <1>7, <2>1, PartByPosition
  <2> QED
    BY <2>2, <2>3
<1> HIDE DEF u, v
<1>9. e = f
  BY <1>1, <1>6, <1>7, <1>8
<1>10. ASSUME NEW j \in (a + 1)..(e - 1)
       PROVE  p[j] = s[j]
  <2> DEFINE k == j - a
  <2>1. k \in 1..((e - 1) - a) /\ j = a + k
    BY <1>1, <1>7
  <2> HIDE DEF k
  <2> QED
    BY <1>6, <1>8, <1>9, <2>1
<1> QED
  BY <1>2, <1>9, <1>10 DEF e, f

-----------------------------------------------------------------------------
\* What the code compares, position by position.
Covers(p, s) ==
    /\ Follows(p, s, Len(s))
    /\ \/ s[Len(s)] = SLASH
       \/ Len(p) = Len(s)
       \/ Len(s) < Len(p) /\ p[Len(s) + 1] = SLASH

(* The three ways to be in scope are one comparison.                       *)
LEMMA ScopeByPosition ==
    ASSUME NEW x \in Seq(Nat), NEW y \in Seq(Nat)
    PROVE  PathInScope(x, y) <=> Covers(OrRoot(x), OrRoot(y))
<1> DEFINE p == OrRoot(x)
           s == OrRoot(y)
           r == s \o ROOT
           n == Len(s)
<1>1. p \in Seq(Nat) /\ s \in Seq(Nat) /\ s # <<>>
  BY DEF OrRoot, ROOT, SLASH
<1>2. PathInScope(x, y) <=> \/ p = s
                            \/ Last(s) = SLASH /\ IsPrefix(s, p)
                            \/ Last(s) # SLASH /\ IsPrefix(r, p)
  BY DEF PathInScope
<1> HIDE DEF p, s
<1>3. n \in Nat /\ n > 0 /\ Last(s) = s[n]
  BY <1>1 DEF Last
<1>4. r \in Seq(Nat) /\ Len(r) = n + 1 /\ r[n + 1] = SLASH /\ \A i \in 1..n : r[i] = s[i]
  BY <1>1 DEF ROOT, SLASH
<1> HIDE DEF r
<1>5. IsPrefix(s, p) <=> Follows(p, s, n)
  BY <1>1, PrefixByPosition
<1>6. IsPrefix(r, p) <=> Follows(p, r, n + 1)
  BY <1>1, <1>4, PrefixByPosition
<1>7. p = s <=> Follows(p, s, n) /\ Len(p) = n
  <2>1. p = s => Follows(p, s, n) /\ Len(p) = n
    BY <1>1 DEF Follows
  <2>2. ASSUME Follows(p, s, n), Len(p) = n
        PROVE  p = s
    <3>1. \A i \in 1..Len(p) : p[i] = s[i]
      BY <2>2 DEF Follows
    <3> QED
      BY <1>1, <2>2, <3>1, SameText
  <2> QED
    BY <2>1, <2>2
<1> HIDE DEF n
<1>8. Follows(p, r, n + 1) <=> Follows(p, s, n) /\ n < Len(p) /\ p[n + 1] = SLASH
  <2>1. Follows(p, r, n + 1) => n < Len(p) /\ p[n + 1] = SLASH
    <3>1. n + 1 \in 1..(n + 1)
      BY <1>3
    <3> QED
      BY <1>1, <1>3, <1>4, <3>1 DEF Follows
  <2>2. Follows(p, r, n + 1) => Follows(p, s, n)
    BY <1>3, <1>4 DEF Follows
  <2>3. ASSUME Follows(p, s, n), n < Len(p), p[n + 1] = SLASH, NEW i \in 1..(n + 1)
        PROVE  i <= Len(p) /\ p[i] = r[i]
    <3>1. CASE i = n + 1
      BY <1>1, <1>3, <1>4, <2>3, <3>1
    <3>2. CASE i # n + 1
      <4>1. i \in 1..n
        BY <1>3, <3>2
      <4> QED
        BY <1>4, <2>3, <4>1 DEF Follows
    <3> QED
      BY <3>1, <3>2
  <2> QED
    BY <2>1, <2>2, <2>3 DEF Follows
<1>9. Covers(p, s) <=> /\ Follows(p, s, n)
                       /\ s[n] = SLASH \/ Len(p) = n \/ (n < Len(p) /\ p[n + 1] = SLASH)
  BY DEF Covers, n
<1> QED
  BY <1>2, <1>3, <1>5, <1>6, <1>7, <1>8, <1>9 DEF p, s

(* Every segment is complete but the empty one after a trailing slash.     *)
LEMMA CompleteByStart ==
    ASSUME NEW s \in Seq(Nat), s # <<>>, NEW i \in StartsOf(s)
    PROVE  SegmentAt(s, i) \in Complete(s) <=> ~(s[Len(s)] = SLASH /\ i = Len(s))
<1> DEFINE seg == SegmentAt(s, i)
           n == Len(s)
           count == Cardinality(StartsOf(s))
<1>1. seg \in Segments(s) /\ seg[1] = RankOf(s, i) /\ Cardinality(Segments(s)) = count
  BY SegmentsByStart, SegmentsCount DEF SegmentAt
<1>2. n \in Nat /\ n > 0 /\ Last(s) = s[n] /\ i \in 0..n /\ count \in Nat
  BY StartsAreFinite DEF Last
<1>3. seg \in Complete(s) <=> (s[n] = SLASH => RankOf(s, i) < count - 1)
  <2> HIDE DEF seg, n, count
  <2> QED
    BY <1>1, <1>2 DEF Complete
<1>4. CASE s[n] = SLASH
  <2>1. n \in StartsOf(s) /\ \A j \in StartsOf(s) : j <= n
    BY <1>2, <1>4, StartsAreFinite DEF StartsOf
  <2>2. RankOf(s, n) = count - 1
    BY <2>1, RanksCount
  <2>3. i # n => RankOf(s, i) < RankOf(s, n)
    BY <1>2, <2>1, RanksCount
  <2> QED
    BY <1>2, <1>3, <1>4, <2>2, <2>3
<1> QED
  BY <1>3, <1>4

(* What covers a path has its complete segments in the path.               *)
LEMMA CoveringHasSegments ==
    ASSUME NEW s \in Seq(Nat), NEW p \in Seq(Nat), s # <<>>, Covers(p, s)
    PROVE  /\ Complete(s) \subseteq Segments(p)
           /\ Cardinality(Segments(s)) <= Cardinality(Segments(p))
<1> DEFINE n == Len(s)
<1>1. n \in Nat /\ n > 0 /\ Follows(p, s, n) /\ n \in 0..n
  BY DEF Covers
<1>2. s[n] = SLASH \/ Len(p) = n \/ (n < Len(p) /\ p[n + 1] = SLASH)
  BY DEF Covers
<1>3. /\ n <= Len(p)
      /\ \A i \in 0..n : i \in StartsOf(s) <=> i \in StartsOf(p)
      /\ \A i \in 0..n : RankOf(s, i) = RankOf(p, i)
  BY <1>1, SameStarts
<1>4. \A i \in 1..n : p[i] = s[i]
  BY <1>1 DEF Follows
<1>5. StartsOf(s) \subseteq 0..n
  BY StartsAreFinite
<1>6. ASSUME NEW i \in StartsOf(s), ~(s[n] = SLASH /\ i = n)
      PROVE  SegmentAt(s, i) \in Segments(p)
  <2> DEFINE e == EndOf(s, i)
  <2>1. i \in 0..n /\ i \in StartsOf(p) /\ RankOf(s, i) = RankOf(p, i) /\ i \in 0..Len(p)
    BY <1>3, <1>5
  <2>2. /\ e \in (i + 1)..(n + 1)
        /\ e <= n => s[e] = SLASH
        /\ \A j \in (i + 1)..(e - 1) : s[j] # SLASH
    BY <2>1, EndIsNext
  <2> HIDE DEF e
  <2>3. e <= Len(p) => p[e] = SLASH
    <3>1. CASE e <= n
      BY <1>4, <2>1, <2>2, <3>1
    <3>2. CASE e = n + 1
      <4>1. s[n] # SLASH
        <5> SUFFICES ASSUME s[n] = SLASH
                     PROVE  FALSE
          OBVIOUS
        <5>1. i < n
          BY <1>6, <2>1
        <5>2. n \in (i + 1)..(e - 1)
          BY <1>1, <2>1, <3>2, <5>1
        <5> QED
          BY <2>2, <5>2
      <4> QED
        BY <1>1, <1>2, <3>2, <4>1
    <3> QED
      BY <2>1, <2>2, <3>1, <3>2
  <2>4. \A j \in (i + 1)..(e - 1) : p[j] = s[j]
    BY <1>1, <1>4, <2>1, <2>2
  <2>5. e \in (i + 1)..(Len(p) + 1) /\ e <= Len(s) + 1
    BY <1>1, <1>3, <2>1, <2>2
  <2>6. EndOf(p, i) = e
    BY <2>1, <2>2, <2>3, <2>4, <2>5, EndIsOnly
  <2> DEFINE u == SubSeq(s, i + 1, e - 1)
             v == SubSeq(p, i + 1, e - 1)
  <2>7. /\ Len(u) = (e - 1) - i /\ \A k \in 1..((e - 1) - i) : u[k] = s[i + k]
        /\ Len(v) = (e - 1) - i /\ \A k \in 1..((e - 1) - i) : v[k] = p[i + k]
    <3>1. i \in Nat
      BY <2>1
    <3>2. Len(u) = (e - 1) - i /\ \A k \in 1..((e - 1) - i) : u[k] = s[i + k]
      BY <2>2, <3>1, PartByPosition
    <3>3. Len(v) = (e - 1) - i /\ \A k \in 1..((e - 1) - i) : v[k] = p[i + k]
      BY <2>5, <3>1, PartByPosition
    <3> QED
      BY <3>2, <3>3
  <2>8. u \in Seq(Nat) /\ v \in Seq(Nat)
    BY <2>1, <2>2, <2>5
  <2> HIDE DEF u, v
  <2>9. \A k \in 1..((e - 1) - i) : u[k] = v[k]
    BY <2>1, <2>2, <2>4, <2>7
  <2>10. u = v
    BY <2>7, <2>8, <2>9, SameText
  <2>11. SegmentAt(s, i) = SegmentAt(p, i)
    BY <2>1, <2>6, <2>10 DEF SegmentAt, e, u, v
  <2> QED
    BY <2>1, <2>11, SegmentsByStart
<1>7. ASSUME NEW seg \in Complete(s)
      PROVE  seg \in Segments(p)
  <2>1. PICK i \in StartsOf(s) : seg = SegmentAt(s, i)
    BY SegmentsByStart DEF Complete
  <2>2. ~(s[n] = SLASH /\ i = n)
    BY <1>7, <2>1, CompleteByStart
  <2> QED
    BY <1>6, <2>1, <2>2
<1>8. Cardinality(StartsOf(s)) <= Cardinality(StartsOf(p))
  <2>1. StartsOf(s) \in SUBSET StartsOf(p) /\ IsFiniteSet(StartsOf(p))
    BY <1>3, <1>5, StartsAreFinite
  <2> QED
    BY <2>1, FS_Subset
<1> QED
  BY <1>7, <1>8, SegmentsCount

(* ... and only that: the first place where they part would be in a        *)
(* segment the path lacks, or behind its last one.                         *)
LEMMA SegmentsCover ==
    ASSUME NEW s \in Seq(Nat), NEW p \in Seq(Nat), s # <<>>,
           Complete(s) \subseteq Segments(p),
           Cardinality(Segments(s)) <= Cardinality(Segments(p))
    PROVE  Covers(p, s)
<1> DEFINE n == Len(s)
           Bad == {i \in 1..n : ~(i <= Len(p) /\ p[i] = s[i])}
<1>1. n \in Nat /\ n > 0 /\ n \in 0..n
  OBVIOUS
<1>2. Cardinality(StartsOf(s)) <= Cardinality(StartsOf(p))
  BY SegmentsCount
<1>3. ASSUME NEW m \in 0..n, Follows(p, s, m), NEW a \in StartsOf(s), a <= m,
             ~(s[n] = SLASH /\ a = n)
      PROVE  /\ a \in StartsOf(p)
             /\ EndOf(p, a) = EndOf(s, a)
             /\ \A j \in (a + 1)..(EndOf(s, a) - 1) : p[j] = s[j]
  <2>1. SegmentAt(s, a) \in Segments(p)
    BY <1>3, CompleteByStart
  <2> QED
    BY <1>3, <2>1, SegmentInPlace
<1>4. ASSUME Bad # {}
      PROVE  FALSE
  <2>1. PICK i \in Bad : \A y \in Bad : i <= y
    <3>1. Bad \subseteq Nat
      OBVIOUS
    <3> HIDE DEF Bad
    <3> QED
      BY <1>4, <3>1, LeastOf
  <2>2. i \in 1..n /\ ~(i <= Len(p) /\ p[i] = s[i])
    OBVIOUS
  <2>3. Follows(p, s, i - 1)
    <3> SUFFICES ASSUME NEW j \in 1..(i - 1)
                 PROVE  j <= Len(p) /\ p[j] = s[j]
      BY DEF Follows
    <3>1. j \in 1..n /\ j < i
      BY <2>2
    <3>2. j \notin Bad
      BY <2>1, <2>2, <3>1
    <3> QED
      BY <3>1, <3>2
  <2> HIDE DEF Bad
  <2>4. i - 1 \in 0..n /\ i - 1 \in 0..Len(s) /\ i - 1 < n
    BY <2>2
  <2>5. PICK a \in StartsOf(s) : a <= i - 1 /\ EndOf(s, a) > i - 1
    BY <2>4, LastStart
  <2>6. a \in 0..n /\ a # n
    BY <2>2, <2>5, StartsAreFinite
  <2> DEFINE e == EndOf(s, a)
  <2>7. /\ a \in StartsOf(p)
        /\ EndOf(p, a) = e
        /\ \A j \in (a + 1)..(e - 1) : p[j] = s[j]
    BY <1>3, <2>3, <2>4, <2>5, <2>6
  <2>8. /\ e \in (a + 1)..(n + 1) /\ e \in (a + 1)..(Len(p) + 1)
        /\ e <= n => s[e] = SLASH
        /\ e <= Len(p) => p[e] = SLASH
    <3>1. a \in 0..Len(p)
      BY <2>7, StartsAreFinite
    <3> QED
      BY <2>6, <2>7, <3>1, EndIsNext
  <2>9. e > i - 1
    BY <2>5
  <2> HIDE DEF e
  <2>10. e = i
    <3> SUFFICES ASSUME e > i
                 PROVE  FALSE
      BY <2>2, <2>8, <2>9
    <3>1. i \in (a + 1)..(e - 1) /\ i <= Len(p)
      BY <2>2, <2>5, <2>6, <2>8
    <3> QED
      BY <2>2, <2>7, <3>1
  <2>11. s[i] = SLASH /\ i = Len(p) + 1
    BY <2>2, <2>8, <2>10
  <2>12. StartsOf(p) \subseteq StartsOf(s) \ {i}
    <3>1. ASSUME NEW j \in StartsOf(p)
          PROVE  j \in StartsOf(s) /\ j # i
      <4>1. j \in 0..(i - 1)
        BY <2>2, <2>11, StartsAreFinite
      <4>2. j \in StartsOf(s) <=> j \in StartsOf(p)
        BY <2>3, <2>4, <4>1, SameStarts
      <4> QED
        BY <2>2, <4>1, <4>2
    <3> QED
      BY <3>1
  <2>13. i \in StartsOf(s)
    BY <2>2, <2>11 DEF StartsOf
  <2>14. /\ IsFiniteSet(StartsOf(s) \ {i})
         /\ Cardinality(StartsOf(s) \ {i}) = Cardinality(StartsOf(s)) - 1
    BY <2>13, StartsAreFinite, FS_RemoveElement
  <2>15. Cardinality(StartsOf(p)) <= Cardinality(StartsOf(s)) - 1
    <3>1. StartsOf(p) \in SUBSET (StartsOf(s) \ {i})
      BY <2>12
    <3> QED
      BY <2>14, <3>1, FS_Subset
  <2> QED
    BY <1>2, <2>15, StartsAreFinite
<1>5. Follows(p, s, n)
  BY <1>4 DEF Follows
<1> HIDE DEF Bad
<1>6. ASSUME s[n] # SLASH
      PROVE  Len(p) = n \/ (n < Len(p) /\ p[n + 1] = SLASH)
  <2>1. PICK a \in StartsOf(s) : a <= n /\ EndOf(s, a) > n
    BY <1>1, LastStart
  <2>2. a \in StartsOf(p) /\ EndOf(p, a) = EndOf(s, a)
    BY <1>1, <1>3, <1>5, <1>6, <2>1
  <2>3. a \in 0..n /\ a \in 0..Len(p)
    BY <2>2, StartsAreFinite
  <2>4. EndOf(s, a) \in (a + 1)..(n + 1)
    BY <2>3, EndIsNext
  <2>5. EndOf(s, a) = n + 1
    BY <1>1, <2>1, <2>3, <2>4
  <2>6. /\ n + 1 \in (a + 1)..(Len(p) + 1)
        /\ n + 1 <= Len(p) => p[n + 1] = SLASH
    BY <2>2, <2>3, <2>5, EndIsNext
  <2> QED
    BY <1>1, <2>3, <2>6
<1> QED
  BY <1>5, <1>6 DEF Covers

(***************************************************************************)
(* verifier.rs:289-312, for paths of any length: a prefix covers a path    *)
(* exactly when the path has every complete segment of the prefix in its   *)
(* place and is no shorter.                                                *)
(***************************************************************************)
THEOREM PathScopeIsSegmentwiseHolds ==
    ASSUME path \in Seq(Nat), prefix \in Seq(Nat)
    PROVE  PathScopeIsSegmentwise
<1> DEFINE p == OrRoot(path)
           s == OrRoot(prefix)
<1>1. p \in Seq(Nat) /\ s \in Seq(Nat) /\ s # <<>>
  BY DEF OrRoot, ROOT, SLASH
<1>2. PathInScope(path, prefix) <=> Covers(p, s)
  BY ScopeByPosition
<1>3. PathScopeIsSegmentwise <=>
          (PathInScope(path, prefix) <=>
              /\ Complete(s) \subseteq Segments(p)
              /\ Cardinality(Segments(s)) <= Cardinality(Segments(p)))
  BY DEF PathScopeIsSegmentwise
<1> HIDE DEF p, s
<1> QED
  BY <1>1, <1>2, <1>3, CoveringHasSegments, SegmentsCover

-----------------------------------------------------------------------------
(* A bounded set of naturals has a greatest element, and `Max` is it.      *)
LEMMA GreatestOf ==
    ASSUME NEW S, S \subseteq Nat, S # {}, NEW n \in Nat, \A y \in S : y <= n
    PROVE  Max(S) \in S /\ \A y \in S : y <= Max(S)
<1>1. PICK x \in S : \A y \in S : x >= y
  BY GreatestBelow
<1>2. Max(S) \in S /\ \A y \in S : Max(S) >= y
  BY <1>1 DEF Max
<1> QED
  BY <1>2

Lacks(t, c) == \A i \in 1..Len(t) : t[i] # c

(* Reading up to a delimiter that comes next.                              *)
LEMMA CutBefore ==
    ASSUME NEW A, NEW x \in Seq(A), NEW y \in Seq(A), NEW c,
           Lacks(x, c), y = <<>> \/ y[1] = c
    PROVE  BeforeFirst(x \o y, c) = x
<1> DEFINE t == x \o y
           S == {i \in 1..Len(t) : t[i] = c} \cup {Len(t) + 1}
           n == Len(x)
<1>1. /\ t \in Seq(A) /\ n \in Nat /\ Len(t) = n + Len(y) /\ Len(y) \in Nat
      /\ \A i \in 1..n : t[i] = x[i]
      /\ y # <<>> => Len(y) > 0 /\ t[n + 1] = y[1]
      /\ y = <<>> => Len(y) = 0
  OBVIOUS
<1>2. BeforeFirst(t, c) = SubSeq(t, 1, Min(S) - 1)
  BY DEF BeforeFirst
<1>3. \A i : i \in S <=> (i \in 1..Len(t) /\ t[i] = c) \/ i = Len(t) + 1
  OBVIOUS
<1>4. \A i \in 1..n : x[i] # c
  BY DEF Lacks
<1> HIDE DEF t, n, S
<1>5. S \subseteq Nat /\ n + 1 \in S
  BY <1>1, <1>3
<1>6. ASSUME NEW i \in S
      PROVE  i >= n + 1
  BY <1>1, <1>3, <1>4
<1>7. Min(S) = n + 1
  <2>1. Min(S) \in S /\ \A i \in S : Min(S) <= i
    BY <1>5, LeastOf
  <2>2. Min(S) \in Nat /\ Min(S) >= n + 1 /\ Min(S) <= n + 1
    BY <1>5, <1>6, <2>1
  <2> QED
    BY <1>1, <2>2
<1> DEFINE u == SubSeq(t, 1, n)
<1>8. u \in Seq(A) /\ Len(u) = n /\ \A i \in 1..n : u[i] = t[i]
  BY <1>1
<1> HIDE DEF u
<1>9. \A i \in 1..n : u[i] = x[i]
  BY <1>1, <1>8
<1>10. u = x
  BY <1>8, <1>9 DEF n
<1>11. BeforeFirst(t, c) = u
  <2>1. Min(S) - 1 = n
    BY <1>1, <1>7
  <2> QED
    BY <1>2, <2>1 DEF u
<1> QED
  BY <1>10, <1>11 DEF t

(* Reading on from the last delimiter.                                     *)
LEMMA ReadAfter ==
    ASSUME NEW A, NEW x \in Seq(A), NEW y \in Seq(A), NEW c,
           Lacks(y, c), x = <<>> \/ x[Len(x)] = c
    PROVE  AfterLast(x \o y, c) = y
<1> DEFINE t == x \o y
           S == {i \in 1..Len(t) : t[i] = c} \cup {0}
           n == Len(x)
           m == Len(y)
<1>1. /\ t \in Seq(A) /\ n \in Nat /\ m \in Nat /\ Len(t) = n + m
      /\ \A i \in 1..n : t[i] = x[i]
      /\ \A i \in 1..m : t[n + i] = y[i]
      /\ x # <<>> => n > 0
      /\ x = <<>> => n = 0
  OBVIOUS
<1>2. AfterLast(t, c) = SubSeq(t, Max(S) + 1, Len(t))
  BY DEF AfterLast
<1>3. \A i : i \in S <=> (i \in 1..Len(t) /\ t[i] = c) \/ i = 0
  OBVIOUS
<1>4. (\A i \in 1..m : y[i] # c) /\ (x = <<>> \/ x[n] = c)
  BY DEF Lacks
<1> HIDE DEF t, n, m, S
<1>5. S \subseteq Nat /\ n \in S /\ Len(t) \in Nat /\ \A i \in S : i <= Len(t)
  <2>1. n \in S
    <3>1. CASE n = 0
      BY <1>3, <3>1
    <3>2. CASE n # 0
      <4>1. n \in 1..n /\ n \in 1..Len(t) /\ t[n] = x[n] /\ x # <<>>
        BY <1>1, <3>2
      <4> QED
        BY <1>3, <1>4, <4>1
    <3> QED
      BY <3>1, <3>2
  <2>2. Len(t) \in Nat
    BY <1>1
  <2> QED
    BY <1>3, <2>1, <2>2
<1>6. ASSUME NEW i \in S
      PROVE  i <= n
  <2> SUFFICES ASSUME i > n
               PROVE  FALSE
    BY <1>1, <1>5
  <2> DEFINE j == i - n
  <2>1. j \in 1..m /\ i = n + j
    BY <1>1, <1>5
  <2>2. t[i] = c
    BY <1>1, <1>3
  <2> HIDE DEF j
  <2> QED
    BY <1>1, <1>4, <2>1, <2>2
<1>7. Max(S) = n
  <2>1. Max(S) \in S /\ \A i \in S : i <= Max(S)
    BY <1>5, GreatestOf
  <2>2. Max(S) \in Nat /\ Max(S) >= n /\ Max(S) <= n
    BY <1>1, <1>5, <1>6, <2>1
  <2> QED
    BY <1>1, <2>2
<1> DEFINE u == SubSeq(t, n + 1, n + m)
<1>8. u \in Seq(A) /\ Len(u) = m /\ \A i \in 1..m : u[i] = t[n + i]
  <2>1. u \in Seq(A) /\ Len(u) = m
    BY <1>1
  <2>2. ASSUME NEW i \in 1..m
        PROVE  u[i] = t[n + i]
    BY <1>1, <2>1
  <2> QED
    BY <2>1, <2>2
<1> HIDE DEF u
<1>9. \A i \in 1..m : u[i] = y[i]
  BY <1>1, <1>8
<1>10. u = y
  BY <1>8, <1>9 DEF m
<1> QED
  BY <1>1, <1>2, <1>7, <1>10 DEF t, u

-----------------------------------------------------------------------------
\* The parts of a URL, of any length: a userinfo up to its @, a host that is a
\* name, an address in its brackets or one that lacks them, a port after its
\* colon, a path from its slash on.  W is the alphabet: the delimiters and any words.
Delimiters == {"/", "@", "[", "]", ":"}

Without(W, symbols) == {t \in Seq(W) : \A i \in 1..Len(t) : t[i] \notin symbols}

HostNames(W) == Without(W, Delimiters)
HostAddresses(W) == {t \in Without(W, {"/", "@", "]"}) : \E i \in 1..Len(t) : t[i] = ":"}
BareAddresses(W) == {t \in Without(W, {"/", "@"}) : t # <<>> /\ t[1] = ":"}

SpelledSetups(W) ==
    [scheme : W,
     userinfo : {t \in Without(W, {"/"}) : t = <<>> \/ t[Len(t)] = "@"},
     host : HostNames(W) \cup {Bracketed(a) : a \in HostAddresses(W)} \cup BareAddresses(W),
     port : {t \in Without(W, {"/", "@"}) : t = <<>> \/ t[1] = ":"},
     path : {t \in Seq(W) : t = <<>> \/ t[1] = "/"},
     strip_token_header : BOOLEAN]

(* Two texts joined.                                                       *)
LEMMA Joined ==
    ASSUME NEW W, NEW x \in Seq(W), NEW y \in Seq(W)
    PROVE  /\ x \o y \in Seq(W)
           /\ Len(x \o y) = Len(x) + Len(y)
           /\ \A i \in 1..Len(x) : (x \o y)[i] = x[i]
           /\ \A i \in 1..Len(y) : (x \o y)[Len(x) + i] = y[i]
           /\ \A c : Lacks(x, c) /\ Lacks(y, c) => Lacks(x \o y, c)
<1> DEFINE t == x \o y
<1>1. /\ t \in Seq(W) /\ Len(t) = Len(x) + Len(y) /\ Len(x) \in Nat /\ Len(y) \in Nat
      /\ \A i \in 1..Len(x) : t[i] = x[i]
      /\ \A i \in 1..Len(y) : t[Len(x) + i] = y[i]
  OBVIOUS
<1> HIDE DEF t
<1>2. ASSUME NEW c, Lacks(x, c), Lacks(y, c), NEW i \in 1..Len(t)
      PROVE  t[i] # c
  <2>1. CASE i <= Len(x)
    BY <1>1, <1>2, <2>1 DEF Lacks
  <2>2. CASE i > Len(x)
    <3> DEFINE j == i - Len(x)
    <3>1. j \in 1..Len(y) /\ i = Len(x) + j
      BY <1>1, <2>2
    <3> HIDE DEF j
    <3> QED
      BY <1>1, <1>2, <3>1 DEF Lacks
  <2> QED
    BY <1>1, <2>1, <2>2
<1>3. \A c : Lacks(x, c) /\ Lacks(y, c) => Lacks(t, c)
  BY <1>2 DEF Lacks
<1> QED
  BY <1>1, <1>3 DEF t

(* What is left behind the first symbol.                                   *)
LEMMA HeadIsOne ==
    ASSUME NEW W, NEW c \in W, NEW r \in Seq(W)
    PROVE  Head(<<c>> \o r) = c /\ Tail(<<c>> \o r) = r
<1> DEFINE t == <<c>> \o r
           u == Tail(t)
<1>1. /\ t \in Seq(W) /\ Len(t) = Len(r) + 1 /\ t[1] = c /\ Len(r) \in Nat
      /\ \A i \in 1..Len(r) : t[i + 1] = r[i]
  OBVIOUS
<1> HIDE DEF t
<1>2. Head(t) = c
  BY <1>1
<1>3. u \in Seq(W) /\ Len(u) = Len(r) /\ \A i \in 1..Len(r) : u[i] = t[i + 1]
  BY <1>1
<1> HIDE DEF u
<1>4. \A i \in 1..Len(r) : u[i] = r[i]
  BY <1>1, <1>3
<1>5. u = r
  BY <1>3, <1>4
<1> QED
  BY <1>2, <1>5 DEF t, u

(* The part that is the first symbol.                                      *)
LEMMA FirstOf ==
    ASSUME NEW W, NEW t \in Seq(W), Len(t) >= 1
    PROVE  SubSeq(t, 1, 1) = <<t[1]>>
<1> DEFINE u == SubSeq(t, 1, 1)
<1>1. u \in Seq(W) /\ Len(u) = 1
  OBVIOUS
<1>2. u[1] = t[1]
  OBVIOUS
<1> HIDE DEF u
<1>3. <<t[1]>> \in Seq(W) /\ Len(<<t[1]>>) = 1 /\ <<t[1]>>[1] = t[1]
  OBVIOUS
<1>4. u = <<t[1]>>
  BY <1>1, <1>2, <1>3, SameText
<1> QED
  BY <1>4 DEF u

(* What stands in brackets.                                                *)
LEMMA InBrackets ==
    ASSUME NEW W, Delimiters \subseteq W, NEW a \in Seq(W)
    PROVE  /\ Bracketed(a) \in Seq(W)
           /\ Len(Bracketed(a)) = Len(a) + 2
           /\ Bracketed(a)[1] = "["
           /\ \A i \in 1..Len(a) : Bracketed(a)[i + 1] = a[i]
           /\ Bracketed(a)[Len(a) + 2] = "]"
           /\ Tail(Bracketed(a)) = a \o <<"]">>
<1> DEFINE b == a \o <<"]">>
           h == <<"[">> \o b
<1>0. "[" \in W /\ "]" \in W
  BY DEF Delimiters
<1>1. /\ b \in Seq(W) /\ Len(b) = Len(a) + 1 /\ Len(a) \in Nat
      /\ \A i \in 1..Len(a) : b[i] = a[i]
      /\ b[Len(a) + 1] = "]"
  BY <1>0
<1>2. Bracketed(a) = h
  <2>1. <<"[">> \in Seq(W) /\ <<"]">> \in Seq(W)
    BY <1>0
  <2> QED
    BY <2>1, ConcatAssociative DEF Bracketed
<1> HIDE DEF b
<1>3. /\ h \in Seq(W) /\ Len(h) = Len(b) + 1 /\ h[1] = "["
      /\ \A i \in 1..Len(b) : h[i + 1] = b[i]
  BY <1>0, <1>1
<1>4. Tail(h) = b
  <2> DEFINE u == Tail(h)
  <2>1. u \in Seq(W) /\ Len(u) = Len(b) /\ \A i \in 1..Len(b) : u[i] = h[i + 1]
    <3> HIDE DEF h
    <3> QED
      BY <1>1, <1>3
  <2> HIDE DEF u, h
  <2>2. \A i \in 1..Len(b) : u[i] = b[i]
    BY <1>3, <2>1
  <2>3. u = b
    BY <1>1, <2>1, <2>2
  <2> QED
    BY <2>3 DEF u
<1> HIDE DEF h
<1>5. Len(h) = Len(a) + 2 /\ h[Len(a) + 2] = "]" /\ \A i \in 1..Len(a) : h[i + 1] = a[i]
  <2>1. Len(h) = Len(a) + 2
    BY <1>1, <1>3
  <2>2. Len(a) + 1 \in 1..Len(b) /\ (Len(a) + 1) + 1 = Len(a) + 2
    BY <1>1
  <2>3. h[Len(a) + 2] = "]"
    BY <1>1, <1>3, <2>2
  <2>4. \A i \in 1..Len(a) : i \in 1..Len(b)
    BY <1>1
  <2> QED
    BY <1>1, <1>3, <2>1, <2>3, <2>4
<1> QED
  BY <1>2, <1>3, <1>4, <1>5 DEF b

\* Joining is associative.
Regroups(x, y, z) == (x \o y) \o z = x \o (y \o z)

LEMMA JoiningRegroups ==
    ASSUME NEW W
    PROVE  \A x, y, z \in Seq(W) : Regroups(x, y, z)
  BY ConcatAssociative DEF Regroups

\* The scheme comes first, the path last, the host next to its port.
Parted(a, u, h, p, q) == a \o u \o h \o p \o q = a \o ((u \o (h \o p)) \o q)

LEMMA UrlInParts ==
    ASSUME NEW W, NEW a \in Seq(W), NEW u \in Seq(W), NEW h \in Seq(W), NEW p \in Seq(W),
           NEW q \in Seq(W)
    PROVE  Parted(a, u, h, p, q)
<1> DEFINE au == a \o u
           hp == h \o p
           uhp == u \o hp
<1>1. au \in Seq(W) /\ hp \in Seq(W)
  BY Joined
<1> HIDE DEF au, hp
<1>2. uhp \in Seq(W)
  BY <1>1, Joined
<1> HIDE DEF uhp
<1>3. Regroups(au, h, p) /\ Regroups(a, u, hp) /\ Regroups(a, uhp, q)
  BY <1>1, <1>2, JoiningRegroups, Zenon
<1>4. (au \o h) \o p = au \o hp
  BY <1>3, Zenon DEF Regroups, hp
<1>5. au \o hp = a \o uhp
  BY <1>3, Zenon DEF Regroups, au, uhp
<1>6. (a \o uhp) \o q = a \o (uhp \o q)
  BY <1>3, Zenon DEF Regroups
<1> QED
  BY <1>4, <1>5, <1>6, Zenon DEF Parted, au, uhp, hp

\* What is read of a host: an address without its brackets, and nothing of one
\* that lacks them.
ReadHost(W, host, read) ==
    \/ host \in HostNames(W) /\ read = host
    \/ \E a \in HostAddresses(W) : host = Bracketed(a) /\ read = a
    \/ host \in BareAddresses(W) /\ read = <<>>

(* The host is read off whatever surrounds it.                             *)
LEMMA HostIsRead ==
    ASSUME NEW W, Delimiters \subseteq W, NEW s \in SpelledSetups(W)
    PROVE  ReadHost(W, s.host, UrlHost((s.userinfo \o (s.host \o s.port)) \o s.path))
<1> DEFINE u == s.userinfo
           h == s.host
           p == s.port
           q == s.path
           read == UrlHost((u \o (h \o p)) \o q)
<1>1. /\ u \in Seq(W) /\ Lacks(u, "/") /\ (u = <<>> \/ u[Len(u)] = "@")
      /\ h \in HostNames(W) \cup {Bracketed(a) : a \in HostAddresses(W)} \cup BareAddresses(W)
      /\ p \in Seq(W) /\ Lacks(p, "/") /\ Lacks(p, "@") /\ (p = <<>> \/ p[1] = ":")
      /\ q \in Seq(W) /\ (q = <<>> \/ q[1] = "/")
  BY DEF SpelledSetups, Without, Lacks
<1> HIDE DEF u, h, p, q
<1>2. h \in Seq(W) /\ Lacks(h, "/") /\ Lacks(h, "@")
  <2>1. CASE h \in HostNames(W)
    BY <2>1 DEF HostNames, Without, Delimiters, Lacks
  <2>2. CASE h \in BareAddresses(W)
    BY <2>2 DEF BareAddresses, Without, Lacks
  <2>3. ASSUME NEW a \in HostAddresses(W), h = Bracketed(a)
        PROVE  h \in Seq(W) /\ Lacks(h, "/") /\ Lacks(h, "@")
    <3>1. a \in Seq(W) /\ Lacks(a, "/") /\ Lacks(a, "@")
      BY DEF HostAddresses, Without, Lacks
    <3>2. "[" \in W /\ "]" \in W
      BY DEF Delimiters
    <3>3. <<"[">> \in Seq(W) /\ Lacks(<<"[">>, "/") /\ Lacks(<<"[">>, "@")
      BY <3>2 DEF Lacks
    <3>4. <<"]">> \in Seq(W) /\ Lacks(<<"]">>, "/") /\ Lacks(<<"]">>, "@")
      BY <3>2 DEF Lacks
    <3>5. <<"[">> \o a \in Seq(W) /\ Lacks(<<"[">> \o a, "/") /\ Lacks(<<"[">> \o a, "@")
      BY <3>1, <3>3, Joined
    <3>6. h = (<<"[">> \o a) \o <<"]">>
      BY <2>3 DEF Bracketed
    <3> QED
      BY <3>4, <3>5, <3>6, Joined
  <2> QED
    BY <1>1, <2>1, <2>2, <2>3
<1>3. h \o p \in Seq(W) /\ Lacks(h \o p, "/") /\ Lacks(h \o p, "@")
  BY <1>1, <1>2, Joined
<1>4. u \o (h \o p) \in Seq(W) /\ Lacks(u \o (h \o p), "/")
  BY <1>1, <1>3, Joined
<1>5. BeforeFirst((u \o (h \o p)) \o q, "/") = u \o (h \o p)
  BY <1>1, <1>4, CutBefore
<1>6. AfterLast(u \o (h \o p), "@") = h \o p
  BY <1>1, <1>3, ReadAfter
<1>7. read = HostOf(h \o p)
  BY <1>5, <1>6 DEF UrlHost
<1> HIDE DEF read
<1> DEFINE t == h \o p
<1>8. /\ t \in Seq(W) /\ Len(t) = Len(h) + Len(p) /\ Len(h) \in Nat /\ Len(p) \in Nat
      /\ \A i \in 1..Len(h) : t[i] = h[i]
      /\ \A i \in 1..Len(p) : t[Len(h) + i] = p[i]
      /\ t # <<>> => Head(t) = t[1]
  <2>1. /\ t \in Seq(W) /\ Len(t) = Len(h) + Len(p) /\ Len(h) \in Nat /\ Len(p) \in Nat
        /\ \A i \in 1..Len(h) : t[i] = h[i]
        /\ \A i \in 1..Len(p) : t[Len(h) + i] = p[i]
    BY <1>1, <1>2
  <2> HIDE DEF t
  <2>2. t # <<>> => Head(t) = t[1]
    BY <2>1
  <2> QED
    BY <2>1, <2>2
<1>9. /\ t # <<>> /\ Head(t) = "[" => read = BeforeFirst(Tail(t), "]")
      /\ ~(t # <<>> /\ Head(t) = "[") => read = BeforeFirst(t, ":")
  BY <1>7 DEF HostOf
<1> HIDE DEF t
<1>10. ASSUME h \in HostNames(W)
       PROVE  ReadHost(W, h, read)
  <2>1. Lacks(h, ":") /\ Lacks(h, "[")
    BY <1>10 DEF HostNames, Without, Delimiters, Lacks
  <2>2. ~(t # <<>> /\ Head(t) = "[")
    <3> SUFFICES ASSUME t # <<>>, t[1] = "["
                 PROVE  FALSE
      BY <1>8
    <3>1. CASE Len(h) > 0
      <4>1. 1 \in 1..Len(h) /\ h[1] = "["
        BY <1>8, <3>1
      <4> QED
        BY <2>1, <4>1 DEF Lacks
    <3>2. CASE Len(h) = 0
      <4>1. Len(p) > 0 /\ Len(t) > 0
        BY <1>8, <3>2
      <4>2. p[1] = t[1] /\ p # <<>>
        BY <1>8, <3>2, <4>1
      <4> QED
        BY <1>1, <4>2
    <3> QED
      BY <1>8, <3>1, <3>2
  <2>3. BeforeFirst(t, ":") = h
    BY <1>1, <1>2, <2>1, CutBefore DEF t
  <2> QED
    BY <1>9, <1>10, <2>2, <2>3 DEF ReadHost
<1>11. ASSUME NEW a \in HostAddresses(W), h = Bracketed(a)
       PROVE  read = a
  <2>1. a \in Seq(W) /\ Lacks(a, "]")
    BY DEF HostAddresses, Without, Lacks
  <2>2. "[" \in W /\ "]" \in W /\ <<"[">> \in Seq(W) /\ <<"]">> \in Seq(W)
    BY DEF Delimiters
  <2>3. Len(h) = Len(a) + 2 /\ h[1] = "["
    BY <1>11, <2>1, InBrackets
  <2>4. t # <<>> /\ Head(t) = "["
    <3>1. Len(h) > 0 /\ Len(t) > 0 /\ t[1] = h[1]
      BY <1>8, <2>1, <2>3
    <3> QED
      BY <1>8, <2>3, <3>1
  <2>5. Tail(t) = a \o (<<"]">> \o p)
    <3> DEFINE r == a \o (<<"]">> \o p)
               f == <<"[">>
    <3>1. a \o <<"]">> \in Seq(W) /\ <<"]">> \o p \in Seq(W) /\ r \in Seq(W)
      BY <1>1, <2>1, <2>2, Joined
    <3>2. t = ((f \o a) \o <<"]">>) \o p
      BY <1>11 DEF t, Bracketed
    <3>3. f \o a \in Seq(W)
      BY <2>1, <2>2, Joined
    <3>4. Regroups(f \o a, <<"]">>, p) /\ Regroups(f, a, <<"]">> \o p)
      BY <1>1, <2>1, <2>2, <3>1, <3>3, JoiningRegroups, Zenon
    <3>5. t = f \o r
      BY <3>2, <3>4, Zenon DEF Regroups
    <3> HIDE DEF r
    <3>6. Tail(t) = r
      BY <2>2, <3>1, <3>5, HeadIsOne
    <3> QED
      BY <3>6 DEF r
  <2>6. BeforeFirst(Tail(t), "]") = a
    <3>1. <<"]">> \o p \in Seq(W) /\ (<<"]">> \o p)[1] = "]"
      BY <1>1, <2>2
    <3> QED
      BY <2>1, <2>5, <3>1, CutBefore
  <2> QED
    BY <1>9, <2>4, <2>6
<1>12. ASSUME h \in BareAddresses(W)
       PROVE  ReadHost(W, h, read)
  <2>1. h # <<>> /\ h[1] = ":"
    BY <1>12 DEF BareAddresses
  <2>2. Len(h) > 0
    BY <1>2, <2>1
  <2>3. t # <<>> /\ t[1] = ":"
    <3>1. 1 \in 1..Len(h) /\ Len(t) > 0
      BY <1>8, <2>2
    <3> QED
      BY <1>8, <2>1, <3>1
  <2>4. BeforeFirst(<<>> \o t, ":") = <<>>
    <3>1. <<>> \in Seq(W) /\ Lacks(<<>>, ":")
      BY DEF Lacks
    <3> QED
      BY <1>8, <2>3, <3>1, CutBefore
  <2>5. <<>> \o t = t
    BY <1>8
  <2> QED
    BY <1>8, <1>9, <1>12, <2>3, <2>4, <2>5 DEF ReadHost
<1>13. ReadHost(W, h, read)
  BY <1>1, <1>10, <1>11, <1>12 DEF ReadHost
<1> QED
  BY <1>13 DEF read, h, u, p, q

(* What is read is loopback exactly when the host is spelled as loopback.  *)
LEMMA LoopbackIsSpelled ==
    ASSUME NEW W, Delimiters \subseteq W, NEW host, NEW read, ReadHost(W, host, read)
    PROVE  IsLoopback(read) <=> host \in LoopbackHosts
<1>1. LOCALHOST = <<"localhost">> /\ LOOPBACKV6 = <<":", ":", "1">>
  BY DEF LOCALHOST, LOOPBACKV6
<1>2. LET b == Bracketed(LOOPBACKV6)
      IN  Len(b) = 5 /\ b[1] = "[" /\ b[2] = ":" /\ b[3] = ":" /\ b[4] = "1"
  <2> DEFINE V == Delimiters \cup {"1"}
             b == Bracketed(LOOPBACKV6)
  <2>1. LOOPBACKV6 \in Seq(V)
    BY <1>1 DEF Delimiters
  <2>2. Delimiters \subseteq V
    OBVIOUS
  <2> HIDE DEF V
  <2>3. /\ Len(b) = Len(LOOPBACKV6) + 2 /\ b[1] = "["
        /\ \A i \in 1..Len(LOOPBACKV6) : b[i + 1] = LOOPBACKV6[i]
    BY <2>1, <2>2, InBrackets
  <2> HIDE DEF b
  <2>4. /\ Len(LOOPBACKV6) = 3 /\ LOOPBACKV6[1] = ":" /\ LOOPBACKV6[2] = ":"
        /\ LOOPBACKV6[3] = "1"
    BY <1>1
  <2>5. Len(b) = 5 /\ b[1 + 1] = ":" /\ b[2 + 1] = ":" /\ b[3 + 1] = "1"
    BY <2>3, <2>4
  <2>6. Len(b) = 5 /\ b[1] = "[" /\ b[2] = ":" /\ b[3] = ":" /\ b[4] = "1"
    <3>1. 1 + 1 = 2 /\ 2 + 1 = 3 /\ 3 + 1 = 4
      OBVIOUS
    <3> QED
      BY <2>3, <2>5, <3>1, Zenon
  <2> QED
    BY <2>6 DEF b
<1>3. IsLoopback(read) <=> \/ read = LOCALHOST
                           \/ read = LOOPBACKV6
                           \/ \E word \in LoopbackV4 : read = <<word>>
  BY DEF IsLoopback
<1>4. host \in LoopbackHosts <=> \/ host = LOCALHOST
                                 \/ host = Bracketed(LOOPBACKV6)
                                 \/ \E word \in LoopbackV4 : host = <<word>>
  BY DEF LoopbackHosts
<1>5. CASE host \in HostNames(W) /\ read = host
  <2>1. Lacks(host, ":") /\ Lacks(host, "[")
    BY <1>5 DEF HostNames, Without, Delimiters, Lacks
  <2>2. host # LOOPBACKV6
    <3>1. Len(LOOPBACKV6) = 3 /\ LOOPBACKV6[1] = ":"
      BY <1>1
    <3> QED
      BY <2>1, <3>1 DEF Lacks
  <2>3. host # Bracketed(LOOPBACKV6)
    <3>1. Len(Bracketed(LOOPBACKV6)) = 5 /\ Bracketed(LOOPBACKV6)[1] = "["
      BY <1>2
    <3> QED
      BY <2>1, <3>1 DEF Lacks
  <2> QED
    BY <1>3, <1>4, <1>5, <2>2, <2>3
<1>6. ASSUME NEW a \in HostAddresses(W), host = Bracketed(a), read = a
      PROVE  IsLoopback(read) <=> host \in LoopbackHosts
  <2>1. a \in Seq(W) /\ \E i \in 1..Len(a) : a[i] = ":"
    BY DEF HostAddresses, Without
  <2>2. \A word : a = <<word>> => word = ":"
    BY <2>1
  <2>3. a # LOCALHOST /\ ~\E word \in LoopbackV4 : a = <<word>>
    BY <1>1, <2>2, LoopbackAssumption
  <2>4. host \in Seq(W) /\ Len(host) = Len(a) + 2 /\ host[1] = "[" /\ Len(a) \in Nat
    BY <1>6, <2>1, InBrackets
  <2>5. Len(a) > 0
    BY <2>1
  <2>6. \A word : host # <<word>>
    BY <2>4, <2>5
  <2>7. host # LOCALHOST /\ ~\E word \in LoopbackV4 : host = <<word>>
    BY <1>1, <2>6
  <2>8. host = Bracketed(LOOPBACKV6) => a = LOOPBACKV6
    <3> SUFFICES ASSUME host = Bracketed(LOOPBACKV6)
                 PROVE  a = LOOPBACKV6
      OBVIOUS
    <3>1. Len(host) = 5 /\ host[2] = ":" /\ host[3] = ":" /\ host[4] = "1"
      BY <1>2
    <3>2. Len(a) = 3
      <4> DEFINE k == Len(a)
      <4>1. 5 = k + 2 /\ k \in Nat
        BY <2>4, <3>1
      <4> HIDE DEF k
      <4>2. k = 3
        BY <4>1
      <4> QED
        BY <4>2 DEF k
    <3>3. \A i \in 1..Len(a) : host[i + 1] = a[i]
      BY <1>6, <2>1, InBrackets
    <3>4. a[1] = ":" /\ a[2] = ":" /\ a[3] = "1"
      BY <3>1, <3>2, <3>3
    <3> QED
      BY <1>1, <2>1, <3>2, <3>4
  <2> QED
    BY <1>3, <1>4, <1>6, <2>3, <2>7, <2>8
<1>7. CASE host \in BareAddresses(W) /\ read = <<>>
  <2>1. host \in Seq(W) /\ host # <<>> /\ host[1] = ":"
    BY <1>7 DEF BareAddresses, Without
  <2>2. ~IsLoopback(read)
    BY <1>1, <1>3, <1>7
  <2>3. host # LOCALHOST /\ host # Bracketed(LOOPBACKV6)
    BY <1>1, <1>2, <2>1
  <2>4. \A word : host = <<word>> => word = ":"
    BY <2>1
  <2> QED
    BY <1>4, <2>2, <2>3, <2>4, LoopbackAssumption
<1> QED
  BY <1>5, <1>6, <1>7 DEF ReadHost

(***************************************************************************)
(* lib.rs:509-552, for URLs of any length over any words: a middleware is  *)
(* built without a warning exactly when it strips the credential and its   *)
(* verifier is not reached by `http://` or is a loopback host spelled as   *)
(* one, whatever userinfo, port or path surround it.                       *)
(***************************************************************************)
THEOREM QuietMeansSafeHolds ==
    ASSUME NEW W, Delimiters \subseteq W, setup \in SpelledSetups(W)
    PROVE  QuietMeansSafe
<1> DEFINE s == setup
           parts == (s.userinfo \o (s.host \o s.port)) \o s.path
           read == UrlHost(parts)
           strips == s.strip_token_header
<1>1. /\ s.scheme \in W /\ strips \in BOOLEAN
      /\ s.userinfo \in Seq(W) /\ s.port \in Seq(W) /\ s.path \in Seq(W)
  BY DEF SpelledSetups, Without
<1>2. ReadHost(W, s.host, read)
  BY HostIsRead
<1>3. s.host \in Seq(W)
  <2>1. s.host \in HostNames(W) \cup {Bracketed(a) : a \in HostAddresses(W)} \cup BareAddresses(W)
    BY DEF SpelledSetups
  <2>2. \A a \in HostAddresses(W) : a \in Seq(W) /\ Bracketed(a) \in Seq(W)
    BY InBrackets DEF HostAddresses, Without
  <2> QED
    BY <2>1, <2>2 DEF HostNames, BareAddresses, Without
<1>4. Url(s) = <<s.scheme>> \o parts /\ parts \in Seq(W)
  <2>1. <<s.scheme>> \in Seq(W)
    BY <1>1
  <2>2. Url(s) = <<s.scheme>> \o parts
    <3>1. Url(s) = <<s.scheme>> \o s.userinfo \o s.host \o s.port \o s.path
      BY Zenon DEF Url
    <3>2. <<s.scheme>> \o s.userinfo \o s.host \o s.port \o s.path = <<s.scheme>> \o parts
      <4> DEFINE a == <<s.scheme>>
                 u == s.userinfo
                 h == s.host
                 p == s.port
                 q == s.path
      <4>1. a \in Seq(W) /\ u \in Seq(W) /\ h \in Seq(W) /\ p \in Seq(W) /\ q \in Seq(W)
        BY <1>1, <1>3, <2>1
      <4> HIDE DEF a, u, h, p, q
      <4>2. Parted(a, u, h, p, q)
        BY <4>1, UrlInParts
      <4> QED
        BY <4>2, Zenon DEF Parted, a, u, h, p, q
    <3> QED
      BY <3>1, <3>2, Zenon
  <2>3. s.host \o s.port \in Seq(W)
    BY <1>1, <1>3, Joined
  <2>4. s.userinfo \o (s.host \o s.port) \in Seq(W)
    BY <1>1, <2>3, Joined
  <2>5. parts \in Seq(W)
    BY <1>1, <2>4, Joined
  <2> QED
    BY <2>2, <2>5
<1> HIDE DEF read
<1> DEFINE url == Url(s)
<1>5. Tail(url) = parts /\ Head(url) = s.scheme /\ url \in Seq(W) /\ Len(url) >= 1
  <2> HIDE DEF parts
  <2>1. Tail(url) = parts /\ Head(url) = s.scheme
    BY <1>1, <1>4, HeadIsOne
  <2>2. url \in Seq(W) /\ Len(url) >= 1
    BY <1>1, <1>4
  <2> QED
    BY <2>1, <2>2
<1>6. read = UrlHost(Tail(url))
  BY <1>5 DEF read
<1> HIDE DEF url, parts
<1>7. IsPrefix(<<"http://">>, url) <=> s.scheme = "http://"
  <2>1. Len(<<"http://">>) = 1 /\ <<"http://">> \in Seq({"http://"})
    OBVIOUS
  <2>2. SubSeq(<<"http://">>, 1, 1) = <<"http://">>
    <3> DEFINE a == <<"http://">>
               A == {"http://"}
    <3>1. a \in Seq(A) /\ Len(a) >= 1 /\ a[1] = "http://"
      BY <2>1
    <3> HIDE DEF a, A
    <3>2. SubSeq(a, 1, 1) = <<a[1]>>
      BY <3>1, FirstOf
    <3>3. SubSeq(a, 1, 1) = <<"http://">>
      BY <3>1, <3>2, Zenon
    <3> QED
      BY <3>3 DEF a
  <2>3. SubSeq(url, 1, 1) = <<s.scheme>>
    <3>1. Head(url) = url[1]
      BY <1>5
    <3>2. SubSeq(url, 1, 1) = <<url[1]>>
      BY <1>5, FirstOf
    <3> QED
      BY <1>5, <3>1, <3>2
  <2>4. <<"http://">> = <<s.scheme>> <=> s.scheme = "http://"
    OBVIOUS
  <2> QED
    BY <1>5, <2>1, <2>2, <2>3, <2>4 DEF IsPrefix
<1>8. IsPlaintextNonLoopback(url) <=> s.scheme = "http://" /\ s.host \notin LoopbackHosts
  BY <1>2, <1>6, <1>7, LoopbackIsSpelled DEF IsPlaintextNonLoopback
<1>9. WarnOnUnsafeConfig(url, strips) = {} <=> ~IsPlaintextNonLoopback(url) /\ strips
  BY <1>1 DEF WarnOnUnsafeConfig
<1> QED
  BY <1>8, <1>9 DEF QuietMeansSafe, url
=============================================================================
