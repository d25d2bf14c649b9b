------------------------------ MODULE CrhProofs ------------------------------
(***************************************************************************)
(* Facts about `crh_v1` for text of any length: case folding settles after *)
(* one application and the hash does not see the case of method or scheme; *)
(* the preimage can be decoded, so one hash means the same fields; and an  *)
(* authority once normalised stays as it is.                               *)
(***************************************************************************)
EXTENDS Crh, SequenceTheorems, TLAPS

-----------------------------------------------------------------------------
\* One character, folded.
RaisedCode(c) == IF c \in 97..122 THEN c - 32 ELSE c
LoweredCode(c) == IF c \in 65..90 THEN c + 32 ELSE c

(* Folding a character again, either way, changes nothing. *)
LEMMA CodesFold ==
    ASSUME NEW c \in Nat
    PROVE  /\ RaisedCode(c) \in Nat
           /\ LoweredCode(c) \in Nat
           /\ LoweredCode(LoweredCode(c)) = LoweredCode(c)
           /\ RaisedCode(RaisedCode(c)) = RaisedCode(c)
           /\ LoweredCode(RaisedCode(c)) = LoweredCode(c)
           /\ RaisedCode(LoweredCode(c)) = RaisedCode(c)
  BY DEF RaisedCode, LoweredCode

(* Text is folded character by character. *)
LEMMA Folds ==
    ASSUME NEW s
    PROVE  /\ ToAsciiUppercase(s) = [i \in 1..Len(s) |-> RaisedCode(s[i])]
           /\ ToAsciiLowercase(s) = [i \in 1..Len(s) |-> LoweredCode(s[i])]
  BY DEF ToAsciiUppercase, ToAsciiLowercase, RaisedCode, LoweredCode

(* Folding keeps text, and its length. *)
LEMMA FoldShape ==
    ASSUME NEW s \in Seq(Nat)
    PROVE  /\ ToAsciiUppercase(s) \in Seq(Nat) /\ Len(ToAsciiUppercase(s)) = Len(s)
           /\ ToAsciiLowercase(s) \in Seq(Nat) /\ Len(ToAsciiLowercase(s)) = Len(s)
<1>1. Len(s) \in Nat /\ \A i \in 1..Len(s) : s[i] \in Nat
  OBVIOUS
<1>2. \A i \in 1..Len(s) : RaisedCode(s[i]) \in Nat /\ LoweredCode(s[i]) \in Nat
  BY <1>1, CodesFold
<1> DEFINE u == [i \in 1..Len(s) |-> RaisedCode(s[i])]
           l == [i \in 1..Len(s) |-> LoweredCode(s[i])]
<1>3. u \in Seq(Nat) /\ Len(u) = Len(s)
  BY <1>1, <1>2
<1>4. l \in Seq(Nat) /\ Len(l) = Len(s)
  BY <1>1, <1>2
<1> QED
  BY <1>3, <1>4, Folds

(* Folded text is a fixed point; folding forgets an earlier folding. *)
LEMMA FoldTwice ==
    ASSUME NEW s \in Seq(Nat)
    PROVE  /\ ToAsciiLowercase(ToAsciiLowercase(s)) = ToAsciiLowercase(s)
           /\ ToAsciiUppercase(ToAsciiUppercase(s)) = ToAsciiUppercase(s)
           /\ ToAsciiLowercase(ToAsciiUppercase(s)) = ToAsciiLowercase(s)
           /\ ToAsciiUppercase(ToAsciiLowercase(s)) = ToAsciiUppercase(s)
<1>1. \A i \in 1..Len(s) : s[i] \in Nat
  OBVIOUS
<1> DEFINE u == ToAsciiUppercase(s)
           l == ToAsciiLowercase(s)
<1>3. Len(u) = Len(s) /\ Len(l) = Len(s)
  BY FoldShape
<1>4. l = [i \in 1..Len(s) |-> LoweredCode(s[i])] /\ u = [i \in 1..Len(s) |-> RaisedCode(s[i])]
  BY Folds
<1> HIDE DEF u, l
<1>5. \A i \in 1..Len(s) : /\ LoweredCode(l[i]) = LoweredCode(s[i])
                           /\ RaisedCode(u[i]) = RaisedCode(s[i])
                           /\ LoweredCode(u[i]) = LoweredCode(s[i])
                           /\ RaisedCode(l[i]) = RaisedCode(s[i])
  BY <1>1, <1>4, CodesFold
<1>6. ToAsciiLowercase(l) = l
  <2>1. ToAsciiLowercase(l) = [i \in 1..Len(s) |-> LoweredCode(l[i])]
    BY <1>3, Folds
  <2> QED
    BY <1>4, <1>5, <2>1
<1>7. ToAsciiUppercase(u) = u
  <2>1. ToAsciiUppercase(u) = [i \in 1..Len(s) |-> RaisedCode(u[i])]
    BY <1>3, Folds
  <2> QED
    BY <1>4, <1>5, <2>1
<1>8. ToAsciiLowercase(u) = l
  <2>1. ToAsciiLowercase(u) = [i \in 1..Len(s) |-> LoweredCode(u[i])]
    BY <1>3, Folds
  <2> QED
    BY <1>4, <1>5, <2>1
<1>9. ToAsciiUppercase(l) = u
  <2>1. ToAsciiUppercase(l) = [i \in 1..Len(s) |-> RaisedCode(l[i])]
    BY <1>3, Folds
  <2> QED
    BY <1>4, <1>5, <2>1
<1> QED
  BY <1>6, <1>7, <1>8, <1>9 DEF u, l

(***************************************************************************)
(* hash.rs:110-122 against lib.rs:250-274: two spellings of a request that  *)
(* differ in the case of method and scheme have the same hash, whatever    *)
(* the other fields are.                                                   *)
(***************************************************************************)
THEOREM HashIgnoresCase ==
    ASSUME NEW p, NEW q, p.method \in Seq(Nat), p.scheme \in Seq(Nat),
           q.method = ToAsciiUppercase(p.method), q.scheme = ToAsciiLowercase(p.scheme),
           q.authority = p.authority, q.path = p.path, q.query = p.query,
           q.body_sha256 = p.body_sha256
    PROVE  CanonicalRequestHash(q) = CanonicalRequestHash(p)
<1>1. /\ ToAsciiUppercase(q.method) = ToAsciiUppercase(p.method)
      /\ ToAsciiLowercase(q.scheme) = ToAsciiLowercase(p.scheme)
  BY FoldTwice
<1> QED
  BY <1>1 DEF CanonicalRequestHash

-----------------------------------------------------------------------------
(* The preimage is decodable: a field is read off by its length.           *)
Then(field, rest) == Put(field) \o rest

LEMMA ShortLengths == ASSUME NEW n \in Nat, n < LenRange PROVE n % LenRange = n
  BY LenRangeAssumption

LEMMA PutShape ==
    ASSUME NEW X, Nat \subseteq X, NEW a \in Seq(X), Len(a) < LenRange
    PROVE  /\ Put(a) \in Seq(X) /\ Len(Put(a)) = Len(a) + 1
           /\ Put(a)[1] = Len(a)
           /\ \A i \in 1..Len(a) : Put(a)[i + 1] = a[i]
<1>1. Len(a) \in Nat /\ Put(a) = <<Len(a)>> \o a
  BY ShortLengths DEF Put
<1> QED
  BY <1>1

\* A text whose length the prefix can say.
Short(X, a) == a \in Seq(X) /\ Len(a) < LenRange

\* What a decoder sees of a field followed by the rest.
Framed(u, a, s) ==
    /\ Len(u) = Len(a) + 1 + Len(s)
    /\ u[1] = Len(a)
    /\ \A i \in 1..Len(a) : u[i + 1] = a[i]
    /\ \A i \in 1..Len(s) : u[Len(a) + 1 + i] = s[i]

LEMMA ThenShape ==
    ASSUME NEW X, Nat \subseteq X, NEW a, Short(X, a), NEW s \in Seq(X)
    PROVE  Then(a, s) \in Seq(X) /\ Framed(Then(a, s), a, s)
<1> DEFINE c == Put(a)
<1>0. a \in Seq(X) /\ Len(a) < LenRange
  BY DEF Short
<1>1. c \in Seq(X) /\ Len(c) = Len(a) + 1 /\ c[1] = Len(a)
  BY <1>0, PutShape
<1>2. \A i \in 1..Len(a) : c[i + 1] = a[i]
  BY <1>0, PutShape
<1>3. Then(a, s) = c \o s
  BY DEF Then
<1> HIDE DEF c
<1>4. Len(a) \in Nat /\ Len(s) \in Nat
  BY <1>0
<1> DEFINE u == c \o s
<1>5. u \in Seq(X) /\ Len(u) = Len(c) + Len(s)
  BY <1>1
<1>6. \A i \in 1..Len(c) : u[i] = c[i]
  BY <1>1
<1>7. \A i \in 1..Len(s) : u[Len(c) + i] = s[i]
  BY <1>1
<1>8. u = Then(a, s)
  BY <1>3
<1> HIDE DEF u
<1>9. u[1] = Len(a)
  BY <1>1, <1>4, <1>6
<1>10. \A i \in 1..Len(a) : u[i + 1] = a[i]
  BY <1>1, <1>2, <1>4, <1>6
<1>11. \A i \in 1..Len(s) : u[Len(a) + 1 + i] = s[i]
  BY <1>1, <1>7
<1>12. Framed(u, a, s)
  BY <1>1, <1>5, <1>9, <1>10, <1>11 DEF Framed
<1> QED
  BY <1>5, <1>8, <1>12

LEMMA FramesAgree ==
    ASSUME NEW X, NEW a \in Seq(X), NEW b \in Seq(X), NEW s \in Seq(X), NEW t \in Seq(X),
           NEW u, Framed(u, a, s), Framed(u, b, t)
    PROVE  a = b /\ s = t
<1>1. Len(a) = Len(b) /\ Len(s) = Len(t)
  BY DEF Framed
<1>2. \A i \in 1..Len(a) : a[i] = b[i]
  BY <1>1 DEF Framed
<1>3. \A i \in 1..Len(s) : s[i] = t[i]
  BY <1>1 DEF Framed
<1>4. a = b
  BY <1>1, <1>2
<1>5. s = t
  BY <1>1, <1>3
<1> QED
  BY <1>4, <1>5

LEMMA FieldReadsOff ==
    ASSUME NEW X, Nat \subseteq X, NEW a, NEW b, Short(X, a), Short(X, b),
           NEW s \in Seq(X), NEW t \in Seq(X), Then(a, s) = Then(b, t)
    PROVE  a = b /\ s = t
<1>1. a \in Seq(X) /\ b \in Seq(X)
  BY DEF Short
<1>2. Framed(Then(a, s), a, s)
  BY ThenShape, Zenon
<1>3. Framed(Then(b, t), b, t)
  BY ThenShape, Zenon
<1>4. Framed(Then(a, s), b, t)
  BY <1>3, Zenon
<1> QED
  BY <1>1, <1>2, <1>4, FramesAgree, Zenon

\* The fields as the code appends them, and as a decoder peels them off.
Appended(a, b, c, d, e, f) == a \o b \o c \o d \o e \o f
Nested(a, b, c, d, e, f) == a \o (b \o (c \o (d \o (e \o (f \o <<>>)))))

Texts(X, a, b, c, d, e, f) ==
    /\ a \in Seq(X) /\ b \in Seq(X) /\ c \in Seq(X)
    /\ d \in Seq(X) /\ e \in Seq(X) /\ f \in Seq(X)

LEMMA Reassociate ==
    ASSUME NEW X, NEW a, NEW b, NEW c, NEW d, NEW e, NEW f,
           Texts(X, a, b, c, d, e, f)
    PROVE  Appended(a, b, c, d, e, f) = Nested(a, b, c, d, e, f)
<1> DEFINE ab == a \o b
           abc == ab \o c
           abcd == abc \o d
           ef == e \o f
           def == d \o ef
           cdef == c \o def
<1>0. /\ a \in Seq(X) /\ b \in Seq(X) /\ c \in Seq(X)
      /\ d \in Seq(X) /\ e \in Seq(X) /\ f \in Seq(X)
  BY DEF Texts
<1>1. ab \in Seq(X) /\ ef \in Seq(X) /\ f \o <<>> = f
  BY <1>0
<1> HIDE DEF ab, ef
<1>2. def \in Seq(X) /\ abc \in Seq(X)
  BY <1>0, <1>1
<1> HIDE DEF def, abc
<1>3. cdef \in Seq(X) /\ abcd \in Seq(X)
  BY <1>0, <1>2
<1> HIDE DEF cdef, abcd
<1> DEFINE Regroup(x, y, z) == (x \o y) \o z = x \o (y \o z)
<1>4. \A x, y, z \in Seq(X) : Regroup(x, y, z)
  BY ConcatAssociative
<1>5. Regroup(abcd, e, f) /\ Regroup(abc, d, ef) /\ Regroup(ab, c, def) /\ Regroup(a, b, cdef)
  <2> HIDE DEF Regroup
  <2> QED
    BY <1>0, <1>1, <1>2, <1>3, <1>4, Zenon
<1>6. abcd \o e \o f = abcd \o ef
  BY <1>5 DEF ef
<1>7. abcd \o ef = abc \o def
  BY <1>5 DEF abcd, def
<1>8. abc \o def = ab \o cdef
  BY <1>5 DEF abc, cdef
<1>9. ab \o cdef = a \o (b \o cdef)
  BY <1>5 DEF ab
<1>10. abcd \o e \o f = a \o (b \o cdef)
  BY <1>6, <1>7, <1>8, <1>9
<1> QED
  BY <1>1, <1>10 DEF ab, abc, abcd, ef, def, cdef, Appended, Nested

\* A preimage from its six fields.
Chain(a, b, c, d, e, f) == Then(a, Then(b, Then(c, Then(d, Then(e, Then(f, <<>>))))))

Shorts(X, a, b, c, d, e, f) ==
    /\ Short(X, a) /\ Short(X, b) /\ Short(X, c)
    /\ Short(X, d) /\ Short(X, e) /\ Short(X, f)

LEMMA ChainReadsOff ==
    ASSUME NEW X, Nat \subseteq X,
           NEW a, NEW b, NEW c, NEW d, NEW e, NEW f, Shorts(X, a, b, c, d, e, f),
           NEW k, NEW l, NEW m, NEW n, NEW o, NEW p, Shorts(X, k, l, m, n, o, p),
           Chain(a, b, c, d, e, f) = Chain(k, l, m, n, o, p)
    PROVE  a = k /\ b = l /\ c = m /\ d = n /\ e = o /\ f = p
<1>0. /\ Short(X, a) /\ Short(X, b) /\ Short(X, c)
      /\ Short(X, d) /\ Short(X, e) /\ Short(X, f)
      /\ Short(X, k) /\ Short(X, l) /\ Short(X, m)
      /\ Short(X, n) /\ Short(X, o) /\ Short(X, p)
  BY DEF Shorts
<1> DEFINE end == <<>>
           f6 == Then(f, end)  f5 == Then(e, f6)  f4 == Then(d, f5)
           f3 == Then(c, f4)   f2 == Then(b, f3)
           g6 == Then(p, end)  g5 == Then(o, g6)  g4 == Then(n, g5)
           g3 == Then(m, g4)   g2 == Then(l, g3)
<1>1. Then(a, f2) = Then(k, g2)
  BY DEF Chain
<1>2. end \in Seq(X)
  OBVIOUS
<1> HIDE DEF end
<1>3. f6 \in Seq(X) /\ g6 \in Seq(X)
  BY <1>0, <1>2, ThenShape, Zenon
<1> HIDE DEF f6, g6
<1>4. f5 \in Seq(X) /\ g5 \in Seq(X)
  BY <1>0, <1>3, ThenShape, Zenon
<1> HIDE DEF f5, g5
<1>5. f4 \in Seq(X) /\ g4 \in Seq(X)
  BY <1>0, <1>4, ThenShape, Zenon
<1> HIDE DEF f4, g4
<1>6. f3 \in Seq(X) /\ g3 \in Seq(X)
  BY <1>0, <1>5, ThenShape, Zenon
<1> HIDE DEF f3, g3
<1>7. f2 \in Seq(X) /\ g2 \in Seq(X)
  BY <1>0, <1>6, ThenShape, Zenon
<1> HIDE DEF f2, g2
<1>8. a = k /\ f2 = g2
  BY <1>0, <1>1, <1>7, FieldReadsOff, Zenon
<1>9. b = l /\ f3 = g3
  <2>1. Then(b, f3) = Then(l, g3)
    BY <1>8 DEF f2, g2
  <2> QED
    BY <1>0, <2>1, <1>6, FieldReadsOff, Zenon
<1>10. c = m /\ f4 = g4
  <2>1. Then(c, f4) = Then(m, g4)
    BY <1>9 DEF f3, g3
  <2> QED
    BY <1>0, <2>1, <1>5, FieldReadsOff, Zenon
<1>11. d = n /\ f5 = g5
  <2>1. Then(d, f5) = Then(n, g5)
    BY <1>10 DEF f4, g4
  <2> QED
    BY <1>0, <2>1, <1>4, FieldReadsOff, Zenon
<1>12. e = o /\ f6 = g6
  <2>1. Then(e, f6) = Then(o, g6)
    BY <1>11 DEF f5, g5
  <2> QED
    BY <1>0, <2>1, <1>3, FieldReadsOff, Zenon
<1>13. f = p
  <2>1. Then(f, end) = Then(p, end)
    BY <1>12 DEF f6, g6
  <2> QED
    BY <1>0, <2>1, <1>2, FieldReadsOff, Zenon
<1> QED
  BY <1>8, <1>9, <1>10, <1>11, <1>12, <1>13

-----------------------------------------------------------------------------
(* The fields of a request, as they are hashed.                            *)
HashedMethod(p) == ToAsciiUppercase(p.method)
HashedScheme(p) == ToAsciiLowercase(p.scheme)
HashedAuthority(p) == NormalizeAuthority(HashedScheme(p), p.authority)
HashedPath(p) == OrRoot(p.path)

Hashable(X, p) == Shorts(X, HashedMethod(p), HashedScheme(p), HashedAuthority(p),
                            HashedPath(p), p.query, p.body_sha256)

Preimage(p) == Chain(HashedMethod(p), HashedScheme(p), HashedAuthority(p),
                     HashedPath(p), p.query, p.body_sha256)

LEMMA PutIsText ==
    ASSUME NEW X, Nat \subseteq X, NEW a, Short(X, a)
    PROVE  Put(a) \in Seq(X)
  BY PutShape DEF Short

LEMMA HashOfPreimage ==
    ASSUME NEW X, Nat \subseteq X, NEW p, Hashable(X, p)
    PROVE  CanonicalRequestHash(p) = Sha256(Preimage(p))
<1> DEFINE a == Put(HashedMethod(p))
           b == Put(HashedScheme(p))
           c == Put(HashedAuthority(p))
           d == Put(HashedPath(p))
           e == Put(p.query)
           f == Put(p.body_sha256)
<1>1. a \in Seq(X) /\ b \in Seq(X) /\ c \in Seq(X)
  BY PutIsText, Zenon DEF Hashable, Shorts
<1>2. d \in Seq(X) /\ e \in Seq(X) /\ f \in Seq(X)
  BY PutIsText, Zenon DEF Hashable, Shorts
<1>3. CanonicalRequestHash(p) = Sha256(Appended(a, b, c, d, e, f))
  BY DEF CanonicalRequestHash, Appended,
         HashedMethod, HashedScheme, HashedAuthority, HashedPath
<1>4. Preimage(p) = Nested(a, b, c, d, e, f)
  BY DEF Preimage, Chain, Then, Nested
<1> HIDE DEF a, b, c, d, e, f
<1>5. Appended(a, b, c, d, e, f) = Nested(a, b, c, d, e, f)
  <2>1. Texts(X, a, b, c, d, e, f)
    BY <1>1, <1>2 DEF Texts
  <2> QED
    BY <2>1, Reassociate
<1> QED
  BY <1>3, <1>4, <1>5

(***************************************************************************)
(* hash.rs:93-108: with fields shorter than the length prefix can say, no  *)
(* byte can move from one field into the next: requests with one hash      *)
(* agree in every field as it is hashed.                                   *)
(***************************************************************************)
THEOREM HashIdentifiesFields ==
    ASSUME NEW X, Nat \subseteq X, NEW p, NEW q, Hashable(X, p), Hashable(X, q),
           CanonicalRequestHash(p) = CanonicalRequestHash(q)
    PROVE  /\ HashedMethod(p) = HashedMethod(q)
           /\ HashedScheme(p) = HashedScheme(q)
           /\ HashedAuthority(p) = HashedAuthority(q)
           /\ HashedPath(p) = HashedPath(q)
           /\ p.query = q.query
           /\ p.body_sha256 = q.body_sha256
<1>1. Sha256(Preimage(p)) = Sha256(Preimage(q))
  BY HashOfPreimage
<1>2. Preimage(p) = Preimage(q)
  BY <1>1 DEF Sha256
<1>3. Chain(HashedMethod(p), HashedScheme(p), HashedAuthority(p),
            HashedPath(p), p.query, p.body_sha256) =
      Chain(HashedMethod(q), HashedScheme(q), HashedAuthority(q),
            HashedPath(q), q.query, q.body_sha256)
  BY <1>2 DEF Preimage
<1>4. /\ Shorts(X, HashedMethod(p), HashedScheme(p), HashedAuthority(p),
                HashedPath(p), p.query, p.body_sha256)
      /\ Shorts(X, HashedMethod(q), HashedScheme(q), HashedAuthority(q),
                HashedPath(q), q.query, q.body_sha256)
  BY DEF Hashable
<1> QED
  BY <1>3, <1>4, ChainReadsOff

-----------------------------------------------------------------------------
(* A text that ends in a default port holds a colon outside brackets, so   *)
(* it is no host: what was stripped once is never stripped again.          *)
LEMMA DefaultPortIsNoHost ==
    ASSUME NEW scheme, NEW t \in Seq(Nat), IsSuffix(DefaultSuffix(scheme), t)
    PROVE  ~WellFormedHost(t)
<1> DEFINE d == DefaultSuffix(scheme)
           k == Len(d)
           rd == Reverse(d)
           rt == Reverse(t)
<1>1. /\ d \in Seq(Nat) /\ k \in {3, 4} /\ k \in Nat
      /\ d[1] = COLON /\ d[k] \in {51, 48}
  BY DEF DefaultSuffix, COLON
<1>2. Len(t) \in Nat /\ \A i \in 1..Len(t) : t[i] \in Nat
  OBVIOUS
<1> HIDE DEF d
<1>3. /\ rd = [i \in 1..k |-> d[(k - i) + 1]]
      /\ rt = [i \in 1..Len(t) |-> t[(Len(t) - i) + 1]]
  BY DEF Reverse
<1>4. /\ rd \in Seq(Nat) /\ Len(rd) = k
      /\ rt \in Seq(Nat) /\ Len(rt) = Len(t)
  <2>1. /\ \A i \in 1..k : d[(k - i) + 1] \in Nat
        /\ \A i \in 1..Len(t) : t[(Len(t) - i) + 1] \in Nat
    BY <1>1, <1>2
  <2> QED
    BY <1>1, <1>2, <1>3, <2>1
<1>5. k <= Len(t) /\ SubSeq(rd, 1, k) = SubSeq(rt, 1, k)
  BY <1>4 DEF IsSuffix, IsPrefix, d
<1>6. \A i \in 1..k : rd[i] = rt[i]
  <2> HIDE DEF rd, rt
  <2>1. \A i \in 1..k : SubSeq(rd, 1, k)[i] = rd[i] /\ SubSeq(rt, 1, k)[i] = rt[i]
    BY <1>1, <1>4, <1>5
  <2> QED
    BY <1>5, <2>1
<1>7. rd[1] = d[k] /\ rd[k] = d[1]
  BY <1>1, <1>3
<1>8. rt[1] = t[Len(t)] /\ rt[k] = t[(Len(t) - k) + 1]
  BY <1>1, <1>2, <1>3, <1>5
<1>9. t[Len(t)] \in {51, 48} /\ t[(Len(t) - k) + 1] = COLON
  <2>1. rd[1] = rt[1] /\ rd[k] = rt[k]
    BY <1>1, <1>6
  <2> HIDE DEF rd, rt, k
  <2> QED
    BY <1>1, <1>7, <1>8, <2>1
<1>10. (Len(t) - k) + 1 \in 1..Len(t)
  BY <1>1, <1>2, <1>5
<1>11. Contains(t, COLON)
  BY <1>9, <1>10 DEF Contains
<1>12. Last(t) # RBRACKET
  BY <1>9 DEF Last, RBRACKET
<1> QED
  BY <1>11, <1>12 DEF WellFormedHost

(* A prefix of folded text is folded. *)
LEMMA PrefixFolded ==
    ASSUME NEW s \in Seq(Nat), NEW n \in 0..Len(s)
    PROVE  LET h == SubSeq(ToAsciiLowercase(s), 1, n)
           IN h \in Seq(Nat) /\ ToAsciiLowercase(h) = h
<1> DEFINE l == ToAsciiLowercase(s)
           h == SubSeq(l, 1, n)
<1>1. l \in Seq(Nat) /\ Len(l) = Len(s)
  BY FoldShape
<1>2. \A i \in 1..Len(l) : LoweredCode(l[i]) = l[i]
  <2>1. \A i \in 1..Len(s) : s[i] \in Nat
    OBVIOUS
  <2>2. l = [i \in 1..Len(s) |-> LoweredCode(s[i])]
    BY Folds
  <2> HIDE DEF l
  <2> QED
    BY <1>1, <2>1, <2>2, CodesFold
<1> HIDE DEF l
<1>3. h \in Seq(Nat) /\ Len(h) = n /\ \A i \in 1..n : h[i] = l[i]
  BY <1>1
<1> HIDE DEF h
<1>4. \A i \in 1..n : LoweredCode(h[i]) = h[i]
  <2> TAKE i \in 1..n
  <2>1. i \in 1..Len(l)
    BY <1>1
  <2>2. LoweredCode(l[i]) = l[i]
    BY <1>2, <2>1
  <2>3. h[i] = l[i]
    BY <1>3
  <2> QED
    BY <2>2, <2>3, Zenon
<1>5. ToAsciiLowercase(h) = [i \in 1..n |-> LoweredCode(h[i])]
  BY <1>3, Folds
<1>6. ToAsciiLowercase(h) = [i \in 1..n |-> h[i]]
  BY <1>4, <1>5
<1>7. h = [i \in 1..n |-> h[i]]
  BY <1>3
<1> QED
  BY <1>3, <1>6, <1>7 DEF h, l

(* An authority already folded is changed only by stripping a host.        *)
LEMMA NormalizeFolded ==
    ASSUME NEW scheme, NEW r, ToAsciiLowercase(r) = r,
           ~(/\ scheme \in {HTTP, HTTPS}
             /\ IsSuffix(DefaultSuffix(scheme), r)
             /\ WellFormedHost(SubSeq(r, 1, Len(r) - Len(DefaultSuffix(scheme)))))
    PROVE  NormalizeAuthority(scheme, r) = r
  BY Zenon DEF NormalizeAuthority

(***************************************************************************)
(* hash.rs:77-91, NormalizeIdempotent for every authority and scheme: the  *)
(* verifier may normalise again what the middleware or the issuer already  *)
(* normalised (verifier.rs:280-287).                                       *)
(***************************************************************************)
THEOREM NormalizeTwice ==
    ASSUME NEW scheme, NEW authority \in Seq(Nat)
    PROVE  LET once == NormalizeAuthority(scheme, authority)
           IN NormalizeAuthority(scheme, once) = once
<1> DEFINE l == ToAsciiLowercase(authority)
           n == Len(l) - Len(DefaultSuffix(scheme))
           host == SubSeq(l, 1, n)
           strips == /\ scheme \in {HTTP, HTTPS}
                     /\ IsSuffix(DefaultSuffix(scheme), l)
                     /\ WellFormedHost(host)
           once == NormalizeAuthority(scheme, authority)
<1>1. l \in Seq(Nat) /\ Len(l) = Len(authority) /\ ToAsciiLowercase(l) = l
  BY FoldShape, FoldTwice
<1>2. CASE ~strips
  <2>1. once = l
    BY <1>2, Zenon DEF NormalizeAuthority
  <2>2. NormalizeAuthority(scheme, l) = l
    BY <1>1, <1>2, NormalizeFolded, Zenon
  <2> QED
    BY <2>1, <2>2, Zenon
<1>3. CASE strips
  <2>1. once = host
    BY <1>3, Zenon DEF NormalizeAuthority
  <2>2. n \in 0..Len(authority)
    <3>1. host # <<>>
      BY <1>3, Zenon DEF WellFormedHost
    <3>2. Len(DefaultSuffix(scheme)) \in Nat
      BY DEF DefaultSuffix
    <3> HIDE DEF l
    <3> QED
      BY <1>1, <3>1, <3>2
  <2>3. host \in Seq(Nat) /\ ToAsciiLowercase(host) = host
    BY <2>2, PrefixFolded
  <2>4. ~IsSuffix(DefaultSuffix(scheme), host)
    BY <1>3, <2>3, DefaultPortIsNoHost, Zenon
  <2>5. NormalizeAuthority(scheme, host) = host
    BY <2>3, <2>4, NormalizeFolded, Zenon
  <2> QED
    BY <2>1, <2>5, Zenon
<1> QED
  BY <1>2, <1>3, Zenon

-----------------------------------------------------------------------------
(* What is left when a default port is stripped is text, and no longer.    *)
LEMMA NormalizedIsText ==
    ASSUME NEW scheme, NEW authority \in Seq(Nat)
    PROVE  LET once == NormalizeAuthority(scheme, authority)
           IN once \in Seq(Nat) /\ Len(once) <= Len(authority)
<1> DEFINE l == ToAsciiLowercase(authority)
           n == Len(l) - Len(DefaultSuffix(scheme))
           once == NormalizeAuthority(scheme, authority)
<1>1. l \in Seq(Nat) /\ Len(l) = Len(authority) /\ Len(authority) \in Nat
  BY FoldShape
<1>2. Len(DefaultSuffix(scheme)) \in {3, 4}
  BY DEF DefaultSuffix
<1>3. once \in {SubSeq(l, 1, n), l}
  BY Zenon DEF NormalizeAuthority
<1>4. n \in Int /\ n <= Len(l)
  BY <1>1, <1>2
<1> HIDE DEF l, n, once
<1>5. SubSeq(l, 1, n) \in Seq(Nat) /\ Len(SubSeq(l, 1, n)) <= Len(l)
  BY <1>1, <1>4
<1>6. once \in Seq(Nat) /\ Len(once) <= Len(authority)
  <2>1. CASE once = l
    BY <1>1, <2>1
  <2>2. CASE once = SubSeq(l, 1, n)
    <3>1. once \in Seq(Nat) /\ Len(once) <= Len(l)
      BY <1>5, <2>2, Zenon
    <3> QED
      BY <1>1, <3>1
  <2> QED
    BY <1>3, <2>1, <2>2
<1> QED
  BY <1>6 DEF once

(* A field is appended as it is, whatever its length prefix says.          *)
LEMMA PutKeeps ==
    ASSUME NEW X, Nat \subseteq X, NEW a \in Seq(X)
    PROVE  /\ Put(a) \in Seq(X) /\ Len(Put(a)) = Len(a) + 1
           /\ \A i \in 1..Len(a) : Put(a)[i + 1] = a[i]
<1>1. Len(a) \in Nat /\ Len(a) % LenRange \in X
  BY LenRangeAssumption
<1> DEFINE n == Len(a) % LenRange
<1>2. Put(a) = <<n>> \o a
  BY DEF Put
<1> HIDE DEF n
<1>3. n \in X
  BY <1>1 DEF n
<1> QED
  BY <1>1, <1>2, <1>3

(* The last field is read off by what precedes it.                         *)
LEMMA LastFieldReadsOff ==
    ASSUME NEW X, Nat \subseteq X, NEW h \in Seq(X), NEW a \in Seq(X), NEW b \in Seq(X),
           h \o Put(a) = h \o Put(b)
    PROVE  a = b
<1> DEFINE u == Put(a)
           v == Put(b)
<1>1. /\ u \in Seq(X) /\ Len(u) = Len(a) + 1 /\ \A i \in 1..Len(a) : u[i + 1] = a[i]
      /\ v \in Seq(X) /\ Len(v) = Len(b) + 1 /\ \A i \in 1..Len(b) : v[i + 1] = b[i]
  BY PutKeeps
<1>2. h \o u = h \o v
  OBVIOUS
<1> HIDE DEF u, v
<1>3. Len(u) = Len(v) /\ \A i \in 1..Len(u) : u[i] = v[i]
  <2>1. \A s \in Seq(X) : Len(h \o s) = Len(h) + Len(s)
    OBVIOUS
  <2>2. \A s \in Seq(X) : \A i \in 1..Len(s) : (h \o s)[Len(h) + i] = s[i]
    OBVIOUS
  <2>3. Len(u) = Len(v)
    BY <1>1, <1>2, <2>1
  <2>4. \A i \in 1..Len(u) : u[i] = v[i]
    <3> TAKE i \in 1..Len(u)
    <3>1. u[i] = (h \o u)[Len(h) + i]
      BY <1>1, <2>2
    <3>2. v[i] = (h \o v)[Len(h) + i]
      BY <1>1, <2>2, <2>3
    <3> QED
      BY <1>2, <3>1, <3>2, Zenon
  <2> QED
    BY <2>3, <2>4
<1>4. Len(a) = Len(b)
  BY <1>1, <1>3
<1>5. \A i \in 1..Len(a) : a[i] = b[i]
  <2> TAKE i \in 1..Len(a)
  <2>1. i + 1 \in 1..Len(u)
    BY <1>1
  <2>2. u[i + 1] = v[i + 1]
    BY <1>3, <2>1
  <2> QED
    BY <1>1, <1>4, <2>2
<1> QED
  BY <1>4, <1>5

(* Requests that differ in their bodies alone never share a hash; no bound *)
(* on the lengths is needed.                                               *)
LEMMA BodyTellsApart ==
    ASSUME NEW X, Nat \subseteq X, NEW p, NEW q,
           p.method \in Seq(Nat), p.scheme \in Seq(Nat), p.authority \in Seq(Nat),
           p.path \in Seq(Nat), p.query \in Seq(Nat),
           p.body_sha256 \in Seq(X), q.body_sha256 \in Seq(X),
           q.method = p.method, q.scheme = p.scheme, q.authority = p.authority,
           q.path = p.path, q.query = p.query,
           CanonicalRequestHash(p) = CanonicalRequestHash(q)
    PROVE  p.body_sha256 = q.body_sha256
<1> DEFINE scheme == ToAsciiLowercase(p.scheme)
           a == Put(ToAsciiUppercase(p.method))
           b == Put(scheme)
           c == Put(NormalizeAuthority(scheme, p.authority))
           d == Put(OrRoot(p.path))
           e == Put(p.query)
           h == a \o b \o c \o d \o e
<1>1. \A s \in Seq(Nat) : s \in Seq(X)
  OBVIOUS
<1>2. /\ ToAsciiUppercase(p.method) \in Seq(Nat) /\ scheme \in Seq(Nat)
      /\ NormalizeAuthority(scheme, p.authority) \in Seq(Nat)
      /\ OrRoot(p.path) \in Seq(Nat)
  <2>1. ToAsciiUppercase(p.method) \in Seq(Nat) /\ scheme \in Seq(Nat)
    BY FoldShape
  <2>2. NormalizeAuthority(scheme, p.authority) \in Seq(Nat)
    BY NormalizedIsText, Zenon
  <2>3. OrRoot(p.path) \in Seq(Nat)
    BY DEF OrRoot, ROOT, SLASH
  <2> QED
    BY <2>1, <2>2, <2>3
<1>3. a \in Seq(X) /\ b \in Seq(X) /\ c \in Seq(X) /\ d \in Seq(X) /\ e \in Seq(X)
  BY <1>1, <1>2, PutKeeps
<1>4. /\ CanonicalRequestHash(p) = Sha256(h \o Put(p.body_sha256))
      /\ CanonicalRequestHash(q) = Sha256(h \o Put(q.body_sha256))
  BY DEF CanonicalRequestHash
<1> HIDE DEF a, b, c, d, e
<1>5. h \in Seq(X)
  BY <1>3
<1>6. h \o Put(p.body_sha256) = h \o Put(q.body_sha256)
  <2> DEFINE x == h \o Put(p.body_sha256)
             y == h \o Put(q.body_sha256)
  <2>1. Sha256(x) = Sha256(y)
    BY <1>4
  <2> HIDE DEF x, y
  <2>2. x = y
    BY <2>1 DEF Sha256
  <2> QED
    BY <2>2 DEF x, y
<1> HIDE DEF h
<1> QED
  BY <1>5, <1>6, LastFieldReadsOff
=============================================================================
