------------------------ MODULE ResponseWriterProofs ------------------------
(***************************************************************************)
(* Machine-checked theorems about the ResponseWriter: the specification of *)
(* module ResponseWriter, for any number of requests, calls and bytes, and *)
(* handlers that are not Careless.                                         *)
(***************************************************************************)
EXTENDS ResponseWriter, SequenceTheorems, WellFoundedInduction, TLAPS

-----------------------------------------------------------------------------
(* Induction over the natural numbers, for sets *)

(* A nonempty set of naturals has a least member.                          *)
LEMMA LeastNat ==
    ASSUME NEW T, T \subseteq Nat, T # {}
    PROVE  \E x \in T : \A y \in T : x <= y
<1> DEFINE R == {ss \in Nat \X Nat : ss[1] < ss[2]}
<1>1. IsWellFoundedOn(R, Nat)
    BY NatLessThanWellFounded, Zenon DEF OpToRel
<1>2. PICK x \in T : \A y \in T : ~ (<<y, x>> \in R)
    <2> HIDE DEF R
    <2> QED BY <1>1, WFMin
<1>3. \A y \in T : ~ (y < x)
    BY <1>2
<1> QED
    BY <1>3

(* A set that has 0, and with every natural its successor, has them all.   *)
LEMMA Induct ==
    ASSUME NEW S, 0 \in S, \A n \in Nat : n \in S => n + 1 \in S
    PROVE  \A n \in Nat : n \in S
<1> SUFFICES ASSUME Nat \ S # {} PROVE FALSE
    OBVIOUS
<1>1. PICK x \in Nat \ S : \A y \in Nat \ S : x <= y
    BY LeastNat
<1>2. x # 0
    OBVIOUS
<1>3. x - 1 \in Nat
    BY <1>2
<1>4. x - 1 \in S
    BY <1>1, <1>3
<1> QED
    BY <1>3, <1>4

-----------------------------------------------------------------------------
(* What the client makes of a sequence of tokens *)

(* f is the client's course from c through the tokens s *)
Course(f, c, s) ==
    /\ f = [i \in 0..Len(s) |-> f[i]]
    /\ f[0] = c
    /\ \A i \in 1..Len(s) : f[i] = Receive(f[i - 1], s[i])

(* There is one course.                                                    *)
LEMMA CourseUnique ==
    ASSUME NEW c, NEW T, NEW s \in Seq(T), NEW f, NEW g, Course(f, c, s), Course(g, c, s)
    PROVE  f = g
<1> DEFINE S == {n \in Nat : n <= Len(s) => f[n] = g[n]}
<1>1. 0 \in S
    BY DEF Course
<1>2. ASSUME NEW n \in Nat, n \in S PROVE n + 1 \in S
    <2>1. CASE n + 1 <= Len(s)
        <3>1. f[n] = g[n]
            BY <2>1, <1>2
        <3>2. n + 1 \in 1..Len(s) /\ (n + 1) - 1 = n
            BY <2>1
        <3>3. f[n + 1] = Receive(f[n], s[n + 1]) /\ g[n + 1] = Receive(g[n], s[n + 1])
            <4>1. /\ f[n + 1] = Receive(f[(n + 1) - 1], s[n + 1])
                  /\ g[n + 1] = Receive(g[(n + 1) - 1], s[n + 1])
                BY <3>2, Zenon DEF Course
            <4> QED
                BY <4>1, <3>2, Zenon
        <3>4. f[n + 1] = g[n + 1]
            BY <3>1, <3>3, Zenon
        <3> QED
            BY <3>4
    <2>2. CASE ~ (n + 1 <= Len(s))
        BY <2>2
    <2> QED
        BY <2>1, <2>2
<1>3. \A n \in Nat : n \in S
    <2> HIDE DEF S
    <2> QED BY <1>1, <1>2, Induct
<1>4. \A n \in 0..Len(s) : f[n] = g[n]
    BY <1>3
<1> QED
    BY <1>4 DEF Course

(* There is a course: the recursion of Received is well-defined.           *)
LEMMA ReceivedCourse ==
    ASSUME NEW c, NEW T, NEW s \in Seq(T)
    PROVE  Course(Received(c, s), c, s)
<1> DEFINE Def(f, n) ==
        f = [i \in 0..n |-> IF i = 0 THEN c ELSE Receive(f[i - 1], s[i])]
<1> DEFINE S == {n \in Nat : \E f : Def(f, n)}
<1>1. 0 \in S
    <2>1. Def([i \in 0..0 |-> c], 0)
        OBVIOUS
    <2> QED BY <2>1
<1>2. ASSUME NEW n \in Nat, n \in S PROVE n + 1 \in S
    <2>1. PICK f : Def(f, n)
        BY <1>2
    <2> DEFINE g == [i \in 0..(n + 1) |-> IF i = n + 1 THEN Receive(f[n], s[n + 1]) ELSE f[i]]
    <2>2. \A i \in 0..n : f[i] = IF i = 0 THEN c ELSE Receive(f[i - 1], s[i])
        BY <2>1
    <2>3. \A i \in 0..n : g[i] = f[i]
        OBVIOUS
    <2>4. g[n + 1] = Receive(f[n], s[n + 1])
        OBVIOUS
    <2>5. ASSUME NEW i \in 0..(n + 1)
          PROVE  g[i] = IF i = 0 THEN c ELSE Receive(g[i - 1], s[i])
        <3> HIDE DEF g
        <3>1. CASE i = n + 1
            BY <3>1, <2>3, <2>4
        <3>2. CASE i # n + 1
            <4>1. i \in 0..n /\ (i # 0 => i - 1 \in 0..n)
                BY <3>2
            <4> QED
                BY <4>1, <2>2, <2>3
        <3> QED
            BY <3>1, <3>2
    <2>6. Def(g, n + 1)
        BY <2>5
    <2> HIDE DEF Def, g
    <2> QED
        BY <2>6
<1>3. Len(s) \in S
    <2>1. \A n \in Nat : n \in S
        <3> HIDE DEF S
        <3> QED BY <1>1, <1>2, Induct
    <2> QED
        BY <2>1
<1>4. PICK f : Def(f, Len(s))
    BY <1>3
<1>5. Def(Received(c, s), Len(s))
    BY <1>4 DEF Received
<1> QED
    BY <1>5 DEF Course

-----------------------------------------------------------------------------
(* Ways: courses on which the client understands every token and its list   *)
(* of answers stays in A                                                    *)

At(p, left, got, a) == [at |-> p, left |-> left, got |-> got, answers |-> a]
Fine(c, A) ==
    /\ c = At(c.at, c.left, c.got, c.answers)
    /\ c.at \notin {"broken", "untilClose"} /\ c.answers \in A
Way(c, s, d, A) ==
    \E f : /\ Course(f, c, s)
          /\ f[Len(s)] = d
          /\ \A i \in 0..Len(s) : Fine(f[i], A)

(* No tokens: the client stays where it is.                                *)
LEMMA WayNone ==
    ASSUME NEW A, NEW c, Fine(c, A)
    PROVE  Way(c, << >>, c, A)
<1> DEFINE f == [i \in 0..0 |-> c]
<1>1. Course(f, c, << >>) /\ f[0] = c
    BY DEF Course
<1>2. Len(<< >>) = 0
    OBVIOUS
<1> HIDE DEF f
<1>3. \A i \in 0..Len(<< >>) : Fine(f[i], A)
    BY <1>1, <1>2
<1> QED
    BY <1>1, <1>2, <1>3 DEF Way

(* One token.                                                              *)
LEMMA WayOne ==
    ASSUME NEW A, NEW c, NEW t, Fine(c, A), Fine(Receive(c, t), A)
    PROVE  Way(c, <<t>>, Receive(c, t), A)
<1> DEFINE f == [i \in 0..1 |-> IF i = 0 THEN c ELSE Receive(c, t)]
<1>1. f[0] = c /\ f[1] = Receive(c, t) /\ f = [i \in 0..1 |-> f[i]]
    OBVIOUS
<1>2. Len(<<t>>) = 1 /\ <<t>>[1] = t
    OBVIOUS
<1> HIDE DEF f
<1>3. Course(f, c, <<t>>)
    <2> SUFFICES ASSUME NEW i \in 1..1 PROVE f[i] = Receive(f[i - 1], <<t>>[i])
        BY <1>1, <1>2 DEF Course
    <2>1. i = 1 /\ i - 1 = 0
        OBVIOUS
    <2> QED
        BY <2>1, <1>1, <1>2
<1>4. \A i \in 0..1 : Fine(f[i], A)
    BY <1>1
<1> QED
    BY <1>1, <1>2, <1>3, <1>4 DEF Way

(* Ways are joined.                                                        *)
LEMMA WayJoin ==
    ASSUME NEW A, NEW c, NEW d, NEW e, NEW T, NEW s \in Seq(T), NEW u \in Seq(T),
           Way(c, s, d, A), Way(d, u, e, A)
    PROVE  Way(c, s \o u, e, A)
<1>1. PICK f : Course(f, c, s) /\ f[Len(s)] = d /\ \A i \in 0..Len(s) : Fine(f[i], A)
    BY DEF Way
<1>2. PICK g : Course(g, d, u) /\ g[Len(u)] = e /\ \A i \in 0..Len(u) : Fine(g[i], A)
    BY DEF Way
<1>3. PICK m \in Nat, k \in Nat : m = Len(s) /\ k = Len(u)
    OBVIOUS
<1>4. /\ Len(s \o u) = m + k
      /\ \A i \in 1..m : (s \o u)[i] = s[i]
      /\ \A i \in (m + 1)..(m + k) : (s \o u)[i] = u[i - m]
    BY <1>3
<1> DEFINE h == [i \in 0..(m + k) |-> IF i <= m THEN f[i] ELSE g[i - m]]
<1>5. /\ h = [i \in 0..(m + k) |-> h[i]]
      /\ \A i \in 0..m : h[i] = f[i]
      /\ \A i \in (m + 1)..(m + k) : h[i] = g[i - m]
    OBVIOUS
<1> HIDE DEF h
<1>6. \A i \in m..(m + k) : h[i] = g[i - m]
    <2> TAKE i \in m..(m + k)
    <2>1. CASE i = m
        <3>1. m \in 0..m /\ i - m = 0
            BY <2>1
        <3>2. h[m] = d /\ g[0] = d
            BY <3>1, <1>1, <1>2, <1>3, <1>5, Zenon DEF Course
        <3> QED
            BY <2>1, <3>1, <3>2, Zenon
    <2>2. CASE i # m
        <3>1. i \in (m + 1)..(m + k)
            BY <2>2
        <3> QED
            BY <3>1, <1>5, Zenon
    <2> QED
        BY <2>1, <2>2, Zenon
<1>7. ASSUME NEW i \in 1..(m + k) PROVE h[i] = Receive(h[i - 1], (s \o u)[i])
    <2>1. CASE i <= m
        <3>1. i \in 1..m /\ i - 1 \in 0..m /\ i \in 0..m
            BY <2>1
        <3>2. f[i] = Receive(f[i - 1], s[i])
            BY <3>1, <1>1, <1>3 DEF Course
        <3> QED
            BY <3>1, <3>2, <1>4, <1>5
    <2>2. CASE i > m
        <3>1. i \in (m + 1)..(m + k) /\ i - 1 \in m..(m + k) /\ i - m \in 1..k /\ i \in m..(m + k)
            BY <2>2
        <3>2. PICK j \in 1..k : j = i - m /\ j - 1 = (i - 1) - m
            BY <3>1
        <3>3. g[j] = Receive(g[j - 1], u[j])
            BY <1>2, <1>3 DEF Course
        <3>4. h[i] = g[j] /\ h[i - 1] = g[j - 1] /\ (s \o u)[i] = u[j]
            BY <3>1, <3>2, <1>4, <1>6
        <3> QED
            BY <3>3, <3>4, Zenon
    <2>3. i <= m \/ i > m
        OBVIOUS
    <2> QED
        BY <2>1, <2>2, <2>3, Zenon
<1>8. h[0] = c
    <2>1. 0 \in 0..m
        OBVIOUS
    <2> QED
        BY <2>1, <1>1, <1>5, Zenon DEF Course
<1>9. Course(h, c, s \o u)
    BY <1>4, <1>5, <1>7, <1>8, Zenon DEF Course
<1>10. h[m + k] = e
    <2>1. m + k \in m..(m + k) /\ (m + k) - m = k
        OBVIOUS
    <2> QED
        BY <2>1, <1>2, <1>3, <1>6
<1>11. ASSUME NEW i \in 0..(m + k) PROVE Fine(h[i], A)
    <2>1. CASE i <= m
        <3>1. i \in 0..m
            BY <2>1
        <3> QED
            BY <3>1, <1>1, <1>3, <1>5, Zenon
    <2>2. CASE i > m
        <3>1. i \in m..(m + k) /\ i - m \in 0..k
            BY <2>2
        <3> QED
            BY <3>1, <1>2, <1>3, <1>6, Zenon
    <2>3. i <= m \/ i > m
        OBVIOUS
    <2> QED
        BY <2>1, <2>2, <2>3, Zenon
<1> QED
    BY <1>4, <1>9, <1>10, <1>11 DEF Way

(* The rest of a sequence after its first n.                               *)
LEMMA Rest ==
    ASSUME NEW T, NEW s \in Seq(T), NEW n \in 0..Len(s)
    PROVE  /\ SubSeq(s, n + 1, Len(s)) \in Seq(T)
           /\ Len(SubSeq(s, n + 1, Len(s))) = Len(s) - n
           /\ \A i \in 1..(Len(s) - n) : SubSeq(s, n + 1, Len(s))[i] = s[n + i]
<1>1. PICK m \in Int, k \in Int : m = n + 1 /\ k = Len(s) /\ m <= k + 1 /\ m >= 1
    OBVIOUS
<1>2. \A i \in m..k : s[i] \in T
    BY <1>1
<1>3. /\ SubSeq(s, m, k) \in Seq(T)
      /\ Len(SubSeq(s, m, k)) = IF m <= k THEN k - m + 1 ELSE 0
      /\ \A i \in 1 .. k - m + 1 : SubSeq(s, m, k)[i] = s[m + i - 1]
    BY <1>2, SubSeqProperties
<1>4. \A i \in 1..(k - n) : m + i - 1 = n + i
    BY <1>1
<1> QED
    BY <1>1, <1>3, <1>4

(* A client that is on its way is fine, and is on its way from there.      *)
LEMMA WayThere ==
    ASSUME NEW A, NEW c, NEW d, NEW T, NEW s \in Seq(T), NEW n \in 0..Len(s), Way(c, s, d, A)
    PROVE  /\ Fine(Received(c, s)[n], A)
           /\ Way(Received(c, s)[n], SubSeq(s, n + 1, Len(s)), d, A)
<1>1. PICK f : Course(f, c, s) /\ f[Len(s)] = d /\ \A i \in 0..Len(s) : Fine(f[i], A)
    BY DEF Way
<1>2. f = Received(c, s)
    BY <1>1, ReceivedCourse, CourseUnique
<1>3. PICK m \in Nat : m = Len(s) - n /\ n + m = Len(s)
    OBVIOUS
<1>4. PICK u \in Seq(T) : u = SubSeq(s, n + 1, Len(s))
    BY Rest
<1>5. Len(u) = m /\ \A i \in 1..m : u[i] = s[n + i]
    BY <1>3, <1>4, Rest
<1> DEFINE g == [i \in 0..m |-> f[n + i]]
<1>6. g = [i \in 0..m |-> g[i]] /\ \A i \in 0..m : g[i] = f[n + i]
    OBVIOUS
<1> HIDE DEF g
<1>7. g[0] = f[n] /\ g[m] = d
    BY <1>1, <1>3, <1>6
<1>8. ASSUME NEW i \in 1..m PROVE g[i] = Receive(g[i - 1], u[i])
    <2>1. PICK j \in 1..Len(s) : j = n + i /\ j - 1 = n + (i - 1)
        BY <1>3
    <2>2. f[j] = Receive(f[j - 1], s[j])
        BY <1>1 DEF Course
    <2>3. g[i] = f[j] /\ g[i - 1] = f[j - 1] /\ u[i] = s[j]
        BY <2>1, <1>5, <1>6
    <2> QED
        BY <2>2, <2>3, Zenon
<1>9. Course(g, f[n], u)
    BY <1>5, <1>6, <1>7, <1>8, Zenon DEF Course
<1>10. ASSUME NEW i \in 0..m PROVE Fine(g[i], A)
    <2>1. n + i \in 0..Len(s)
        BY <1>3
    <2>2. g[i] = f[n + i]
        BY <1>6
    <2>3. Fine(f[n + i], A)
        BY <1>1, <2>1
    <2> QED
        BY <2>2, <2>3
<1>11. Way(f[n], u, d, A)
    BY <1>5, <1>7, <1>9, <1>10 DEF Way
<1> QED
    BY <1>1, <1>2, <1>4, <1>11

-----------------------------------------------------------------------------
(* The tokens of the ResponseWriter, and where they take the client *)

Heads == [k : {"head"}, n : Nat, r : Nat, chunked : BOOLEAN, trailers : BOOLEAN,
          bodiless : BOOLEAN]
Sizes == [k : {"size"}, n : Nat]
Plain == [k : {"byte", "crlf", "trailer"}]
Raws == [k : {"raw"}]
Tokens == Heads \cup Sizes \cup Plain \cup Raws

(* A client is its four fields.                                            *)
LEMMA AtIs ==
    ASSUME NEW c, c = [x \in {"at", "left", "got", "answers"} |-> c[x]]
    PROVE  c = At(c.at, c.left, c.got, c.answers)
BY DEF At

(* A client is understood wherever it is but at "broken" and "untilClose".  *)       
LEMMA AtFine ==
    ASSUME NEW A, NEW a \in A, NEW p, NEW m, NEW g, p \notin {"broken", "untilClose"}
    PROVE  Fine(At(p, m, g, a), A)
BY DEF Fine, At

(* A byte of a body whose length was declared.                             *)
LEMMA ByteInBody ==
    ASSUME NEW a \in Seq(Nat), NEW m \in Nat, NEW g \in Nat
    PROVE  Receive(At("body", m, g, a), [k |-> "byte"]) =
             IF m = 1 THEN At("head", 0, 0, Append(a, g + 1)) ELSE At("body", m - 1, g + 1, a)
<1>a. PICK c, t : c = At("body", m, g, a) /\ t = [k |-> "byte"]
    BY Zenon
<1>1. c.at = "body" /\ c.left = m /\ c.got = g /\ c.answers = a
    BY <1>a DEF At
<1>2. t.k = "byte"
    BY <1>a
<1>3. Receive(c, t) = IF c.left = 1 THEN At("head", 0, 0, Append(c.answers, c.got + 1))
                      ELSE [c EXCEPT !.left = @ - 1, !.got = @ + 1]
    BY <1>1, <1>2 DEF Receive, At
<1>4. [c EXCEPT !.left = @ - 1, !.got = @ + 1] = At("body", m - 1, g + 1, a)
    <2>1. PICK d : d = [c EXCEPT !.left = @ - 1, !.got = @ + 1]
        BY Zenon
    <2>2. /\ d.at = "body" /\ d.left = m - 1 /\ d.got = g + 1 /\ d.answers = a
          /\ d = [x \in {"at", "left", "got", "answers"} |-> d[x]]
        BY <2>1, <1>a DEF At
    <2> QED
        BY <2>1, <2>2, AtIs
<1> QED
    BY <1>a, <1>1, <1>3, <1>4

(* A byte of a chunk.                                                      *)
LEMMA ByteInChunk ==
    ASSUME NEW a \in Seq(Nat), NEW m \in Nat, NEW g \in Nat, m > 0
    PROVE  Receive(At("chunk", m, g, a), [k |-> "byte"]) = At("chunk", m - 1, g + 1, a)
BY DEF Receive, At

(* The lines around a chunk.                                               *)
LEMMA LinesOfChunk ==
    ASSUME NEW a \in Seq(Nat), NEW n \in Nat, NEW g \in Nat
    PROVE  /\ n > 0 => Receive(At("size", 0, g, a), [k |-> "size", n |-> n]) = At("chunk", n, g, a)
           /\ Receive(At("chunk", 0, g, a), [k |-> "crlf"]) = At("size", 0, g, a)
           /\ Receive(At("size", 0, g, a), [k |-> "size", n |-> 0]) = At("end", 0, g, a)
           /\ Receive(At("end", 0, g, a), [k |-> "trailer"]) = At("end", 0, g, a)
           /\ Receive(At("end", 0, g, a), [k |-> "crlf"]) = At("head", 0, 0, Append(a, g))
<1>1. n > 0 => Receive(At("size", 0, g, a), [k |-> "size", n |-> n]) = At("chunk", n, g, a)
    <2> SUFFICES ASSUME n > 0
                 PROVE  Receive(At("size", 0, g, a), [k |-> "size", n |-> n]) = At("chunk", n, g, a)
        OBVIOUS
    <2>1. PICK c, t : c = At("size", 0, g, a) /\ t = [k |-> "size", n |-> n]
        BY Zenon
    <2>2. c.at = "size" /\ t.k = "size" /\ t.n = n /\ n # 0
        BY <2>1 DEF At
    <2>3. Receive(c, t) = [c EXCEPT !.at = "chunk", !.left = n]
        BY <2>2 DEF Receive
    <2>4. PICK d : d = [c EXCEPT !.at = "chunk", !.left = n]
        BY Zenon
    <2>5. /\ d.at = "chunk" /\ d.left = n /\ d.got = g /\ d.answers = a
          /\ d = [x \in {"at", "left", "got", "answers"} |-> d[x]]
        BY <2>4, <2>1 DEF At
    <2> QED
        BY <2>1, <2>3, <2>4, <2>5, AtIs, ZenonT(30)
<1>2. Receive(At("chunk", 0, g, a), [k |-> "crlf"]) = At("size", 0, g, a)
    BY DEF Receive, At
<1>3. Receive(At("size", 0, g, a), [k |-> "size", n |-> 0]) = At("end", 0, g, a)
    BY DEF Receive, At
<1>4. Receive(At("end", 0, g, a), [k |-> "trailer"]) = At("end", 0, g, a)
    <2>1. PICK c, t : c = At("end", 0, g, a) /\ t = [k |-> "trailer"]
        BY Zenon
    <2>2. c.at = "end" /\ t.k = "trailer"
        BY <2>1 DEF At
    <2>3. Receive(c, t) = c
        BY <2>2 DEF Receive
    <2> QED
        BY <2>1, <2>3
<1>5. Receive(At("end", 0, g, a), [k |-> "crlf"]) = At("head", 0, 0, Append(a, g))
    <2>a. PICK c, t : c = At("end", 0, g, a) /\ t = [k |-> "crlf"]
        BY Zenon
    <2>1. c.at = "end" /\ c.got = g /\ c.answers = a
        BY <2>a DEF At
    <2>2. t.k = "crlf"
        BY <2>a
    <2>3. Receive(c, t) = At("head", 0, 0, Append(c.answers, c.got))
        BY <2>1, <2>2 DEF Receive, At
    <2> QED
        BY <2>a, <2>1, <2>3
<1> QED
    BY <1>1, <1>2, <1>3, <1>4, <1>5

(* A header that does not say "chunked, trailers".                         *)
LEMMA HeadReceived ==
    ASSUME NEW a \in Seq(Nat), NEW t \in Heads, t.r = Len(a) + 1, ~t.trailers
    PROVE  Receive(At("head", 0, 0, a), t) =
             IF t.bodiless \/ (~t.chunked /\ t.n = 0) THEN At("head", 0, 0, Append(a, 0))
             ELSE IF t.chunked THEN At("size", 0, 0, a)
             ELSE At("body", t.n, 0, a)
<1>1. t.k = "head"
    BY DEF Heads
<1>a. PICK c : c = At("head", 0, 0, a)
    BY Zenon
<1>2. c.at = "head" /\ c.answers = a
    BY <1>a DEF At
<1>3. Receive(c, t) =
        IF t.bodiless \/ (~t.chunked /\ t.n = 0) THEN At("head", 0, 0, Append(c.answers, 0))
        ELSE IF t.chunked THEN [c EXCEPT !.at = "size"]
        ELSE [c EXCEPT !.at = "body", !.left = t.n]
    BY <1>1, <1>2 DEF Receive, At
<1>4. /\ [c EXCEPT !.at = "size"] = At("size", 0, 0, a)
      /\ [c EXCEPT !.at = "body", !.left = t.n] = At("body", t.n, 0, a)
    <2>1. PICK d, e : /\ d = [c EXCEPT !.at = "size"]
                      /\ e = [c EXCEPT !.at = "body", !.left = t.n]
        BY Zenon
    <2>2. /\ d.at = "size" /\ d.left = 0 /\ d.got = 0 /\ d.answers = a
          /\ d = [x \in {"at", "left", "got", "answers"} |-> d[x]]
        BY <2>1, <1>a DEF At
    <2>3. /\ e.at = "body" /\ e.left = t.n /\ e.got = 0 /\ e.answers = a
          /\ e = [x \in {"at", "left", "got", "answers"} |-> e[x]]
        BY <2>1, <1>a DEF At
    <2>4. d = At("size", 0, 0, a)
        BY <2>2, AtIs
    <2>5. e = At("body", t.n, 0, a)
        BY <2>3, AtIs
    <2> QED
        BY <2>1, <2>4, <2>5, Zenon
<1> QED
    BY <1>a, <1>2, <1>3, <1>4

(* What a hijacker writes leaves the answers alone.                        *)
LEMMA RawReceived ==
    ASSUME NEW c, NEW A, Fine(c, A)
    PROVE  /\ Fine(Receive(c, [k |-> "raw"]), A)
           /\ Receive(c, [k |-> "raw"]) = At("raw", c.left, c.got, c.answers)
<1>1. Receive(c, [k |-> "raw"]) = [c EXCEPT !.at = "raw"]
    <2>1. PICK t : t = [k |-> "raw"]
        BY Zenon
    <2>2. c.at # "untilClose" /\ t.k = "raw"
        BY <2>1 DEF Fine
    <2>3. Receive(c, t) = [c EXCEPT !.at = "raw"]
        BY <2>2 DEF Receive
    <2> QED
        BY <2>1, <2>3
<1>2. [c EXCEPT !.at = "raw"] = At("raw", c.left, c.got, c.answers)
    BY DEF At, Fine
<1> QED
    BY <1>1, <1>2, AtFine DEF Fine

(* The groups of tokens are sequences of tokens.                           *)
LEMMA GroupTypes ==
    ASSUME NEW n \in Nat
    PROVE  /\ Bytes(n) \in Seq(Tokens) /\ Len(Bytes(n)) = n
           /\ Size(n) \in Seq(Tokens)
           /\ Crlf \in Seq(Tokens)
           /\ <<[k |-> "byte"]>> \in Seq(Tokens)
           /\ <<[k |-> "trailer"]>> \in Seq(Tokens)
           /\ <<[k |-> "raw"]>> \in Seq(Tokens) /\ <<[k |-> "raw"]>> \in Seq(Raws)
           /\ Bytes(0) = << >>
           /\ Bytes(n + 1) = Bytes(n) \o <<[k |-> "byte"]>>
<1>1. /\ [k |-> "byte"] \in Tokens /\ [k |-> "crlf"] \in Tokens /\ [k |-> "trailer"] \in Tokens
      /\ [k |-> "size", n |-> n] \in Tokens
      /\ [k |-> "raw"] \in Tokens /\ [k |-> "raw"] \in Raws
    BY DEF Tokens, Plain, Sizes, Raws
<1>2. Bytes(n) \in Seq(Tokens) /\ Len(Bytes(n)) = n
    BY <1>1 DEF Bytes
<1>3. Bytes(0) = << >>
    BY DEF Bytes
<1>4. Bytes(n + 1) = Bytes(n) \o <<[k |-> "byte"]>>
    BY DEF Bytes
<1> QED
    BY <1>1, <1>2, <1>3, <1>4 DEF Size, Crlf

(* Bytes within a body of declared length m.                               *)
LEMMA WayBody ==
    ASSUME NEW A, NEW a \in Seq(Nat), a \in A, NEW m \in Nat, NEW g \in Nat, NEW n \in Nat, n < m
    PROVE  Way(At("body", m, g, a), Bytes(n), At("body", m - n, g + n, a), A)
<1> DEFINE S == {j \in Nat : j < m => Way(At("body", m, g, a), Bytes(j), At("body", m - j, g + j, a), A)}
<1>1. 0 \in S
    <2>0. m - 0 = m /\ g + 0 = g
        OBVIOUS
    <2>1. Bytes(0) = << >>
        BY GroupTypes
    <2>2. Way(At("body", m, g, a), << >>, At("body", m, g, a), A)
        BY WayNone, AtFine
    <2>3. Way(At("body", m, g, a), Bytes(0), At("body", m - 0, g + 0, a), A)
        BY <2>0, <2>1, <2>2, Zenon
    <2> QED
        BY <2>3
<1>2. ASSUME NEW j \in Nat, j \in S PROVE j + 1 \in S
    <2> SUFFICES ASSUME j + 1 < m
                 PROVE  Way(At("body", m, g, a), Bytes(j + 1), At("body", m - (j + 1), g + (j + 1), a), A)
        OBVIOUS
    <2>1. PICK p \in Nat, q \in Nat :
              /\ p = m - j /\ q = g + j /\ p # 1 /\ p - 1 = m - (j + 1) /\ q + 1 = g + (j + 1)
        OBVIOUS
    <2>2. Way(At("body", m, g, a), Bytes(j), At("body", p, q, a), A)
        BY <1>2, <2>1
    <2>3. Receive(At("body", p, q, a), [k |-> "byte"]) = At("body", p - 1, q + 1, a)
        BY <2>1, ByteInBody
    <2>4. Fine(At("body", p, q, a), A) /\ Fine(At("body", p - 1, q + 1, a), A)
        BY AtFine
    <2>5. Way(At("body", p, q, a), <<[k |-> "byte"]>>, At("body", p - 1, q + 1, a), A)
        BY <2>3, <2>4, WayOne, Zenon
    <2>6. Way(At("body", m, g, a), Bytes(j) \o <<[k |-> "byte"]>>, At("body", p - 1, q + 1, a), A)
        BY <2>2, <2>5, GroupTypes, WayJoin
    <2>7. Bytes(j + 1) = Bytes(j) \o <<[k |-> "byte"]>>
        BY GroupTypes
    <2> QED
        BY <2>1, <2>6, <2>7, Zenon
<1>3. \A j \in Nat : j \in S
    <2> HIDE DEF S
    <2> QED BY <1>1, <1>2, Induct
<1> QED
    BY <1>3

(* The last bytes of it complete the response.                             *)
LEMMA WayBodyEnd ==
    ASSUME NEW A, NEW a \in Seq(Nat), a \in A, NEW m \in Nat, NEW g \in Nat, m > 0,
           Append(a, g + m) \in A
    PROVE  Way(At("body", m, g, a), Bytes(m), At("head", 0, 0, Append(a, g + m)), A)
<1>1. PICK n \in Nat : n < m /\ n + 1 = m /\ m - n = 1
    <2>1. m - 1 \in Nat /\ m - 1 < m /\ (m - 1) + 1 = m /\ m - (m - 1) = 1
        OBVIOUS
    <2> QED
        BY <2>1
<1>2. PICK q \in Nat : q = g + n /\ q + 1 = g + m
    BY <1>1
<1>3. Way(At("body", m, g, a), Bytes(n), At("body", 1, q, a), A)
    <2>1. Way(At("body", m, g, a), Bytes(n), At("body", m - n, g + n, a), A)
        BY <1>1, WayBody
    <2> QED
        BY <1>1, <1>2, <2>1, Zenon
<1>4. Receive(At("body", 1, q, a), [k |-> "byte"]) = At("head", 0, 0, Append(a, g + m))
    <2>1. Receive(At("body", 1, q, a), [k |-> "byte"]) =
            IF 1 = 1 THEN At("head", 0, 0, Append(a, q + 1)) ELSE At("body", 1 - 1, q + 1, a)
        BY ByteInBody
    <2> QED
        BY <1>2, <2>1, Zenon
<1>5. Fine(At("body", 1, q, a), A) /\ Fine(At("head", 0, 0, Append(a, g + m)), A)
    BY AtFine
<1>6. Way(At("body", 1, q, a), <<[k |-> "byte"]>>, At("head", 0, 0, Append(a, g + m)), A)
    BY <1>4, <1>5, WayOne, Zenon
<1>7. Way(At("body", m, g, a), Bytes(n) \o <<[k |-> "byte"]>>, At("head", 0, 0, Append(a, g + m)), A)
    BY <1>3, <1>6, GroupTypes, WayJoin
<1>8. Bytes(m) = Bytes(n) \o <<[k |-> "byte"]>>
    BY <1>1, GroupTypes
<1> QED
    BY <1>7, <1>8, Zenon

(* Bytes within a chunk.                                                   *)
LEMMA WayInChunk ==
    ASSUME NEW A, NEW a \in Seq(Nat), a \in A, NEW m \in Nat, NEW g \in Nat
    PROVE  Way(At("chunk", m, g, a), Bytes(m), At("chunk", 0, g + m, a), A)
<1> DEFINE S == {j \in Nat : j <= m => Way(At("chunk", m, g, a), Bytes(j), At("chunk", m - j, g + j, a), A)}
<1>1. 0 \in S
    <2>0. m - 0 = m /\ g + 0 = g
        OBVIOUS
    <2>1. Bytes(0) = << >>
        BY GroupTypes
    <2>2. Way(At("chunk", m, g, a), << >>, At("chunk", m, g, a), A)
        BY WayNone, AtFine
    <2>3. Way(At("chunk", m, g, a), Bytes(0), At("chunk", m - 0, g + 0, a), A)
        BY <2>0, <2>1, <2>2, Zenon
    <2> QED
        BY <2>3
<1>2. ASSUME NEW j \in Nat, j \in S PROVE j + 1 \in S
    <2> SUFFICES ASSUME j + 1 <= m
                 PROVE  Way(At("chunk", m, g, a), Bytes(j + 1), At("chunk", m - (j + 1), g + (j + 1), a), A)
        OBVIOUS
    <2>1. PICK p \in Nat, q \in Nat :
              /\ p = m - j /\ q = g + j /\ p > 0 /\ p - 1 = m - (j + 1) /\ q + 1 = g + (j + 1)
        OBVIOUS
    <2>2. Way(At("chunk", m, g, a), Bytes(j), At("chunk", p, q, a), A)
        BY <1>2, <2>1
    <2>3. Receive(At("chunk", p, q, a), [k |-> "byte"]) = At("chunk", p - 1, q + 1, a)
        BY <2>1, ByteInChunk
    <2>4. Fine(At("chunk", p, q, a), A) /\ Fine(At("chunk", p - 1, q + 1, a), A)
        BY AtFine
    <2>5. Way(At("chunk", p, q, a), <<[k |-> "byte"]>>, At("chunk", p - 1, q + 1, a), A)
        BY <2>3, <2>4, WayOne, Zenon
    <2>6. Way(At("chunk", m, g, a), Bytes(j) \o <<[k |-> "byte"]>>, At("chunk", p - 1, q + 1, a), A)
        BY <2>2, <2>5, GroupTypes, WayJoin
    <2>7. Bytes(j + 1) = Bytes(j) \o <<[k |-> "byte"]>>
        BY GroupTypes
    <2> QED
        BY <2>1, <2>6, <2>7, Zenon
<1>3. \A j \in Nat : j \in S
    <2> HIDE DEF S
    <2> QED BY <1>1, <1>2, Induct
<1>4. Way(At("chunk", m, g, a), Bytes(m), At("chunk", m - m, g + m, a), A)
    BY <1>3
<1>5. m - m = 0
    OBVIOUS
<1> QED
    BY <1>4, <1>5, Zenon

-----------------------------------------------------------------------------
(* The writer and the client's place in its response *)

Writers == [headerSent : BOOLEAN, chunked : BOOLEAN, hijacked : BOOLEAN, bodiless : BOOLEAN,
            length : Nat \cup {None}, trailer : BOOLEAN]

(* k bytes of a body that has no length but None or a natural *)
Begun(x, k) ==
    /\ ~x.headerSent => ~x.chunked /\ k = 0
    /\ x.headerSent => ~x.bodiless /\ (~x.chunked => x.length \in Nat /\ k <= x.length)
Done(x, k) == x.headerSent /\ ~x.chunked /\ k = x.length

(* The client's place after k bytes of the response, the answers a before it *)
Where(x, k, a) ==
    IF ~x.headerSent THEN At("head", 0, 0, a)
    ELSE IF x.chunked THEN At("size", 0, k, a)
    ELSE IF k = x.length THEN At("head", 0, 0, Append(a, k))
    ELSE At("body", x.length - k, k, a)

(* The client is fine there.                                               *)
LEMMA WhereFine ==
    ASSUME NEW A, NEW a \in A, NEW x, NEW k, Done(x, k) => Append(a, k) \in A
    PROVE  Fine(Where(x, k, a), A)
BY AtFine DEF Where, Done

(* One chunk.                                                              *)
LEMMA WayChunk ==
    ASSUME NEW A, NEW a \in Seq(Nat), a \in A, NEW k \in Nat, NEW n \in Nat, n > 0
    PROVE  Way(At("size", 0, k, a), Size(n) \o Bytes(n) \o Crlf, At("size", 0, k + n, a), A)
<1>1. PICK q \in Nat : q = k + n
    OBVIOUS
<1>2. /\ Fine(At("size", 0, k, a), A) /\ Fine(At("chunk", n, k, a), A)
      /\ Fine(At("chunk", 0, q, a), A) /\ Fine(At("size", 0, q, a), A)
    BY AtFine
<1>3. Way(At("size", 0, k, a), Size(n), At("chunk", n, k, a), A)
    <2>1. Receive(At("size", 0, k, a), [k |-> "size", n |-> n]) = At("chunk", n, k, a)
        BY LinesOfChunk
    <2> QED
        BY <2>1, <1>2, WayOne, Zenon DEF Size
<1>4. Way(At("chunk", n, k, a), Bytes(n), At("chunk", 0, q, a), A)
    BY <1>1, WayInChunk
<1>5. Way(At("chunk", 0, q, a), Crlf, At("size", 0, q, a), A)
    <2>1. Receive(At("chunk", 0, q, a), [k |-> "crlf"]) = At("size", 0, q, a)
        BY LinesOfChunk
    <2> QED
        BY <2>1, <1>2, WayOne, Zenon DEF Crlf
<1>6. PICK s \in Seq(Tokens), u \in Seq(Tokens) : s = Size(n) /\ u = Bytes(n)
    BY GroupTypes
<1>7. PICK su \in Seq(Tokens) : su = s \o u
    <2>1. s \o u \in Seq(Tokens)
        OBVIOUS
    <2> QED
        BY <2>1, Zenon
<1>8. Way(At("size", 0, k, a), su, At("chunk", 0, q, a), A)
    BY <1>3, <1>4, <1>6, <1>7, WayJoin
<1>9. Way(At("size", 0, k, a), su \o Crlf, At("size", 0, q, a), A)
    BY <1>5, <1>7, <1>8, WayJoin, GroupTypes
<1> QED
    BY <1>1, <1>6, <1>7, <1>9, Zenon

(* What a Write adds takes the client n bytes further.                     *)
LEMMA WayWritten ==
    ASSUME NEW A, NEW a \in Seq(Nat), a \in A, NEW x \in Writers, NEW k \in Nat, NEW n \in Nat, n > 0,
           x.headerSent, ~x.chunked => x.length \in Nat /\ k + n <= x.length,
           Done(x, k + n) => Append(a, k + n) \in A
    PROVE  Way(Where(x, k, a), Body(x, n), Where(x, k + n, a), A)
<1>1. CASE x.chunked
    <2>1. Where(x, k, a) = At("size", 0, k, a) /\ Where(x, k + n, a) = At("size", 0, k + n, a)
        BY <1>1 DEF Where
    <2>2. Body(x, n) = Size(n) \o Bytes(n) \o Crlf
        BY <1>1 DEF Body
    <2> QED
        BY <2>1, <2>2, WayChunk
<1>2. CASE ~x.chunked
    <2>1. PICK m \in Nat, q \in Nat : m = x.length - k /\ q = k + n /\ n <= m /\ m > 0 /\ q <= x.length
        BY <1>2
    <2>2. Body(x, n) = Bytes(n) /\ Where(x, k, a) = At("body", m, k, a)
        BY <1>2, <2>1 DEF Body, Where
    <2>3. CASE q = x.length
        <3>1. n = m
            BY <1>2, <2>1, <2>3
        <3>2. Where(x, q, a) = At("head", 0, 0, Append(a, q))
            BY <1>2, <2>3 DEF Where
        <3>3. Append(a, q) \in A
            BY <1>2, <2>1, <2>3 DEF Done
        <3>4. Way(At("body", m, k, a), Bytes(m), At("head", 0, 0, Append(a, q)), A)
            BY <2>1, <3>1, <3>3, WayBodyEnd
        <3> QED
            BY <2>1, <2>2, <3>1, <3>2, <3>4, Zenon
    <2>4. CASE q # x.length
        <3>1. n < m /\ m - n = x.length - q
            BY <1>2, <2>1, <2>4
        <3>2. Where(x, q, a) = At("body", x.length - q, q, a)
            BY <1>2, <2>4 DEF Where
        <3>3. Way(At("body", m, k, a), Bytes(n), At("body", m - n, k + n, a), A)
            BY <3>1, WayBody
        <3> QED
            BY <2>1, <2>2, <3>1, <3>2, <3>3, Zenon
    <2> QED
        BY <2>3, <2>4
<1> QED
    BY <1>1, <1>2

(* The header takes it to the body, or past it if that is empty.           *)
LEMMA WayHeader ==
    ASSUME NEW A, NEW a \in Seq(Nat), a \in A, NEW x \in Writers, NEW k \in Nat, r \in Nat,
           Begun(x, k), ~x.bodiless, x.headerSent \/ ~x.trailer, Len(a) + 1 = r,
           Done(Sent(x), k) => Append(a, k) \in A
    PROVE  /\ Way(Where(x, k, a), HeaderOf(x), Where(Sent(x), k, a), A)
           /\ HeaderOf(x) \in Seq(Tokens)
           /\ Sent(x) \in Writers
           /\ Begun(Sent(x), k) /\ Sent(x).headerSent
<1>1. CASE x.headerSent
    <2>1. Sent(x) = x /\ HeaderOf(x) = << >>
        BY <1>1 DEF Sent, HeaderOf
    <2> QED
        BY <1>1, <2>1, WhereFine, WayNone
<1>2. CASE ~x.headerSent
    <2>1. PICK y : y = [x EXCEPT !.headerSent = TRUE, !.chunked = Chunks(x)]
        BY Zenon
    <2>2. y = Sent(x)
        BY <1>2, <2>1 DEF Sent
    <2>3. /\ y \in Writers /\ y.headerSent /\ y.length = x.length
          /\ (y.chunked <=> Chunks(x)) /\ ~y.bodiless
        BY <2>1 DEF Writers, Chunks
    <2>4. ~y.chunked => y.length \in Nat
        BY <2>3 DEF Chunks, Writers
    <2>5. k = 0 /\ Begun(y, k)
        BY <1>2, <2>3, <2>4 DEF Begun
    <2>6. PICK t : t = [k |-> "head", n |-> IF x.length = None THEN 0 ELSE x.length, r |-> r,
                        chunked |-> Chunks(x), trailers |-> x.trailer, bodiless |-> x.bodiless]
        BY Zenon
    <2>7. t \in Heads /\ HeaderOf(x) = <<t>>
        BY <1>2, <2>6 DEF Heads, HeaderOf, Writers, Chunks
    <2>8. /\ t.r = Len(a) + 1 /\ ~t.bodiless /\ ~t.trailers
          /\ (t.chunked <=> y.chunked) /\ (~y.chunked => t.n = y.length)
        BY <1>2, <2>3, <2>4, <2>6 DEF Chunks
    <2>9. Where(x, k, a) = At("head", 0, 0, a)
        BY <1>2 DEF Where
    <2>10. Receive(At("head", 0, 0, a), t) = Where(y, k, a)
        <3>1. Receive(At("head", 0, 0, a), t) =
                 IF t.bodiless \/ (~t.chunked /\ t.n = 0) THEN At("head", 0, 0, Append(a, 0))
                 ELSE IF t.chunked THEN At("size", 0, 0, a)
                 ELSE At("body", t.n, 0, a)
            BY <2>7, <2>8, HeadReceived
        <3>2. CASE y.chunked
            BY <3>1, <3>2, <2>3, <2>5, <2>8 DEF Where
        <3>3. CASE ~y.chunked /\ y.length = 0
            BY <3>1, <3>3, <2>3, <2>5, <2>8 DEF Where
        <3>4. CASE ~y.chunked /\ y.length # 0
            <4>1. y.length - 0 = y.length
                BY <3>4, <2>4
            <4> QED
                BY <4>1, <3>1, <3>4, <2>3, <2>5, <2>8 DEF Where
        <3> QED
            BY <3>2, <3>3, <3>4
    <2>11. Fine(Where(x, k, a), A) /\ Fine(Where(y, k, a), A)
        <3>1. ~Done(x, k)
            BY <1>2 DEF Done
        <3> QED
            BY <3>1, <2>2, WhereFine
    <2>12. Way(Where(x, k, a), <<t>>, Where(y, k, a), A)
        BY <2>9, <2>10, <2>11, WayOne, Zenon
    <2>13. <<t>> \in Seq(Tokens)
        BY <2>7 DEF Tokens
    <2> QED
        BY <2>2, <2>3, <2>5, <2>7, <2>12, <2>13
<1> QED
    BY <1>1, <1>2

(* The tokens of Body and Terminator.                                      *)
LEMMA BodyTypes ==
    ASSUME NEW x \in Writers, NEW n \in Nat
    PROVE  Body(x, n) \in Seq(Tokens) /\ Terminator(x) \in Seq(Tokens)
<1>1. PICK s \in Seq(Tokens), u \in Seq(Tokens), v \in Seq(Tokens) :
        s = Size(n) /\ u = Bytes(n) /\ v = Crlf
    BY GroupTypes
<1>2. PICK z \in Seq(Tokens), t \in Seq(Tokens) : z = Size(0) /\ t = <<[k |-> "trailer"]>>
    BY GroupTypes
<1>3. s \o u \o v \in Seq(Tokens) /\ z \o t \o v \in Seq(Tokens) /\ z \o << >> \o v \in Seq(Tokens)
    OBVIOUS
<1>4. Body(x, n) \in Seq(Tokens)
    BY <1>1, <1>3 DEF Body
<1>5. Terminator(x) \in Seq(Tokens)
    BY <1>1, <1>2, <1>3 DEF Terminator
<1> QED
    BY <1>4, <1>5

(* The recursion of Copied is well-defined.                                *)
LEMMA CopiedSteps ==
    ASSUME NEW x \in Writers
    PROVE  /\ Copied(x, 0) = << >>
           /\ \A n \in Nat : /\ Copied(x, n) \in Seq(Tokens)
                             /\ Copied(x, n + 1) = Copied(x, n) \o Body(x, 1)
<1> DEFINE Def(f, n) == f = [i \in 0..n |-> IF i = 0 THEN << >> ELSE f[i - 1] \o Body(x, 1)]
<1>1. PICK b \in Seq(Tokens) : b = Body(x, 1)
    BY BodyTypes
<1> DEFINE S == {n \in Nat : \E f : Def(f, n)}
<1>2. 0 \in S
    <2>1. Def([i \in 0..0 |-> << >>], 0)
        OBVIOUS
    <2> QED BY <2>1
<1>3. ASSUME NEW n \in Nat, n \in S PROVE n + 1 \in S
    <2>1. PICK f : Def(f, n)
        BY <1>3
    <2> DEFINE g == [i \in 0..(n + 1) |-> IF i = n + 1 THEN f[n] \o b ELSE f[i]]
    <2>2. \A i \in 0..n : f[i] = IF i = 0 THEN << >> ELSE f[i - 1] \o b
        BY <2>1, <1>1
    <2>3. \A i \in 0..n : g[i] = f[i]
        OBVIOUS
    <2>4. g[n + 1] = f[n] \o b
        OBVIOUS
    <2>5. ASSUME NEW i \in 0..(n + 1) PROVE g[i] = IF i = 0 THEN << >> ELSE g[i - 1] \o b
        <3> HIDE DEF g
        <3>1. CASE i = n + 1
            <4>1. i - 1 \in 0..n /\ i - 1 = n /\ i # 0
                BY <3>1
            <4> QED
                BY <3>1, <4>1, <2>3, <2>4, Zenon
        <3>2. CASE i # n + 1
            <4>1. i \in 0..n /\ (i # 0 => i - 1 \in 0..n)
                BY <3>2
            <4> QED
                BY <4>1, <2>2, <2>3, Zenon
        <3> QED
            BY <3>1, <3>2
    <2>6. Def(g, n + 1)
        BY <2>5, <1>1
    <2> HIDE DEF Def, g
    <2> QED
        BY <2>6
<1>4. \A n \in Nat : n \in S
    <2> HIDE DEF S
    <2> QED BY <1>2, <1>3, Induct
<1> DEFINE F(n) == CHOOSE f : Def(f, n)
<1>5. ASSUME NEW n \in Nat PROVE Def(F(n), n) /\ Copied(x, n) = F(n)[n]
    <2>1. PICK f : Def(f, n)
        BY <1>4
    <2>2. Def(F(n), n)
        BY <2>1
    <2>3. Copied(x, n) = F(n)[n]
        BY DEF Copied
    <2> QED
        BY <2>2, <2>3
<1>6. ASSUME NEW n \in Nat
      PROVE  /\ F(n)[0] = << >>
             /\ \A i \in 0..n : i # 0 => F(n)[i] = F(n)[i - 1] \o b
    <2> HIDE DEF F
    <2>1. PICK f : f = F(n)
        BY Zenon
    <2>2. Def(f, n)
        BY <2>1, <1>5, Zenon
    <2>3. \A i \in 0..n : f[i] = IF i = 0 THEN << >> ELSE f[i - 1] \o b
        BY <2>2, <1>1
    <2>4. 0 \in 0..n
        OBVIOUS
    <2>5. f[0] = << >> /\ \A i \in 0..n : i # 0 => f[i] = f[i - 1] \o b
        BY <2>3, <2>4, Zenon
    <2> QED
        BY <2>1, <2>5, Zenon
<1> HIDE DEF F, Def, S
<1>7. ASSUME NEW n \in Nat, NEW m \in Nat, m >= n PROVE F(m)[n] = F(n)[n]
    <2> DEFINE R == {i \in Nat : i <= n => F(m)[i] = F(n)[i]}
    <2>1. 0 \in R
        BY <1>6
    <2>2. ASSUME NEW i \in Nat, i \in R PROVE i + 1 \in R
        <3> SUFFICES ASSUME i + 1 <= n PROVE F(m)[i + 1] = F(n)[i + 1]
            OBVIOUS
        <3>1. i + 1 \in 0..n /\ i + 1 \in 0..m /\ i + 1 # 0 /\ (i + 1) - 1 = i
            BY <1>7
        <3>2. F(m)[i] = F(n)[i]
            BY <2>2
        <3>3. F(n)[i + 1] = F(n)[i] \o b /\ F(m)[i + 1] = F(m)[i] \o b
            <4>1. /\ F(n)[i + 1] = F(n)[(i + 1) - 1] \o b
                  /\ F(m)[i + 1] = F(m)[(i + 1) - 1] \o b
                BY <1>6, <3>1, Zenon
            <4> QED
                BY <3>1, <4>1, Zenon
        <3> QED
            BY <3>2, <3>3, Zenon
    <2>3. \A i \in Nat : i \in R
        <3> HIDE DEF R
        <3> QED BY <2>1, <2>2, Induct
    <2> QED
        BY <2>3
<1>8. Copied(x, 0) = << >>
    BY <1>5, <1>6
<1>9. ASSUME NEW n \in Nat PROVE Copied(x, n + 1) = Copied(x, n) \o b
    <2>1. n + 1 \in Nat /\ n + 1 >= n /\ n + 1 \in 0..(n + 1) /\ n + 1 # 0 /\ (n + 1) - 1 = n
        OBVIOUS
    <2>2. F(n + 1)[n + 1] = F(n + 1)[n] \o b
        <3>1. F(n + 1)[n + 1] = F(n + 1)[(n + 1) - 1] \o b
            BY <2>1, <1>6, Zenon
        <3> QED
            BY <2>1, <3>1, Zenon
    <2>3. F(n + 1)[n] = F(n)[n]
        BY <2>1, <1>7, Zenon
    <2> QED
        BY <2>1, <2>2, <2>3, <1>5, Zenon
<1>10. \A n \in Nat : Copied(x, n) \in Seq(Tokens)
    <2> DEFINE R == {n \in Nat : Copied(x, n) \in Seq(Tokens)}
    <2>1. 0 \in R
        <3>1. << >> \in Seq(Tokens)
            OBVIOUS
        <3>2. Copied(x, 0) \in Seq(Tokens)
            BY <1>8, <3>1, Zenon
        <3> QED
            BY <3>2
    <2>2. ASSUME NEW n \in Nat, n \in R PROVE n + 1 \in R
        <3>1. PICK u \in Seq(Tokens) : u = Copied(x, n)
            BY <2>2
        <3>2. u \o b \in Seq(Tokens)
            OBVIOUS
        <3>3. Copied(x, n + 1) \in Seq(Tokens)
            BY <1>9, <3>1, <3>2, Zenon
        <3> QED
            BY <3>3
    <2>3. \A n \in Nat : n \in R
        <3> HIDE DEF R
        <3> QED BY <2>1, <2>2, Induct
    <2> QED
        BY <2>3
<1> QED
    BY <1>1, <1>8, <1>9, <1>10

(* What ReadFrom copies takes the client n bytes further.                  *)
LEMMA WayCopied ==
    ASSUME NEW A, NEW a \in Seq(Nat), a \in A, NEW x \in Writers, NEW k \in Nat, NEW n \in Nat,
           x.headerSent, ~x.chunked => x.length \in Nat /\ k + n <= x.length,
           Done(x, k + n) => Append(a, k + n) \in A
    PROVE  Way(Where(x, k, a), Copied(x, n), Where(x, k + n, a), A)
<1> DEFINE S == {j \in Nat : j <= n => Way(Where(x, k, a), Copied(x, j), Where(x, k + j, a), A)}
<1>1. 0 \in S
    <2>1. k + 0 = k
        OBVIOUS
    <2>2. Done(x, k) => Append(a, k) \in A
        <3> SUFFICES ASSUME Done(x, k) PROVE n = 0
            BY <2>1
        <3> QED
            BY DEF Done
    <2>3. Way(Where(x, k, a), << >>, Where(x, k, a), A)
        BY <2>2, WhereFine, WayNone
    <2>4. Way(Where(x, k, a), Copied(x, 0), Where(x, k + 0, a), A)
        BY <2>1, <2>3, CopiedSteps, Zenon
    <2> QED
        BY <2>4
<1>2. ASSUME NEW j \in Nat, j \in S PROVE j + 1 \in S
    <2> SUFFICES ASSUME j + 1 <= n
                 PROVE  Way(Where(x, k, a), Copied(x, j + 1), Where(x, k + (j + 1), a), A)
        OBVIOUS
    <2>1. PICK q \in Nat : q = k + j /\ q + 1 = k + (j + 1)
        OBVIOUS
    <2>2. Way(Where(x, k, a), Copied(x, j), Where(x, q, a), A)
        BY <1>2, <2>1
    <2>3. ~x.chunked => x.length \in Nat /\ q + 1 <= x.length
        BY <2>1
    <2>4. Done(x, q + 1) => Append(a, q + 1) \in A
        <3> SUFFICES ASSUME Done(x, q + 1) PROVE q + 1 = k + n
            BY Zenon
        <3> QED
            BY <2>1 DEF Done
    <2>5. Way(Where(x, q, a), Body(x, 1), Where(x, q + 1, a), A)
        BY <2>3, <2>4, WayWritten
    <2>6. PICK u \in Seq(Tokens), b \in Seq(Tokens) : u = Copied(x, j) /\ b = Body(x, 1)
        BY CopiedSteps, BodyTypes
    <2>7. Way(Where(x, k, a), u \o b, Where(x, q + 1, a), A)
        BY <2>2, <2>5, <2>6, WayJoin
    <2>8. Copied(x, j + 1) = u \o b
        BY <2>6, CopiedSteps
    <2> QED
        BY <2>1, <2>7, <2>8, Zenon
<1>3. \A j \in Nat : j \in S
    <2> HIDE DEF S
    <2> QED BY <1>1, <1>2, Induct
<1> QED
    BY <1>3

(* The terminator completes a chunked response.                            *)
LEMMA WayTerminator ==
    ASSUME NEW A, NEW a \in Seq(Nat), a \in A, NEW x \in Writers, NEW k \in Nat,
           x.chunked, Append(a, k) \in A
    PROVE  Way(At("size", 0, k, a), Terminator(x), At("head", 0, 0, Append(a, k)), A)
<1>1. /\ Fine(At("size", 0, k, a), A) /\ Fine(At("end", 0, k, a), A)
      /\ Fine(At("head", 0, 0, Append(a, k)), A)
    BY AtFine
<1>2. /\ Receive(At("size", 0, k, a), [k |-> "size", n |-> 0]) = At("end", 0, k, a)
      /\ Receive(At("end", 0, k, a), [k |-> "trailer"]) = At("end", 0, k, a)
      /\ Receive(At("end", 0, k, a), [k |-> "crlf"]) = At("head", 0, 0, Append(a, k))
    BY LinesOfChunk
<1>3. Way(At("size", 0, k, a), Size(0), At("end", 0, k, a), A)
    BY <1>1, <1>2, WayOne, Zenon DEF Size
<1>4. Way(At("end", 0, k, a), <<[k |-> "trailer"]>>, At("end", 0, k, a), A)
    BY <1>1, <1>2, WayOne, Zenon
<1>5. Way(At("end", 0, k, a), << >>, At("end", 0, k, a), A)
    BY <1>1, WayNone
<1>6. Way(At("end", 0, k, a), Crlf, At("head", 0, 0, Append(a, k)), A)
    BY <1>1, <1>2, WayOne, Zenon DEF Crlf
<1>7. PICK t \in Seq(Tokens) : t = IF x.trailer THEN <<[k |-> "trailer"]>> ELSE << >>
    BY GroupTypes
<1>8. Way(At("end", 0, k, a), t, At("end", 0, k, a), A)
    BY <1>4, <1>5, <1>7
<1>9. PICK z \in Seq(Tokens), v \in Seq(Tokens) : z = Size(0) /\ v = Crlf
    BY GroupTypes
<1>10. PICK zt \in Seq(Tokens) : zt = z \o t
    <2>1. z \o t \in Seq(Tokens)
        OBVIOUS
    <2> QED
        BY <2>1, Zenon
<1>11. Way(At("size", 0, k, a), zt, At("end", 0, k, a), A)
    BY <1>3, <1>8, <1>9, <1>10, WayJoin
<1>12. Way(At("size", 0, k, a), zt \o v, At("head", 0, 0, Append(a, k)), A)
    BY <1>6, <1>9, <1>11, WayJoin
<1>13. Terminator(x) = zt \o v
    BY <1>7, <1>9, <1>10, Zenon DEF Terminator
<1> QED
    BY <1>12, <1>13, Zenon

(* What a hijacker writes.                                                 *)
LEMMA WayRaw ==
    ASSUME NEW A, NEW c, Fine(c, A), NEW s \in Seq(Raws)
    PROVE  \E d : Way(c, s, d, A) /\ d.answers = c.answers
<1>1. PICK f : Course(f, c, s)
    BY ReceivedCourse
<1> DEFINE Good(d) == Fine(d, A) /\ d.answers = c.answers
<1> DEFINE S == {i \in Nat : i <= Len(s) => Good(f[i])}
<1>2. 0 \in S
    BY <1>1 DEF Course
<1>3. ASSUME NEW i \in Nat, i \in S PROVE i + 1 \in S
    <2> SUFFICES ASSUME i + 1 <= Len(s) PROVE Good(f[i + 1])
        OBVIOUS
    <2>1. i + 1 \in 1..Len(s) /\ (i + 1) - 1 = i
        OBVIOUS
    <2>2. s[i + 1] = [k |-> "raw"]
        <3>1. s[i + 1] \in Raws
            BY <2>1
        <3> QED
            BY <3>1 DEF Raws
    <2>3. f[i + 1] = Receive(f[i], [k |-> "raw"])
        <3>1. f[i + 1] = Receive(f[(i + 1) - 1], s[i + 1])
            BY <1>1, <2>1, Zenon DEF Course
        <3> QED
            BY <3>1, <2>1, <2>2, Zenon
    <2>4. Good(f[i])
        BY <1>3
    <2>5. /\ Fine(f[i + 1], A)
          /\ f[i + 1] = At("raw", f[i].left, f[i].got, f[i].answers)
        BY <2>3, <2>4, RawReceived
    <2>6. f[i + 1].answers = f[i].answers
        BY <2>5 DEF At
    <2> QED
        BY <2>4, <2>5, <2>6, Zenon
<1>4. \A i \in Nat : i \in S
    <2> HIDE DEF S
    <2> QED BY <1>2, <1>3, Induct
<1>5. \A i \in 0..Len(s) : Good(f[i])
    BY <1>4
<1>6. Way(c, s, f[Len(s)], A)
    BY <1>1, <1>5 DEF Way
<1> QED
    BY <1>5, <1>6

-----------------------------------------------------------------------------
(* bufio.Writer *)

(* A way of no tokens ends where it starts.                                *)
LEMMA WayNowhere ==
    ASSUME NEW A, NEW c, NEW d, Way(c, << >>, d, A)
    PROVE  c = d
<1>1. Len(<< >>) = 0
    OBVIOUS
<1> QED
    BY <1>1, Zenon DEF Way, Course

(* More answers may be allowed on a way.                                   *)
LEMMA WayMore ==
    ASSUME NEW A, NEW B, A \subseteq B, NEW c, NEW d, NEW s
    PROVE  /\ Fine(c, A) => Fine(c, B)
           /\ Way(c, s, d, A) => Way(c, s, d, B)
<1>1. \A x : Fine(x, A) => Fine(x, B)
    BY DEF Fine
<1> QED
    BY <1>1, Zenon DEF Way

(* A buffer of tokens of some kind holds only those.                       *)
LEMMA TransmitBuffer ==
    ASSUME NEW T, buf \in Seq(T), NEW s \in Seq(T), NEW least \in 0..Len(buf \o s), Transmit(s, least)
    PROVE  buf' \in Seq(T)
<1>1. PICK out \in Seq(T) : out = buf \o s
    <2>1. buf \o s \in Seq(T)
        OBVIOUS
    <2> QED
        BY <2>1, Zenon
<1>2. \A n \in 0..Len(out) : SubSeq(out, n + 1, Len(out)) \in Seq(T)
    BY Rest
<1>3. << >> \in Seq(T)
    OBVIOUS
<1>4. \/ buf' = buf
      \/ \E n \in {least, Len(out)} : buf' = SubSeq(out, n + 1, Len(out))
      \/ buf' = << >>
    BY <1>1, Zenon DEF Transmit, bufVars
<1>5. least \in 0..Len(out) /\ Len(out) \in 0..Len(out)
    BY <1>1
<1> QED
    BY <1>2, <1>3, <1>4, <1>5, Zenon

(* With a sticky error nothing happens.                                    *)
LEMMA TransmitFails ==
    ASSUME NEW s, NEW least, err, Transmit(s, least)
    PROVE  UNCHANGED <<buf, err, client>>
BY Zenon DEF Transmit, bufVars

(* Without it the client comes some way through the buffer and the new     *)
(* tokens, and what is left of them is still to come.                      *)
LEMMA TransmitWay ==
    ASSUME NEW A, NEW e, NEW d, NEW s \in Seq(Tokens), buf \in Seq(Tokens), ~err,
           NEW least \in 0..Len(buf \o s), Way(client, buf, e, A), Way(e, s, d, A),
           Transmit(s, least)
    PROVE  /\ Fine(client', A)
           /\ err' \in BOOLEAN
           /\ ~err' => Way(client', buf', d, A)
           /\ ~err' /\ least = Len(buf \o s) => buf' = << >> /\ client' = d
<1>1. PICK out \in Seq(Tokens) : out = buf \o s
    <2>1. buf \o s \in Seq(Tokens)
        OBVIOUS
    <2> QED
        BY <2>1, Zenon
<1>2. Way(client, out, d, A)
    BY <1>1, WayJoin
<1>3. PICK least1 \in 0..Len(out) : least1 = least
    BY <1>1
<1>4. CASE /\ \E n \in {least, Len(out)} :
                 client' = Received(client, out)[n] /\ buf' = SubSeq(out, n + 1, Len(out))
           /\ err' = FALSE
    <2>1. PICK n \in {least, Len(out)} :
                 client' = Received(client, out)[n] /\ buf' = SubSeq(out, n + 1, Len(out))
        BY <1>4
    <2>2. n \in 0..Len(out)
        BY <1>3, <2>1
    <2>3. Fine(client', A) /\ Way(client', buf', d, A)
        BY <1>2, <2>1, <2>2, WayThere
    <2>4. ASSUME least = Len(out) PROVE buf' = << >> /\ client' = d
        <3>1. n = Len(out)
            BY <2>1, <2>4
        <3>2. buf' = << >>
            <4>1. PICK m \in Int : m = Len(out) /\ m < m + 1
                OBVIOUS
            <4> QED
                BY <2>1, <3>1, <4>1, SubSeqEmpty
        <3>3. client' = d
            BY <2>3, <3>2, WayNowhere
        <3> QED
            BY <3>2, <3>3
    <2> QED
        BY <1>1, <1>4, <2>3, <2>4
<1>5. CASE err' = TRUE /\ \E n \in 0..Len(out) : client' = Received(client, out)[n]
    <2>1. PICK n \in 0..Len(out) : client' = Received(client, out)[n]
        BY <1>5
    <2>2. Fine(client', A)
        BY <1>2, <2>1, WayThere
    <2> QED
        BY <1>5, <2>2
<1> QED
    BY <1>1, <1>4, <1>5, Zenon DEF Transmit

-----------------------------------------------------------------------------
(* The inductive invariant *)

(* At most k answers, which say what the handlers wrote *)
Upto(k, f) == {a \in Seq(Nat) : Len(a) <= k /\ \A i \in 1..Len(a) : a[i] = f[i]}

Phases == {"idle", "handler", "hijacked", "closed", "crashed"}
Types ==
    /\ phase \in Phases
    /\ r \in 0..MaxRequests
    /\ w \in Writers
    /\ buf \in Seq(Tokens) /\ err \in BOOLEAN
    /\ declared \in Nat \cup {None}
    /\ wrote \in [1..MaxRequests -> Nat]
    /\ cut \in BOOLEAN
Behind ==
    /\ Fine(client, Upto(r, wrote))
    /\ \A i \in 1..MaxRequests : i > r => wrote[i] = 0
Waiting ==
    phase = "idle" =>
        /\ w = Zero /\ buf = << >> /\ ~err
        /\ \E a \in Upto(r, wrote) : client = At("head", 0, 0, a) /\ Len(a) = r
Serving ==
    phase = "handler" => /\ r > 0 /\ w.length = declared /\ ~ (w.bodiless /\ w.trailer)
                         /\ w.headerSent \/ w.hijacked \/ err \/ ~w.trailer
Unended ==
    phase = "handler" /\ w.headerSent /\ w.chunked => Fine(client, Upto(r - 1, wrote))

(* While the handler writes: what is buffered takes the client to the place *)
(* that the writer's state says, through answers that are whole.            *)
Count(x, k) == IF Done(x, k) THEN r ELSE r - 1
Answering ==
    phase = "handler" /\ ~err /\ ~w.hijacked =>
        /\ Begun(w, wrote[r])
        /\ \E a \in Upto(r - 1, wrote) :
              /\ Len(a) + 1 = r
              /\ Way(client, buf, Where(w, wrote[r], a), Upto(Count(w, wrote[r]), wrote))
Taken ==
    (phase = "hijacked" \/ (phase = "handler" /\ w.hijacked)) /\ ~err => buf \in Seq(Raws)
CutOpen ==
    cut => phase \in {"closed", "crashed"} /\ Fine(client, Upto(r - 1, wrote))

RInv ==
    /\ Types /\ Behind /\ Waiting /\ Serving
    /\ Unended /\ Answering /\ Taken /\ CutOpen

(* The answers allowed grow with their number and with what is written     *)
(* after them.                                                             *)
LEMMA UptoMore ==
    ASSUME NEW j \in Int, NEW k \in Int, j <= k, NEW f, NEW g, \A i \in 1..j : g[i] = f[i]
    PROVE  Upto(j, f) \subseteq Upto(k, g)
<1> SUFFICES ASSUME NEW a \in Upto(j, f) PROVE a \in Upto(k, g)
    OBVIOUS
<1>1. a \in Seq(Nat) /\ Len(a) <= j /\ \A i \in 1..Len(a) : a[i] = f[i]
    BY DEF Upto
<1>2. PICK n \in Nat : n = Len(a)
    BY <1>1
<1>3. \A i \in 1..n : i \in 1..j
    BY <1>1, <1>2
<1>4. Len(a) <= k
    BY <1>1, <1>2
<1> QED
    BY <1>1, <1>2, <1>3, <1>4, Zenon DEF Upto

(* An answer is added.                                                     *)
LEMMA UptoAppend ==
    ASSUME NEW q \in Nat, NEW f, NEW a \in Upto(q - 1, f), Len(a) + 1 = q, NEW k \in Nat, f[q] = k
    PROVE  Append(a, k) \in Upto(q, f)
<1>1. a \in Seq(Nat) /\ \A i \in 1..Len(a) : a[i] = f[i]
    BY DEF Upto
<1>2. PICK n \in Nat : n = Len(a) /\ n + 1 = q
    BY <1>1
<1>a. PICK b \in Seq(Nat) : b = Append(a, k) /\ Len(b) = q
    <2>1. Append(a, k) \in Seq(Nat) /\ Len(Append(a, k)) = Len(a) + 1
        BY <1>1
    <2> QED
        BY <2>1, Zenon
<1>3. \A i \in 1..q : b[i] = f[i]
    <2> TAKE i \in 1..q
    <2>1. CASE i = q
        BY <2>1, <1>1, <1>2, <1>a
    <2>2. CASE i # q
        BY <2>2, <1>1, <1>2, <1>a
    <2> QED
        BY <2>1, <2>2
<1>4. q <= q
    OBVIOUS
<1> QED
    BY <1>a, <1>3, <1>4, Zenon DEF Upto

(* The initial state.                                                      *)
LEMMA RInit ==
    ASSUME Init
    PROVE  RInv
<1>1. /\ phase = "idle" /\ r = 0 /\ w = Zero /\ buf = << >> /\ err = FALSE /\ declared = None
      /\ client = At("head", 0, 0, << >>) /\ wrote = [i \in 1..MaxRequests |-> 0] /\ cut = FALSE
    BY Zenon DEF Init, At
<1>2. Types
    <2>1. 0 \in 0..MaxRequests
        BY ResponseAssumption
    <2>2. Zero \in Writers
        BY DEF Zero, Writers
    <2>3. << >> \in Seq(Tokens)
        OBVIOUS
    <2>4. wrote \in [1..MaxRequests -> Nat]
        BY <1>1
    <2>5. phase \in Phases /\ err \in BOOLEAN /\ cut \in BOOLEAN /\ declared \in Nat \cup {None}
        BY <1>1 DEF Phases
    <2> QED
        BY <1>1, <2>1, <2>2, <2>3, <2>4, <2>5, Zenon DEF Types
<1>3. << >> \in Upto(r, wrote) /\ Len(<< >>) = r
    BY <1>1 DEF Upto
<1>4. Behind
    <2>1. Fine(client, Upto(r, wrote))
        BY <1>1, <1>3, AtFine
    <2> QED
        BY <1>1, <2>1 DEF Behind
<1>5. Waiting
    BY <1>1, <1>3 DEF Waiting
<1> QED
    BY <1>1, <1>2, <1>4, <1>5 DEF RInv, Serving, Unended, Answering, Taken, CutOpen

(* Steps that leave the response alone.                                    *)
LEMMA RStutter ==
    ASSUME RInv, UNCHANGED <<phase, r, w, buf, err, client, declared, wrote, cut>>
    PROVE  RInv'
BY DEF RInv, Types, Behind, Waiting, Serving, Unended, Count, Answering, Taken, CutOpen

-----------------------------------------------------------------------------
(* The handler's calls that write *)

(* What ensureHeaderSent leaves.                                           *)
LEMMA SentFacts ==
    ASSUME NEW x \in Writers
    PROVE  /\ Sent(x) \in Writers /\ Sent(x).headerSent
           /\ Sent(x).length = x.length /\ Sent(x).hijacked = x.hijacked
           /\ Sent(x).bodiless = x.bodiless /\ Sent(x).trailer = x.trailer
           /\ ~x.headerSent /\ ~Sent(x).chunked => x.length \in Nat
           /\ x.headerSent => Sent(x) = x
           /\ LET z == [Sent(x) EXCEPT !.headerSent = x.headerSent]
              IN  /\ z \in Writers /\ z.headerSent = x.headerSent
                  /\ z.length = x.length /\ z.hijacked = x.hijacked
                  /\ z.bodiless = x.bodiless /\ z.trailer = x.trailer
                  /\ x.headerSent => z.chunked = x.chunked
<1>1. CASE x.headerSent
    BY <1>1 DEF Sent, Writers
<1>2. CASE ~x.headerSent
    <2>1. PICK y : y = [x EXCEPT !.headerSent = TRUE, !.chunked = Chunks(x)] /\ y = Sent(x)
        BY <1>2, Zenon DEF Sent
    <2>2. Chunks(x) \in BOOLEAN
        BY DEF Chunks, Writers
    <2>3. /\ y \in Writers /\ y.headerSent = TRUE /\ y.chunked = Chunks(x) /\ y.length = x.length
          /\ y.hijacked = x.hijacked /\ y.bodiless = x.bodiless /\ y.trailer = x.trailer
        BY <2>1, <2>2 DEF Writers
    <2>4. ~y.chunked => x.length \in Nat
        BY <2>3 DEF Chunks, Writers
    <2>5. PICK z : z = [y EXCEPT !.headerSent = x.headerSent]
        BY Zenon
    <2>6. /\ z \in Writers /\ z.headerSent = x.headerSent
          /\ z.length = x.length /\ z.hijacked = x.hijacked
          /\ z.bodiless = x.bodiless /\ z.trailer = x.trailer
        BY <2>3, <2>5 DEF Writers
    <2> QED
        BY <1>2, <2>1, <2>3, <2>4, <2>5, <2>6
<1> QED
    BY <1>1, <1>2

(* The writer after a call that writes.                                    *)
LEMMA HeaderSentFacts ==
    ASSUME w \in Writers, ~err, err' \in BOOLEAN, HeaderSentNow
    PROVE  /\ w' \in Writers /\ w'.length = w.length /\ w'.hijacked = w.hijacked
           /\ w'.bodiless = w.bodiless /\ w'.trailer = w.trailer
           /\ w'.headerSent /\ w'.chunked => Sent(w).chunked
           /\ ~err' => w' = Sent(w)
<1>1. CASE w' = Sent(w)
    BY <1>1, SentFacts
<1>2. CASE err' /\ w' = w
    BY <1>2, SentFacts
<1>3. CASE err' /\ w' = [Sent(w) EXCEPT !.headerSent = w.headerSent]
    BY <1>3, SentFacts
<1> QED
    BY <1>1, <1>2, <1>3, Zenon DEF HeaderSentNow

(* The answers after n more bytes.                                         *)
WroteMore(n) == [wrote EXCEPT ![r] = wrote[r] + n]
AnswersNow(n) == Upto(Count(Sent(w), wrote[r] + n), WroteMore(n))

(* Where a handler's request is.                                           *)
LEMMA AtRequest ==
    ASSUME RInv, phase = "handler"
    PROVE  /\ r \in 1..MaxRequests /\ r \in Nat /\ r - 1 \in Nat /\ wrote[r] \in Nat
           /\ \A n \in Nat : /\ WroteMore(n) \in [1..MaxRequests -> Nat]
                             /\ WroteMore(n)[r] = wrote[r] + n
                             /\ \A i \in 1..MaxRequests : i # r => WroteMore(n)[i] = wrote[i]
<1>1. r \in 0..MaxRequests /\ r > 0 /\ wrote \in [1..MaxRequests -> Nat]
    BY DEF RInv, Types, Serving
<1>2. r \in 1..MaxRequests /\ r \in Nat /\ r - 1 \in Nat
    BY <1>1, ResponseAssumption
<1>3. wrote[r] \in Nat
    BY <1>1, <1>2
<1> QED
    BY <1>1, <1>2, <1>3 DEF WroteMore

(* A call that writes n bytes takes the client's way n bytes further.      *)
LEMMA RProgress ==
    ASSUME RInv, phase = "handler", ~w.hijacked, ~w.bodiless, ~err,
           NEW n \in Nat, NEW b \in Seq(Tokens), NEW least \in 0..Len(buf \o (HeaderOf(w) \o b)),
           w.length # None => wrote[r] + n <= w.length,
           \A a \in AnswersNow(n) :
               (Done(Sent(w), wrote[r] + n) => Append(a, wrote[r] + n) \in AnswersNow(n))
               => Way(Where(Sent(w), wrote[r], a), b, Where(Sent(w), wrote[r] + n, a), AnswersNow(n)),
           Transmit(HeaderOf(w) \o b, least), HeaderSentNow, wrote' = WroteMore(n),
           UNCHANGED <<phase, r, declared, cut>>
    PROVE  RInv'
<1>1. PICK k \in Nat, m \in Nat : k = wrote[r] /\ m = k + n
    BY AtRequest
<1>2. PICK y \in Writers : y = Sent(w)
    BY SentFacts DEF RInv, Types
<1>3. y.headerSent /\ y.length = w.length /\ (w.headerSent => y = w)
    BY <1>2, SentFacts DEF RInv, Types
<1>4. Begun(w, k)
    BY <1>1 DEF RInv, Answering
<1>5. PICK a \in Upto(r - 1, wrote) :
        Len(a) + 1 = r /\ Way(client, buf, Where(w, k, a), Upto(Count(w, k), wrote))
    BY <1>1 DEF RInv, Answering
<1>6. PICK g \in [1..MaxRequests -> Nat] :
        g = WroteMore(n) /\ g[r] = m /\ \A i \in 1..MaxRequests : i # r => g[i] = wrote[i]
    BY <1>1, AtRequest
<1>7. PICK A : A = AnswersNow(n) /\ A = Upto(Count(y, m), g)
    BY <1>1, <1>2, <1>6, Zenon DEF AnswersNow
<1>8. r \in 1..MaxRequests /\ r \in Nat /\ r - 1 \in Nat
    BY AtRequest, Zenon
<1>p. PICK p \in Int : p \in Nat /\ p = r - 1 /\ p <= r /\ p <= p /\ r \in Int /\ r <= r
    BY <1>8
<1>q. \A i \in 1..p : g[i] = wrote[i]
    <2>1. \A i \in 1..p : i \in 1..MaxRequests /\ i # r
        BY <1>8, <1>p, ResponseAssumption
    <2> QED
        BY <1>6, <2>1
<1>9. Upto(r - 1, wrote) \subseteq A
    <2>1. PICK j \in Int : j = Count(y, m) /\ p <= j
        BY <1>8, <1>p DEF Count
    <2>2. Upto(p, wrote) \subseteq Upto(j, g)
        BY <1>p, <1>q, <2>1, UptoMore, Zenon
    <2> QED
        BY <1>7, <1>p, <2>1, <2>2
<1>10. ASSUME Done(y, k) PROVE n = 0 /\ m = k /\ Done(y, m)
    <2>1. w.length = k
        BY <1>3, <1>10 DEF Done
    <2>2. k # None
        BY ResponseAssumption
    <2>3. n = 0 /\ m = k
        BY <1>1, <2>1, <2>2
    <2> QED
        BY <1>10, <2>3, Zenon
<1>11. Upto(Count(w, k), wrote) \subseteq A
    <2>1. CASE Done(w, k)
        <3>1. Done(y, k)
            BY <1>3, <2>1 DEF Done
        <3>2. Count(w, k) = r /\ Count(y, m) = r
            BY <2>1, <3>1, <1>10, Zenon DEF Count
        <3>3. \A i \in 1..r : g[i] = wrote[i]
            <4>1. g[r] = wrote[r]
                BY <1>1, <1>6, <1>10, <3>1, Zenon
            <4>2. \A i \in 1..r : i = r \/ i \in 1..p
                BY <1>8, <1>p
            <4> QED
                BY <1>q, <4>1, <4>2, Zenon
        <3>4. Upto(r, wrote) \subseteq Upto(r, g)
            BY <1>p, <3>3, UptoMore, Zenon
        <3> QED
            BY <1>7, <3>2, <3>4
    <2>2. CASE ~Done(w, k)
        BY <1>9, <2>2 DEF Count
    <2> QED
        BY <2>1, <2>2
<1>12. a \in Seq(Nat) /\ a \in A
    BY <1>9 DEF Upto
<1>13. Done(y, m) => Append(a, m) \in A
    <2>1. Upto(r - 1, wrote) \subseteq Upto(r - 1, g)
        <3>1. Upto(p, wrote) \subseteq Upto(p, g)
            BY <1>p, <1>q, UptoMore, Zenon
        <3> QED
            BY <1>p, <3>1
    <2>2. Append(a, m) \in Upto(r, g)
        BY <1>5, <1>6, <1>8, <2>1, UptoAppend
    <2> QED
        BY <1>7, <2>2 DEF Count
<1>14. Done(y, k) => Append(a, k) \in A
    BY <1>10, <1>13
<1>15. Way(Where(w, k, a), HeaderOf(w), Where(y, k, a), A) /\ HeaderOf(w) \in Seq(Tokens) /\ Begun(y, k)
    <2>1. w \in Writers /\ (w.headerSent \/ ~w.trailer)
        BY DEF RInv, Types, Serving
    <2> QED
        BY <2>1, <1>2, <1>4, <1>5, <1>8, <1>12, <1>14, WayHeader
<1>16. Way(Where(y, k, a), b, Where(y, m, a), A)
    BY <1>1, <1>2, <1>7, <1>12, <1>13, Zenon
<1>17. PICK s \in Seq(Tokens) : s = HeaderOf(w) \o b
    <2>1. HeaderOf(w) \o b \in Seq(Tokens)
        BY <1>15
    <2> QED
        BY <2>1, Zenon
<1>18. Way(Where(w, k, a), s, Where(y, m, a), A)
    BY <1>15, <1>16, <1>17, WayJoin
<1>19. Way(client, buf, Where(w, k, a), A)
    BY <1>5, <1>11, WayMore
<1>20. buf \in Seq(Tokens) /\ least \in 0..Len(buf \o s) /\ Transmit(s, least)
    BY <1>17 DEF RInv, Types
<1>21. /\ Fine(client', A) /\ err' \in BOOLEAN
       /\ ~err' => Way(client', buf', Where(y, m, a), A)
    BY <1>18, <1>19, <1>20, TransmitWay
<1>22. buf' \in Seq(Tokens)
    BY <1>20, TransmitBuffer
<1>23. /\ w' \in Writers /\ w'.length = w.length /\ w'.hijacked = w.hijacked
       /\ w'.bodiless = w.bodiless /\ w'.trailer = w.trailer
       /\ w'.headerSent /\ w'.chunked => y.chunked
       /\ ~err' => w' = y
    BY <1>2, <1>21, HeaderSentFacts DEF RInv, Types
<1>24. phase' = "handler" /\ r' = r /\ declared' = declared /\ cut' = cut /\ wrote' = g
    BY <1>6
<1>25. Types'
    <2>1. /\ phase \in Phases /\ r \in 0..MaxRequests
          /\ declared \in Nat \cup {None} /\ cut \in BOOLEAN
        BY DEF RInv, Types
    <2> QED
        BY <1>21, <1>22, <1>23, <1>24, <2>1 DEF Types
<1>26. A \subseteq Upto(r, g)
    <2>1. Count(y, m) \in Nat /\ Count(y, m) <= r
        BY <1>8 DEF Count
    <2> QED
        BY <1>7, <1>8, <2>1, UptoMore
<1>27. Behind'
    <2>1. Fine(client', Upto(r, g))
        BY <1>21, <1>26, WayMore
    <2>2. \A i \in 1..MaxRequests : i > r => g[i] = 0
        BY <1>6, <1>8 DEF RInv, Behind
    <2> QED
        BY <1>24, <2>1, <2>2 DEF Behind
<1>28. Waiting' /\ Serving'
    <2>1. err' \/ w'.headerSent
        BY <1>3, <1>23
    <2> QED
        BY <1>23, <1>24, <2>1 DEF RInv, Waiting, Serving
<1>29. Unended'
    <2> SUFFICES ASSUME w'.headerSent, w'.chunked PROVE Fine(client', Upto(r - 1, g))
        BY <1>24 DEF Unended
    <2>1. Count(y, m) = r - 1
        BY <1>23 DEF Count, Done
    <2> QED
        BY <1>7, <1>21, <2>1
<1>30. Answering'
    <2> SUFFICES ASSUME ~err'
                 PROVE  /\ Begun(y, m)
                        /\ \E c \in Upto(r - 1, g) :
                              /\ Len(c) + 1 = r
                              /\ Way(client', buf', Where(y, m, c), Upto(Count(y, m), g))
        BY <1>6, <1>23, <1>24 DEF Answering, Count
    <2>1. a \in Upto(r - 1, g)
        <3>1. Upto(p, wrote) \subseteq Upto(p, g)
            BY <1>p, <1>q, UptoMore, Zenon
        <3> QED
            BY <1>p, <3>1
    <2>2. Way(client', buf', Where(y, m, a), Upto(Count(y, m), g))
        BY <1>7, <1>21
    <2>3. Begun(y, m)
        <3>1. ~y.chunked => m <= y.length
            <4> SUFFICES ASSUME ~y.chunked PROVE m <= y.length
                OBVIOUS
            <4>1. y.length \in Nat
                BY <1>3, <1>15 DEF Begun
            <4> QED
                BY <1>1, <1>3, <4>1, ResponseAssumption
        <3> QED
            BY <1>3, <1>15, <3>1 DEF Begun
    <2> QED
        BY <1>5, <2>1, <2>2, <2>3
<1>31. Taken' /\ CutOpen'
    BY <1>23, <1>24 DEF RInv, Taken, CutOpen
<1> QED
    BY <1>25, <1>27, <1>28, <1>29, <1>30, <1>31 DEF RInv

(* A header is a token.                                                    *)
LEMMA HeaderType ==
    ASSUME NEW x \in Writers, r \in Nat
    PROVE  HeaderOf(x) \in Seq(Tokens)
<1>1. CASE x.headerSent
    BY <1>1 DEF HeaderOf
<1>2. CASE ~x.headerSent
    <2>1. PICK t : t = [k |-> "head", n |-> IF x.length = None THEN 0 ELSE x.length, r |-> r,
                        chunked |-> Chunks(x), trailers |-> x.trailer, bodiless |-> x.bodiless]
        BY Zenon
    <2>2. t \in Heads /\ HeaderOf(x) = <<t>>
        BY <1>2, <2>1 DEF Heads, HeaderOf, Writers, Chunks
    <2>3. t \in Tokens
        BY <2>2 DEF Tokens
    <2> QED
        BY <2>2, <2>3
<1> QED
    BY <1>1, <1>2

(* How far a body of declared length may go.                               *)
LEMMA RoomLeft ==
    ASSUME RInv, phase = "handler", ~err, ~w.hijacked, NEW n \in Nat,
           w.length # None => wrote[r] + n <= w.length
    PROVE  ~Sent(w).chunked => Sent(w).length \in Nat /\ wrote[r] + n <= Sent(w).length
<1> SUFFICES ASSUME ~Sent(w).chunked
             PROVE  Sent(w).length \in Nat /\ wrote[r] + n <= Sent(w).length
    OBVIOUS
<1>1. w \in Writers /\ Begun(w, wrote[r])
    BY DEF RInv, Types, Answering
<1>2. /\ Sent(w).length = w.length /\ (w.headerSent => Sent(w) = w)
      /\ ~w.headerSent => w.length \in Nat
    BY <1>1, SentFacts
<1>3. w.length \in Nat
    BY <1>1, <1>2 DEF Begun
<1> QED
    BY <1>2, <1>3, ResponseAssumption

(* Write and WriteString.                                                  *)
LEMMA RWrite ==
    ASSUME Careless = {}, RInv, NEW n \in 0..MaxBytes, Write(n)
    PROVE  RInv'
<1>1. n \in Nat /\ phase = "handler" /\ ~w.bodiless /\ (declared # None => ~ (wrote[r] + n > declared))
    <2>1. phase = "handler" /\ ~w.bodiless /\ (declared # None => ~ (wrote[r] + n > declared))
        BY Zenon DEF Write, Call, MayWrite
    <2>2. n \in Nat
        BY ResponseAssumption
    <2> QED
        BY <2>1, <2>2, Zenon
<1>2. UNCHANGED <<phase, r, declared, cut>>
    BY Zenon DEF Write
<1>3. CASE Ignores(n)
    BY <1>2, <1>3, RStutter DEF Write, bufVars
<1>4. CASE ~Ignores(n)
    <2>1. /\ Transmit(HeaderOf(w) \o Body(Sent(w), n), 0) /\ HeaderSentNow
          /\ wrote' = [wrote EXCEPT ![r] = IF err THEN @ ELSE @ + n]
        BY <1>4, Zenon DEF Write
    <2>2. CASE err
        <3>1. UNCHANGED <<buf, err, client>>
            BY <2>1, <2>2, TransmitFails
        <3>2. w' = w
            BY <2>1, <2>2 DEF HeaderSentNow
        <3>3. wrote' = wrote
            BY <2>1, <2>2, AtRequest, <1>1 DEF RInv, Types
        <3> QED
            BY <1>2, <3>1, <3>2, <3>3, RStutter
    <2>3. CASE ~err
        <3>1. ~w.hijacked /\ n > 0
            BY <1>1, <1>4 DEF Ignores
        <3>2. w.length # None => wrote[r] + n <= w.length
            <4>1. w.length = declared /\ declared \in Nat \cup {None}
                BY <1>1 DEF RInv, Types, Serving
            <4>2. wrote[r] \in Nat
                BY <1>1, AtRequest
            <4> QED
                BY <1>1, <4>1, <4>2
        <3>3. wrote' = WroteMore(n)
            BY <2>1, <2>3 DEF WroteMore
        <3>4. w \in Writers /\ Sent(w) \in Writers /\ Sent(w).headerSent /\ r \in Nat /\ wrote[r] \in Nat
            BY <1>1, SentFacts, AtRequest DEF RInv, Types
        <3>5. PICK b \in Seq(Tokens) : b = Body(Sent(w), n)
            BY <1>1, <3>4, BodyTypes
        <3>6. PICK least \in 0..Len(buf \o (HeaderOf(w) \o b)) : least = 0
            <4>1. HeaderOf(w) \in Seq(Tokens) /\ buf \in Seq(Tokens)
                BY <3>4, HeaderType DEF RInv, Types
            <4>2. buf \o (HeaderOf(w) \o b) \in Seq(Tokens)
                BY <4>1
            <4> QED
                BY <4>2
        <3>7. ASSUME NEW a \in AnswersNow(n),
                     Done(Sent(w), wrote[r] + n) => Append(a, wrote[r] + n) \in AnswersNow(n)
              PROVE  Way(Where(Sent(w), wrote[r], a), b, Where(Sent(w), wrote[r] + n, a), AnswersNow(n))
            <4>1. a \in Seq(Nat)
                BY DEF AnswersNow, Upto
            <4>2. ~Sent(w).chunked => Sent(w).length \in Nat /\ wrote[r] + n <= Sent(w).length
                BY <1>1, <2>3, <3>1, <3>2, RoomLeft
            <4> QED
                BY <1>1, <3>1, <3>4, <3>5, <3>7, <4>1, <4>2, WayWritten
        <3>8. Transmit(HeaderOf(w) \o b, least)
            BY <2>1, <3>5, <3>6, Zenon
        <3> QED
            BY <1>1, <1>2, <2>1, <2>3, <3>1, <3>2, <3>3, <3>7, <3>8, RProgress
    <2> QED
        BY <2>2, <2>3
<1> QED
    BY <1>3, <1>4

(* ReadFrom.                                                               *)
LEMMA RReadFrom ==
    ASSUME Careless = {}, RInv, NEW n \in 0..MaxBytes, ReadFrom(n)
    PROVE  RInv'
<1>1. n \in Nat /\ phase = "handler" /\ ~w.bodiless /\ (declared # None => ~ (wrote[r] + n > declared))
    <2>1. phase = "handler" /\ ~w.bodiless /\ (declared # None => ~ (wrote[r] + n > declared))
        BY Zenon DEF ReadFrom, Call, MayWrite
    <2>2. n \in Nat
        BY ResponseAssumption
    <2> QED
        BY <2>1, <2>2, Zenon
<1>2. UNCHANGED <<phase, r, declared, cut>>
    BY Zenon DEF ReadFrom
<1>3. CASE w.hijacked
    BY <1>2, <1>3, RStutter DEF ReadFrom, bufVars
<1>4. CASE ~w.hijacked
    <2> DEFINE start == IF Sent(w).chunked THEN 0 ELSE Len(buf) + Len(HeaderOf(w))
    <2>1. /\ Transmit(HeaderOf(w) \o Copied(Sent(w), n), start) /\ HeaderSentNow
          /\ wrote' = [wrote EXCEPT ![r] = IF err THEN @ ELSE @ + n]
        BY <1>4, Zenon DEF ReadFrom
    <2>2. CASE err
        <3>1. UNCHANGED <<buf, err, client>>
            BY <2>1, <2>2, TransmitFails
        <3>2. w' = w
            BY <2>1, <2>2 DEF HeaderSentNow
        <3>3. wrote' = wrote
            BY <2>1, <2>2, AtRequest, <1>1 DEF RInv, Types
        <3> QED
            BY <1>2, <3>1, <3>2, <3>3, RStutter
    <2>3. CASE ~err
        <3>2. w.length # None => wrote[r] + n <= w.length
            <4>1. w.length = declared /\ declared \in Nat \cup {None}
                BY <1>1 DEF RInv, Types, Serving
            <4>2. wrote[r] \in Nat
                BY <1>1, AtRequest
            <4> QED
                BY <1>1, <4>1, <4>2
        <3>3. wrote' = WroteMore(n)
            BY <2>1, <2>3 DEF WroteMore
        <3>4. w \in Writers /\ Sent(w) \in Writers /\ Sent(w).headerSent /\ r \in Nat /\ wrote[r] \in Nat
            BY <1>1, SentFacts, AtRequest DEF RInv, Types
        <3>5. PICK b \in Seq(Tokens) : b = Copied(Sent(w), n)
            BY <1>1, <3>4, CopiedSteps
        <3>6. PICK least \in 0..Len(buf \o (HeaderOf(w) \o b)) : least = start
            <4>1. PICK h \in Seq(Tokens), u \in Seq(Tokens) : h = HeaderOf(w) /\ u = buf
                BY <3>4, HeaderType DEF RInv, Types
            <4>2. Len(u \o (h \o b)) = Len(u) + (Len(h) + Len(b))
                OBVIOUS
            <4>3. start \in 0..Len(u \o (h \o b))
                BY <4>1, <4>2
            <4> QED
                BY <4>1, <4>3, Zenon
        <3>7. ASSUME NEW a \in AnswersNow(n),
                     Done(Sent(w), wrote[r] + n) => Append(a, wrote[r] + n) \in AnswersNow(n)
              PROVE  Way(Where(Sent(w), wrote[r], a), b, Where(Sent(w), wrote[r] + n, a), AnswersNow(n))
            <4>1. a \in Seq(Nat)
                BY DEF AnswersNow, Upto
            <4>2. ~Sent(w).chunked => Sent(w).length \in Nat /\ wrote[r] + n <= Sent(w).length
                BY <1>1, <2>3, <1>4, <3>2, RoomLeft
            <4> QED
                BY <1>1, <3>4, <3>5, <3>7, <4>1, <4>2, WayCopied
        <3>8. Transmit(HeaderOf(w) \o b, least)
            BY <2>1, <3>5, <3>6, Zenon
        <3> QED
            BY <1>1, <1>2, <1>4, <2>1, <2>3, <3>2, <3>3, <3>7, <3>8, RProgress
    <2> QED
        BY <2>2, <2>3
<1> QED
    BY <1>3, <1>4

(* Flush.                                                                  *)
LEMMA RFlush ==
    ASSUME Careless = {}, RInv, Flush
    PROVE  RInv'
<1>1. /\ phase = "handler" /\ ~w.bodiless /\ (declared # None => ~ (wrote[r] + 0 > declared))
      /\ UNCHANGED <<phase, r, declared, wrote, cut>>
    BY Zenon DEF Flush, Call, MayWrite
<1>2. CASE w.hijacked
    BY <1>1, <1>2, RStutter DEF Flush, bufVars
<1>3. CASE ~w.hijacked /\ err
    <2>1. Transmit(HeaderOf(w), Len(buf) + Len(HeaderOf(w))) /\ HeaderSentNow
        BY <1>3, Zenon DEF Flush
    <2>2. UNCHANGED <<buf, err, client>>
        BY <1>3, <2>1, TransmitFails
    <2>3. w' = w
        BY <1>3, <2>1 DEF HeaderSentNow
    <2> QED
        BY <1>1, <2>2, <2>3, RStutter
<1>4. CASE ~w.hijacked /\ ~err
    <2>1. Transmit(HeaderOf(w), Len(buf) + Len(HeaderOf(w))) /\ HeaderSentNow
        BY <1>4, Zenon DEF Flush
    <2>2. w \in Writers /\ r \in Nat /\ wrote[r] \in Nat /\ wrote \in [1..MaxRequests -> Nat]
        BY <1>1, AtRequest DEF RInv, Types
    <2>3. PICK h \in Seq(Tokens), u \in Seq(Tokens) : h = HeaderOf(w) /\ u = buf
        BY <2>2, HeaderType DEF RInv, Types
    <2>4. PICK b \in Seq(Tokens) : b = << >>
        <3>1. << >> \in Seq(Tokens)
            OBVIOUS
        <3> QED
            BY <3>1, Zenon
    <2>5. h \o b = h
        BY <2>4
    <2>6. PICK least \in 0..Len(u \o (h \o b)) : least = Len(u) + Len(h)
        BY <2>5
    <2>7. PICK n \in Nat : n = 0
        OBVIOUS
    <2>8. wrote[r] + n = wrote[r] /\ wrote' = WroteMore(n)
        BY <1>1, <2>2, <2>7 DEF WroteMore
    <2>9. w.length # None => wrote[r] + n <= w.length
        <3>1. w.length = declared /\ declared \in Nat \cup {None}
            BY <1>1 DEF RInv, Types, Serving
        <3> QED
            BY <1>1, <2>2, <2>7, <3>1
    <2>10. ASSUME NEW a \in AnswersNow(n),
                  Done(Sent(w), wrote[r] + n) => Append(a, wrote[r] + n) \in AnswersNow(n)
           PROVE  Way(Where(Sent(w), wrote[r], a), b, Where(Sent(w), wrote[r] + n, a), AnswersNow(n))
        <3>1. Way(Where(Sent(w), wrote[r], a), b, Where(Sent(w), wrote[r], a), AnswersNow(n))
            BY <2>4, <2>8, <2>10, WhereFine, WayNone, Zenon
        <3> QED
            BY <2>8, <3>1, Zenon
    <2>11. Transmit(HeaderOf(w) \o b, least) /\ least \in 0..Len(buf \o (HeaderOf(w) \o b))
        BY <2>1, <2>3, <2>5, <2>6, Zenon
    <2> QED
        BY <1>1, <1>4, <2>1, <2>8, <2>9, <2>10, <2>11, RProgress
<1> QED
    BY <1>2, <1>3, <1>4

-----------------------------------------------------------------------------
(* The handler's other calls *)

(* What is set on the writer before its header is sent, or does not matter *)
(* after it, leaves the client's place alone.                              *)
LEMMA RSetting ==
    ASSUME RInv, phase = "handler", UNCHANGED <<phase, r, buf, err, client, wrote, cut>>,
           w' \in Writers, w'.headerSent = w.headerSent, w'.chunked = w.chunked,
           w'.hijacked = w.hijacked,
           w.headerSent => w'.bodiless = w.bodiless /\ w'.length = w.length,
           w'.length = declared', ~ (w'.bodiless /\ w'.trailer),
           w'.headerSent \/ w'.hijacked \/ err \/ ~w'.trailer
    PROVE  RInv'
<1>1. /\ \A k : Begun(w', k) <=> Begun(w, k)
      /\ \A k, a : Where(w', k, a) = Where(w, k, a)
      /\ \A k : Done(w', k) <=> Done(w, k)
    BY DEF Begun, Where, Done
<1>2. declared' \in Nat \cup {None}
    BY DEF Writers
<1>3. Types' /\ Behind' /\ Waiting' /\ Serving'
    BY <1>2 DEF RInv, Types, Behind, Waiting, Serving
<1>4. Unended' /\ Taken' /\ CutOpen'
    BY DEF RInv, Unended, Taken, CutOpen
<1>5. Answering'
    BY <1>1 DEF RInv, Answering, Count
<1> QED
    BY <1>3, <1>4, <1>5 DEF RInv

(* WriteHeader.                                                            *)
LEMMA RWriteHeader ==
    ASSUME Careless = {}, RInv, WriteHeader
    PROVE  RInv'
<1>1. /\ phase = "handler" /\ ~w.trailer /\ w \in Writers
      /\ w' = [w EXCEPT !.bodiless = IF w.hijacked \/ w.headerSent THEN @ ELSE TRUE]
      /\ UNCHANGED <<phase, r, buf, err, client, declared, wrote, cut>>
    BY DEF WriteHeader, Call, bufVars, RInv, Types
<1>2. /\ w' \in Writers /\ w'.headerSent = w.headerSent /\ w'.chunked = w.chunked
      /\ w'.hijacked = w.hijacked /\ w'.length = w.length /\ w'.trailer = w.trailer
      /\ w.headerSent => w'.bodiless = w.bodiless
    BY <1>1 DEF Writers
<1>3. w.length = declared
    BY <1>1 DEF RInv, Serving
<1> QED
    BY <1>1, <1>2, <1>3, RSetting

(* Header().Set("Content-Length").                                         *)
LEMMA RDeclareLength ==
    ASSUME RInv, NEW n \in 0..MaxBytes, DeclareLength(n)
    PROVE  RInv'
<1>1. /\ phase = "handler" /\ ~w.headerSent /\ w \in Writers /\ ~ (w.bodiless /\ w.trailer)
      /\ w.headerSent \/ w.hijacked \/ err \/ ~w.trailer
      /\ w' = [w EXCEPT !.length = n] /\ declared' = n
      /\ UNCHANGED <<phase, r, buf, err, client, wrote, cut>>
    BY DEF DeclareLength, Call, bufVars, RInv, Types, Serving
<1>2. n \in Nat
    BY ResponseAssumption
<1>3. /\ w' \in Writers /\ w'.headerSent = w.headerSent /\ w'.chunked = w.chunked
      /\ w'.hijacked = w.hijacked /\ w'.length = n /\ w'.trailer = w.trailer
      /\ w'.bodiless = w.bodiless
    BY <1>1, <1>2 DEF Writers
<1> QED
    BY <1>1, <1>3, RSetting

(* Trailer().Set.                                                          *)
LEMMA RAddTrailer ==
    ASSUME Careless = {}, RInv, AddTrailer
    PROVE  RInv'
<1>1. /\ phase = "handler" /\ ~w.bodiless /\ w \in Writers
      /\ w.headerSent \/ w.hijacked \/ err
      /\ w' = [w EXCEPT !.trailer = TRUE]
      /\ UNCHANGED <<phase, r, buf, err, client, declared, wrote, cut>>
    BY DEF AddTrailer, Call, bufVars, RInv, Types
<1>2. /\ w' \in Writers /\ w'.headerSent = w.headerSent /\ w'.chunked = w.chunked
      /\ w'.hijacked = w.hijacked /\ w'.length = w.length /\ w'.bodiless = w.bodiless
    BY <1>1 DEF Writers
<1>3. w.length = declared
    BY <1>1 DEF RInv, Serving
<1> QED
    BY <1>1, <1>2, <1>3, RSetting

(* A way ends where the client is fine.                                    *)
LEMMA WayEnd ==
    ASSUME NEW A, NEW c, NEW d, NEW T, NEW s \in Seq(T), Way(c, s, d, A)
    PROVE  Fine(d, A)
<1>1. Len(s) \in 0..Len(s)
    OBVIOUS
<1> QED
    BY <1>1, Zenon DEF Way

(* Hijack.                                                                 *)
LEMMA RHijack ==
    ASSUME RInv, Hijack
    PROVE  RInv'
<1>1. /\ phase = "handler" /\ ~w.hijacked /\ w \in Writers /\ buf \in Seq(Tokens)
      /\ Transmit(<< >>, Len(buf)) /\ w' = [w EXCEPT !.hijacked = TRUE]
      /\ UNCHANGED <<phase, r, declared, wrote, cut>>
    BY DEF Hijack, Call, RInv, Types
<1>2. /\ w' \in Writers /\ w'.headerSent = w.headerSent /\ w'.chunked = w.chunked
      /\ w'.hijacked /\ w'.length = w.length /\ w'.bodiless = w.bodiless /\ w'.trailer = w.trailer
    BY <1>1 DEF Writers
<1>a. PICK e \in Seq(Tokens) : e = << >>
    <2>1. << >> \in Seq(Tokens)
        OBVIOUS
    <2> QED
        BY <2>1, Zenon
<1>3. PICK least \in 0..Len(buf \o e) : least = Len(buf) /\ least = Len(buf \o e)
    <2>1. buf \o e = buf
        BY <1>1, <1>a
    <2> QED
        BY <1>1, <2>1
<1>4. Transmit(e, least)
    BY <1>1, <1>3, <1>a, Zenon
<1>5. buf' \in Seq(Tokens)
    BY <1>1, <1>4, TransmitBuffer
<1>6. /\ err' \in BOOLEAN /\ (err \/ err' \/ buf' = << >>) /\ (err => err')
      /\ Fine(client', Upto(r, wrote))
      /\ w.headerSent /\ w.chunked => Fine(client', Upto(r - 1, wrote))
    <2>1. CASE err
        <3>1. UNCHANGED <<buf, err, client>>
            BY <1>4, <2>1, TransmitFails
        <3> QED
            BY <1>1, <2>1, <3>1 DEF RInv, Types, Behind, Unended
    <2>2. CASE ~err
        <3>1. PICK a \in Upto(r - 1, wrote) :
                Way(client, buf, Where(w, wrote[r], a), Upto(Count(w, wrote[r]), wrote))
            BY <1>1, <2>2 DEF RInv, Answering
        <3>2. PICK A, d : A = Upto(Count(w, wrote[r]), wrote) /\ d = Where(w, wrote[r], a)
            BY Zenon
        <3>3. Way(client, buf, d, A)
            BY <3>1, <3>2, Zenon
        <3>4. Way(d, e, d, A)
            BY <1>1, <1>a, <3>3, WayEnd, WayNone
        <3>5. Fine(client', A) /\ err' \in BOOLEAN /\ (~err' => buf' = << >>)
            BY <1>1, <1>3, <1>4, <2>2, <3>3, <3>4, TransmitWay
        <3>6. A \subseteq Upto(r, wrote)
            <4>1. PICK p \in Int, q \in Int :
                    /\ p = Count(w, wrote[r]) /\ q = r /\ p <= q
                    /\ \A i \in 1..p : wrote[i] = wrote[i]
                <5>1. r \in Nat
                    BY <1>1, AtRequest, Zenon
                <5> QED
                    BY <5>1 DEF Count
            <4>2. Upto(p, wrote) \subseteq Upto(q, wrote)
                BY <4>1, UptoMore, Zenon
            <4> QED
                BY <3>2, <4>1, <4>2, Zenon
        <3>7. w.headerSent /\ w.chunked => A = Upto(r - 1, wrote)
            BY <3>2 DEF Count, Done
        <3> QED
            BY <2>2, <3>5, <3>6, <3>7, WayMore
    <2> QED
        BY <2>1, <2>2
<1>7. Types' /\ Behind' /\ Waiting' /\ Serving'
    BY <1>1, <1>2, <1>5, <1>6 DEF RInv, Types, Behind, Waiting, Serving
<1>8. Unended' /\ Answering' /\ CutOpen'
    BY <1>1, <1>2, <1>6 DEF RInv, Unended, Answering, CutOpen
<1>9. Taken'
    <2>1. << >> \in Seq(Raws)
        OBVIOUS
    <2> QED
        BY <1>6, <2>1 DEF Taken
<1> QED
    BY <1>7, <1>8, <1>9 DEF RInv

(* What a hijacker writes, through the bufio.Writer or not.                *)
LEMMA RHijackerWrites ==
    ASSUME RInv, HijackerWrites
    PROVE  RInv'
<1>1. /\ phase = "hijacked" \/ (phase = "handler" /\ w.hijacked)
      /\ UNCHANGED <<phase, r, w, declared, wrote, cut>>
      /\ \/ Transmit(<<[k |-> "raw"]>>, 0)
         \/ client' = Receive(client, [k |-> "raw"]) /\ UNCHANGED <<buf, err>>
    BY Zenon DEF HijackerWrites
<1>2. buf \in Seq(Tokens) /\ err \in BOOLEAN /\ (err \/ buf \in Seq(Raws))
    BY <1>1 DEF RInv, Types, Taken
<1>3. PICK s \in Seq(Tokens) : s = <<[k |-> "raw"]>> /\ s \in Seq(Raws)
    BY GroupTypes
<1>4. PICK least \in 0..Len(buf \o s) : least = 0
    <2>1. buf \o s \in Seq(Tokens)
        BY <1>2
    <2> QED
        BY <2>1
<1>5. /\ buf' \in Seq(Tokens) /\ err' \in BOOLEAN /\ (err' \/ buf' \in Seq(Raws))
      /\ \A A : Fine(client, A) => Fine(client', A)
    <2>1. CASE client' = Receive(client, [k |-> "raw"]) /\ UNCHANGED <<buf, err>>
        <3>1. \A A : Fine(client, A) => Fine(client', A)
            BY <2>1, RawReceived
        <3> QED
            BY <1>2, <2>1, <3>1
    <2>2. CASE Transmit(s, least) /\ err
        <3>1. UNCHANGED <<buf, err, client>>
            BY <2>2, TransmitFails
        <3> QED
            BY <1>2, <2>2, <3>1
    <2>3. CASE Transmit(s, least) /\ ~err
        <3>1. buf \in Seq(Raws)
            BY <1>2, <2>3
        <3>2. buf' \in Seq(Tokens)
            BY <1>2, <2>3, TransmitBuffer
        <3>3. buf' \in Seq(Raws)
            BY <1>3, <2>3, <3>1, TransmitBuffer
        <3>4. err' \in BOOLEAN
            BY <2>3 DEF Transmit, bufVars
        <3>5. ASSUME NEW A, Fine(client, A) PROVE Fine(client', A)
            <4>1. PICK d : Way(client, buf, d, A)
                BY <3>1, <3>5, WayRaw
            <4>2. PICK e : Way(d, s, e, A)
                BY <1>2, <1>3, <4>1, WayEnd, WayRaw
            <4> QED
                BY <1>2, <2>3, <4>1, <4>2, TransmitWay
        <3> QED
            BY <3>2, <3>3, <3>4, <3>5, Zenon
    <2> QED
        BY <1>1, <1>3, <1>4, <2>1, <2>2, <2>3, Zenon
<1>6. Types' /\ Behind' /\ Waiting' /\ Serving'
    BY <1>1, <1>5 DEF RInv, Types, Behind, Waiting, Serving
<1>7. Unended' /\ Answering' /\ Taken' /\ CutOpen'
    BY <1>1, <1>5 DEF RInv, Unended, Answering, Taken, CutOpen
<1> QED
    BY <1>6, <1>7 DEF RInv

(* The goroutine of a CloseNotify.                                         *)
LEMMA RNotify ==
    ASSUME RInv, NotifyReadsContext
    PROVE  RInv'
<1>1. /\ phase' \in {"crashed", phase}
      /\ UNCHANGED <<r, w, buf, err, client, declared, wrote, cut>>
    BY DEF NotifyReadsContext, bufVars, handlerVars
<1>2. CASE phase' = phase
    BY <1>1, <1>2, RStutter
<1>3. CASE phase' = "crashed"
    <2>1. Types' /\ Behind' /\ Waiting' /\ Serving'
        BY <1>1, <1>3 DEF RInv, Types, Phases, Behind, Waiting, Serving
    <2>2. Unended' /\ Answering' /\ Taken' /\ CutOpen'
        BY <1>1, <1>3 DEF RInv, Unended, Answering, Taken, CutOpen
    <2> QED
        BY <2>1, <2>2 DEF RInv
<1> QED
    BY <1>1, <1>2, <1>3

-----------------------------------------------------------------------------
(* handleRequest *)

(* The next request.                                                       *)
LEMMA RNextRequest ==
    ASSUME RInv, NEW head \in BOOLEAN, NextRequest(head)
    PROVE  RInv'
<1>1. /\ phase = "idle" /\ r < MaxRequests /\ phase' = "handler" /\ r' = r + 1
      /\ w' = NewResponseWriter(head) /\ declared' = None
      /\ UNCHANGED <<buf, err, client, wrote, cut>>
    BY DEF NextRequest, bufVars
<1>2. PICK a \in Upto(r, wrote) : client = At("head", 0, 0, a) /\ Len(a) = r
    BY <1>1 DEF RInv, Waiting
<1>3. w = Zero /\ buf = << >> /\ ~err
    BY <1>1 DEF RInv, Waiting
<1>4. /\ r \in Nat /\ r + 1 \in 0..MaxRequests /\ r + 1 \in 1..MaxRequests
      /\ wrote \in [1..MaxRequests -> Nat]
    BY <1>1, ResponseAssumption DEF RInv, Types
<1>5. /\ w' \in Writers /\ w'.headerSent = FALSE /\ w'.chunked = FALSE /\ w'.hijacked = FALSE
      /\ w'.length = None /\ w'.trailer = FALSE
    BY <1>1, <1>3 DEF NewResponseWriter, Zero, Writers
<1>6. wrote[r + 1] = 0
    BY <1>4 DEF RInv, Behind
<1>7. PICK q \in Int, p \in Int :
        q = r /\ p = r + 1 /\ q <= p /\ p - 1 = r /\ \A i \in 1..q : wrote[i] = wrote[i]
    BY <1>4
<1>8. Upto(r, wrote) \subseteq Upto(p, wrote)
    BY <1>7, UptoMore, Zenon
<1>9. Types'
    BY <1>1, <1>4, <1>5 DEF RInv, Types, Phases
<1>10. Behind'
    <2>1. Fine(client, Upto(p, wrote))
        BY <1>2, <1>8, AtFine
    <2>2. \A i \in 1..MaxRequests : i > p => wrote[i] = 0
        BY <1>4, <1>7 DEF RInv, Behind
    <2> QED
        BY <1>1, <1>7, <2>1, <2>2 DEF Behind
<1>11. Waiting' /\ Serving' /\ Unended' /\ Taken' /\ CutOpen'
    BY <1>1, <1>4, <1>5 DEF RInv, Waiting, Serving, Unended, Taken, CutOpen
<1>12. Answering'
    <2>1. wrote[r]' = 0
        BY <1>1, <1>6
    <2>2. Begun(w, wrote[r])'
        BY <1>5, <2>1 DEF Begun
    <2>3. Where(w', wrote'[r'], a) = client
        BY <1>2, <1>5 DEF Where
    <2>4. Count(w, wrote[r])' = r
        BY <1>1, <1>5, <1>7 DEF Count, Done
    <2>5. Way(client, << >>, client, Upto(r, wrote))
        BY <1>2, AtFine, WayNone
    <2>6. Way(client', buf', Where(w', wrote'[r'], a), Upto(Count(w, wrote[r])', wrote'))
        BY <1>1, <1>3, <2>3, <2>4, <2>5, Zenon
    <2>7. a \in Upto(r' - 1, wrote') /\ Len(a) + 1 = r'
        BY <1>1, <1>2, <1>7
    <2> QED
        BY <2>2, <2>6, <2>7, Zenon DEF Answering
<1> QED
    BY <1>9, <1>10, <1>11, <1>12 DEF RInv

(* EndResponse: unless the connection fails, the client has the answer.    *)
LEMMA REnd ==
    ASSUME RInv, phase = "handler", ~w.hijacked, ~err, EndResponse,
           w.headerSent /\ ~w.chunked => Done(w, wrote[r])
    PROVE  /\ buf' \in Seq(Tokens) /\ err' \in BOOLEAN /\ Fine(client', Upto(r, wrote))
           /\ ~err' => /\ buf' = << >>
                       /\ \E c \in Upto(r, wrote) : client' = At("head", 0, 0, c) /\ Len(c) = r
<1> DEFINE x == IF w.headerSent THEN w ELSE [w EXCEPT !.length = 0]
<1> DEFINE last == HeaderOf(x) \o Terminator(Sent(x))
<1>1. Transmit(last, Len(buf) + Len(last))
    BY Zenon DEF EndResponse
<1>2. PICK k \in Nat : k = wrote[r]
    BY AtRequest
<1>3. r \in Nat /\ r - 1 \in Nat /\ w \in Writers /\ buf \in Seq(Tokens) /\ Begun(w, k)
    BY <1>2, AtRequest DEF RInv, Types, Answering
<1>4. PICK a \in Upto(r - 1, wrote) :
        Len(a) + 1 = r /\ Way(client, buf, Where(w, k, a), Upto(Count(w, k), wrote))
    BY <1>2 DEF RInv, Answering
<1>5. PICK A : A = Upto(r, wrote)
    BY Zenon
<1>6. a \in Seq(Nat) /\ a \in A
    <2>1. PICK p \in Int, q \in Int :
            p = r - 1 /\ q = r /\ p <= q /\ \A i \in 1..p : wrote[i] = wrote[i]
        BY <1>3
    <2>2. Upto(p, wrote) \subseteq Upto(q, wrote)
        BY <2>1, UptoMore, Zenon
    <2> QED
        BY <1>5, <2>1, <2>2 DEF Upto
<1>7. PICK c \in A : c = Append(a, k) /\ Len(c) = r
    <2>1. Append(a, k) \in A
        BY <1>2, <1>3, <1>4, <1>5, UptoAppend
    <2>2. Len(Append(a, k)) = r
        BY <1>4, <1>6
    <2> QED
        BY <2>1, <2>2, Zenon
<1>8. Way(client, buf, Where(w, k, a), A)
    <2>1. PICK p \in Int, q \in Int :
            p = Count(w, k) /\ q = r /\ p <= q /\ \A i \in 1..p : wrote[i] = wrote[i]
        BY <1>3 DEF Count
    <2>2. Upto(p, wrote) \subseteq Upto(q, wrote)
        BY <2>1, UptoMore, Zenon
    <2> QED
        BY <1>4, <1>5, <2>1, <2>2, WayMore
<1>9. PICK y \in Writers : /\ y = x /\ (y.headerSent <=> w.headerSent) /\ y.bodiless = w.bodiless
                           /\ y.trailer = w.trailer /\ y.chunked = w.chunked
                           /\ (w.headerSent => y = w) /\ (~w.headerSent => y.length = 0)
    <2>1. PICK y : y = x
        BY Zenon
    <2>2. /\ y \in Writers /\ (y.headerSent <=> w.headerSent) /\ y.bodiless = w.bodiless
          /\ y.trailer = w.trailer /\ y.chunked = w.chunked
          /\ (w.headerSent => y = w) /\ (~w.headerSent => y.length = 0)
        BY <1>3, <2>1 DEF Writers
    <2> QED
        BY <2>1, <2>2, Zenon
<1>10. PICK h \in Seq(Tokens), t \in Seq(Tokens) : h = HeaderOf(y) /\ t = Terminator(Sent(y))
    <2>1. Sent(y) \in Writers /\ 0 \in Nat
        BY SentFacts
    <2> QED
        BY <1>3, <2>1, HeaderType, BodyTypes
<1>11. PICK s \in Seq(Tokens) : s = h \o t /\ s = last
    <2>1. h \o t \in Seq(Tokens)
        OBVIOUS
    <2> QED
        BY <1>9, <1>10, <2>1, Zenon
<1> HIDE DEF x, last
<1>12. Where(w, k, a) = Where(y, k, a) /\ Begun(y, k)
    BY <1>3, <1>9 DEF Where, Begun
<1>13. Way(Where(y, k, a), s, At("head", 0, 0, c), A)
    <2>1. CASE y.bodiless
        <3>1. ~y.headerSent /\ k = 0 /\ ~y.trailer /\ y.length = 0
            BY <1>3, <1>9, <2>1 DEF Begun, RInv, Serving
        <3>2. PICK z : z = [k |-> "head", n |-> 0, r |-> r, chunked |-> FALSE,
                             trailers |-> FALSE, bodiless |-> TRUE]
            BY Zenon
        <3>3. ~Chunks(y) /\ Chunks(y) \in BOOLEAN /\ 0 # None /\ y.bodiless = TRUE /\ y.trailer = FALSE
            BY <2>1, <3>1, ResponseAssumption DEF Chunks, Writers
        <3>4. h = <<z>>
            BY <1>10, <3>1, <3>2, <3>3 DEF HeaderOf
        <3>5. z \in Heads /\ z.r = Len(a) + 1 /\ z.bodiless /\ ~z.trailers
            BY <1>3, <1>4, <3>2 DEF Heads
        <3>6. Receive(At("head", 0, 0, a), z) = At("head", 0, 0, Append(a, 0))
            BY <1>6, <3>5, HeadReceived
        <3>7. Fine(At("head", 0, 0, a), A) /\ Fine(At("head", 0, 0, c), A)
            BY <1>6, AtFine
        <3>8. Way(At("head", 0, 0, a), h, At("head", 0, 0, c), A)
            BY <1>7, <3>1, <3>4, <3>6, <3>7, WayOne, Zenon
        <3>9. t = << >>
            <4>1. Sent(y).chunked = FALSE
                BY <3>1, <3>3 DEF Sent, Writers
            <4> QED
                BY <1>10, <4>1 DEF Terminator
        <3>10. s = h
            <4>1. h \o << >> = h
                OBVIOUS
            <4> QED
                BY <1>11, <3>9, <4>1, Zenon
        <3>11. Where(y, k, a) = At("head", 0, 0, a)
            BY <3>1 DEF Where
        <3> QED
            BY <3>8, <3>10, <3>11, Zenon
    <2>2. CASE ~y.bodiless
        <3>1. PICK v \in Writers : v = Sent(y)
            BY SentFacts
        <3>2. v.headerSent /\ v.length = y.length /\ (y.headerSent => v = y)
            BY <3>1, SentFacts
        <3>3. ~v.chunked => Done(v, k)
            <4>1. CASE w.headerSent
                BY <1>2, <1>9, <3>2, <4>1
            <4>2. CASE ~w.headerSent
                BY <1>3, <1>9, <3>2, <4>2 DEF Done, Begun
            <4> QED
                BY <4>1, <4>2
        <3>4. Way(Where(y, k, a), h, Where(v, k, a), A)
            <4>1. y.headerSent \/ ~y.trailer
                BY <1>9 DEF RInv, Serving
            <4> QED
                BY <1>3, <1>4, <1>6, <1>7, <1>10, <1>12, <2>2, <3>1, <4>1, WayHeader
        <3>5. Way(Where(v, k, a), t, At("head", 0, 0, c), A)
            <4>1. CASE v.chunked
                <5>1. Where(v, k, a) = At("size", 0, k, a)
                    BY <3>2, <4>1 DEF Where
                <5> QED
                    BY <1>6, <1>7, <1>10, <3>1, <4>1, <5>1, WayTerminator
            <4>2. CASE ~v.chunked
                <5>1. Where(v, k, a) = At("head", 0, 0, c) /\ t = << >>
                    BY <1>7, <1>10, <3>1, <3>3, <4>2 DEF Where, Done, Terminator
                <5>2. Fine(At("head", 0, 0, c), A)
                    BY AtFine
                <5> QED
                    BY <5>1, <5>2, WayNone, Zenon
            <4> QED
                BY <4>1, <4>2
        <3> QED
            BY <1>11, <3>4, <3>5, WayJoin
    <2> QED
        BY <2>1, <2>2
<1>14. PICK least \in 0..Len(buf \o s) : least = Len(buf) + Len(s) /\ least = Len(buf \o s)
    <2>1. Len(buf \o s) = Len(buf) + Len(s) /\ Len(buf \o s) \in Nat
        BY <1>3
    <2> QED
        BY <2>1
<1>15. Transmit(s, least)
    BY <1>1, <1>11, <1>14, Zenon
<1>16. /\ Fine(client', A) /\ err' \in BOOLEAN
       /\ ~err' => buf' = << >> /\ client' = At("head", 0, 0, c)
    BY <1>3, <1>8, <1>12, <1>13, <1>14, <1>15, TransmitWay
<1>17. buf' \in Seq(Tokens)
    BY <1>3, <1>15, TransmitBuffer
<1> QED
    BY <1>5, <1>7, <1>16, <1>17

(* The handler returns.                                                    *)
LEMMA RReturns ==
    ASSUME Careless = {}, RInv, HandlerReturns
    PROVE  RInv'
<1>1. /\ phase = "handler" /\ w' = Zero /\ UNCHANGED <<r, declared, wrote, cut>>
      /\ declared # None /\ w.headerSent /\ ~w.hijacked => wrote[r] = declared
    BY DEF HandlerReturns, Release, Released, handlerVars
<1>2. /\ Zero \in Writers /\ r \in 0..MaxRequests /\ wrote \in [1..MaxRequests -> Nat]
      /\ buf \in Seq(Tokens) /\ err \in BOOLEAN /\ declared \in Nat \cup {None}
      /\ cut = FALSE /\ Fine(client, Upto(r, wrote))
      /\ \A i \in 1..MaxRequests : i > r => wrote[i] = 0
    BY <1>1 DEF RInv, Types, Behind, CutOpen, Zero, Writers
<1>3. CASE w.hijacked
    <2>1. UNCHANGED <<buf, err, client>> /\ phase' = "hijacked"
        BY <1>3 DEF HandlerReturns, bufVars
    <2>2. Types' /\ Behind' /\ Waiting' /\ Serving'
        BY <1>1, <1>2, <2>1 DEF Types, Phases, Behind, Waiting, Serving
    <2>3. Unended' /\ Answering' /\ Taken' /\ CutOpen'
        BY <1>1, <1>2, <1>3, <2>1 DEF RInv, Unended, Answering, Taken, CutOpen
    <2> QED
        BY <2>2, <2>3 DEF RInv
<1>4. CASE ~w.hijacked
    <2>1. EndResponse /\ phase' \in AfterResponse(err')
        BY <1>4, Zenon DEF HandlerReturns
    <2>2. /\ buf' \in Seq(Tokens) /\ err' \in BOOLEAN /\ Fine(client', Upto(r, wrote))
          /\ ~err' => /\ buf' = << >>
                      /\ \E c \in Upto(r, wrote) : client' = At("head", 0, 0, c) /\ Len(c) = r
        <3>1. CASE err
            <4>1. UNCHANGED <<buf, err, client>>
                BY <2>1, <3>1, TransmitFails DEF EndResponse
            <4> QED
                BY <1>2, <3>1, <4>1
        <3>2. CASE ~err
            <4>1. w.headerSent /\ ~w.chunked => Done(w, wrote[r])
                <5> SUFFICES ASSUME w.headerSent, ~w.chunked PROVE Done(w, wrote[r])
                    OBVIOUS
                <5>1. w.length \in Nat /\ w.length = declared
                    BY <1>1, <1>4, <3>2 DEF RInv, Answering, Begun, Serving
                <5> QED
                    BY <1>1, <1>4, <5>1, ResponseAssumption DEF Done
            <4> QED
                BY <1>1, <1>4, <2>1, <3>2, <4>1, REnd
        <3> QED
            BY <3>1, <3>2
    <2>3. phase' \in {"idle", "closed"} /\ (phase' = "idle" => ~err')
        BY <2>1 DEF AfterResponse
    <2>4. Types' /\ Behind' /\ Waiting' /\ Serving'
        BY <1>1, <1>2, <2>2, <2>3 DEF Types, Phases, Behind, Waiting, Serving
    <2>5. Unended' /\ Answering' /\ Taken' /\ CutOpen'
        BY <1>1, <1>2, <2>3 DEF Unended, Answering, Taken, CutOpen
    <2> QED
        BY <2>4, <2>5 DEF RInv
<1> QED
    BY <1>3, <1>4

(* The handler panics.                                                     *)
LEMMA RPanics ==
    ASSUME RInv, HandlerPanics
    PROVE  RInv'
<1>1. /\ phase = "handler" /\ w' = Zero /\ UNCHANGED <<r, declared, wrote>>
      /\ phase' = "closed" /\ cut' = (w.headerSent /\ w.chunked)
    BY DEF HandlerPanics, Release, Released, handlerVars
<1>2. /\ Zero \in Writers /\ r \in 0..MaxRequests /\ wrote \in [1..MaxRequests -> Nat]
      /\ buf \in Seq(Tokens) /\ err \in BOOLEAN /\ declared \in Nat \cup {None}
      /\ w \in Writers /\ Fine(client, Upto(r, wrote))
      /\ \A i \in 1..MaxRequests : i > r => wrote[i] = 0
    BY DEF RInv, Types, Behind, Zero, Writers
<1>3. /\ buf' \in Seq(Tokens) /\ err' \in BOOLEAN /\ Fine(client', Upto(r, wrote))
      /\ cut' => Fine(client', Upto(r - 1, wrote))
    <2>1. CASE AnswersPanic
        <3>1. EndResponse /\ ~w.hijacked /\ ~w.headerSent /\ ~cut'
            BY <1>1, <2>1 DEF HandlerPanics, AnswersPanic
        <3>2. CASE err
            <4>1. UNCHANGED <<buf, err, client>>
                BY <3>1, <3>2, TransmitFails DEF EndResponse
            <4> QED
                BY <1>2, <3>1, <4>1
        <3>3. CASE ~err
            BY <1>1, <3>1, <3>3, REnd
        <3> QED
            BY <3>2, <3>3
    <2>2. CASE ~AnswersPanic
        <3>1. UNCHANGED <<buf, err, client>>
            BY <2>2 DEF HandlerPanics, bufVars
        <3> QED
            BY <1>1, <1>2, <3>1 DEF RInv, Unended
    <2> QED
        BY <2>1, <2>2
<1>4. cut' \in BOOLEAN
    BY <1>1, <1>2 DEF Writers
<1>5. Types' /\ Behind' /\ Waiting' /\ Serving'
    BY <1>1, <1>2, <1>3, <1>4 DEF Types, Phases, Behind, Waiting, Serving
<1>6. Unended' /\ Answering' /\ Taken' /\ CutOpen'
    BY <1>1, <1>3 DEF Unended, Answering, Taken, CutOpen
<1> QED
    BY <1>5, <1>6 DEF RInv

(* Every step keeps the invariant.                                         *)
LEMMA RNext ==
    ASSUME Careless = {}, RInv, [Next]_vars
    PROVE  RInv'
<1>1. ASSUME NEW n \in 0..MaxBytes, Write(n) \/ WriteString(n) PROVE RInv'
    BY <1>1, RWrite DEF WriteString
<1>2. ASSUME NEW n \in 0..MaxBytes, ReadFrom(n) PROVE RInv'
    BY <1>2, RReadFrom
<1>3. ASSUME NEW n \in 0..MaxBytes, DeclareLength(n) PROVE RInv'
    BY <1>3, RDeclareLength
<1>4. CASE WriteHeader
    BY <1>4, RWriteHeader
<1>5. CASE AddTrailer
    BY <1>5, RAddTrailer
<1>6. CASE Flush
    BY <1>6, RFlush
<1>7. CASE Hijack
    BY <1>7, RHijack
<1>8. CASE CloseNotify
    BY <1>8, RStutter DEF CloseNotify, bufVars
<1>9. CASE HandlerReturns
    BY <1>9, RReturns
<1>10. CASE HandlerPanics
    BY <1>10, RPanics
<1>11. ASSUME NEW head \in BOOLEAN, NextRequest(head) PROVE RInv'
    BY <1>11, RNextRequest
<1>12. CASE HijackerWrites
    BY <1>12, RHijackerWrites
<1>13. CASE NotifyReadsContext
    BY <1>13, RNotify
<1>14. CASE UNCHANGED vars
    BY <1>14, RStutter DEF vars, bufVars, handlerVars
<1> QED
    BY <1>1, <1>2, <1>3, <1>4, <1>5, <1>6, <1>7, <1>8, <1>9, <1>10, <1>11, <1>12, <1>13, <1>14,
       Zenon DEF Next, Handler

(* The invariant, of handlers that are not Careless.                       *)
LEMMA RAlways ==
    ASSUME Careless = {}
    PROVE  Spec => []RInv
<1>1. RInv /\ [Next]_vars => RInv'
    BY RNext
<1>2. Init => RInv
    BY RInit
<1> QED
    BY <1>1, <1>2, PTL DEF Spec

-----------------------------------------------------------------------------
(* The theorems.  In each: whatever the handlers of a connection write,     *)
(* copy, flush, declare or hijack, in whichever pieces the bufio.Writer     *)
(* passes it on, and wherever the connection fails.                         *)

(* Understood: the client makes sense of every token that Write, ReadFrom, *)
(* Flush, EndResponse and a hijacker send.                                 *)
THEOREM TokensUnderstood ==
    ASSUME Careless = {}
    PROVE  Spec => []Understood
<1>1. RInv => Understood
    BY DEF RInv, Behind, Fine, Understood
<1> QED
    BY <1>1, RAlways, PTL

(* AnswersWhole: a response that the client takes for complete has every   *)
(* byte that its handler wrote, chunked or with a declared length.         *)
THEOREM AnswersCorrect ==
    ASSUME Careless = {}
    PROVE  Spec => []AnswersWhole
<1>1. RInv => AnswersWhole
    <2> SUFFICES ASSUME RInv PROVE AnswersWhole
        OBVIOUS
    <2>1. client.answers \in Upto(r, wrote)
        BY DEF RInv, Behind, Fine
    <2> QED
        BY <2>1 DEF Upto, AnswersWhole
<1> QED
    BY <1>1, RAlways, PTL

(* IdleMeansDelivered: when handleRequest is back and the connection open, *)
(* the client has every response and the bufio.Writer is empty and works.  *)
THEOREM DeliveryCorrect ==
    ASSUME Careless = {}
    PROVE  Spec => []IdleMeansDelivered
<1>1. RInv => IdleMeansDelivered
    <2> SUFFICES ASSUME RInv, phase = "idle"
                 PROVE  buf = << >> /\ ~err /\ Len(client.answers) = r
        BY DEF IdleMeansDelivered
    <2>1. PICK a \in Upto(r, wrote) : client = At("head", 0, 0, a) /\ Len(a) = r
        BY DEF RInv, Waiting
    <2>2. client.answers = a
        BY <2>1 DEF At
    <2> QED
        BY <2>1, <2>2 DEF RInv, Waiting
<1> QED
    BY <1>1, RAlways, PTL

(* CutShows: a chunked response that had begun when its handler panicked   *)
(* is never complete to the client.                                        *)
THEOREM CutsShow ==
    ASSUME Careless = {}
    PROVE  Spec => []CutShows
<1>1. RInv => CutShows
    <2> SUFFICES ASSUME RInv, cut
                 PROVE  Len(client.answers) < r /\ client.at # "untilClose"
        BY DEF CutShows
    <2>1. /\ client.answers \in Seq(Nat) /\ Len(client.answers) <= r - 1 /\ r \in Nat
          /\ client.at # "untilClose"
        BY ResponseAssumption DEF RInv, CutOpen, Types, Fine, Upto
    <2> QED
        BY <2>1
<1> QED
    BY <1>1, RAlways, PTL
=============================================================================
