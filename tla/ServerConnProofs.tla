-------------------------- MODULE ServerConnProofs --------------------------
(***************************************************************************)
(* For any request streams, buffer and socket sizes and limits: the server *)
(* and the peer agree where messages begin, a sink is told its outcome     *)
(* exactly once, responses go out whole and in order, and nothing is left  *)
(* behind while the socket keeps up. All of it holds until a head is       *)
(* accepted with a transfer coding passed over (OneCoding): parse_head()   *)
(* looks at the last Transfer-Encoding field only. The invariant of the    *)
(* connection is carried up to that step and the properties ask no more.   *)
(***************************************************************************)
EXTENDS ServerConn, SequenceTheorems, WellFoundedInduction, NaturalsInduction, TLAPS

-----------------------------------------------------------------------------
(* Taking from and dropping from a sequence.                                 *)

LEMMA TakeProps ==
  ASSUME NEW S, NEW s \in Seq(S), NEW n \in Nat
  PROVE  /\ Take(s, n) \in Seq(S)
         /\ Len(Take(s, n)) = Least(n, Len(s))
         /\ \A k \in 1 .. Least(n, Len(s)) : Take(s, n)[k] = s[k]
<1>1. PICK m \in Nat : m = Least(n, Len(s))
    BY LenProperties DEF Least
<1>2. m <= Len(s)
    BY <1>1, LenProperties DEF Least
<1>3. \A k \in 1 .. m : s[k] \in S
    BY <1>2, LenProperties
<1>4. 1 \in Int /\ m \in Int
    BY <1>1
<1>5. /\ SubSeq(s, 1, m) \in Seq(S)
      /\ Len(SubSeq(s, 1, m)) = IF 1 <= m THEN m - 1 + 1 ELSE 0
      /\ \A k \in 1 .. m - 1 + 1 : SubSeq(s, 1, m)[k] = s[1 + k - 1]
    BY <1>3, <1>4, SubSeqProperties
<1>6. (IF 1 <= m THEN m - 1 + 1 ELSE 0) = m /\ m - 1 + 1 = m
    BY <1>1
<1>7. \A k \in 1 .. m : SubSeq(s, 1, m)[k] = s[k]
    BY <1>5, <1>6
<1>8. QED
    BY <1>1, <1>5, <1>6, <1>7, Zenon DEF Take

LEMMA DropProps ==
  ASSUME NEW S, NEW s \in Seq(S), NEW n \in Nat, n <= Len(s)
  PROVE  /\ Drop(s, n) \in Seq(S)
         /\ Len(Drop(s, n)) = Len(s) - n
         /\ \A k \in 1 .. Len(s) - n : Drop(s, n)[k] = s[k + n]
<1>1. PICK m \in Nat : m = Len(s)
    BY LenProperties
<1>2. \A k \in n + 1 .. m : s[k] \in S
    BY <1>1, LenProperties
<1>3. n + 1 \in Int /\ m \in Int /\ n <= m
    BY <1>1
<1>4. /\ SubSeq(s, n + 1, m) \in Seq(S)
      /\ Len(SubSeq(s, n + 1, m)) = IF n + 1 <= m THEN m - (n + 1) + 1 ELSE 0
      /\ \A k \in 1 .. m - (n + 1) + 1 : SubSeq(s, n + 1, m)[k] = s[n + 1 + k - 1]
    BY <1>2, <1>3, SubSeqProperties
<1>5. (IF n + 1 <= m THEN m - (n + 1) + 1 ELSE 0) = m - n /\ m - (n + 1) + 1 = m - n
    BY <1>1, <1>3
<1>6. \A k \in 1 .. m - n : SubSeq(s, n + 1, m)[k] = s[k + n]
    BY <1>4, <1>5
<1>7. QED
    BY <1>1, <1>4, <1>5, <1>6, Zenon DEF Drop

\* What concatenation gives, with the lengths named.
LEMMA ConcatProps ==
  ASSUME NEW S, NEW a \in Seq(S), NEW b \in Seq(S), NEW m, NEW n, m = Len(a), n = Len(b)
  PROVE  /\ m \in Nat /\ n \in Nat
         /\ a \o b \in Seq(S) /\ Len(a \o b) = m + n
         /\ \A k \in 1 .. m + n : (a \o b)[k] = IF k <= m THEN a[k] ELSE b[k - m]
    BY ConcatProperties, LenProperties, Zenon

\* Reading moves units from the front of one sequence to the end of another.
LEMMA TakenAndRest ==
  ASSUME NEW S, NEW b \in Seq(S), NEW n \in Nat, n <= Len(b),
         NEW t \in Seq(S), Len(t) = n, \A k \in 1 .. n : t[k] = b[k]
  PROVE  t \o Drop(b, n) = b
<1>1. PICK m \in Nat : m = Len(b)
    BY LenProperties
<1>2. PICK d : d = Drop(b, n)
    OBVIOUS
<1>3. d \in Seq(S) /\ Len(d) = m - n /\ \A k \in 1 .. m - n : d[k] = b[k + n]
    BY <1>1, <1>2, DropProps, Zenon
<1>4. PICK c : c = t \o d
    OBVIOUS
<1>5. c \in Seq(S) /\ Len(c) = n + (m - n)
      /\ \A k \in 1 .. n + (m - n) : c[k] = IF k <= n THEN t[k] ELSE d[k - n]
    BY <1>3, <1>4, ConcatProps
<1>6. n + (m - n) = m /\ n <= m
    BY <1>1
<1>7. ASSUME NEW k \in 1 .. m PROVE c[k] = b[k]
  <2>1. CASE k <= n
    BY <1>5, <1>6, <2>1
  <2>2. CASE ~(k <= n)
    <3>1. k - n \in 1 .. m - n /\ k - n + n = k
      BY <1>1, <1>6, <2>2
    <3>2. QED
      BY <1>3, <1>5, <1>6, <2>2, <3>1
  <2>3. QED
    BY <2>1, <2>2
<1>8. c = b
    BY <1>1, <1>5, <1>6, <1>7, SeqEqual, Zenon
<1>9. QED
    BY <1>2, <1>4, <1>8, Zenon

LEMMA Moved ==
  ASSUME NEW S, NEW a \in Seq(S), NEW b \in Seq(S), NEW n \in Nat, n <= Len(b),
         NEW t \in Seq(S), Len(t) = n, \A k \in 1 .. n : t[k] = b[k]
  PROVE  (a \o t) \o Drop(b, n) = a \o b
<1>1. t \o Drop(b, n) = b
    BY TakenAndRest, Zenon
<1>2. Drop(b, n) \in Seq(S)
    BY DropProps, Zenon
<1>3. (a \o t) \o Drop(b, n) = a \o (t \o Drop(b, n))
    BY <1>2, ConcatAssociative
<1>4. QED
    BY <1>1, <1>3, Zenon

LEMMA DropConcat ==
  ASSUME NEW S, NEW a \in Seq(S), NEW b \in Seq(S), NEW n \in Nat, n <= Len(a)
  PROVE  Drop(a, n) \o b = Drop(a \o b, n)
<1>1. PICK ma \in Nat, lb \in Nat : ma = Len(a) /\ lb = Len(b)
    BY LenProperties
<1>2. PICK la \in Nat : la = ma - n
  <2>1. ma - n \in Nat
    BY <1>1
  <2>2. QED
    BY <2>1
<1>3. PICK d : d = Drop(a, n)
    OBVIOUS
<1>4. d \in Seq(S) /\ Len(d) = la /\ \A k \in 1 .. la : d[k] = a[k + n]
  <2>1. /\ Drop(a, n) \in Seq(S) /\ Len(Drop(a, n)) = Len(a) - n
        /\ \A k \in 1 .. Len(a) - n : Drop(a, n)[k] = a[k + n]
    BY DropProps, Zenon
  <2>2. Len(a) - n = la
    BY <1>1, <1>2
  <2>3. QED
    BY <1>3, <2>1, <2>2, Zenon
<1>5. PICK c : c = a \o b
    OBVIOUS
<1>6. PICK mc \in Nat : mc = ma + lb
    BY <1>1
<1>7. c \in Seq(S) /\ Len(c) = mc /\ \A k \in 1 .. mc : c[k] = IF k <= ma THEN a[k] ELSE b[k - ma]
    BY <1>1, <1>5, <1>6, ConcatProps
<1>8. PICK lc \in Nat : lc = mc - n /\ lc = la + lb
  <2>1. la + lb \in Nat /\ la + lb = mc - n
    BY <1>1, <1>2, <1>6
  <2>2. QED
    BY <2>1
<1>9. PICK x : x = d \o b
    OBVIOUS
<1>10. x \in Seq(S) /\ Len(x) = lc /\ \A k \in 1 .. lc : x[k] = IF k <= la THEN d[k] ELSE b[k - la]
  <2>1. /\ d \o b \in Seq(S) /\ Len(d \o b) = la + lb
        /\ \A k \in 1 .. la + lb : (d \o b)[k] = IF k <= la THEN d[k] ELSE b[k - la]
    <3>1. d \in Seq(S) /\ la = Len(d) /\ lb = Len(b)
      BY <1>1, <1>4
    <3>2. /\ d \o b \in Seq(S) /\ Len(d \o b) = Len(d) + Len(b)
          /\ \A k \in 1 .. Len(d) + Len(b) :
                (d \o b)[k] = IF k <= Len(d) THEN d[k] ELSE b[k - Len(d)]
      BY <3>1, ConcatProperties
    <3>3. QED
      BY <3>1, <3>2
  <2>2. QED
    BY <1>8, <1>9, <2>1, Zenon
<1>11. PICK y : y = Drop(c, n)
    OBVIOUS
<1>12. y \in Seq(S) /\ Len(y) = lc /\ \A k \in 1 .. lc : y[k] = c[k + n]
  <2>1. n <= Len(c) /\ Len(c) - n = lc
    BY <1>1, <1>6, <1>7, <1>8
  <2>2. /\ Drop(c, n) \in Seq(S) /\ Len(Drop(c, n)) = Len(c) - n
        /\ \A k \in 1 .. Len(c) - n : Drop(c, n)[k] = c[k + n]
    BY <1>7, <2>1, DropProps, Zenon
  <2>3. QED
    BY <1>11, <2>1, <2>2, Zenon
<1>13. ASSUME NEW k \in 1 .. lc PROVE x[k] = y[k]
  <2>1. PICK kn \in 1 .. mc : kn = k + n
    BY <1>1, <1>2, <1>6, <1>8, <1>13
  <2>2. y[k] = c[kn]
    BY <1>12, <1>13, <2>1
  <2>3. CASE k <= la
    <3>1. k \in 1 .. la /\ kn <= ma
      BY <1>1, <1>2, <1>13, <2>1, <2>3
    <3>2. c[kn] = a[kn] /\ x[k] = d[k] /\ d[k] = a[kn]
      BY <1>4, <1>7, <1>10, <1>13, <2>1, <2>3, <3>1
    <3>3. QED
      BY <2>2, <3>2
  <2>4. CASE ~(k <= la)
    <3>1. ~(kn <= ma) /\ kn - ma = k - la
      BY <1>1, <1>2, <1>13, <2>1, <2>4
    <3>2. c[kn] = b[kn - ma] /\ x[k] = b[k - la]
      BY <1>7, <1>10, <1>13, <2>1, <2>4, <3>1
    <3>3. QED
      BY <2>2, <3>1, <3>2
  <2>5. QED
    BY <2>3, <2>4
<1>14. x = y
    BY <1>10, <1>12, <1>13, SeqEqual
<1>15. QED
    BY <1>3, <1>5, <1>9, <1>11, <1>14, Zenon

LEMMA DropDrop ==
  ASSUME NEW S, NEW s \in Seq(S), NEW m \in Nat, NEW n \in Nat, m + n <= Len(s)
  PROVE  Drop(Drop(s, m), n) = Drop(s, m + n)
<1>1. PICK l \in Nat, mn \in Nat : l = Len(s) /\ mn = m + n
    BY LenProperties
<1>2. PICK lm \in Nat, lx \in Nat : lm = l - m /\ lx = l - mn /\ lx = lm - n
  <2>1. l - m \in Nat /\ l - mn \in Nat /\ l - mn = (l - m) - n
    BY <1>1
  <2>2. QED
    BY <2>1
<1>3. PICK d : d = Drop(s, m)
    OBVIOUS
<1>4. d \in Seq(S) /\ Len(d) = lm /\ \A k \in 1 .. lm : d[k] = s[k + m]
  <2>1. m <= Len(s) /\ Len(s) - m = lm
    BY <1>1, <1>2, <1>1
  <2>2. /\ Drop(s, m) \in Seq(S) /\ Len(Drop(s, m)) = Len(s) - m
        /\ \A k \in 1 .. Len(s) - m : Drop(s, m)[k] = s[k + m]
    BY <1>1, <1>1, <2>1, DropProps, Zenon
  <2>3. QED
    BY <1>1, <1>3, <2>1, <2>2, Zenon
<1>5. PICK x : x = Drop(d, n)
    OBVIOUS
<1>6. x \in Seq(S) /\ Len(x) = lx /\ \A k \in 1 .. lx : x[k] = d[k + n]
  <2>1. n <= Len(d) /\ Len(d) - n = lx
    BY <1>1, <1>2, <1>4
  <2>2. /\ Drop(d, n) \in Seq(S) /\ Len(Drop(d, n)) = Len(d) - n
        /\ \A k \in 1 .. Len(d) - n : Drop(d, n)[k] = d[k + n]
    BY <1>1, <1>4, <2>1, DropProps, Zenon
  <2>3. QED
    BY <1>4, <1>5, <2>1, <2>2, Zenon
<1>7. PICK y : y = Drop(s, mn)
    OBVIOUS
<1>8. y \in Seq(S) /\ Len(y) = lx /\ \A k \in 1 .. lx : y[k] = s[k + mn]
  <2>1. mn <= Len(s) /\ Len(s) - mn = lx
    BY <1>1, <1>2, <1>1
  <2>2. /\ Drop(s, mn) \in Seq(S) /\ Len(Drop(s, mn)) = Len(s) - mn
        /\ \A k \in 1 .. Len(s) - mn : Drop(s, mn)[k] = s[k + mn]
    BY <1>1, <1>1, <2>1, DropProps, Zenon
  <2>3. QED
    BY <1>1, <1>7, <2>1, <2>2, Zenon
<1>9. ASSUME NEW k \in 1 .. lx PROVE x[k] = y[k]
  <2>1. k + n \in 1 .. lm /\ (k + n) + m = k + mn
    BY <1>1, <1>2, <1>9
  <2>2. QED
    BY <1>4, <1>6, <1>8, <1>9, <2>1
<1>10. x = y
    BY <1>6, <1>8, <1>9, SeqEqual
<1>11. QED
    BY <1>1, <1>3, <1>5, <1>7, <1>10, Zenon

LEMMA DropNone ==
  ASSUME NEW S, NEW s \in Seq(S)
  PROVE  Drop(s, 0) = s
<1>1. 0 + 1 = 1
    OBVIOUS
<1>2. QED
    BY <1>1, SubSeqFull, Zenon DEF Drop
-----------------------------------------------------------------------------
(* The peer's stream. sc is the script, n the next unit the peer will send.  *)

Size(sc, i)   == sc[i].head + sc[i].body
IsUnit(sc, u) == u[1] \in DOMAIN sc /\ u[2] \in 1 .. Size(sc, u[1])
After(sc, u)  == IF u[2] < Size(sc, u[1]) THEN <<u[1], u[2] + 1>> ELSE <<u[1] + 1, 1>>

\* s is what the peer sent right before n, and First the unit it starts with.
Chain(sc, s, n) ==
    \A k \in 1 .. Len(s) :
        /\ IsUnit(sc, s[k])
        /\ After(sc, s[k]) = IF k = Len(s) THEN n ELSE s[k + 1]
First(s, n) == IF s = <<>> THEN n ELSE s[1]

LEMMA ScriptFacts ==
  ASSUME NEW sc \in Scripts, NEW i \in DOMAIN sc
  PROVE  /\ i \in Nat \ {0}
         /\ sc[i].head \in Nat \ {0} /\ sc[i].body \in Nat
         /\ sc[i].resp \in Nat \ {0} /\ sc[i].file \in Nat /\ sc[i].upgrade \in BOOLEAN
         /\ sc[i].cl \in Seq(Int) /\ sc[i].te \in Seq(STRING)
         /\ sc[i].body \in Readings(sc[i])
         /\ Size(sc, i) \in Nat \ {0}
<1>1. /\ i \in Nat \ {0}
      /\ sc[i].head \in Nat \ {0} /\ sc[i].body \in Nat
      /\ sc[i].resp \in Nat \ {0} /\ sc[i].file \in Nat /\ sc[i].upgrade \in BOOLEAN
      /\ sc[i].cl \in Seq(Int) /\ sc[i].te \in Seq(STRING)
      /\ sc[i].body \in Readings(sc[i])
    BY ScriptsAssumption, Zenon
<1>2. QED
    BY <1>1 DEF Size

\* One more unit is sent.
LEMMA ChainGrows ==
  ASSUME NEW sc \in Scripts, NEW s \in Units, NEW n \in Nat \X Nat, Chain(sc, s, n), IsUnit(sc, n)
  PROVE  Chain(sc, Append(s, n), After(sc, n)) /\ First(Append(s, n), After(sc, n)) = First(s, n)
<1>t. PICK t : t = Append(s, n)
    OBVIOUS
<1>1. PICK l \in Nat : l = Len(s)
    BY LenProperties DEF Units
<1>2. /\ t \in Units /\ Len(t) = l + 1 /\ t # <<>>
      /\ \A k \in 1 .. l : t[k] = s[k]
      /\ t[l + 1] = n
    BY <1>t, <1>1, AppendProperties DEF Units
<1>3. ASSUME NEW k \in 1 .. l + 1
      PROVE  IsUnit(sc, t[k]) /\ After(sc, t[k]) = IF k = l + 1 THEN After(sc, n) ELSE t[k + 1]
  <2>1. CASE k = l + 1
    BY <1>2, <2>1
  <2>2. CASE k # l + 1
    <3>1. k \in 1 .. l /\ t[k] = s[k]
      BY <1>1, <1>2, <1>3, <2>2
    <3>2. IsUnit(sc, s[k]) /\ After(sc, s[k]) = IF k = l THEN n ELSE s[k + 1]
      BY <1>1, <3>1 DEF Chain
    <3>3. CASE k = l
      BY <1>2, <2>2, <3>1, <3>2, <3>3
    <3>4. CASE k # l
      <4>1. k + 1 \in 1 .. l
        BY <1>1, <3>1, <3>4
      <4>2. t[k + 1] = s[k + 1]
        BY <1>2, <4>1
      <4>3. QED
        BY <2>2, <3>1, <3>2, <3>4, <4>2
    <3>5. QED
      BY <3>3, <3>4
  <2>3. QED
    BY <2>1, <2>2
<1>4. Chain(sc, t, After(sc, n))
    BY <1>2, <1>3 DEF Chain
<1>5. First(t, After(sc, n)) = First(s, n)
  <2>1. CASE s = <<>>
    <3>1. l = 0
      BY <1>1, <2>1
    <3>2. QED
      BY <1>2, <2>1, <3>1 DEF First
  <2>2. CASE s # <<>>
    <3>1. 1 \in 1 .. l
      BY <1>1, <2>2, EmptySeq DEF Units
    <3>2. QED
      BY <1>2, <2>2, <3>1 DEF First
  <2>3. QED
    BY <2>1, <2>2
<1>6. QED
    BY <1>t, <1>1, <1>4, <1>5, Zenon

\* A stretch of the stream lies inside one request as far as its size reaches.
LEMMA ChainWalk ==
  ASSUME NEW sc \in Scripts, NEW s \in Units, NEW n \in Nat \X Nat, Chain(sc, s, n),
         NEW i \in DOMAIN sc, NEW p \in Nat \ {0}, s # <<>> => s[1] = <<i, p>>
  PROVE  \A k \in 1 .. Len(s) : p + k - 1 <= Size(sc, i) => s[k] = <<i, p + k - 1>>
<1> DEFINE Bad == {k \in 1 .. Len(s) : p + k - 1 <= Size(sc, i) /\ s[k] # <<i, p + k - 1>>}
           Less == {ss \in Nat \X Nat : ss[1] < ss[2]}
<1>0. Len(s) \in Nat /\ Size(sc, i) \in Nat
    BY LenProperties, ScriptFacts DEF Units
<1>1. SUFFICES ASSUME Bad # {} PROVE FALSE
    BY Zenon
<1>2. IsWellFoundedOn(Less, Nat)
    BY NatLessThanWellFounded, Zenon DEF OpToRel
<1>3. Bad \subseteq Nat
    BY <1>0
<1> HIDE DEF Less
<1>4. PICK k \in Bad : \A y \in Bad : <<y, k>> \notin Less
    BY <1>1, <1>2, <1>3, WFMin
<1>5. k \in 1 .. Len(s) /\ p + k - 1 <= Size(sc, i) /\ s[k] # <<i, p + k - 1>>
    BY <1>4
<1>6. k # 1
    BY <1>5
<1>7. PICK j \in 1 .. Len(s) : j + 1 = k
  <2>1. k - 1 \in 1 .. Len(s) /\ k - 1 + 1 = k
    BY <1>0, <1>5, <1>6
  <2>2. QED
    BY <2>1
<1>8. j \notin Bad
  <2>1. j \in Nat /\ k \in Nat /\ j < k
    BY <1>0, <1>7
  <2>2. <<j, k>> \in Less
    BY <2>1 DEF Less
  <2>3. QED
    BY <1>4, <2>2
<1>9. p + j - 1 < Size(sc, i)
    BY <1>0, <1>5, <1>7
<1>10. s[j] = <<i, p + j - 1>>
    BY <1>0, <1>8, <1>9
<1>11. After(sc, s[j]) = s[k]
    BY <1>0, <1>5, <1>7 DEF Chain
<1>12. After(sc, s[j]) = <<i, p + j - 1 + 1>>
    BY <1>9, <1>10 DEF After
<1>13. p + j - 1 + 1 = p + k - 1
    BY <1>0, <1>7
<1>14. QED
    BY <1>5, <1>11, <1>12, <1>13

\* Where the stream stands once d units of request i have been taken off it.
Past(sc, i, p, d) == IF p + d - 1 < Size(sc, i) THEN <<i, p + d>> ELSE <<i + 1, 1>>

LEMMA ChainCut ==
  ASSUME NEW sc \in Scripts, NEW s \in Units, NEW n \in Nat \X Nat, Chain(sc, s, n),
         NEW i \in DOMAIN sc, NEW p \in Nat \ {0}, First(s, n) = <<i, p>>, p <= Size(sc, i),
         NEW d \in Nat, d <= Len(s), p + d - 1 <= Size(sc, i)
  PROVE  /\ Drop(s, d) \in Units /\ Len(Drop(s, d)) = Len(s) - d
         /\ Chain(sc, Drop(s, d), n)
         /\ First(Drop(s, d), n) = Past(sc, i, p, d)
         /\ \A k \in 1 .. d : s[k] = <<i, p + k - 1>>
<1>1. PICK l \in Nat : l = Len(s)
    BY LenProperties DEF Units
<1>2. Size(sc, i) \in Nat
    BY ScriptFacts
<1>3. PICK t : t = Drop(s, d)
    OBVIOUS
<1>4. t \in Units /\ Len(t) = Len(s) - d /\ \A k \in 1 .. Len(s) - d : t[k] = s[k + d]
    BY <1>3, DropProps, ZenonT(60) DEF Units
<1>5. Chain(sc, t, n)
  <2>1. ASSUME NEW k \in 1 .. Len(t)
        PROVE  IsUnit(sc, t[k]) /\ After(sc, t[k]) = IF k = Len(t) THEN n ELSE t[k + 1]
    <3>1. PICK j \in 1 .. Len(s) : j = k + d
      BY <1>1, <1>4, <2>1
    <3>2. t[k] = s[j]
      BY <1>1, <1>4, <2>1, <3>1
    <3>3. IsUnit(sc, s[j]) /\ After(sc, s[j]) = IF j = Len(s) THEN n ELSE s[j + 1]
      BY <3>1 DEF Chain
    <3>4. k = Len(t) <=> j = Len(s)
      BY <1>1, <1>4, <2>1, <3>1
    <3>5. CASE k = Len(t)
      BY <3>2, <3>3, <3>4, <3>5
    <3>6. CASE k # Len(t)
      <4>1. PICK m \in 1 .. Len(s) - d : m = k + 1 /\ m + d = j + 1
        BY <1>1, <1>4, <2>1, <3>1, <3>6
      <4>2. t[m] = s[m + d]
        BY <1>4, <4>1
      <4>3. QED
        BY <3>2, <3>3, <3>4, <3>6, <4>1, <4>2
    <3>7. QED
      BY <3>5, <3>6
  <2>2. QED
    BY <2>1 DEF Chain
<1>6. s # <<>> => s[1] = <<i, p>>
    BY DEF First
<1>7. \A k \in 1 .. Len(s) : p + k - 1 <= Size(sc, i) => s[k] = <<i, p + k - 1>>
    BY <1>6, ChainWalk
<1>8. \A k \in 1 .. d : s[k] = <<i, p + k - 1>>
  <2>1. ASSUME NEW k \in 1 .. d PROVE s[k] = <<i, p + k - 1>>
    <3>1. k \in 1 .. Len(s) /\ p + k - 1 <= Size(sc, i)
      BY <1>1, <1>2, <2>1
    <3>2. QED
      BY <1>7, <3>1
  <2>2. QED
    BY <2>1
<1>9. First(t, n) = Past(sc, i, p, d)
  <2>1. CASE d = 0
    <3>1. t = s
      BY <1>3, <2>1, DropNone DEF Units
    <3>2. p + d - 1 < Size(sc, i) /\ p + d = p
      BY <1>2, <2>1
    <3>3. QED
      BY <3>1, <3>2 DEF Past
  <2>2. CASE d # 0
    <3>1. d \in 1 .. d /\ d \in 1 .. Len(s)
      BY <1>1, <2>2
    <3>2. s[d] = <<i, p + d - 1>>
      BY <1>8, <3>1
    <3>3. After(sc, s[d]) = IF p + d - 1 < Size(sc, i) THEN <<i, p + d - 1 + 1>> ELSE <<i + 1, 1>>
      BY <3>2 DEF After
    <3>4. p + d - 1 + 1 = p + d
      OBVIOUS
    <3>5. After(sc, s[d]) = Past(sc, i, p, d)
      BY <3>3, <3>4 DEF Past
    <3>6. After(sc, s[d]) = IF d = Len(s) THEN n ELSE s[d + 1]
      BY <3>1 DEF Chain
    <3>7. CASE d = Len(s)
      <4>1. t = <<>>
        BY <1>1, <1>4, <3>7, EmptySeq DEF Units
      <4>2. QED
        BY <3>5, <3>6, <3>7, <4>1 DEF First
    <3>8. CASE d # Len(s)
      <4>1. 1 \in 1 .. Len(s) - d /\ Len(t) # 0
        BY <1>1, <1>4, <3>8
      <4>2. t[1] = s[1 + d] /\ 1 + d = d + 1
        BY <1>4, <4>1
      <4>3. t # <<>>
        BY <4>1, EmptySeq
      <4>4. QED
        BY <3>5, <3>6, <3>8, <4>2, <4>3 DEF First
    <3>9. QED
      BY <3>7, <3>8
  <2>3. QED
    BY <2>1, <2>2
<1>10. QED
    BY <1>3, <1>4, <1>5, <1>8, <1>9, Zenon

\* A head that parse_head() accepts can be read in one way only, and that is
\* how the server reads it, provided no coding in it was passed over.
LEMMA OneReading ==
  ASSUME NEW sc \in Scripts, NEW i \in DOMAIN sc, ParseHead(sc[i]) = 0, ~PassesCoding(sc[i])
  PROVE  BodyLen(sc[i]) = sc[i].body
<1> DEFINE h == sc[i]
<1>1. h.cl \in Seq(Int) /\ h.te \in Seq(STRING) /\ h.body \in Readings(h)
    BY ScriptFacts
<1>2. ~Malformed(h) /\ ~(h.te # <<>> /\ h.te[Len(h.te)] = "chunked")
    BY DEF ParseHead
<1> HIDE DEF h
<1>3. Len(h.cl) \in Nat /\ Len(h.cl) <= 1 /\ DOMAIN h.cl = 1 .. Len(h.cl)
    BY <1>1, <1>2, LenProperties DEF Malformed
<1>4. \A k \in DOMAIN h.te : h.te[k] = "identity"
    BY DEF PassesCoding, h
<1>6. Readings(h) = {h.cl[k] : k \in DOMAIN h.cl} \cup IF h.cl = <<>> THEN {0} ELSE {}
    BY <1>4 DEF Readings
<1>7. CASE h.cl = <<>>
  <2>1. DOMAIN h.cl = {}
    BY <1>3, <1>7
  <2>2. h.body = 0
    BY <1>1, <1>6, <1>7, <2>1
  <2>3. QED
    BY <1>7, <2>2 DEF BodyLen, h
<1>8. CASE h.cl # <<>>
  <2>1. \A k \in DOMAIN h.cl : k = 1
    BY <1>3
  <2>2. h.body = h.cl[1]
    BY <1>1, <1>6, <1>8, <2>1
  <2>3. QED
    BY <1>8, <2>2 DEF BodyLen, h
<1>9. QED
    BY <1>7, <1>8
-----------------------------------------------------------------------------
(* The invariant. A connection is alive until drive() has given it up.       *)

Alive == status \in {"none", "open"} /\ pc # "dispose"

\* What the server has yet to look at, up to the next unit the peer will send:
\* the buffer, or past a streamed body its tail, and what the socket holds.
Ahead == IF cn.sink = 0 THEN cn.raw \o rx ELSE cn.tail \o rx

\* The request the server is at.
Cur == IF cn.sink = 0 THEN First(Ahead, next)[1] ELSE cn.sink

Sent == next[1] \in Requests => IsUnit(script, next)

\* Which state of the connection goes with which place in the code.
Accepted(c) == HeadDone(c) /\ InStep(c) /\ ParseHead(script[Front(c)]) = 0

\* No head has been accepted so far with a coding passed over.
OneCoding == "coding" \notin mishaps
Sound(c)  == OneCoding => ~PassesCoding(script[Front(c)])

Places ==
    /\ pc \in {"flush", "recv", "parse", "route", "pump", "rearm", "dispose"} => status = "open"
    /\ status # "open" => cn = NewConn
    /\ pc \in {"recv", "parse", "route"} \/ (pc = "flush" /\ ret # "start") => cn.sink = 0
    /\ pc = "pump" => cn.sink # 0
    /\ pc \in {"recv", "parse", "route", "pump"} => ~HasPending(cn)
    /\ pc = "dispose" /\ cn.sink # 0 => peer # "up"
    /\ pc = "route" \/ (pc = "flush" /\ ret = "interim") => Accepted(cn) /\ Sound(cn)

\* The stream ahead begins with a head, with the part of the body that the sink
\* is still owed, or with the head after that body.
Begins ==
    IF cn.sink = 0 THEN First(Ahead, next)[2] = 1
    ELSE First(Ahead, next) = IF cn.left > 0 THEN <<cn.sink, Size(script, cn.sink) - cn.left + 1>>
                              ELSE <<cn.sink + 1, 1>>
Framed ==
    Alive => /\ Chain(script, Ahead, next)
             /\ Begins
             /\ cn.sink # 0 /\ cn.left > 0 => cn.tail = <<>>

\* No sink of a later request has heard anything.
Fresh ==
    Alive => \A i \in Requests : i > Cur \/ (i = Cur /\ cn.sink = 0) =>
                 sinkGot[i] = <<>> /\ sinkTold[i] = <<>>

SinkFed ==
    cn.sink # 0 => /\ BodyLen(script[cn.sink]) = script[cn.sink].body
                   /\ Len(sinkGot[cn.sink]) + cn.left = script[cn.sink].body

OwnBody ==
    \A i \in Requests : \A k \in DOMAIN sinkGot[i] : sinkGot[i][k] = <<i, script[i].head + k>>

\* SinkToldOnce without its condition.
ToldOnce ==
    \A i \in Requests :
        /\ Len(sinkTold[i]) <= 1
        /\ sinkTold[i] = <<>> => sinkGot[i] = <<>> \/ cn.sink = i
        /\ sinkTold[i] # <<>> => cn.sink # i
        /\ sinkTold[i] = <<"end">> => Len(sinkGot[i]) = BodyLen(script[i])
        /\ sinkTold[i] = <<"lost">> => peer # "up" \/ "poll" \in mishaps

IInv == TypeOK /\ Sent /\ Places /\ Framed /\ Fresh /\ SinkFed /\ OwnBody /\ ToldOnce

LEMMA NewConnOK == NewConn \in Conns /\ Len(NewConn.raw) = 0 /\ NewConn.sink = 0
<1>1. <<>> \in Units /\ <<>> \in Replies
    BY EmptySeq DEF Units, Replies
<1>2. Len(NewConn.raw) = 0 /\ NewConn.sink = 0
    BY DEF NewConn
<1>3. QED
    BY <1>1, <1>2 DEF NewConn, Conns

LEMMA InitTypes ==
  ASSUME Init
  PROVE  TypeOK
<1>1. cn \in Conns /\ Len(cn.raw) <= Cap
    BY NewConnOK, SizesAssumption DEF Init
<1>2. <<>> \in Units /\ <<>> \in Replies /\ <<>> \in Seq(Reasons)
    BY EmptySeq DEF Units, Replies
<1>3. /\ script \in Scripts /\ next \in Nat \X Nat /\ peer \in {"up", "eof", "reset"}
      /\ rx \in Units /\ room \in 0 .. TxCap /\ wire \in Replies
    BY <1>2, SizesAssumption DEF Init
<1>4. sinkGot \in [Requests -> Units] /\ sinkTold \in [Requests -> Seq(Reasons)]
    BY <1>2 DEF Init
<1>5. {keep, drained, blocked, late, expired, running, draining} \subseteq BOOLEAN
    BY Zenon DEF Init
<1>6. QED
    BY <1>1, <1>3, <1>4, <1>5 DEF Init, TypeOK

LEMMA InitInv ==
  ASSUME Init
  PROVE  IInv
<1>1. TypeOK
    BY InitTypes
<1>2. cn.sink = 0 /\ cn.raw = <<>> /\ cn.tail = <<>> /\ rx = <<>> /\ cn.raw \o rx = <<>>
    BY DEF Init, NewConn
<1>3. Ahead = <<>> /\ First(Ahead, next) = <<1, 1>>
    BY <1>2 DEF Ahead, First, Init
<1>4. Sent
  <2>1. ASSUME 1 \in DOMAIN script PROVE Size(script, 1) \in Nat \ {0}
    BY <1>1, <2>1, ScriptFacts DEF TypeOK
  <2>2. QED
    BY <2>1 DEF Sent, Init, IsUnit, Requests
<1>5. Places
    BY <1>2 DEF Places, Init
<1>6. Framed
    BY <1>2, <1>3 DEF Framed, Chain, Begins
<1>7. (\A i \in Requests : sinkGot[i] = <<>> /\ sinkTold[i] = <<>>)
    BY DEF Init
<1>8. Fresh /\ SinkFed
    BY <1>2, <1>7 DEF Fresh, SinkFed
<1>9. OwnBody
    BY <1>7 DEF OwnBody
<1>10. ToldOnce
  <2>1. Len(<<>>) <= 1 /\ <<>> # <<"end">> /\ <<>> # <<"lost">>
    OBVIOUS
  <2>2. QED
    BY <1>7, <2>1, Zenon DEF ToldOnce
<1>11. QED
    BY <1>1, <1>4, <1>5, <1>6, <1>8, <1>9, <1>10 DEF IInv
-----------------------------------------------------------------------------
(* What the invariant gives at the places where a request is looked at.      *)

LEMMA AheadUnits ==
  ASSUME IInv
  PROVE  /\ cn.raw \in Units /\ cn.tail \in Units /\ rx \in Units
         /\ cn.raw \o rx \in Units /\ cn.tail \o rx \in Units /\ Ahead \in Units
         /\ script \in Scripts /\ next \in Nat \X Nat
<1>1. cn.raw \in Units /\ cn.tail \in Units /\ rx \in Units /\ script \in Scripts /\ next \in Nat \X Nat
    BY DEF IInv, TypeOK, Conns
<1>2. cn.raw \o rx \in Units /\ cn.tail \o rx \in Units
    BY <1>1, ConcatProperties DEF Units
<1>3. QED
    BY <1>1, <1>2 DEF Ahead

\* A buffer that is not empty starts with a head of the current request.
LEMMA FrontFacts ==
  ASSUME IInv, Alive, cn.sink = 0, cn.raw # <<>>
  PROVE  /\ Front(cn) \in Requests /\ cn.raw[1] = <<Front(cn), 1>> /\ InStep(cn)
         /\ Cur = Front(cn) /\ First(Ahead, next) = <<Front(cn), 1>>
         /\ Len(cn.raw) \in Nat \ {0}
<1>1. /\ cn.raw \in Units /\ rx \in Units /\ Ahead \in Units /\ Ahead = cn.raw \o rx
    BY AheadUnits DEF Ahead
<1>2. /\ Len(cn.raw) \in Nat \ {0} /\ Len(rx) \in Nat
    BY <1>1, EmptySeq, LenProperties DEF Units
<1>3. /\ Len(Ahead) = Len(cn.raw) + Len(rx) /\ Ahead[1] = cn.raw[1]
    BY <1>1, <1>2, ConcatProperties DEF Units
<1>4. Ahead # <<>> /\ 1 \in 1 .. Len(Ahead)
    BY <1>2, <1>3
<1>5. First(Ahead, next) = cn.raw[1]
    BY <1>3, <1>4 DEF First
<1>6. IsUnit(script, cn.raw[1]) /\ cn.raw[1][2] = 1
    BY <1>3, <1>4, <1>5 DEF IInv, Framed, Chain, Begins
<1>7. cn.raw[1] \in Nat \X Nat
    BY <1>1, <1>2 DEF Units
<1>8. QED
    BY <1>2, <1>5, <1>6, <1>7 DEF Front, InStep, IsUnit, Requests, Cur

LEMMA RouteFacts ==
  ASSUME IInv, OneCoding, pc = "route"
  PROVE  /\ Alive /\ status = "open" /\ cn.sink = 0 /\ cn.raw # <<>> /\ Front(cn) \in Requests
         /\ cn.raw[1] = <<Front(cn), 1>> /\ Cur = Front(cn) /\ First(Ahead, next) = <<Front(cn), 1>>
         /\ BodyLen(script[Front(cn)]) = script[Front(cn)].body
         /\ script[Front(cn)].head \in Nat \ {0} /\ script[Front(cn)].body \in Nat
         /\ Size(script, Front(cn)) = script[Front(cn)].head + script[Front(cn)].body
         /\ Len(cn.raw) \in Nat /\ Len(cn.raw) >= script[Front(cn)].head
         /\ cn.out = <<>> /\ cn.file = <<>>
<1>1. /\ status = "open" /\ Alive /\ cn.sink = 0 /\ Accepted(cn) /\ Sound(cn) /\ ~HasPending(cn)
      /\ script \in Scripts
    BY DEF IInv, Places, Alive, TypeOK
<1>2. cn.raw # <<>> /\ Len(cn.raw) >= script[Front(cn)].head /\ ParseHead(script[Front(cn)]) = 0
    BY <1>1 DEF Accepted, HeadDone
<1>3. /\ Front(cn) \in Requests /\ cn.raw[1] = <<Front(cn), 1>> /\ InStep(cn)
      /\ Cur = Front(cn) /\ First(Ahead, next) = <<Front(cn), 1>>
      /\ Len(cn.raw) \in Nat \ {0}
    BY <1>1, <1>2, FrontFacts
<1>4. /\ script[Front(cn)].head \in Nat \ {0} /\ script[Front(cn)].body \in Nat
      /\ Size(script, Front(cn)) = script[Front(cn)].head + script[Front(cn)].body
    BY <1>1, <1>3, ScriptFacts DEF Requests, Size
<1>5. BodyLen(script[Front(cn)]) = script[Front(cn)].body
    BY <1>1, <1>2, <1>3, OneReading DEF Sound, Requests
<1>6. cn.out = <<>> /\ cn.file = <<>>
    BY <1>1 DEF HasPending
<1>7. QED
    BY <1>1, <1>2, <1>3, <1>4, <1>5, <1>6

LEMMA PumpFacts ==
  ASSUME IInv, pc = "pump"
  PROVE  /\ Alive /\ status = "open" /\ cn.sink \in Requests /\ cn.sink # 0 /\ Cur = cn.sink
         /\ cn.sink \in Nat /\ cn.left \in Nat
         /\ Ahead = cn.tail \o rx
         /\ BodyLen(script[cn.sink]) = script[cn.sink].body
         /\ script[cn.sink].head \in Nat \ {0} /\ script[cn.sink].body \in Nat
         /\ Size(script, cn.sink) = script[cn.sink].head + script[cn.sink].body
         /\ Len(sinkGot[cn.sink]) + cn.left = script[cn.sink].body
         /\ sinkGot[cn.sink] \in Units
         /\ sinkTold[cn.sink] = <<>>
         /\ cn.out = <<>> /\ cn.file = <<>>
<1>1. status = "open" /\ Alive /\ cn.sink # 0 /\ ~HasPending(cn) /\ script \in Scripts
    BY DEF IInv, Places, Alive, TypeOK
<1>2. cn.sink \in Requests /\ cn.left \in Nat
    BY <1>1 DEF IInv, TypeOK, Conns
<1>3. /\ script[cn.sink].head \in Nat \ {0} /\ script[cn.sink].body \in Nat /\ cn.sink \in Nat
      /\ Size(script, cn.sink) = script[cn.sink].head + script[cn.sink].body
    BY <1>1, <1>2, ScriptFacts DEF Requests, Size
<1>4. sinkTold[cn.sink] = <<>>
    BY <1>2, Zenon DEF IInv, ToldOnce
<1>5. QED
    BY <1>1, <1>2, <1>3, <1>4 DEF IInv, SinkFed, Cur, Ahead, HasPending, TypeOK
-----------------------------------------------------------------------------
(* Type correctness. It rests on the framing: a request that is served, or   *)
(* whose sink is fed, is one of the script.                                  *)

LEMMA ReplyTypes ==
  ASSUME NEW i \in Requests, script \in Scripts
  PROVE  /\ Reply(i) \in Replies /\ Len(Reply(i)) = script[i].resp
         /\ FileBody(i) \in Replies /\ Len(FileBody(i)) = script[i].file
         /\ \A k \in 1 .. script[i].resp : Reply(i)[k] = <<i, 1, k>>
         /\ \A k \in 1 .. script[i].file : FileBody(i)[k] = <<i, 2, k>>
         /\ script[i].resp \in Nat \ {0} /\ script[i].file \in Nat
<1> DEFINE S == Nat \X (0 .. 3) \X Nat
<1>1. i \in Nat /\ script[i].resp \in Nat \ {0} /\ script[i].file \in Nat
    BY ScriptFacts DEF Requests
<1>2. Reply(i) \in [1 .. script[i].resp -> S] /\ FileBody(i) \in [1 .. script[i].file -> S]
    BY <1>1 DEF Reply, FileBody
<1>3. Replies = Seq(S)
    BY DEF Replies
<1> HIDE DEF S
<1>4. Reply(i) \in Seq(S) /\ FileBody(i) \in Seq(S)
    BY <1>1, <1>2, SeqDef
<1>5. Len(Reply(i)) = script[i].resp /\ Len(FileBody(i)) = script[i].file
    BY <1>1, <1>2, <1>4, LenProperties
<1>6. /\ \A k \in 1 .. script[i].resp : Reply(i)[k] = <<i, 1, k>>
      /\ \A k \in 1 .. script[i].file : FileBody(i)[k] = <<i, 2, k>>
    BY DEF Reply, FileBody
<1>7. QED
    BY <1>1, <1>3, <1>4, <1>5, <1>6

LEMMA SendErrorTypes ==
  ASSUME TypeOK, NEW i \in Nat, SendError(i)
  PROVE  wire' \in Replies /\ room' \in 0 .. TxCap
<1>1. wire \in Replies /\ room \in 0 .. TxCap /\ TxCap \in Nat
    BY SizesAssumption DEF TypeOK
<1>2. <<i, 3, 1>> \in Nat \X (0 .. 3) \X Nat
    OBVIOUS
<1>3. Append(wire, <<i, 3, 1>>) \in Replies
    BY <1>1, <1>2, AppendProperties DEF Replies
<1>4. CASE room > 0 /\ peer # "reset"
  <2>1. room - 1 \in 0 .. TxCap
    BY <1>1, <1>4
  <2>2. wire' = Append(wire, <<i, 3, 1>>) /\ room' = room - 1
    BY <1>4, Zenon DEF SendError
  <2>3. QED
    BY <1>3, <2>1, <2>2, Zenon
<1>5. CASE ~(room > 0 /\ peer # "reset")
    BY <1>1, <1>5 DEF SendError
<1>6. QED
    BY <1>4, <1>5

\* The part of the type invariant that is not about messages.
Plain ==
    /\ script \in Scripts /\ next \in Nat \X Nat /\ peer \in {"up", "eof", "reset"}
    /\ status \in {"none", "open", "closed", "handed"}
    /\ pc \in {"top", "wait", "flush", "recv", "parse", "route", "pump", "rearm",
               "dispose", "exit"}
    /\ ret \in {"start", "interim", "buffered", "stream"}
    /\ mishaps \subseteq {"backed", "shrunk", "tail", "poll", "coding"}
Flags == {keep, drained, blocked, late, expired, running, draining} \subseteq BOOLEAN
Messages ==
    /\ rx \in Units /\ room \in 0 .. TxCap /\ wire \in Replies
    /\ cn \in Conns /\ Len(cn.raw) <= Cap
    /\ sinkGot \in [Requests -> Units] /\ sinkTold \in [Requests -> Seq(Reasons)]
    /\ last \in {0} \cup Requests

LEMMA TypeParts == TypeOK <=> Plain /\ Flags /\ Messages
    BY DEF TypeOK, Plain, Flags, Messages

LEMMA UnitProps ==
  ASSUME TypeOK
  PROVE  next[1] \in Nat /\ next[2] \in Nat
    BY DEF TypeOK

LEMMA PlainStep ==
  ASSUME IInv, [Next]_vars
  PROVE  Plain'
<1> USE DEF IInv, TypeOK, Plain
<1>1. CASE PeerSends
  <2>1. next' \in Nat \X Nat
    <3>1. next[1] \in Nat /\ next[2] \in Nat
      BY UnitProps
    <3>2. QED
      BY <1>1, <3>1 DEF PeerSends
  <2>2. QED
    BY <1>1, <2>1 DEF PeerSends, marks, locals
<1>2. CASE Drain \/ DrainDone \/ Wait \/ WaitReturns \/ Accept \/ Drive \/ Rearm
    BY <1>2 DEF Drain, DrainDone, Wait, WaitReturns, Accept, Drive, Rearm,
                peerVars, locals, marks
<1>3. CASE DrainExpired \/ PollFails \/ Sweep \/ Dispose
    BY <1>3 DEF DrainExpired, PollFails, Sweep, Dispose, Leave, peerVars, locals, marks
<1>4. CASE FlushSend \/ FlushFile \/ FlushFileEnds \/ FlushBlocks \/ FlushFails
    BY <1>4 DEF FlushSend, FlushFile, FlushFileEnds, FlushBlocks, FlushFails, peerVars, locals, marks
<1>5. CASE Flushed
    BY <1>5 DEF Flushed, AfterFlush, peerVars, marks
<1>6. CASE Recv \/ RecvInto \/ RecvOverflows \/ Parse \/ ParseFails \/ ParseInterim
    BY <1>6 DEF Recv, RecvInto, RecvOverflows, Parse, Accepting, NeedMore, ParseFails, ParseInterim,
                Refuse, peerVars, locals, marks
<1>7. CASE RouteSink \/ RouteTooLarge \/ RouteWaits \/ RouteServes
    BY <1>7 DEF RouteSink, Feed, RouteTooLarge, RouteWaits, NeedMore, RouteServes, Refuse,
                peerVars, locals, marks
<1>8. CASE PumpWaits \/ PumpLost \/ PumpChunk \/ PumpRefused \/ PumpEnds
    BY <1>8 DEF PumpWaits, PumpLost, PumpChunk, Feed, PumpRefused, PumpEnds, Refuse,
                peerVars, locals, marks
<1>9. CASE PeerReads \/ PeerEnds \/ PeerResets \/ DeadlinePasses \/ BudgetPasses
    BY <1>9, ZenonT(60) DEF PeerReads, PeerEnds, PeerResets, DeadlinePasses, BudgetPasses, env,
                peerVars, locals, marks
<1>10. CASE Returned \/ UNCHANGED vars
    BY <1>10 DEF Returned, vars, peerVars, locals, marks
<1>11. QED
    BY <1>1, <1>2, <1>3, <1>4, <1>5, <1>6, <1>7, <1>8, <1>9, <1>10
    DEF Next, Server, Loop, Flush, Buffer, Pump, World

LEMMA FlagParts ==
  Flags <=> /\ keep \in BOOLEAN /\ drained \in BOOLEAN /\ blocked \in BOOLEAN /\ late \in BOOLEAN
            /\ expired \in BOOLEAN /\ running \in BOOLEAN /\ draining \in BOOLEAN
    BY Zenon DEF Flags

LEMMA FlagsStep ==
  ASSUME IInv, [Next]_vars
  PROVE  Flags'
<1>0. /\ keep \in BOOLEAN /\ drained \in BOOLEAN /\ blocked \in BOOLEAN /\ late \in BOOLEAN
      /\ expired \in BOOLEAN /\ running \in BOOLEAN /\ draining \in BOOLEAN
    BY FlagParts, TypeParts, Zenon DEF IInv
<1>a. SUFFICES
         /\ keep' \in BOOLEAN /\ drained' \in BOOLEAN /\ blocked' \in BOOLEAN /\ late' \in BOOLEAN
         /\ expired' \in BOOLEAN /\ running' \in BOOLEAN /\ draining' \in BOOLEAN
    BY Zenon DEF Flags
<1>1. CASE Drain \/ DrainDone \/ Wait \/ WaitReturns \/ Accept \/ Drive \/ Rearm
    BY <1>0, <1>1, Zenon DEF Drain, DrainDone, Wait, WaitReturns, Accept, Drive, Rearm, locals, clock, modes
<1>2. CASE DrainExpired \/ PollFails \/ Sweep \/ Dispose
    BY <1>0, <1>2, Zenon DEF DrainExpired, PollFails, Sweep, Dispose, Leave, locals, clock, modes
<1>3. CASE FlushSend \/ FlushFile \/ FlushFileEnds \/ FlushBlocks \/ FlushFails
    BY <1>0, <1>3, Zenon DEF FlushSend, FlushFile, FlushFileEnds, FlushBlocks, FlushFails, locals, clock, modes
<1>4. CASE Flushed
    BY <1>0, <1>4, Zenon DEF Flushed, locals, clock, modes
<1>5. CASE Recv \/ RecvOverflows \/ Parse \/ ParseFails \/ ParseInterim
    BY <1>0, <1>5, Zenon DEF Recv, RecvOverflows, Parse, ParseFails, ParseInterim, Refuse, locals, clock, modes
<1>6. CASE RecvInto
  <2>1. /\ drained' = (Len(Take(rx, RecvChunk)) < RecvChunk) /\ late' = FALSE
        /\ UNCHANGED <<keep, blocked, expired, modes>>
    BY <1>6, Zenon DEF RecvInto
  <2>2. drained' \in BOOLEAN
    BY <2>1
  <2>3. QED
    BY <1>0, <2>1, <2>2, Zenon DEF modes
<1>7. CASE RouteSink \/ RouteTooLarge \/ RouteWaits
    BY <1>0, <1>7, Zenon DEF RouteSink, RouteTooLarge, RouteWaits, Refuse, locals, clock, modes
<1>8. CASE RouteServes
  <2>1. keep' = KeepFor([cn EXCEPT !.raw = Drop(@, script[Front(cn)].head + BodyLen(script[Front(cn)]))], Front(cn))
        /\ running' \in {running, FALSE} /\ UNCHANGED <<drained, blocked, clock, draining>>
    BY <1>8, Zenon DEF RouteServes, Serve
  <2>2. QED
    BY <1>0, <2>1, Zenon DEF KeepFor, clock
<1>9. CASE PumpWaits \/ PumpLost \/ PumpChunk \/ PumpRefused
    BY <1>0, <1>9, Zenon DEF PumpWaits, PumpLost, PumpChunk, PumpRefused, Refuse, locals, clock, modes
<1>10. CASE PumpEnds
  <2>1. (\E c : keep' = KeepFor(c, cn.sink))
        /\ running' \in {running, FALSE} /\ UNCHANGED <<drained, blocked, clock, draining>>
    BY <1>10, Zenon DEF PumpEnds, Serve
  <2>2. QED
    BY <1>0, <2>1, Zenon DEF KeepFor, clock
<1>11. CASE PeerSends \/ PeerReads \/ PeerEnds \/ PeerResets \/ DeadlinePasses \/ BudgetPasses
    BY <1>0, <1>11, Zenon DEF PeerSends, PeerReads, PeerEnds, PeerResets, DeadlinePasses, BudgetPasses, env,
                locals, clock, modes
<1>12. CASE Returned \/ UNCHANGED vars
    BY <1>0, <1>12, Zenon DEF Returned, vars, locals, clock, modes
<1>13. QED
    BY <1>1, <1>2, <1>3, <1>4, <1>5, <1>6, <1>7, <1>8, <1>9, <1>10, <1>11, <1>12
    DEF Next, Server, Loop, Flush, Buffer, Pump, World

LEMMA TellTypes ==
  ASSUME TypeOK, NEW c, c.sink \in {0} \cup Requests, NEW why \in Reasons, Tell(c, why)
  PROVE  sinkTold' \in [Requests -> Seq(Reasons)]
<1>1. sinkTold \in [Requests -> Seq(Reasons)]
    BY DEF TypeOK
<1>2. CASE c.sink = 0
    BY <1>1, <1>2 DEF Tell
<1>3. CASE c.sink # 0
  <2>1. c.sink \in Requests /\ sinkTold[c.sink] \in Seq(Reasons)
    BY <1>1, <1>3
  <2>2. Append(sinkTold[c.sink], why) \in Seq(Reasons)
    BY <2>1, AppendProperties
  <2>3. sinkTold' = [sinkTold EXCEPT ![c.sink] = Append(sinkTold[c.sink], why)]
    BY <1>3 DEF Tell
  <2>4. QED
    BY <1>1, <2>1, <2>2, <2>3
<1>4. QED
    BY <1>2, <1>3

LEMMA MessagesSame ==
  ASSUME TypeOK, UNCHANGED <<script, rx, room, wire, cn, sinkGot, sinkTold, last>>
  PROVE  Messages'
<1>1. Messages
    BY TypeParts
<1>2. QED
    BY <1>1 DEF Messages, Requests, Conns

\* A step whose new Conn and whose other messages are well typed.
LEMMA MessagesFrom ==
  ASSUME TypeOK, script' = script,
         rx' \in Units, room' \in 0 .. TxCap, wire' \in Replies,
         cn' \in Conns, Len(cn'.raw) <= Cap,
         sinkGot' \in [Requests -> Units], sinkTold' \in [Requests -> Seq(Reasons)],
         last' \in {0} \cup Requests
  PROVE  Messages'
<1>1. Requests' = Requests /\ Conns' = Conns
    BY DEF Requests, Conns
<1>2. QED
    BY <1>1, Zenon DEF Messages

LEMMA ConnFields ==
  ASSUME TypeOK
  PROVE  /\ cn \in Conns /\ cn.raw \in Units /\ cn.served \in Nat /\ cn.sink \in {0} \cup Requests
         /\ cn.left \in Nat /\ cn.tail \in Units /\ cn.out \in Replies /\ cn.file \in Replies
         /\ cn.upgrade \in BOOLEAN /\ cn.wantWrite \in BOOLEAN /\ cn.expectSent \in BOOLEAN
         /\ Len(cn.raw) <= Cap
         /\ rx \in Units /\ room \in 0 .. TxCap /\ wire \in Replies
         /\ sinkGot \in [Requests -> Units] /\ sinkTold \in [Requests -> Seq(Reasons)]
         /\ last \in {0} \cup Requests
    BY DEF TypeOK, Conns

LEMMA LeaveTypes ==
  ASSUME TypeOK, NEW how, NEW why \in Reasons, Leave(how, why),
         UNCHANGED <<script, rx, room, wire, sinkGot, last>>
  PROVE  Messages'
<1>1. sinkTold' \in [Requests -> Seq(Reasons)]
    BY ConnFields, TellTypes DEF Leave
<1>2. cn' \in Conns /\ Len(cn'.raw) <= Cap
    BY NewConnOK, SizesAssumption DEF Leave
<1>3. QED
    BY <1>1, <1>2, ConnFields, MessagesFrom

LEMMA MessagesSimple ==
  ASSUME IInv,
         \/ Drain \/ DrainDone \/ Wait \/ WaitReturns \/ Drive
         \/ FlushBlocks \/ FlushFails \/ Flushed \/ Recv \/ Parse \/ RouteWaits \/ PumpWaits
         \/ PeerEnds \/ PeerResets \/ DeadlinePasses \/ BudgetPasses \/ Returned \/ UNCHANGED vars
  PROVE  Messages'
<1>1. TypeOK
    BY DEF IInv
<1>2. UNCHANGED <<script, rx, room, wire, cn, sinkGot, sinkTold, last>>
    BY DEF Drain, DrainDone, Wait, WaitReturns, Drive,
           FlushBlocks, FlushFails, Flushed, Recv, Parse, RouteWaits, PumpWaits,
           PeerEnds, PeerResets, DeadlinePasses, BudgetPasses, Returned, vars,
           peerVars, sockVars, sinks, marks, env
<1>3. QED
    BY <1>1, <1>2, MessagesSame

LEMMA MessagesLeave ==
  ASSUME IInv, DrainExpired \/ PollFails \/ Sweep \/ Dispose
  PROVE  Messages'
<1>1. TypeOK
    BY DEF IInv
<1>2. \E how : \E why \in Reasons : Leave(how, why)
    BY DEF DrainExpired, PollFails, Sweep, Dispose, Reasons
<1>3. UNCHANGED <<script, rx, room, wire, sinkGot, last>>
    BY DEF DrainExpired, PollFails, Sweep, Dispose, peerVars, sockVars, marks
<1>4. QED
    BY <1>1, <1>2, <1>3, LeaveTypes

LEMMA MessagesOut ==
  ASSUME IInv, Accept \/ Rearm \/ ParseInterim \/ FlushFileEnds
  PROVE  Messages'
<1>1. TypeOK
    BY DEF IInv
<1>2. UNCHANGED <<script, rx, room, wire, sinkGot, sinkTold, last>>
    BY DEF Accept, Rearm, ParseInterim, FlushFileEnds, peerVars, sockVars, sinks, marks
<1>3. CASE Accept
  <2>1. cn' \in Conns /\ Len(cn'.raw) <= Cap
    BY <1>3, NewConnOK, SizesAssumption DEF Accept
  <2>2. QED
    BY <1>1, <1>2, <2>1, ConnFields, MessagesFrom
<1>4. CASE Rearm
  <2>1. blocked \in BOOLEAN
    BY <1>1, TypeParts, FlagParts
  <2>2. cn' = [cn EXCEPT !.wantWrite = blocked]
    BY <1>4 DEF Rearm
  <2>3. cn' \in Conns /\ cn'.raw = cn.raw
    BY <1>1, <2>1, <2>2, ConnFields DEF Conns
  <2>4. QED
    BY <1>1, <1>2, <2>3, ConnFields, MessagesFrom
<1>5. CASE ParseInterim
  <2>1. PICK o : o = Append(cn.out, <<Front(cn), 0, 1>>)
    OBVIOUS
  <2>2. cn' = [cn EXCEPT !.expectSent = TRUE, !.out = o]
    BY <1>5, <2>1 DEF ParseInterim
  <2>3. Front(cn) \in Nat
    <3>1. cn.raw # <<>> /\ cn.raw \in Units
      BY <1>1, <1>5, ConnFields DEF ParseInterim, HeadDone
    <3>2. 1 \in 1 .. Len(cn.raw)
      BY <3>1, EmptySeq DEF Units
    <3>3. cn.raw[1] \in Nat \X Nat
      BY <3>1, <3>2, ElementOfSeq DEF Units
    <3>4. QED
      BY <3>3 DEF Front
  <2>4. <<Front(cn), 0, 1>> \in Nat \X (0 .. 3) \X Nat
    BY <2>3
  <2>5. o \in Replies
    BY <1>1, <2>1, <2>4, ConnFields, AppendProperties DEF Replies
  <2>6. cn' \in Conns /\ cn'.raw = cn.raw
    BY <1>1, <2>2, <2>5, ConnFields DEF Conns
  <2>7. QED
    BY <1>1, <1>2, <2>6, ConnFields, MessagesFrom
<1>6. CASE FlushFileEnds
  <2>1. cn' = [cn EXCEPT !.file = <<>>]
    BY <1>6 DEF FlushFileEnds
  <2>2. <<>> \in Replies
    BY EmptySeq DEF Replies
  <2>3. cn' \in Conns /\ cn'.raw = cn.raw
    BY <1>1, <2>1, <2>2, ConnFields DEF Conns
  <2>4. QED
    BY <1>1, <1>2, <2>3, ConnFields, MessagesFrom
<1>7. QED
    BY <1>3, <1>4, <1>5, <1>6

\* Part of a message goes to the socket.
LEMMA SentPart ==
  ASSUME TypeOK, NEW o \in Replies
  PROVE  LET n == Least(room, Len(o)) IN
         /\ wire \o Take(o, n) \in Replies /\ Drop(o, n) \in Replies
         /\ room - n \in 0 .. TxCap
         /\ (wire \o Take(o, n)) \o Drop(o, n) = wire \o o
<1>1. wire \in Replies /\ room \in 0 .. TxCap /\ TxCap \in Nat /\ Len(o) \in Nat
    BY SizesAssumption, LenProperties DEF TypeOK, Replies
<1>2. PICK n \in Nat : n = Least(room, Len(o))
    BY <1>1 DEF Least
<1>3. n <= room /\ n <= Len(o) /\ room - n \in 0 .. TxCap /\ Least(n, Len(o)) = n
    BY <1>1, <1>2 DEF Least
<1>4. PICK t : t = Take(o, n)
    OBVIOUS
<1>5. t \in Replies /\ Len(t) = n /\ \A k \in 1 .. n : t[k] = o[k]
    BY <1>3, <1>4, TakeProps DEF Replies
<1>6. wire \o t \in Replies
    BY <1>1, <1>5, ConcatProperties DEF Replies
<1>7. Drop(o, n) \in Replies
    BY <1>3, DropProps DEF Replies
<1>8. (wire \o t) \o Drop(o, n) = wire \o o
  <2>1. PICK S : S = Nat \X (0 .. 3) \X Nat
    OBVIOUS
  <2>2. wire \in Seq(S) /\ o \in Seq(S) /\ t \in Seq(S)
    BY <1>1, <1>5, <2>1 DEF Replies
  <2>3. n <= Len(o) /\ Len(t) = n /\ \A k \in 1 .. n : t[k] = o[k]
    BY <1>3, <1>5
  <2>4. QED
    BY <2>2, <2>3, Moved, Zenon
<1>9. QED
    BY <1>2, <1>3, <1>4, <1>6, <1>7, <1>8

LEMMA MessagesFlush ==
  ASSUME IInv, FlushSend \/ FlushFile
  PROVE  Messages'
<1>1. TypeOK
    BY DEF IInv
<1>2. UNCHANGED <<script, rx, sinkGot, sinkTold, last>>
    BY DEF FlushSend, FlushFile, peerVars, sockVars, sinks, marks
<1>3. CASE FlushSend
  <2>1. PICK n, w, d : n = Least(room, Len(cn.out)) /\ w = wire \o Take(cn.out, n) /\ d = Drop(cn.out, n)
    OBVIOUS
  <2>2. wire' = w /\ cn' = [cn EXCEPT !.out = d] /\ room' = room - n
    BY <1>3, <2>1 DEF FlushSend
  <2>3. w \in Replies /\ d \in Replies /\ room - n \in 0 .. TxCap
    BY <1>1, <2>1, SentPart, ConnFields
  <2>4. cn' \in Conns /\ cn'.raw = cn.raw
    BY <1>1, <2>2, <2>3, ConnFields DEF Conns
  <2>5. QED
    BY <1>1, <1>2, <2>2, <2>3, <2>4, ConnFields, MessagesFrom
<1>4. CASE FlushFile
  <2>1. PICK n, w, d : n = Least(room, Len(cn.file)) /\ w = wire \o Take(cn.file, n) /\ d = Drop(cn.file, n)
    OBVIOUS
  <2>2. wire' = w /\ cn' = [cn EXCEPT !.file = d] /\ room' = room - n
    BY <1>4, <2>1 DEF FlushFile
  <2>3. w \in Replies /\ d \in Replies /\ room - n \in 0 .. TxCap
    BY <1>1, <2>1, SentPart, ConnFields
  <2>4. cn' \in Conns /\ cn'.raw = cn.raw
    BY <1>1, <2>2, <2>3, ConnFields DEF Conns
  <2>5. QED
    BY <1>1, <1>2, <2>2, <2>3, <2>4, ConnFields, MessagesFrom
<1>5. QED
    BY <1>3, <1>4

LEMMA ClearTypes ==
  ASSUME NEW c \in Conns
  PROVE  /\ ClearStream(c) \in Conns /\ ClearStream(c).raw = c.raw /\ ClearStream(c).sink = 0
         /\ ClearStream(c).out = c.out /\ ClearStream(c).file = c.file
         /\ ClearStream(c).tail = <<>> /\ ClearStream(c).left = 0
         /\ ClearStream(c).expectSent = c.expectSent /\ ClearStream(c).upgrade = c.upgrade
         /\ ClearStream(c).served = c.served
<1>1. <<>> \in Units
    BY EmptySeq DEF Units
<1>2. QED
    BY <1>1 DEF ClearStream, Conns

LEMMA FeedTypes ==
  ASSUME TypeOK, NEW c \in Conns, Len(c.raw) <= Cap, c.sink \in Requests, NEW chunk \in Units,
         Feed(c, chunk), UNCHANGED <<script, last>>, rx' \in Units
  PROVE  Messages'
<1>1. sinkGot[c.sink] \in Units /\ sinkGot[c.sink] \o chunk \in Units
    BY ConnFields, ConcatProperties DEF Units
<1>2. PICK g \in Units : sinkGot' = [sinkGot EXCEPT ![c.sink] = g]
    BY <1>1 DEF Feed
<1>3. sinkGot' \in [Requests -> Units]
    BY <1>2, ConnFields
<1>4. CASE cn' = c /\ UNCHANGED <<sinkTold, wire, room>>
    BY <1>3, <1>4, ConnFields, MessagesFrom
<1>5. CASE AbortStream(c, "rejected") /\ SendError(c.sink)
  <2>1. c.sink \in Nat /\ "rejected" \in Reasons
    BY ScriptsAssumption DEF Requests, TypeOK, Reasons
  <2>2. sinkTold' \in [Requests -> Seq(Reasons)] /\ cn' = ClearStream(c)
    BY <1>5, <2>1, TellTypes DEF AbortStream
  <2>3. wire' \in Replies /\ room' \in 0 .. TxCap
    BY <1>5, <2>1, SendErrorTypes
  <2>4. QED
    BY <1>3, <2>2, <2>3, ClearTypes, ConnFields, MessagesFrom
<1>6. QED
    BY <1>4, <1>5 DEF Feed

LEMMA ServeTypes ==
  ASSUME TypeOK, NEW c \in Conns, Len(c.raw) <= Cap, NEW i \in Requests, Serve(c, i)
  PROVE  cn' \in Conns /\ Len(cn'.raw) <= Cap /\ last' \in {0} \cup Requests
<1>1. PICK o : o = c.out \o Reply(i)
    OBVIOUS
<1>2. script \in Scripts /\ c.out \in Replies /\ c.file \in Replies
    BY DEF TypeOK, Conns
<1>3. Reply(i) \in Replies /\ FileBody(i) \in Replies /\ script[i].upgrade \in BOOLEAN
    BY <1>2, ReplyTypes, ScriptFacts DEF Requests
<1>4. o \in Replies
    BY <1>1, <1>2, <1>3, ConcatProperties DEF Replies
<1>5. PICK f \in Replies : f = IF script[i].file > 0 THEN FileBody(i) ELSE c.file
    BY <1>2, <1>3
<1>6. PICK u \in BOOLEAN : u = (c.upgrade \/ script[i].upgrade)
    BY Zenon
<1>a. PICK n \in Nat : n = c.served + 1
    BY DEF Conns
<1>7. cn' = [c EXCEPT !.served = n, !.expectSent = FALSE, !.out = o, !.file = f, !.upgrade = u]
    BY <1>1, <1>5, <1>6, <1>a DEF Serve
<1>8. cn' \in Conns /\ cn'.raw = c.raw
    BY <1>4, <1>5, <1>7 DEF Conns
<1>9. last' \in {0} \cup Requests
    BY ConnFields DEF Serve
<1>10. QED
    BY <1>8, <1>9

LEMMA MessagesRefuse ==
  ASSUME IInv, OneCoding, RecvOverflows \/ ParseFails \/ RouteTooLarge
  PROVE  Messages'
<1>1. TypeOK
    BY DEF IInv
<1>2. UNCHANGED <<script, rx, cn, sinkGot, sinkTold, last>>
    BY DEF RecvOverflows, ParseFails, RouteTooLarge, Refuse, peerVars, sinks, marks
<1>3. \E i \in Nat : SendError(i)
  <2>1. CASE RecvOverflows
    <3>1. PICK a : a = cn.raw \o rx
      OBVIOUS
    <3>2. rx # <<>> /\ SendError(a[1][1])
      BY <2>1, <3>1 DEF RecvOverflows, RecvData, Refuse
    <3>3. /\ a \in Units /\ Len(a) = Len(cn.raw) + Len(rx) /\ Len(cn.raw) \in Nat
          /\ Len(rx) \in Nat \ {0}
      BY <1>1, <3>1, <3>2, ConnFields, ConcatProperties, LenProperties, EmptySeq DEF Units
    <3>4. a[1] \in Nat \X Nat
      BY <3>3, ElementOfSeq DEF Units
    <3>5. a[1][1] \in Nat
      BY <3>4
    <3>6. QED
      BY <3>2, <3>5
  <2>2. CASE ParseFails
    <3>1. cn.raw # <<>> /\ SendError(Front(cn)) /\ pc = "parse"
      BY <2>2 DEF ParseFails, Refuse
    <3>2. Alive /\ cn.sink = 0
      BY <3>1 DEF IInv, Places, Alive
    <3>3. Front(cn) \in Requests
      BY <3>1, <3>2, FrontFacts
    <3>4. QED
      BY <1>1, <3>1, <3>3, ScriptFacts DEF Requests, TypeOK
  <2>3. CASE RouteTooLarge
    <3>1. SendError(Front(cn)) /\ pc = "route"
      BY <2>3 DEF RouteTooLarge, Refuse
    <3>2. Front(cn) \in Requests
      BY <3>1, RouteFacts
    <3>3. QED
      BY <1>1, <3>1, <3>2, ScriptFacts DEF Requests, TypeOK
  <2>4. QED
    BY <2>1, <2>2, <2>3
<1>4. wire' \in Replies /\ room' \in 0 .. TxCap
    BY <1>1, <1>3, SendErrorTypes
<1>5. QED
    BY <1>1, <1>2, <1>4, ConnFields, MessagesFrom

\* A read: what it takes, and what it leaves in the socket.
LEMMA ReadProps ==
  ASSUME TypeOK, NEW n \in Nat
  PROVE  /\ Take(rx, n) \in Units /\ Len(Take(rx, n)) = Least(n, Len(rx))
         /\ Least(n, Len(rx)) \in Nat /\ Least(n, Len(rx)) <= Len(rx)
         /\ \A k \in 1 .. Least(n, Len(rx)) : Take(rx, n)[k] = rx[k]
         /\ Drop(rx, Len(Take(rx, n))) \in Units
         /\ Take(rx, n) \o Drop(rx, Len(Take(rx, n))) = rx
<1>1. rx \in Units /\ Len(rx) \in Nat
    BY ConnFields, LenProperties DEF Units
<1>t. PICK t : t = Take(rx, n)
    OBVIOUS
<1>2. PICK m \in Nat : m = Least(n, Len(rx))
    BY <1>1 DEF Least
<1>3. m <= Len(rx)
    BY <1>1, <1>2 DEF Least
<1>4. t \in Units /\ Len(t) = m /\ \A k \in 1 .. m : t[k] = rx[k]
    BY <1>1, <1>2, <1>t, TakeProps DEF Units
<1>5. Drop(rx, m) \in Units
    BY <1>1, <1>3, DropProps DEF Units
<1>6. t \o Drop(rx, m) = rx
  <2>1. PICK S : S = Nat \X Nat
    OBVIOUS
  <2>2. rx \in Seq(S) /\ t \in Seq(S)
    BY <1>1, <1>4, <2>1 DEF Units
  <2>3. QED
    BY <1>3, <1>4, <2>2, TakenAndRest, Zenon
<1>7. QED
    BY <1>t, <1>2, <1>3, <1>4, <1>5, <1>6

LEMMA MessagesRecv ==
  ASSUME IInv, RecvInto
  PROVE  Messages'
<1>1. TypeOK
    BY DEF IInv
<1>2. UNCHANGED <<script, room, wire, sinkGot, sinkTold, last>>
    BY DEF RecvInto, peerVars, sinks, marks
<1>3. PICK got, r, d : got = Take(rx, RecvChunk) /\ r = cn.raw \o got /\ d = Drop(rx, Len(got))
    OBVIOUS
<1>4. Len(cn.raw) + Len(got) <= Cap /\ cn' = [cn EXCEPT !.raw = r] /\ rx' = d
    BY <1>3 DEF RecvInto
<1>5. got \in Units /\ d \in Units
    BY <1>1, <1>3, ReadProps, SizesAssumption
<1>6. r \in Units /\ Len(r) = Len(cn.raw) + Len(got)
    BY <1>1, <1>3, <1>5, ConnFields, ConcatProperties DEF Units
<1>7. cn' \in Conns /\ cn'.raw = r
    BY <1>1, <1>4, <1>6, ConnFields DEF Conns
<1>8. QED
    BY <1>1, <1>2, <1>4, <1>5, <1>6, <1>7, ConnFields, MessagesFrom

LEMMA MessagesPeer ==
  ASSUME IInv, PeerSends \/ PeerReads
  PROVE  Messages'
<1>1. TypeOK
    BY DEF IInv
<1>2. UNCHANGED <<script, wire, cn, sinkGot, sinkTold, last>>
    BY DEF PeerSends, PeerReads, peerVars, sinks, marks
<1>3. CASE PeerSends
  <2>1. rx' = Append(rx, next) /\ room' = room
    BY <1>3 DEF PeerSends
  <2>2. rx' \in Units
    BY <1>1, <2>1, AppendProperties DEF TypeOK, Units
  <2>3. QED
    BY <1>1, <1>2, <2>1, <2>2, ConnFields, MessagesFrom
<1>4. CASE PeerReads
  <2>1. rx' = rx /\ room' \in 0 .. TxCap
    BY <1>1, <1>4, SizesAssumption DEF PeerReads, TypeOK
  <2>2. QED
    BY <1>1, <1>2, <2>1, ConnFields, MessagesFrom
<1>5. QED
    BY <1>3, <1>4

\* RouteSink cuts the buffer into the head, the part of the body that has come
\* and what follows it.
LEMMA RouteSinkParts ==
  ASSUME IInv, OneCoding, RouteSink
  PROVE  \E c \in Conns, first \in Units :
            /\ Feed(c, first)
            /\ UNCHANGED <<script, next, peer, rx, status, last, mishaps>>
            /\ c.sink = Front(cn) /\ c.raw \in Units
            /\ Len(c.raw) <= Len(cn.raw)
            /\ c.out = cn.out /\ c.file = cn.file /\ c.upgrade = cn.upgrade
            /\ c.expectSent = cn.expectSent
            /\ first = Take(Drop(cn.raw, script[Front(cn)].head), script[Front(cn)].body)
            /\ Len(first) <= script[Front(cn)].body
            /\ c.left = script[Front(cn)].body - Len(first)
            /\ script[Front(cn)].head + Len(first) <= Len(cn.raw)
            /\ c.tail = Drop(cn.raw, script[Front(cn)].head + Len(first))
            /\ \A k \in 1 .. Len(first) : first[k] = cn.raw[script[Front(cn)].head + k]
            /\ c.left > 0 => script[Front(cn)].head + Len(first) = Len(cn.raw)
<1>0. TypeOK /\ pc = "route"
    BY DEF IInv, RouteSink
<1>1. PICK h, b, i : h = script[Front(cn)].head /\ b = script[Front(cn)].body /\ i = Front(cn)
    OBVIOUS
<1>2. /\ i \in Requests /\ BodyLen(script[Front(cn)]) = b /\ h \in Nat /\ b \in Nat
      /\ Len(cn.raw) \in Nat /\ h <= Len(cn.raw)
    BY <1>0, <1>1, RouteFacts
<1>3. cn.raw \in Units
    BY <1>0, ConnFields
<1>4. PICK have : have = Drop(cn.raw, h)
    OBVIOUS
<1>5. have \in Units /\ Len(have) = Len(cn.raw) - h
      /\ \A k \in 1 .. Len(cn.raw) - h : have[k] = cn.raw[k + h]
    BY <1>2, <1>3, <1>4, DropProps DEF Units
<1>6. PICK first, m : first = Take(have, b) /\ m = Least(b, Len(have))
    OBVIOUS
<1>7. m \in Nat /\ m <= b /\ m <= Len(have) /\ h + m <= Len(cn.raw)
      /\ (b - m > 0 => h + m = Len(cn.raw))
    BY <1>2, <1>5, <1>6 DEF Least
<1>8. first \in Units /\ Len(first) = m /\ \A k \in 1 .. m : first[k] = have[k]
    BY <1>2, <1>5, <1>6, TakeProps DEF Units
<1>9. PICK r, t : r = Take(cn.raw, h) /\ t = Drop(have, m)
    OBVIOUS
<1>10. r \in Units /\ Len(r) <= Len(cn.raw)
    BY <1>2, <1>3, <1>9, TakeProps DEF Units, Least
<1>11. t = Drop(cn.raw, h + m)
    BY <1>2, <1>3, <1>4, <1>7, <1>9, DropDrop DEF Units
<1>12. t \in Units
    BY <1>5, <1>7, <1>9, DropProps DEF Units
<1>13. PICK l \in Nat : l = b - m
  <2>1. b - m \in Nat
    BY <1>2, <1>7
  <2>2. QED
    BY <2>1
<1>14. PICK c : c = [cn EXCEPT !.raw = r, !.sink = i, !.left = l, !.tail = t]
    OBVIOUS
<1>15. /\ c \in Conns /\ c.raw = r /\ c.sink = i /\ c.left = l /\ c.tail = t
       /\ c.out = cn.out /\ c.file = cn.file /\ c.upgrade = cn.upgrade /\ c.expectSent = cn.expectSent
    BY <1>0, <1>2, <1>10, <1>12, <1>13, <1>14, ConnFields DEF Conns
<1>16. Feed(c, first) /\ UNCHANGED <<script, next, peer, rx, status, last, mishaps>>
    BY <1>1, <1>2, <1>4, <1>6, <1>8, <1>9, <1>13, <1>14 DEF RouteSink, peerVars, marks
<1>17. \A k \in 1 .. m : first[k] = cn.raw[h + k]
  <2>1. ASSUME NEW k \in 1 .. m PROVE first[k] = cn.raw[h + k]
    <3>1. k \in 1 .. Len(cn.raw) - h /\ k + h = h + k
      BY <1>2, <1>5, <1>7, <2>1
    <3>2. first[k] = have[k] /\ have[k] = cn.raw[k + h]
      BY <1>5, <1>8, <2>1, <3>1
    <3>3. QED
      BY <3>1, <3>2
  <2>2. QED
    BY <2>1
<1>18. QED
    BY <1>1, <1>4, <1>6, <1>7, <1>8, <1>10, <1>11, <1>13, <1>15, <1>16, <1>17

LEMMA RouteServesParts ==
  ASSUME IInv, OneCoding, RouteServes
  PROVE  LET n == Size(script, Front(cn))
             c == [cn EXCEPT !.raw = Drop(cn.raw, n)]
         IN /\ n \in Nat /\ n <= Len(cn.raw) /\ Serve(c, Front(cn))
            /\ c \in Conns /\ c.raw = Drop(cn.raw, n) /\ Len(c.raw) <= Cap
            /\ c.out = <<>> /\ c.file = <<>> /\ c.sink = 0 /\ c.upgrade = cn.upgrade
            /\ c.tail = cn.tail /\ c.left = cn.left /\ c.served = cn.served
            /\ UNCHANGED <<script, next, peer, rx, room, wire, status, sinkGot, sinkTold, mishaps>>
            /\ pc' = "flush" /\ ret' = "buffered"
<1>0. TypeOK /\ pc = "route" /\ Whole(cn)
    BY DEF IInv, RouteServes
<1>1. PICK n : n = Size(script, Front(cn))
    OBVIOUS
<1>2. /\ BodyLen(script[Front(cn)]) = script[Front(cn)].body /\ n \in Nat /\ Len(cn.raw) \in Nat
      /\ script[Front(cn)].head + script[Front(cn)].body = n
      /\ cn.out = <<>> /\ cn.file = <<>> /\ cn.sink = 0
    BY <1>0, <1>1, RouteFacts
<1>3. n <= Len(cn.raw)
    BY <1>0, <1>1, <1>2 DEF Whole
<1>4. PICK d : d = Drop(cn.raw, n)
    OBVIOUS
<1>5. d \in Units /\ Len(d) = Len(cn.raw) - n
  <2>1. PICK r : r = cn.raw
    OBVIOUS
  <2>2. PICK S : S = Nat \X Nat
    OBVIOUS
  <2>3. r \in Seq(S) /\ Units = Seq(S)
    BY <1>0, <2>1, <2>2, ConnFields DEF Units
  <2>4. n \in Nat /\ n <= Len(r)
    BY <1>2, <1>3, <2>1
  <2>5. Drop(r, n) \in Seq(S) /\ Len(Drop(r, n)) = Len(r) - n
    BY <2>3, <2>4, DropProps
  <2>6. QED
    BY <1>4, <2>1, <2>3, <2>5
<1>6. Len(d) <= Cap
    BY <1>0, <1>2, <1>3, <1>5, ConnFields, SizesAssumption
<1>7. PICK c : c = [cn EXCEPT !.raw = d]
    OBVIOUS
<1>8. /\ c \in Conns /\ c.raw = d /\ c.out = <<>> /\ c.file = <<>> /\ c.sink = 0
      /\ c.upgrade = cn.upgrade /\ c.tail = cn.tail /\ c.left = cn.left /\ c.served = cn.served
    BY <1>0, <1>2, <1>5, <1>7, ConnFields DEF Conns
<1>9. Serve(c, Front(cn))
    BY <1>2, <1>4, <1>7 DEF RouteServes
<1>10. /\ UNCHANGED <<script, next, peer, rx, room, wire, status, sinkGot, sinkTold, mishaps>>
       /\ pc' = "flush" /\ ret' = "buffered"
    BY DEF RouteServes, peerVars, sockVars, sinks
<1>11. QED
    BY <1>1, <1>2, <1>3, <1>4, <1>6, <1>7, <1>8, <1>9, <1>10

\* PumpChunk splits one read into what the sink is owed and the rest.
LEMMA PumpChunkParts ==
  ASSUME IInv, PumpChunk
  PROVE  \E c \in Conns, chunk \in Units :
            /\ Feed(c, chunk)
            /\ UNCHANGED <<script, next, peer, status, last, mishaps>>
            /\ c.sink = cn.sink /\ c.raw = cn.raw
            /\ c.out = cn.out /\ c.file = cn.file /\ c.upgrade = cn.upgrade
            /\ c.expectSent = cn.expectSent
            /\ Len(chunk) \in Nat /\ Len(chunk) <= cn.left /\ Len(chunk) <= Len(rx)
            /\ c.left = cn.left - Len(chunk)
            /\ \A k \in 1 .. Len(chunk) : chunk[k] = rx[k]
            /\ rx' \in Units
            /\ c.tail \o rx' = Drop(rx, Len(chunk))
            /\ c.left > 0 => c.tail = <<>>
<1>0. TypeOK /\ pc = "pump" /\ cn.left \in Nat
    BY PumpFacts DEF IInv, PumpChunk
<1>1. PICK data, rest : data = Take(rx, StreamChunk) /\ rest = Drop(rx, Len(data))
    OBVIOUS
<1>2. rx \in Units /\ Len(rx) \in Nat
    BY <1>0, ConnFields, LenProperties DEF Units
<1>3. /\ data \in Units /\ Len(data) \in Nat /\ Len(data) <= Len(rx)
      /\ \A k \in 1 .. Len(data) : data[k] = rx[k]
      /\ rest \in Units /\ data \o rest = rx
    BY <1>0, <1>1, ReadProps, SizesAssumption
<1>4. PICK chunk, m : chunk = Take(data, cn.left) /\ m = Least(cn.left, Len(data))
    OBVIOUS
<1>5. m \in Nat /\ m <= cn.left /\ m <= Len(data) /\ (cn.left - m > 0 => m = Len(data))
    BY <1>0, <1>3, <1>4 DEF Least
<1>6. chunk \in Units /\ Len(chunk) = m /\ \A k \in 1 .. m : chunk[k] = data[k]
    BY <1>0, <1>3, <1>4, TakeProps DEF Units
<1>7. PICK t : t = Drop(data, m)
    OBVIOUS
<1>8. t \in Units /\ Len(t) = Len(data) - m
    BY <1>3, <1>5, <1>7, DropProps DEF Units
<1>9. t \o rest = Drop(rx, m)
    BY <1>3, <1>5, <1>7, DropConcat DEF Units
<1>10. cn.left - m > 0 => t = <<>>
    BY <1>3, <1>5, <1>8, EmptySeq, SMTT(30) DEF Units
<1>11. PICK l \in Nat : l = cn.left - m
  <2>1. cn.left - m \in Nat
    BY <1>0, <1>5
  <2>2. QED
    BY <2>1
<1>12. PICK c : c = [cn EXCEPT !.left = l, !.tail = t]
    OBVIOUS
<1>13. /\ c \in Conns /\ c.raw = cn.raw /\ c.sink = cn.sink /\ c.left = l /\ c.tail = t
       /\ c.out = cn.out /\ c.file = cn.file /\ c.upgrade = cn.upgrade /\ c.expectSent = cn.expectSent
    BY <1>0, <1>8, <1>11, <1>12, ConnFields DEF Conns
<1>14. Feed(c, chunk) /\ rx' = rest /\ UNCHANGED <<script, next, peer, status, last, mishaps>>
    BY <1>1, <1>4, <1>6, <1>7, <1>11, <1>12 DEF PumpChunk, peerVars, marks
<1>15. \A k \in 1 .. m : chunk[k] = rx[k]
    BY <1>3, <1>5, <1>6
<1>16. m <= Len(rx)
    BY <1>2, <1>3, <1>5
<1>17. QED
    BY <1>3, <1>5, <1>6, <1>9, <1>10, <1>11, <1>13, <1>14, <1>15, <1>16

\* PumpEnds serves the request with the tail as the new buffer, if it fits.
LEMMA PumpEndsParts ==
  ASSUME IInv, PumpEnds
  PROVE  LET r == IF Len(cn.tail) <= Cap THEN cn.tail ELSE <<>>
             c == [ClearStream(cn) EXCEPT !.raw = r]
         IN /\ Serve(c, cn.sink) /\ cn.left = 0
            /\ c \in Conns /\ c.raw = r /\ Len(c.raw) <= Cap
            /\ c.out = <<>> /\ c.file = <<>> /\ c.sink = 0 /\ c.upgrade = cn.upgrade
            /\ c.tail = <<>> /\ c.left = 0
            /\ UNCHANGED <<script, next, peer, rx, status, sinkGot>>
            /\ sinkTold' = [sinkTold EXCEPT ![cn.sink] = Append(@, "end")]
<1>0. TypeOK /\ pc = "pump" /\ cn.out = <<>> /\ cn.file = <<>>
    BY PumpFacts DEF IInv, PumpEnds
<1>1. PICK r : r = IF Len(cn.tail) <= Cap THEN cn.tail ELSE <<>>
    OBVIOUS
<1>2. r \in Units /\ Len(r) <= Cap
    BY <1>0, <1>1, ConnFields, EmptySeq, SizesAssumption DEF Units
<1>3. PICK c0 : c0 = ClearStream(cn)
    OBVIOUS
<1>4. /\ c0 \in Conns /\ c0.sink = 0 /\ c0.out = <<>> /\ c0.file = <<>> /\ c0.upgrade = cn.upgrade
      /\ c0.tail = <<>> /\ c0.left = 0
    BY <1>0, <1>3, ClearTypes, ConnFields
<1>5. PICK c : c = [c0 EXCEPT !.raw = r]
    OBVIOUS
<1>6. /\ c \in Conns /\ c.raw = r /\ c.sink = 0 /\ c.out = <<>> /\ c.file = <<>>
      /\ c.upgrade = cn.upgrade /\ c.tail = <<>> /\ c.left = 0
    BY <1>2, <1>4, <1>5 DEF Conns
<1>7. Serve(c, cn.sink)
    BY <1>1, <1>3, <1>5 DEF PumpEnds
<1>8. /\ UNCHANGED <<script, next, peer, rx, status, sinkGot>> /\ cn.left = 0
      /\ sinkTold' = [sinkTold EXCEPT ![cn.sink] = Append(@, "end")]
    BY DEF PumpEnds, peerVars
<1>9. QED
    BY <1>1, <1>2, <1>3, <1>5, <1>6, <1>7, <1>8

LEMMA MessagesRoute ==
  ASSUME IInv, OneCoding, RouteSink \/ RouteServes
  PROVE  Messages'
<1>1. TypeOK
    BY DEF IInv
<1>2. CASE RouteSink
  <2>0. pc = "route"
    BY <1>2 DEF RouteSink
  <2>1. PICK c \in Conns, first \in Units :
            /\ Feed(c, first) /\ UNCHANGED <<script, rx, last>>
            /\ c.sink = Front(cn) /\ c.raw \in Units /\ Len(c.raw) <= Len(cn.raw)
    BY <1>2, RouteSinkParts
  <2>2. c.sink \in Requests /\ Len(cn.raw) \in Nat
    BY <2>0, <2>1, RouteFacts
  <2>3. Len(c.raw) <= Cap /\ rx' \in Units
    BY <1>1, <2>1, <2>2, ConnFields, LenProperties, SizesAssumption, SMTT(30) DEF Units
  <2>4. QED
    BY <1>1, <2>1, <2>2, <2>3, FeedTypes
<1>3. CASE RouteServes
  <2>0. pc = "route"
    BY <1>3 DEF RouteServes
  <2>1. PICK c \in Conns : /\ Serve(c, Front(cn)) /\ Len(c.raw) <= Cap
                           /\ UNCHANGED <<script, rx, room, wire, sinkGot, sinkTold>>
    BY <1>3, RouteServesParts
  <2>2. Front(cn) \in Requests
    BY <2>0, RouteFacts
  <2>3. QED
    BY <1>1, <2>1, <2>2, ServeTypes, ConnFields, MessagesFrom
<1>4. QED
    BY <1>2, <1>3

LEMMA MessagesPump ==
  ASSUME IInv, PumpLost \/ PumpChunk \/ PumpRefused \/ PumpEnds
  PROVE  Messages'
<1>1. TypeOK /\ pc = "pump"
    BY DEF IInv, PumpLost, PumpChunk, PumpRefused, PumpEnds
<1>2. cn.sink \in Requests /\ cn.sink \in Nat
    BY <1>1, PumpFacts
<1>3. {"lost", "rejected", "end"} \subseteq Reasons
    BY DEF Reasons
<1>4. CASE PumpLost
  <2>1. /\ Tell(cn, "lost") /\ cn' = ClearStream(cn)
        /\ UNCHANGED <<script, rx, room, wire, sinkGot, last>>
    BY <1>4 DEF PumpLost, AbortStream, peerVars, sockVars, marks
  <2>2. sinkTold' \in [Requests -> Seq(Reasons)]
    BY <1>1, <1>2, <1>3, <2>1, TellTypes
  <2>3. QED
    BY <1>1, <2>1, <2>2, ClearTypes, ConnFields, MessagesFrom
<1>5. CASE PumpChunk
  <2>1. PICK c \in Conns, chunk \in Units :
            /\ Feed(c, chunk) /\ UNCHANGED <<script, last>>
            /\ c.sink = cn.sink /\ c.raw = cn.raw /\ rx' \in Units
    BY <1>5, PumpChunkParts
  <2>2. QED
    BY <1>1, <1>2, <2>1, ConnFields, FeedTypes
<1>6. CASE PumpRefused
  <2>1. /\ Tell(cn, "rejected") /\ cn' = ClearStream(cn) /\ SendError(cn.sink)
        /\ UNCHANGED <<script, rx, sinkGot, last>>
    BY <1>6 DEF PumpRefused, AbortStream, Refuse, peerVars, marks
  <2>2. sinkTold' \in [Requests -> Seq(Reasons)]
    BY <1>1, <1>2, <1>3, <2>1, TellTypes
  <2>3. wire' \in Replies /\ room' \in 0 .. TxCap
    BY <1>1, <1>2, <2>1, SendErrorTypes
  <2>4. QED
    BY <1>1, <2>1, <2>2, <2>3, ClearTypes, ConnFields, MessagesFrom
<1>7. CASE PumpEnds
  <2>1. PICK c \in Conns : /\ Serve(c, cn.sink) /\ Len(c.raw) <= Cap
                           /\ UNCHANGED <<script, rx, sinkGot>>
                           /\ sinkTold' = [sinkTold EXCEPT ![cn.sink] = Append(@, "end")]
    BY <1>7, PumpEndsParts
  <2>2. sinkTold' \in [Requests -> Seq(Reasons)]
    <3>1. sinkTold[cn.sink] \in Seq(Reasons) /\ sinkTold \in [Requests -> Seq(Reasons)]
      BY <1>1, <1>2, ConnFields
    <3>2. Append(sinkTold[cn.sink], "end") \in Seq(Reasons)
      BY <1>3, <3>1, AppendProperties
    <3>3. QED
      BY <1>2, <2>1, <3>1, <3>2
  <2>3. wire' \in Replies /\ room' \in 0 .. TxCap
    <3>1. SendError(cn.sink) \/ UNCHANGED <<wire, room>>
      BY <1>7 DEF PumpEnds
    <3>2. QED
      BY <1>1, <1>2, <3>1, ConnFields, SendErrorTypes
  <2>4. QED
    BY <1>1, <1>2, <2>1, <2>2, <2>3, ServeTypes, ConnFields, MessagesFrom
<1>8. QED
    BY <1>4, <1>5, <1>6, <1>7

LEMMA TypeStep ==
  ASSUME IInv, OneCoding, [Next]_vars
  PROVE  TypeOK'
<1>1. Messages'
    BY MessagesSimple, MessagesLeave, MessagesOut, MessagesFlush, MessagesRefuse,
       MessagesRecv, MessagesPeer, MessagesRoute, MessagesPump
    DEF Next, Server, Loop, Flush, Buffer, Pump, World
<1>2. QED
    BY <1>1, PlainStep, FlagsStep DEF TypeOK, Plain, Flags, Messages
-----------------------------------------------------------------------------
(* The places.                                                               *)

LEMMA ScriptFixed ==
  ASSUME [Next]_vars
  PROVE  script' = script
<1>1. CASE Loop \/ Sweep \/ PollFails
    BY <1>1 DEF Loop, Drain, DrainDone, DrainExpired, Wait, WaitReturns, Accept, Drive, Rearm, Dispose,
                Sweep, PollFails, peerVars
<1>2. CASE Flush
    BY <1>2 DEF Flush, FlushSend, FlushFile, FlushFileEnds, FlushBlocks, FlushFails, Flushed, peerVars
<1>3. CASE Buffer
    BY <1>3 DEF Buffer, Recv, RecvInto, RecvOverflows, Parse, ParseFails, ParseInterim, RouteSink,
                RouteTooLarge, RouteWaits, RouteServes, Refuse, peerVars
<1>4. CASE Pump
    BY <1>4 DEF Pump, PumpWaits, PumpLost, PumpChunk, PumpRefused, PumpEnds, Refuse, peerVars
<1>5. CASE World \/ Returned \/ UNCHANGED vars
    BY <1>5 DEF World, PeerSends, PeerReads, PeerEnds, PeerResets, DeadlinePasses, BudgetPasses,
                Returned, vars, peerVars
<1>6. QED
    BY <1>1, <1>2, <1>3, <1>4, <1>5 DEF Next, Server

LEMMA SentStep ==
  ASSUME IInv, [Next]_vars
  PROVE  Sent'
<1>0. script' = script /\ script \in Scripts /\ next \in Nat \X Nat
    BY ScriptFixed DEF IInv, TypeOK
<1>1. CASE PeerSends
  <2>1. next' = After(script, next) /\ next[1] \in Requests
    BY <1>1 DEF PeerSends, After, Size
  <2>2. IsUnit(script, next)
    BY <2>1 DEF IInv, Sent
  <2>3. PICK i \in Nat, k \in Nat : next[1] = i /\ next[2] = k
    BY <1>0
  <2>4. k \in 1 .. Size(script, i) /\ i \in DOMAIN script /\ Size(script, i) \in Nat
    BY <1>0, <2>1, <2>2, <2>3, ScriptFacts DEF IsUnit, Requests
  <2>5. CASE k < Size(script, i)
    <3>1. next' = <<i, k + 1>> /\ k + 1 \in 1 .. Size(script, i)
      BY <2>1, <2>3, <2>4, <2>5 DEF After
    <3>2. QED
      BY <1>0, <2>4, <3>1 DEF Sent, IsUnit, Requests
  <2>6. CASE ~(k < Size(script, i))
    <3>1. next' = <<i + 1, 1>>
      BY <2>1, <2>3, <2>4, <2>6 DEF After
    <3>2. ASSUME i + 1 \in DOMAIN script PROVE 1 \in 1 .. Size(script, i + 1)
      <4>1. Size(script, i + 1) \in Nat \ {0}
        BY <1>0, <3>2, ScriptFacts
      <4>2. QED
        BY <4>1
    <3>3. QED
      BY <1>0, <3>1, <3>2 DEF Sent, IsUnit, Requests
  <2>7. QED
    BY <2>5, <2>6
<1>2. CASE next' = next
    BY <1>0, <1>2 DEF IInv, Sent, IsUnit, Size, Requests
<1>3. PeerSends \/ next' = next
  <2>1. CASE Loop \/ Sweep \/ PollFails
    BY <2>1 DEF Loop, Drain, DrainDone, DrainExpired, Wait, WaitReturns, Accept, Drive, Rearm, Dispose,
                Sweep, PollFails, peerVars
  <2>2. CASE Flush
    BY <2>2 DEF Flush, FlushSend, FlushFile, FlushFileEnds, FlushBlocks, FlushFails, Flushed, peerVars
  <2>3. CASE Buffer
    BY <2>3 DEF Buffer, Recv, RecvInto, RecvOverflows, Parse, ParseFails, ParseInterim, RouteSink,
                RouteTooLarge, RouteWaits, RouteServes, Refuse, peerVars
  <2>4. CASE Pump
    BY <2>4 DEF Pump, PumpWaits, PumpLost, PumpChunk, PumpRefused, PumpEnds, Refuse, peerVars
  <2>5. CASE World \/ Returned \/ UNCHANGED vars
    BY <2>5 DEF World, PeerReads, PeerEnds, PeerResets, DeadlinePasses, BudgetPasses, env,
                Returned, vars, peerVars
  <2>6. QED
    BY <2>1, <2>2, <2>3, <2>4, <2>5 DEF Next, Server
<1>4. QED
    BY <1>1, <1>2, <1>3

LEMMA PlacesLoop ==
  ASSUME IInv, OneCoding, Loop \/ Sweep \/ PollFails
  PROVE  Places'
<1>0. Places /\ script' = script /\ TypeOK
    BY ScriptFixed DEF IInv, Next, Server
<1>1. CASE Drain \/ DrainDone \/ Wait \/ WaitReturns
    BY <1>0, <1>1 DEF Drain, DrainDone, Wait, WaitReturns, Places
<1>2. CASE DrainExpired \/ Sweep \/ PollFails \/ Dispose
    BY <1>0, <1>2 DEF DrainExpired, Sweep, PollFails, Dispose, Leave, Places
<1>3. CASE Accept
    BY <1>0, <1>3 DEF Accept, Places
<1>4. CASE Drive
    BY <1>0, <1>4 DEF Drive, Ready, Places
<1>5. CASE Rearm
    BY <1>0, <1>5 DEF Rearm, Places
<1>6. QED
    BY <1>1, <1>2, <1>3, <1>4, <1>5 DEF Loop

LEMMA SameHead ==
  ASSUME script' = script, cn'.raw = cn.raw, mishaps \subseteq mishaps'
  PROVE  /\ Accepted(cn) => Accepted(cn)'
         /\ Sound(cn) => Sound(cn)'
    BY DEF Accepted, Sound, OneCoding, HeadDone, InStep, Front

\* The step that accepts a head notes a coding it passes over.
LEMMA AcceptedSound ==
  ASSUME script' = script, cn'.raw = cn.raw, Accepting(script[Front(cn)])
  PROVE  Sound(cn)'
    BY DEF Accepting, Sound, OneCoding, Front

LEMMA PlacesFlush ==
  ASSUME IInv, OneCoding, Flush
  PROVE  Places'
<1>0. Places /\ script' = script /\ cn \in Conns
    BY ScriptFixed, ConnFields DEF IInv, Next, Server
<1>1. CASE FlushSend \/ FlushFile \/ FlushFileEnds
  <2>1. /\ cn'.raw = cn.raw /\ cn'.sink = cn.sink
        /\ UNCHANGED <<pc, ret, status, peer>> /\ pc = "flush" /\ mishaps \subseteq mishaps'
    BY <1>0, <1>1 DEF FlushSend, FlushFile, FlushFileEnds, Conns, peerVars, locals, marks
  <2>2. QED
    BY <1>0, <2>1, SameHead DEF Places
<1>2. CASE FlushBlocks \/ FlushFails
    BY <1>0, <1>2 DEF FlushBlocks, FlushFails, Places, peerVars
<1>3. CASE Flushed
  <2>1. /\ UNCHANGED <<cn, status, peer, ret, mishaps>>
        /\ pc = "flush" /\ ~HasPending(cn) /\ pc' = AfterFlush
    BY <1>3 DEF Flushed, peerVars, marks
  <2>2. CASE ret = "start"
    BY <1>0, <2>1, <2>2 DEF AfterFlush, Places
  <2>3. CASE ret = "interim"
    <3>1. pc' = "route" /\ Accepted(cn) /\ Sound(cn)
      BY <1>0, <2>1, <2>3 DEF AfterFlush, Places
    <3>2. QED
      BY <1>0, <2>1, <2>3, <3>1, SameHead DEF Places, HasPending
  <2>4. CASE ret \notin {"start", "interim"}
    <3>1. pc' \in {"dispose", "parse"}
      BY <2>1, <2>4 DEF AfterFlush
    <3>2. QED
      BY <1>0, <2>1, <2>4, <3>1 DEF Places, HasPending
  <2>5. QED
    BY <2>2, <2>3, <2>4
<1>4. QED
    BY <1>1, <1>2, <1>3 DEF Flush

LEMMA PlacesFeed ==
  ASSUME IInv, NEW c \in Conns, NEW chunk, Feed(c, chunk), c.sink # 0, status = "open", status' = status,
         c.out = <<>>, c.file = <<>>
  PROVE  Places'
<1>1. CASE cn' = c /\ pc' = "pump"
    BY <1>1 DEF Places, HasPending
<1>2. CASE cn' = ClearStream(c) /\ pc' = "dispose"
    BY <1>2, ClearTypes DEF Places
<1>3. QED
    BY <1>1, <1>2 DEF Feed, AbortStream

LEMMA PlacesServe ==
  ASSUME NEW c \in Conns, NEW i, Serve(c, i), c.sink = 0, status' = "open",
         pc' = "dispose" \/ (pc' = "flush" /\ ret' \in {"buffered", "stream"})
  PROVE  Places'
<1>1. cn'.sink = 0
    BY DEF Serve, Conns
<1>2. QED
    BY <1>1 DEF Places

LEMMA PlacesBuffer ==
  ASSUME IInv, OneCoding, Buffer
  PROVE  Places'
<1>0. Places /\ script' = script /\ cn \in Conns
    BY ScriptFixed, ConnFields DEF IInv, Next, Server
<1>1. CASE Recv \/ RouteWaits
    BY <1>0, <1>1 DEF Recv, RouteWaits, NeedMore, Places
<1>2. CASE RecvInto
  <2>1. cn'.sink = cn.sink /\ cn'.out = cn.out /\ cn'.file = cn.file /\ pc = "recv" /\ pc' = "parse"
        /\ status' = status
    BY <1>0, <1>2 DEF RecvInto, Conns
  <2>2. QED
    BY <1>0, <2>1 DEF Places, HasPending
<1>3. CASE RecvOverflows \/ ParseFails \/ RouteTooLarge
    BY <1>0, <1>3 DEF RecvOverflows, ParseFails, RouteTooLarge, Refuse, Places
<1>4. CASE Parse
  <2>1. UNCHANGED <<cn, status>> /\ pc = "parse" /\ mishaps \subseteq mishaps'
    BY <1>4 DEF Parse, Accepting
  <2>2. \/ pc' = "route" /\ Accepted(cn) /\ Accepting(script[Front(cn)])
        \/ pc' \in {"rearm", "recv"}
    BY <1>4 DEF Parse, NeedMore, Accepted
  <2>3. pc' = "route" => Accepted(cn)' /\ Sound(cn)'
    BY <1>0, <2>1, <2>2, SameHead, AcceptedSound
  <2>4. QED
    BY <1>0, <2>1, <2>2, <2>3 DEF Places, HasPending
<1>5. CASE ParseInterim
  <2>1. /\ cn'.raw = cn.raw /\ cn'.sink = cn.sink /\ status' = status
        /\ pc = "parse" /\ pc' = "flush" /\ ret' = "interim" /\ Accepted(cn)
        /\ Accepting(script[Front(cn)]) /\ mishaps \subseteq mishaps'
    BY <1>0, <1>5 DEF ParseInterim, Accepting, Conns, Accepted
  <2>2. Accepted(cn)' /\ Sound(cn)'
    BY <1>0, <2>1, SameHead, AcceptedSound
  <2>3. QED
    BY <1>0, <2>1, <2>2 DEF Places
<1>6. CASE RouteSink
  <2>0. pc = "route"
    BY <1>6 DEF RouteSink
  <2>1. PICK c \in Conns, first \in Units :
            /\ Feed(c, first) /\ c.sink = Front(cn) /\ c.out = cn.out /\ c.file = cn.file
            /\ status' = status
    BY <1>6, RouteSinkParts
  <2>2. cn.out = <<>> /\ cn.file = <<>> /\ status = "open" /\ Front(cn) \in Requests /\ script \in Scripts
    BY <2>0, RouteFacts DEF IInv, TypeOK
  <2>3. Front(cn) # 0
    BY <2>2, ScriptFacts DEF Requests
  <2>4. QED
    BY <2>1, <2>2, <2>3, PlacesFeed
<1>7. CASE RouteServes
  <2>0. pc = "route"
    BY <1>7 DEF RouteServes
  <2>1. PICK c \in Conns : /\ Serve(c, Front(cn)) /\ c.sink = 0 /\ status' = status
                           /\ pc' = "flush" /\ ret' = "buffered"
    BY <1>7, RouteServesParts
  <2>2. status = "open"
    BY <1>0, <2>0 DEF Places
  <2>3. QED
    BY <2>1, <2>2, PlacesServe
<1>8. QED
    BY <1>1, <1>2, <1>3, <1>4, <1>5, <1>6, <1>7 DEF Buffer

LEMMA PlacesPump ==
  ASSUME IInv, Pump
  PROVE  Places'
<1>0. Places /\ pc = "pump" /\ cn \in Conns
    BY ConnFields DEF IInv, Pump, PumpWaits, PumpLost, PumpChunk, PumpRefused, PumpEnds
<1>a. cn.sink # 0 /\ status = "open" /\ cn.out = <<>> /\ cn.file = <<>>
    BY <1>0, PumpFacts
<1>1. CASE PumpWaits
    BY <1>0, <1>1 DEF PumpWaits, Places
<1>2. CASE PumpLost \/ PumpRefused
  <2>1. cn' = ClearStream(cn) /\ pc' = "dispose" /\ status' = status
    BY <1>2 DEF PumpLost, PumpRefused, AbortStream, Refuse
  <2>2. cn'.sink = 0
    BY <1>0, <2>1, ClearTypes
  <2>3. QED
    BY <1>a, <2>1, <2>2 DEF Places
<1>3. CASE PumpChunk
  <2>1. PICK c \in Conns, chunk \in Units :
            /\ Feed(c, chunk) /\ c.sink = cn.sink /\ c.out = cn.out /\ c.file = cn.file
            /\ status' = status
    BY <1>3, PumpChunkParts
  <2>2. QED
    BY <1>a, <2>1, PlacesFeed
<1>4. CASE PumpEnds
  <2>1. PICK c \in Conns : Serve(c, cn.sink) /\ c.sink = 0 /\ status' = status
    BY <1>4, PumpEndsParts
  <2>2. pc' = "dispose" \/ (pc' = "flush" /\ ret' = "stream")
    BY <1>4 DEF PumpEnds
  <2>3. QED
    BY <1>a, <2>1, <2>2, PlacesServe
<1>5. QED
    BY <1>1, <1>2, <1>3, <1>4 DEF Pump

LEMMA PlacesWorld ==
  ASSUME IInv, World \/ Returned \/ UNCHANGED vars
  PROVE  Places'
<1>1. UNCHANGED <<script, cn, status, pc, ret, mishaps>> /\ (peer # "up" => peer' # "up")
    BY DEF World, PeerSends, PeerReads, PeerEnds, PeerResets, DeadlinePasses, BudgetPasses, env,
           Returned, vars, peerVars, locals, marks
<1>2. (Accepted(cn) => Accepted(cn)') /\ (Sound(cn) => Sound(cn)')
    BY <1>1, SameHead
<1>3. QED
    BY <1>1, <1>2 DEF IInv, Places, HasPending

LEMMA PlacesStep ==
  ASSUME IInv, OneCoding, [Next]_vars
  PROVE  Places'
    BY PlacesLoop, PlacesFlush, PlacesBuffer, PlacesPump, PlacesWorld DEF Next, Server
-----------------------------------------------------------------------------
(* The stream and the sinks. Most steps do not touch them.                   *)

Quiet ==
    /\ UNCHANGED <<script, next, rx, sinkGot, sinkTold>>
    /\ cn'.raw = cn.raw /\ cn'.tail = cn.tail /\ cn'.sink = cn.sink /\ cn'.left = cn.left
    /\ Alive' => Alive
    /\ peer # "up" => peer' # "up"
    /\ mishaps \subseteq mishaps'

QuietAction ==
    \/ Drain \/ DrainDone \/ Wait \/ WaitReturns \/ Accept \/ Drive \/ Rearm
    \/ Flush
    \/ Recv \/ RecvOverflows \/ Parse \/ ParseFails \/ ParseInterim \/ RouteTooLarge \/ RouteWaits
    \/ PumpWaits
    \/ PeerReads \/ PeerEnds \/ PeerResets \/ DeadlinePasses \/ BudgetPasses
    \/ Returned \/ UNCHANGED vars

LEMMA QuietActions ==
  ASSUME IInv, QuietAction
  PROVE  Quiet
<1>0. cn \in Conns /\ Places
    BY ConnFields DEF IInv
<1>1. CASE Drain \/ DrainDone \/ Wait \/ WaitReturns \/ Drive
    BY <1>1 DEF Drain, DrainDone, Wait, WaitReturns, Drive, Quiet, Alive, peerVars, sockVars, sinks, marks
<1>2. CASE Accept
    BY <1>0, <1>2 DEF Accept, Quiet, Alive, Places, peerVars, sockVars, sinks, marks
<1>3. CASE Rearm
    BY <1>0, <1>3 DEF Rearm, Conns, Quiet, Alive, peerVars, sockVars, sinks, marks
<1>4. CASE FlushSend \/ FlushFile
    BY <1>0, <1>4 DEF FlushSend, FlushFile, Conns, Quiet, Alive, peerVars, sinks, marks
<1>5. CASE FlushFileEnds \/ FlushBlocks \/ FlushFails \/ Flushed
    BY <1>0, <1>5 DEF FlushFileEnds, FlushBlocks, FlushFails, Flushed, Conns, Quiet, Alive,
                      peerVars, sockVars, sinks, marks
<1>6. CASE Recv \/ RecvOverflows \/ Parse \/ ParseFails \/ RouteTooLarge \/ RouteWaits \/ PumpWaits
    BY <1>6 DEF Recv, RecvOverflows, Parse, Accepting, ParseFails, RouteTooLarge, RouteWaits, PumpWaits,
                Refuse, Quiet, Alive, peerVars, sockVars, sinks, marks
<1>7. CASE ParseInterim
    BY <1>0, <1>7 DEF ParseInterim, Accepting, Conns, Quiet, Alive, peerVars, sockVars, sinks, marks
<1>8. CASE PeerReads \/ PeerEnds \/ PeerResets \/ DeadlinePasses \/ BudgetPasses \/ Returned \/ UNCHANGED vars
    BY <1>8 DEF PeerReads, PeerEnds, PeerResets, DeadlinePasses, BudgetPasses, Returned, vars, env,
                Quiet, Alive, peerVars, sockVars, sinks, marks
<1>9. QED
    BY <1>1, <1>2, <1>3, <1>4, <1>5, <1>6, <1>7, <1>8 DEF QuietAction, Flush

\* What the history of one sink must look like.
ToldRight(i) ==
    /\ Len(sinkTold[i]) <= 1
    /\ sinkTold[i] = <<>> => sinkGot[i] = <<>> \/ cn.sink = i
    /\ sinkTold[i] # <<>> => cn.sink # i
    /\ sinkTold[i] = <<"end">> => Len(sinkGot[i]) = BodyLen(script[i])
    /\ sinkTold[i] = <<"lost">> => peer # "up" \/ "poll" \in mishaps

LEMMA ToldParts == ToldOnce <=> \A i \in Requests : ToldRight(i)
    BY DEF ToldOnce, ToldRight

SinkParts == Framed /\ Fresh /\ SinkFed /\ OwnBody /\ ToldOnce

LEMMA QuietKeeps ==
  ASSUME IInv, Quiet
  PROVE  SinkParts' /\ Cur' = Cur
<1>1. Ahead' = Ahead /\ Cur' = Cur /\ Requests' = Requests
    BY DEF Quiet, Ahead, Cur, Requests
<1>2. Framed'
    BY <1>1 DEF IInv, Framed, Begins, Quiet
<1>3. Fresh'
    BY <1>1 DEF IInv, Fresh, Quiet
<1>4. SinkFed'
    BY DEF IInv, SinkFed, Quiet
<1>5. OwnBody'
    BY <1>1 DEF IInv, OwnBody, Quiet
<1>6. ToldOnce'
    BY <1>1 DEF IInv, ToldOnce, Quiet
<1>7. QED
    BY <1>1, <1>2, <1>3, <1>4, <1>5, <1>6 DEF SinkParts

LEMMA JoinUnits ==
  ASSUME NEW a \in Units, NEW b \in Units, NEW c \in Units
  PROVE  (a \o b) \o c = a \o (b \o c)
<1>1. PICK S : Units = Seq(S)
    BY DEF Units
<1>2. a \in Seq(S) /\ b \in Seq(S) /\ c \in Seq(S)
    BY <1>1
<1>3. QED
    BY <1>2, ConcatAssociative

\* The peer sends a unit: the stream ahead grows by it.
LEMMA PeerSendsKeeps ==
  ASSUME IInv, PeerSends
  PROVE  SinkParts' /\ (Alive' => Alive /\ Cur' = Cur)
<1>1. /\ UNCHANGED <<script, cn, status, pc, sinkGot, sinkTold, peer, mishaps>>
      /\ rx' = Append(rx, next) /\ next' = After(script, next) /\ IsUnit(script, next)
    BY DEF PeerSends, After, Size, sinks, marks, IInv, Sent
<1>2. /\ cn.raw \in Units /\ cn.tail \in Units /\ rx \in Units /\ Ahead \in Units
      /\ script \in Scripts /\ next \in Nat \X Nat
    BY AheadUnits
<1>3. PICK u : u = <<next>>
    OBVIOUS
<1>4. u \in Units /\ rx' = rx \o u /\ rx' \in Units
    BY <1>1, <1>2, <1>3, AppendIsConcat, AppendProperties DEF Units
<1>5. Ahead' = Append(Ahead, next)
  <2>1. (cn.raw \o rx) \o u = cn.raw \o (rx \o u) /\ (cn.tail \o rx) \o u = cn.tail \o (rx \o u)
    <3>1. PICK r, t, x : r = cn.raw /\ t = cn.tail /\ x = rx
      OBVIOUS
    <3>2. r \in Units /\ t \in Units /\ x \in Units /\ u \in Units
      BY <1>2, <1>4, <3>1, Zenon
    <3>3. (r \o x) \o u = r \o (x \o u)
      BY <3>2, JoinUnits
    <3>4. (t \o x) \o u = t \o (x \o u)
      BY <3>2, JoinUnits
    <3>5. QED
      BY <3>1, <3>3, <3>4, Zenon
  <2>2. Append(Ahead, next) = Ahead \o u
    BY <1>2, <1>3, AppendIsConcat DEF Units
  <2>3. QED
    BY <1>1, <1>4, <2>1, <2>2 DEF Ahead
<1>6. Requests' = Requests /\ (Alive' <=> Alive)
    BY <1>1 DEF Requests, Alive
<1>7. ASSUME Alive
      PROVE  Chain(script, Ahead', next') /\ First(Ahead', next') = First(Ahead, next) /\ Cur' = Cur
  <2>1. /\ Chain(script, Append(Ahead, next), After(script, next))
        /\ First(Append(Ahead, next), After(script, next)) = First(Ahead, next)
    BY <1>1, <1>2, <1>7, ChainGrows DEF IInv, Framed
  <2>2. Chain(script, Ahead', next') /\ First(Ahead', next') = First(Ahead, next)
    BY <1>1, <1>5, <2>1, Zenon
  <2>3. QED
    BY <1>1, <2>2 DEF Cur
<1>8. Framed'
    BY <1>1, <1>6, <1>7 DEF IInv, Framed, Begins
<1>9. Fresh'
    BY <1>1, <1>6, <1>7 DEF IInv, Fresh
<1>10. SinkFed' /\ OwnBody' /\ ToldOnce'
    BY <1>1, <1>6 DEF IInv, SinkFed, OwnBody, ToldOnce
<1>11. QED
    BY <1>6, <1>7, <1>8, <1>9, <1>10 DEF SinkParts

\* A read into the buffer moves units within the stream ahead.
LEMMA RecvIntoKeeps ==
  ASSUME IInv, RecvInto
  PROVE  SinkParts' /\ Alive /\ Cur' = Cur
<1>0. TypeOK /\ pc = "recv" /\ cn.sink = 0
    BY DEF IInv, Places, RecvInto
<1>1. PICK got, r, d : got = Take(rx, RecvChunk) /\ r = cn.raw \o got /\ d = Drop(rx, Len(got))
    OBVIOUS
<1>2. /\ cn' = [cn EXCEPT !.raw = r] /\ rx' = d /\ pc' = "parse"
      /\ UNCHANGED <<script, next, peer, status, sinkGot, sinkTold, mishaps>>
    BY <1>1 DEF RecvInto, peerVars, sinks, marks
<1>3. cn'.raw = r /\ cn'.sink = 0 /\ cn'.left = cn.left /\ cn'.tail = cn.tail
    BY <1>0, <1>2, ConnFields DEF Conns
<1>4. got \in Units /\ d \in Units /\ got \o d = rx /\ cn.raw \in Units
    BY <1>0, <1>1, ReadProps, SizesAssumption, ConnFields
<1>5. (cn.raw \o got) \o d = cn.raw \o (got \o d)
    BY <1>4, JoinUnits
<1>6. Ahead' = Ahead
    BY <1>0, <1>1, <1>2, <1>3, <1>4, <1>5 DEF Ahead
<1>7. Alive /\ Cur' = Cur /\ Requests' = Requests
    BY <1>0, <1>2, <1>3, <1>6 DEF IInv, Places, Alive, Cur, Requests
<1>8. Framed'
    BY <1>0, <1>2, <1>3, <1>6, <1>7 DEF IInv, Framed, Begins
<1>9. Fresh'
    BY <1>0, <1>2, <1>3, <1>7 DEF IInv, Fresh
<1>10. SinkFed' /\ OwnBody' /\ ToldOnce'
    BY <1>0, <1>2, <1>3, <1>7 DEF IInv, SinkFed, OwnBody, ToldOnce
<1>11. QED
    BY <1>7, <1>8, <1>9, <1>10 DEF SinkParts

\* The sink is told how its body ended, and let go of.
LEMMA TellKeeps ==
  ASSUME IInv, cn.sink # 0, NEW why \in Reasons,
         sinkTold' = [sinkTold EXCEPT ![cn.sink] = Append(@, why)],
         cn'.sink = 0, UNCHANGED <<script, sinkGot>>,
         peer # "up" => peer' # "up", mishaps \subseteq mishaps',
         why = "end" => Len(sinkGot[cn.sink]) = BodyLen(script[cn.sink]),
         why = "lost" => peer' # "up" \/ "poll" \in mishaps'
  PROVE  SinkFed' /\ OwnBody' /\ ToldOnce'
<1>0. Requests' = Requests /\ cn.sink \in Requests /\ sinkTold \in [Requests -> Seq(Reasons)]
    BY ConnFields DEF IInv, Requests
<1>1. SinkFed' /\ OwnBody'
    BY <1>0 DEF IInv, SinkFed, OwnBody
<1>2. sinkTold[cn.sink] = <<>>
    BY <1>0, Zenon DEF IInv, ToldOnce
<1>3. sinkTold'[cn.sink] = <<why>>
  <2>1. Append(<<>>, why) = <<why>>
    OBVIOUS
  <2>2. QED
    BY <1>0, <1>2, <2>1
<1>4. ASSUME NEW i \in Requests PROVE ToldRight(i)'
  <2>1. CASE i = cn.sink
    <3>1. Len(<<why>>) <= 1 /\ <<why>> # <<>> /\ (<<why>> = <<"end">> => why = "end")
          /\ (<<why>> = <<"lost">> => why = "lost")
      OBVIOUS
    <3>2. i # 0
      BY <2>1
    <3>3. QED
      BY <1>3, <2>1, <3>1, <3>2 DEF ToldRight
  <2>2. CASE i # cn.sink
    <3>1. sinkTold'[i] = sinkTold[i]
      BY <1>0, <2>2
    <3>2. ToldRight(i) /\ i # 0
      BY ToldParts, ScriptFacts DEF IInv, TypeOK, Requests
    <3>3. QED
      BY <2>2, <3>1, <3>2 DEF ToldRight
  <2>3. QED
    BY <2>1, <2>2
<1>5. ToldOnce'
    BY <1>0, <1>4 DEF ToldOnce, ToldRight
<1>6. QED
    BY <1>1, <1>5

\* The connection is let go of.
LEMMA LeaveKeeps ==
  ASSUME IInv, DrainExpired \/ Sweep \/ PollFails \/ Dispose
  PROVE  SinkParts' /\ (Alive' => Alive /\ cn' = cn /\ Cur' = Cur)
<1>0. /\ UNCHANGED <<script, next, rx, peer, sinkGot>> /\ mishaps \subseteq mishaps'
      /\ cn' = NewConn /\ TypeOK
    BY DEF DrainExpired, Sweep, PollFails, Dispose, Leave, IInv, peerVars, sockVars, marks
<1>1. PICK why \in Reasons :
          /\ sinkTold' = IF cn.sink = 0 THEN sinkTold ELSE [sinkTold EXCEPT ![cn.sink] = Append(@, why)]
          /\ why # "end"
          /\ why = "lost" => pc = "dispose" \/ "poll" \in mishaps'
  <2>1. {"shutdown", "timeout", "lost"} \subseteq Reasons
    BY DEF Reasons
  <2>2. CASE DrainExpired
    BY <2>1, <2>2 DEF DrainExpired, Leave, Tell
  <2>3. CASE Sweep
    BY <2>1, <2>3 DEF Sweep, Leave, Tell
  <2>4. CASE PollFails
    BY <2>1, <2>4 DEF PollFails, Leave, Tell
  <2>5. CASE Dispose
    BY <2>1, <2>5 DEF Dispose, Leave, Tell
  <2>6. QED
    BY <2>2, <2>3, <2>4, <2>5
<1>2. cn'.sink = 0 /\ cn'.raw = <<>> /\ cn'.tail = <<>> /\ cn'.left = 0
    BY <1>0 DEF NewConn
<1>3. SinkFed' /\ OwnBody' /\ ToldOnce'
  <2>1. CASE cn.sink # 0
    <3>1. pc = "dispose" => peer # "up"
      BY <2>1 DEF IInv, Places
    <3>2. QED
      BY <1>0, <1>1, <1>2, <2>1, <3>1, TellKeeps
  <2>2. CASE cn.sink = 0
    BY <1>0, <1>1, <1>2, <2>2 DEF IInv, SinkFed, OwnBody, ToldOnce, Requests
  <2>3. QED
    BY <2>1, <2>2
<1>4. Framed' /\ Fresh' /\ (Alive' => Alive /\ cn' = cn /\ Cur' = Cur)
  <2>1. CASE ~Alive'
    BY <2>1 DEF Framed, Fresh
  <2>2. CASE Alive'
    <3>1. status' = "none" /\ status = "none"
      BY <2>2 DEF Alive, DrainExpired, Sweep, PollFails, Dispose, Leave
    <3>2. cn = NewConn /\ Alive
      BY <3>1 DEF IInv, Places, Alive
    <3>3. cn' = cn /\ cn.sink = 0 /\ Requests' = Requests
      BY <1>0, <3>2 DEF NewConn, Requests
    <3>4. sinkTold' = sinkTold
      BY <1>1, <3>3
    <3>5. Ahead' = Ahead /\ Cur' = Cur
      BY <1>0, <3>3 DEF Ahead, Cur
    <3>6. QED
      BY <1>0, <3>2, <3>3, <3>4, <3>5 DEF IInv, Framed, Fresh, Begins
  <2>3. QED
    BY <2>1, <2>2
<1>5. QED
    BY <1>3, <1>4 DEF SinkParts

\* feed_sink(): the chunk continues the body of the current request.
LEMMA FeedKeeps ==
  ASSUME IInv, Alive, NEW i \in Requests, NEW c \in Conns, NEW chunk \in Units, Feed(c, chunk),
         UNCHANGED <<script, next, peer, mishaps>>, c.sink = i, Cur = i, i # 0,
         cn.sink \in {0, i}, sinkTold[i] = <<>>,
         BodyLen(script[i]) = script[i].body,
         NEW g \in Nat, NEW n \in Nat, g = Len(sinkGot[i]), n = Len(chunk),
         g + n + c.left = script[i].body,
         \A k \in 1 .. n : chunk[k] = <<i, script[i].head + g + k>>,
         Chain(script, c.tail \o rx', next),
         First(c.tail \o rx', next) = IF c.left > 0 THEN <<i, Size(script, i) - c.left + 1>> ELSE <<i + 1, 1>>,
         c.left > 0 => c.tail = <<>>
  PROVE  SinkParts' /\ (Alive' => Cur' = Cur)
<1>0. /\ sinkGot \in [Requests -> Units] /\ sinkTold \in [Requests -> Seq(Reasons)]
      /\ sinkGot[i] \in Units /\ Requests' = Requests /\ script \in Scripts
    BY ConnFields DEF IInv, Requests, TypeOK
<1>1. PICK s : s = sinkGot[i] \o chunk
    OBVIOUS
<1>2. s \in Units /\ Len(s) = g + n
      /\ \A k \in 1 .. g + n : s[k] = IF k <= g THEN sinkGot[i][k] ELSE chunk[k - g]
    BY <1>0, <1>1, ConcatProps DEF Units
<1>3. sinkGot' = [sinkGot EXCEPT ![i] = s]
    BY <1>1 DEF Feed
<1>4. sinkGot'[i] = s /\ \A j \in Requests : j # i => sinkGot'[j] = sinkGot[j]
    BY <1>0, <1>3
<1>5. OwnBody'
  <2>1. ASSUME NEW k \in 1 .. g + n PROVE s[k] = <<i, script[i].head + k>>
    <3>1. CASE k <= g
      <4>1. DOMAIN sinkGot[i] = 1 .. g /\ k \in 1 .. g
        BY <1>0, <2>1, <3>1, LenProperties DEF Units
      <4>2. sinkGot[i][k] = <<i, script[i].head + k>>
        BY <4>1 DEF IInv, OwnBody
      <4>3. QED
        BY <1>2, <2>1, <3>1, <4>2
    <3>2. CASE ~(k <= g)
      <4>0. k - g \in 1 .. n
        BY <2>1, <3>2
      <4>1. PICK j \in 1 .. n : j = k - g
        BY <4>0
      <4>2. script[i].head \in Nat
        BY <1>0, ScriptFacts DEF Requests
      <4>3. script[i].head + g + j = script[i].head + k
        <5>1. g \in Nat /\ k \in Nat /\ j \in Nat
          BY <1>0, <1>2, <2>1, <4>1
        <5>2. g + j = k
          BY <4>1, <5>1
        <5>3. QED
          BY <4>2, <5>1, <5>2, SMTT(30)
      <4>4. s[k] = chunk[j]
        BY <1>2, <2>1, <3>2, <4>1
      <4>5. QED
        BY <4>1, <4>3, <4>4
    <3>3. QED
      BY <3>1, <3>2
  <2>2. DOMAIN s = 1 .. g + n
    BY <1>2, LenProperties DEF Units
  <2>3. ASSUME NEW j \in Requests, NEW k \in DOMAIN sinkGot'[j]
        PROVE  sinkGot'[j][k] = <<j, script[j].head + k>>
    <3>1. CASE j = i
      BY <1>4, <2>1, <2>2, <2>3, <3>1
    <3>2. CASE j # i
      <4>1. sinkGot'[j] = sinkGot[j]
        BY <1>4, <3>2
      <4>2. QED
        BY <2>3, <4>1 DEF IInv, OwnBody
    <3>3. QED
      BY <3>1, <3>2
  <2>4. QED
    BY <1>0, <2>3 DEF OwnBody
<1>6. ASSUME NEW j \in Requests, j # i
      PROVE  j # 0 /\ ToldRight(j) /\ (sinkTold[j] = <<>> => sinkGot[j] = <<>>)
  <2>1. ToldRight(j)
    BY <1>6, ToldParts DEF IInv
  <2>2. j # 0
    BY <1>0, <1>6, ScriptFacts DEF Requests
  <2>3. QED
    BY <1>6, <2>1, <2>2 DEF ToldRight
<1>7. CASE cn' = c /\ pc' = "pump" /\ UNCHANGED sinkTold
  <2>1. Ahead' = c.tail \o rx' /\ Cur' = i
    BY <1>7 DEF Ahead, Cur
  <2>2. Framed'
    BY <1>7, <2>1 DEF Framed, Begins
  <2>3. SinkFed'
    <3>1. c.left \in Nat /\ g + n + c.left = (g + n) + c.left
      BY DEF Conns
    <3>2. QED
      BY <1>2, <1>4, <1>7, <3>1 DEF SinkFed
  <2>4. Fresh'
    <3>1. ASSUME NEW j \in Requests, j > i PROVE sinkGot'[j] = <<>> /\ sinkTold'[j] = <<>>
      <4>1. j # i
        BY <1>0, <3>1, ScriptFacts DEF Requests
      <4>2. sinkGot[j] = <<>> /\ sinkTold[j] = <<>>
        BY <3>1 DEF IInv, Fresh
      <4>3. QED
        BY <1>4, <1>7, <3>1, <4>1, <4>2
    <3>2. QED
      BY <1>0, <1>7, <2>1, <3>1 DEF Fresh
  <2>5. ToldOnce'
    <3>1. ASSUME NEW j \in Requests PROVE ToldRight(j)'
      <4>1. CASE j = i
        <5>1. Len(<<>>) <= 1 /\ <<>> # <<"end">> /\ <<>> # <<"lost">>
          OBVIOUS
        <5>2. sinkTold'[j] = <<>> /\ cn'.sink = j
          BY <1>7, <4>1
        <5>3. QED
          BY <5>1, <5>2, Zenon DEF ToldRight
      <4>2. CASE j # i
        BY <1>4, <1>6, <1>7, <4>2 DEF ToldRight
      <4>3. QED
        BY <4>1, <4>2
    <3>2. QED
      BY <1>0, <3>1 DEF ToldOnce, ToldRight
  <2>6. QED
    BY <1>5, <2>1, <2>2, <2>3, <2>4, <2>5 DEF SinkParts
<1>8. CASE AbortStream(c, "rejected") /\ pc' = "dispose"
  <2>1. cn'.sink = 0
    BY <1>8, ClearTypes DEF AbortStream
  <2>2. Framed' /\ Fresh' /\ SinkFed'
    BY <1>8, <2>1 DEF Framed, Fresh, SinkFed, Alive
  <2>3. sinkTold' = [sinkTold EXCEPT ![i] = <<"rejected">>]
    <3>1. Append(<<>>, "rejected") = <<"rejected">>
      OBVIOUS
    <3>2. QED
      BY <1>8, <3>1 DEF AbortStream, Tell
  <2>4. ASSUME NEW j \in Requests PROVE ToldRight(j)'
    <3>1. CASE j = i
      <4>1. Len(<<"rejected">>) <= 1 /\ <<"rejected">> # <<>> /\ <<"rejected">> # <<"end">>
            /\ <<"rejected">> # <<"lost">>
        OBVIOUS
      <4>2. sinkTold'[j] = <<"rejected">> /\ cn'.sink # j
        BY <1>0, <2>1, <2>3, <3>1
      <4>3. QED
        BY <4>1, <4>2, Zenon DEF ToldRight
    <3>2. CASE j # i
      <4>1. sinkTold'[j] = sinkTold[j] /\ sinkGot'[j] = sinkGot[j]
        BY <1>0, <1>4, <2>3, <3>2
      <4>2. QED
        BY <1>6, <2>1, <3>2, <4>1 DEF ToldRight
    <3>3. QED
      BY <3>1, <3>2
  <2>5. ToldOnce'
    BY <1>0, <2>4 DEF ToldOnce, ToldRight
  <2>6. ~Alive'
    BY <1>8 DEF Alive
  <2>7. QED
    BY <1>5, <2>2, <2>5, <2>6 DEF SinkParts
<1>9. QED
    BY <1>7, <1>8 DEF Feed

\* The sink is attached, and gets the part of its body that is in the buffer.
LEMMA RouteSinkKeeps ==
  ASSUME IInv, OneCoding, RouteSink
  PROVE  SinkParts' /\ (Alive' => Cur' = Cur)
<1>0. pc = "route" /\ TypeOK
    BY DEF RouteSink, IInv
<1>1. PICK i, h, b, l : i = Front(cn) /\ h = script[i].head /\ b = script[i].body /\ l = Len(cn.raw)
    OBVIOUS
<1>2. /\ Alive /\ cn.sink = 0 /\ cn.raw # <<>> /\ i \in Requests
      /\ Cur = i /\ First(Ahead, next) = <<i, 1>> /\ Ahead = cn.raw \o rx
      /\ BodyLen(script[i]) = b /\ h \in Nat \ {0} /\ b \in Nat
      /\ Size(script, i) = h + b
      /\ l \in Nat /\ l >= h
    BY <1>0, <1>1, RouteFacts DEF Ahead
<1>3. PICK c \in Conns, first \in Units :
            /\ Feed(c, first)
            /\ UNCHANGED <<script, next, peer, rx, status, last, mishaps>>
            /\ c.sink = i
            /\ Len(first) <= b
            /\ c.left = b - Len(first)
            /\ h + Len(first) <= l
            /\ c.tail = Drop(cn.raw, h + Len(first))
            /\ \A k \in 1 .. Len(first) : first[k] = cn.raw[h + k]
            /\ c.left > 0 => h + Len(first) = l
    BY <1>1, RouteSinkParts
<1>4. PICK m \in Nat : m = Len(first)
    BY LenProperties DEF Units
<1>5. PICK d \in Nat : d = h + m
    BY <1>2
<1>6. /\ cn.raw \in Units /\ rx \in Units /\ Ahead \in Units /\ script \in Scripts
      /\ next \in Nat \X Nat /\ Chain(script, Ahead, next)
    BY <1>2, AheadUnits DEF IInv, Framed
<1>7. Len(Ahead) \in Nat /\ l <= Len(Ahead) /\ \A k \in 1 .. l : Ahead[k] = cn.raw[k]
  <2>1. /\ Len(cn.raw \o rx) = Len(cn.raw) + Len(rx)
        /\ \A k \in 1 .. Len(cn.raw) + Len(rx) : (cn.raw \o rx)[k] = IF k <= Len(cn.raw) THEN cn.raw[k] ELSE rx[k - Len(cn.raw)]
    BY <1>6, ConcatProperties DEF Units
  <2>2. Len(rx) \in Nat
    BY <1>6, LenProperties DEF Units
  <2>3. QED
    BY <1>1, <1>2, <2>1, <2>2
<1>8. /\ Drop(Ahead, d) \in Units
      /\ Chain(script, Drop(Ahead, d), next)
      /\ First(Drop(Ahead, d), next) = Past(script, i, 1, d)
      /\ \A k \in 1 .. d : Ahead[k] = <<i, 1 + k - 1>>
  <2>1. PICK s, n, sc, p : s = Ahead /\ n = next /\ sc = script /\ p = 1
    OBVIOUS
  <2>2. /\ s \in Units /\ n \in Nat \X Nat /\ sc \in Scripts /\ Chain(sc, s, n)
        /\ First(s, n) = <<i, p>>
    BY <1>2, <1>6, <2>1
  <2>3. i \in DOMAIN sc /\ p \in Nat \ {0} /\ p <= Size(sc, i)
        /\ d <= Len(s) /\ p + d - 1 <= Size(sc, i)
    BY <1>2, <1>3, <1>4, <1>5, <1>7, <2>1 DEF Requests
  <2>4. /\ Drop(s, d) \in Units
        /\ Chain(sc, Drop(s, d), n)
        /\ First(Drop(s, d), n) = Past(sc, i, p, d)
        /\ \A k \in 1 .. d : s[k] = <<i, p + k - 1>>
    BY <1>5, <2>2, <2>3, ChainCut
  <2>5. QED
    BY <2>1, <2>4
<1>9. Drop(Ahead, d) = c.tail \o rx'
  <2>1. Drop(cn.raw, d) \o rx = Drop(cn.raw \o rx, d)
    BY <1>1, <1>3, <1>4, <1>5, <1>6, DropConcat, ZenonT(60) DEF Units
  <2>2. QED
    BY <1>2, <1>3, <1>4, <1>5, <2>1
<1>10. Past(script, i, 1, d) = IF c.left > 0 THEN <<i, Size(script, i) - c.left + 1>> ELSE <<i + 1, 1>>
  <2>1. (1 + d - 1 < Size(script, i)) <=> c.left > 0
    BY <1>2, <1>3, <1>4, <1>5
  <2>2. Size(script, i) - c.left + 1 = 1 + d
    BY <1>2, <1>3, <1>4, <1>5
  <2>3. QED
    BY <2>1, <2>2 DEF Past
<1>11. sinkGot[i] = <<>> /\ sinkTold[i] = <<>> /\ i # 0
    BY <1>2, <1>6, ScriptFacts DEF IInv, Fresh, Requests
<1>12. \A k \in 1 .. m : first[k] = <<i, h + 0 + k>>
  <2>1. ASSUME NEW k \in 1 .. m PROVE first[k] = <<i, h + 0 + k>>
    <3>1. PICK j \in 1 .. d : j = h + k
      BY <1>2, <1>5, <2>1
    <3>2. j \in 1 .. l /\ 1 + j - 1 = j /\ h + 0 + k = j
      BY <1>2, <1>3, <1>4, <1>5, <2>1, <3>1
    <3>3. first[k] = cn.raw[j] /\ cn.raw[j] = Ahead[j]
      BY <1>3, <1>4, <1>7, <2>1, <3>1, <3>2
    <3>4. Ahead[j] = <<i, 1 + j - 1>>
      BY <1>8, <3>1
    <3>5. QED
      BY <3>2, <3>3, <3>4
  <2>2. QED
    BY <2>1
<1>13. Len(sinkGot[i]) = 0 /\ 0 + m + c.left = b
    BY <1>2, <1>3, <1>4, <1>11
<1>14. c.left > 0 => c.tail = <<>>
  <2>1. ASSUME c.left > 0 PROVE c.tail = <<>>
    <3>1. d = l /\ d <= l
      BY <1>2, <1>3, <1>4, <1>5, <2>1
    <3>2. Drop(cn.raw, d) \in Units /\ Len(Drop(cn.raw, d)) = Len(cn.raw) - d
      BY <1>1, <1>6, <3>1, DropProps, ZenonT(60) DEF Units
    <3>3. Len(Drop(cn.raw, d)) = 0
      BY <1>1, <1>2, <3>1, <3>2
    <3>4. QED
      BY <1>3, <1>4, <1>5, <3>2, <3>3, EmptySeq DEF Units
  <2>2. QED
    BY <2>1
<1>15. 0 \in Nat /\ cn.sink \in {0, i}
    BY <1>2
<1>16. Chain(script, c.tail \o rx', next)
       /\ First(c.tail \o rx', next) = IF c.left > 0 THEN <<i, Size(script, i) - c.left + 1>> ELSE <<i + 1, 1>>
    BY <1>8, <1>9, <1>10
<1>17. /\ UNCHANGED <<script, next, peer, mishaps>>
       /\ Feed(c, first) /\ c.sink = i /\ Cur = i
       /\ BodyLen(script[i]) = script[i].body
       /\ 0 = Len(sinkGot[i]) /\ m = Len(first) /\ 0 + m + c.left = script[i].body
       /\ \A k \in 1 .. m : first[k] = <<i, script[i].head + 0 + k>>
    BY <1>1, <1>2, <1>3, <1>4, <1>12, <1>13
<1>18. QED
    BY <1>2, <1>4, <1>11, <1>14, <1>15, <1>16, <1>17, FeedKeeps, ZenonT(60)

\* The sink gets the next part of its body straight from the socket.
LEMMA PumpChunkKeeps ==
  ASSUME IInv, PumpChunk
  PROVE  SinkParts' /\ (Alive' => Cur' = Cur)
<1>0. pc = "pump" /\ TypeOK /\ cn.left > 0
    BY DEF PumpChunk, IInv
<1>1. PICK i, h, b, l, g : i = cn.sink /\ h = script[i].head /\ b = script[i].body /\ l = cn.left
                           /\ g = Len(sinkGot[i])
    OBVIOUS
<1>2. /\ Alive /\ i \in Requests /\ i # 0 /\ Cur = i /\ l \in Nat
      /\ Ahead = cn.tail \o rx
      /\ BodyLen(script[i]) = b /\ h \in Nat \ {0} /\ b \in Nat
      /\ Size(script, i) = h + b
      /\ g + l = b /\ sinkGot[i] \in Units /\ sinkTold[i] = <<>>
    BY <1>0, <1>1, PumpFacts
<1>3. g \in Nat
    BY <1>1, <1>2, LenProperties DEF Units
<1>4. /\ rx \in Units /\ script \in Scripts /\ next \in Nat \X Nat
      /\ Chain(script, Ahead, next) /\ First(Ahead, next) = <<i, Size(script, i) - l + 1>>
      /\ cn.tail = <<>>
    BY <1>0, <1>1, <1>2, AheadUnits DEF IInv, Framed, Begins
<1>5. Ahead = rx
    BY <1>2, <1>4, ConcatEmptySeq DEF Units
<1>6. PICK c \in Conns, chunk \in Units :
            /\ Feed(c, chunk)
            /\ UNCHANGED <<script, next, peer, status, last, mishaps>>
            /\ c.sink = i
            /\ Len(chunk) \in Nat /\ Len(chunk) <= l /\ Len(chunk) <= Len(rx)
            /\ c.left = l - Len(chunk)
            /\ \A k \in 1 .. Len(chunk) : chunk[k] = rx[k]
            /\ c.tail \o rx' = Drop(rx, Len(chunk))
            /\ c.left > 0 => c.tail = <<>>
    BY <1>1, PumpChunkParts
<1>7. PICK n \in Nat, p \in Nat \ {0} : n = Len(chunk) /\ p = Size(script, i) - l + 1
  <2>1. Size(script, i) - l + 1 \in Nat \ {0}
    BY <1>2, <1>3
  <2>2. QED
    BY <1>6, <2>1
<1>a. PICK f \in Nat, z \in Nat : f = c.left /\ z = Size(script, i)
    BY <1>2, <1>3 DEF Conns
<1>b. n <= l /\ f = l - n /\ p = z - l + 1 /\ z = h + b /\ l > 0 /\ l <= z
    BY <1>0, <1>1, <1>2, <1>3, <1>6, <1>7, <1>a
<1>8. /\ Chain(script, Drop(rx, n), next)
      /\ First(Drop(rx, n), next) = Past(script, i, p, n)
      /\ \A k \in 1 .. n : rx[k] = <<i, p + k - 1>>
  <2>1. PICK s, x, sc : s = rx /\ x = next /\ sc = script
    OBVIOUS
  <2>2. /\ s \in Units /\ x \in Nat \X Nat /\ sc \in Scripts /\ Chain(sc, s, x)
        /\ First(s, x) = <<i, p>>
    BY <1>4, <1>5, <1>7, <2>1
  <2>3. i \in DOMAIN sc /\ p <= Size(sc, i)
        /\ n <= Len(s) /\ p + n - 1 <= Size(sc, i)
    <3>1. p <= z /\ p + n - 1 <= z
      BY <1>2, <1>7, <1>a, <1>b, SMTT(30)
    <3>2. QED
      BY <1>2, <1>6, <1>7, <1>a, <2>1, <3>1 DEF Requests
  <2>4. /\ Chain(sc, Drop(s, n), x)
        /\ First(Drop(s, n), x) = Past(sc, i, p, n)
        /\ \A k \in 1 .. n : s[k] = <<i, p + k - 1>>
    BY <2>2, <2>3, ChainCut
  <2>5. QED
    BY <2>1, <2>4
<1>9. Past(script, i, p, n) = IF c.left > 0 THEN <<i, Size(script, i) - c.left + 1>> ELSE <<i + 1, 1>>
  <2>1. (p + n - 1 < Size(script, i)) <=> c.left > 0
    BY <1>2, <1>7, <1>a, <1>b
  <2>2. Size(script, i) - c.left + 1 = p + n
    BY <1>2, <1>7, <1>a, <1>b
  <2>3. QED
    BY <2>1, <2>2 DEF Past
<1>10. \A k \in 1 .. n : chunk[k] = <<i, h + g + k>>
  <2>1. ASSUME NEW k \in 1 .. n PROVE chunk[k] = <<i, h + g + k>>
    <3>1. h + g + k = p + k - 1
      BY <1>2, <1>3, <1>7, <2>1, SMTT(30)
    <3>2. chunk[k] = rx[k] /\ rx[k] = <<i, p + k - 1>>
      BY <1>6, <1>7, <1>8, <2>1
    <3>3. QED
      BY <3>1, <3>2
  <2>2. QED
    BY <2>1
<1>11. g + n + c.left = b
    BY <1>2, <1>3, <1>7, <1>a, <1>b
<1>12. Chain(script, c.tail \o rx', next)
       /\ First(c.tail \o rx', next) = IF c.left > 0 THEN <<i, Size(script, i) - c.left + 1>> ELSE <<i + 1, 1>>
    BY <1>6, <1>7, <1>8, <1>9
<1>13. /\ UNCHANGED <<script, next, peer, mishaps>>
       /\ Feed(c, chunk) /\ c.sink = i /\ Cur = i
       /\ BodyLen(script[i]) = script[i].body /\ cn.sink \in {0, i}
       /\ g = Len(sinkGot[i]) /\ n = Len(chunk) /\ g + n + c.left = script[i].body
       /\ \A k \in 1 .. n : chunk[k] = <<i, script[i].head + g + k>>
       /\ c.left > 0 => c.tail = <<>>
       /\ Alive /\ i \in Requests /\ i # 0 /\ sinkTold[i] = <<>>
    BY <1>1, <1>2, <1>6, <1>7, <1>10, <1>11
<1>14. g \in Nat /\ n \in Nat
    BY <1>3, <1>7
<1>15. QED
    BY <1>12, <1>13, <1>14, FeedKeeps, ZenonT(60)

\* A request that was buffered whole is served: the stream ahead starts with the
\* next head.
LEMMA RouteServesKeeps ==
  ASSUME IInv, OneCoding, RouteServes
  PROVE  SinkParts' /\ Cur' = Cur + 1 /\ Alive'
<1>0. pc = "route" /\ TypeOK
    BY DEF RouteServes, IInv
<1>1. PICK i, n, l : i = Front(cn) /\ n = Size(script, i) /\ l = Len(cn.raw)
    OBVIOUS
<1>2. /\ Alive /\ cn.sink = 0 /\ status = "open" /\ i \in Requests /\ i \in Nat
      /\ Cur = i /\ First(Ahead, next) = <<i, 1>> /\ Ahead = cn.raw \o rx
      /\ n \in Nat \ {0} /\ l \in Nat
    BY <1>0, <1>1, RouteFacts, ScriptFacts DEF Ahead, TypeOK, Requests
<1>3. PICK c \in Conns :
         /\ n <= l /\ Serve(c, i)
         /\ c.raw = Drop(cn.raw, n) /\ c.sink = 0 /\ c.left = cn.left /\ c.tail = cn.tail
         /\ UNCHANGED <<script, next, peer, rx, room, wire, status, sinkGot, sinkTold, mishaps>>
         /\ pc' = "flush"
    BY <1>1, RouteServesParts
<1>4. cn'.raw = c.raw /\ cn'.sink = 0 /\ cn'.tail = cn.tail /\ cn'.left = cn.left
    BY <1>3 DEF Serve, Conns
<1>5. /\ cn.raw \in Units /\ rx \in Units /\ Ahead \in Units /\ script \in Scripts
      /\ next \in Nat \X Nat /\ Chain(script, Ahead, next)
    BY <1>2, AheadUnits DEF IInv, Framed
<1>6. Len(Ahead) \in Nat /\ l <= Len(Ahead)
  <2>1. Len(cn.raw \o rx) = Len(cn.raw) + Len(rx) /\ Len(rx) \in Nat
    BY <1>5, ConcatProperties, LenProperties DEF Units
  <2>2. QED
    BY <1>1, <1>2, <2>1
<1>7. Ahead' = Drop(Ahead, n)
  <2>1. PICK a, x : a = cn.raw /\ x = rx
    OBVIOUS
  <2>2. a \in Units /\ x \in Units /\ n \in Nat /\ n <= Len(a)
    BY <1>1, <1>2, <1>3, <1>5, <2>1
  <2>3. Drop(a, n) \o x = Drop(a \o x, n)
    BY <2>2, DropConcat DEF Units
  <2>4. QED
    BY <1>2, <1>3, <1>4, <2>1, <2>3 DEF Ahead
<1>8. Chain(script, Drop(Ahead, n), next) /\ First(Drop(Ahead, n), next) = <<i + 1, 1>>
  <2>1. PICK s, x, sc, p : s = Ahead /\ x = next /\ sc = script /\ p = 1
    OBVIOUS
  <2>2. /\ s \in Units /\ x \in Nat \X Nat /\ sc \in Scripts /\ Chain(sc, s, x)
        /\ First(s, x) = <<i, p>>
    BY <1>2, <1>5, <2>1
  <2>3. i \in DOMAIN sc /\ p \in Nat \ {0} /\ p <= Size(sc, i)
        /\ n \in Nat /\ n <= Len(s) /\ p + n - 1 <= Size(sc, i)
    BY <1>1, <1>2, <1>3, <1>6, <2>1 DEF Requests
  <2>4. Chain(sc, Drop(s, n), x) /\ First(Drop(s, n), x) = Past(sc, i, p, n)
    BY <2>2, <2>3, ChainCut
  <2>5. ~(p + n - 1 < Size(sc, i))
    BY <1>1, <1>2, <2>1
  <2>6. QED
    BY <2>1, <2>4, <2>5 DEF Past
<1>9. First(Ahead', next') = <<i + 1, 1>> /\ Cur' = i + 1 /\ Alive' /\ Requests' = Requests
    BY <1>2, <1>3, <1>4, <1>7, <1>8 DEF Cur, Alive, Requests
<1>10. Framed'
    BY <1>3, <1>4, <1>7, <1>8, <1>9 DEF Framed, Begins
<1>11. Fresh'
  <2>1. ASSUME NEW j \in Requests, j > i + 1 \/ j = i + 1 PROVE sinkGot[j] = <<>> /\ sinkTold[j] = <<>>
    <3>1. j > i
      BY <1>2, <1>5, <2>1, ScriptFacts DEF Requests
    <3>2. QED
      BY <1>2, <2>1, <3>1 DEF IInv, Fresh
  <2>2. QED
    BY <1>3, <1>9, <2>1 DEF Fresh
<1>12. SinkFed' /\ OwnBody' /\ ToldOnce'
    BY <1>2, <1>3, <1>4, <1>9 DEF IInv, SinkFed, OwnBody, ToldOnce
<1>13. QED
    BY <1>2, <1>9, <1>10, <1>11, <1>12 DEF SinkParts

\* The peer is gone, or the sink does not accept the body it was given.
LEMMA PumpAbortKeeps ==
  ASSUME IInv, PumpLost \/ PumpRefused
  PROVE  SinkParts'
<1>0. pc = "pump" /\ TypeOK
    BY DEF PumpLost, PumpRefused, IInv
<1>1. cn.sink # 0
    BY <1>0, PumpFacts
<1>2. /\ pc' = "dispose" /\ cn' = ClearStream(cn)
      /\ UNCHANGED <<script, sinkGot, peer, mishaps>>
    BY DEF PumpLost, PumpRefused, AbortStream, Refuse, peerVars, marks
<1>3. cn'.sink = 0
    BY <1>0, <1>2, ConnFields, ClearTypes
<1>4. Framed' /\ Fresh'
    BY <1>2 DEF Framed, Fresh, Alive
<1>5. PICK why \in Reasons :
          /\ sinkTold' = [sinkTold EXCEPT ![cn.sink] = Append(@, why)]
          /\ why # "end"
          /\ why = "lost" => peer # "up"
  <2>1. CASE PumpLost
    BY <1>1, <2>1 DEF PumpLost, AbortStream, Tell, RecvEnds, Reasons
  <2>2. CASE PumpRefused
    BY <1>1, <2>2 DEF PumpRefused, AbortStream, Tell, Reasons
  <2>3. QED
    BY <2>1, <2>2
<1>6. SinkFed' /\ OwnBody' /\ ToldOnce'
    BY <1>1, <1>2, <1>3, <1>5, TellKeeps
<1>7. QED
    BY <1>4, <1>6 DEF SinkParts

\* The sink has the whole body, and the tail is the buffer again.
LEMMA PumpEndsKeeps ==
  ASSUME IInv, PumpEnds
  PROVE  SinkParts' /\ (Alive' => Cur' = Cur + 1)
<1>0. pc = "pump" /\ TypeOK
    BY DEF PumpEnds, IInv
<1>1. PICK i : i = cn.sink
    OBVIOUS
<1>2. /\ Alive /\ i \in Requests /\ i # 0 /\ Cur = i /\ i \in Nat
      /\ Ahead = cn.tail \o rx
      /\ BodyLen(script[i]) = script[i].body /\ script[i].body \in Nat
      /\ Len(sinkGot[i]) + cn.left = script[i].body /\ sinkGot[i] \in Units
    BY <1>0, <1>1, PumpFacts
<1>3. PICK c \in Conns :
         /\ Serve(c, i) /\ cn.left = 0
         /\ c.raw = IF Len(cn.tail) <= Cap THEN cn.tail ELSE <<>>
         /\ c.sink = 0
         /\ UNCHANGED <<script, next, peer, rx, status, sinkGot>>
         /\ sinkTold' = [sinkTold EXCEPT ![cn.sink] = Append(@, "end")]
    BY <1>1, PumpEndsParts
<1>4. cn'.raw = c.raw /\ cn'.sink = 0
    BY <1>3 DEF Serve, Conns
<1>5. mishaps \subseteq mishaps'
    BY DEF PumpEnds
<1>6. Len(sinkGot[i]) = BodyLen(script[i])
    BY <1>2, <1>3, LenProperties DEF Units
<1>7. "end" \in Reasons /\ "end" # "lost"
    BY DEF Reasons
<1>8. SinkFed' /\ OwnBody' /\ ToldOnce'
    BY <1>1, <1>2, <1>3, <1>4, <1>5, <1>6, <1>7, TellKeeps
<1>9. CASE Len(cn.tail) <= Cap
  <2>1. Ahead' = Ahead
    BY <1>2, <1>3, <1>4, <1>9 DEF Ahead
  <2>2. Chain(script, Ahead, next) /\ First(Ahead, next) = <<i + 1, 1>>
    BY <1>1, <1>2, <1>3 DEF IInv, Framed, Begins
  <2>3. First(Ahead', next') = <<i + 1, 1>> /\ Cur' = i + 1 /\ Requests' = Requests
    BY <1>3, <1>4, <2>1, <2>2 DEF Cur, Requests
  <2>4. Framed'
    BY <1>3, <1>4, <2>1, <2>2, <2>3 DEF Framed, Begins
  <2>5. Fresh'
    <3>1. ASSUME NEW j \in Requests, j > i + 1 \/ j = i + 1 PROVE sinkGot'[j] = <<>> /\ sinkTold'[j] = <<>>
      <4>1. j > i /\ j # i
        BY <1>0, <1>2, <3>1, ScriptFacts, SMTT(30) DEF Requests, TypeOK
      <4>2. sinkGot[j] = <<>> /\ sinkTold[j] = <<>>
        BY <1>2, <3>1, <4>1 DEF IInv, Fresh
      <4>3. sinkTold \in [Requests -> Seq(Reasons)]
        BY <1>0, ConnFields
      <4>4. QED
        BY <1>1, <1>3, <3>1, <4>1, <4>2, <4>3
    <3>2. QED
      BY <2>3, <3>1 DEF Fresh
  <2>6. QED
    BY <1>2, <1>8, <2>3, <2>4, <2>5 DEF SinkParts
<1>10. CASE ~(Len(cn.tail) <= Cap)
  <2>1. pc' = "dispose"
    BY <1>10 DEF PumpEnds
  <2>2. Framed' /\ Fresh' /\ ~Alive'
    BY <2>1 DEF Framed, Fresh, Alive
  <2>3. QED
    BY <1>8, <2>2 DEF SinkParts
<1>11. QED
    BY <1>9, <1>10
-----------------------------------------------------------------------------
(* The invariant is inductive, and the properties follow from it.            *)

LEMMA NextInv ==
  ASSUME IInv, OneCoding, [Next]_vars
  PROVE  IInv'
<1>1. SinkParts'
  <2>1. CASE QuietAction
    BY <2>1, QuietActions, QuietKeeps
  <2>2. CASE DrainExpired \/ Sweep \/ PollFails \/ Dispose
    BY <2>2, LeaveKeeps
  <2>3. CASE PeerSends
    BY <2>3, PeerSendsKeeps
  <2>4. CASE RecvInto
    BY <2>4, RecvIntoKeeps
  <2>5. CASE RouteSink
    BY <2>5, RouteSinkKeeps
  <2>6. CASE RouteServes
    BY <2>6, RouteServesKeeps
  <2>7. CASE PumpChunk
    BY <2>7, PumpChunkKeeps
  <2>8. CASE PumpLost \/ PumpRefused
    BY <2>8, PumpAbortKeeps
  <2>9. CASE PumpEnds
    BY <2>9, PumpEndsKeeps
  <2>10. QED
    BY <2>1, <2>2, <2>3, <2>4, <2>5, <2>6, <2>7, <2>8, <2>9
    DEF Next, Server, Loop, Buffer, Pump, World, QuietAction
<1>2. TypeOK' /\ Sent' /\ Places'
    BY TypeStep, SentStep, PlacesStep
<1>3. QED
    BY <1>1, <1>2 DEF IInv, SinkParts

\* While the connection is being served what is parsed begins with a head.
LEMMA InStepAlways ==
  ASSUME IInv
  PROVE  FramingHolds
<1>1. ASSUME pc \in {"parse", "route"}, cn.raw # <<>> PROVE InStep(cn)
  <2>1. Alive /\ cn.sink = 0
    BY <1>1 DEF IInv, Places, Alive
  <2>2. QED
    BY <1>1, <2>1, FrontFacts
<1>2. QED
    BY <1>1 DEF FramingHolds, IInv, OwnBody
-----------------------------------------------------------------------------
(* The responses. A sequence of reply units is in order when it opens with   *)
(* the first request's and each unit may follow the one before.              *)

Ends(sc, u)  == (u[2] = 1 => u[3] = sc[u[1]].resp) /\ (u[2] = 2 => u[3] = sc[u[1]].file)
Opens(u)     == u[1] = 1 /\ u[2] # 2 /\ u[3] = 1
Follows(sc, u, v) ==
    \/ v = <<u[1], u[2], u[3] + 1>>
    \/ /\ Ends(sc, u) /\ v[3] = 1 /\ u[2] # 3
       /\ LET more == u[2] = 1 /\ sc[u[1]].file > 0 IN
            \/ more /\ v[1] = u[1] /\ v[2] = 2
            \/ ~more /\ u[2] = 0 /\ v[1] = u[1] /\ v[2] \in {1, 3}
            \/ ~more /\ u[2] # 0 /\ v[1] = u[1] + 1 /\ v[2] # 2
Linked(sc, s)  == \A k \in 1 .. Len(s) - 1 : Follows(sc, s[k], s[k + 1])
Ordered(sc, s) == (s # <<>> => Opens(s[1])) /\ Linked(sc, s)
Tip(s)         == s[Len(s)]

LEMMA SameOrder ==
  /\ \A u : LastUnit(u) <=> Ends(script, u)
  /\ \A u, v : MayFollow(u, v) <=> Follows(script, u, v)
<1>1. ASSUME NEW u PROVE LastUnit(u) <=> Ends(script, u)
  <2>1. CASE u[2] = 1
    BY <2>1 DEF LastUnit, Ends
  <2>2. CASE u[2] = 2
    BY <2>2 DEF LastUnit, Ends
  <2>3. CASE u[2] # 1 /\ u[2] # 2
    BY <2>3 DEF LastUnit, Ends
  <2>4. QED
    BY <2>1, <2>2, <2>3
<1>2. ASSUME NEW u, NEW v PROVE MayFollow(u, v) <=> Follows(script, u, v)
    BY <1>1 DEF MayFollow, Follows
<1>3. QED
    BY <1>1, <1>2

LEMMA WireParts ==
  WireInOrder <=> ({"shrunk", "coding"} \cap mishaps = {} => Ordered(script, wire))
    BY SameOrder DEF WireInOrder, Ordered, Opens, Linked

LEMMA ReplyLen ==
  ASSUME NEW s \in Replies
  PROVE  Len(s) \in Nat /\ (s = <<>> <=> Len(s) = 0)
    BY LenProperties, EmptySeq DEF Replies

\* What concatenation gives, for replies.
LEMMA Joined ==
  ASSUME NEW a \in Replies, NEW b \in Replies
  PROVE  \E m \in Nat, n \in Nat :
            /\ m = Len(a) /\ n = Len(b)
            /\ a \o b \in Replies /\ Len(a \o b) = m + n
            /\ \A k \in 1 .. m : (a \o b)[k] = a[k]
            /\ \A k \in 1 .. n : (a \o b)[m + k] = b[k]
<1>1. PICK m \in Nat, n \in Nat : m = Len(a) /\ n = Len(b)
    BY ReplyLen
<1>2. PICK x : x = a \o b
    OBVIOUS
<1>3. x \in Replies /\ Len(x) = m + n
      /\ \A k \in 1 .. m + n : x[k] = IF k <= m THEN a[k] ELSE b[k - m]
    BY <1>1, <1>2, ConcatProps DEF Replies
<1>4. \A k \in 1 .. m : x[k] = a[k]
    BY <1>1, <1>3
<1>5. \A k \in 1 .. n : x[m + k] = b[k]
  <2>1. ASSUME NEW k \in 1 .. n PROVE x[m + k] = b[k]
    <3>1. PICK j \in 1 .. m + n : j = m + k
      BY <1>1, <2>1
    <3>2. ~(j <= m) /\ j - m = k
      BY <1>1, <2>1, <3>1
    <3>3. x[j] = b[j - m]
      BY <1>3, <3>1, <3>2
    <3>4. QED
      BY <3>1, <3>2, <3>3
  <2>2. QED
    BY <2>1
<1>6. QED
    BY <1>1, <1>2, <1>3, <1>4, <1>5

LEMMA OrderedPrefix ==
  ASSUME NEW sc, NEW a \in Replies, NEW b \in Replies, Ordered(sc, a \o b)
  PROVE  Ordered(sc, a)
<1>1. PICK m \in Nat, n \in Nat :
            /\ m = Len(a) /\ n = Len(b)
            /\ a \o b \in Replies /\ Len(a \o b) = m + n
            /\ \A k \in 1 .. m : (a \o b)[k] = a[k]
    BY Joined
<1>2. PICK x : x = a \o b
    OBVIOUS
<1>3. x \in Replies /\ Len(x) = m + n /\ (\A k \in 1 .. m : x[k] = a[k]) /\ Ordered(sc, x)
    BY <1>1, <1>2
<1>4. ASSUME a # <<>> PROVE Opens(a[1])
  <2>1. 1 \in 1 .. m /\ x # <<>>
    BY <1>1, <1>3, <1>4, ReplyLen
  <2>2. QED
    BY <1>3, <2>1 DEF Ordered
<1>5. ASSUME NEW k \in 1 .. m - 1 PROVE Follows(sc, a[k], a[k + 1])
  <2>1. k \in 1 .. m /\ k + 1 \in 1 .. m /\ k \in 1 .. (m + n) - 1
    BY <1>1, <1>5
  <2>2. Follows(sc, x[k], x[k + 1])
    BY <1>3, <2>1 DEF Ordered, Linked
  <2>3. QED
    BY <1>3, <2>1, <2>2
<1>6. QED
    BY <1>1, <1>4, <1>5 DEF Ordered, Linked

LEMMA OrderedJoin ==
  ASSUME NEW sc, NEW a \in Replies, NEW b \in Replies, Ordered(sc, a), Linked(sc, b), b # <<>>,
         IF a = <<>> THEN Opens(b[1]) ELSE Follows(sc, Tip(a), b[1])
  PROVE  Ordered(sc, a \o b) /\ a \o b # <<>> /\ Tip(a \o b) = Tip(b)
<1>1. PICK m \in Nat, n \in Nat :
            /\ m = Len(a) /\ n = Len(b)
            /\ a \o b \in Replies /\ Len(a \o b) = m + n
            /\ \A k \in 1 .. m : (a \o b)[k] = a[k]
            /\ \A k \in 1 .. n : (a \o b)[m + k] = b[k]
    BY Joined
<1>2. PICK x : x = a \o b
    OBVIOUS
<1>3. /\ x \in Replies /\ Len(x) = m + n /\ \A k \in 1 .. m : x[k] = a[k]
      /\ \A k \in 1 .. n : x[m + k] = b[k]
    BY <1>1, <1>2
<1>4. n >= 1 /\ (a = <<>> <=> m = 0)
    BY <1>1, ReplyLen
<1>5. x # <<>>
    BY <1>1, <1>3, <1>4
<1>6. Tip(x) = Tip(b)
  <2>1. n \in 1 .. n
    BY <1>4
  <2>2. QED
    BY <1>1, <1>3, <2>1 DEF Tip
<1>7. Opens(x[1])
  <2>1. CASE m = 0
    <3>1. 1 \in 1 .. n /\ m + 1 = 1
      BY <1>4, <2>1
    <3>2. x[1] = b[1]
      BY <1>3, <3>1
    <3>3. QED
      BY <1>4, <2>1, <3>2
  <2>2. CASE m # 0
    <3>1. 1 \in 1 .. m
      BY <2>2
    <3>2. QED
      BY <1>3, <1>4, <2>2, <3>1 DEF Ordered
  <2>3. QED
    BY <2>1, <2>2
<1>8. ASSUME NEW k \in 1 .. m + n - 1 PROVE Follows(sc, x[k], x[k + 1])
  <2>1. CASE k < m
    <3>1. k \in 1 .. m /\ k + 1 \in 1 .. m /\ k \in 1 .. m - 1
      BY <1>8, <2>1
    <3>2. Follows(sc, a[k], a[k + 1])
      BY <1>1, <3>1 DEF Ordered, Linked
    <3>3. QED
      BY <1>3, <3>1, <3>2
  <2>2. CASE k = m
    <3>1. m \in 1 .. m /\ 1 \in 1 .. n /\ a # <<>>
      BY <1>4, <1>8, <2>2
    <3>2. Follows(sc, a[m], b[1])
      BY <1>1, <3>1 DEF Tip
    <3>3. x[m] = a[m] /\ x[m + 1] = b[1]
      BY <1>3, <3>1
    <3>4. QED
      BY <2>2, <3>2, <3>3
  <2>3. CASE k > m
    <3>1. k - m \in 1 .. n - 1
      BY <1>8, <2>3
    <3>2. PICK j \in 1 .. n - 1 : j = k - m
      BY <3>1
    <3>3. PICK jj \in 1 .. n : jj = j + 1
      BY <3>2
    <3>4. m + j = k /\ m + jj = k + 1 /\ j \in 1 .. n
      BY <1>8, <3>2, <3>3
    <3>5. Follows(sc, b[j], b[jj])
      BY <1>1, <3>2, <3>3 DEF Linked
    <3>6. x[m + j] = b[j] /\ x[m + jj] = b[jj]
      BY <1>3, <3>4
    <3>7. QED
      BY <3>4, <3>5, <3>6
  <2>4. QED
    BY <1>8, <2>1, <2>2, <2>3
<1>9. Ordered(sc, x)
    BY <1>3, <1>7, <1>8 DEF Ordered, Linked
<1>10. QED
    BY <1>2, <1>5, <1>6, <1>9

\* s answers every request before c, and e says whether it ends with the interim
\* response of c.
At(sc, s, c, e) ==
    IF s = <<>> THEN c = 1 /\ ~e
    ELSE LET u == Tip(s) IN
         /\ Ends(sc, u) /\ u[2] # 3
         /\ IF u[2] = 0 THEN u[1] = c /\ e
            ELSE u[1] + 1 = c /\ ~e /\ (u[2] = 1 => sc[u[1]].file = 0)

\* What has been sent and what will be as soon as the socket takes it.
Pending == (wire \o cn.out) \o cn.file

Answered ==
    "shrunk" \notin mishaps =>
        /\ Ordered(script, wire)
        /\ Alive => Ordered(script, Pending) /\ At(script, Pending, Cur, cn.expectSent)

\* A message of the current request may come next.
LEMMA NextAnswer ==
  ASSUME NEW sc, NEW s \in Replies, NEW c, NEW e, At(sc, s, c, e),
         NEW v, v[1] = c, v[2] \in {0, 1, 3}, v[3] = 1, v[2] = 0 => ~e
  PROVE  IF s = <<>> THEN Opens(v) ELSE Follows(sc, Tip(s), v)
<1>1. CASE s = <<>>
    BY <1>1 DEF At, Opens
<1>2. CASE s # <<>>
  <2>1. PICK u : u = Tip(s)
    OBVIOUS
  <2>2. /\ Ends(sc, u) /\ u[2] # 3
        /\ IF u[2] = 0 THEN u[1] = c /\ e
           ELSE u[1] + 1 = c /\ ~e /\ (u[2] = 1 => sc[u[1]].file = 0)
    BY <1>2, <2>1 DEF At
  <2>3. ~(u[2] = 1 /\ sc[u[1]].file > 0)
    BY <2>2
  <2>4. CASE u[2] = 0
    <3>1. v[2] \in {1, 3} /\ v[1] = u[1]
      BY <2>2, <2>4
    <3>2. QED
      BY <1>2, <2>1, <2>2, <2>3, <2>4, <3>1 DEF Follows
  <2>5. CASE u[2] # 0
    <3>1. v[1] = u[1] + 1 /\ v[2] # 2
      BY <2>2, <2>5
    <3>2. QED
      BY <1>2, <2>1, <2>2, <2>3, <2>5, <3>1 DEF Follows
  <2>6. QED
    BY <2>4, <2>5
<1>3. QED
    BY <1>1, <1>2

LEMMA OneMessage ==
  ASSUME NEW sc, NEW s \in Replies, NEW c \in Nat, NEW e, Ordered(sc, s), At(sc, s, c, e),
         NEW j \in {0, 3}, j = 0 => ~e
  PROVE  /\ Append(s, <<c, j, 1>>) \in Replies
         /\ Ordered(sc, Append(s, <<c, j, 1>>))
         /\ Append(s, <<c, j, 1>>) # <<>> /\ Tip(Append(s, <<c, j, 1>>)) = <<c, j, 1>>
<1>1. PICK v, b : v = <<c, j, 1>> /\ b = <<v>>
    OBVIOUS
<1>2. v \in Nat \X (0 .. 3) \X Nat /\ v[1] = c /\ v[2] = j /\ v[3] = 1
    BY <1>1
<1>3. b \in Replies /\ Len(b) = 1 /\ b[1] = v /\ b # <<>>
    BY <1>1, <1>2 DEF Replies
<1>4. Append(s, v) = s \o b /\ Append(s, v) \in Replies
    BY <1>1, <1>2, AppendIsConcat, AppendProperties DEF Replies
<1>5. IF s = <<>> THEN Opens(v) ELSE Follows(sc, Tip(s), v)
    BY <1>2, NextAnswer
<1>6. Linked(sc, b)
    BY <1>3 DEF Linked
<1>7. Ordered(sc, s \o b) /\ s \o b # <<>> /\ Tip(s \o b) = Tip(b)
    BY <1>3, <1>5, <1>6, OrderedJoin
<1>8. Tip(b) = v
    BY <1>3 DEF Tip
<1>9. QED
    BY <1>1, <1>4, <1>7, <1>8, Zenon

LEMMA NothingPending ==
  ASSUME TypeOK, cn.out = <<>>, cn.file = <<>>
  PROVE  Pending = wire
<1>1. wire \in Replies
    BY ConnFields
<1>2. wire \o <<>> = wire
    BY <1>1, ConcatEmptySeq DEF Replies
<1>3. QED
    BY <1>2 DEF Pending

\* An error response stands for the current request's.
LEMMA ErrorAnswers ==
  ASSUME IInv, Answered, Alive, ~HasPending(cn), "shrunk" \notin mishaps, NEW i \in Nat, i = Cur,
         SendError(i)
  PROVE  Ordered(script, wire')
<1>1. wire \in Replies
    BY ConnFields DEF IInv
<1>2. Pending = wire
    BY NothingPending DEF IInv, HasPending
<1>3. Ordered(script, wire) /\ At(script, wire, i, cn.expectSent)
    BY <1>2 DEF Answered
<1>4. Ordered(script, Append(wire, <<i, 3, 1>>))
  <2>1. 3 \in {0, 3} /\ (3 = 0 => ~cn.expectSent)
    OBVIOUS
  <2>2. QED
    BY <1>1, <1>3, <2>1, OneMessage, Zenon
<1>5. wire' = wire \/ wire' = Append(wire, <<i, 3, 1>>)
    BY DEF SendError
<1>6. QED
    BY <1>3, <1>4, <1>5

\* serve_request() queues a whole response.
LEMMA ServeAnswers ==
  ASSUME IInv, Answered, Alive, ~HasPending(cn), "shrunk" \notin mishaps, NEW i \in Requests, i = Cur,
         NEW c \in Conns, Serve(c, i), c.out = <<>>, c.file = <<>>, wire' = wire, script' = script
  PROVE  /\ Ordered(script, Pending') /\ Pending' # <<>> /\ Tip(Pending')[1] = i
         /\ At(script, Pending', i + 1, cn'.expectSent)
<1>1. wire \in Replies /\ script \in Scripts
    BY ConnFields DEF IInv, TypeOK
<1>2. Pending = wire
    BY NothingPending DEF IInv, HasPending
<1>3. Ordered(script, wire) /\ At(script, wire, i, cn.expectSent)
    BY <1>2 DEF Answered
<1>4. PICK a, b, m, n : a = Reply(i) /\ b = FileBody(i) /\ m = script[i].resp /\ n = script[i].file
    OBVIOUS
<1>5. /\ a \in Replies /\ Len(a) = m /\ b \in Replies /\ Len(b) = n
      /\ \A k \in 1 .. m : a[k] = <<i, 1, k>>
      /\ \A k \in 1 .. n : b[k] = <<i, 2, k>>
      /\ m \in Nat \ {0} /\ n \in Nat
    BY <1>1, <1>4, ReplyTypes
<1>6. cn'.out = a /\ cn'.file = (IF n > 0 THEN b ELSE <<>>) /\ ~cn'.expectSent
  <2>1. <<>> \o a = a
    BY <1>5, ConcatEmptySeq DEF Replies
  <2>2. cn'.out = <<>> \o a /\ cn'.file = (IF n > 0 THEN b ELSE <<>>) /\ ~cn'.expectSent
    BY <1>4 DEF Serve, Conns
  <2>3. QED
    BY <2>1, <2>2
<1>7. Linked(script, a)
  <2>1. ASSUME NEW k \in 1 .. m - 1 PROVE Follows(script, a[k], a[k + 1])
    <3>1. k \in 1 .. m /\ k + 1 \in 1 .. m
      BY <1>5, <2>1
    <3>2. a[k] = <<i, 1, k>> /\ a[k + 1] = <<i, 1, k + 1>>
      BY <1>5, <3>1
    <3>3. QED
      BY <3>2 DEF Follows
  <2>2. QED
    BY <1>5, <2>1 DEF Linked
<1>8. Linked(script, b)
  <2>1. ASSUME NEW k \in 1 .. n - 1 PROVE Follows(script, b[k], b[k + 1])
    <3>1. k \in 1 .. n /\ k + 1 \in 1 .. n
      BY <1>5, <2>1
    <3>2. b[k] = <<i, 2, k>> /\ b[k + 1] = <<i, 2, k + 1>>
      BY <1>5, <3>1
    <3>3. QED
      BY <3>2 DEF Follows
  <2>2. QED
    BY <1>5, <2>1 DEF Linked
<1>9. a # <<>> /\ a[1] = <<i, 1, 1>> /\ Tip(a) = <<i, 1, m>>
    BY <1>5 DEF Tip
<1>10. PICK w : w = wire \o a
    OBVIOUS
<1>11. w \in Replies /\ Ordered(script, w) /\ w # <<>> /\ Tip(w) = <<i, 1, m>>
  <2>1. PICK v : v = <<i, 1, 1>>
    OBVIOUS
  <2>2. v[1] = i /\ v[2] \in {0, 1, 3} /\ v[3] = 1 /\ (v[2] = 0 => ~cn.expectSent)
    BY <2>1
  <2>3. IF wire = <<>> THEN Opens(a[1]) ELSE Follows(script, Tip(wire), a[1])
    BY <1>1, <1>3, <1>9, <2>1, <2>2, NextAnswer
  <2>4. Ordered(script, wire \o a) /\ wire \o a # <<>> /\ Tip(wire \o a) = Tip(a)
    BY <1>1, <1>3, <1>5, <1>7, <1>9, <2>3, OrderedJoin
  <2>5. wire \o a \in Replies
    BY <1>1, <1>5, Joined
  <2>6. QED
    BY <1>9, <1>10, <2>4, <2>5
<1>12. Ends(script, <<i, 1, m>>) /\ (n > 0 => Ends(script, <<i, 2, n>>))
    BY <1>4 DEF Ends
<1>13. CASE n > 0
  <2>1. Pending' = w \o b
    BY <1>6, <1>10, <1>13 DEF Pending
  <2>2. b # <<>> /\ b[1] = <<i, 2, 1>> /\ Tip(b) = <<i, 2, n>>
    BY <1>5, <1>13 DEF Tip
  <2>3. Follows(script, Tip(w), b[1])
    BY <1>4, <1>11, <1>12, <1>13, <2>2 DEF Follows
  <2>4. Ordered(script, w \o b) /\ w \o b # <<>> /\ Tip(w \o b) = <<i, 2, n>>
    BY <1>5, <1>8, <1>11, <2>2, <2>3, OrderedJoin
  <2>5. At(script, w \o b, i + 1, cn'.expectSent) /\ Tip(w \o b)[1] = i
    BY <1>6, <1>12, <1>13, <2>4 DEF At
  <2>6. QED
    BY <2>1, <2>4, <2>5, Zenon
<1>14. CASE ~(n > 0)
  <2>1. w \o <<>> = w
    BY <1>11, ConcatEmptySeq DEF Replies
  <2>2. Pending' = w
    BY <1>6, <1>10, <1>14, <2>1 DEF Pending
  <2>3. script[i].file = 0
    BY <1>4, <1>5, <1>14
  <2>4. At(script, w, i + 1, cn'.expectSent) /\ Tip(w)[1] = i
    BY <1>6, <1>11, <1>12, <2>3 DEF At
  <2>5. QED
    BY <1>11, <2>2, <2>4, Zenon
<1>15. QED
    BY <1>13, <1>14

LEMMA InitAnswered ==
  ASSUME Init
  PROVE  Answered
<1>1. cn.out = <<>> /\ cn.file = <<>> /\ cn.sink = 0 /\ cn.raw = <<>> /\ rx = <<>> /\ wire = <<>>
      /\ ~cn.expectSent
    BY DEF Init, NewConn
<1>2. Pending = <<>>
    BY <1>1, InitTypes, NothingPending
<1>3. Cur = 1
    BY <1>1 DEF Cur, Ahead, First, Init
<1>4. Ordered(script, <<>>)
    BY DEF Ordered, Linked
<1>5. At(script, Pending, Cur, cn.expectSent)
    BY <1>1, <1>2, <1>3 DEF At
<1>6. QED
    BY <1>1, <1>2, <1>4, <1>5 DEF Answered

LEMMA AnsweredSame ==
  ASSUME IInv, Answered, UNCHANGED <<script, wire>>, mishaps \subseteq mishaps',
         Alive' => /\ Alive /\ Cur' = Cur /\ cn'.out = cn.out /\ cn'.file = cn.file
                   /\ cn'.expectSent = cn.expectSent
  PROVE  Answered'
<1>1. CASE "shrunk" \in mishaps'
    BY <1>1 DEF Answered
<1>2. CASE "shrunk" \notin mishaps'
  <2>1. "shrunk" \notin mishaps
    BY <1>2
  <2>2. Ordered(script, wire) /\ (Alive => Ordered(script, Pending) /\ At(script, Pending, Cur, cn.expectSent))
    BY <2>1 DEF Answered
  <2>3. Alive' => Pending' = Pending
    BY DEF Pending
  <2>4. QED
    BY <1>2, <2>2, <2>3 DEF Answered
<1>3. QED
    BY <1>1, <1>2

LEMMA AnsweredError ==
  ASSUME IInv, Answered, Alive, ~HasPending(cn), NEW i \in Nat, i = Cur, SendError(i),
         script' = script, mishaps \subseteq mishaps', pc' = "dispose"
  PROVE  Answered'
<1>1. CASE "shrunk" \in mishaps'
    BY <1>1 DEF Answered
<1>2. CASE "shrunk" \notin mishaps'
  <2>1. "shrunk" \notin mishaps
    BY <1>2
  <2>2. Ordered(script, wire')
    BY <2>1, ErrorAnswers
  <2>3. QED
    BY <2>2 DEF Answered, Alive
<1>3. QED
    BY <1>1, <1>2

\* Part of what is pending is sent.
LEMMA AnsweredFlush ==
  ASSUME IInv, Answered, FlushSend \/ FlushFile
  PROVE  Answered' /\ Pending' = Pending
<1>0. TypeOK /\ status = "open" /\ pc = "flush"
    BY DEF IInv, Places, FlushSend, FlushFile
<1>1. /\ UNCHANGED <<script, mishaps, status, pc>>
    BY DEF FlushSend, FlushFile, peerVars, marks
<1>2. Cur' = Cur /\ Alive
  <2>1. QuietAction
    BY DEF QuietAction, Flush
  <2>2. QED
    BY <1>0, <2>1, QuietActions, QuietKeeps DEF Alive
<1>3. wire \in Replies /\ cn.out \in Replies /\ cn.file \in Replies /\ cn \in Conns
    BY <1>0, ConnFields
<1>4. /\ Pending' = Pending /\ cn'.expectSent = cn.expectSent
      /\ wire' \in Replies /\ cn'.out \in Replies /\ cn'.file \in Replies
  <2>1. CASE FlushSend
    <3>1. PICK n, w, d : n = Least(room, Len(cn.out)) /\ w = wire \o Take(cn.out, n) /\ d = Drop(cn.out, n)
      OBVIOUS
    <3>2. wire' = w /\ cn' = [cn EXCEPT !.out = d]
      BY <2>1, <3>1 DEF FlushSend
    <3>3. w \in Replies /\ d \in Replies /\ w \o d = wire \o cn.out
      BY <1>0, <1>3, <3>1, SentPart
    <3>4. cn'.out = d /\ cn'.file = cn.file /\ cn'.expectSent = cn.expectSent
      BY <1>3, <3>2 DEF Conns
    <3>5. QED
      BY <1>3, <3>2, <3>3, <3>4 DEF Pending
  <2>2. CASE FlushFile
    <3>1. PICK n, w, d : n = Least(room, Len(cn.file)) /\ w = wire \o Take(cn.file, n) /\ d = Drop(cn.file, n)
      OBVIOUS
    <3>2. wire' = w /\ cn' = [cn EXCEPT !.file = d] /\ cn.out = <<>>
      BY <2>2, <3>1 DEF FlushFile
    <3>3. w \in Replies /\ d \in Replies /\ w \o d = wire \o cn.file
      BY <1>0, <1>3, <3>1, SentPart
    <3>4. cn'.out = <<>> /\ cn'.file = d /\ cn'.expectSent = cn.expectSent
      BY <1>3, <3>2 DEF Conns
    <3>5. w \o <<>> = w /\ wire \o <<>> = wire
      BY <1>3, <3>3, ConcatEmptySeq DEF Replies
    <3>6. QED
      BY <1>3, <3>2, <3>3, <3>4, <3>5 DEF Pending
  <2>3. QED
    BY <2>1, <2>2
<1>5. CASE "shrunk" \in mishaps
    BY <1>1, <1>4, <1>5 DEF Answered
<1>6. CASE "shrunk" \notin mishaps
  <2>1. Ordered(script, Pending) /\ At(script, Pending, Cur, cn.expectSent)
    BY <1>2, <1>6 DEF Answered
  <2>2. PICK w, o, f : w = wire' /\ o = cn'.out /\ f = cn'.file
    OBVIOUS
  <2>3. w \in Replies /\ o \in Replies /\ f \in Replies /\ w \o o \in Replies
    BY <1>4, <2>2, Joined
  <2>4. Ordered(script, (w \o o) \o f)
    BY <1>4, <2>1, <2>2 DEF Pending
  <2>5. Ordered(script, w \o o)
    BY <2>3, <2>4, OrderedPrefix
  <2>6. Ordered(script, w)
    BY <2>3, <2>5, OrderedPrefix
  <2>7. QED
    BY <1>1, <1>2, <1>4, <2>1, <2>2, <2>6 DEF Answered
<1>7. QED
    BY <1>4, <1>5, <1>6

\* "100 Continue" is queued once for the current request.
LEMMA AnsweredInterim ==
  ASSUME IInv, Answered, ParseInterim
  PROVE  Answered'
<1>0. TypeOK /\ pc = "parse" /\ status = "open" /\ cn.sink = 0 /\ cn.raw # <<>> /\ ~HasPending(cn)
      /\ ~cn.expectSent
    BY DEF IInv, Places, ParseInterim, HeadDone
<1>1. PICK i : i = Front(cn)
    OBVIOUS
<1>2. Alive /\ i \in Requests /\ Cur = i /\ cn.out = <<>> /\ cn.file = <<>>
    BY <1>0, <1>1, FrontFacts DEF Alive, HasPending
<1>3. i \in Nat /\ wire \in Replies /\ cn \in Conns
    BY <1>0, <1>2, ScriptFacts, ConnFields DEF TypeOK, Requests
<1>4. Cur' = Cur
  <2>1. QuietAction
    BY DEF QuietAction
  <2>2. QED
    BY <2>1, QuietActions, QuietKeeps
<1>5. PICK v : v = <<i, 0, 1>>
    OBVIOUS
<1>6. /\ cn'.out = Append(<<>>, v) /\ cn'.file = <<>> /\ cn'.expectSent
      /\ UNCHANGED <<script, wire>> /\ ("shrunk" \in mishaps' <=> "shrunk" \in mishaps)
    BY <1>1, <1>2, <1>3, <1>5 DEF ParseInterim, Accepting, Conns, peerVars, sockVars
<1>7. CASE "shrunk" \in mishaps
    BY <1>6, <1>7 DEF Answered
<1>8. CASE "shrunk" \notin mishaps
  <2>1. Pending = wire
    BY <1>0, <1>2, NothingPending
  <2>2. Ordered(script, wire) /\ At(script, wire, i, cn.expectSent)
    BY <1>2, <1>8, <2>1 DEF Answered
  <2>3. PICK x : x = Append(wire, v)
    OBVIOUS
  <2>4. x \in Replies /\ Ordered(script, x) /\ x # <<>> /\ Tip(x) = v
    <3>1. PICK j \in {0, 3} : j = 0
      OBVIOUS
    <3>2. j = 0 => ~cn.expectSent
      BY <1>0
    <3>3. /\ Append(wire, <<i, j, 1>>) \in Replies
          /\ Ordered(script, Append(wire, <<i, j, 1>>))
          /\ Append(wire, <<i, j, 1>>) # <<>> /\ Tip(Append(wire, <<i, j, 1>>)) = <<i, j, 1>>
      BY <1>3, <2>2, <3>2, OneMessage, Zenon
    <3>4. QED
      BY <1>5, <2>3, <3>1, <3>3, Zenon
  <2>5. Pending' = x
    <3>1. Append(<<>>, v) = <<v>>
      OBVIOUS
    <3>2. Append(wire, v) = wire \o <<v>>
      <4>1. v \in Nat \X (0 .. 3) \X Nat
        BY <1>3, <1>5
      <4>2. QED
        BY <1>3, <4>1, AppendIsConcat DEF Replies
    <3>3. x \o <<>> = x
      BY <2>4, ConcatEmptySeq DEF Replies
    <3>4. QED
      BY <1>6, <2>3, <3>1, <3>2, <3>3 DEF Pending
  <2>6. At(script, x, i, cn'.expectSent)
    BY <1>5, <1>6, <2>4 DEF At, Ends
  <2>7. QED
    BY <1>2, <1>4, <1>6, <2>2, <2>4, <2>5, <2>6 DEF Answered
<1>9. QED
    BY <1>7, <1>8

\* Steps that neither send nor queue anything and leave the current request.
StillAction ==
    \/ Drain \/ DrainDone \/ Wait \/ WaitReturns \/ Accept \/ Drive \/ Rearm
    \/ FlushBlocks \/ FlushFails \/ Flushed
    \/ Recv \/ Parse \/ RouteWaits \/ PumpWaits
    \/ PeerReads \/ PeerEnds \/ PeerResets \/ DeadlinePasses \/ BudgetPasses
    \/ Returned \/ UNCHANGED vars

LEMMA AnsweredStill ==
  ASSUME IInv, Answered, StillAction
  PROVE  Answered'
<1>0. cn \in Conns /\ Places
    BY ConnFields DEF IInv
<1>1. QuietAction
    BY DEF StillAction, QuietAction, Flush
<1>2. Cur' = Cur /\ (Alive' => Alive) /\ mishaps \subseteq mishaps' /\ script' = script
    BY <1>1, QuietActions, QuietKeeps DEF Quiet
<1>3. /\ wire' = wire /\ cn'.out = cn.out /\ cn'.file = cn.file
      /\ cn'.expectSent = cn.expectSent
  <2>1. CASE Drain \/ DrainDone \/ Wait \/ WaitReturns \/ Drive
    BY <2>1 DEF Drain, DrainDone, Wait, WaitReturns, Drive, sockVars
  <2>2. CASE Accept
    BY <1>0, <2>2 DEF Accept, Places, sockVars
  <2>3. CASE Rearm
    BY <1>0, <2>3 DEF Rearm, Conns, sockVars
  <2>4. CASE FlushBlocks \/ FlushFails \/ Flushed
    BY <2>4 DEF FlushBlocks, FlushFails, Flushed, sockVars
  <2>5. CASE Recv \/ Parse \/ RouteWaits \/ PumpWaits
    BY <2>5 DEF Recv, Parse, RouteWaits, PumpWaits, sockVars
  <2>6. CASE PeerReads \/ PeerEnds \/ PeerResets \/ DeadlinePasses \/ BudgetPasses \/ Returned \/ UNCHANGED vars
    BY <2>6 DEF PeerReads, PeerEnds, PeerResets, DeadlinePasses, BudgetPasses, Returned, vars, env, sockVars
  <2>7. QED
    BY <2>1, <2>2, <2>3, <2>4, <2>5, <2>6 DEF StillAction
<1>4. QED
    BY <1>2, <1>3, AnsweredSame

LEMMA AnsweredMoves ==
  ASSUME IInv, Answered,
         PeerSends \/ RecvInto \/ DrainExpired \/ Sweep \/ PollFails \/ Dispose \/ PumpLost
  PROVE  Answered'
<1>0. cn \in Conns
    BY ConnFields DEF IInv
<1>1. CASE PeerSends
  <2>1. UNCHANGED <<script, wire, cn, mishaps>>
    BY <1>1 DEF PeerSends, marks
  <2>2. Alive' => Alive /\ Cur' = Cur
    BY <1>1, PeerSendsKeeps
  <2>3. QED
    BY <2>1, <2>2, AnsweredSame
<1>2. CASE RecvInto
  <2>1. /\ UNCHANGED <<script, wire, mishaps>> /\ cn'.out = cn.out /\ cn'.file = cn.file
        /\ cn'.expectSent = cn.expectSent
    BY <1>0, <1>2 DEF RecvInto, Conns, peerVars, marks
  <2>2. Alive /\ Cur' = Cur
    BY <1>2, RecvIntoKeeps
  <2>3. QED
    BY <2>1, <2>2, AnsweredSame
<1>3. CASE DrainExpired \/ Sweep \/ PollFails \/ Dispose
  <2>1. UNCHANGED <<script, wire>> /\ mishaps \subseteq mishaps'
    BY <1>3 DEF DrainExpired, Sweep, PollFails, Dispose, peerVars, sockVars, marks
  <2>2. Alive' => Alive /\ cn' = cn /\ Cur' = Cur
    BY <1>3, LeaveKeeps
  <2>3. QED
    BY <2>1, <2>2, AnsweredSame
<1>4. CASE PumpLost
  <2>1. UNCHANGED <<script, wire, mishaps>> /\ ~Alive'
    BY <1>4 DEF PumpLost, Alive, peerVars, sockVars, marks
  <2>2. QED
    BY <2>1, AnsweredSame
<1>5. QED
    BY <1>1, <1>2, <1>3, <1>4

LEMMA AnsweredRefuse ==
  ASSUME IInv, OneCoding, Answered, RecvOverflows \/ ParseFails \/ RouteTooLarge \/ PumpRefused
  PROVE  Answered'
<1>0. TypeOK /\ script \in Scripts /\ pc \in {"recv", "parse", "route", "pump"}
    BY DEF IInv, TypeOK, RecvOverflows, ParseFails, RouteTooLarge, PumpRefused
<1>1. Alive /\ ~HasPending(cn)
    BY <1>0 DEF IInv, Places, Alive
<1>2. UNCHANGED <<script, mishaps>> /\ pc' = "dispose"
    BY DEF RecvOverflows, ParseFails, RouteTooLarge, PumpRefused, Refuse, peerVars, marks
<1>3. \E i \in Nat : i = Cur /\ SendError(i)
  <2>1. CASE RecvOverflows
    <3>1. PICK a : a = cn.raw \o rx
      OBVIOUS
    <3>2. rx # <<>> /\ SendError(a[1][1]) /\ cn.sink = 0
      BY <2>1, <3>1 DEF RecvOverflows, RecvData, Refuse, IInv, Places
    <3>3. /\ a \in Units /\ Len(a) = Len(cn.raw) + Len(rx) /\ Len(cn.raw) \in Nat
          /\ Len(rx) \in Nat \ {0}
      BY <1>0, <3>1, <3>2, ConnFields, ConcatProperties, LenProperties, EmptySeq DEF Units
    <3>4. a[1] \in Nat \X Nat /\ a # <<>>
      BY <3>3, ElementOfSeq DEF Units
    <3>5. a[1][1] \in Nat
      BY <3>4
    <3>6. Cur = a[1][1]
      BY <3>1, <3>2, <3>4 DEF Cur, Ahead, First
    <3>7. QED
      BY <3>2, <3>5, <3>6
  <2>2. CASE ParseFails
    <3>1. cn.raw # <<>> /\ SendError(Front(cn)) /\ pc = "parse" /\ cn.sink = 0
      BY <2>2 DEF ParseFails, Refuse, IInv, Places
    <3>2. Front(cn) \in Requests /\ Cur = Front(cn)
      BY <1>1, <3>1, FrontFacts
    <3>3. QED
      BY <1>0, <3>1, <3>2, ScriptFacts DEF Requests
  <2>3. CASE RouteTooLarge
    <3>1. SendError(Front(cn)) /\ pc = "route"
      BY <2>3 DEF RouteTooLarge, Refuse
    <3>2. Front(cn) \in Requests /\ Cur = Front(cn)
      BY <3>1, RouteFacts
    <3>3. QED
      BY <1>0, <3>1, <3>2, ScriptFacts DEF Requests
  <2>4. CASE PumpRefused
    <3>1. SendError(cn.sink) /\ pc = "pump"
      BY <2>4 DEF PumpRefused, Refuse
    <3>2. cn.sink \in Nat /\ Cur = cn.sink
      BY <3>1, PumpFacts
    <3>3. QED
      BY <3>1, <3>2
  <2>5. QED
    BY <2>1, <2>2, <2>3, <2>4
<1>4. QED
    BY <1>1, <1>2, <1>3, AnsweredError

\* feed_sink() goes on with the same request, or refuses it.
LEMMA AnsweredFeed ==
  ASSUME IInv, Answered, Alive, ~HasPending(cn), NEW c \in Conns, NEW chunk, Feed(c, chunk),
         c.sink \in Nat, c.sink = Cur, UNCHANGED <<script, mishaps>>, Alive' => Cur' = Cur,
         c.out = cn.out, c.file = cn.file, c.expectSent = cn.expectSent
  PROVE  Answered'
<1>1. CASE cn' = c /\ UNCHANGED wire
    BY <1>1, AnsweredSame
<1>2. CASE SendError(c.sink) /\ pc' = "dispose"
    BY <1>2, AnsweredError
<1>3. QED
    BY <1>1, <1>2 DEF Feed

LEMMA AnsweredSinks ==
  ASSUME IInv, OneCoding, Answered, RouteSink \/ PumpChunk
  PROVE  Answered'
<1>1. CASE RouteSink
  <2>1. pc = "route" /\ script \in Scripts
    BY <1>1 DEF RouteSink, IInv, TypeOK
  <2>2. Alive /\ ~HasPending(cn) /\ Front(cn) = Cur /\ Front(cn) \in Requests
    BY <2>1, RouteFacts DEF HasPending
  <2>3. Front(cn) \in Nat
    BY <2>1, <2>2, ScriptFacts DEF Requests
  <2>4. PICK c \in Conns, first \in Units :
            /\ Feed(c, first) /\ UNCHANGED <<script, mishaps>> /\ c.sink = Front(cn)
            /\ c.out = cn.out /\ c.file = cn.file /\ c.expectSent = cn.expectSent
    BY <1>1, RouteSinkParts
  <2>5. Alive' => Cur' = Cur
    BY <1>1, RouteSinkKeeps
  <2>6. QED
    BY <2>2, <2>3, <2>4, <2>5, AnsweredFeed
<1>2. CASE PumpChunk
  <2>1. pc = "pump"
    BY <1>2 DEF PumpChunk
  <2>2. Alive /\ ~HasPending(cn) /\ cn.sink = Cur /\ cn.sink \in Nat
    BY <2>1, PumpFacts DEF HasPending
  <2>3. PICK c \in Conns, chunk \in Units :
            /\ Feed(c, chunk) /\ UNCHANGED <<script, mishaps>> /\ c.sink = cn.sink
            /\ c.out = cn.out /\ c.file = cn.file /\ c.expectSent = cn.expectSent
    BY <1>2, PumpChunkParts
  <2>4. Alive' => Cur' = Cur
    BY <1>2, PumpChunkKeeps
  <2>5. QED
    BY <2>2, <2>3, <2>4, AnsweredFeed
<1>3. QED
    BY <1>1, <1>2

LEMMA AnsweredServes ==
  ASSUME IInv, OneCoding, Answered, RouteServes \/ PumpEnds
  PROVE  /\ Answered'
         /\ "shrunk" \notin mishaps /\ pc' = "flush" => Pending' # <<>> /\ Tip(Pending')[1] = Cur
<1>1. CASE RouteServes
  <2>1. pc = "route" /\ script \in Scripts
    BY <1>1 DEF RouteServes, IInv, TypeOK
  <2>2. PICK i : i = Front(cn)
    OBVIOUS
  <2>3. Alive /\ ~HasPending(cn) /\ i = Cur /\ i \in Requests
    BY <2>1, <2>2, RouteFacts DEF HasPending
  <2>4. PICK c \in Conns :
         /\ Serve(c, i) /\ c.out = <<>> /\ c.file = <<>>
         /\ UNCHANGED <<script, wire, mishaps>>
    BY <1>1, <2>2, RouteServesParts
  <2>5. Cur' = Cur + 1
    BY <1>1, RouteServesKeeps
  <2>6. CASE "shrunk" \in mishaps
    BY <2>4, <2>6 DEF Answered
  <2>7. CASE "shrunk" \notin mishaps
    <3>1. /\ Ordered(script, Pending') /\ Pending' # <<>> /\ Tip(Pending')[1] = i
          /\ At(script, Pending', i + 1, cn'.expectSent)
      BY <2>3, <2>4, <2>7, ServeAnswers
    <3>2. Ordered(script, wire)
      BY <2>7 DEF Answered
    <3>3. QED
      BY <2>3, <2>4, <2>5, <3>1, <3>2 DEF Answered
  <2>8. QED
    BY <2>6, <2>7
<1>2. CASE PumpEnds
  <2>1. pc = "pump"
    BY <1>2 DEF PumpEnds
  <2>2. PICK i : i = cn.sink
    OBVIOUS
  <2>3. Alive /\ ~HasPending(cn) /\ i = Cur /\ i \in Requests /\ i \in Nat
    BY <2>1, <2>2, PumpFacts DEF HasPending
  <2>4. PICK c \in Conns :
         /\ Serve(c, i) /\ c.out = <<>> /\ c.file = <<>> /\ script' = script
    BY <1>2, <2>2, PumpEndsParts
  <2>5. mishaps \subseteq mishaps' /\ ("shrunk" \in mishaps' <=> "shrunk" \in mishaps)
    BY <1>2 DEF PumpEnds
  <2>6. CASE "shrunk" \in mishaps
    BY <2>5, <2>6 DEF Answered
  <2>7. CASE Len(cn.tail) <= Cap /\ "shrunk" \notin mishaps
    <3>1. UNCHANGED wire /\ pc' = "flush"
      BY <1>2, <2>7 DEF PumpEnds
    <3>2. /\ Ordered(script, Pending') /\ Pending' # <<>> /\ Tip(Pending')[1] = i
          /\ At(script, Pending', i + 1, cn'.expectSent)
      BY <2>3, <2>4, <2>7, <3>1, ServeAnswers
    <3>3. Ordered(script, wire)
      BY <2>7 DEF Answered
    <3>4. Alive' => Cur' = Cur + 1
      BY <1>2, PumpEndsKeeps
    <3>5. QED
      BY <2>3, <2>4, <3>1, <3>2, <3>3, <3>4 DEF Answered
  <2>8. CASE ~(Len(cn.tail) <= Cap)
    <3>1. pc' = "dispose" /\ SendError(i)
      BY <1>2, <2>2, <2>8 DEF PumpEnds
    <3>2. Answered'
      BY <2>3, <2>4, <2>5, <3>1, AnsweredError
    <3>3. QED
      BY <3>1, <3>2
  <2>9. QED
    BY <2>6, <2>7, <2>8
<1>3. QED
    BY <1>1, <1>2

LEMMA AnsweredStep ==
  ASSUME IInv, OneCoding, Answered, [Next]_vars
  PROVE  Answered'
<1>1. CASE StillAction
    BY <1>1, AnsweredStill
<1>2. CASE PeerSends \/ RecvInto \/ DrainExpired \/ Sweep \/ PollFails \/ Dispose \/ PumpLost
    BY <1>2, AnsweredMoves
<1>3. CASE RecvOverflows \/ ParseFails \/ RouteTooLarge \/ PumpRefused
    BY <1>3, AnsweredRefuse
<1>4. CASE RouteSink \/ PumpChunk
    BY <1>4, AnsweredSinks
<1>5. CASE RouteServes \/ PumpEnds
    BY <1>5, AnsweredServes
<1>6. CASE ParseInterim
    BY <1>6, AnsweredInterim
<1>7. CASE FlushSend \/ FlushFile
    BY <1>7, AnsweredFlush
<1>8. CASE FlushFileEnds
    BY <1>8 DEF FlushFileEnds, Answered
<1>9. QED
    BY <1>1, <1>2, <1>3, <1>4, <1>5, <1>6, <1>7, <1>8
    DEF Next, Server, Loop, Flush, Buffer, Pump, World, StillAction
-----------------------------------------------------------------------------
(* How a connection ends, and what waits in the buffer. While the socket     *)
(* keeps up, a response that ends the connection is flushed on the spot.     *)

Smooth == mishaps \cap {"backed", "tail", "shrunk"} = {}
Final  == pc = "flush" /\ ret \in {"buffered", "stream"}

EndKnown ==
    /\ status = "none" => last = 0
    /\ status = "open" /\ last # 0 => pc = "dispose" \/ (Final /\ (cn.upgrade \/ ~keep))

Delivered == wire # <<>> /\ Ends(script, Tip(wire)) /\ Tip(wire)[1] = last
Upgraded ==
    /\ cn.upgrade => last # 0 /\ script[last].upgrade
    /\ cn.upgrade /\ Alive => Pending # <<>> /\ Tip(Pending)[1] = last
    /\ cn.upgrade /\ pc = "dispose" /\ peer # "reset" => Delivered
    /\ status = "handed" /\ peer # "reset" => Delivered /\ script[last].upgrade

NoneWhole ==
    cn.sink = 0 /\ (pc \in {"rearm", "top", "wait", "recv"} \/ (pc = "flush" /\ ret \in {"start", "interim"}))
        => ~Whole(cn)

Parted == Smooth => EndKnown /\ Upgraded /\ NoneWhole

LEMMA SameWhole ==
  ASSUME script' = script, cn'.raw = cn.raw
  PROVE  Whole(cn)' <=> Whole(cn)
    BY DEF Whole, HeadDone, Front

LEMMA NewNotWhole ==
  ASSUME cn = NewConn
  PROVE  ~Whole(cn) /\ ~cn.upgrade /\ cn.sink = 0
    BY DEF Whole, HeadDone, NewConn

LEMMA InitParted ==
  ASSUME Init
  PROVE  Parted
<1>1. ~Whole(cn) /\ ~cn.upgrade
    BY NewNotWhole DEF Init
<1>2. QED
    BY <1>1 DEF Init, Parted, EndKnown, Upgraded, NoneWhole

\* Before a response that ends the connection there is nothing to hand over.
LEMMA PartedEarly ==
  ASSUME IInv, Parted, Smooth, status = "open", pc # "dispose", ~Final
  PROVE  last = 0 /\ ~cn.upgrade
    BY DEF Parted, EndKnown, Upgraded

LEMMA PartedPlain ==
  ASSUME last' = 0, ~cn'.upgrade, status' # "handed", NoneWhole'
  PROVE  Parted'
    BY DEF Parted, EndKnown, Upgraded

LEMMA PartedWorld ==
  ASSUME IInv, Parted, World \/ Returned \/ UNCHANGED vars
  PROVE  Parted'
<1>1. /\ UNCHANGED <<script, cn, status, pc, ret, keep, wire, last, mishaps>>
      /\ peer = "reset" => peer' = "reset"
    BY DEF World, PeerSends, PeerReads, PeerEnds, PeerResets, DeadlinePasses, BudgetPasses, env,
           Returned, vars, peerVars, sockVars, locals, marks
<1>2. CASE ~Smooth
    BY <1>1, <1>2 DEF Parted, Smooth
<1>3. CASE Smooth
  <2>1. EndKnown /\ Upgraded /\ NoneWhole
    BY <1>3 DEF Parted
  <2>2. EndKnown'
    BY <1>1, <2>1 DEF EndKnown, Final
  <2>3. (Alive' <=> Alive) /\ Pending' = Pending /\ (Delivered' <=> Delivered)
    BY <1>1 DEF Alive, Pending, Delivered
  <2>4. Upgraded'
    BY <1>1, <2>1, <2>3 DEF Upgraded
  <2>5. NoneWhole'
    BY <1>1, <2>1, SameWhole DEF NoneWhole
  <2>6. QED
    BY <2>2, <2>4, <2>5 DEF Parted
<1>4. QED
    BY <1>2, <1>3

LEMMA PartedRound ==
  ASSUME IInv, Parted, Drain \/ DrainDone \/ Wait \/ WaitReturns \/ Accept \/ Drive \/ Rearm
  PROVE  Parted'
<1>0. TypeOK /\ Places /\ cn \in Conns /\ pc \in {"top", "wait", "rearm"}
    BY ConnFields DEF IInv, Drain, DrainDone, Wait, WaitReturns, Accept, Drive, Rearm
<1>1. UNCHANGED <<script, peer, wire, last, mishaps>>
    BY DEF Drain, DrainDone, Wait, WaitReturns, Accept, Drive, Rearm, peerVars, sockVars, marks
<1>2. CASE ~Smooth
    BY <1>1, <1>2 DEF Parted, Smooth
<1>3. CASE Smooth
  <2>1. EndKnown /\ Upgraded /\ NoneWhole /\ ~Final
    BY <1>0, <1>3 DEF Parted, Final
  <2>2. CASE Drain \/ DrainDone \/ Wait \/ WaitReturns
    <3>1. UNCHANGED <<cn, status>> /\ pc \in {"top", "wait"} /\ pc' \in {"top", "wait", "exit"}
      BY <2>2 DEF Drain, DrainDone, Wait, WaitReturns
    <3>2. EndKnown'
      BY <1>1, <2>1, <3>1 DEF EndKnown
    <3>3. (Alive' <=> Alive) /\ Pending' = Pending /\ (Delivered' <=> Delivered)
      BY <1>1, <3>1 DEF Alive, Pending, Delivered
    <3>4. Upgraded'
      BY <1>1, <2>1, <3>1, <3>3 DEF Upgraded
    <3>5. NoneWhole'
      BY <1>1, <2>1, <3>1, SameWhole DEF NoneWhole
    <3>6. QED
      BY <3>2, <3>4, <3>5 DEF Parted
  <2>3. CASE Accept
    <3>1. last = 0 /\ cn' = NewConn /\ status' = "open" /\ cn = NewConn
      BY <1>0, <2>1, <2>3 DEF Accept, EndKnown, Places
    <3>2. ~Whole(cn)' /\ ~cn'.upgrade
      BY <1>1, <3>1, NewNotWhole, SameWhole
    <3>3. QED
      BY <1>1, <3>1, <3>2, PartedPlain DEF NoneWhole
  <2>4. CASE Drive
    <3>1. status = "open" /\ UNCHANGED <<cn, status>> /\ pc = "wait"
      BY <2>4 DEF Drive, Ready
    <3>2. last = 0 /\ ~cn.upgrade
      BY <1>3, <2>1, <3>1, PartedEarly
    <3>3. NoneWhole'
      BY <1>1, <2>1, <3>1, SameWhole DEF NoneWhole
    <3>4. QED
      BY <1>1, <3>1, <3>2, <3>3, PartedPlain
  <2>5. CASE Rearm
    <3>1. /\ cn'.raw = cn.raw /\ cn'.upgrade = cn.upgrade /\ cn'.sink = cn.sink /\ status' = status
          /\ pc = "rearm" /\ pc' = "top"
      BY <1>0, <2>5 DEF Rearm, Conns
    <3>2. status = "open"
      BY <1>0, <3>1 DEF Places
    <3>3. last = 0 /\ ~cn.upgrade
      BY <1>3, <2>1, <3>1, <3>2, PartedEarly
    <3>4. NoneWhole'
      BY <1>1, <2>1, <3>1, SameWhole DEF NoneWhole
    <3>5. QED
      BY <1>1, <3>1, <3>2, <3>3, <3>4, PartedPlain
  <2>6. QED
    BY <2>2, <2>3, <2>4, <2>5
<1>4. QED
    BY <1>2, <1>3

LEMMA PartedLeave ==
  ASSUME IInv, Parted, DrainExpired \/ Sweep \/ PollFails \/ Dispose
  PROVE  Parted'
<1>1. /\ UNCHANGED <<script, peer, wire, last>> /\ mishaps \subseteq mishaps' /\ cn' = NewConn
    BY DEF DrainExpired, Sweep, PollFails, Dispose, Leave, peerVars, sockVars, marks
<1>2. CASE ~Smooth
    BY <1>1, <1>2 DEF Parted, Smooth
<1>3. CASE Smooth
  <2>1. EndKnown /\ Upgraded
    BY <1>3 DEF Parted
  <2>2. ~Whole(cn)' /\ ~cn'.upgrade
    BY <1>1 DEF Whole, HeadDone, NewConn
  <2>3. Delivered' <=> Delivered
    BY <1>1 DEF Delivered
  <2>4. /\ status' # "open"
        /\ status' = "none" => status = "none"
        /\ status' = "handed" => status = "handed" \/ (pc = "dispose" /\ cn.upgrade)
    BY DEF DrainExpired, Sweep, PollFails, Dispose, Leave
  <2>5. EndKnown'
    BY <1>1, <2>1, <2>4 DEF EndKnown
  <2>6. Upgraded'
    BY <1>1, <2>1, <2>2, <2>3, <2>4 DEF Upgraded
  <2>7. QED
    BY <2>2, <2>5, <2>6 DEF Parted, NoneWhole
<1>4. QED
    BY <1>2, <1>3

LEMMA PartedFlush ==
  ASSUME IInv, Answered, Parted, Flush
  PROVE  Parted'
<1>0. TypeOK /\ pc = "flush" /\ status = "open" /\ cn \in Conns /\ Alive
    BY ConnFields DEF IInv, Places, Alive, Flush, FlushSend, FlushFile, FlushFileEnds, FlushBlocks,
                      FlushFails, Flushed
<1>1. UNCHANGED <<script, peer, last, status, keep>> /\ mishaps \subseteq mishaps'
    BY DEF Flush, FlushSend, FlushFile, FlushFileEnds, FlushBlocks, FlushFails, Flushed,
           peerVars, marks, locals
<1>2. CASE ~Smooth
    BY <1>1, <1>2 DEF Parted, Smooth
<1>3. CASE Smooth
  <2>1. EndKnown /\ Upgraded /\ NoneWhole /\ "shrunk" \notin mishaps
    BY <1>3 DEF Parted, Smooth
  <2>2. CASE FlushSend \/ FlushFile
    <3>1. /\ UNCHANGED <<pc, ret>>
          /\ cn'.raw = cn.raw /\ cn'.upgrade = cn.upgrade /\ cn'.sink = cn.sink
      BY <1>0, <2>2 DEF FlushSend, FlushFile, Conns, locals
    <3>2. Pending' = Pending
      BY <2>2, AnsweredFlush
    <3>3. EndKnown'
      BY <1>1, <2>1, <3>1 DEF EndKnown, Final
    <3>4. Upgraded'
      BY <1>0, <1>1, <2>1, <3>1, <3>2 DEF Upgraded
    <3>5. NoneWhole'
      BY <1>1, <2>1, <3>1, SameWhole DEF NoneWhole
    <3>6. QED
      BY <3>3, <3>4, <3>5 DEF Parted
  <2>3. CASE FlushFileEnds
    <3>1. "shrunk" \in mishaps'
      BY <2>3 DEF FlushFileEnds
    <3>2. QED
      BY <3>1 DEF Parted, Smooth
  <2>4. CASE FlushBlocks
    <3>1. UNCHANGED <<cn, ret, wire>> /\ pc' = "rearm"
      BY <2>4 DEF FlushBlocks, sockVars
    <3>2. CASE ret \in {"buffered", "stream"}
      <4>1. "backed" \in mishaps'
        BY <2>4, <3>2 DEF FlushBlocks
      <4>2. QED
        BY <4>1 DEF Parted, Smooth
    <3>3. CASE ret \notin {"buffered", "stream"}
      <4>1. ret \in {"start", "interim"} /\ ~Final
        BY <1>0, <3>3 DEF TypeOK, Final
      <4>2. last = 0 /\ ~cn.upgrade
        BY <1>0, <1>3, <4>1, PartedEarly
      <4>3. NoneWhole'
        BY <1>0, <1>1, <2>1, <3>1, <4>1, SameWhole DEF NoneWhole
      <4>4. QED
        BY <1>0, <1>1, <3>1, <4>2, <4>3, PartedPlain
    <3>4. QED
      BY <3>2, <3>3
  <2>5. CASE FlushFails
    <3>1. UNCHANGED <<cn, wire>> /\ pc' = "dispose" /\ peer = "reset"
      BY <2>5 DEF FlushFails, sockVars
    <3>2. EndKnown' /\ NoneWhole'
      BY <1>0, <1>1, <3>1 DEF EndKnown, NoneWhole
    <3>3. Upgraded'
      BY <1>0, <1>1, <2>1, <3>1 DEF Upgraded, Alive
    <3>4. QED
      BY <3>2, <3>3 DEF Parted
  <2>6. CASE Flushed
    <3>1. UNCHANGED <<cn, wire, ret>> /\ pc' = AfterFlush /\ cn.out = <<>> /\ cn.file = <<>>
      BY <2>6 DEF Flushed, HasPending, sockVars
    <3>2. CASE ~Final
      <4>1. ret \in {"start", "interim"}
        BY <1>0, <3>2 DEF TypeOK, Final
      <4>2. last = 0 /\ ~cn.upgrade
        BY <1>0, <1>3, <3>2, PartedEarly
      <4>3. pc' \in {"pump", "recv", "route"} /\ (pc' = "recv" => cn.sink = 0)
        BY <3>1, <4>1 DEF AfterFlush
      <4>4. NoneWhole'
        BY <1>0, <1>1, <2>1, <3>1, <4>1, <4>3, SameWhole DEF NoneWhole
      <4>5. QED
        BY <1>0, <1>1, <3>1, <4>2, <4>4, PartedPlain
    <3>3. CASE Final
      <4>1. pc' = IF cn.upgrade \/ ~keep THEN "dispose" ELSE "parse"
        BY <3>1, <3>3 DEF Final, AfterFlush
      <4>2. NoneWhole'
        BY <4>1 DEF NoneWhole
      <4>3. EndKnown'
        BY <1>0, <1>1, <2>1, <3>1, <4>1 DEF EndKnown
      <4>4. Pending = wire /\ Pending' = Pending
        BY <1>0, <3>1, NothingPending DEF Pending
      <4>5. wire # <<>> => Ends(script, Tip(wire))
        <5>1. At(script, wire, Cur, cn.expectSent)
          BY <1>0, <2>1, <4>4 DEF Answered
        <5>2. QED
          BY <5>1 DEF At
      <4>6. cn.upgrade => Delivered
        BY <1>0, <2>1, <4>4, <4>5 DEF Upgraded, Delivered
      <4>7. Upgraded'
        BY <1>0, <1>1, <2>1, <3>1, <4>1, <4>4, <4>6 DEF Upgraded, Alive, Delivered
      <4>8. QED
        BY <4>2, <4>3, <4>7 DEF Parted
    <3>4. QED
      BY <3>2, <3>3
  <2>7. QED
    BY <2>2, <2>3, <2>4, <2>5, <2>6 DEF Flush
<1>4. QED
    BY <1>2, <1>3

\* Reading, parsing and feeding leave no whole request behind.
LEMMA PartedReads ==
  ASSUME IInv, OneCoding, Parted,
         \/ Recv \/ RecvInto \/ RecvOverflows \/ Parse \/ ParseFails \/ ParseInterim
         \/ RouteSink \/ RouteTooLarge \/ RouteWaits
         \/ PumpWaits \/ PumpLost \/ PumpChunk \/ PumpRefused
  PROVE  Parted'
<1>0. TypeOK /\ cn \in Conns /\ pc \in {"recv", "parse", "route", "pump"}
    BY ConnFields DEF IInv, Recv, RecvInto, RecvOverflows, Parse, ParseFails, ParseInterim,
         RouteSink, RouteTooLarge, RouteWaits, PumpWaits, PumpLost, PumpChunk, PumpRefused
<1>1. UNCHANGED <<script, last, status>> /\ mishaps \subseteq mishaps'
    BY DEF Recv, RecvInto, RecvOverflows, Parse, Accepting, ParseFails, ParseInterim, Refuse,
         RouteSink, RouteTooLarge, RouteWaits, PumpWaits, PumpLost, PumpChunk, PumpRefused,
         peerVars, marks
<1>2. CASE ~Smooth
    BY <1>1, <1>2 DEF Parted, Smooth
<1>3. CASE Smooth
  <2>1. NoneWhole /\ status = "open"
    BY <1>0, <1>3 DEF Parted, IInv, Places
  <2>2. last = 0 /\ ~cn.upgrade
    BY <1>0, <1>3, <2>1, PartedEarly DEF Final
  <2>3. CASE Recv
    <3>1. cn' = cn /\ pc = "recv" /\ pc' \in {"rearm", "dispose"}
      BY <2>3 DEF Recv
    <3>2. NoneWhole'
      BY <1>1, <2>1, <3>1, SameWhole DEF NoneWhole
    <3>3. QED
      BY <1>1, <2>1, <2>2, <3>1, <3>2, PartedPlain
  <2>4. CASE RecvInto
    <3>1. cn'.upgrade = cn.upgrade /\ pc' = "parse"
      BY <1>0, <2>4 DEF RecvInto, Conns
    <3>2. QED
      BY <1>1, <2>1, <2>2, <3>1, PartedPlain DEF NoneWhole
  <2>5. CASE RecvOverflows \/ ParseFails \/ RouteTooLarge
    <3>1. cn' = cn /\ pc' = "dispose"
      BY <2>5 DEF RecvOverflows, ParseFails, RouteTooLarge, Refuse
    <3>2. QED
      BY <1>1, <2>1, <2>2, <3>1, PartedPlain DEF NoneWhole
  <2>6. CASE Parse
    <3>1. cn' = cn
      BY <2>6 DEF Parse
    <3>2. pc' = "route" \/ (~HeadDone(cn) /\ pc' \in {"rearm", "recv"})
      BY <2>6 DEF Parse, NeedMore, HeadDone
    <3>3. pc' = "route" \/ ~Whole(cn)'
      BY <1>1, <3>1, <3>2, SameWhole DEF Whole
    <3>4. NoneWhole'
      BY <3>3 DEF NoneWhole
    <3>5. QED
      BY <1>1, <2>1, <2>2, <3>1, <3>4, PartedPlain
  <2>7. CASE ParseInterim
    <3>1. cn'.upgrade = cn.upgrade /\ cn'.raw = cn.raw /\ ~Whole(cn)
      BY <1>0, <2>7 DEF ParseInterim, Conns
    <3>2. NoneWhole'
      BY <1>1, <3>1, SameWhole DEF NoneWhole
    <3>3. QED
      BY <1>1, <2>1, <2>2, <3>1, <3>2, PartedPlain
  <2>8. CASE RouteSink
    <3>1. PICK c \in Conns, first \in Units : Feed(c, first) /\ c.upgrade = cn.upgrade
      BY <2>8, RouteSinkParts
    <3>2. pc' \in {"pump", "dispose"} /\ cn'.upgrade = cn.upgrade
      BY <3>1, ClearTypes DEF Feed, AbortStream
    <3>3. QED
      BY <1>1, <2>1, <2>2, <3>2, PartedPlain DEF NoneWhole
  <2>9. CASE RouteWaits
    <3>1. cn' = cn /\ ~Whole(cn)
      BY <2>9 DEF RouteWaits
    <3>2. NoneWhole'
      BY <1>1, <3>1, SameWhole DEF NoneWhole
    <3>3. QED
      BY <1>1, <2>1, <2>2, <3>1, <3>2, PartedPlain
  <2>10. CASE PumpWaits
    <3>1. cn' = cn /\ cn.sink # 0
      BY <2>10 DEF PumpWaits, IInv, Places
    <3>2. QED
      BY <1>1, <2>1, <2>2, <3>1, PartedPlain DEF NoneWhole
  <2>11. CASE PumpLost \/ PumpRefused
    <3>1. cn' = ClearStream(cn) /\ pc' = "dispose"
      BY <2>11 DEF PumpLost, PumpRefused, AbortStream, Refuse
    <3>2. cn'.upgrade = cn.upgrade
      BY <1>0, <3>1, ClearTypes
    <3>3. QED
      BY <1>1, <2>1, <2>2, <3>1, <3>2, PartedPlain DEF NoneWhole
  <2>12. CASE PumpChunk
    <3>1. PICK c \in Conns, chunk \in Units : Feed(c, chunk) /\ c.upgrade = cn.upgrade
      BY <2>12, PumpChunkParts
    <3>2. pc' \in {"pump", "dispose"} /\ cn'.upgrade = cn.upgrade
      BY <3>1, ClearTypes DEF Feed, AbortStream
    <3>3. QED
      BY <1>1, <2>1, <2>2, <3>2, PartedPlain DEF NoneWhole
  <2>13. QED
    BY <2>3, <2>4, <2>5, <2>6, <2>7, <2>8, <2>9, <2>10, <2>11, <2>12
<1>4. QED
    BY <1>2, <1>3

\* serve_request() notes the end of the connection and its upgrade together.
LEMMA PartedServe ==
  ASSUME last = 0, ~cn.upgrade, NEW c \in Conns, c.upgrade = cn.upgrade, NEW i, i # 0, Serve(c, i),
         script' = script, status' = "open", pc' = "flush", ret' \in {"buffered", "stream"},
         Pending' # <<>> /\ Tip(Pending')[1] = i
  PROVE  Parted'
<1>1. PICK u \in BOOLEAN : u = (c.upgrade \/ script[i].upgrade)
    BY Zenon
<1>2. cn'.upgrade = u
    BY <1>1 DEF Serve, Conns
<1>3. cn'.upgrade => script[i].upgrade
    BY <1>1, <1>2, Zenon
<1>4. script[i].upgrade => cn'.upgrade
    BY <1>1, <1>2, Zenon
<1>5. last' = IF keep' /\ ~script[i].upgrade THEN 0 ELSE i
    BY DEF Serve
<1>6. EndKnown'
    BY <1>4, <1>5 DEF EndKnown, Final
<1>7. Upgraded'
    BY <1>3, <1>5 DEF Upgraded
<1>8. NoneWhole'
    BY DEF NoneWhole
<1>9. QED
    BY <1>6, <1>7, <1>8 DEF Parted

LEMMA PartedServes ==
  ASSUME IInv, OneCoding, Answered, Parted, RouteServes \/ PumpEnds
  PROVE  Parted'
<1>0. TypeOK /\ status = "open" /\ pc \in {"route", "pump"} /\ mishaps \subseteq mishaps' /\ ~Final
    BY DEF IInv, Places, RouteServes, PumpEnds, Final
<1>1. CASE ~Smooth
    BY <1>0, <1>1 DEF Parted, Smooth
<1>2. CASE Smooth
  <2>1. last = 0 /\ ~cn.upgrade /\ "shrunk" \notin mishaps
    BY <1>0, <1>2, PartedEarly DEF Smooth
  <2>2. pc' = "flush" => Pending' # <<>> /\ Tip(Pending')[1] = Cur
    BY <2>1, AnsweredServes
  <2>3. CASE RouteServes
    <3>1. PICK c \in Conns :
             /\ Serve(c, Front(cn)) /\ c.upgrade = cn.upgrade
             /\ UNCHANGED <<script, status>> /\ pc' = "flush" /\ ret' = "buffered"
      BY <2>3, RouteServesParts
    <3>2. Front(cn) = Cur /\ Front(cn) \in Requests
      BY <2>3, RouteFacts DEF RouteServes
    <3>3. Front(cn) # 0
      BY <1>0, <3>2, ScriptFacts DEF TypeOK, Requests
    <3>4. QED
      BY <1>0, <2>1, <2>2, <3>1, <3>2, <3>3, PartedServe
  <2>4. CASE PumpEnds
    <3>1. PICK c \in Conns : Serve(c, cn.sink) /\ c.upgrade = cn.upgrade /\ UNCHANGED <<script, status>>
      BY <2>4, PumpEndsParts
    <3>2. cn.sink = Cur /\ cn.sink # 0
      BY <2>4, PumpFacts DEF PumpEnds
    <3>3. CASE Len(cn.tail) <= Cap
      <4>1. pc' = "flush" /\ ret' = "stream"
        BY <2>4, <3>3 DEF PumpEnds
      <4>2. QED
        BY <1>0, <2>1, <2>2, <3>1, <3>2, <4>1, PartedServe
    <3>4. CASE ~(Len(cn.tail) <= Cap)
      <4>1. "tail" \in mishaps'
        BY <2>4, <3>4 DEF PumpEnds
      <4>2. QED
        BY <4>1 DEF Parted, Smooth
    <3>5. QED
      BY <3>3, <3>4
  <2>5. QED
    BY <2>3, <2>4
<1>3. QED
    BY <1>1, <1>2

LEMMA PartedStep ==
  ASSUME IInv, OneCoding, Answered, Parted, [Next]_vars
  PROVE  Parted'
    BY PartedWorld, PartedRound, PartedLeave, PartedFlush, PartedReads, PartedServes
    DEF Next, Server, Loop, Buffer, Pump

LEMMA PartedGives ==
  ASSUME IInv, Parted
  PROVE  NothingLeftBehind
<1>1. CASE ~Smooth
    BY <1>1 DEF NothingLeftBehind, Smooth
<1>2. CASE Smooth
  <2>1. EndKnown /\ Upgraded /\ NoneWhole
    BY <1>2 DEF Parted
  <2>2. ASSUME Idle PROVE last = 0 /\ ~(cn.sink = 0 /\ Whole(cn))
    BY <2>1, <2>2 DEF Idle, EndKnown, NoneWhole, Final
  <2>3. ASSUME status = "handed", peer # "reset"
        PROVE  /\ wire # <<>> /\ LastUnit(wire[Len(wire)])
               /\ wire[Len(wire)][1] = last /\ script[last].upgrade
    BY <2>1, <2>3, SameOrder DEF Upgraded, Delivered, Tip
  <2>4. QED
    BY <2>2, <2>3 DEF NothingLeftBehind
<1>3. QED
    BY <1>1, <1>2
-----------------------------------------------------------------------------
(* The theorems.                                                             *)

AllInv == OneCoding => IInv /\ Answered /\ Parted

\* What has been passed over stays passed over.
LEMMA MishapsStay ==
  ASSUME [Next]_vars
  PROVE  mishaps \subseteq mishaps'
<1>1. CASE Loop \/ Sweep \/ PollFails
    BY <1>1 DEF Loop, Drain, DrainDone, DrainExpired, Wait, WaitReturns, Accept, Drive, Rearm, Dispose,
                Sweep, PollFails, marks
<1>2. CASE Flush
    BY <1>2 DEF Flush, FlushSend, FlushFile, FlushFileEnds, FlushBlocks, FlushFails, Flushed, marks
<1>3. CASE Buffer
    BY <1>3 DEF Buffer, Recv, RecvInto, RecvOverflows, Parse, ParseFails, ParseInterim, Accepting,
                RouteSink, RouteTooLarge, RouteWaits, RouteServes, Refuse, marks
<1>4. CASE Pump
    BY <1>4 DEF Pump, PumpWaits, PumpLost, PumpChunk, PumpRefused, PumpEnds, Refuse, marks
<1>5. CASE World \/ Returned \/ UNCHANGED vars
    BY <1>5 DEF World, PeerSends, PeerReads, PeerEnds, PeerResets, DeadlinePasses, BudgetPasses, env,
                Returned, vars, marks
<1>6. QED
    BY <1>1, <1>2, <1>3, <1>4, <1>5 DEF Next, Server

LEMMA Invariant == Spec => []AllInv
<1>1. ASSUME Init PROVE AllInv
    BY <1>1, InitInv, InitAnswered, InitParted DEF AllInv
<1>2. ASSUME AllInv, [Next]_vars PROVE AllInv'
  <2>1. CASE OneCoding
    BY <1>2, <2>1, NextInv, AnsweredStep, PartedStep DEF AllInv
  <2>2. CASE ~OneCoding
    BY <1>2, <2>2, MishapsStay DEF AllInv, OneCoding
  <2>3. QED
    BY <2>1, <2>2
<1>3. QED
    BY <1>1, <1>2, PTL DEF Spec

\* The connection keeps its types until framing is lost: the buffer never grows
\* past Conn.cap, the body units owed to a sink are never negative, and every
\* request that is served or fed to a sink is one the peer sent.
THEOREM ServerTypeCorrect == Spec => [](OneCoding => TypeOK)
<1>1. AllInv => (OneCoding => TypeOK)
    BY DEF AllInv, IInv
<1>2. QED
    BY <1>1, Invariant, PTL

\* parse_head(), drive() and pump_stream() agree with the peer where each message
\* begins and ends, whatever lengths its heads could be read to announce, and a
\* sink is given its own body in order, until a head is accepted whose last
\* Transfer-Encoding field hides another coding.
THEOREM ServerFramingHolds == Spec => []FramingHolds
<1>1. AllInv => FramingHolds
    BY InStepAlways DEF AllInv, OneCoding, FramingHolds
<1>2. QED
    BY <1>1, Invariant, PTL

\* Every sink that was given a part of its body is told the outcome exactly once:
\* on_end() with the whole body, or on_abort() with the reason, as long as framing
\* holds.
THEOREM ServerSinkToldOnce == Spec => []SinkToldOnce
<1>1. AllInv => SinkToldOnce
    BY DEF AllInv, OneCoding, IInv, SinkToldOnce, ToldOnce
<1>2. QED
    BY <1>1, Invariant, PTL

\* Responses go out whole and in the order of the requests, wherever the socket
\* stops taking them, as long as no file shrinks while it is sent and no coding
\* has been passed over.
THEOREM ServerWireInOrder == Spec => []WireInOrder
<1>1. AllInv => WireInOrder
    BY WireParts DEF AllInv, OneCoding, Answered
<1>2. QED
    BY <1>1, Invariant, PTL

\* While the socket keeps up and framing holds, no complete request waits in the
\* buffer of a server that sleeps, no connection is held past its last response,
\* and an upgrade gets its socket right behind its own response.
THEOREM ServerNothingLeftBehind == Spec => []NothingLeftBehind
<1>1. AllInv => NothingLeftBehind
    BY PartedGives DEF AllInv, OneCoding, NothingLeftBehind
<1>2. QED
    BY <1>1, Invariant, PTL
=============================================================================
