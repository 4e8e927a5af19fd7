------------------------- MODULE ProfileText_proofs -------------------------
(***************************************************************************)
(* What read_profile finds in a profile, and what write_profile makes of   *)
(* it, for texts of any length: they are read and written as what they say *)
(* by their format (Setting), on condition that the names cannot be        *)
(* mistaken (WellNamed), but for settings that are missing, which may be   *)
(* found behind the buffer, and for sections that are appended in vain.    *)
(*                                                                         *)
(* A text is looked at by its positions.  A profile is covered by headers  *)
(* and lines (Profiled), which the four marks tell from each other, so     *)
(* that a search can be traced back to the header or line it hits; and to  *)
(* write is to splice a line in at a place between two of them.            *)
(***************************************************************************)
EXTENDS Profile, SequenceTheorems, WellFoundedInduction, TLAPS

Text == Seq(Pieces)

Header(t) == <<"[">> \o t \o <<"]", "\n">>

-----------------------------------------------------------------------------
(* Searches. *)

LEMMA Least ==
  ASSUME NEW S, S \subseteq Nat, S # {}
  PROVE  \E m \in S : \A n \in S : m <= n
<1>1. PICK m \in S : \A n \in S : ~(<<n, m>> \in OpToRel(<, Nat))
  BY NatLessThanWellFounded, WFMin
<1>2. \A n \in S : ~(n < m) BY <1>1 DEF OpToRel
<1> QED BY <1>2

LEMMA Size == ASSUME NEW s \in Text PROVE Len(s) \in Nat
BY LenProperties DEF Text

LEMMA AtPoints ==
  ASSUME NEW s \in Text, NEW w \in Text, NEW i \in Nat \ {0}
  PROVE  At(s, w, i) <=> /\ i + Len(w) - 1 <= Len(s)
                         /\ \A n \in 1 .. Len(w) : s[i + n - 1] = w[n]
<1> DEFINE e == i + Len(w) - 1
<1>1. Len(w) \in Nat /\ Len(s) \in Nat BY Size
<1>2. CASE e <= Len(s)
  <2>1. \A j \in i .. e : s[j] \in Pieces BY <1>1, <1>2, ElementOfSeq DEF Text
  <2>2. /\ SubSeq(s, i, e) \in Seq(Pieces) /\ Len(SubSeq(s, i, e)) = Len(w)
        /\ \A n \in 1 .. Len(w) : SubSeq(s, i, e)[n] = s[i + n - 1]
    BY <1>1, <2>1, SubSeqProperties
  <2>3. SubSeq(s, i, e) = w <=> \A n \in 1 .. Len(w) : SubSeq(s, i, e)[n] = w[n]
    BY <2>2, SeqEqual DEF Text
  <2> QED BY <1>2, <2>2, <2>3 DEF At
<1>3. CASE ~(e <= Len(s)) BY <1>3 DEF At
<1> QED BY <1>2, <1>3

LEMMA StrstrIs ==
  ASSUME NEW s \in Text, NEW w, NEW from \in Nat \ {0}, NEW i \in from .. Len(s),
         At(s, w, i), \A j \in from .. i - 1 : ~At(s, w, j)
  PROVE  Strstr(s, w, from) = i
<1> DEFINE hits == {j \in from .. Len(s) : At(s, w, j)}
<1>1. Len(s) \in Nat BY Size
<1>2. i \in hits /\ \A j \in hits : i <= j BY <1>1
<1>3. \A m \in hits : (\A j \in hits : m <= j) => m = i BY <1>1, <1>2
<1>4. (CHOOSE m \in hits : \A j \in hits : m <= j) = i BY <1>2, <1>3
<1> QED BY <1>2, <1>4 DEF Strstr

LEMMA StrstrNone ==
  ASSUME NEW s \in Text, NEW w, NEW from \in Nat \ {0},
         \A j \in from .. Len(s) : ~At(s, w, j)
  PROVE  Strstr(s, w, from) = NULL
BY DEF Strstr

LEMMA StrstrFirst ==
  ASSUME NEW s \in Text, NEW w, NEW from \in Nat \ {0}, Strstr(s, w, from) # NULL
  PROVE  /\ Strstr(s, w, from) \in from .. Len(s)
         /\ At(s, w, Strstr(s, w, from))
         /\ \A j \in from .. Strstr(s, w, from) - 1 : ~At(s, w, j)
<1> DEFINE hits == {j \in from .. Len(s) : At(s, w, j)}
           first == Strstr(s, w, from)
<1>1. Len(s) \in Nat BY Size
<1>2. hits # {} BY DEF Strstr
<1>3. hits \subseteq Nat BY <1>1
<1>4. \E m \in hits : \A j \in hits : m <= j BY <1>2, <1>3, Least
<1>5. first = CHOOSE m \in hits : \A j \in hits : m <= j BY <1>2 DEF Strstr
<1>6. first \in hits /\ \A j \in hits : first <= j BY <1>4, <1>5
<1> HIDE DEF first
<1>7. \A j \in from .. first - 1 : ~At(s, w, j) BY <1>1, <1>6
<1> QED BY <1>6, <1>7 DEF first

(* Searches for a single mark. *)
LEMMA Single ==
  ASSUME NEW m \in Pieces
  PROVE  <<m>> \in Text /\ Len(<<m>>) = 1 /\ <<m>>[1] = m
<1>1. Append(<<>>, m) = <<m>> OBVIOUS
<1>2. <<>> \in Seq(Pieces) /\ Len(<<>>) = 0 BY EmptySeq
<1> QED BY <1>1, <1>2, AppendProperties DEF Text

LEMMA AtMark ==
  ASSUME NEW s \in Text, NEW m \in Pieces, NEW i \in 1 .. Len(s)
  PROVE  At(s, <<m>>, i) <=> s[i] = m
<1> DEFINE w == <<m>>
<1>2. w \in Text /\ Len(w) = 1 /\ w[1] = m BY Single
<1>3. Len(s) \in Nat /\ i \in Nat \ {0} BY Size
<1> HIDE DEF w
<1>4. At(s, w, i) <=> /\ i + Len(w) - 1 <= Len(s)
                     /\ \A n \in 1 .. Len(w) : s[i + n - 1] = w[n]
  BY <1>2, <1>3, AtPoints
<1>5. (\A n \in 1 .. 1 : s[i + n - 1] = w[n]) <=> s[i] = m
  <2>1. \A n \in 1 .. 1 : n = 1 OBVIOUS
  <2>2. i + 1 - 1 = i BY <1>3
  <2> QED BY <1>2, <2>1, <2>2
<1>6. At(s, w, i) <=> s[i] = m BY <1>2, <1>3, <1>4, <1>5
<1> QED BY <1>6 DEF w

(* The end of a region: the last position before the next "[".              *)
LEMMA RegionEndIs ==
  ASSUME NEW s \in Text, NEW from \in 1 .. Len(s)
  PROVE  /\ RegionEnd(s, from) \in from - 1 .. Len(s)
         /\ \A n \in from .. RegionEnd(s, from) : s[n] # "["
         /\ \/ RegionEnd(s, from) = Len(s)
            \/ s[RegionEnd(s, from) + 1] = "["
<1> DEFINE next == Strstr(s, <<"[">>, from)
<1>1. Len(s) \in Nat /\ from \in Nat \ {0} BY Size
<1>2. \A j \in from .. Len(s) : At(s, <<"[">>, j) <=> s[j] = "["
  <2>1. \A j \in from .. Len(s) : j \in 1 .. Len(s) BY <1>1
  <2>2. "[" \in Pieces BY DEF Pieces, Marks
  <2> QED BY <2>1, <2>2, AtMark
<1>3. CASE next = NULL
  <2>1. \A j \in from .. Len(s) : ~At(s, <<"[">>, j)
    <3>1. SUFFICES ASSUME NEW j \in from .. Len(s), At(s, <<"[">>, j) PROVE FALSE
      OBVIOUS
    <3>2. {i \in from .. Len(s) : At(s, <<"[">>, i)} # {} BY <3>1
    <3>3. {i \in from .. Len(s) : At(s, <<"[">>, i)} \subseteq Nat BY <1>1
    <3>4. \E m \in {i \in from .. Len(s) : At(s, <<"[">>, i)} :
            \A n \in {i \in from .. Len(s) : At(s, <<"[">>, i)} : m <= n
      BY <3>2, <3>3, Least
    <3>5. next \in {i \in from .. Len(s) : At(s, <<"[">>, i)}
      BY <3>2, <3>4 DEF Strstr
    <3> QED BY <1>1, <1>3, <3>5 DEF NULL
  <2>2. RegionEnd(s, from) = Len(s) BY <1>3 DEF RegionEnd
  <2> QED BY <1>1, <1>2, <2>1, <2>2
<1>4. CASE next # NULL
  <2>1. /\ next \in from .. Len(s) /\ At(s, <<"[">>, next)
        /\ \A j \in from .. next - 1 : ~At(s, <<"[">>, j)
    BY <1>1, <1>4, StrstrFirst
  <2>2. RegionEnd(s, from) = next - 1 BY <1>4 DEF RegionEnd
  <2> HIDE DEF next
  <2>3. s[next] = "[" /\ \A j \in from .. next - 1 : s[j] # "[" BY <1>1, <1>2, <2>1
  <2> QED BY <1>1, <2>1, <2>2, <2>3
<1> QED BY <1>3, <1>4

-----------------------------------------------------------------------------
(* What headers and lines are made of. *)

LEMMA PlainIs ==
  ASSUME NEW w, Plain(w)
  PROVE  w \in Text /\ Len(w) \in Nat /\ \A n \in 1 .. Len(w) : w[n] \notin Marks
<1>1. w \in Seq(Words) BY DEF Plain
<1>2. Words \subseteq Pieces BY DEF Pieces
<1>3. w \in Text BY <1>1, <1>2, SeqMonotonic DEF Text
<1>4. \A n \in 1 .. Len(w) : w[n] \in Words BY <1>1, ElementOfSeq
<1> QED BY <1>3, <1>4, Size DEF Words

LEMMA Joined ==
  ASSUME NEW a \in Text, NEW b \in Text
  PROVE  /\ a \o b \in Text /\ Len(a \o b) = Len(a) + Len(b)
         /\ \A n \in 1 .. Len(a) : (a \o b)[n] = a[n]
         /\ \A n \in 1 .. Len(b) : (a \o b)[Len(a) + n] = b[n]
<1> DEFINE c == a \o b
<1>1. Len(a) \in Nat /\ Len(b) \in Nat BY Size
<1>2. /\ c \in Text /\ Len(c) = Len(a) + Len(b)
      /\ \A n \in 1 .. Len(a) + Len(b) : c[n] = IF n <= Len(a) THEN a[n] ELSE b[n - Len(a)]
  BY ConcatProperties DEF Text
<1> HIDE DEF c
<1>3. \A n \in 1 .. Len(a) : c[n] = a[n] BY <1>1, <1>2
<1>4. \A n \in 1 .. Len(b) : c[Len(a) + n] = b[n] BY <1>1, <1>2
<1> QED BY <1>2, <1>3, <1>4 DEF c

LEMMA HeaderIs ==
  ASSUME NEW t, Plain(t)
  PROVE  /\ Header(t) \in Text /\ Len(Header(t)) = Len(t) + 3
         /\ Header(t)[1] = "["
         /\ \A n \in 1 .. Len(t) : Header(t)[n + 1] = t[n]
         /\ Header(t)[Len(t) + 2] = "]" /\ Header(t)[Len(t) + 3] = "\n"
<1> DEFINE open == <<"[">>
           shut == <<"]", "\n">>
<1>1. t \in Text /\ Len(t) \in Nat BY PlainIs
<1>2. open \in Text /\ Len(open) = 1 /\ open[1] = "[" BY Single DEF Pieces, Marks
<1>3. shut \in Text /\ Len(shut) = 2 /\ shut[1] = "]" /\ shut[2] = "\n"
  <2>1. <<"]">> \in Text /\ Len(<<"]">>) = 1 /\ <<"]">>[1] = "]" BY Single DEF Pieces, Marks
  <2>2. shut = Append(<<"]">>, "\n") OBVIOUS
  <2>3. "\n" \in Pieces BY DEF Pieces, Marks
  <2> QED BY <2>1, <2>2, <2>3, AppendProperties DEF Text
<1> DEFINE most == open \o t
<1> HIDE DEF open, shut
<1>4. /\ most \in Text /\ Len(most) = Len(open) + Len(t)
      /\ \A n \in 1 .. Len(open) : most[n] = open[n]
      /\ \A n \in 1 .. Len(t) : most[Len(open) + n] = t[n]
  BY <1>1, <1>2, Joined
<1>5. Header(t) = most \o shut BY DEF Header, open, shut
<1> HIDE DEF most
<1>6. /\ Header(t) \in Text /\ Len(Header(t)) = Len(most) + Len(shut)
      /\ \A n \in 1 .. Len(most) : Header(t)[n] = most[n]
      /\ \A n \in 1 .. Len(shut) : Header(t)[Len(most) + n] = shut[n]
  <2>1. /\ most \o shut \in Text /\ Len(most \o shut) = Len(most) + Len(shut)
        /\ \A n \in 1 .. Len(most) : (most \o shut)[n] = most[n]
        /\ \A n \in 1 .. Len(shut) : (most \o shut)[Len(most) + n] = shut[n]
    BY <1>3, <1>4, Joined
  <2> QED BY <1>5, <2>1
<1>7. Len(most) = Len(t) + 1 /\ Len(Header(t)) = Len(t) + 3 BY <1>1, <1>2, <1>3, <1>4, <1>6
<1>8. Header(t)[1] = "[" BY <1>1, <1>2, <1>4, <1>6, <1>7
<1>9. \A n \in 1 .. Len(t) : Header(t)[n + 1] = t[n]
  <2> SUFFICES ASSUME NEW n \in 1 .. Len(t) PROVE Header(t)[n + 1] = t[n]
    OBVIOUS
  <2>1. most[1 + n] = t[n] BY <1>2, <1>4
  <2>2. n + 1 \in 1 .. Len(most) /\ 1 + n = n + 1 BY <1>1, <1>7
  <2> QED BY <1>6, <2>1, <2>2
<1>10. Header(t)[Len(t) + 2] = "]" /\ Header(t)[Len(t) + 3] = "\n"
  <2>1. 1 \in 1 .. Len(shut) /\ 2 \in 1 .. Len(shut) BY <1>3
  <2>2. Len(most) + 1 = Len(t) + 2 /\ Len(most) + 2 = Len(t) + 3 BY <1>1, <1>7
  <2> QED BY <1>3, <1>6, <2>1, <2>2
<1> QED BY <1>6, <1>7, <1>8, <1>9, <1>10

LEMMA LineIs ==
  ASSUME NEW p, NEW v, Plain(p), Plain(v)
  PROVE  /\ Line(p, v) \in Text /\ Len(Line(p, v)) = Len(p) + Len(v) + 2
         /\ \A n \in 1 .. Len(p) : Line(p, v)[n] = p[n]
         /\ Line(p, v)[Len(p) + 1] = "="
         /\ \A n \in 1 .. Len(v) : Line(p, v)[Len(p) + 1 + n] = v[n]
         /\ Line(p, v)[Len(p) + Len(v) + 2] = "\n"
<1> DEFINE is  == <<"=">>
           eol == <<"\n">>
           a   == p \o is
           b   == a \o v
<1>1. p \in Text /\ Len(p) \in Nat /\ v \in Text /\ Len(v) \in Nat BY PlainIs
<1>2. /\ is \in Text /\ Len(is) = 1 /\ is[1] = "="
      /\ eol \in Text /\ Len(eol) = 1 /\ eol[1] = "\n"
  BY Single DEF Pieces, Marks
<1>3. Line(p, v) = b \o eol BY DEF Line
<1> HIDE DEF is, eol
<1>4. /\ a \in Text /\ Len(a) = Len(p) + Len(is)
      /\ \A n \in 1 .. Len(p) : a[n] = p[n]
      /\ \A n \in 1 .. Len(is) : a[Len(p) + n] = is[n]
  BY <1>1, <1>2, Joined
<1> HIDE DEF a
<1>5. /\ b \in Text /\ Len(b) = Len(a) + Len(v)
      /\ \A n \in 1 .. Len(a) : b[n] = a[n]
      /\ \A n \in 1 .. Len(v) : b[Len(a) + n] = v[n]
  BY <1>1, <1>4, Joined
<1> HIDE DEF b
<1>6. /\ Line(p, v) \in Text /\ Len(Line(p, v)) = Len(b) + Len(eol)
      /\ \A n \in 1 .. Len(b) : Line(p, v)[n] = b[n]
      /\ \A n \in 1 .. Len(eol) : Line(p, v)[Len(b) + n] = eol[n]
  <2>1. /\ b \o eol \in Text /\ Len(b \o eol) = Len(b) + Len(eol)
        /\ \A n \in 1 .. Len(b) : (b \o eol)[n] = b[n]
        /\ \A n \in 1 .. Len(eol) : (b \o eol)[Len(b) + n] = eol[n]
    BY <1>2, <1>5, Joined
  <2> QED BY <1>3, <2>1
<1>7. Len(a) = Len(p) + 1 /\ Len(b) = Len(p) + 1 + Len(v) BY <1>2, <1>4, <1>5
<1>8. Len(Line(p, v)) = Len(p) + Len(v) + 2 BY <1>1, <1>2, <1>6, <1>7
<1>9. \A n \in 1 .. Len(p) : Line(p, v)[n] = p[n] BY <1>1, <1>4, <1>5, <1>6, <1>7
<1>10. Line(p, v)[Len(p) + 1] = "="
  <2>1. a[Len(p) + 1] = "=" BY <1>2, <1>4
  <2>2. Len(p) + 1 \in 1 .. Len(a) /\ Len(p) + 1 \in 1 .. Len(b) BY <1>1, <1>7
  <2> QED BY <1>5, <1>6, <2>1, <2>2
<1>11. \A n \in 1 .. Len(v) : Line(p, v)[Len(p) + 1 + n] = v[n]
  <2> SUFFICES ASSUME NEW n \in 1 .. Len(v) PROVE Line(p, v)[Len(p) + 1 + n] = v[n]
    OBVIOUS
  <2>1. b[Len(p) + 1 + n] = v[n] BY <1>5, <1>7
  <2>2. Len(p) + 1 + n \in 1 .. Len(b) BY <1>1, <1>7
  <2> QED BY <1>6, <2>1, <2>2
<1>12. Line(p, v)[Len(p) + Len(v) + 2] = "\n"
  <2>1. Len(b) + 1 = Len(p) + Len(v) + 2 /\ 1 \in 1 .. Len(eol) BY <1>1, <1>2, <1>7
  <2> QED BY <1>2, <1>6, <2>1
<1> QED BY <1>6, <1>8, <1>9, <1>10, <1>11, <1>12

(* Where a header or a line is, its marks are, and no others. *)
LEMMA HeaderAt ==
  ASSUME NEW s \in Text, NEW t, Plain(t), NEW h \in Nat \ {0}
  PROVE  At(s, Header(t), h) <=>
           /\ h + Len(t) + 2 <= Len(s)
           /\ s[h] = "["
           /\ \A n \in 1 .. Len(t) : s[h + n] = t[n]
           /\ s[h + Len(t) + 1] = "]" /\ s[h + Len(t) + 2] = "\n"
<1> DEFINE w == Header(t)
<1>1. Len(t) \in Nat BY PlainIs
<1>2. /\ w \in Text /\ Len(w) = Len(t) + 3 /\ w[1] = "["
      /\ \A n \in 1 .. Len(t) : w[n + 1] = t[n]
      /\ w[Len(t) + 2] = "]" /\ w[Len(t) + 3] = "\n"
  BY HeaderIs
<1> HIDE DEF w
<1>3. At(s, w, h) <=> /\ h + Len(w) - 1 <= Len(s)
                      /\ \A n \in 1 .. Len(w) : s[h + n - 1] = w[n]
  BY <1>2, AtPoints
<1>4. h + Len(w) - 1 = h + Len(t) + 2 BY <1>1, <1>2
<1>5. ASSUME \A n \in 1 .. Len(w) : s[h + n - 1] = w[n]
      PROVE  /\ s[h] = "["
             /\ \A n \in 1 .. Len(t) : s[h + n] = t[n]
             /\ s[h + Len(t) + 1] = "]" /\ s[h + Len(t) + 2] = "\n"
  <2>1. s[h + 1 - 1] = w[1] /\ h + 1 - 1 = h BY <1>1, <1>2, <1>5
  <2>2. ASSUME NEW n \in 1 .. Len(t) PROVE s[h + n] = t[n]
    <3>1. n + 1 \in 1 .. Len(w) /\ h + (n + 1) - 1 = h + n BY <1>1, <1>2
    <3> QED BY <1>2, <1>5, <3>1
  <2>3. /\ s[h + (Len(t) + 2) - 1] = w[Len(t) + 2]
        /\ s[h + (Len(t) + 3) - 1] = w[Len(t) + 3]
        /\ h + (Len(t) + 2) - 1 = h + Len(t) + 1 /\ h + (Len(t) + 3) - 1 = h + Len(t) + 2
    BY <1>1, <1>2, <1>5
  <2> QED BY <1>2, <2>1, <2>2, <2>3
<1>6. ASSUME /\ s[h] = "["
             /\ \A n \in 1 .. Len(t) : s[h + n] = t[n]
             /\ s[h + Len(t) + 1] = "]" /\ s[h + Len(t) + 2] = "\n",
             NEW n \in 1 .. Len(w)
      PROVE  s[h + n - 1] = w[n]
  <2>1. CASE n = 1
    <3>1. h + n - 1 = h BY <2>1
    <3> QED BY <1>2, <1>6, <2>1, <3>1
  <2>2. CASE n \in 2 .. Len(t) + 1
    <3>1. n - 1 \in 1 .. Len(t) /\ (n - 1) + 1 = n /\ h + (n - 1) = h + n - 1 BY <1>1, <2>2
    <3>2. w[n] = t[n - 1] BY <1>2, <3>1
    <3>3. s[h + n - 1] = t[n - 1] BY <1>6, <3>1
    <3> QED BY <3>2, <3>3
  <2>3. CASE n = Len(t) + 2
    <3>1. h + n - 1 = h + Len(t) + 1 BY <1>1, <2>3
    <3> QED BY <1>2, <1>6, <2>3, <3>1
  <2>4. CASE n = Len(t) + 3
    <3>1. h + n - 1 = h + Len(t) + 2 BY <1>1, <2>4
    <3> QED BY <1>2, <1>6, <2>4, <3>1
  <2> QED BY <1>1, <1>2, <2>1, <2>2, <2>3, <2>4
<1>7. At(s, w, h) <=>
           /\ h + Len(t) + 2 <= Len(s)
           /\ s[h] = "["
           /\ \A n \in 1 .. Len(t) : s[h + n] = t[n]
           /\ s[h + Len(t) + 1] = "]" /\ s[h + Len(t) + 2] = "\n"
  BY <1>3, <1>4, <1>5, <1>6
<1> QED BY <1>7 DEF w

LEMMA LineAt ==
  ASSUME NEW s \in Text, NEW p, NEW v, Plain(p), Plain(v), NEW i \in Nat \ {0}
  PROVE  At(s, Line(p, v), i) <=>
           /\ i + Len(p) + Len(v) + 1 <= Len(s)
           /\ \A n \in 1 .. Len(p) : s[i + n - 1] = p[n]
           /\ s[i + Len(p)] = "="
           /\ \A n \in 1 .. Len(v) : s[i + Len(p) + n] = v[n]
           /\ s[i + Len(p) + Len(v) + 1] = "\n"
<1> DEFINE w == Line(p, v)
<1>1. Len(p) \in Nat /\ Len(v) \in Nat BY PlainIs
<1>2. /\ w \in Text /\ Len(w) = Len(p) + Len(v) + 2
      /\ \A n \in 1 .. Len(p) : w[n] = p[n]
      /\ w[Len(p) + 1] = "="
      /\ \A n \in 1 .. Len(v) : w[Len(p) + 1 + n] = v[n]
      /\ w[Len(p) + Len(v) + 2] = "\n"
  BY LineIs
<1> HIDE DEF w
<1>3. At(s, w, i) <=> /\ i + Len(w) - 1 <= Len(s)
                      /\ \A n \in 1 .. Len(w) : s[i + n - 1] = w[n]
  BY <1>2, AtPoints
<1>4. i + Len(w) - 1 = i + Len(p) + Len(v) + 1 BY <1>1, <1>2
<1>5. ASSUME \A n \in 1 .. Len(w) : s[i + n - 1] = w[n]
      PROVE  /\ \A n \in 1 .. Len(p) : s[i + n - 1] = p[n]
             /\ s[i + Len(p)] = "="
             /\ \A n \in 1 .. Len(v) : s[i + Len(p) + n] = v[n]
             /\ s[i + Len(p) + Len(v) + 1] = "\n"
  <2>1. \A n \in 1 .. Len(p) : s[i + n - 1] = p[n] BY <1>1, <1>2, <1>5
  <2>2. ASSUME NEW n \in 1 .. Len(v) PROVE s[i + Len(p) + n] = v[n]
    <3>1. /\ Len(p) + 1 + n \in 1 .. Len(w)
          /\ i + (Len(p) + 1 + n) - 1 = i + Len(p) + n
      BY <1>1, <1>2
    <3> QED BY <1>2, <1>5, <3>1
  <2>3. /\ Len(p) + 1 \in 1 .. Len(w) /\ i + (Len(p) + 1) - 1 = i + Len(p)
        /\ Len(p) + Len(v) + 2 \in 1 .. Len(w)
        /\ i + (Len(p) + Len(v) + 2) - 1 = i + Len(p) + Len(v) + 1
    BY <1>1, <1>2
  <2>4. s[i + Len(p)] = "=" BY <1>2, <1>5, <2>3
  <2>5. s[i + Len(p) + Len(v) + 1] = "\n" BY <1>2, <1>5, <2>3
  <2> QED BY <2>1, <2>2, <2>4, <2>5
<1>6. ASSUME /\ \A n \in 1 .. Len(p) : s[i + n - 1] = p[n]
             /\ s[i + Len(p)] = "="
             /\ \A n \in 1 .. Len(v) : s[i + Len(p) + n] = v[n]
             /\ s[i + Len(p) + Len(v) + 1] = "\n",
             NEW n \in 1 .. Len(w)
      PROVE  s[i + n - 1] = w[n]
  <2>1. CASE n \in 1 .. Len(p) BY <1>2, <1>6, <2>1
  <2>2. CASE n = Len(p) + 1
    <3>1. i + n - 1 = i + Len(p) BY <1>1, <2>2
    <3> QED BY <1>2, <1>6, <2>2, <3>1
  <2>3. CASE n \in Len(p) + 2 .. Len(p) + Len(v) + 1
    <3> DEFINE m == n - (Len(p) + 1)
    <3>1. /\ m \in 1 .. Len(v) /\ Len(p) + 1 + m = n /\ i + Len(p) + m = i + n - 1
      BY <1>1, <2>3
    <3> HIDE DEF m
    <3>2. w[Len(p) + 1 + m] = v[m] BY <1>2, <3>1
    <3>3. s[i + Len(p) + m] = v[m] BY <1>6, <3>1
    <3> QED BY <3>1, <3>2, <3>3
  <2>4. CASE n = Len(p) + Len(v) + 2
    <3>1. i + n - 1 = i + Len(p) + Len(v) + 1 BY <1>1, <2>4
    <3> QED BY <1>2, <1>6, <2>4, <3>1
  <2> QED BY SMTT(40), <1>1, <1>2, <2>1, <2>2, <2>3, <2>4
<1>7. At(s, w, i) <=>
           /\ i + Len(p) + Len(v) + 1 <= Len(s)
           /\ \A n \in 1 .. Len(p) : s[i + n - 1] = p[n]
           /\ s[i + Len(p)] = "="
           /\ \A n \in 1 .. Len(v) : s[i + Len(p) + n] = v[n]
           /\ s[i + Len(p) + Len(v) + 1] = "\n"
  BY <1>3, <1>4, <1>5, <1>6
<1> QED BY <1>7 DEF w

LEMMA HeaderMarks ==
  ASSUME NEW s \in Text, NEW t, Plain(t), NEW h \in Nat \ {0}, At(s, Header(t), h),
         NEW i \in h .. h + Len(t) + 2
  PROVE  /\ s[i] # "="
         /\ s[i] = "[" <=> i = h
         /\ s[i] = "]" <=> i = h + Len(t) + 1
         /\ s[i] = "\n" <=> i = h + Len(t) + 2
<1>1. Len(t) \in Nat /\ \A n \in 1 .. Len(t) : t[n] \notin Marks BY PlainIs
<1>2. /\ s[h] = "[" /\ \A n \in 1 .. Len(t) : s[h + n] = t[n]
      /\ s[h + Len(t) + 1] = "]" /\ s[h + Len(t) + 2] = "\n"
  BY HeaderAt
<1>3. CASE i \in h + 1 .. h + Len(t)
  <2>1. i - h \in 1 .. Len(t) /\ h + (i - h) = i BY <1>1, <1>3
  <2>2. s[i] \notin Marks BY <1>1, <1>2, <2>1
  <2> QED BY <1>1, <1>3, <2>2 DEF Marks
<1> QED BY SMTT(40), <1>1, <1>2, <1>3

LEMMA LineMarks ==
  ASSUME NEW s \in Text, NEW p, NEW v, Plain(p), Plain(v), NEW j \in Nat \ {0},
         At(s, Line(p, v), j), NEW i \in j .. j + Len(p) + Len(v) + 1
  PROVE  /\ s[i] # "[" /\ s[i] # "]"
         /\ s[i] = "=" <=> i = j + Len(p)
         /\ s[i] = "\n" <=> i = j + Len(p) + Len(v) + 1
<1>1. /\ Len(p) \in Nat /\ \A n \in 1 .. Len(p) : p[n] \notin Marks
      /\ Len(v) \in Nat /\ \A n \in 1 .. Len(v) : v[n] \notin Marks
  BY PlainIs
<1>2. /\ \A n \in 1 .. Len(p) : s[j + n - 1] = p[n]
      /\ s[j + Len(p)] = "="
      /\ \A n \in 1 .. Len(v) : s[j + Len(p) + n] = v[n]
      /\ s[j + Len(p) + Len(v) + 1] = "\n"
  BY LineAt
<1>3. CASE i \in j .. j + Len(p) - 1
  <2>1. i - j + 1 \in 1 .. Len(p) /\ j + (i - j + 1) - 1 = i BY <1>1, <1>3
  <2>2. s[i] \notin Marks BY <1>1, <1>2, <2>1
  <2> QED BY <1>1, <1>3, <2>2 DEF Marks
<1>4. CASE i \in j + Len(p) + 1 .. j + Len(p) + Len(v)
  <2>1. i - (j + Len(p)) \in 1 .. Len(v) /\ j + Len(p) + (i - (j + Len(p))) = i BY <1>1, <1>4
  <2>2. s[i] \notin Marks BY <1>1, <1>2, <2>1
  <2> QED BY <1>1, <1>4, <2>2 DEF Marks
<1>5. CASE i = j + Len(p)
  <2>1. s[i] = "=" /\ i # j + Len(p) + Len(v) + 1 BY <1>1, <1>2, <1>5
  <2> QED BY <1>5, <2>1
<1>6. CASE i = j + Len(p) + Len(v) + 1
  <2>1. s[i] = "\n" /\ i # j + Len(p) BY <1>1, <1>2, <1>6
  <2> QED BY <1>6, <2>1
<1> QED BY <1>1, <1>3, <1>4, <1>5, <1>6

-----------------------------------------------------------------------------
(* Profiles. *)

(* From position i one looks back at the header of t. *)
InSection(s, t, i) ==
  \E h \in 1 .. i - 1 : At(s, Header(t), h) /\ \A n \in h + 1 .. i - 1 : s[n] # "["

(* The line of a key and a value, in a section of its token. *)
KeyLine(s, k, v, i) ==
  /\ i \in 2 .. Len(s) /\ s[i - 1] = "\n"
  /\ At(s, Line(k[2], v), i) /\ InSection(s, k[1], i)

(* A write that could not open the file for update leaves another section   *)
(* of the token.  What a profile says is in the first one.                  *)
Opens(s, t, h) == At(s, Header(t), h) /\ \A g \in 1 .. h - 1 : ~At(s, Header(t), g)

InFirst(s, t, i) ==
  \E h \in 1 .. i - 1 : Opens(s, t, h) /\ \A n \in h + 1 .. i - 1 : s[n] # "["

LiveLine(s, k, v, i) == KeyLine(s, k, v, i) /\ InFirst(s, k[1], i)

HeaderCovers(s, i) ==
  \E k \in Keys, h \in 1 .. i : At(s, Header(k[1]), h) /\ i <= h + Len(k[1]) + 2

LineCovers(s, i) ==
  \E k \in Keys, v \in Values, j \in 1 .. i :
    KeyLine(s, k, v, j) /\ i <= j + Len(k[2]) + Len(v) + 1

(* A profile has headers and lines and nothing else, and in the first       *)
(* section of a token each parameter at most once.                          *)
Profiled(s) ==
  /\ s \in Text
  /\ \A i \in 1 .. Len(s) : HeaderCovers(s, i) \/ LineCovers(s, i)
  /\ \A k \in Keys, v, w \in Values, i, j \in 1 .. Len(s) :
       LiveLine(s, k, v, i) /\ LiveLine(s, k, w, j) => i = j

LEMMA OpensOne ==
  ASSUME NEW s, NEW t, NEW g \in Nat \ {0}, NEW h \in Nat \ {0}, Opens(s, t, g), Opens(s, t, h)
  PROVE  g = h
<1>1. ~(g < h)
  <2>1. g < h => g \in 1 .. h - 1 OBVIOUS
  <2> QED BY <2>1 DEF Opens
<1>2. ~(h < g)
  <2>1. h < g => h \in 1 .. g - 1 OBVIOUS
  <2> QED BY <2>1 DEF Opens
<1> QED BY <1>1, <1>2

LEMMA OpensFirst ==
  ASSUME NEW s, NEW t, NEW h \in Nat \ {0}, At(s, Header(t), h)
  PROVE  \E g \in 1 .. h : Opens(s, t, g)
<1> DEFINE hits == {g \in 1 .. h : At(s, Header(t), g)}
<1>1. h \in hits /\ hits \subseteq Nat OBVIOUS
<1>2. PICK g \in hits : \A n \in hits : g <= n BY <1>1, Least
<1>3. ASSUME NEW n \in 1 .. g - 1, At(s, Header(t), n) PROVE FALSE
  <2>1. n \in hits /\ ~(g <= n) BY <1>3
  <2> QED BY <1>2, <2>1
<1> QED BY <1>2, <1>3 DEF Opens

LEMMA Names ==
  /\ \A k \in Keys : k = <<k[1], k[2]>> /\ Plain(k[1]) /\ Plain(k[2])
                     /\ Len(k[1]) \in Nat \ {0} /\ Len(k[2]) \in Nat \ {0}
  /\ \A v \in Values : Plain(v) /\ Len(v) \in Nat
<1>1. \A k \in Keys : k = <<k[1], k[2]>> /\ Plain(k[1]) /\ Plain(k[2])
                     /\ k[1] # <<>> /\ k[2] # <<>>
  BY NamesAssumption DEF WellNamed
<1>2. \A v \in Values : Plain(v) BY NamesAssumption DEF WellNamed
<1>3. \A w : Plain(w) /\ w # <<>> => Len(w) \in Nat \ {0} BY EmptySeq DEF Plain
<1>4. \A w : Plain(w) => Len(w) \in Nat BY PlainIs
<1> QED BY <1>1, <1>2, <1>3, <1>4

(* What a mark in a profile tells. *)
LEMMA OpenIs ==
  ASSUME NEW s, Profiled(s), NEW i \in 1 .. Len(s), s[i] = "["
  PROVE  \E k \in Keys : At(s, Header(k[1]), i)
<1>1. s \in Text /\ Len(s) \in Nat BY Size DEF Profiled
<1>2. ~LineCovers(s, i)
  <2> SUFFICES ASSUME NEW k \in Keys, NEW v \in Values, NEW j \in 1 .. i,
                      KeyLine(s, k, v, j), i <= j + Len(k[2]) + Len(v) + 1
               PROVE  FALSE
    BY DEF LineCovers
  <2>1. At(s, Line(k[2], v), j) BY DEF KeyLine
  <2>2. j \in Nat \ {0} /\ i \in j .. j + Len(k[2]) + Len(v) + 1 BY <1>1, Names
  <2> QED BY <1>1, <2>1, <2>2, Names, LineMarks
<1>3. PICK k \in Keys, h \in 1 .. i : At(s, Header(k[1]), h) /\ i <= h + Len(k[1]) + 2
  BY <1>2 DEF Profiled, HeaderCovers
<1>4. h \in Nat \ {0} /\ i \in h .. h + Len(k[1]) + 2 BY <1>1, <1>3, Names
<1>5. i = h BY <1>1, <1>3, <1>4, Names, HeaderMarks
<1> QED BY <1>3, <1>5

LEMMA CloseIs ==
  ASSUME NEW s, Profiled(s), NEW i \in 1 .. Len(s), s[i] = "]"
  PROVE  \E k \in Keys, h \in 1 .. i : At(s, Header(k[1]), h) /\ i = h + Len(k[1]) + 1
<1>1. s \in Text /\ Len(s) \in Nat BY Size DEF Profiled
<1>2. ~LineCovers(s, i)
  <2> SUFFICES ASSUME NEW k \in Keys, NEW v \in Values, NEW j \in 1 .. i,
                      KeyLine(s, k, v, j), i <= j + Len(k[2]) + Len(v) + 1
               PROVE  FALSE
    BY DEF LineCovers
  <2>1. At(s, Line(k[2], v), j) BY DEF KeyLine
  <2>2. j \in Nat \ {0} /\ i \in j .. j + Len(k[2]) + Len(v) + 1 BY <1>1, Names
  <2> QED BY <1>1, <2>1, <2>2, Names, LineMarks
<1>3. PICK k \in Keys, h \in 1 .. i : At(s, Header(k[1]), h) /\ i <= h + Len(k[1]) + 2
  BY <1>2 DEF Profiled, HeaderCovers
<1>4. h \in Nat \ {0} /\ i \in h .. h + Len(k[1]) + 2 BY <1>1, <1>3, Names
<1>5. i = h + Len(k[1]) + 1 BY <1>1, <1>3, <1>4, Names, HeaderMarks
<1> QED BY <1>3, <1>5

LEMMA EqualsIs ==
  ASSUME NEW s, Profiled(s), NEW i \in 1 .. Len(s), s[i] = "="
  PROVE  \E k \in Keys, v \in Values, j \in 1 .. i : KeyLine(s, k, v, j) /\ i = j + Len(k[2])
<1>1. s \in Text /\ Len(s) \in Nat BY Size DEF Profiled
<1>2. ~HeaderCovers(s, i)
  <2> SUFFICES ASSUME NEW k \in Keys, NEW h \in 1 .. i,
                      At(s, Header(k[1]), h), i <= h + Len(k[1]) + 2
               PROVE  FALSE
    BY DEF HeaderCovers
  <2>1. h \in Nat \ {0} /\ i \in h .. h + Len(k[1]) + 2 BY <1>1, Names
  <2> QED BY <1>1, <2>1, Names, HeaderMarks
<1>3. PICK k \in Keys, v \in Values, j \in 1 .. i :
        KeyLine(s, k, v, j) /\ i <= j + Len(k[2]) + Len(v) + 1
  BY <1>2 DEF Profiled, LineCovers
<1>4. At(s, Line(k[2], v), j) BY <1>3 DEF KeyLine
<1>5. j \in Nat \ {0} /\ i \in j .. j + Len(k[2]) + Len(v) + 1 BY <1>1, <1>3, Names
<1>6. i = j + Len(k[2]) BY <1>1, <1>4, <1>5, Names, LineMarks
<1> QED BY <1>3, <1>6

(* A header or line ends where another one begins, and where the text ends. *)
LEMMA EndIs ==
  ASSUME NEW s, Profiled(s), NEW i \in 1 .. Len(s), i = Len(s) \/ s[i + 1] = "["
  PROVE  s[i] = "\n"
<1>1. s \in Text /\ Len(s) \in Nat BY Size DEF Profiled
<1>2. CASE HeaderCovers(s, i)
  <2>1. PICK k \in Keys, h \in 1 .. i : At(s, Header(k[1]), h) /\ i <= h + Len(k[1]) + 2
    BY <1>2 DEF HeaderCovers
  <2>2. h \in Nat \ {0} /\ i \in h .. h + Len(k[1]) + 2 BY <1>1, <2>1, Names
  <2>3. h + Len(k[1]) + 2 <= Len(s) BY <1>1, <2>1, <2>2, Names, HeaderAt
  <2>4. CASE i < h + Len(k[1]) + 2
    <3>1. i + 1 \in h .. h + Len(k[1]) + 2 /\ i + 1 # h /\ i # Len(s)
      BY <1>1, <2>2, <2>3, <2>4, Names
    <3>2. s[i + 1] # "[" BY <1>1, <2>1, <2>2, <3>1, Names, HeaderMarks
    <3> QED BY <3>1, <3>2
  <2>5. CASE i = h + Len(k[1]) + 2
    BY <1>1, <2>1, <2>2, <2>5, Names, HeaderAt
  <2> QED BY <1>1, <2>1, <2>4, <2>5, Names
<1>3. CASE LineCovers(s, i)
  <2>1. PICK k \in Keys, v \in Values, j \in 1 .. i :
          KeyLine(s, k, v, j) /\ i <= j + Len(k[2]) + Len(v) + 1
    BY <1>3 DEF LineCovers
  <2>2. j \in Nat \ {0} /\ i \in j .. j + Len(k[2]) + Len(v) + 1 BY <1>1, <2>1, Names
  <2>3. At(s, Line(k[2], v), j) BY <2>1 DEF KeyLine
  <2>4. j + Len(k[2]) + Len(v) + 1 <= Len(s) BY <1>1, <2>2, <2>3, Names, LineAt
  <2>5. CASE i < j + Len(k[2]) + Len(v) + 1
    <3>1. i + 1 \in j .. j + Len(k[2]) + Len(v) + 1 /\ i # Len(s)
      BY <1>1, <2>2, <2>4, <2>5, Names
    <3>2. s[i + 1] # "[" BY <1>1, <2>2, <2>3, <3>1, Names, LineMarks
    <3> QED BY <3>1, <3>2
  <2>6. CASE i = j + Len(k[2]) + Len(v) + 1
    BY <1>1, <2>2, <2>3, <2>6, Names, LineAt
  <2>7. Len(k[2]) \in Nat /\ Len(v) \in Nat BY Names
  <2> QED BY <1>1, <2>1, <2>2, <2>5, <2>6, <2>7
<1> QED BY <1>2, <1>3 DEF Profiled

-----------------------------------------------------------------------------
(* What a name in a profile tells. *)

LEMMA Contained ==
  ASSUME NEW s \in Text, NEW w \in Text, NEW x \in Text, NEW o \in Nat,
         \A n \in 1 .. Len(x) : s[o + n] = x[n],
         NEW i \in Nat, At(s, w, i), o < i, i + Len(w) - 1 <= o + Len(x), Len(w) > 0
  PROVE  Occurs(w, x)
<1>1. Len(w) \in Nat /\ Len(x) \in Nat /\ i \in Nat \ {0} BY Size
<1>2. \A n \in 1 .. Len(w) : s[i + n - 1] = w[n] BY <1>1, AtPoints
<1> DEFINE m == i - o
<1>3. m \in 1 .. Len(x) /\ m \in Nat \ {0} /\ m + Len(w) - 1 <= Len(x) /\ o + m = i BY <1>1
<1> HIDE DEF m
<1>4. ASSUME NEW n \in 1 .. Len(w) PROVE x[m + n - 1] = w[n]
  <2>1. m + n - 1 \in 1 .. Len(x) /\ o + (m + n - 1) = i + n - 1 BY <1>1, <1>3
  <2> QED BY <1>2, <2>1
<1>5. At(x, w, m) BY <1>1, <1>3, <1>4, AtPoints
<1> QED BY <1>3, <1>5 DEF Occurs

LEMMA SameHeader ==
  ASSUME NEW s \in Text, NEW t, NEW u, Plain(t), Plain(u), NEW h \in Nat \ {0},
         At(s, Header(t), h), At(s, Header(u), h)
  PROVE  t = u
<1>1. t \in Text /\ Len(t) \in Nat /\ u \in Text /\ Len(u) \in Nat BY PlainIs
<1>2. /\ \A n \in 1 .. Len(t) : s[h + n] = t[n]
      /\ \A n \in 1 .. Len(u) : s[h + n] = u[n]
      /\ s[h + Len(t) + 1] = "]" /\ s[h + Len(u) + 1] = "]"
  BY HeaderAt
<1>3. ~(Len(t) < Len(u))
  <2>1. ASSUME Len(t) < Len(u) PROVE h + Len(t) + 1 \in h .. h + Len(u) + 2 BY <1>1, <2>1
  <2> QED BY <1>1, <1>2, <2>1, HeaderMarks
<1>4. ~(Len(u) < Len(t))
  <2>1. ASSUME Len(u) < Len(t) PROVE h + Len(u) + 1 \in h .. h + Len(t) + 2 BY <1>1, <2>1
  <2> QED BY <1>1, <1>2, <2>1, HeaderMarks
<1>5. Len(t) = Len(u) BY <1>1, <1>3, <1>4
<1>6. \A n \in 1 .. Len(t) : t[n] = u[n] BY <1>2, <1>5
<1> QED BY <1>1, <1>5, <1>6, SeqEqual DEF Text

LEMMA SameLine ==
  ASSUME NEW s \in Text, NEW p, NEW q, Plain(p), Plain(q), NEW v, NEW w, Plain(v), Plain(w),
         NEW i \in Nat \ {0}, At(s, Line(p, v), i), At(s, Line(q, w), i)
  PROVE  p = q /\ v = w
<1>1. /\ p \in Text /\ Len(p) \in Nat /\ q \in Text /\ Len(q) \in Nat
      /\ v \in Text /\ Len(v) \in Nat /\ w \in Text /\ Len(w) \in Nat
  BY PlainIs
<1>2. /\ \A n \in 1 .. Len(p) : s[i + n - 1] = p[n]
      /\ \A n \in 1 .. Len(v) : s[i + Len(p) + n] = v[n]
      /\ s[i + Len(p)] = "=" /\ s[i + Len(p) + Len(v) + 1] = "\n"
  BY LineAt
<1>3. /\ \A n \in 1 .. Len(q) : s[i + n - 1] = q[n]
      /\ \A n \in 1 .. Len(w) : s[i + Len(q) + n] = w[n]
      /\ s[i + Len(q)] = "=" /\ s[i + Len(q) + Len(w) + 1] = "\n"
  BY LineAt
<1>4. \A n \in i .. i + Len(p) + Len(v) + 1 :
        /\ s[n] = "=" <=> n = i + Len(p)
        /\ s[n] = "\n" <=> n = i + Len(p) + Len(v) + 1
  BY LineMarks
<1>5. \A n \in i .. i + Len(q) + Len(w) + 1 :
        /\ s[n] = "=" <=> n = i + Len(q)
        /\ s[n] = "\n" <=> n = i + Len(q) + Len(w) + 1
  BY LineMarks
<1>6. Len(p) = Len(q)
  <2>1. ~(Len(p) < Len(q))
    <3>1. ASSUME Len(p) < Len(q) PROVE i + Len(p) \in i .. i + Len(q) + Len(w) + 1 BY <1>1, <3>1
    <3> QED BY <1>1, <1>2, <1>5, <3>1
  <2>2. ~(Len(q) < Len(p))
    <3>1. ASSUME Len(q) < Len(p) PROVE i + Len(q) \in i .. i + Len(p) + Len(v) + 1 BY <1>1, <3>1
    <3> QED BY <1>1, <1>3, <1>4, <3>1
  <2> QED BY <1>1, <2>1, <2>2
<1>7. Len(v) = Len(w)
  <2>1. ~(Len(v) < Len(w))
    <3>1. ASSUME Len(v) < Len(w)
          PROVE  i + Len(p) + Len(v) + 1 \in i .. i + Len(q) + Len(w) + 1
      BY <1>1, <1>6, <3>1
    <3> QED BY <1>1, <1>2, <1>5, <1>6, <3>1
  <2>2. ~(Len(w) < Len(v))
    <3>1. ASSUME Len(w) < Len(v)
          PROVE  i + Len(q) + Len(w) + 1 \in i .. i + Len(p) + Len(v) + 1
      BY <1>1, <1>6, <3>1
    <3> QED BY <1>1, <1>3, <1>4, <1>6, <3>1
  <2> QED BY <1>1, <2>1, <2>2
<1>8. \A n \in 1 .. Len(p) : p[n] = q[n] BY <1>2, <1>3, <1>6
<1>9. \A n \in 1 .. Len(v) : v[n] = w[n] BY <1>2, <1>3, <1>6, <1>7
<1>10. p = q BY <1>1, <1>6, <1>8, SeqEqual DEF Text
<1>11. v = w BY <1>1, <1>7, <1>9, SeqEqual DEF Text
<1> QED BY <1>10, <1>11

(* Two sections that reach the same place are one. *)
LEMMA SameSection ==
  ASSUME NEW s \in Text, NEW t, NEW u, Plain(t), Plain(u), NEW i \in Nat, NEW j \in i .. Len(s),
         InSection(s, t, i), InSection(s, u, j), \A n \in i .. j - 1 : s[n] # "["
  PROVE  t = u
<1>1. Len(s) \in Nat /\ j \in Nat BY Size
<1>2. PICK h \in 1 .. i - 1 : At(s, Header(t), h) /\ \A n \in h + 1 .. i - 1 : s[n] # "["
  BY DEF InSection
<1>3. PICK g \in 1 .. j - 1 : At(s, Header(u), g) /\ \A n \in g + 1 .. j - 1 : s[n] # "["
  BY DEF InSection
<1>4. s[h] = "[" /\ s[g] = "[" BY <1>1, <1>2, <1>3, HeaderAt
<1>5. \A n \in h + 1 .. j - 1 : s[n] # "["
  <2> SUFFICES ASSUME NEW n \in h + 1 .. j - 1 PROVE s[n] # "["
    OBVIOUS
  <2>1. CASE n <= i - 1 BY <1>2, <2>1
  <2>2. CASE n > i - 1 BY <2>2
  <2> QED BY <2>1, <2>2
<1>6. ~(g < h) BY <1>1, <1>3, <1>4
<1>7. ~(h < g) BY <1>1, <1>4, <1>5
<1>8. h = g BY <1>6, <1>7
<1> QED BY <1>2, <1>3, <1>8, SameHeader

(* A token is only in its header and behind it. *)
LEMMA TokenIs ==
  ASSUME NEW s, Profiled(s), NEW k \in Keys, NEW i \in 1 .. Len(s), At(s, k[1], i)
  PROVE  \E h \in 1 .. i - 1 : At(s, Header(k[1]), h)
<1> DEFINE t == k[1]
           e == i + Len(t) - 1
<1>1. s \in Text /\ Len(s) \in Nat BY Size DEF Profiled
<1>2. Plain(t) /\ Len(t) \in Nat \ {0} BY Names
<1>3. t \in Text /\ \A n \in 1 .. Len(t) : t[n] \notin Marks BY <1>2, PlainIs
<1>4. e <= Len(s) /\ \A n \in 1 .. Len(t) : s[i + n - 1] = t[n] BY <1>1, <1>3, AtPoints
<1>5. \A n \in i .. e : s[n] \notin Marks
  <2> SUFFICES ASSUME NEW n \in i .. e PROVE s[n] \notin Marks
    OBVIOUS
  <2>1. n - i + 1 \in 1 .. Len(t) /\ i + (n - i + 1) - 1 = n BY <1>2
  <2> QED BY <1>3, <1>4, <2>1
<1>0. At(s, t, i) /\ t \in Text /\ i \in Nat /\ Len(t) > 0 BY <1>2, <1>3
<1> HIDE DEF t
<1>6. CASE HeaderCovers(s, i)
  <2>1. PICK l \in Keys, h \in 1 .. i : At(s, Header(l[1]), h) /\ i <= h + Len(l[1]) + 2
    BY <1>6 DEF HeaderCovers
  <2>2. Plain(l[1]) /\ Len(l[1]) \in Nat /\ l[1] \in Text BY Names, PlainIs
  <2>3. /\ s[h] = "[" /\ \A n \in 1 .. Len(l[1]) : s[h + n] = l[1][n]
        /\ s[h + Len(l[1]) + 1] = "]" /\ s[h + Len(l[1]) + 2] = "\n"
    BY <1>1, <2>1, <2>2, HeaderAt
  <2>4. h < i /\ e <= h + Len(l[1])
    <3>1. i \in i .. e BY <1>2
    <3>2. s[i] \notin Marks BY <1>5, <3>1
    <3>3. i # h /\ i # h + Len(l[1]) + 1 /\ i # h + Len(l[1]) + 2 BY <2>3, <3>2 DEF Marks
    <3>4. h + Len(l[1]) + 1 \notin i .. e BY <1>5, <2>3 DEF Marks
    <3> QED BY <1>2, <2>1, <2>2, <3>3, <3>4
  <2>5. Occurs(t, l[1])
    <3>1. h \in Nat /\ i + Len(t) - 1 <= h + Len(l[1]) BY <1>2, <2>4 DEF e
    <3> QED BY <1>0, <1>1, <2>2, <2>3, <2>4, <3>1, Contained
  <2>6. l[1] = t BY <2>5, NamesAssumption DEF WellNamed, t
  <2> QED BY <2>1, <2>4, <2>6 DEF t
<1>7. CASE LineCovers(s, i)
  <2>1. PICK l \in Keys, v \in Values, j \in 1 .. i :
          KeyLine(s, l, v, j) /\ i <= j + Len(l[2]) + Len(v) + 1
    BY <1>7 DEF LineCovers
  <2>2. /\ Plain(l[2]) /\ Len(l[2]) \in Nat /\ l[2] \in Text
        /\ Plain(v) /\ Len(v) \in Nat /\ v \in Text
    BY Names, PlainIs
  <2>3. At(s, Line(l[2], v), j) /\ InSection(s, l[1], j) /\ j \in Nat \ {0}
    BY <2>1 DEF KeyLine
  <2>4. /\ \A n \in 1 .. Len(l[2]) : s[j + n - 1] = l[2][n]
        /\ s[j + Len(l[2])] = "="
        /\ \A n \in 1 .. Len(v) : s[j + Len(l[2]) + n] = v[n]
        /\ s[j + Len(l[2]) + Len(v) + 1] = "\n"
    <3>1. s \in Text /\ Plain(l[2]) /\ Plain(v) BY <1>1, <2>2
    <3> DEFINE p == l[2]
    <3>2. At(s, Line(p, v), j) /\ Plain(p) /\ j \in Nat \ {0} BY <2>3, <3>1
    <3> HIDE DEF p
    <3>3. /\ \A n \in 1 .. Len(p) : s[j + n - 1] = p[n]
          /\ s[j + Len(p)] = "="
          /\ \A n \in 1 .. Len(v) : s[j + Len(p) + n] = v[n]
          /\ s[j + Len(p) + Len(v) + 1] = "\n"
      BY <3>1, <3>2, LineAt
    <3> QED BY <3>3 DEF p
  <2>5. i \in i .. e /\ s[i] \notin Marks
    <3>1. i \in i .. e BY <1>2
    <3> QED BY <1>5, <3>1
  <2>6. CASE i < j + Len(l[2])
    <3>1. j + Len(l[2]) \notin i .. e BY <1>5, <2>4 DEF Marks
    <3>2. j - 1 < i /\ i + Len(t) - 1 <= (j - 1) + Len(l[2]) BY <1>2, <2>1, <2>2, <2>6, <3>1
    <3>3. \A n \in 1 .. Len(l[2]) : s[(j - 1) + n] = l[2][n]
      <4> SUFFICES ASSUME NEW n \in 1 .. Len(l[2]) PROVE s[(j - 1) + n] = l[2][n]
        OBVIOUS
      <4>1. (j - 1) + n = j + n - 1 OBVIOUS
      <4> QED BY <2>4, <4>1
    <3>4. Occurs(t, l[2])
      <4>1. j - 1 \in Nat BY <2>3
      <4> QED BY <1>0, <1>1, <2>2, <3>2, <3>3, <4>1, Contained
    <3>5. l[1] = t BY <3>4, NamesAssumption DEF WellNamed, t
    <3>6. PICK h \in 1 .. j - 1 : At(s, Header(l[1]), h) BY <2>3 DEF InSection
    <3>7. h \in 1 .. i - 1 BY <2>1, <3>6
    <3> QED BY <3>5, <3>6, <3>7 DEF t
  <2>7. CASE i > j + Len(l[2])
    <3>1. i # j + Len(l[2]) + Len(v) + 1 BY <2>4, <2>5 DEF Marks
    <3>2. j + Len(l[2]) + Len(v) + 1 \notin i .. e BY <1>5, <2>4 DEF Marks
    <3>3. i + Len(t) - 1 <= (j + Len(l[2])) + Len(v) BY <1>2, <2>1, <2>2, <3>1, <3>2
    <3>4. j + Len(l[2]) \in Nat BY <2>2
    <3>5. Occurs(t, v)
      <4>1. j + Len(l[2]) < i BY <2>7
      <4> QED BY <1>0, <1>1, <2>2, <2>4, <3>3, <3>4, <4>1, Contained
    <3> QED BY <3>5, NamesAssumption DEF WellNamed, t
  <2>8. i # j + Len(l[2]) BY <2>4, <2>5 DEF Marks
  <2> QED BY <2>2, <2>6, <2>7, <2>8
<1> QED BY <1>6, <1>7 DEF Profiled

LEMMA AppendIs ==
  ASSUME NEW p, Plain(p), NEW m \in Marks
  PROVE  /\ Append(p, m) \in Text /\ Len(Append(p, m)) = Len(p) + 1
         /\ \A n \in 1 .. Len(p) : Append(p, m)[n] = p[n]
         /\ Append(p, m)[Len(p) + 1] = m
<1>1. m \in Pieces BY DEF Pieces
<1> QED BY <1>1, PlainIs, AppendProperties DEF Text

LEMMA AppendAt ==
  ASSUME NEW s \in Text, NEW p, Plain(p), NEW m \in Marks, NEW i \in Nat \ {0}
  PROVE  At(s, Append(p, m), i) <=>
           /\ i + Len(p) <= Len(s)
           /\ \A n \in 1 .. Len(p) : s[i + n - 1] = p[n]
           /\ s[i + Len(p)] = m
<1> DEFINE w == Append(p, m)
<1>1. Len(p) \in Nat BY PlainIs
<1>2. /\ w \in Text /\ Len(w) = Len(p) + 1
      /\ \A n \in 1 .. Len(p) : w[n] = p[n]
      /\ w[Len(p) + 1] = m
  BY AppendIs
<1> HIDE DEF w
<1>3. At(s, w, i) <=> /\ i + Len(w) - 1 <= Len(s)
                      /\ \A n \in 1 .. Len(w) : s[i + n - 1] = w[n]
  BY <1>2, AtPoints
<1>4. i + Len(w) - 1 = i + Len(p) BY <1>1, <1>2
<1>5. (\A n \in 1 .. Len(w) : s[i + n - 1] = w[n]) <=>
        /\ \A n \in 1 .. Len(p) : s[i + n - 1] = p[n]
        /\ s[i + Len(p)] = m
  <2>1. i + (Len(p) + 1) - 1 = i + Len(p) BY <1>1
  <2>2. 1 .. Len(w) = (1 .. Len(p)) \union {Len(p) + 1} BY <1>1, <1>2
  <2> QED BY <1>2, <2>1, <2>2
<1>6. At(s, w, i) <=>
           /\ i + Len(p) <= Len(s)
           /\ \A n \in 1 .. Len(p) : s[i + n - 1] = p[n]
           /\ s[i + Len(p)] = m
  BY <1>3, <1>4, <1>5
<1> QED BY <1>6 DEF w

LEMMA ParameterIsText ==
  ASSUME NEW p, Plain(p)
  PROVE  /\ Append(p, "=") \in Text /\ Len(Append(p, "=")) = Len(p) + 1
         /\ \A n \in 1 .. Len(p) : Append(p, "=")[n] = p[n]
         /\ Append(p, "=")[Len(p) + 1] = "="
<1>1. "=" \in Marks BY DEF Marks
<1> QED BY <1>1, AppendIs

LEMMA ParameterAt ==
  ASSUME NEW s \in Text, NEW p, Plain(p), NEW i \in Nat \ {0}
  PROVE  At(s, Append(p, "="), i) <=>
           /\ i + Len(p) <= Len(s)
           /\ \A n \in 1 .. Len(p) : s[i + n - 1] = p[n]
           /\ s[i + Len(p)] = "="
<1>1. "=" \in Marks BY DEF Marks
<1> QED BY <1>1, AppendAt

(* In the section of its token, a parameter with its "=" is only in its     *)
(* line.                                                                    *)
LEMMA ParameterIs ==
  ASSUME NEW s, Profiled(s), NEW k \in Keys, NEW i \in 1 .. Len(s),
         At(s, Append(k[2], "="), i), InSection(s, k[1], i + Len(k[2]))
  PROVE  \E v \in Values : KeyLine(s, k, v, i)
<1> DEFINE p == k[2]
           e == i + Len(p)
<1>1. s \in Text /\ Len(s) \in Nat BY Size DEF Profiled
<1>2. Plain(k[1]) /\ Plain(p) /\ Len(p) \in Nat \ {0} BY Names
<1>3. p \in Text /\ \A n \in 1 .. Len(p) : p[n] \notin Marks BY <1>2, PlainIs
<1>4. /\ e <= Len(s) /\ s[e] = "="
      /\ \A n \in 1 .. Len(p) : s[i + n - 1] = p[n]
  BY <1>1, <1>2, ParameterAt
<1>5. \A n \in i .. e - 1 : s[n] \notin Marks
  <2> SUFFICES ASSUME NEW n \in i .. e - 1 PROVE s[n] \notin Marks
    OBVIOUS
  <2>1. n - i + 1 \in 1 .. Len(p) /\ i + (n - i + 1) - 1 = n BY <1>2
  <2> QED BY <1>3, <1>4, <2>1
<1>6. e \in 1 .. Len(s) BY <1>1, <1>2, <1>4
<1>7. At(s, Append(p, "="), i) /\ InSection(s, k[1], e) OBVIOUS
<1> HIDE DEF p, e
<1>8. PICK l \in Keys, v \in Values, j \in 1 .. e : KeyLine(s, l, v, j) /\ e = j + Len(l[2])
  BY <1>4, <1>6, EqualsIs
<1>9. /\ Plain(l[1]) /\ Plain(l[2]) /\ Len(l[2]) \in Nat \ {0} /\ l[2] \in Text
      /\ Plain(v) /\ Len(v) \in Nat
  BY Names, PlainIs
<1>10. /\ At(s, Line(l[2], v), j) /\ InSection(s, l[1], j) /\ j \in Nat \ {0}
       /\ j \in 2 .. Len(s) /\ s[j - 1] = "\n"
  BY <1>8 DEF KeyLine
<1>11. l[1] = k[1]
  <2>1. \A n \in j .. e - 1 : s[n] # "["
    <3> SUFFICES ASSUME NEW n \in j .. e - 1 PROVE s[n] # "["
      OBVIOUS
    <3>1. n \in j .. j + Len(l[2]) + Len(v) + 1 BY <1>8, <1>9
    <3> QED BY <1>1, <1>9, <1>10, <3>1, LineMarks
  <2>2. e \in j .. Len(s) /\ j \in Nat BY <1>6, <1>8
  <2> QED BY <1>1, <1>2, <1>7, <1>9, <1>10, <2>1, <2>2, SameSection
<1>12. j <= i
  <2> SUFFICES ASSUME i < j PROVE FALSE
    BY <1>8
  <2>1. j - 1 \in i .. e - 1 BY <1>6, <1>8, <1>9
  <2> QED BY <1>5, <1>10, <2>1 DEF Marks
<1>13. Occurs(Append(p, "="), Append(l[2], "="))
  <2> DEFINE w == Append(p, "=")
             x == Append(l[2], "=")
  <2>1. w \in Text /\ Len(w) = Len(p) + 1 BY <1>2, ParameterIsText
  <2>2. /\ x \in Text /\ Len(x) = Len(l[2]) + 1
        /\ \A n \in 1 .. Len(l[2]) : x[n] = l[2][n]
        /\ x[Len(l[2]) + 1] = "="
    BY <1>9, ParameterIsText
  <2>3. At(s, w, i) BY <1>7
  <2> HIDE DEF w, x
  <2>4. /\ \A n \in 1 .. Len(l[2]) : s[j + n - 1] = l[2][n]
        /\ s[j + Len(l[2])] = "="
    BY SMTT(40), <1>1, <1>9, <1>10, LineAt
  <2>5. \A n \in 1 .. Len(x) : s[(j - 1) + n] = x[n]
    <3> SUFFICES ASSUME NEW n \in 1 .. Len(x) PROVE s[(j - 1) + n] = x[n]
      OBVIOUS
    <3>1. CASE n = Len(l[2]) + 1
      <4>1. (j - 1) + n = j + Len(l[2]) BY <1>9, <3>1
      <4> QED BY <2>2, <2>4, <3>1, <4>1
    <3>2. CASE n \in 1 .. Len(l[2])
      <4>1. (j - 1) + n = j + n - 1 BY <3>2
      <4> QED BY <2>2, <2>4, <3>2, <4>1
    <3> QED BY <1>9, <2>2, <3>1, <3>2
  <2>6. /\ j - 1 \in Nat /\ i \in Nat /\ j - 1 < i /\ Len(w) > 0
        /\ i + Len(w) - 1 <= (j - 1) + Len(x)
    BY <1>2, <1>8, <1>9, <1>10, <1>12, <2>1, <2>2 DEF e
  <2>7. Occurs(w, x) BY <1>1, <2>1, <2>2, <2>3, <2>5, <2>6, Contained
  <2> QED BY <2>7 DEF w, x
<1>14. l[2] = p BY <1>11, <1>13, NamesAssumption DEF WellNamed, p
<1>15. l = k
  <2>1. l = <<l[1], l[2]>> /\ k = <<k[1], k[2]>> BY Names
  <2> QED BY <1>11, <1>14, <2>1 DEF p
<1>16. j = i BY <1>2, <1>8, <1>14 DEF e
<1> QED BY <1>8, <1>15, <1>16

-----------------------------------------------------------------------------
(* What is found behind a parameter. *)

LEMMA SubIs ==
  ASSUME NEW s \in Text, NEW a \in Nat \ {0}, NEW b \in a - 1 .. Len(s)
  PROVE  /\ SubSeq(s, a, b) \in Text /\ Len(SubSeq(s, a, b)) = b - a + 1
         /\ \A n \in 1 .. b - a + 1 : SubSeq(s, a, b)[n] = s[a + n - 1]
<1>1. Len(s) \in Nat /\ b \in Int /\ a \in Int BY Size
<1>2. \A n \in a .. b : s[n] \in Pieces BY <1>1, ElementOfSeq DEF Text
<1> QED BY <1>1, <1>2, SubSeqProperties DEF Text

LEMMA AtSub ==
  ASSUME NEW s \in Text, NEW w \in Text, NEW a \in Nat \ {0}, NEW b \in a - 1 .. Len(s),
         NEW n \in Nat \ {0}, Len(w) > 0
  PROVE  At(SubSeq(s, a, b), w, n) <=> At(s, w, a + n - 1) /\ a + n - 1 + Len(w) - 1 <= b
<1> DEFINE r == SubSeq(s, a, b)
           i == a + n - 1
<1>1. Len(s) \in Nat /\ Len(w) \in Nat /\ b \in Int /\ i \in Nat \ {0} BY Size
<1>2. /\ r \in Text /\ Len(r) = b - a + 1
      /\ \A m \in 1 .. b - a + 1 : r[m] = s[a + m - 1]
  BY SubIs
<1>0. i = a + n - 1 OBVIOUS
<1> HIDE DEF r, i
<1>3. At(r, w, n) <=> /\ n + Len(w) - 1 <= Len(r)
                      /\ \A m \in 1 .. Len(w) : r[n + m - 1] = w[m]
  BY <1>2, AtPoints
<1>4. At(s, w, i) <=> /\ i + Len(w) - 1 <= Len(s)
                      /\ \A m \in 1 .. Len(w) : s[i + m - 1] = w[m]
  BY <1>1, AtPoints
<1>5. n + Len(w) - 1 <= Len(r) <=> i + Len(w) - 1 <= b BY <1>0, <1>1, <1>2
<1>6. ASSUME n + Len(w) - 1 <= Len(r), NEW m \in 1 .. Len(w)
      PROVE  r[n + m - 1] = s[i + m - 1]
  <2>1. n + m - 1 \in 1 .. b - a + 1 /\ a + (n + m - 1) - 1 = i + m - 1
    BY <1>0, <1>1, <1>2, <1>6
  <2> QED BY <1>2, <2>1
<1>7. i + Len(w) - 1 <= b => i + Len(w) - 1 <= Len(s) BY <1>1
<1>8. At(r, w, n) <=> At(s, w, i) /\ i + Len(w) - 1 <= b
  BY <1>3, <1>4, <1>5, <1>6, <1>7
<1> QED BY <1>8 DEF r, i

LEMMA LineValue ==
  ASSUME NEW s \in Text, NEW p, NEW v, Plain(p), Plain(v), NEW i \in Nat \ {0},
         At(s, Line(p, v), i)
  PROVE  SubSeq(s, i + Len(p) + 1, i + Len(p) + Len(v)) = v
<1> DEFINE a == i + Len(p) + 1
           b == i + Len(p) + Len(v)
           r == SubSeq(s, a, b)
<1>1. Len(p) \in Nat /\ Len(v) \in Nat /\ v \in Text /\ Len(s) \in Nat BY PlainIs, Size
<1>2. /\ i + Len(p) + Len(v) + 1 <= Len(s)
      /\ \A n \in 1 .. Len(v) : s[i + Len(p) + n] = v[n]
  BY LineAt
<1>3. a \in Nat \ {0} /\ b \in a - 1 .. Len(s) /\ b - a + 1 = Len(v) BY <1>1, <1>2
<1>4. \A n \in 1 .. Len(v) : a + n - 1 = i + Len(p) + n BY <1>1
<1> HIDE DEF a, b
<1>5. /\ r \in Text /\ Len(r) = Len(v)
      /\ \A n \in 1 .. Len(v) : r[n] = s[a + n - 1]
  <2>1. /\ r \in Text /\ Len(r) = b - a + 1
        /\ \A n \in 1 .. b - a + 1 : r[n] = s[a + n - 1]
    BY <1>3, SubIs
  <2> QED BY <1>3, <2>1
<1> HIDE DEF r
<1>6. r = v BY <1>1, <1>2, <1>4, <1>5, SeqEqual DEF Text
<1> QED BY <1>6 DEF r, a, b

LEMMA LineEnd ==
  ASSUME NEW s \in Text, NEW p, NEW v, Plain(p), Plain(v), NEW i \in Nat \ {0},
         At(s, Line(p, v), i), NEW from \in i .. i + Len(p) + Len(v) + 1
  PROVE  Strstr(s, <<"\n">>, from) = i + Len(p) + Len(v) + 1
<1> DEFINE e == i + Len(p) + Len(v) + 1
           w == <<"\n">>
<1>1. Len(p) \in Nat /\ Len(v) \in Nat /\ Len(s) \in Nat BY PlainIs, Size
<1>2. e <= Len(s) BY LineAt
<1>3. \A n \in i .. e : s[n] = "\n" <=> n = e BY LineMarks
<1>4. "\n" \in Pieces BY DEF Pieces, Marks
<1>5. \A n \in i .. e : At(s, w, n) <=> n = e
  <2> SUFFICES ASSUME NEW n \in i .. e PROVE At(s, w, n) <=> n = e
    OBVIOUS
  <2>1. n \in 1 .. Len(s) BY <1>1, <1>2
  <2> QED BY <1>3, <1>4, <2>1, AtMark
<1>6. from \in Nat \ {0} /\ e \in from .. Len(s) /\ e \in i .. e /\ from \in i .. e
  BY <1>1, <1>2
<1> HIDE DEF e, w
<1>7. At(s, w, e) /\ \A n \in from .. e - 1 : ~At(s, w, n) BY <1>5, <1>6
<1>8. Strstr(s, w, from) = e BY <1>6, <1>7, StrstrIs
<1> QED BY <1>8 DEF e, w

(* A word has no "\n" in it; it is not cut by the end of a profile. *)
Unbroken(w) == w \in Text /\ Len(w) > 0 /\ \A n \in 1 .. Len(w) : w[n] # "\n"

LEMMA FrontAt ==
  ASSUME NEW s \in Text, NEW tail \in Text, NEW w \in Text, NEW i \in Nat \ {0}, At(s, w, i)
  PROVE  At(s \o tail, w, i)
<1> DEFINE u == s \o tail
<1>1. Len(s) \in Nat /\ Len(tail) \in Nat /\ Len(w) \in Nat BY Size
<1>2. u \in Text /\ Len(u) = Len(s) + Len(tail) /\ \A n \in 1 .. Len(s) : u[n] = s[n] BY Joined
<1>3. /\ i + Len(w) - 1 <= Len(s)
      /\ \A n \in 1 .. Len(w) : s[i + n - 1] = w[n]
  BY AtPoints
<1> HIDE DEF u
<1>4. \A n \in 1 .. Len(w) : u[i + n - 1] = w[n]
  <2> SUFFICES ASSUME NEW n \in 1 .. Len(w) PROVE u[i + n - 1] = w[n]
    OBVIOUS
  <2>1. i + n - 1 \in 1 .. Len(s) BY <1>1, <1>3
  <2> QED BY <1>2, <1>3, <2>1
<1>5. i + Len(w) - 1 <= Len(u) BY <1>1, <1>2, <1>3
<1>6. At(u, w, i) BY <1>2, <1>4, <1>5, AtPoints
<1> QED BY <1>6 DEF u

LEMMA TailAt ==
  ASSUME NEW s, Profiled(s), NEW tail \in Text, NEW w, Unbroken(w),
         NEW i \in Nat \ {0}, At(s \o tail, w, i)
  PROVE  \/ i \in 1 .. Len(s) /\ At(s, w, i)
         \/ i - Len(s) \in 1 .. Len(tail) /\ At(tail, w, i - Len(s))
<1> DEFINE u == s \o tail
           e == i + Len(w) - 1
<1>1. /\ s \in Text /\ Len(s) \in Nat /\ Len(tail) \in Nat /\ w \in Text
      /\ Len(w) \in Nat \ {0}
  BY Size DEF Profiled, Unbroken
<1>2. /\ u \in Text /\ Len(u) = Len(s) + Len(tail)
      /\ \A n \in 1 .. Len(s) : u[n] = s[n]
      /\ \A n \in 1 .. Len(tail) : u[Len(s) + n] = tail[n]
  BY <1>1, Joined
<1>3. At(u, w, i) OBVIOUS
<1> HIDE DEF u
<1>4. /\ i + Len(w) - 1 <= Len(u)
      /\ \A n \in 1 .. Len(w) : u[i + n - 1] = w[n]
  BY <1>1, <1>2, <1>3, AtPoints
<1>5. CASE e <= Len(s)
  <2>1. \A n \in 1 .. Len(w) : s[i + n - 1] = w[n]
    <3> SUFFICES ASSUME NEW n \in 1 .. Len(w) PROVE s[i + n - 1] = w[n]
      OBVIOUS
    <3>1. i + n - 1 \in 1 .. Len(s) BY <1>1, <1>5
    <3> QED BY <1>2, <1>4, <3>1
  <2>2. At(s, w, i) BY <1>1, <1>5, <2>1, AtPoints
  <2>3. i \in 1 .. Len(s) BY <1>1, <1>5
  <2> QED BY <2>2, <2>3
<1>6. CASE i > Len(s)
  <2> DEFINE j == i - Len(s)
  <2>1. j \in Nat \ {0} /\ j + Len(w) - 1 <= Len(tail) /\ Len(s) + j = i BY <1>1, <1>2, <1>4, <1>6
  <2> HIDE DEF j
  <2>2. \A n \in 1 .. Len(w) : tail[j + n - 1] = w[n]
    <3> SUFFICES ASSUME NEW n \in 1 .. Len(w) PROVE tail[j + n - 1] = w[n]
      OBVIOUS
    <3>1. j + n - 1 \in 1 .. Len(tail) /\ Len(s) + (j + n - 1) = i + n - 1 BY <1>1, <2>1
    <3> QED BY <1>2, <1>4, <3>1
  <2>3. At(tail, w, j) BY <1>1, <2>1, <2>2, AtPoints
  <2>4. j \in 1 .. Len(tail) BY <1>1, <2>1
  <2> QED BY <2>3, <2>4 DEF j
<1>7. CASE i <= Len(s) /\ e > Len(s)
  <2>1. Len(s) \in 1 .. Len(s) BY <1>1, <1>7
  <2>2. s[Len(s)] = "\n" BY <2>1, EndIs
  <2> DEFINE n == Len(s) - i + 1
  <2>3. n \in 1 .. Len(w) /\ i + n - 1 = Len(s) BY <1>1, <1>7
  <2>4. u[Len(s)] = w[n] BY <1>4, <2>3
  <2> QED BY <1>2, <2>1, <2>2, <2>3, <2>4 DEF Unbroken
<1> QED BY <1>1, <1>5, <1>6, <1>7

LEMMA NamesUnbroken ==
  ASSUME NEW k \in Keys
  PROVE  Unbroken(k[1]) /\ Unbroken(Append(k[2], "="))
<1>1. Unbroken(k[1])
  <2>1. k[1] \in Text /\ Len(k[1]) \in Nat \ {0} /\ \A n \in 1 .. Len(k[1]) : k[1][n] \notin Marks
    BY Names, PlainIs
  <2> QED BY <2>1 DEF Unbroken, Marks
<1>2. Unbroken(Append(k[2], "="))
  <2> DEFINE p == k[2]
             w == Append(p, "=")
  <2>1. Plain(p) /\ Len(p) \in Nat \ {0} BY Names
  <2>2. \A n \in 1 .. Len(p) : p[n] \notin Marks BY <2>1, PlainIs
  <2>3. /\ w \in Text /\ Len(w) = Len(p) + 1
        /\ \A n \in 1 .. Len(p) : w[n] = p[n]
        /\ w[Len(p) + 1] = "="
    BY <2>1, ParameterIsText
  <2> HIDE DEF w, p
  <2>4. \A n \in 1 .. Len(w) : w[n] # "\n"
    <3> SUFFICES ASSUME NEW n \in 1 .. Len(w) PROVE w[n] # "\n"
      OBVIOUS
    <3>1. CASE n \in 1 .. Len(p) BY <2>2, <2>3, <3>1 DEF Marks
    <3>2. CASE n = Len(p) + 1 BY <2>3, <3>2
    <3> QED BY <2>1, <2>3, <3>1, <3>2
  <2>5. Unbroken(w) BY <2>1, <2>3, <2>4 DEF Unbroken
  <2> QED BY <2>5 DEF w, p
<1> QED BY <1>1, <1>2

-----------------------------------------------------------------------------
(* Reading. *)

(* What a profile says of a key. *)
Says(s, k) == {v \in Values : \E i \in 1 .. Len(s) : LiveLine(s, k, v, i)}

LEMMA SaysOne ==
  ASSUME NEW s, Profiled(s), NEW k \in Keys, NEW v \in Values, NEW i \in 1 .. Len(s),
         LiveLine(s, k, v, i)
  PROVE  Says(s, k) = {v}
<1>1. s \in Text /\ i \in Nat \ {0} BY DEF Profiled
<1>2. ASSUME NEW w \in Values, NEW j \in 1 .. Len(s), LiveLine(s, k, w, j)
      PROVE  w = v
  <2>1. i = j BY <1>2 DEF Profiled
  <2>2. At(s, Line(k[2], v), i) /\ At(s, Line(k[2], w), i) BY <1>2, <2>1 DEF LiveLine, KeyLine
  <2> QED BY <1>1, <2>2, Names, SameLine
<1> QED BY <1>2 DEF Says

(* Without a header it says nothing. *)
LEMMA SaysNothing ==
  ASSUME NEW s, Profiled(s), NEW k \in Keys,
         \A h \in 1 .. Len(s) : ~At(s, Header(k[1]), h)
  PROVE  Says(s, k) = {}
<1>1. Len(s) \in Nat BY Size DEF Profiled
<1>2. ASSUME NEW v \in Values, NEW i \in 1 .. Len(s), LiveLine(s, k, v, i) PROVE FALSE
  <2>1. PICK h \in 1 .. i - 1 : At(s, Header(k[1]), h) BY <1>2 DEF LiveLine, KeyLine, InSection
  <2>2. h \in 1 .. Len(s) BY <1>1
  <2> QED BY <2>1, <2>2
<1> QED BY <1>2 DEF Says

LEMMA HeaderToken ==
  ASSUME NEW s \in Text, NEW k \in Keys, NEW h \in Nat \ {0}, At(s, Header(k[1]), h)
  PROVE  At(s, k[1], h + 1)
<1> DEFINE t == k[1]
<1>1. Plain(t) /\ t \in Text /\ Len(t) \in Nat /\ Len(s) \in Nat BY Names, PlainIs, Size
<1>2. At(s, Header(t), h) OBVIOUS
<1> HIDE DEF t
<1>3. h + Len(t) + 2 <= Len(s) /\ \A n \in 1 .. Len(t) : s[h + n] = t[n]
  BY <1>1, <1>2, HeaderAt
<1>4. \A n \in 1 .. Len(t) : s[(h + 1) + n - 1] = t[n]
  <2> SUFFICES ASSUME NEW n \in 1 .. Len(t) PROVE s[(h + 1) + n - 1] = t[n]
    OBVIOUS
  <2>1. (h + 1) + n - 1 = h + n OBVIOUS
  <2> QED BY <1>3, <2>1
<1>5. (h + 1) + Len(t) - 1 <= Len(s) BY <1>1, <1>3
<1>6. At(s, t, h + 1) BY <1>1, <1>4, <1>5, AtPoints
<1> QED BY <1>6 DEF t

(* The first occurrence of a token is in its first header, if it has one. *)
LEMMA StartIs ==
  ASSUME NEW s, Profiled(s), NEW tail \in Text, NEW k \in Keys,
         NEW h \in Nat \ {0}, Opens(s, k[1], h)
  PROVE  Strstr(s \o tail, k[1], 1) = h + 1
<1> DEFINE u == s \o tail
<1>1. /\ s \in Text /\ Len(s) \in Nat /\ Len(tail) \in Nat /\ u \in Text
      /\ Len(u) = Len(s) + Len(tail)
  BY Size, Joined DEF Profiled
<1>2. Plain(k[1]) /\ Len(k[1]) \in Nat /\ k[1] \in Text /\ At(s, Header(k[1]), h)
  BY Names, PlainIs DEF Opens
<1>3. h + Len(k[1]) + 2 <= Len(s) BY <1>1, <1>2, HeaderAt
<1>4. At(u, k[1], h + 1) BY <1>1, <1>2, HeaderToken, FrontAt
<1>5. ASSUME NEW i \in 1 .. h, At(u, k[1], i) PROVE FALSE
  <2>1. i \in Nat \ {0} /\ ~(i - Len(s) \in 1 .. Len(tail)) BY <1>1, <1>2, <1>3
  <2>2. i \in 1 .. Len(s) /\ At(s, k[1], i) BY <1>5, <2>1, NamesUnbroken, TailAt
  <2>3. PICK g \in 1 .. i - 1 : At(s, Header(k[1]), g) BY <2>2, TokenIs
  <2>4. g \in 1 .. h - 1 BY <2>1
  <2> QED BY <2>3, <2>4 DEF Opens
<1>6. h + 1 \in 1 .. Len(u) /\ (h + 1) - 1 = h BY <1>1, <1>2, <1>3
<1> HIDE DEF u
<1>7. Strstr(u, k[1], 1) = h + 1 BY <1>1, <1>4, <1>5, <1>6, StrstrIs
<1> QED BY <1>7 DEF u

(* Without a header it occurs behind the profile, if at all. *)
LEMMA NoStart ==
  ASSUME NEW s, Profiled(s), NEW tail \in Text, NEW k \in Keys,
         \A h \in 1 .. Len(s) : ~At(s, Header(k[1]), h),
         NEW i \in Nat \ {0}, At(s \o tail, k[1], i)
  PROVE  i > Len(s)
<1>1. Len(s) \in Nat BY Size DEF Profiled
<1>2. ASSUME i \in 1 .. Len(s), At(s, k[1], i) PROVE FALSE
  <2>1. PICK g \in 1 .. i - 1 : At(s, Header(k[1]), g) BY <1>2, TokenIs
  <2> QED BY <1>1, <1>2, <2>1
<1>3. i - Len(s) \in 1 .. Len(tail) BY <1>2, NamesUnbroken, TailAt
<1> QED BY <1>1, <1>3

(* A parameter with its "=" in the section of a header is in its line.      *)
LEMMA ParameterBehind ==
  ASSUME NEW s, Profiled(s), NEW k \in Keys, NEW h \in Nat \ {0}, At(s, Header(k[1]), h),
         NEW i \in Nat, i > h, At(s, Append(k[2], "="), i),
         \A n \in h + 1 .. i + Len(k[2]) : s[n] # "["
  PROVE  i \in 1 .. Len(s) /\ \E v \in Values : KeyLine(s, k, v, i)
<1>1. s \in Text /\ Len(s) \in Nat /\ i \in Nat \ {0} BY Size DEF Profiled
<1>2. Plain(k[2]) /\ Len(k[2]) \in Nat BY Names
<1>3. i + Len(k[2]) <= Len(s) BY <1>1, <1>2, ParameterAt
<1>4. i \in 1 .. Len(s) BY <1>1, <1>2, <1>3
<1>5. InSection(s, k[1], i + Len(k[2]))
  <2>1. h \in 1 .. i + Len(k[2]) - 1 BY <1>1, <1>2
  <2>2. \A n \in h + 1 .. i + Len(k[2]) - 1 : s[n] # "[" BY <1>1, <1>2
  <2> QED BY <2>1, <2>2 DEF InSection
<1> QED BY <1>4, <1>5, ParameterIs

(* In the section of the first header what it says. *)
LEMMA ParameterLive ==
  ASSUME NEW s, Profiled(s), NEW k \in Keys, NEW h \in Nat \ {0}, Opens(s, k[1], h),
         NEW i \in Nat, i > h, At(s, Append(k[2], "="), i),
         \A n \in h + 1 .. i + Len(k[2]) : s[n] # "["
  PROVE  i \in 1 .. Len(s) /\ \E v \in Values : LiveLine(s, k, v, i)
<1>1. i \in 1 .. Len(s) /\ \E v \in Values : KeyLine(s, k, v, i)
  BY ParameterBehind DEF Opens
<1>2. InFirst(s, k[1], i)
  <2>1. h \in 1 .. i - 1 OBVIOUS
  <2>2. \A n \in h + 1 .. i - 1 : s[n] # "["
    <3>1. Len(k[2]) \in Nat BY Names
    <3>2. \A n \in h + 1 .. i - 1 : n \in h + 1 .. i + Len(k[2]) BY <3>1
    <3> QED BY <3>2
  <2> QED BY <2>1, <2>2 DEF InFirst
<1> QED BY <1>1, <1>2 DEF LiveLine

(* What it says is in the section of the first header, to the line's end.   *)
LEMMA LineBehind ==
  ASSUME NEW s, Profiled(s), NEW k \in Keys, NEW v \in Values, NEW i, LiveLine(s, k, v, i)
  PROVE  \E h \in 1 .. i - 1 :
           /\ Opens(s, k[1], h)
           /\ \A n \in h + 1 .. i + Len(k[2]) + Len(v) + 1 : s[n] # "["
<1>1. s \in Text /\ Len(s) \in Nat BY Size DEF Profiled
<1>2. /\ i \in Nat \ {0} /\ At(s, Line(k[2], v), i) /\ InFirst(s, k[1], i)
  BY DEF LiveLine, KeyLine
<1>3. PICK h \in 1 .. i - 1 : Opens(s, k[1], h) /\ \A n \in h + 1 .. i - 1 : s[n] # "["
  BY <1>2 DEF InFirst
<1>4. ASSUME NEW n \in h + 1 .. i + Len(k[2]) + Len(v) + 1 PROVE s[n] # "["
  <2>1. CASE n <= i - 1 BY <1>3, <1>4, <2>1
  <2>2. CASE n > i - 1
    <3>1. n \in i .. i + Len(k[2]) + Len(v) + 1 BY <1>2, <1>4, <2>2, Names
    <3> QED BY <1>1, <1>2, <3>1, Names, LineMarks
  <2> QED BY <1>2, <1>3, <1>4, <2>1, <2>2, Names
<1> QED BY <1>3, <1>4

(* read_profile finds what the profile says; what it does not say it finds  *)
(* missing if the parameter is not in what lies behind, either.             *)
LEMMA ReadIs ==
  ASSUME NEW s, Profiled(s), NEW tail \in Text, NEW k \in Keys,
         Says(s, k) # {} \/ ~Occurs(Append(k[2], "="), tail)
  PROVE  ReadValue(s \o tail, k[1], k[2]) = Says(s, k)
<1> DEFINE u      == s \o tail
           t      == k[1]
           p      == k[2]
           w      == Append(p, "=")
           start  == Strstr(u, t, 1)
           end    == RegionEnd(u, start)
           region == SubSeq(u, start, end)
           at     == Strstr(region, w, 1)
           from   == at + Len(p) + 1
           eol    == Strstr(region, <<"\n">>, from)
<1>1. ReadValue(u, t, p) =
        IF start = NULL \/ at = NULL THEN {}
        ELSE {SubSeq(region, from, IF eol = NULL THEN Len(region) ELSE eol - 1)}
  BY DEF ReadValue
<1>2. tail \in Text /\ (Says(s, k) = {} => ~Occurs(w, tail)) OBVIOUS
<1>3. /\ s \in Text /\ Len(s) \in Nat /\ Len(tail) \in Nat /\ u \in Text
      /\ Len(u) = Len(s) + Len(tail)
      /\ \A n \in 1 .. Len(s) : u[n] = s[n]
  BY <1>2, Size, Joined DEF Profiled
<1>4. /\ Plain(t) /\ Len(t) \in Nat /\ t \in Text
      /\ Plain(p) /\ Len(p) \in Nat \ {0}
      /\ w \in Text /\ Len(w) = Len(p) + 1 /\ Unbroken(w)
  BY Names, PlainIs, ParameterIsText, NamesUnbroken
<1>5. ASSUME NEW i \in Nat \ {0}, At(u, w, i), i <= Len(s) \/ Says(s, k) = {}
      PROVE  i \in 1 .. Len(s) /\ At(s, w, i)
  <2>1. CASE i <= Len(s)
    <3>1. ~(i - Len(s) \in 1 .. Len(tail)) BY <1>3, <2>1
    <3> QED BY <1>2, <1>4, <1>5, <3>1, TailAt
  <2>2. CASE Says(s, k) = {}
    <3>1. ~(i - Len(s) \in 1 .. Len(tail) /\ At(tail, w, i - Len(s))) BY <1>2, <2>2 DEF Occurs
    <3> QED BY <1>2, <1>4, <1>5, <3>1, TailAt
  <2> QED BY <1>5, <2>1, <2>2
<1>6. /\ u = s \o tail /\ t = k[1] /\ p = k[2] /\ w = Append(p, "=")
      /\ start = Strstr(u, t, 1) /\ at = Strstr(region, w, 1)
      /\ from = at + Len(p) + 1 /\ eol = Strstr(region, <<"\n">>, from)
      /\ end = RegionEnd(u, start) /\ region = SubSeq(u, start, end)
  OBVIOUS
<1> HIDE DEF u, t, p, w, start, end, region, at, from, eol
<1>7. ASSUME start # NULL
      PROVE  /\ start \in Nat \ {0} /\ start \in 1 .. Len(u) /\ At(u, t, start)
             /\ end \in start - 1 .. Len(u) /\ end \in Int
             /\ \A n \in start .. end : u[n] # "["
             /\ end = Len(u) \/ u[end + 1] = "["
             /\ region \in Text /\ Len(region) = end - start + 1 /\ Len(region) \in Nat
             /\ \A m \in Nat \ {0} : At(region, w, m) <=>
                  At(u, w, start + m - 1) /\ start + m - 1 + Len(p) <= end
  <2>1. start \in 1 .. Len(u) /\ At(u, t, start)
    <3>1. Strstr(u, t, 1) \in 1 .. Len(u) /\ At(u, t, Strstr(u, t, 1))
      <4>1. Strstr(u, t, 1) # NULL BY <1>6, <1>7
      <4>2. 1 \in Nat \ {0} OBVIOUS
      <4> QED BY <1>3, <4>1, <4>2, StrstrFirst
    <3> QED BY <1>6, <3>1
  <2>2. /\ end \in start - 1 .. Len(u)
        /\ \A n \in start .. end : u[n] # "["
        /\ end = Len(u) \/ u[end + 1] = "["
    <3>1. /\ RegionEnd(u, start) \in start - 1 .. Len(u)
          /\ \A n \in start .. RegionEnd(u, start) : u[n] # "["
          /\ RegionEnd(u, start) = Len(u) \/ u[RegionEnd(u, start) + 1] = "["
      BY <1>3, <2>1, RegionEndIs
    <3> QED BY <1>6, <3>1
  <2>3. start \in Nat \ {0} /\ end \in Int BY <1>3, <2>1, <2>2
  <2>4. region \in Text /\ Len(region) = end - start + 1 /\ Len(region) \in Nat
    <3>1. SubSeq(u, start, end) \in Text /\ Len(SubSeq(u, start, end)) = end - start + 1
      BY <1>3, <2>2, <2>3, SubIs
    <3> QED BY <1>6, <3>1, Size
  <2>5. ASSUME NEW m \in Nat \ {0}
        PROVE  At(region, w, m) <=> At(u, w, start + m - 1) /\ start + m - 1 + Len(p) <= end
    <3>1. Len(w) > 0 BY <1>4
    <3>2. At(SubSeq(u, start, end), w, m) <=>
            At(u, w, start + m - 1) /\ start + m - 1 + Len(w) - 1 <= end
      BY <1>3, <1>4, <2>2, <2>3, <3>1, AtSub
    <3>3. start + m - 1 + Len(w) - 1 = start + m - 1 + Len(p) BY <1>4, <2>3
    <3> QED BY <1>6, <3>2, <3>3
  <2> QED BY <2>1, <2>2, <2>3, <2>4, <2>5
<1>8. ASSUME start # NULL, at # NULL PROVE at \in Nat \ {0} /\ At(region, w, at)
  <2>1. Strstr(region, w, 1) \in 1 .. Len(region) /\ At(region, w, Strstr(region, w, 1))
    <3>1. Strstr(region, w, 1) # NULL /\ region \in Text BY <1>6, <1>7, <1>8
    <3>2. 1 \in Nat \ {0} OBVIOUS
    <3> QED BY <3>1, <3>2, StrstrFirst
  <2> QED BY SMTT(40), <1>6, <1>7, <1>8, <2>1
<1>9. CASE \A h \in 1 .. Len(s) : ~At(s, Header(t), h)
  <2>1. Says(s, k) = {} BY <1>6, <1>9, SaysNothing
  <2>2. ASSUME start # NULL, at # NULL PROVE FALSE
    <3>1. start \in Nat \ {0} /\ At(s \o tail, k[1], start) BY <1>6, <1>7, <2>2
    <3>2. start > Len(s) BY <1>2, <1>6, <1>9, <3>1, NoStart
    <3>3. at \in Nat \ {0} /\ At(u, w, start + at - 1) BY <1>7, <1>8, <2>2
    <3>4. start + at - 1 \in Nat \ {0} BY <3>1, <3>3
    <3>5. start + at - 1 \in 1 .. Len(s) BY <1>5, <2>1, <3>3, <3>4
    <3> QED BY <1>3, <3>1, <3>2, <3>3, <3>5
  <2> QED BY <1>1, <1>6, <2>1, <2>2
<1>10. ASSUME NEW h \in 1 .. Len(s), Opens(s, t, h) PROVE ReadValue(u, t, p) = Says(s, k)
  <2>1. start = h + 1 /\ h \in Nat \ {0}
    <3>1. h \in Nat \ {0} /\ Opens(s, k[1], h) BY <1>6, <1>10
    <3>2. Strstr(s \o tail, k[1], 1) = h + 1 BY <1>2, <3>1, StartIs
    <3> QED BY <1>6, <3>1, <3>2
  <2>2. start # NULL BY <2>1 DEF NULL
  <2>3. /\ start \in 1 .. Len(u) /\ region \in Text
        /\ end \in h .. Len(u) /\ end \in Nat
        /\ \A n \in start .. end : u[n] # "["
        /\ end = Len(u) \/ u[end + 1] = "["
        /\ Len(region) = end - start + 1 /\ Len(region) \in Nat
        /\ \A m \in Nat \ {0} : At(region, w, m) <=>
             At(u, w, start + m - 1) /\ start + m - 1 + Len(p) <= end
    BY <1>7, <2>1, <2>2
  <2>4. ASSUME NEW m \in Nat \ {0}, At(region, w, m), h + m <= Len(s) \/ Says(s, k) = {}
        PROVE  h + m \in 1 .. Len(s) /\ \E v \in Values : LiveLine(s, k, v, h + m)
    <3>1. start + m - 1 = h + m /\ h + m \in Nat \ {0} BY <2>1
    <3>2. At(u, w, h + m) /\ h + m + Len(p) <= end BY <2>3, <2>4, <3>1
    <3>3. h + m \in 1 .. Len(s) /\ At(s, Append(p, "="), h + m) BY <1>5, <1>6, <2>4, <3>1, <3>2
    <3>4. \A n \in h + 1 .. (h + m) + Len(p) : s[n] # "["
      <4> SUFFICES ASSUME NEW n \in h + 1 .. (h + m) + Len(p) PROVE s[n] # "["
        OBVIOUS
      <4>1. h + m + Len(p) <= Len(s) BY <1>3, <1>4, <3>1, <3>3, ParameterAt
      <4>2. n \in start .. end /\ n \in 1 .. Len(s) BY <1>3, <1>4, <2>1, <2>3, <3>2, <4>1
      <4> QED BY <1>3, <2>3, <4>2
    <3>5. h + m \in Nat /\ h + m > h BY <3>1
    <3> QED BY <1>6, <1>10, <2>1, <3>3, <3>4, <3>5, ParameterLive
  <2>5. CASE Says(s, k) = {}
    <3>1. ASSUME at # NULL PROVE FALSE
      <4>1. \E v \in Values : LiveLine(s, k, v, h + at) /\ h + at \in 1 .. Len(s)
        BY <1>8, <2>2, <2>4, <2>5, <3>1
      <4> QED BY <2>5, <4>1 DEF Says
    <3> QED BY <1>1, <2>5, <3>1
  <2>6. ASSUME NEW v \in Values, NEW i \in 1 .. Len(s), LiveLine(s, k, v, i)
        PROVE  ReadValue(u, t, p) = {v}
    <3> DEFINE last == i + Len(p) + Len(v) + 1
               m    == i - h
               x    == Line(p, v)
    <3>1. /\ At(s, x, i) /\ i \in Nat \ {0} /\ Plain(v) /\ Len(v) \in Nat
          /\ x \in Text /\ Len(x) = Len(p) + Len(v) + 2
      BY <1>4, <1>6, <2>6, Names, LineIs DEF LiveLine, KeyLine
    <3>2. last <= Len(s) BY <1>3, <1>4, <3>1, LineAt
    <3>3. h < i /\ \A n \in h + 1 .. last : s[n] # "["
      <4>1. PICK g \in 1 .. i - 1 : /\ Opens(s, t, g)
                                    /\ \A n \in g + 1 .. last : s[n] # "["
        BY <1>6, <2>6, LineBehind
      <4>2. g \in Nat \ {0} /\ h \in Nat \ {0} BY <2>1
      <4>3. g = h BY <1>10, <4>1, <4>2, OpensOne
      <4> QED BY <4>1, <4>3
    <3>4. last <= end
      <4> SUFFICES ASSUME end < last PROVE FALSE
        BY <1>4, <2>3, <3>1
      <4>1. end + 1 \in h + 1 .. last /\ end + 1 \in 1 .. Len(s) /\ end # Len(u)
        BY <1>3, <1>4, <2>3, <3>1, <3>2
      <4> QED BY <1>3, <2>3, <3>3, <4>1
    <3>5. m \in Nat \ {0} /\ start + m - 1 = i /\ h + m = i BY <2>1, <3>1, <3>3
    <3>6. At(region, x, m)
      <4> HIDE DEF x, m
      <4>1. At(u, x, i) BY <1>2, <1>3, <1>6, <3>1, FrontAt
      <4>2. i + Len(x) - 1 <= end BY <1>4, <3>1, <3>4
      <4>3. start \in Nat \ {0} /\ end \in start - 1 .. Len(u) /\ Len(x) > 0
        BY <1>4, <2>1, <2>3, <3>1
      <4>4. At(SubSeq(u, start, end), x, m) BY <1>3, <3>1, <3>5, <4>1, <4>2, <4>3, AtSub
      <4> QED BY <1>6, <4>4
    <3> HIDE DEF m
    <3>7. /\ m + Len(p) + Len(v) + 1 <= Len(region)
          /\ \A n \in 1 .. Len(p) : region[m + n - 1] = p[n]
          /\ region[m + Len(p)] = "="
      BY <1>4, <2>3, <3>1, <3>5, <3>6, LineAt
    <3> HIDE DEF last
    <3>8. at = m
      <4>1. m + Len(p) <= Len(region) /\ m \in 1 .. Len(region)
        BY <1>4, <2>3, <3>1, <3>5, <3>7
      <4>2. At(region, w, m) 
        <5>1. At(region, Append(p, "="), m) BY <1>4, <2>3, <3>5, <3>7, <4>1, ParameterAt
        <5> QED BY <1>6, <5>1
      <4>3. ASSUME NEW n \in 1 .. m - 1, At(region, w, n) PROVE FALSE
        <5>1. n \in Nat \ {0} /\ h + n <= Len(s) BY <1>3, <3>5
        <5>2. h + n \in 1 .. Len(s) /\ \E y \in Values : LiveLine(s, k, y, h + n)
          BY <2>4, <4>3, <5>1
        <5>3. h + n = i BY <2>6, <5>2 DEF Profiled
        <5> QED BY <2>1, <3>5, <4>3, <5>3
      <4>4. Strstr(region, w, 1) = m BY <2>3, <4>1, <4>2, <4>3, StrstrIs
      <4> QED BY <1>6, <4>4
    <3>9. from \in m .. m + Len(p) + Len(v) + 1 /\ from = m + Len(p) + 1
      <4>1. from = m + Len(p) + 1 BY <1>6, <3>8
      <4> QED BY <1>4, <3>1, <3>5, <4>1
    <3>10. eol = m + Len(p) + Len(v) + 1
      <4>1. Strstr(region, <<"\n">>, from) = m + Len(p) + Len(v) + 1
        BY SMTT(40), <1>4, <2>3, <3>1, <3>5, <3>6, <3>9, LineEnd
      <4> QED BY <1>6, <4>1
    <3>11. SubSeq(region, m + Len(p) + 1, m + Len(p) + Len(v)) = v
      BY <1>4, <2>3, <3>1, <3>5, <3>6, LineValue
    <3>12. eol # NULL /\ at # NULL /\ eol - 1 = m + Len(p) + Len(v)
      BY <1>4, <3>1, <3>5, <3>8, <3>10 DEF NULL
    <3> QED BY <1>1, <2>2, <3>9, <3>11, <3>12
  <2>7. CASE Says(s, k) # {}
    <3>1. PICK v \in Values, i \in 1 .. Len(s) : LiveLine(s, k, v, i) BY <2>7 DEF Says
    <3>2. Says(s, k) = {v} BY <3>1, SaysOne
    <3> QED BY <2>6, <3>1, <3>2
  <2> QED BY <2>5, <2>7
<1>11. ASSUME NEW g \in 1 .. Len(s), At(s, Header(t), g)
       PROVE  \E h \in 1 .. Len(s) : Opens(s, t, h)
  <2>1. g \in Nat \ {0} BY <1>3
  <2>2. PICK h \in 1 .. g : Opens(s, t, h) BY <1>11, <2>1, OpensFirst
  <2> QED BY <1>3, <2>2
<1> QED BY <1>6, <1>9, <1>10, <1>11

-----------------------------------------------------------------------------
(* What a profile says is what its settings are by its format. *)

(* A parameter with its "=" at the beginning of a line is the parameter of  *)
(* that line.                                                               *)
LEMMA LineStart ==
  ASSUME NEW s, Profiled(s), NEW p, Plain(p), NEW j \in 1 .. Len(s), s[j] = "\n",
         At(s, Append(p, "="), j + 1)
  PROVE  \E l \in Keys, v \in Values : l[2] = p /\ KeyLine(s, l, v, j + 1)
<1> DEFINE e == j + 1 + Len(p)
<1>1. s \in Text /\ Len(s) \in Nat /\ j \in Nat \ {0} BY Size DEF Profiled
<1>2. p \in Text /\ Len(p) \in Nat /\ \A n \in 1 .. Len(p) : p[n] \notin Marks BY PlainIs
<1>3. /\ e <= Len(s) /\ s[e] = "="
      /\ \A n \in 1 .. Len(p) : s[(j + 1) + n - 1] = p[n]
  <2>1. j + 1 \in Nat \ {0} BY <1>1
  <2> QED BY <1>1, <2>1, ParameterAt
<1>4. e \in 1 .. Len(s) BY <1>1, <1>2, <1>3
<1>5. \A n \in j + 1 .. e - 1 : s[n] # "\n"
  <2> SUFFICES ASSUME NEW n \in j + 1 .. e - 1 PROVE s[n] # "\n"
    OBVIOUS
  <2>1. n - j \in 1 .. Len(p) /\ (j + 1) + (n - j) - 1 = n BY <1>1, <1>2
  <2> QED BY <1>2, <1>3, <2>1 DEF Marks
<1>0. e = j + 1 + Len(p) OBVIOUS
<1> HIDE DEF e
<1>6. PICK l \in Keys, v \in Values, i \in 1 .. e : KeyLine(s, l, v, i) /\ e = i + Len(l[2])
  BY <1>3, <1>4, EqualsIs
<1>7. /\ Plain(l[2]) /\ Len(l[2]) \in Nat \ {0} /\ l[2] \in Text /\ Plain(v) /\ Len(v) \in Nat
  BY Names, PlainIs
<1>8. At(s, Line(l[2], v), i) /\ i \in 2 .. Len(s) /\ i \in Nat \ {0} /\ s[i - 1] = "\n"
  BY <1>6 DEF KeyLine
<1>9. ~(i <= j)
  <2> SUFFICES ASSUME i <= j PROVE FALSE
    OBVIOUS
  <2>1. j \in i .. i + Len(l[2]) + Len(v) + 1 /\ j # i + Len(l[2]) + Len(v) + 1
    BY <1>0, <1>1, <1>2, <1>6, <1>7
  <2> QED BY SMTT(40), <1>1, <1>7, <1>8, <2>1, LineMarks
<1>10. ~(i > j + 1)
  <2>1. ASSUME i > j + 1 PROVE i - 1 \in j + 1 .. e - 1 BY <1>1, <1>6, <1>7, <1>8, <2>1
  <2> QED BY <1>5, <1>8, <2>1
<1>11. i = j + 1 BY <1>1, <1>8, <1>9, <1>10
<1>12. Len(l[2]) = Len(p)
  <2>1. j + 1 + Len(p) = j + 1 + Len(l[2]) BY <1>0, <1>6, <1>11
  <2>2. Len(l[2]) \in Nat /\ Len(p) \in Nat /\ j \in Nat BY <1>1, <1>2, <1>7
  <2>3. \A a, b, c \in Nat : a + 1 + b = a + 1 + c => b = c OBVIOUS
  <2> QED BY <2>1, <2>2, <2>3
<1>13. l[2] = p
  <2> DEFINE q == l[2]
  <2>1. /\ q \in Text /\ Len(q) = Len(p) /\ Plain(q) /\ Plain(v) /\ s \in Text
        /\ At(s, Line(q, v), j + 1) /\ j + 1 \in Nat \ {0}
    BY <1>1, <1>7, <1>8, <1>11, <1>12
  <2> HIDE DEF q
  <2>2. \A n \in 1 .. Len(q) : s[(j + 1) + n - 1] = q[n] BY <2>1, LineAt
  <2>3. \A n \in 1 .. Len(q) : q[n] = p[n] BY <1>3, <2>1, <2>2
  <2>4. q = p BY <1>2, <2>1, <2>3, SeqEqual DEF Text
  <2> QED BY <2>4 DEF q
<1> QED BY <1>6, <1>11, <1>13

LEMMA SettingIs ==
  ASSUME NEW s, Profiled(s), NEW k \in Keys
  PROVE  Setting(s, k[1], k[2]) = Says(s, k)
<1> DEFINE t     == k[1]
           p     == k[2]
           named == Append(p, "=")
           Open(j) == CHOOSE i \in 1 .. j : s[i] = "[" /\ "[" \notin {s[n] : n \in i + 1 .. j}
           End(j)  == CHOOSE i \in j + 1 .. Len(s) :
                        s[i] = "\n" /\ "\n" \notin {s[n] : n \in j + 1 .. i - 1}
           value(j) == SubSeq(s, j + Len(named) + 1, End(j) - 1)
           found == {j \in 1 .. Len(s) :
                       /\ s[j] = "\n" /\ At(s, named, j + 1)
                       /\ At(s, Header(t), Open(j))
                       /\ \A i \in 1 .. Open(j) - 1 : ~At(s, Header(t), i)}
<1>1. Setting(s, t, p) = {value(j) : j \in found} BY DEF Setting, Header
<1>2. s \in Text /\ Len(s) \in Nat BY Size DEF Profiled
<1>3. Plain(t) /\ Plain(p) /\ Len(p) \in Nat /\ k = <<t, p>> BY Names
<1>4. Len(named) = Len(p) + 1 BY <1>3, ParameterIsText
<1>5. ASSUME NEW l \in Keys, NEW v \in Values, NEW i \in 2 .. Len(s), l[2] = p, KeyLine(s, l, v, i)
      PROVE  /\ At(s, Header(l[1]), Open(i - 1)) /\ Open(i - 1) \in 1 .. i - 1
             /\ \A n \in Open(i - 1) + 1 .. i - 1 : s[n] # "["
             /\ s[i - 1] = "\n" /\ At(s, named, i)
             /\ value(i - 1) = v
  <2>1. /\ At(s, Line(p, v), i) /\ s[i - 1] = "\n" /\ InSection(s, l[1], i)
        /\ i \in Nat \ {0} /\ Plain(v) /\ Len(v) \in Nat /\ Plain(l[1])
    BY <1>5, Names DEF KeyLine
  <2>2. /\ i + Len(p) + Len(v) + 1 <= Len(s)
        /\ \A n \in 1 .. Len(p) : s[i + n - 1] = p[n]
        /\ s[i + Len(p)] = "="
        /\ s[i + Len(p) + Len(v) + 1] = "\n"
    BY <1>2, <1>3, <2>1, LineAt
  <2>3. At(s, named, i)
    <3>1. i + Len(p) <= Len(s) BY <1>2, <1>3, <2>1, <2>2
    <3> QED BY <1>2, <1>3, <2>1, <2>2, <3>1, ParameterAt
  <2>4. PICK h \in 1 .. i - 1 : At(s, Header(l[1]), h) /\ \A n \in h + 1 .. i - 1 : s[n] # "["
    BY <2>1 DEF InSection
  <2>5. h \in Nat \ {0} /\ s[h] = "[" BY <1>2, <2>1, <2>4, HeaderAt
  <2>6. Open(i - 1) = h
    <3>1. "[" \notin {s[n] : n \in h + 1 .. i - 1} BY <2>4
    <3>2. ASSUME NEW g \in 1 .. i - 1, s[g] = "[", "[" \notin {s[n] : n \in g + 1 .. i - 1}
          PROVE  g = h
      <4>1. \A n \in g + 1 .. i - 1 : s[n] # "[" BY <3>2
      <4>2. ~(g < h) BY <2>5, <4>1
      <4>3. ~(h < g) BY <2>4, <3>2
      <4> QED BY <4>2, <4>3
    <3> QED BY <2>4, <2>5, <3>1, <3>2
  <2>7. End(i - 1) = i + Len(p) + Len(v) + 1
    <3> DEFINE e == i + Len(p) + Len(v) + 1
    <3>1. \A n \in i .. e : s[n] = "\n" <=> n = e BY <1>2, <1>3, <2>1, LineMarks
    <3>2. e \in Nat /\ e \in i .. e /\ e \in i .. Len(s) /\ (i - 1) + 1 = i /\ s[e] = "\n"
      BY <1>2, <1>3, <2>1, <2>2
    <3> HIDE DEF e
    <3>3. "\n" \notin {s[n] : n \in i .. e - 1}
      <4>1. \A n \in i .. e - 1 : n \in i .. e /\ n # e BY <3>2
      <4> QED BY <3>1, <4>1
    <3>4. ASSUME NEW g \in i .. Len(s), s[g] = "\n", "\n" \notin {s[n] : n \in i .. g - 1}
          PROVE  g = e
      <4>1. ~(g < e) BY <3>1, <3>2, <3>4
      <4>2. ~(e < g)
        <5>1. e < g => e \in i .. g - 1 BY <3>2
        <5> QED BY <3>2, <3>4, <5>1
      <4> QED BY <3>2, <4>1, <4>2
    <3>5. (CHOOSE g \in i .. Len(s) : s[g] = "\n" /\ "\n" \notin {s[n] : n \in i .. g - 1}) = e
      BY <3>2, <3>3, <3>4
    <3>6. End(i - 1) = e BY <3>2, <3>5
    <3> QED BY <3>6 DEF e
  <2>8. value(i - 1) = v
    <3> HIDE DEF End
    <3>1. (i - 1) + Len(named) + 1 = i + Len(p) + 1 BY <1>3, <1>4
    <3>2. End(i - 1) - 1 = i + Len(p) + Len(v) BY <1>3, <2>1, <2>7
    <3>3. SubSeq(s, i + Len(p) + 1, i + Len(p) + Len(v)) = v BY <1>2, <1>3, <2>1, LineValue
    <3> QED BY <3>1, <3>2, <3>3
  <2> QED BY <2>1, <2>3, <2>4, <2>6, <2>8
<1> HIDE DEF Open, value
<1>6. ASSUME NEW j \in found PROVE value(j) \in Says(s, k)
  <2>1. /\ j \in 1 .. Len(s) /\ j \in Nat \ {0} /\ s[j] = "\n" /\ At(s, named, j + 1)
        /\ Opens(s, t, Open(j))
    BY DEF Opens
  <2>2. PICK l \in Keys, v \in Values : l[2] = p /\ KeyLine(s, l, v, j + 1)
    BY <1>3, <2>1, LineStart
  <2>3. j + 1 \in 2 .. Len(s) /\ (j + 1) - 1 = j BY <2>1, <2>2 DEF KeyLine
  <2>4. /\ At(s, Header(l[1]), Open(j)) /\ Open(j) \in 1 .. j
        /\ \A n \in Open(j) + 1 .. j : s[n] # "["
        /\ value(j) = v
    BY <1>5, <2>2, <2>3
  <2>5. Open(j) \in Nat \ {0} BY <2>4
  <2>6. l[1] = t BY <1>2, <1>3, <2>1, <2>4, <2>5, Names, SameHeader DEF Opens
  <2>7. l = k BY <1>3, <2>2, <2>6, Names
  <2>8. InFirst(s, t, j + 1) BY <2>1, <2>3, <2>4 DEF InFirst
  <2>9. j + 1 \in 1 .. Len(s) BY <2>1, <2>3
  <2> QED BY <2>2, <2>4, <2>7, <2>8, <2>9 DEF Says, LiveLine
<1>7. ASSUME NEW v \in Says(s, k) PROVE \E j \in found : v = value(j)
  <2>1. PICK i \in 1 .. Len(s) : v \in Values /\ LiveLine(s, k, v, i) BY <1>7 DEF Says
  <2>2. i \in 2 .. Len(s) /\ KeyLine(s, k, v, i) BY <2>1 DEF LiveLine, KeyLine
  <2>3. /\ At(s, Header(t), Open(i - 1)) /\ Open(i - 1) \in 1 .. i - 1
        /\ \A n \in Open(i - 1) + 1 .. i - 1 : s[n] # "["
        /\ s[i - 1] = "\n" /\ At(s, named, i) /\ value(i - 1) = v
    <3>1. v \in Values /\ k[2] = p BY <2>1
    <3> HIDE DEF found, named, p
    <3>2. At(s, Header(k[1]), Open(i - 1)) BY <1>5, <2>2, <3>1
    <3>3. /\ Open(i - 1) \in 1 .. i - 1
          /\ \A n \in Open(i - 1) + 1 .. i - 1 : s[n] # "["
      BY <1>5, <2>2, <3>1
    <3>4. s[i - 1] = "\n" /\ At(s, named, i) /\ value(i - 1) = v BY <1>5, <2>2, <3>1
    <3> QED BY <3>2, <3>3, <3>4
  <2>4. PICK h \in 1 .. i - 1 : Opens(s, t, h) /\ \A n \in h + 1 .. i - 1 : s[n] # "["
    BY <2>1 DEF LiveLine, InFirst
  <2>5. Open(i - 1) = h
    <3>1. Open(i - 1) \in Nat \ {0} /\ h \in Nat \ {0} BY <2>3, <2>4
    <3>2. s[Open(i - 1)] = "[" /\ s[h] = "["
      BY <1>2, <1>3, <2>3, <2>4, <3>1, HeaderAt DEF Opens
    <3>3. ~(Open(i - 1) < h) BY <2>3, <3>1, <3>2
    <3>4. ~(h < Open(i - 1)) BY <2>3, <2>4, <3>1, <3>2
    <3> QED BY <3>1, <3>3, <3>4
  <2>6. i - 1 \in 1 .. Len(s) /\ (i - 1) + 1 = i BY <1>2, <2>2
  <2>7. i - 1 \in found BY <2>3, <2>4, <2>5, <2>6 DEF Opens
  <2> QED BY <2>3, <2>7
<1> HIDE DEF found
<1>8. {value(j) : j \in found} = Says(s, k) BY <1>6, <1>7
<1> QED BY <1>1, <1>8

-----------------------------------------------------------------------------
(* Splicing.  A text is cut between headers and lines, behind a and behind  *)
(* b, and a word that ends a line is put in.                                *)

Ends(w) == /\ w \in Text /\ Len(w) > 0 /\ w[Len(w)] = "\n"
           /\ \A n \in 1 .. Len(w) - 1 : w[n] # "\n"

LEMMA HeaderEnds ==
  ASSUME NEW k \in Keys
  PROVE  Ends(Header(k[1])) /\ \A n \in 1 .. Len(Header(k[1])) : Header(k[1])[n] # "="
<1> DEFINE t == k[1]
           w == Header(t)
<1>1. t \in Text /\ Len(t) \in Nat /\ \A n \in 1 .. Len(t) : t[n] \notin Marks BY Names, PlainIs
<1>2. /\ w \in Text /\ Len(w) = Len(t) + 3 /\ w[1] = "["
      /\ \A n \in 1 .. Len(t) : w[n + 1] = t[n]
      /\ w[Len(t) + 2] = "]" /\ w[Len(t) + 3] = "\n"
  BY Names, HeaderIs
<1> HIDE DEF w
<1>3. ASSUME NEW n \in 1 .. Len(w) PROVE w[n] # "=" /\ (n < Len(w) => w[n] # "\n")
  <2>1. CASE n = 1 BY <1>1, <1>2, <2>1
  <2>2. CASE n \in 2 .. Len(t) + 1
    <3>1. n - 1 \in 1 .. Len(t) /\ (n - 1) + 1 = n BY <1>1, <2>2
    <3>2. w[n] = t[n - 1] BY <1>2, <3>1
    <3> QED BY <1>1, <3>1, <3>2 DEF Marks
  <2>3. CASE n = Len(t) + 2 BY <1>1, <1>2, <2>3
  <2>4. CASE n = Len(t) + 3 BY <1>1, <1>2, <2>4
  <2> QED BY <1>1, <1>2, <2>1, <2>2, <2>3, <2>4
<1>4. Ends(w) /\ \A n \in 1 .. Len(w) : w[n] # "="
  <2>1. \A n \in 1 .. Len(w) - 1 : n \in 1 .. Len(w) /\ n < Len(w) BY <1>1, <1>2
  <2> QED BY <1>1, <1>2, <1>3, <2>1 DEF Ends
<1> QED BY <1>4 DEF w

LEMMA LineEnds ==
  ASSUME NEW p, NEW v, Plain(p), Plain(v)
  PROVE  Ends(Line(p, v)) /\ \A n \in 1 .. Len(Line(p, v)) : Line(p, v)[n] # "["
<1> DEFINE w == Line(p, v)
<1>1. /\ Len(p) \in Nat /\ \A n \in 1 .. Len(p) : p[n] \notin Marks
      /\ Len(v) \in Nat /\ \A n \in 1 .. Len(v) : v[n] \notin Marks
  BY PlainIs
<1>2. /\ w \in Text /\ Len(w) = Len(p) + Len(v) + 2
      /\ \A n \in 1 .. Len(p) : w[n] = p[n]
      /\ w[Len(p) + 1] = "="
      /\ \A n \in 1 .. Len(v) : w[Len(p) + 1 + n] = v[n]
      /\ w[Len(p) + Len(v) + 2] = "\n"
  BY LineIs
<1> HIDE DEF w
<1>3. ASSUME NEW n \in 1 .. Len(w) PROVE w[n] # "[" /\ (n < Len(w) => w[n] # "\n")
  <2>1. CASE n \in 1 .. Len(p) BY <1>1, <1>2, <2>1 DEF Marks
  <2>2. CASE n = Len(p) + 1 BY <1>1, <1>2, <2>2
  <2>3. CASE n \in Len(p) + 2 .. Len(p) + Len(v) + 1
    <3> DEFINE m == n - (Len(p) + 1)
    <3>1. m \in 1 .. Len(v) /\ Len(p) + 1 + m = n BY <1>1, <2>3
    <3> HIDE DEF m
    <3>2. w[n] = v[m] BY <1>2, <3>1
    <3> QED BY <1>1, <3>1, <3>2 DEF Marks
  <2>4. CASE n = Len(p) + Len(v) + 2 BY <1>1, <1>2, <2>4
  <2> QED BY SMTT(40), <1>1, <1>2, <2>1, <2>2, <2>3, <2>4
<1>4. Ends(w) /\ \A n \in 1 .. Len(w) : w[n] # "["
  <2>1. \A n \in 1 .. Len(w) - 1 : n \in 1 .. Len(w) /\ n < Len(w) BY <1>1, <1>2
  <2> QED BY <1>1, <1>2, <1>3, <2>1 DEF Ends
<1> QED BY <1>4 DEF w

(* r is s with w in the place of a + 1 .. b. *)
Spliced(s, a, b, w, r) ==
  /\ s \in Text /\ r \in Text /\ Ends(w)
  /\ a \in 0 .. Len(s) /\ b \in a .. Len(s)
  /\ a > 0 => s[a] = "\n"
  /\ b > 0 => s[b] = "\n"
  /\ Len(r) = Len(s) + (a + Len(w) - b)
  /\ \A n \in 1 .. a : r[n] = s[n]
  /\ \A n \in 1 .. Len(w) : r[a + n] = w[n]
  /\ \A n \in b + 1 .. Len(s) : r[n + (a + Len(w) - b)] = s[n]

LEMMA SplicedIs ==
  ASSUME NEW s \in Text, NEW a \in 0 .. Len(s), NEW b \in a .. Len(s), NEW w, Ends(w),
         a > 0 => s[a] = "\n", b > 0 => s[b] = "\n"
  PROVE  Spliced(s, a, b, w, SubSeq(s, 1, a) \o w \o SubSeq(s, b + 1, Len(s)))
<1> DEFINE x == SubSeq(s, 1, a)
           y == x \o w
           z == SubSeq(s, b + 1, Len(s))
           r == y \o z
           d == a + Len(w) - b
<1>1. Len(s) \in Nat /\ w \in Text /\ Len(w) \in Nat /\ a \in Nat /\ b \in Nat BY Size DEF Ends
<1>2. x \in Text /\ Len(x) = a /\ \A n \in 1 .. a : x[n] = s[n]
  <2>1. a \in 1 - 1 .. Len(s) /\ 1 \in Nat \ {0} /\ a - 1 + 1 = a BY <1>1
  <2>2. \A n \in 1 .. a : 1 + n - 1 = n BY <1>1
  <2>3. /\ SubSeq(s, 1, a) \in Text /\ Len(SubSeq(s, 1, a)) = a - 1 + 1
        /\ \A n \in 1 .. a - 1 + 1 : SubSeq(s, 1, a)[n] = s[1 + n - 1]
    BY <2>1, SubIs
  <2> QED BY <2>1, <2>2, <2>3
<1>3. z \in Text /\ Len(z) = Len(s) - b /\ \A n \in 1 .. Len(s) - b : z[n] = s[b + n]
  <2>1. Len(s) \in (b + 1) - 1 .. Len(s) /\ b + 1 \in Nat \ {0} BY <1>1
  <2>2. Len(s) - (b + 1) + 1 = Len(s) - b BY <1>1
  <2>3. \A n \in 1 .. Len(s) - b : (b + 1) + n - 1 = b + n BY <1>1
  <2>4. /\ z \in Text /\ Len(z) = Len(s) - (b + 1) + 1
        /\ \A n \in 1 .. Len(s) - (b + 1) + 1 : z[n] = s[(b + 1) + n - 1]
    BY <2>1, SubIs
  <2> QED BY <2>2, <2>3, <2>4
<1> HIDE DEF x, z
<1>4. /\ y \in Text /\ Len(y) = Len(x) + Len(w)
      /\ \A n \in 1 .. Len(x) : y[n] = x[n]
      /\ \A n \in 1 .. Len(w) : y[Len(x) + n] = w[n]
  BY <1>1, <1>2, Joined
<1> HIDE DEF y
<1>5. /\ r \in Text /\ Len(r) = Len(y) + Len(z)
      /\ \A n \in 1 .. Len(y) : r[n] = y[n]
      /\ \A n \in 1 .. Len(z) : r[Len(y) + n] = z[n]
  BY <1>3, <1>4, Joined
<1> HIDE DEF r
<1>6. Len(y) = a + Len(w) BY <1>2, <1>4
<1>7. Len(r) = Len(s) + d BY <1>1, <1>3, <1>5, <1>6
<1>8. \A n \in 1 .. a : r[n] = s[n]
  <2> SUFFICES ASSUME NEW n \in 1 .. a PROVE r[n] = s[n]
    OBVIOUS
  <2>1. n \in 1 .. Len(y) BY <1>1, <1>6
  <2> QED BY <1>2, <1>4, <1>5, <2>1
<1>9. \A n \in 1 .. Len(w) : r[a + n] = w[n]
  <2> SUFFICES ASSUME NEW n \in 1 .. Len(w) PROVE r[a + n] = w[n]
    OBVIOUS
  <2>1. a + n \in 1 .. Len(y) BY <1>1, <1>6
  <2> QED BY <1>2, <1>4, <1>5, <2>1
<1>10. \A n \in b + 1 .. Len(s) : r[n + d] = s[n]
  <2> SUFFICES ASSUME NEW n \in b + 1 .. Len(s) PROVE r[n + d] = s[n]
    OBVIOUS
  <2>1. n - b \in 1 .. Len(z) /\ Len(y) + (n - b) = n + d /\ b + (n - b) = n
    BY <1>1, <1>3, <1>6
  <2>2. r[Len(y) + (n - b)] = z[n - b] BY <1>5, <2>1
  <2>3. z[n - b] = s[b + (n - b)] BY <1>3, <2>1
  <2> QED BY <2>1, <2>2, <2>3
<1>11. Spliced(s, a, b, w, r) BY <1>5, <1>7, <1>8, <1>9, <1>10 DEF Spliced
<1> QED BY <1>11 DEF r, y, x, z

(* What ends a line is not cut. *)
LEMMA Before ==
  ASSUME NEW s, NEW a, NEW b, NEW w, NEW r, Spliced(s, a, b, w, r),
         NEW x, Ends(x), NEW i \in 1 .. a
  PROVE  /\ At(s, x, i) <=> At(r, x, i)
         /\ At(s, x, i) => i + Len(x) - 1 <= a
<1>1. /\ s \in Text /\ r \in Text /\ x \in Text /\ Len(s) \in Nat /\ Len(x) \in Nat \ {0}
      /\ a \in Nat /\ a <= Len(s) /\ s[a] = "\n" /\ i \in Nat \ {0} /\ Len(r) \in Nat
      /\ Len(w) \in Nat /\ b \in Nat /\ b <= Len(s)
  BY Size DEF Spliced, Ends
<1>2. \A n \in 1 .. a : r[n] = s[n] BY DEF Spliced
<1>3. a <= Len(r) BY <1>1 DEF Spliced
<1>4. /\ At(s, x, i) <=> /\ i + Len(x) - 1 <= Len(s)
                         /\ \A n \in 1 .. Len(x) : s[i + n - 1] = x[n]
      /\ At(r, x, i) <=> /\ i + Len(x) - 1 <= Len(r)
                         /\ \A n \in 1 .. Len(x) : r[i + n - 1] = x[n]
  BY <1>1, AtPoints
<1>5. ASSUME a < i + Len(x) - 1 PROVE ~At(s, x, i) /\ ~At(r, x, i)
  <2> DEFINE n == a - i + 1
  <2>1. n \in 1 .. Len(x) - 1 /\ n \in 1 .. Len(x) /\ i + n - 1 = a /\ a \in 1 .. a BY <1>1, <1>5
  <2> HIDE DEF n
  <2>2. x[n] # "\n" BY <2>1 DEF Ends
  <2>3. s[i + n - 1] # x[n] /\ r[i + n - 1] # x[n] BY <1>1, <1>2, <2>1, <2>2
  <2> QED BY <1>4, <2>1, <2>3
<1>6. ASSUME i + Len(x) - 1 <= a PROVE At(s, x, i) <=> At(r, x, i)
  <2>1. \A n \in 1 .. Len(x) : i + n - 1 \in 1 .. a BY <1>1, <1>6
  <2>2. \A n \in 1 .. Len(x) : r[i + n - 1] = s[i + n - 1] BY <1>2, <2>1
  <2>3. i + Len(x) - 1 <= Len(s) /\ i + Len(x) - 1 <= Len(r) BY <1>1, <1>3, <1>6
  <2> QED BY <1>4, <2>2, <2>3
<1> QED BY <1>1, <1>5, <1>6

LEMMA Behind ==
  ASSUME NEW s, NEW a, NEW b, NEW w, NEW r, Spliced(s, a, b, w, r),
         NEW x \in Text, NEW i \in b + 1 .. Len(s)
  PROVE  At(s, x, i) <=> At(r, x, i + (a + Len(w) - b))
<1> DEFINE d == a + Len(w) - b
           j == i + d
<1>1. /\ s \in Text /\ r \in Text /\ Len(s) \in Nat /\ Len(x) \in Nat
      /\ a \in Nat /\ Len(w) \in Nat /\ b \in Nat /\ i \in Nat \ {0}
  BY Size DEF Spliced, Ends
<1>2. Len(r) = Len(s) + d /\ \A n \in b + 1 .. Len(s) : r[n + d] = s[n] BY DEF Spliced
<1>3. j \in Nat \ {0} /\ d \in Int BY <1>1
<1>4. /\ At(s, x, i) <=> /\ i + Len(x) - 1 <= Len(s)
                         /\ \A n \in 1 .. Len(x) : s[i + n - 1] = x[n]
      /\ At(r, x, j) <=> /\ j + Len(x) - 1 <= Len(r)
                         /\ \A n \in 1 .. Len(x) : r[j + n - 1] = x[n]
  BY <1>1, <1>3, AtPoints
<1>5. i + Len(x) - 1 <= Len(s) <=> j + Len(x) - 1 <= Len(r) BY <1>1, <1>2
<1>6. ASSUME i + Len(x) - 1 <= Len(s), NEW n \in 1 .. Len(x)
      PROVE  r[j + n - 1] = s[i + n - 1]
  <2>1. i + n - 1 \in b + 1 .. Len(s) /\ (i + n - 1) + d = j + n - 1 BY <1>1, <1>6
  <2> QED BY <1>2, <2>1
<1>7. At(s, x, i) <=> At(r, x, j) BY <1>4, <1>5, <1>6
<1> QED BY <1>7

LEMMA SectionBefore ==
  ASSUME NEW s, NEW a, NEW b, NEW w, NEW r, Spliced(s, a, b, w, r),
         NEW k \in Keys, NEW i \in 1 .. a + 1
  PROVE  InSection(s, k[1], i) <=> InSection(r, k[1], i)
<1>1. a \in Nat /\ \A n \in 1 .. a : r[n] = s[n] BY Size DEF Spliced
<1>2. \A h \in 1 .. i - 1 : At(s, Header(k[1]), h) <=> At(r, Header(k[1]), h)
  <2>1. \A h \in 1 .. i - 1 : h \in 1 .. a BY <1>1
  <2> QED BY <2>1, HeaderEnds, Before
<1>3. \A h \in 1 .. i - 1 : \A n \in h + 1 .. i - 1 : r[n] = s[n]
  <2>1. \A h \in 1 .. i - 1 : \A n \in h + 1 .. i - 1 : n \in 1 .. a BY <1>1
  <2> QED BY <1>1, <2>1
<1> QED BY <1>2, <1>3 DEF InSection

LEMMA LineBefore ==
  ASSUME NEW s, NEW a, NEW b, NEW w, NEW r, Spliced(s, a, b, w, r),
         NEW k \in Keys, NEW v \in Values, NEW i \in 1 .. a
  PROVE  /\ KeyLine(s, k, v, i) <=> KeyLine(r, k, v, i)
         /\ KeyLine(s, k, v, i) => i + Len(k[2]) + Len(v) + 1 <= a
<1>1. /\ a \in Nat /\ a <= Len(s) /\ Len(s) \in Nat /\ \A n \in 1 .. a : r[n] = s[n]
      /\ b \in Nat /\ b <= Len(s) /\ Len(w) \in Nat /\ Len(r) = Len(s) + (a + Len(w) - b)
  BY Size DEF Spliced, Ends
<1>2. a <= Len(r) BY <1>1
<1>3. /\ At(s, Line(k[2], v), i) <=> At(r, Line(k[2], v), i)
      /\ At(s, Line(k[2], v), i) => i + Len(Line(k[2], v)) - 1 <= a
  BY Names, LineEnds, Before
<1>4. InSection(s, k[1], i) <=> InSection(r, k[1], i)
  <2>1. i \in 1 .. a + 1 BY <1>1
  <2> QED BY <2>1, SectionBefore
<1>5. i \in 2 .. Len(s) => i - 1 \in 1 .. a /\ i \in 2 .. Len(r) BY <1>1, <1>2
<1>6. i \in 2 .. Len(r) => i - 1 \in 1 .. a /\ i \in 2 .. Len(s) BY <1>1, <1>2
<1>7. Len(Line(k[2], v)) = Len(k[2]) + Len(v) + 2 /\ Len(k[2]) \in Nat /\ Len(v) \in Nat
  BY Names, LineIs
<1>8. KeyLine(s, k, v, i) <=> KeyLine(r, k, v, i)
  BY <1>1, <1>3, <1>4, <1>5, <1>6 DEF KeyLine
<1>9. i + Len(Line(k[2], v)) - 1 = i + Len(k[2]) + Len(v) + 1 BY <1>7
<1> QED BY <1>3, <1>8, <1>9 DEF KeyLine

LEMMA FirstBefore ==
  ASSUME NEW s, NEW a, NEW b, NEW w, NEW r, Spliced(s, a, b, w, r),
         NEW k \in Keys, NEW i \in 1 .. a + 1
  PROVE  InFirst(s, k[1], i) <=> InFirst(r, k[1], i)
<1>1. a \in Nat /\ \A n \in 1 .. a : r[n] = s[n] BY Size DEF Spliced
<1>2. \A h \in 1 .. a : At(s, Header(k[1]), h) <=> At(r, Header(k[1]), h)
  BY HeaderEnds, Before
<1>3. \A h \in 1 .. i - 1 : Opens(s, k[1], h) <=> Opens(r, k[1], h)
  <2>1. \A h \in 1 .. i - 1 : h \in 1 .. a /\ \A g \in 1 .. h - 1 : g \in 1 .. a BY <1>1
  <2> QED BY <1>2, <2>1 DEF Opens
<1>4. \A h \in 1 .. i - 1 : \A n \in h + 1 .. i - 1 : r[n] = s[n]
  <2>1. \A h \in 1 .. i - 1 : \A n \in h + 1 .. i - 1 : n \in 1 .. a BY <1>1
  <2> QED BY <1>1, <2>1
<1> QED BY <1>3, <1>4 DEF InFirst

LEMMA LiveBefore ==
  ASSUME NEW s, NEW a, NEW b, NEW w, NEW r, Spliced(s, a, b, w, r),
         NEW k \in Keys, NEW v \in Values, NEW i \in 1 .. a
  PROVE  LiveLine(s, k, v, i) <=> LiveLine(r, k, v, i)
<1>1. i \in 1 .. a + 1 BY Size DEF Spliced
<1>2. InFirst(s, k[1], i) <=> InFirst(r, k[1], i) BY <1>1, FirstBefore
<1> QED BY <1>2, LineBefore DEF LiveLine

(* A place in a section of the token of k, where a line of k is, or none.   *)
Place(s, k, a, b) ==
  /\ InSection(s, k[1], a + 1)
  /\ \/ b = a
     \/ \E v \in Values : KeyLine(s, k, v, a + 1) /\ b = a + Len(k[2]) + Len(v) + 2

LEMMA PlaceIs ==
  ASSUME NEW s, Profiled(s), NEW k \in Keys, NEW a \in 1 .. Len(s), NEW b, Place(s, k, a, b)
  PROVE  /\ b \in a .. Len(s) /\ (s[a] = "\n" => s[b] = "\n")
         /\ \A n \in a + 1 .. b : s[n] # "["
         /\ \A l \in Keys, x \in Values, i \in a + 1 .. b :
              KeyLine(s, l, x, i) => l = k /\ b = i + Len(k[2]) + Len(x) + 1
<1>1. s \in Text /\ Len(s) \in Nat /\ a \in Nat BY Size DEF Profiled
<1>2. Plain(k[1]) /\ Plain(k[2]) /\ Len(k[2]) \in Nat BY Names
<1>3. CASE b = a
  <2>1. a + 1 .. b = {} /\ b \in a .. Len(s) BY <1>1, <1>3
  <2> QED BY <1>3, <2>1
<1>4. CASE \E v \in Values : KeyLine(s, k, v, a + 1) /\ b = a + Len(k[2]) + Len(v) + 2
  <2>1. PICK v \in Values : KeyLine(s, k, v, a + 1) /\ b = a + Len(k[2]) + Len(v) + 2
    BY <1>4
  <2> DEFINE i == a + 1
             q == k[2]
  <2>2. Plain(v) /\ Len(v) \in Nat BY Names
  <2>3. /\ At(s, Line(q, v), i) /\ i \in Nat \ {0} /\ i \in 2 .. Len(s)
        /\ InSection(s, k[1], i)
    BY <1>1, <2>1 DEF KeyLine
  <2>4. b = i + Len(q) + Len(v) + 1 /\ Plain(q) /\ Len(q) \in Nat /\ i \in 1 .. Len(s) /\ a = i - 1
                 /\ b \in Int
    <3>1. \A x, y, z \in Nat : x + y + z + 2 = (x + 1) + y + z + 1 /\ x + y + z + 2 \in Int
      OBVIOUS
    <3>2. Len(q) \in Nat /\ Len(v) \in Nat /\ Plain(q) BY <1>2, <2>2
    <3>3. i \in 1 .. Len(s) /\ a = i - 1 BY <1>1, <2>3
    <3> QED BY <1>1, <2>1, <3>1, <3>2, <3>3
  <2>0. KeyLine(s, k, v, i) BY <2>1
  <2> HIDE DEF i, q
  <2>5. b <= Len(s) /\ s[b] = "\n" BY <1>1, <2>2, <2>3, <2>4, LineAt
  <2>6. \A n \in i .. b : s[n] # "[" /\ (s[n] = "\n" <=> n = b)
    BY <1>1, <2>2, <2>3, <2>4, LineMarks
  <2>7. ASSUME NEW l \in Keys, NEW x \in Values, NEW j \in i .. b, KeyLine(s, l, x, j)
        PROVE  l = k /\ b = j + Len(q) + Len(x) + 1
    <3>1. /\ At(s, Line(l[2], x), j) /\ InSection(s, l[1], j) /\ s[j - 1] = "\n"
          /\ Plain(l[1]) /\ Plain(l[2]) /\ Plain(x) /\ k = <<k[1], q>> /\ l = <<l[1], l[2]>>
      BY <2>7, Names DEF KeyLine, q
    <3>2. j = i
      <4>1. ASSUME j # i PROVE j - 1 \in i .. b /\ j - 1 # b
        BY <2>3, <2>4, <2>7, <4>1
      <4> QED BY <2>6, <3>1, <4>1
    <3>3. l[2] = q /\ x = v BY <1>1, <2>2, <2>3, <2>4, <3>1, <3>2, SameLine
    <3>4. l[1] = k[1]
      <4>1. \A n \in i .. i - 1 : s[n] # "[" BY <2>3
      <4>2. i \in Nat /\ i \in i .. Len(s) BY <1>1, <2>3
      <4> QED BY <1>1, <1>2, <2>3, <3>1, <3>2, <4>1, <4>2, SameSection
    <3>5. b = j + Len(q) + Len(x) + 1 BY <2>4, <3>2, <3>3
    <3> QED BY <3>1, <3>3, <3>4, <3>5
  <2>9. b \in a .. Len(s) BY <1>1, <2>2, <2>3, <2>4, <2>5
  <2> QED BY <2>5, <2>6, <2>7, <2>9 DEF i, q
<1> QED BY <1>3, <1>4 DEF Place

(* r is the profile s with the line of k and v in its place. *)
Replaces(s, k, a, b, v, d, r) ==
  /\ Profiled(s) /\ a \in 1 .. Len(s) /\ s[a] = "\n" /\ Place(s, k, a, b)
  /\ Spliced(s, a, b, Line(k[2], v), r)
  /\ d = a + Len(Line(k[2], v)) - b

(* Position i of s is position j of r. *)
Moved(a, b, d, i, j) ==
  \/ i <= a /\ j = i
  \/ i > b /\ j = i + d

(* s and r are alike up to a, and behind b at a distance of d; between them *)
(* no header begins and, in r, no line ends.                                *)
Aligned(s, a, b, d, r) ==
  /\ s \in Text /\ r \in Text /\ Len(s) \in Nat /\ Len(r) \in Nat
  /\ a \in Nat \ {0} /\ b \in Nat /\ a <= b /\ b <= Len(s) /\ d \in Int
  /\ Len(r) = Len(s) + d /\ b + d >= a
  /\ s[a] = "\n" /\ s[b] = "\n" /\ r[a] = "\n" /\ r[b + d] = "\n"
  /\ \A n \in 1 .. a : r[n] = s[n]
  /\ \A n \in b + 1 .. Len(s) : r[n + d] = s[n]
  /\ \A n \in a + 1 .. b : s[n] # "["
  /\ \A n \in a + 1 .. b + d : r[n] # "[" /\ (n < b + d => r[n] # "\n")

LEMMA ReplacesIs ==
  ASSUME NEW s, NEW k \in Keys, NEW a, NEW b, NEW v \in Values, NEW d, NEW r,
         Replaces(s, k, a, b, v, d, r)
  PROVE  /\ Aligned(s, a, b, d, r)
         /\ b + d = a + Len(k[2]) + Len(v) + 2
         /\ Len(k[2]) \in Nat \ {0} /\ Len(v) \in Nat
<1> DEFINE w == Line(k[2], v)
<1>1. /\ Len(w) = Len(k[2]) + Len(v) + 2 /\ Len(k[2]) \in Nat \ {0} /\ Len(v) \in Nat
      /\ Ends(w) /\ \A n \in 1 .. Len(w) : w[n] # "["
  BY Names, LineIs, LineEnds
<1>0. d = a + Len(w) - b /\ Spliced(s, a, b, w, r) BY DEF Replaces
<1>2. /\ s \in Text /\ r \in Text /\ Len(s) \in Nat /\ Len(r) \in Nat
      /\ a \in Nat \ {0} /\ s[a] = "\n" /\ a \in 1 .. Len(s)
  BY <1>0, Size DEF Replaces, Spliced
<1>3. b \in a .. Len(s) /\ s[b] = "\n" /\ \A n \in a + 1 .. b : s[n] # "["
  BY PlaceIs DEF Replaces
<1>4. b \in Nat /\ a <= b /\ b <= Len(s) BY <1>2, <1>3
<1> HIDE DEF w
<1>5. /\ Len(r) = Len(s) + d
      /\ \A n \in 1 .. a : r[n] = s[n]
      /\ \A n \in 1 .. Len(w) : r[a + n] = w[n]
      /\ \A n \in b + 1 .. Len(s) : r[n + d] = s[n]
  BY <1>0 DEF Spliced
<1>6. Len(w) \in Nat \ {0} BY <1>1
<1>7. d \in Int /\ b + d = a + Len(w) /\ b + d >= a BY <1>0, <1>2, <1>4, <1>6
<1>8. ASSUME NEW n \in a + 1 .. b + d PROVE r[n] # "[" /\ (n < b + d => r[n] # "\n")
  <2>1. n - a \in 1 .. Len(w) /\ a + (n - a) = n /\ (n < b + d => n - a \in 1 .. Len(w) - 1)
    BY <1>2, <1>6, <1>7
  <2>2. r[n] = w[n - a] BY <1>5, <2>1
  <2> QED BY <1>1, <2>1, <2>2 DEF Ends
<1>9. r[a] = "\n" /\ r[b + d] = "\n"
  <2>1. a \in 1 .. a /\ Len(w) \in 1 .. Len(w) BY <1>2, <1>6
  <2>2. r[a + Len(w)] = "\n" BY <1>1, <1>5, <2>1 DEF Ends
  <2> QED BY <1>2, <1>5, <1>7, <2>1, <2>2
<1>10. Aligned(s, a, b, d, r)
  BY <1>2, <1>3, <1>4, <1>5, <1>7, <1>8, <1>9 DEF Aligned
<1>11. b + d = a + Len(k[2]) + Len(v) + 2
  <2>1. \A x, y, z \in Nat : x + (y + z + 2) = x + y + z + 2 OBVIOUS
  <2> QED BY <1>1, <1>2, <1>7, <2>1
<1> QED BY <1>1, <1>10, <1>11

LEMMA HeadersMoved ==
  ASSUME NEW s, NEW k \in Keys, NEW a, NEW b, NEW v \in Values, NEW d, NEW r,
         Replaces(s, k, a, b, v, d, r),
         NEW l \in Keys
  PROVE  /\ \A h \in 1 .. Len(s) : At(s, Header(l[1]), h) =>
              \E g \in 1 .. Len(r) : Moved(a, b, d, h, g) /\ At(r, Header(l[1]), g)
         /\ \A g \in 1 .. Len(r) : At(r, Header(l[1]), g) =>
              \E h \in 1 .. Len(s) : Moved(a, b, d, h, g) /\ At(s, Header(l[1]), h)
<1> DEFINE x == Header(l[1])
<1>1. /\ s \in Text /\ r \in Text /\ Len(s) \in Nat /\ Len(r) \in Nat
      /\ a \in Nat \ {0} /\ b \in Nat /\ a <= b /\ b <= Len(s) /\ d \in Int
      /\ Len(r) = Len(s) + d /\ b + d >= a
      /\ \A n \in a + 1 .. b : s[n] # "["
      /\ \A n \in a + 1 .. b + d : r[n] # "["
  <2>1. Aligned(s, a, b, d, r) BY ReplacesIs
  <2> QED BY <2>1 DEF Aligned
<1>2. /\ Spliced(s, a, b, Line(k[2], v), r) BY DEF Replaces
<1>3. Ends(x) /\ x \in Text BY HeaderEnds DEF Ends
<1>4. \A h \in 1 .. Len(s) : At(s, x, h) => s[h] = "["
  <2> SUFFICES ASSUME NEW h \in 1 .. Len(s), At(s, x, h) PROVE s[h] = "["
    OBVIOUS
  <2>1. h \in Nat \ {0} BY <1>1
  <2> QED BY <1>1, <2>1, Names, HeaderAt
<1>5. \A g \in 1 .. Len(r) : At(r, x, g) => r[g] = "["
  <2> SUFFICES ASSUME NEW g \in 1 .. Len(r), At(r, x, g) PROVE r[g] = "["
    OBVIOUS
  <2>1. g \in Nat \ {0} BY <1>1
  <2> QED BY <1>1, <2>1, Names, HeaderAt
<1> HIDE DEF x
<1>6. \A h \in 1 .. a : At(s, x, h) <=> At(r, x, h) BY <1>2, <1>3, Before
<1>7. \A h \in b + 1 .. Len(s) : At(s, x, h) <=> At(r, x, h + d)
  <2>1. \A h \in b + 1 .. Len(s) : At(s, x, h) <=> At(r, x, h + (a + Len(Line(k[2], v)) - b))
    BY <1>2, <1>3, Behind
  <2> QED BY <2>1 DEF Replaces
<1>8. ASSUME NEW h \in 1 .. Len(s), At(s, x, h)
      PROVE  \E g \in 1 .. Len(r) : Moved(a, b, d, h, g) /\ At(r, x, g)
  <2>1. CASE h \in 1 .. a
    <3>1. At(r, x, h) /\ h \in 1 .. Len(r) BY <1>1, <1>6, <1>8, <2>1
    <3>2. h <= a BY <1>1, <2>1
    <3>3. Moved(a, b, d, h, h) BY <3>2 DEF Moved
    <3> QED BY <3>1, <3>3
  <2>2. CASE h \in b + 1 .. Len(s)
    <3>1. At(r, x, h + d) /\ h + d \in 1 .. Len(r) BY <1>1, <1>7, <1>8, <2>2
    <3>2. Moved(a, b, d, h, h + d) BY <1>1, <2>2 DEF Moved
    <3> QED BY <3>1, <3>2
  <2>3. h \notin a + 1 .. b BY <1>1, <1>4, <1>8
  <2> QED BY <1>1, <2>1, <2>2, <2>3
<1>9. ASSUME NEW g \in 1 .. Len(r), At(r, x, g)
      PROVE  \E h \in 1 .. Len(s) : Moved(a, b, d, h, g) /\ At(s, x, h)
  <2>1. CASE g \in 1 .. a
    <3>1. At(s, x, g) /\ g \in 1 .. Len(s) BY <1>1, <1>6, <1>9, <2>1
    <3>2. g <= a BY <1>1, <2>1
    <3>3. Moved(a, b, d, g, g) BY <3>2 DEF Moved
    <3> QED BY <3>1, <3>3
  <2>2. CASE g \in b + d + 1 .. Len(r)
    <3> DEFINE h == g - d
    <3>1. h \in b + 1 .. Len(s) /\ h + d = g /\ h \in 1 .. Len(s) /\ h > b BY <1>1, <2>2
    <3> HIDE DEF h
    <3>2. At(s, x, h) BY <1>7, <1>9, <3>1
    <3>3. Moved(a, b, d, h, g) BY <3>1 DEF Moved
    <3> QED BY <3>1, <3>2, <3>3
  <2>3. g \notin a + 1 .. b + d BY <1>1, <1>5, <1>9
  <2> QED BY <1>1, <2>1, <2>2, <2>3
<1> QED BY <1>8, <1>9 DEF x

(* The first header of a token is moved to the first one. *)
LEMMA OpensMoved ==
  ASSUME NEW s, NEW k \in Keys, NEW a, NEW b, NEW v \in Values, NEW d, NEW r,
         Replaces(s, k, a, b, v, d, r),
         NEW l \in Keys
  PROVE  /\ \A h \in 1 .. Len(s) : Opens(s, l[1], h) =>
              \E g \in 1 .. Len(r) : Moved(a, b, d, h, g) /\ Opens(r, l[1], g)
         /\ \A g \in 1 .. Len(r) : Opens(r, l[1], g) =>
              \E h \in 1 .. Len(s) : Moved(a, b, d, h, g) /\ Opens(s, l[1], h)
<1> DEFINE x == Header(l[1])
<1>1. /\ Len(s) \in Nat /\ Len(r) \in Nat
      /\ a \in Nat \ {0} /\ b \in Nat /\ a <= b /\ b <= Len(s) /\ d \in Int
      /\ Len(r) = Len(s) + d /\ b + d >= a
  <2>1. Aligned(s, a, b, d, r) BY ReplacesIs
  <2> QED BY <2>1 DEF Aligned
<1>2. /\ \A h \in 1 .. Len(s) : At(s, x, h) =>
           \E g \in 1 .. Len(r) : Moved(a, b, d, h, g) /\ At(r, x, g)
      /\ \A g \in 1 .. Len(r) : At(r, x, g) =>
           \E h \in 1 .. Len(s) : Moved(a, b, d, h, g) /\ At(s, x, h)
  BY HeadersMoved
<1>0. \A t, n : /\ Opens(s, l[1], n) <=> At(s, x, n) /\ \A m \in 1 .. n - 1 : ~At(s, x, m)
                /\ Opens(r, l[1], n) <=> At(r, x, n) /\ \A m \in 1 .. n - 1 : ~At(r, x, m)
  BY DEF Opens
<1> HIDE DEF x
<1>3. ASSUME NEW h \in 1 .. Len(s), NEW g \in 1 .. Len(r), Moved(a, b, d, h, g),
             NEW m \in 1 .. Len(s), NEW n \in 1 .. Len(r), Moved(a, b, d, m, n)
      PROVE  m < h <=> n < g
  BY <1>1, <1>3 DEF Moved
<1>4. ASSUME NEW h \in 1 .. Len(s), Opens(s, l[1], h)
      PROVE  \E g \in 1 .. Len(r) : Moved(a, b, d, h, g) /\ Opens(r, l[1], g)
  <2>1. PICK g \in 1 .. Len(r) : Moved(a, b, d, h, g) /\ At(r, x, g) BY <1>0, <1>2, <1>4
  <2>2. ASSUME NEW n \in 1 .. g - 1, At(r, x, n) PROVE FALSE
    <3>1. n \in 1 .. Len(r) /\ n < g BY <1>1
    <3>2. PICK m \in 1 .. Len(s) : Moved(a, b, d, m, n) /\ At(s, x, m) BY <1>2, <2>2, <3>1
    <3>3. m < h BY <1>3, <2>1, <3>1, <3>2
    <3>4. m \in 1 .. h - 1 BY <3>3
    <3> QED BY <1>0, <1>4, <3>2, <3>4
  <2> QED BY <1>0, <2>1, <2>2
<1>5. ASSUME NEW g \in 1 .. Len(r), Opens(r, l[1], g)
      PROVE  \E h \in 1 .. Len(s) : Moved(a, b, d, h, g) /\ Opens(s, l[1], h)
  <2>1. PICK h \in 1 .. Len(s) : Moved(a, b, d, h, g) /\ At(s, x, h) BY <1>0, <1>2, <1>5
  <2>2. ASSUME NEW m \in 1 .. h - 1, At(s, x, m) PROVE FALSE
    <3>1. m \in 1 .. Len(s) /\ m < h BY <1>1
    <3>2. PICK n \in 1 .. Len(r) : Moved(a, b, d, m, n) /\ At(r, x, n) BY <1>2, <2>2, <3>1
    <3>3. n < g BY <1>3, <2>1, <3>1, <3>2
    <3>4. n \in 1 .. g - 1 BY <3>3
    <3> QED BY <1>0, <1>5, <3>2, <3>4
  <2> QED BY <1>0, <2>1, <2>2
<1> QED BY <1>4, <1>5

(* The positions of H in s are moved to those of G in r. *)
AllMoved(s, r, a, b, d, H, G) ==
  /\ \A h \in 1 .. Len(s) : h \in H => \E g \in 1 .. Len(r) : Moved(a, b, d, h, g) /\ g \in G
  /\ \A g \in 1 .. Len(r) : g \in G => \E h \in 1 .. Len(s) : Moved(a, b, d, h, g) /\ h \in H

(* Looking back from i, one finds a position of H before any "[". *)
Seen(s, H, i) == \E h \in 1 .. i - 1 : h \in H /\ \A n \in h + 1 .. i - 1 : s[n] # "["

(* Looking back from behind b, one finds in r what one finds in s.          *)
LEMMA LookBack ==
  ASSUME NEW s, NEW a, NEW b, NEW d, NEW r, Aligned(s, a, b, d, r), NEW H, NEW G,
         AllMoved(s, r, a, b, d, H, G),
         NEW i \in b + 1 .. Len(s), NEW j, j = i + d
  PROVE  Seen(s, H, i) <=> Seen(r, G, j)
<1>1. /\ s \in Text /\ r \in Text /\ Len(s) \in Nat /\ Len(r) \in Nat
      /\ a \in Nat \ {0} /\ b \in Nat /\ a <= b /\ b <= Len(s) /\ d \in Int
      /\ Len(r) = Len(s) + d /\ b + d >= a
      /\ \A n \in 1 .. a : r[n] = s[n]
      /\ \A n \in b + 1 .. Len(s) : r[n + d] = s[n]
      /\ \A n \in a + 1 .. b : s[n] # "["
      /\ \A n \in a + 1 .. b + d : r[n] # "["
  BY DEF Aligned
<1>0. j = i + d /\ i \in Nat /\ j \in Int BY <1>1
<1>2. /\ \A h \in 1 .. Len(s) : h \in H => \E g \in 1 .. Len(r) : Moved(a, b, d, h, g) /\ g \in G
      /\ \A g \in 1 .. Len(r) : g \in G => \E h \in 1 .. Len(s) : Moved(a, b, d, h, g) /\ h \in H
  BY DEF AllMoved
<1>3. ASSUME NEW h \in 1 .. i - 1, h \in H, \A n \in h + 1 .. i - 1 : s[n] # "["
      PROVE  \E g \in 1 .. j - 1 : g \in G /\ \A n \in g + 1 .. j - 1 : r[n] # "["
  <2>1. h \in 1 .. Len(s) BY <1>1
  <2>2. PICK g \in 1 .. Len(r) : Moved(a, b, d, h, g) /\ g \in G BY <1>2, <1>3, <2>1
  <2>3. g \in 1 .. j - 1 BY <1>0, <1>1, <2>2 DEF Moved
  <2>4. ASSUME NEW n \in g + 1 .. j - 1 PROVE r[n] # "["
    <3>1. CASE n \in 1 .. a
      <4>1. n \in h + 1 .. i - 1 BY <1>1, <2>2, <3>1 DEF Moved
      <4> QED BY <1>1, <1>3, <3>1, <4>1
    <3>2. CASE n \in a + 1 .. b + d BY <1>1, <3>2
    <3>3. CASE n > b + d
      <4> DEFINE m == n - d
      <4>1. m \in b + 1 .. Len(s) /\ m + d = n /\ m \in h + 1 .. i - 1
        BY <1>0, <1>1, <2>2, <3>3 DEF Moved
      <4> HIDE DEF m
      <4> QED BY <1>1, <1>3, <4>1
    <3> QED BY <1>1, <3>1, <3>2, <3>3
  <2> QED BY <2>2, <2>3, <2>4
<1>4. ASSUME NEW g \in 1 .. j - 1, g \in G, \A n \in g + 1 .. j - 1 : r[n] # "["
      PROVE  \E h \in 1 .. i - 1 : h \in H /\ \A n \in h + 1 .. i - 1 : s[n] # "["
  <2>1. g \in 1 .. Len(r) BY <1>0, <1>1
  <2>2. PICK h \in 1 .. Len(s) : Moved(a, b, d, h, g) /\ h \in H BY <1>2, <1>4, <2>1
  <2>3. h \in 1 .. i - 1 BY <1>0, <1>1, <2>2 DEF Moved
  <2>4. ASSUME NEW n \in h + 1 .. i - 1 PROVE s[n] # "["
    <3>1. CASE n \in 1 .. a
      <4>1. n \in g + 1 .. j - 1 BY <1>0, <1>1, <2>2, <3>1 DEF Moved
      <4> QED BY <1>1, <1>4, <3>1, <4>1
    <3>2. CASE n \in a + 1 .. b BY <1>1, <3>2
    <3>3. CASE n > b
      <4>1. n \in b + 1 .. Len(s) /\ n + d \in g + 1 .. j - 1
        BY <1>0, <1>1, <2>2, <3>3 DEF Moved
      <4> QED BY <1>1, <1>4, <4>1
    <3> QED BY <1>1, <3>1, <3>2, <3>3
  <2> QED BY <2>2, <2>3, <2>4
<1> QED BY <1>3, <1>4 DEF Seen

LEMMA SectionMoved ==
  ASSUME NEW s, NEW k \in Keys, NEW a, NEW b, NEW v \in Values, NEW d, NEW r,
         Replaces(s, k, a, b, v, d, r),
         NEW l \in Keys,
         NEW i \in b + 1 .. Len(s)
  PROVE  /\ InSection(s, l[1], i) <=> InSection(r, l[1], i + d)
         /\ InFirst(s, l[1], i) <=> InFirst(r, l[1], i + d)
<1> DEFINE t == l[1]
           j == i + d
           H == {h \in 1 .. Len(s) : At(s, Header(t), h)}
           G == {g \in 1 .. Len(r) : At(r, Header(t), g)}
           I == {h \in 1 .. Len(s) : Opens(s, t, h)}
           J == {g \in 1 .. Len(r) : Opens(r, t, g)}
<1>1. Aligned(s, a, b, d, r) BY ReplacesIs
<1>2. /\ i \in Nat /\ j \in Nat /\ \A h \in 1 .. i - 1 : h \in 1 .. Len(s)
      /\ \A g \in 1 .. j - 1 : g \in 1 .. Len(r)
  BY <1>1 DEF Aligned
<1>3. AllMoved(s, r, a, b, d, H, G) BY HeadersMoved DEF AllMoved
<1>4. AllMoved(s, r, a, b, d, I, J) BY OpensMoved DEF AllMoved
<1>5. /\ InSection(s, t, i) <=> Seen(s, H, i)
      /\ InSection(r, t, j) <=> Seen(r, G, j)
      /\ InFirst(s, t, i) <=> Seen(s, I, i)
      /\ InFirst(r, t, j) <=> Seen(r, J, j)
  BY <1>2 DEF InSection, InFirst, Seen
<1>6. j = i + d OBVIOUS
<1> HIDE DEF t, j, H, G, I, J
<1>7. /\ Seen(s, H, i) <=> Seen(r, G, j)
      /\ Seen(s, I, i) <=> Seen(r, J, j)
  BY <1>1, <1>3, <1>4, <1>6, LookBack
<1>8. /\ InSection(s, t, i) <=> InSection(r, t, j)
      /\ InFirst(s, t, i) <=> InFirst(r, t, j)
  BY <1>5, <1>7
<1> QED BY <1>8 DEF t, j

LEMMA LineMoved ==
  ASSUME NEW s, NEW k \in Keys, NEW a, NEW b, NEW v \in Values, NEW d, NEW r,
         Replaces(s, k, a, b, v, d, r),
         NEW l \in Keys, NEW x \in Values, NEW i \in b + 1 .. Len(s)
  PROVE  KeyLine(s, l, x, i) <=> KeyLine(r, l, x, i + d)
<1>1. /\ Len(s) \in Nat /\ Len(r) \in Nat
      /\ a \in Nat \ {0} /\ b \in Nat /\ a <= b /\ d \in Int
      /\ Len(r) = Len(s) + d /\ b + d >= a
      /\ s[b] = "\n" /\ r[b + d] = "\n"
      /\ \A n \in b + 1 .. Len(s) : r[n + d] = s[n]
  <2>1. Aligned(s, a, b, d, r) BY ReplacesIs
  <2> QED BY <2>1 DEF Aligned
<1>2. At(s, Line(l[2], x), i) <=> At(r, Line(l[2], x), i + d)
  <2>1. Line(l[2], x) \in Text BY Names, LineEnds DEF Ends
  <2>2. Spliced(s, a, b, Line(k[2], v), r) /\ d = a + Len(Line(k[2], v)) - b BY DEF Replaces
  <2> QED BY <2>1, <2>2, Behind
<1>3. InSection(s, l[1], i) <=> InSection(r, l[1], i + d) BY SectionMoved
<1>4. s[i - 1] = "\n" <=> r[i + d - 1] = "\n"
  <2>1. CASE i = b + 1
    <3>1. i - 1 = b /\ i + d - 1 = b + d BY <1>1, <2>1
    <3> QED BY <1>1, <3>1
  <2>2. CASE i # b + 1
    <3>1. i - 1 \in b + 1 .. Len(s) /\ i - 1 + d = i + d - 1 BY <1>1, <2>2
    <3> QED BY <1>1, <3>1
  <2> QED BY <2>1, <2>2
<1>5. i \in 2 .. Len(s) /\ i + d \in 2 .. Len(r) BY <1>1
<1> DEFINE j == i + d
<1>6. /\ At(s, Line(l[2], x), i) <=> At(r, Line(l[2], x), j)
      /\ InSection(s, l[1], i) <=> InSection(r, l[1], j)
      /\ s[i - 1] = "\n" <=> r[j - 1] = "\n"
      /\ i \in 2 .. Len(s) /\ j \in 2 .. Len(r)
  <2>1. j - 1 = i + d - 1 BY <1>1
  <2> QED BY <1>2, <1>3, <1>4, <1>5, <2>1
<1> HIDE DEF j
<1>7. KeyLine(s, l, x, i) <=> KeyLine(r, l, x, j) BY <1>6 DEF KeyLine
<1> QED BY <1>7 DEF j

LEMMA NewLine ==
  ASSUME NEW s, NEW k \in Keys, NEW a, NEW b, NEW v \in Values, NEW d, NEW r,
         Replaces(s, k, a, b, v, d, r),
         NEW l \in Keys, NEW x \in Values, NEW i \in a + 1 .. b + d
  PROVE  KeyLine(r, l, x, i) <=> i = a + 1 /\ l = k /\ x = v
<1>1. /\ Len(s) \in Nat /\ Len(r) \in Nat /\ r \in Text
      /\ a \in Nat \ {0} /\ b \in Nat /\ a <= b /\ b <= Len(s) /\ d \in Int
      /\ Len(r) = Len(s) + d /\ b + d >= a /\ r[a] = "\n"
      /\ \A n \in a + 1 .. b + d : r[n] # "[" /\ (n < b + d => r[n] # "\n")
  <2>1. Aligned(s, a, b, d, r) BY ReplacesIs
  <2> QED BY <2>1 DEF Aligned
<1>2. Spliced(s, a, b, Line(k[2], v), r) /\ d = a + Len(Line(k[2], v)) - b
  BY DEF Replaces
<1>3. /\ Plain(k[1]) /\ Plain(k[2]) /\ Plain(l[1]) /\ Plain(l[2]) /\ Plain(v) /\ Plain(x)
      /\ k = <<k[1], k[2]>> /\ l = <<l[1], l[2]>>
  BY Names
<1>4. a + 1 \in Nat \ {0} /\ a + 1 \in 2 .. Len(r) /\ (a + 1) - 1 = a BY <1>1
<1>5. At(r, Line(k[2], v), a + 1)
  <2> DEFINE w == Line(k[2], v)
  <2>1. w \in Text /\ Len(w) \in Nat /\ \A n \in 1 .. Len(w) : r[a + n] = w[n]
    BY <1>2, Size DEF Spliced, Ends
  <2>2. b + d = a + Len(w) BY <1>1, <1>2, <2>1
  <2> HIDE DEF w
  <2>3. a + 1 + Len(w) - 1 <= Len(r) BY <1>1, <2>1, <2>2
  <2>4. \A n \in 1 .. Len(w) : r[a + 1 + n - 1] = w[n]
    <3>1. \A n \in 1 .. Len(w) : a + 1 + n - 1 = a + n BY <1>1, <2>1
    <3> QED BY <2>1, <3>1
  <2>5. At(r, w, a + 1) BY <1>1, <1>4, <2>1, <2>3, <2>4, AtPoints
  <2> QED BY <2>5 DEF w
<1>6. InSection(r, k[1], a + 1)
  <2>1. InSection(s, k[1], a + 1) BY DEF Replaces, Place
  <2>2. a + 1 \in 1 .. a + 1 BY <1>1
  <2> QED BY <1>2, <2>1, <2>2, SectionBefore
<1>7. KeyLine(r, k, v, a + 1) BY <1>1, <1>4, <1>5, <1>6 DEF KeyLine
<1>8. ASSUME KeyLine(r, l, x, i) PROVE i = a + 1 /\ l = k /\ x = v
  <2>1. At(r, Line(l[2], x), i) /\ InSection(r, l[1], i) /\ r[i - 1] = "\n"
    BY <1>8 DEF KeyLine
  <2>2. i = a + 1
    <3>1. ASSUME i # a + 1 PROVE i - 1 \in a + 1 .. b + d /\ i - 1 < b + d
      BY <1>1, <3>1
    <3> QED BY <1>1, <2>1, <3>1
  <2>3. l[2] = k[2] /\ x = v BY <1>1, <1>3, <1>4, <1>5, <2>1, <2>2, SameLine
  <2>4. l[1] = k[1]
    <3>1. \A n \in a + 1 .. a + 1 - 1 : r[n] # "[" BY <1>1
    <3>2. a + 1 \in Nat /\ a + 1 \in a + 1 .. Len(r) BY <1>1, <1>4
    <3> QED BY <1>1, <1>3, <1>6, <2>1, <2>2, <3>1, <3>2, SameSection
  <2> QED BY <1>3, <2>2, <2>3, <2>4
<1> QED BY <1>7, <1>8

(* What r says: the new line, if it is in the first section, and the lines  *)
(* of s that are not in its place.                                          *)
LEMMA LinesMoved ==
  ASSUME NEW s, NEW k \in Keys, NEW a, NEW b, NEW v \in Values, NEW d, NEW r,
         Replaces(s, k, a, b, v, d, r),
         NEW l \in Keys, NEW x \in Values
  PROVE  /\ \A i \in 1 .. Len(r) : LiveLine(r, l, x, i) =>
              \/ l = k /\ x = v /\ i = a + 1 /\ InFirst(s, k[1], a + 1)
              \/ \E j \in 1 .. Len(s) : Moved(a, b, d, j, i) /\ LiveLine(s, l, x, j)
         /\ \A j \in 1 .. Len(s) : j \notin a + 1 .. b /\ LiveLine(s, l, x, j) =>
              \E i \in 1 .. Len(r) : Moved(a, b, d, j, i) /\ LiveLine(r, l, x, i)
<1>1. /\ Len(s) \in Nat /\ Len(r) \in Nat
      /\ a \in Nat \ {0} /\ b \in Nat /\ a <= b /\ b <= Len(s) /\ d \in Int
      /\ Len(r) = Len(s) + d /\ b + d >= a
  <2>1. Aligned(s, a, b, d, r) BY ReplacesIs
  <2> QED BY <2>1 DEF Aligned
<1>2. Spliced(s, a, b, Line(k[2], v), r) BY DEF Replaces
<1>3. \A i \in 1 .. a : LiveLine(s, l, x, i) <=> LiveLine(r, l, x, i) BY <1>2, LiveBefore
<1>4. \A i \in b + 1 .. Len(s) : LiveLine(s, l, x, i) <=> LiveLine(r, l, x, i + d)
  BY LineMoved, SectionMoved DEF LiveLine
<1>5. ASSUME NEW i \in 1 .. Len(r), LiveLine(r, l, x, i)
      PROVE  \/ l = k /\ x = v /\ i = a + 1 /\ InFirst(s, k[1], a + 1)
             \/ \E j \in 1 .. Len(s) : Moved(a, b, d, j, i) /\ LiveLine(s, l, x, j)
  <2>1. CASE i \in 1 .. a
    <3>1. LiveLine(s, l, x, i) /\ i \in 1 .. Len(s) /\ i <= a BY <1>1, <1>3, <1>5, <2>1
    <3>2. Moved(a, b, d, i, i) BY <3>1 DEF Moved
    <3> QED BY <3>1, <3>2
  <2>2. CASE i \in a + 1 .. b + d
    <3>1. KeyLine(r, l, x, i) /\ InFirst(r, l[1], i) BY <1>5 DEF LiveLine
    <3>2. l = k /\ x = v /\ i = a + 1 BY <2>2, <3>1, NewLine
    <3>3. a + 1 \in 1 .. a + 1 BY <1>1
    <3>4. InFirst(s, k[1], a + 1) BY <1>2, <3>1, <3>2, <3>3, FirstBefore
    <3> QED BY <3>2, <3>4
  <2>3. CASE i \in b + d + 1 .. Len(r)
    <3> DEFINE j == i - d
    <3>1. j \in b + 1 .. Len(s) /\ j \in 1 .. Len(s) /\ j > b /\ i = j + d BY <1>1, <2>3
    <3> HIDE DEF j
    <3>2. LiveLine(s, l, x, j) BY <1>4, <1>5, <3>1
    <3>3. Moved(a, b, d, j, i) BY <3>1 DEF Moved
    <3> QED BY <3>1, <3>2, <3>3
  <2> QED BY <1>1, <2>1, <2>2, <2>3
<1>6. ASSUME NEW j \in 1 .. Len(s), j \notin a + 1 .. b, LiveLine(s, l, x, j)
      PROVE  \E i \in 1 .. Len(r) : Moved(a, b, d, j, i) /\ LiveLine(r, l, x, i)
  <2>1. CASE j \in 1 .. a
    <3>1. LiveLine(r, l, x, j) /\ j \in 1 .. Len(r) /\ j <= a BY <1>1, <1>3, <1>6, <2>1
    <3>2. Moved(a, b, d, j, j) BY <3>1 DEF Moved
    <3> QED BY <3>1, <3>2
  <2>2. CASE j \in b + 1 .. Len(s)
    <3>1. LiveLine(r, l, x, j + d) BY <1>4, <1>6, <2>2
    <3>2. j + d \in 1 .. Len(r) /\ j > b BY <1>1, <2>2
    <3>3. Moved(a, b, d, j, j + d) BY <3>2 DEF Moved
    <3> QED BY <3>1, <3>2, <3>3
  <2> QED BY <1>1, <1>6, <2>1, <2>2
<1> QED BY <1>5, <1>6

LEMMA Covered ==
  ASSUME NEW s, NEW k \in Keys, NEW a, NEW b, NEW v \in Values, NEW d, NEW r,
         Replaces(s, k, a, b, v, d, r), NEW i \in 1 .. Len(r)
  PROVE  HeaderCovers(r, i) \/ LineCovers(r, i)
<1>1. /\ s \in Text /\ Len(s) \in Nat /\ Len(r) \in Nat
      /\ a \in Nat \ {0} /\ b \in Nat /\ a <= b /\ b <= Len(s) /\ d \in Int
      /\ Len(r) = Len(s) + d /\ b + d >= a
      /\ \A n \in a + 1 .. b : s[n] # "["
  <2>1. Aligned(s, a, b, d, r) BY ReplacesIs
  <2> QED BY <2>1 DEF Aligned
<1>2. /\ Spliced(s, a, b, Line(k[2], v), r) /\ d = a + Len(Line(k[2], v)) - b
      /\ Profiled(s) /\ a \in 1 .. Len(s) /\ Place(s, k, a, b)
  BY DEF Replaces
<1>3. b + d = a + Len(k[2]) + Len(v) + 2 /\ Len(k[2]) \in Nat \ {0} /\ Len(v) \in Nat
  BY ReplacesIs
<1>4. \A l \in Keys, x \in Values, n \in a + 1 .. b :
        KeyLine(s, l, x, n) => l = k /\ b = n + Len(k[2]) + Len(x) + 1
  BY <1>2, PlaceIs
<1>5. /\ \A l \in Keys : /\ Len(l[1]) \in Nat /\ Len(l[2]) \in Nat
                         /\ Ends(Header(l[1])) /\ Len(Header(l[1])) = Len(l[1]) + 3
      /\ \A x \in Values : Len(x) \in Nat
  BY Names, HeaderEnds, HeaderIs
<1>6. \A l \in Keys, h \in 1 .. a : /\ At(s, Header(l[1]), h) <=> At(r, Header(l[1]), h)
                                    /\ At(s, Header(l[1]), h) => h + Len(Header(l[1])) - 1 <= a
  BY <1>2, <1>5, Before
<1>7. \A l \in Keys, x \in Values, n \in 1 .. a :
        /\ KeyLine(s, l, x, n) <=> KeyLine(r, l, x, n)
        /\ KeyLine(s, l, x, n) => n + Len(l[2]) + Len(x) + 1 <= a
  BY <1>2, LineBefore
<1>8. CASE i \in 1 .. a
  <2>1. i \in 1 .. Len(s) BY <1>1, <1>8
  <2>2. CASE HeaderCovers(s, i)
    <3>1. PICK l \in Keys, h \in 1 .. i : At(s, Header(l[1]), h) /\ i <= h + Len(l[1]) + 2
      BY <2>2 DEF HeaderCovers
    <3>2. h \in 1 .. a BY <1>1, <1>8
    <3> QED BY <1>6, <3>1, <3>2 DEF HeaderCovers
  <2>3. CASE LineCovers(s, i)
    <3>1. PICK l \in Keys, x \in Values, j \in 1 .. i :
            KeyLine(s, l, x, j) /\ i <= j + Len(l[2]) + Len(x) + 1
      BY <2>3 DEF LineCovers
    <3>2. j \in 1 .. a BY <1>1, <1>8
    <3> QED BY <1>7, <3>1, <3>2 DEF LineCovers
  <2> QED BY <1>2, <2>1, <2>2, <2>3 DEF Profiled
<1>9. CASE i \in a + 1 .. b + d
  <2>1. a + 1 \in a + 1 .. b + d /\ a + 1 \in 1 .. i BY <1>1, <1>9
  <2>2. KeyLine(r, k, v, a + 1) BY <2>1, NewLine
  <2> DEFINE q == Len(k[2])
  <2>3. i <= b + d /\ b + d = a + q + Len(v) + 2 /\ q \in Nat BY <1>1, <1>3, <1>9
  <2>4. i <= (a + 1) + q + Len(v) + 1
    <3> HIDE DEF q
    <3> QED BY <1>1, <1>3, <1>9, <2>3
  <2> QED BY <2>1, <2>2, <2>4 DEF LineCovers
<1>10. CASE i \in b + d + 1 .. Len(r)
  <2> DEFINE m == i - d
  <2>1. m \in b + 1 .. Len(s) /\ m \in 1 .. Len(s) /\ i = m + d /\ m > b /\ m \in Int
    BY <1>1, <1>10
  <2> HIDE DEF m
  <2>2. CASE HeaderCovers(s, m)
    <3>1. PICK l \in Keys, h \in 1 .. m : At(s, Header(l[1]), h) /\ m <= h + Len(l[1]) + 2
      BY <2>2 DEF HeaderCovers
    <3>2. Len(l[1]) \in Nat /\ Len(Header(l[1])) = Len(l[1]) + 3 /\ Plain(l[1])
      BY <1>5, Names
    <3>3. h \notin 1 .. a
      <4>1. ASSUME h \in 1 .. a PROVE FALSE
        <5>1. h + Len(Header(l[1])) - 1 <= a BY <1>6, <3>1, <4>1
        <5> QED BY <1>1, <2>1, <3>1, <3>2, <5>1
      <4> QED BY <4>1
    <3>4. h \notin a + 1 .. b
      <4> DEFINE t == l[1]
      <4>1. h \in Nat \ {0} BY <1>1, <2>1
      <4>2. Plain(t) /\ At(s, Header(t), h) BY <3>1, <3>2
      <4> HIDE DEF t
      <4>3. s[h] = "[" BY <1>1, <4>1, <4>2, HeaderAt
      <4> QED BY <1>1, <4>3
    <3>5. h \in b + 1 .. Len(s) BY <1>1, <2>1, <3>3, <3>4
    <3>6. At(r, Header(l[1]), h + d)
      <4>1. Header(l[1]) \in Text BY <1>5 DEF Ends
      <4> QED BY <1>2, <3>1, <3>5, <4>1, Behind
    <3>7. h + d \in 1 .. i BY <1>1, <2>1, <3>5
    <3>8. i <= (h + d) + Len(l[1]) + 2
      <4>1. \A x \in Nat : m <= h + x + 2 => i <= (h + d) + x + 2 BY <1>1, <2>1
      <4> QED BY <3>1, <3>2, <4>1
    <3> QED BY <3>6, <3>7, <3>8 DEF HeaderCovers
  <2>3. CASE LineCovers(s, m)
    <3>1. PICK l \in Keys, x \in Values, j \in 1 .. m :
            KeyLine(s, l, x, j) /\ m <= j + Len(l[2]) + Len(x) + 1
      BY <2>3 DEF LineCovers
    <3> DEFINE q == Len(l[2])
    <3>2. /\ q \in Nat /\ Len(x) \in Nat /\ m <= j + q + Len(x) + 1
          /\ j \in 1 .. a => j + q + Len(x) + 1 <= a
      BY <1>5, <1>7, <3>1
    <3>3. j \in a + 1 .. b => b = j + q + Len(x) + 1 BY <1>4, <3>1
    <3> HIDE DEF q
    <3>4. j \in b + 1 .. Len(s) BY <1>1, <2>1, <3>2, <3>3
    <3>5. KeyLine(r, l, x, j + d) BY <3>1, <3>4, LineMoved
    <3>6. j + d \in 1 .. i /\ i <= (j + d) + q + Len(x) + 1 BY <1>1, <2>1, <3>2, <3>4
    <3> QED BY <3>5, <3>6 DEF LineCovers, q
  <2> QED BY <1>2, <2>1, <2>2, <2>3 DEF Profiled
<1> QED BY <1>1, <1>8, <1>9, <1>10

LEMMA MovedOnce ==
  ASSUME NEW a \in Nat, NEW b \in Nat, a <= b, NEW d \in Int, NEW i \in Int,
         NEW m \in Int, NEW n \in Int, Moved(a, b, d, i, m), Moved(a, b, d, i, n)
  PROVE  m = n
BY DEF Moved

(* Whatever token has a header has a setting. *)
Filled(s) ==
  \A k \in Keys, h \in 1 .. Len(s) :
    At(s, Header(k[1]), h) => \E l \in Keys : l[1] = k[1] /\ Says(s, l) # {}

(* r is a profile, in which k is v and all else is as s says. *)
Updates(r, s, k, v) ==
  /\ Profiled(r) /\ (Filled(s) => Filled(r))
  /\ Says(r, k) = {v}
  /\ \A l \in Keys : l # k => Says(r, l) = Says(s, l)

(* The place is in the first section, and the line of k nowhere else in it. *)
Sole(s, k, a, b) ==
  /\ InFirst(s, k[1], a + 1)
  /\ \A x \in Values, i \in 1 .. Len(s) : LiveLine(s, k, x, i) => i \in a + 1 .. b

LEMMA Replaced ==
  ASSUME NEW s, NEW k \in Keys, NEW a, NEW b, NEW v \in Values, NEW d, NEW r,
         Replaces(s, k, a, b, v, d, r), Sole(s, k, a, b)
  PROVE  Updates(r, s, k, v)
<1>1. /\ r \in Text /\ Len(s) \in Nat /\ Len(r) \in Nat
      /\ a \in Nat \ {0} /\ b \in Nat /\ a <= b /\ b <= Len(s) /\ d \in Int
      /\ Len(r) = Len(s) + d /\ b + d >= a
  <2>1. Aligned(s, a, b, d, r) BY ReplacesIs
  <2> QED BY <2>1 DEF Aligned
<1>2. /\ Profiled(s) /\ a \in 1 .. Len(s) /\ Place(s, k, a, b)
      /\ Spliced(s, a, b, Line(k[2], v), r)
  BY DEF Replaces
<1>3. \A i \in 1 .. Len(r) : HeaderCovers(r, i) \/ LineCovers(r, i) BY Covered
<1>4. ASSUME NEW l \in Keys, NEW x \in Values, NEW i \in 1 .. Len(r), LiveLine(r, l, x, i)
      PROVE  \/ l = k /\ i = a + 1
             \/ l # k /\ \E j \in 1 .. Len(s) : Moved(a, b, d, j, i) /\ LiveLine(s, l, x, j)
  <2>1. CASE l = k /\ x = v /\ i = a + 1 /\ InFirst(s, k[1], a + 1) BY <2>1
  <2>2. ASSUME NEW j \in 1 .. Len(s), Moved(a, b, d, j, i), LiveLine(s, l, x, j)
        PROVE  l # k
    <3>1. j \notin a + 1 .. b BY <1>1, <2>2 DEF Moved
    <3> QED BY <2>2, <3>1 DEF Sole
  <2> QED BY <1>4, <2>1, <2>2, LinesMoved
<1>5. ASSUME NEW l \in Keys, NEW x \in Values, NEW y \in Values,
             NEW i \in 1 .. Len(r), NEW j \in 1 .. Len(r),
             LiveLine(r, l, x, i), LiveLine(r, l, y, j)
      PROVE  i = j
  <2>1. CASE l = k
    <3>1. i = a + 1 BY <1>4, <1>5, <2>1
    <3>2. j = a + 1 BY <1>4, <1>5, <2>1
    <3> QED BY <3>1, <3>2
  <2>2. CASE l # k
    <3>1. PICK m \in 1 .. Len(s) : Moved(a, b, d, m, i) /\ LiveLine(s, l, x, m)
      BY <1>4, <1>5, <2>2
    <3>2. PICK n \in 1 .. Len(s) : Moved(a, b, d, n, j) /\ LiveLine(s, l, y, n)
      BY <1>4, <1>5, <2>2
    <3>3. m = n BY <1>2, <3>1, <3>2 DEF Profiled
    <3> QED BY <1>1, <3>1, <3>2, <3>3, MovedOnce
  <2> QED BY <2>1, <2>2
<1>6. Profiled(r) BY <1>1, <1>3, <1>5 DEF Profiled
<1>7. Says(r, k) = {v}
  <2>1. b + d = a + Len(k[2]) + Len(v) + 2 /\ Len(k[2]) \in Nat /\ Len(v) \in Nat
    BY ReplacesIs
  <2>2. a + 1 \in a + 1 .. b + d /\ a + 1 \in 1 .. Len(r) /\ a + 1 \in 1 .. a + 1
    BY <1>1, <2>1
  <2>3. KeyLine(r, k, v, a + 1) BY <2>2, NewLine
  <2>4. InFirst(r, k[1], a + 1) BY <1>2, <2>2, FirstBefore DEF Sole
  <2>5. LiveLine(r, k, v, a + 1) BY <2>3, <2>4 DEF LiveLine
  <2> QED BY <1>6, <2>2, <2>5, SaysOne
<1>8. ASSUME NEW l \in Keys, l # k PROVE Says(r, l) = Says(s, l)
  <2>1. ASSUME NEW x \in Values, NEW i \in 1 .. Len(r), LiveLine(r, l, x, i)
        PROVE  \E j \in 1 .. Len(s) : LiveLine(s, l, x, j)
    BY <1>4, <1>8, <2>1
  <2>2. ASSUME NEW x \in Values, NEW j \in 1 .. Len(s), LiveLine(s, l, x, j)
        PROVE  \E i \in 1 .. Len(r) : LiveLine(r, l, x, i)
    <3>1. j \notin a + 1 .. b BY <1>2, <1>8, <2>2, PlaceIs DEF LiveLine
    <3>2. \E i \in 1 .. Len(r) : Moved(a, b, d, j, i) /\ LiveLine(r, l, x, i)
      BY <2>2, <3>1, LinesMoved
    <3> QED BY <3>2
  <2> QED BY <2>1, <2>2 DEF Says
<1>9. ASSUME Filled(s) PROVE Filled(r)
  <2>1. ASSUME NEW l \in Keys, NEW g \in 1 .. Len(r), At(r, Header(l[1]), g)
        PROVE  \E m \in Keys : m[1] = l[1] /\ Says(r, m) # {}
    <3>1. PICK h \in 1 .. Len(s) : At(s, Header(l[1]), h) BY <2>1, HeadersMoved
    <3>2. PICK m \in Keys : m[1] = l[1] /\ Says(s, m) # {} BY <1>9, <3>1 DEF Filled
    <3>3. Says(r, m) # {} BY <1>7, <1>8, <3>2
    <3> QED BY <3>2, <3>3
  <2> QED BY <2>1 DEF Filled
<1> QED BY <1>6, <1>7, <1>8, <1>9 DEF Updates

(* r is a profile that says what s says. *)
Repeats(r, s) ==
  /\ Profiled(r) /\ (Filled(s) => Filled(r))
  /\ \A l \in Keys : Says(r, l) = Says(s, l)

(* A line in another section than the first changes nothing. *)
LEMMA Wasted ==
  ASSUME NEW s, NEW k \in Keys, NEW a, NEW v \in Values, NEW d, NEW r,
         Replaces(s, k, a, a, v, d, r), ~InFirst(s, k[1], a + 1)
  PROVE  /\ Profiled(r) /\ \A l \in Keys : Says(r, l) = Says(s, l)
         /\ \A l \in Keys, g \in 1 .. Len(r) :
              At(r, Header(l[1]), g) => \E h \in 1 .. Len(s) : At(s, Header(l[1]), h)
<1>1. /\ r \in Text /\ Len(s) \in Nat /\ Len(r) \in Nat
      /\ a \in Nat \ {0} /\ d \in Int /\ Len(r) = Len(s) + d /\ a + 1 .. a = {}
      /\ a + d >= a
  <2>1. Aligned(s, a, a, d, r) BY ReplacesIs
  <2> QED BY <2>1 DEF Aligned
<1>2. Profiled(s) BY DEF Replaces
<1>3. \A i \in 1 .. Len(r) : HeaderCovers(r, i) \/ LineCovers(r, i) BY Covered
<1>4. ASSUME NEW l \in Keys, NEW x \in Values, NEW i \in 1 .. Len(r), LiveLine(r, l, x, i)
      PROVE  \E j \in 1 .. Len(s) : Moved(a, a, d, j, i) /\ LiveLine(s, l, x, j)
  BY <1>4, LinesMoved
<1>5. ASSUME NEW l \in Keys, NEW x \in Values, NEW y \in Values,
             NEW i \in 1 .. Len(r), NEW j \in 1 .. Len(r),
             LiveLine(r, l, x, i), LiveLine(r, l, y, j)
      PROVE  i = j
  <2>1. PICK m \in 1 .. Len(s) : Moved(a, a, d, m, i) /\ LiveLine(s, l, x, m) BY <1>4, <1>5
  <2>2. PICK n \in 1 .. Len(s) : Moved(a, a, d, n, j) /\ LiveLine(s, l, y, n) BY <1>4, <1>5
  <2>3. m = n BY <1>2, <2>1, <2>2 DEF Profiled
  <2> QED BY <1>1, <2>1, <2>2, <2>3, MovedOnce
<1>6. Profiled(r) BY <1>1, <1>3, <1>5 DEF Profiled
<1>7. ASSUME NEW l \in Keys PROVE Says(r, l) = Says(s, l)
  <2>1. ASSUME NEW x \in Values, NEW j \in 1 .. Len(s), LiveLine(s, l, x, j)
        PROVE  \E i \in 1 .. Len(r) : LiveLine(r, l, x, i)
    BY <1>1, <2>1, LinesMoved
  <2> QED BY <1>4, <2>1 DEF Says
<1>8. \A l \in Keys, g \in 1 .. Len(r) :
        At(r, Header(l[1]), g) => \E h \in 1 .. Len(s) : At(s, Header(l[1]), h)
  BY HeadersMoved
<1> QED BY <1>6, <1>7, <1>8

-----------------------------------------------------------------------------
(* Writing. *)

(* write_profile looks for the token and its bracket. *)
LEMMA SectionToken ==
  ASSUME NEW s, Profiled(s), NEW k \in Keys, NEW j \in 1 .. Len(s),
         At(s, Append(k[1], "]"), j)
  PROVE  \E h \in 1 .. j - 1 : At(s, Header(k[1]), h)
<1>1. s \in Text /\ Len(s) \in Nat BY Size DEF Profiled
<1>2. /\ Plain(k[1]) /\ k[1] \in Text /\ Len(k[1]) \in Nat /\ "]" \in Marks
      /\ j \in Nat \ {0}
  BY <1>1, Names, PlainIs DEF Marks
<1>3. j + Len(k[1]) <= Len(s) /\ \A n \in 1 .. Len(k[1]) : s[j + n - 1] = k[1][n]
  BY <1>1, <1>2, AppendAt
<1>4. j + Len(k[1]) - 1 <= Len(s) BY <1>1, <1>2, <1>3
<1>5. At(s, k[1], j) BY <1>1, <1>2, <1>3, <1>4, AtPoints
<1> QED BY <1>5, TokenIs

LEMMA SectionIs ==
  ASSUME NEW s, Profiled(s), NEW k \in Keys,
         NEW h \in Nat \ {0}, Opens(s, k[1], h)
  PROVE  SectionStart(s, k[1]) = h + 1 /\ h + 1 \in 1 .. Len(s)
<1> DEFINE t == k[1]
<1>1. s \in Text /\ Len(s) \in Nat BY Size DEF Profiled
<1>2. Plain(t) /\ Len(t) \in Nat \ {0} /\ "]" \in Marks BY Names DEF Marks
<1>0. At(s, Header(t), h) /\ \A g \in 1 .. h - 1 : ~At(s, Header(t), g) BY DEF Opens
<1>3. /\ h + Len(t) + 2 <= Len(s)
      /\ \A n \in 1 .. Len(t) : s[h + n] = t[n]
      /\ s[h + Len(t) + 1] = "]"
  BY <1>0, <1>1, <1>2, HeaderAt
<1> HIDE DEF t
<1>4. h + 1 \in 1 .. Len(s) /\ h \in 1 .. Len(s) /\ h + 1 + Len(t) <= Len(s)
      /\ h + 1 + Len(t) = h + Len(t) + 1 /\ h + 1 \in Nat \ {0}
  BY <1>1, <1>2, <1>3
<1>5. \A n \in 1 .. Len(t) : s[h + 1 + n - 1] = t[n]
  <2>1. \A n \in 1 .. Len(t) : h + 1 + n - 1 = h + n BY <1>2
  <2> QED BY <1>3, <2>1
<1>6. At(s, Append(t, "]"), h + 1) BY SMTT(40), <1>1, <1>2, <1>3, <1>4, <1>5, AppendAt
<1>7. ASSUME NEW j \in 1 .. h + 1 - 1, At(s, Append(t, "]"), j) PROVE FALSE
  <2>1. j \in 1 .. Len(s) /\ j <= h BY <1>4
  <2>2. PICK g \in 1 .. j - 1 : At(s, Header(t), g) BY <1>7, <2>1, SectionToken DEF t
  <2>3. g \in 1 .. h - 1 BY <1>1, <2>1
  <2> QED BY <1>0, <2>2, <2>3
<1>8. 1 \in Nat \ {0} OBVIOUS
<1>9. Strstr(s, Append(t, "]"), 1) = h + 1 BY <1>1, <1>4, <1>6, <1>7, <1>8, StrstrIs
<1> QED BY <1>4, <1>9 DEF SectionStart, t

LEMMA NoSection ==
  ASSUME NEW s, Profiled(s), NEW k \in Keys
  PROVE  SectionStart(s, k[1]) = NULL <=>
           \A h \in 1 .. Len(s) : ~At(s, Header(k[1]), h)
<1>1. s \in Text /\ Len(s) \in Nat /\ 1 \in Nat \ {0} BY Size DEF Profiled
<1>2. ASSUME \A h \in 1 .. Len(s) : ~At(s, Header(k[1]), h)
      PROVE  SectionStart(s, k[1]) = NULL
  <2>1. ASSUME NEW j \in 1 .. Len(s), At(s, Append(k[1], "]"), j) PROVE FALSE
    <3>1. PICK h \in 1 .. j - 1 : At(s, Header(k[1]), h) BY <2>1, SectionToken
    <3>2. h \in 1 .. Len(s) BY <1>1
    <3> QED BY <1>2, <3>1, <3>2
  <2> QED BY <1>1, <2>1, StrstrNone DEF SectionStart
<1>3. ASSUME NEW h \in 1 .. Len(s), At(s, Header(k[1]), h)
      PROVE  SectionStart(s, k[1]) # NULL
  <2>1. h \in Nat \ {0} BY <1>1
  <2>2. PICK g \in 1 .. h : Opens(s, k[1], g) BY <1>3, <2>1, OpensFirst
  <2>3. g \in Nat \ {0} BY <2>1
  <2>4. SectionStart(s, k[1]) = g + 1 BY <2>2, <2>3, SectionIs
  <2> QED BY <2>3, <2>4 DEF NULL
<1> QED BY <1>2, <1>3

(* A line of the first section is in the region that write_profile searches. *)
LEMMA LineInRegion ==
  ASSUME NEW s, Profiled(s), NEW k \in Keys, NEW h \in 1 .. Len(s),
         Opens(s, k[1], h), NEW end \in h .. Len(s),
         end = Len(s) \/ s[end + 1] = "[",
         NEW v \in Values, NEW i, LiveLine(s, k, v, i)
  PROVE  i \in h + 1 .. end /\ i + Len(k[2]) + Len(v) + 1 <= end
<1> DEFINE p == Len(k[2])
           q == Len(v)
<1>1. s \in Text /\ Len(s) \in Nat BY Size DEF Profiled
<1>2. p \in Nat /\ q \in Nat /\ Plain(k[2]) /\ Plain(v) BY Names
<1>3. i \in 2 .. Len(s) /\ At(s, Line(k[2], v), i) BY DEF LiveLine, KeyLine
<1>4. PICK g \in 1 .. i - 1 :
        Opens(s, k[1], g) /\ \A n \in g + 1 .. i + p + q + 1 : s[n] # "["
  BY LineBehind
<1>5. g = h
  <2>1. g \in Nat \ {0} /\ h \in Nat \ {0} BY <1>1, <1>3
  <2> QED BY <1>4, <2>1, OpensOne
<1>6. i + p + q + 1 <= Len(s)
  <2>1. i \in Nat \ {0} BY <1>3
  <2> QED BY <1>1, <1>2, <1>3, <2>1, LineAt
<1> HIDE DEF p, q
<1>7. ASSUME i + p + q + 1 > end PROVE FALSE
  <2>1. end # Len(s) BY <1>1, <1>2, <1>3, <1>6, <1>7
  <2>2. end + 1 \in g + 1 .. i + p + q + 1 BY <1>1, <1>2, <1>3, <1>5, <1>7
  <2> QED BY <1>4, <2>1, <2>2
<1>8. i + p + q + 1 <= end /\ i \in h + 1 .. end BY <1>1, <1>2, <1>3, <1>4, <1>5, <1>7
<1> QED BY <1>8 DEF p, q

(* write_profile finds the line of the setting, if it is there ... *)
LEMMA LineFound ==
  ASSUME NEW s, Profiled(s), NEW k \in Keys, NEW h \in 1 .. Len(s),
         Opens(s, k[1], h), NEW end \in h .. Len(s),
         \A n \in h + 1 .. end : s[n] # "[",
         end = Len(s) \/ s[end + 1] = "[",
         NEW v \in Values, NEW i, LiveLine(s, k, v, i)
  PROVE  Strstr(SubSeq(s, 1, end), Append(k[2], "="), h + 1) = i
<1> DEFINE p == Append(k[2], "=")
           region == SubSeq(s, 1, end)
<1>1. /\ s \in Text /\ Len(s) \in Nat /\ 1 \in Nat \ {0} /\ end \in 1 - 1 .. Len(s)
      /\ h \in Nat \ {0} /\ h + 1 \in Nat \ {0} /\ end \in Nat
  BY Size DEF Profiled
<1>2. /\ p \in Text /\ Len(p) = Len(k[2]) + 1 /\ Len(p) > 0
      /\ Plain(k[2]) /\ Plain(v) /\ Len(k[2]) \in Nat /\ Len(v) \in Nat
  BY Names, ParameterIsText
<1> HIDE DEF p
<1>3. region \in Text /\ Len(region) = end
  <2>1. end - 1 + 1 = end BY <1>1
  <2> QED BY <1>1, <2>1, SubIs
<1>4. \A n \in Nat \ {0} : At(region, p, n) <=> At(s, p, n) /\ n + Len(p) - 1 <= end
  <2>1. \A n \in Nat \ {0} :
          At(region, p, n) <=> At(s, p, 1 + n - 1) /\ 1 + n - 1 + Len(p) - 1 <= end
    BY <1>1, <1>2, AtSub
  <2>2. \A n \in Nat \ {0} : 1 + n - 1 = n OBVIOUS
  <2> QED BY <2>1, <2>2
<1> HIDE DEF region
<1>5. i \in h + 1 .. end /\ i + Len(k[2]) + Len(v) + 1 <= end BY LineInRegion
<1>6. i \in Nat \ {0} /\ At(s, Line(k[2], v), i) /\ i \in 1 .. Len(s)
  BY <1>1, <1>5 DEF LiveLine, KeyLine
<1>7. At(region, p, i)
  <2>1. /\ i + Len(k[2]) + Len(v) + 1 <= Len(s)
        /\ \A n \in 1 .. Len(k[2]) : s[i + n - 1] = k[2][n]
        /\ s[i + Len(k[2])] = "="
    <3> DEFINE t == k[2]
    <3>1. Plain(t) /\ At(s, Line(t, v), i) BY <1>2, <1>6
    <3> HIDE DEF t
    <3>2. /\ i + Len(t) + Len(v) + 1 <= Len(s)
          /\ \A n \in 1 .. Len(t) : s[i + n - 1] = t[n]
          /\ s[i + Len(t)] = "="
      BY <1>1, <1>2, <1>6, <3>1, LineAt
    <3> QED BY <3>2 DEF t
  <2>2. /\ i + Len(k[2]) <= Len(s)
        /\ i + Len(p) - 1 <= end
    <3> DEFINE q == Len(k[2])
    <3>1. q \in Nat /\ Len(p) = q + 1 /\ i + q + Len(v) + 1 <= end BY <1>2, <1>5
    <3> HIDE DEF q
    <3>2. i + q <= Len(s) /\ i + Len(p) - 1 <= end BY <1>1, <1>2, <1>5, <3>1
    <3> QED BY <3>2 DEF q
  <2>3. At(s, p, i) BY <1>1, <1>2, <1>6, <2>1, <2>2, ParameterAt DEF p
  <2> QED BY <1>4, <1>6, <2>2, <2>3
<1>8. ASSUME NEW j \in h + 1 .. i - 1, At(region, p, j) PROVE FALSE
  <2>1. j \in Nat \ {0} /\ j > h /\ j # i /\ j \in Nat BY <1>1, <1>5
  <2>2. At(s, p, j) /\ j + Len(k[2]) <= end
    <3>1. At(s, p, j) /\ j + Len(p) - 1 <= end BY <1>4, <1>8, <2>1
    <3> QED BY <1>2, <2>1, <3>1
  <2>3. \A n \in h + 1 .. j + Len(k[2]) : s[n] # "[" BY <1>1, <1>2, <2>1, <2>2
  <2>4. PICK w \in Values : LiveLine(s, k, w, j) BY <1>1, <2>1, <2>2, <2>3, ParameterLive DEF p
  <2>5. j \in 1 .. Len(s) BY <1>1, <1>5, <2>1
  <2>6. j = i BY <1>6, <2>4, <2>5 DEF Profiled
  <2> QED BY <2>1, <2>6
<1>9. i \in h + 1 .. Len(region) BY <1>3, <1>5
<1>10. Strstr(region, p, h + 1) = i BY <1>1, <1>3, <1>7, <1>8, <1>9, StrstrIs
<1> QED BY <1>10 DEF region, p

(* ... and none if it is not. *)
LEMMA LineNotFound ==
  ASSUME NEW s, Profiled(s), NEW k \in Keys, NEW h \in 1 .. Len(s),
         Opens(s, k[1], h), NEW end \in h .. Len(s),
         \A n \in h + 1 .. end : s[n] # "[", Says(s, k) = {}
  PROVE  Strstr(SubSeq(s, 1, end), Append(k[2], "="), h + 1) = NULL
<1> DEFINE p == Append(k[2], "=")
           region == SubSeq(s, 1, end)
<1>1. /\ s \in Text /\ Len(s) \in Nat /\ 1 \in Nat \ {0} /\ end \in 1 - 1 .. Len(s)
      /\ h \in Nat \ {0} /\ h + 1 \in Nat \ {0} /\ end \in Nat
  BY Size DEF Profiled
<1>2. p \in Text /\ Len(p) = Len(k[2]) + 1 /\ Len(p) > 0 /\ Len(k[2]) \in Nat
  BY Names, ParameterIsText
<1> HIDE DEF p
<1>3. region \in Text /\ Len(region) = end
  <2>1. end - 1 + 1 = end BY <1>1
  <2> QED BY <1>1, <2>1, SubIs
<1>4. \A n \in Nat \ {0} : At(region, p, n) <=> At(s, p, n) /\ n + Len(p) - 1 <= end
  <2>1. \A n \in Nat \ {0} :
          At(region, p, n) <=> At(s, p, 1 + n - 1) /\ 1 + n - 1 + Len(p) - 1 <= end
    BY <1>1, <1>2, AtSub
  <2>2. \A n \in Nat \ {0} : 1 + n - 1 = n OBVIOUS
  <2> QED BY <2>1, <2>2
<1> HIDE DEF region
<1>5. ASSUME NEW j \in h + 1 .. Len(region), At(region, p, j) PROVE FALSE
  <2>1. j \in Nat \ {0} /\ j > h /\ j \in Nat /\ j \in 1 .. Len(s) BY <1>1, <1>3
  <2>2. At(s, p, j) /\ j + Len(k[2]) <= end
    <3>1. At(s, p, j) /\ j + Len(p) - 1 <= end BY <1>4, <1>5, <2>1
    <3> QED BY <1>2, <2>1, <3>1
  <2>3. \A n \in h + 1 .. j + Len(k[2]) : s[n] # "[" BY <1>1, <1>2, <2>1, <2>2
  <2>4. PICK w \in Values : LiveLine(s, k, w, j) BY <1>1, <2>1, <2>2, <2>3, ParameterLive DEF p
  <2> QED BY <2>1, <2>4 DEF Says
<1>6. Strstr(region, p, h + 1) = NULL BY <1>1, <1>3, <1>5, StrstrNone
<1> QED BY <1>6 DEF region, p

LEMMA WrittenIs ==
  ASSUME NEW s, Profiled(s), NEW k \in Keys, NEW v \in Values,
         NEW h \in 1 .. Len(s), Opens(s, k[1], h)
  PROVE  \E a, b, d : Replaces(s, k, a, b, v, d, Written(s, k[1], k[2], v)) /\ Sole(s, k, a, b)
<1> DEFINE start == SectionStart(s, k[1])
           end   == RegionEnd(s, start)
           at    == Strstr(SubSeq(s, 1, end), Append(k[2], "="), start)
           w     == Line(k[2], v)
<1>1. s \in Text /\ Len(s) \in Nat /\ h \in Nat \ {0} BY Size DEF Profiled
<1>2. start = h + 1 /\ h + 1 \in 1 .. Len(s) BY <1>1, SectionIs
<1>3. /\ end \in h .. Len(s)
      /\ \A n \in h + 1 .. end : s[n] # "["
      /\ end = Len(s) \/ s[end + 1] = "["
  <2>1. h + 1 - 1 = h BY <1>1
  <2> QED BY <1>1, <1>2, <2>1, RegionEndIs
<1>4. at = Strstr(SubSeq(s, 1, end), Append(k[2], "="), h + 1) BY <1>2
<1>5. Written(s, k[1], k[2], v) =
        IF at # NULL
          THEN SubSeq(s, 1, at - 1) \o w
                 \o SubSeq(s, Strstr(s, <<"\n">>, at) + 1, Len(s))
          ELSE SubSeq(s, 1, end) \o w \o SubSeq(s, end + 1, Len(s))
  BY DEF Written
<1>6. Ends(w) BY Names, LineEnds
<1> HIDE DEF start, end, at, w
<1>7. CASE Says(s, k) = {}
  <2>1. at = NULL BY <1>3, <1>4, <1>7, LineNotFound
  <2>2. s[end] = "\n" /\ end \in 1 .. Len(s)
    <3>1. end \in 1 .. Len(s) BY <1>1, <1>3
    <3> QED BY <1>3, <3>1, EndIs
  <2>3. InSection(s, k[1], end + 1)
    <3>1. end + 1 - 1 = end /\ h \in 1 .. end BY <1>1, <1>3
    <3> QED BY <1>3, <3>1 DEF InSection, Opens
  <2>4. Spliced(s, end, end, w, Written(s, k[1], k[2], v))
    <3>1. end \in 0 .. Len(s) /\ end \in end .. Len(s) BY <1>1, <1>3
    <3> QED BY <1>1, <1>5, <1>6, <2>1, <2>2, <3>1, SplicedIs
  <2>5. Place(s, k, end, end) BY <2>3 DEF Place
  <2>6. Sole(s, k, end, end)
    <3>1. end + 1 - 1 = end /\ h \in 1 .. end BY <1>1, <1>3
    <3>2. InFirst(s, k[1], end + 1) BY <1>3, <3>1 DEF InFirst
    <3>3. \A x \in Values, i \in 1 .. Len(s) : ~LiveLine(s, k, x, i) BY <1>7 DEF Says
    <3> QED BY <3>2, <3>3 DEF Sole
  <2> QED BY <2>2, <2>4, <2>5, <2>6 DEF Replaces, w
<1>8. CASE \E x \in Values, i \in 1 .. Len(s) : LiveLine(s, k, x, i)
  <2>0. PICK x \in Values, i \in 1 .. Len(s) : LiveLine(s, k, x, i) BY <1>8
  <2>1. KeyLine(s, k, x, i) /\ InFirst(s, k[1], i) BY <2>0 DEF LiveLine
  <2> DEFINE a == i - 1
             q == Len(k[2])
             b == i + q + Len(x) + 1
  <2>2. at = i BY <1>3, <1>4, <2>0, LineFound
  <2>3. /\ q \in Nat /\ Len(x) \in Nat /\ Plain(k[2]) /\ Plain(x)
        /\ i \in Nat \ {0} /\ i \in 2 .. Len(s)
    BY <1>1, <2>1, Names DEF KeyLine
  <2>4. At(s, Line(k[2], x), i) /\ s[a] = "\n" /\ InSection(s, k[1], i)
    BY <2>1 DEF KeyLine
  <2>5. b <= Len(s) /\ s[b] = "\n" BY <1>1, <2>3, <2>4, LineAt
  <2>6. Strstr(s, <<"\n">>, i) = b
    <3>1. i \in i .. b
      <4> HIDE DEF q
      <4> QED BY <2>3
    <3> QED BY <1>1, <2>3, <2>4, <3>1, LineEnd
  <2>7. i = a + 1 /\ b = a + q + Len(x) + 2
    <3> HIDE DEF q
    <3> QED BY <2>3
  <2>8. Place(s, k, a, b) BY <2>1, <2>4, <2>7 DEF Place
  <2> HIDE DEF q
  <2>9. /\ a \in 1 .. Len(s) /\ a \in 0 .. Len(s) /\ b \in a .. Len(s) /\ NULL # i /\ a = i - 1
    BY <1>1, <2>3, <2>5 DEF NULL
  <2>11. Sole(s, k, a, b)
    <3>1. \A y \in Values, j \in 1 .. Len(s) : LiveLine(s, k, y, j) => j = i
      BY <2>0 DEF Profiled
    <3>2. i \in a + 1 .. b
      <4>1. q \in Nat /\ Len(x) \in Nat /\ b = i + q + Len(x) + 1 BY <2>3
      <4> HIDE DEF b
      <4> QED BY <1>1, <2>7, <4>1
    <3> QED BY <2>1, <2>7, <3>1, <3>2 DEF Sole
  <2> HIDE DEF a, b
  <2>10. Spliced(s, a, b, w, Written(s, k[1], k[2], v))
    <3>1. Written(s, k[1], k[2], v) = SubSeq(s, 1, a) \o w \o SubSeq(s, b + 1, Len(s))
      BY <1>5, <2>2, <2>6, <2>9
    <3> QED BY <1>1, <1>6, <2>4, <2>5, <2>9, <3>1, SplicedIs
  <2> QED BY <2>4, <2>8, <2>9, <2>10, <2>11 DEF Replaces, w
<1> QED BY <1>7, <1>8 DEF Says

(* write_profile on a profile that has the token. *)
LEMMA WriteIs ==
  ASSUME NEW s, Profiled(s), NEW k \in Keys, NEW v \in Values,
         NEW h \in 1 .. Len(s), At(s, Header(k[1]), h)
  PROVE  Updates(Written(s, k[1], k[2], v), s, k, v)
<1>1. h \in Nat \ {0} BY Size DEF Profiled
<1>2. PICK g \in 1 .. h : Opens(s, k[1], g) BY <1>1, OpensFirst
<1>3. g \in 1 .. Len(s) BY Size DEF Profiled
<1> QED BY <1>2, <1>3, WrittenIs, Replaced

(* r is w behind s. *)
Joins(r, s, w) == r = s \o w

(* r is a profile that says what s says, with one more header, at the end. *)
Headed(r, s, k) ==
  /\ Profiled(r) /\ Len(r) = Len(s) + Len(k[1]) + 3 /\ r[Len(r)] = "\n"
  /\ At(r, Header(k[1]), Len(s) + 1)
  /\ \A i \in Len(s) + 1 .. Len(r) : r[i] = "[" <=> i = Len(s) + 1
  /\ \A l \in Keys : Says(r, l) = Says(s, l)
  /\ \A l \in Keys, h \in 1 .. Len(s) : At(s, Header(l[1]), h) <=> At(r, Header(l[1]), h)
  /\ \A l \in Keys, h \in Len(s) + 1 .. Len(r) :
       At(r, Header(l[1]), h) => h = Len(s) + 1 /\ l[1] = k[1]

LEMMA HeaderAppended ==
  ASSUME NEW s, Profiled(s), NEW k \in Keys, NEW r, Joins(r, s, Header(k[1]))
  PROVE  Headed(r, s, k)
<1> DEFINE w == Header(k[1])
           a == Len(s)
           t == Len(k[1])
<1>1. s \in Text /\ a \in Nat BY Size DEF Profiled
<1>2. /\ Ends(w) /\ w \in Text /\ Len(w) = t + 3 /\ t \in Nat
      /\ Plain(k[1]) /\ w[Len(w)] = "\n" /\ Len(w) \in Nat
  BY Names, HeaderEnds, HeaderIs, Size DEF Ends
<1> HIDE DEF w
<1>3. /\ r \in Text /\ Len(r) = a + Len(w)
      /\ \A n \in 1 .. a : r[n] = s[n]
      /\ \A n \in 1 .. Len(w) : r[a + n] = w[n]
  <2>1. /\ s \o w \in Text /\ Len(s \o w) = a + Len(w)
        /\ \A n \in 1 .. a : (s \o w)[n] = s[n]
        /\ \A n \in 1 .. Len(w) : (s \o w)[a + n] = w[n]
    BY <1>1, <1>2, Joined
  <2>2. r = s \o w BY DEF Joins, w
  <2> QED BY <2>1, <2>2
<1>4. a > 0 => s[a] = "\n"
  <2>1. a > 0 => a \in 1 .. Len(s) BY <1>1
  <2> QED BY <2>1, EndIs
<1>5. Spliced(s, a, a, w, r)
  <2>1. a \in 0 .. Len(s) /\ a \in a .. Len(s) BY <1>1
  <2>2. Len(r) = Len(s) + (a + Len(w) - a) BY <1>1, <1>2, <1>3
  <2>3. \A n \in a + 1 .. Len(s) : r[n + (a + Len(w) - a)] = s[n] BY <1>1
  <2> QED BY <1>1, <1>2, <1>3, <1>4, <2>1, <2>2, <2>3 DEF Spliced
<1> HIDE DEF t
<1>6. Len(r) = a + t + 3 /\ Len(r) \in Nat /\ a + 1 \in Nat \ {0} /\ a + 1 \in 1 .. Len(r)
  BY <1>1, <1>2, <1>3
<1>7. At(r, w, a + 1)
  <2>1. a + 1 + Len(w) - 1 <= Len(r) BY <1>1, <1>2, <1>3
  <2>2. \A n \in 1 .. Len(w) : r[a + 1 + n - 1] = w[n]
    <3>1. \A n \in 1 .. Len(w) : a + 1 + n - 1 = a + n BY <1>1, <1>2
    <3> QED BY <1>3, <3>1
  <2> QED BY <1>2, <1>3, <1>6, <2>1, <2>2, AtPoints
<1>8. \A i \in a + 1 .. Len(r) : r[i] # "=" /\ (r[i] = "[" <=> i = a + 1)
  <2> SUFFICES ASSUME NEW i \in a + 1 .. Len(r)
               PROVE  r[i] # "=" /\ (r[i] = "[" <=> i = a + 1)
    OBVIOUS
  <2>1. i \in a + 1 .. a + 1 + Len(k[1]) + 2
    <3>1. i \in a + 1 .. a + 1 + t + 2 BY <1>1, <1>2, <1>6
    <3> QED BY <3>1 DEF t
  <2>2. At(r, Header(k[1]), a + 1) BY <1>7 DEF w
  <2> DEFINE g == a + 1
             u == k[1]
  <2>3. r \in Text /\ Plain(u) /\ g \in Nat \ {0} /\ At(r, Header(u), g)
        /\ i \in g .. g + Len(u) + 2
    BY <1>2, <1>3, <1>6, <2>1, <2>2
  <2> HIDE DEF g, u
  <2>4. r[i] # "=" /\ (r[i] = "[" <=> i = g) BY <2>3, HeaderMarks
  <2> QED BY <2>4 DEF g
<1>9. \A l \in Keys : /\ Plain(l[1]) /\ Plain(l[2]) /\ Ends(Header(l[1]))
                      /\ Len(l[1]) \in Nat /\ Len(l[2]) \in Nat
  BY Names, HeaderEnds
<1>10. \A l \in Keys, h \in 1 .. a : At(s, Header(l[1]), h) <=> At(r, Header(l[1]), h)
  BY <1>5, <1>9, Before
<1>11. \A l \in Keys, h \in a + 1 .. Len(r) :
         At(r, Header(l[1]), h) => h = a + 1 /\ l[1] = k[1]
  <2> SUFFICES ASSUME NEW l \in Keys, NEW h \in a + 1 .. Len(r), At(r, Header(l[1]), h)
               PROVE  h = a + 1 /\ l[1] = k[1]
    OBVIOUS
  <2>1. h \in Nat \ {0} BY <1>1, <1>6
  <2>2. r[h] = "[" BY <1>3, <1>9, <2>1, HeaderAt
  <2>3. h = a + 1 BY <1>8, <2>2
  <2>4. At(r, Header(k[1]), h) BY <1>7, <2>3 DEF w
  <2> QED BY <1>2, <1>3, <1>9, <2>1, <2>3, <2>4, SameHeader
<1>12. \A l \in Keys, x \in Values, i \in 1 .. a : KeyLine(s, l, x, i) <=> KeyLine(r, l, x, i)
  BY <1>5, LineBefore
<1>13. \A l \in Keys, x \in Values, i \in a + 1 .. Len(r) : ~KeyLine(r, l, x, i)
  <2> SUFFICES ASSUME NEW l \in Keys, NEW x \in Values, NEW i \in a + 1 .. Len(r),
                      KeyLine(r, l, x, i)
               PROVE  FALSE
    OBVIOUS
  <2> DEFINE p == l[2]
             q == Len(p)
  <2>1. /\ i \in Nat \ {0} /\ At(r, Line(p, x), i) /\ Plain(p) /\ Plain(x)
        /\ q \in Nat /\ Len(x) \in Nat
    BY <1>1, <1>6, <1>9, Names DEF KeyLine
  <2> HIDE DEF p
  <2>2. r[i + q] = "=" /\ i + q + Len(x) + 1 <= Len(r)
    <3> HIDE DEF q
    <3>1. r \in Text /\ i \in Nat \ {0} /\ At(r, Line(p, x), i) /\ Plain(p) /\ Plain(x)
      BY <1>3, <2>1
    <3>2. r[i + Len(p)] = "=" /\ i + Len(p) + Len(x) + 1 <= Len(r) BY <3>1, LineAt
    <3> QED BY <3>2 DEF q
  <2> HIDE DEF q
  <2>3. i + q \in a + 1 .. Len(r) BY <1>1, <1>6, <2>1, <2>2
  <2> QED BY <1>8, <2>2, <2>3
<1>14. ASSUME NEW i \in 1 .. Len(r) PROVE HeaderCovers(r, i) \/ LineCovers(r, i)
  <2>1. CASE i \in 1 .. a
    <3>1. HeaderCovers(s, i) \/ LineCovers(s, i) BY <2>1 DEF Profiled
    <3>2. \A j \in 1 .. i : j \in 1 .. a BY <1>1, <2>1
    <3>3. CASE HeaderCovers(s, i) BY <1>10, <3>2, <3>3 DEF HeaderCovers
    <3>4. CASE LineCovers(s, i) BY <1>12, <3>2, <3>4 DEF LineCovers
    <3> QED BY <3>1, <3>3, <3>4
  <2>2. CASE i \in a + 1 .. Len(r)
    <3>1. a + 1 \in 1 .. i /\ i <= a + 1 + t + 2 BY <1>1, <1>2, <1>6, <2>2
    <3> QED BY <1>7, <3>1 DEF HeaderCovers, w, t
  <2> QED BY <1>1, <1>6, <2>1, <2>2
<1>15. \A l \in Keys, x \in Values, i \in 1 .. a : LiveLine(s, l, x, i) <=> LiveLine(r, l, x, i)
  BY <1>5, LiveBefore
<1>16. ASSUME NEW l \in Keys, NEW x \in Values, NEW i \in 1 .. Len(r), LiveLine(r, l, x, i)
       PROVE  i \in 1 .. Len(s) /\ LiveLine(s, l, x, i)
  <2>1. i \in 1 .. a \/ i \in a + 1 .. Len(r) BY <1>1, <1>6
  <2>2. KeyLine(r, l, x, i) BY <1>16 DEF LiveLine
  <2> QED BY <1>13, <1>15, <1>16, <2>1, <2>2
<1>17. ASSUME NEW l \in Keys, NEW x \in Values, NEW i \in 1 .. Len(s), LiveLine(s, l, x, i)
       PROVE  i \in 1 .. Len(r) /\ LiveLine(r, l, x, i)
  <2>1. i \in 1 .. Len(r) BY <1>1, <1>2, <1>6
  <2> QED BY <1>15, <1>17, <2>1
<1>18. \A l \in Keys : Says(r, l) = Says(s, l) BY <1>16, <1>17 DEF Says
<1>19. Profiled(r)
  <2>1. \A l \in Keys, x, y \in Values, i, j \in 1 .. Len(r) :
          LiveLine(r, l, x, i) /\ LiveLine(r, l, y, j) => i = j
    BY <1>16 DEF Profiled
  <2> QED BY <1>3, <1>14, <2>1 DEF Profiled
<1>20. r[Len(r)] = "\n"
  <2>1. Len(w) \in 1 .. Len(w) BY <1>2
  <2> QED BY <1>2, <1>3, <2>1
<1> QED BY <1>6, <1>7, <1>8, <1>10, <1>11, <1>18, <1>19, <1>20 DEF w, t, Headed

(* A new section is a header, and a line behind it. *)
LEMMA SectionAppended ==
  ASSUME NEW s, Profiled(s), NEW k \in Keys, NEW v \in Values,
         NEW r, Joins(r, s, NewSection(k[1], k[2], v))
  PROVE  \E t, d : Headed(t, s, k) /\ Replaces(t, k, Len(t), Len(t), v, d, r)
<1> DEFINE t == s \o Header(k[1])
           w == Line(k[2], v)
           a == Len(t)
<1>0. Headed(t, s, k) BY HeaderAppended DEF Joins
<1>1. /\ Profiled(t) /\ t[Len(t)] = "\n" /\ Len(t) = Len(s) + Len(k[1]) + 3
      /\ At(t, Header(k[1]), Len(s) + 1)
      /\ \A i \in Len(s) + 1 .. Len(t) : t[i] = "[" <=> i = Len(s) + 1
  BY <1>0 DEF Headed
<1>2. /\ s \in Text /\ Len(s) \in Nat /\ w \in Text /\ Len(w) \in Nat
      /\ Header(k[1]) \in Text /\ Plain(k[1]) /\ Ends(w) /\ Len(k[1]) \in Nat
  BY Names, HeaderIs, LineEnds, Size DEF Profiled, Ends
<1>3. r = t \o w
  <2>1. r = s \o (Header(k[1]) \o w) BY DEF NewSection, Header, Joins
  <2> HIDE DEF w
  <2> QED BY <1>2, <2>1, ConcatAssociative DEF Text
<1> HIDE DEF t, w
<1>4. t \in Text /\ a \in Nat \ {0} BY <1>1, <1>2, Size DEF Profiled
<1>5. /\ r \in Text /\ Len(r) = a + Len(w)
      /\ \A n \in 1 .. a : r[n] = t[n]
      /\ \A n \in 1 .. Len(w) : r[a + n] = w[n]
  BY <1>2, <1>3, <1>4, Joined
<1>6. Spliced(t, a, a, w, r)
  <2>1. a \in 0 .. Len(t) /\ a \in a .. Len(t) BY <1>4
  <2>2. Len(r) = Len(t) + (a + Len(w) - a) BY <1>2, <1>4, <1>5
  <2>3. \A n \in a + 1 .. Len(t) : r[n + (a + Len(w) - a)] = t[n] BY <1>4
  <2> QED BY <1>1, <1>2, <1>4, <1>5, <2>1, <2>2, <2>3 DEF Spliced
<1>7. Place(t, k, a, a)
  <2>1. Len(s) + 1 \in 1 .. a + 1 - 1 BY <1>1, <1>2, <1>4
  <2>2. \A n \in Len(s) + 1 + 1 .. a + 1 - 1 : t[n] # "["
    <3>1. \A n \in Len(s) + 1 + 1 .. a + 1 - 1 : n \in Len(s) + 1 .. a /\ n # Len(s) + 1
      BY <1>2, <1>4
    <3> QED BY <1>1, <3>1
  <2>3. InSection(t, k[1], a + 1) BY <1>1, <2>1, <2>2 DEF InSection
  <2> QED BY <2>3 DEF Place
<1> DEFINE d == a + Len(w) - a
<1>8. Replaces(t, k, a, a, v, d, r)
  <2>1. a \in 1 .. Len(t) BY <1>4
  <2> QED BY <1>1, <1>6, <1>7, <2>1 DEF Replaces, w
<1> QED BY <1>0, <1>8

(* write_profile on a profile without the token ... *)
LEMMA AppendedIs ==
  ASSUME NEW s, Profiled(s), NEW k \in Keys, NEW v \in Values,
         \A h \in 1 .. Len(s) : ~At(s, Header(k[1]), h),
         NEW r, Joins(r, s, NewSection(k[1], k[2], v))
  PROVE  Updates(r, s, k, v)
<1>1. PICK t, d : Headed(t, s, k) /\ Replaces(t, k, Len(t), Len(t), v, d, r)
  BY SectionAppended
<1> DEFINE a == Len(t)
           o == Len(s) + 1
           x == Header(k[1])
<1>2. /\ Len(s) \in Nat /\ a \in Nat /\ o \in 1 .. a + 1 - 1
  <2>1. Len(k[1]) \in Nat /\ Len(s) \in Nat BY Names, Size DEF Profiled
  <2>2. a = Len(s) + Len(k[1]) + 3 BY <1>1 DEF Headed
  <2> DEFINE q == Len(k[1])
  <2>3. q \in Nat /\ a = Len(s) + q + 3 BY <2>1, <2>2
  <2> HIDE DEF q, a
  <2> QED BY <2>1, <2>3
<1>3. Says(s, k) = {} /\ Says(t, k) = {} BY <1>1, SaysNothing DEF Headed
<1>4. Sole(t, k, a, a)
  <2>1. Opens(t, k[1], o)
    <3>1. \A h \in 1 .. o - 1 : h \in 1 .. Len(s) BY <1>2
    <3> QED BY <1>1, <3>1 DEF Opens, Headed
  <2>2. \A n \in o + 1 .. a + 1 - 1 : t[n] # "["
    <3>1. \A n \in o + 1 .. a + 1 - 1 : n \in Len(s) + 1 .. a /\ n # Len(s) + 1 BY <1>2
    <3> QED BY <1>1, <3>1 DEF Headed
  <2>3. InFirst(t, k[1], a + 1) BY <1>2, <2>1, <2>2 DEF InFirst
  <2>4. \A y \in Values, i \in 1 .. Len(t) : ~LiveLine(t, k, y, i) BY <1>3 DEF Says
  <2> QED BY <2>3, <2>4 DEF Sole
<1>5. Updates(r, t, k, v) BY <1>1, <1>4, Replaced
<1>6. /\ Profiled(r) /\ Says(r, k) = {v}
      /\ \A l \in Keys : l # k => Says(r, l) = Says(s, l)
  BY <1>1, <1>5 DEF Updates, Headed
<1>7. ASSUME Filled(s) PROVE Filled(r)
  <2>1. ASSUME NEW l \in Keys, NEW g \in 1 .. Len(r), At(r, Header(l[1]), g)
        PROVE  \E m \in Keys : m[1] = l[1] /\ Says(r, m) # {}
    <3>1. CASE l[1] = k[1] BY <1>6, <3>1
    <3>2. CASE l[1] # k[1]
      <4>1. PICK h \in 1 .. Len(t) : At(t, Header(l[1]), h) BY <1>1, <2>1, HeadersMoved
      <4>2. h \in 1 .. Len(s) \/ h \in Len(s) + 1 .. Len(t) BY <1>2
      <4>3. h \in 1 .. Len(s) /\ At(s, Header(l[1]), h) BY <1>1, <3>2, <4>1, <4>2 DEF Headed
      <4>4. PICK m \in Keys : m[1] = l[1] /\ Says(s, m) # {} BY <1>7, <4>3 DEF Filled
      <4>5. Says(r, m) # {} BY <1>6, <3>2, <4>4
      <4> QED BY <4>4, <4>5
    <3> QED BY <3>1, <3>2
  <2> QED BY <2>1 DEF Filled
<1> QED BY <1>6, <1>7 DEF Updates

(* ... and on one with it, in which it did not look: nobody will look into  *)
(* another section than the first.                                          *)
LEMMA AppendedInVain ==
  ASSUME NEW s, Profiled(s), NEW k \in Keys, NEW v \in Values,
         NEW h \in 1 .. Len(s), At(s, Header(k[1]), h),
         NEW r, Joins(r, s, NewSection(k[1], k[2], v))
  PROVE  Repeats(r, s)
<1>1. PICK t, d : Headed(t, s, k) /\ Replaces(t, k, Len(t), Len(t), v, d, r)
  BY SectionAppended
<1> DEFINE a == Len(t)
<1>2. Len(s) \in Nat /\ a \in Nat /\ Len(s) + 1 \in 1 .. a
  <2>1. Len(k[1]) \in Nat /\ Len(s) \in Nat BY Names, Size DEF Profiled
  <2>2. a = Len(s) + Len(k[1]) + 3 BY <1>1 DEF Headed
  <2> DEFINE q == Len(k[1])
  <2>3. q \in Nat /\ a = Len(s) + q + 3 BY <2>1, <2>2
  <2> HIDE DEF q, a
  <2> QED BY <2>1, <2>3
<1>3. ASSUME InFirst(t, k[1], a + 1) PROVE FALSE
  <2>1. PICK g \in 1 .. a + 1 - 1 :
          Opens(t, k[1], g) /\ \A n \in g + 1 .. a + 1 - 1 : t[n] # "["
    BY <1>3 DEF InFirst
  <2>2. t[Len(s) + 1] = "["
    <3>1. Len(s) + 1 \in Len(s) + 1 .. a BY <1>2
    <3> QED BY <1>1, <3>1 DEF Headed
  <2>3. ~(Len(s) + 1 \in g + 1 .. a + 1 - 1) BY <2>1, <2>2
  <2>4. h \in 1 .. g - 1 BY <1>2, <2>3
  <2>5. At(t, Header(k[1]), h) BY <1>1 DEF Headed
  <2> QED BY <2>1, <2>4, <2>5 DEF Opens
<1>4. /\ Profiled(r) /\ \A l \in Keys : Says(r, l) = Says(t, l)
      /\ \A l \in Keys, g \in 1 .. Len(r) :
           At(r, Header(l[1]), g) => \E n \in 1 .. Len(t) : At(t, Header(l[1]), n)
  BY <1>1, <1>3, Wasted
<1>5. \A l \in Keys : Says(r, l) = Says(s, l) BY <1>1, <1>4 DEF Headed
<1>6. ASSUME Filled(s) PROVE Filled(r)
  <2>1. ASSUME NEW l \in Keys, NEW g \in 1 .. Len(r), At(r, Header(l[1]), g)
        PROVE  \E m \in Keys : m[1] = l[1] /\ Says(r, m) # {}
    <3>1. PICK n \in 1 .. Len(t) : At(t, Header(l[1]), n) BY <1>4, <2>1
    <3>2. n \in 1 .. Len(s) \/ n \in Len(s) + 1 .. Len(t) BY <1>2
    <3>3. \/ n \in 1 .. Len(s) /\ At(s, Header(l[1]), n)
          \/ l[1] = k[1]
      BY <1>1, <3>1, <3>2 DEF Headed
    <3>4. \E o \in 1 .. Len(s) : At(s, Header(l[1]), o) BY <3>3
    <3>5. PICK m \in Keys : m[1] = l[1] /\ Says(s, m) # {} BY <1>6, <3>4 DEF Filled
    <3> QED BY <1>5, <3>5
  <2> QED BY <2>1 DEF Filled
<1> QED BY <1>4, <1>5, <1>6 DEF Repeats

LEMMA EmptyIs == Profiled(<<>>) /\ Filled(<<>>) /\ \A k \in Keys : Says(<<>>, k) = {}
<1>1. <<>> \in Text /\ Len(<<>>) = 0 BY DEF Text
<1>2. 1 .. Len(<<>>) = {} BY <1>1
<1> QED BY <1>1, <1>2 DEF Profiled, Filled, Says

-----------------------------------------------------------------------------
(* read_profile and write_profile. *)

(* read_profile finds what the profile says by its format: the setting      *)
(* that is there, whatever lies in memory behind the buffer; and that there *)
(* is none, if no "parameter=" lies there.                                  *)
THEOREM ReadFindsSetting ==
  ASSUME NEW s, Profiled(s), NEW tail \in Tails, NEW k \in Keys,
         Setting(s, k[1], k[2]) # {} \/ ~Occurs(Append(k[2], "="), tail)
  PROVE  ReadValue(s \o tail, k[1], k[2]) = Setting(s, k[1], k[2])
<1>1. tail \in Text BY TailsAssumption DEF Text
<1>2. Setting(s, k[1], k[2]) = Says(s, k) BY SettingIs
<1> QED BY <1>1, <1>2, ReadIs

(* write_profile, on a text with the token, changes the one setting it      *)
(* names and leaves a profile.                                              *)
THEOREM WriteChangesSetting ==
  ASSUME NEW s, Profiled(s), NEW k \in Keys, NEW v \in Values,
         SectionStart(s, k[1]) # NULL
  PROVE  /\ Profiled(Written(s, k[1], k[2], v))
         /\ \A l \in Keys : Setting(Written(s, k[1], k[2], v), l[1], l[2]) =
                              IF l = k THEN {v} ELSE Setting(s, l[1], l[2])
<1> DEFINE r == Written(s, k[1], k[2], v)
<1>1. PICK h \in 1 .. Len(s) : At(s, Header(k[1]), h) BY NoSection
<1>2. Updates(r, s, k, v) BY <1>1, WriteIs
<1> HIDE DEF r
<1>3. Profiled(r) /\ \A l \in Keys : Says(r, l) = IF l = k THEN {v} ELSE Says(s, l)
  BY <1>2 DEF Updates
<1>4. Profiled(r) /\ \A l \in Keys : Setting(r, l[1], l[2]) =
                                       IF l = k THEN {v} ELSE Setting(s, l[1], l[2])
  BY <1>3, SettingIs
<1> QED BY <1>4 DEF r

(* write_profile, on a text without the token, adds the one setting it      *)
(* names and leaves a profile.                                              *)
THEOREM AppendAddsSetting ==
  ASSUME NEW s, Profiled(s), NEW k \in Keys, NEW v \in Values,
         SectionStart(s, k[1]) = NULL
  PROVE  /\ Profiled(s \o NewSection(k[1], k[2], v))
         /\ \A l \in Keys : Setting(s \o NewSection(k[1], k[2], v), l[1], l[2]) =
                              IF l = k THEN {v} ELSE Setting(s, l[1], l[2])
<1> DEFINE r == s \o NewSection(k[1], k[2], v)
<1>1. \A h \in 1 .. Len(s) : ~At(s, Header(k[1]), h) BY NoSection
<1>2. Joins(r, s, NewSection(k[1], k[2], v)) BY DEF Joins
<1> HIDE DEF r
<1>3. Updates(r, s, k, v) BY <1>1, <1>2, AppendedIs
<1>4. Profiled(r) /\ \A l \in Keys : Says(r, l) = IF l = k THEN {v} ELSE Says(s, l)
  BY <1>3 DEF Updates
<1>5. Profiled(r) /\ \A l \in Keys : Setting(r, l[1], l[2]) =
                                       IF l = k THEN {v} ELSE Setting(s, l[1], l[2])
  BY <1>4, SettingIs
<1> QED BY <1>5 DEF r

(* write_profile, when it could not open for update a text that has the     *)
(* token, leaves a profile that says what it said, whatever was written.    *)
THEOREM AppendInVain ==
  ASSUME NEW s, Profiled(s), NEW k \in Keys, NEW v \in Values,
         SectionStart(s, k[1]) # NULL
  PROVE  /\ Profiled(s \o NewSection(k[1], k[2], v))
         /\ \A l \in Keys : Setting(s \o NewSection(k[1], k[2], v), l[1], l[2]) =
                              Setting(s, l[1], l[2])
<1> DEFINE r == s \o NewSection(k[1], k[2], v)
<1>1. PICK h \in 1 .. Len(s) : At(s, Header(k[1]), h) BY NoSection
<1>2. Joins(r, s, NewSection(k[1], k[2], v)) BY DEF Joins
<1> HIDE DEF r
<1>3. Profiled(r) /\ \A l \in Keys : Says(r, l) = Says(s, l)
  BY <1>1, <1>2, AppendedInVain DEF Repeats
<1>4. Profiled(r) /\ \A l \in Keys : Setting(r, l[1], l[2]) = Setting(s, l[1], l[2])
  BY <1>3, SettingIs
<1> QED BY <1>4 DEF r

=============================================================================
