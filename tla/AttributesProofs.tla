-------------------------- MODULE AttributesProofs --------------------------
(***************************************************************************)
(* Proofs about module Attributes: the lines after st_blocks stay pairs of *)
(* a name and a value, whatever threads change the inode at once, and one  *)
(* thread keeps the promise of AttrStore.                                  *)
(***************************************************************************)
EXTENDS Attributes, SequenceTheorems, FiniteSetTheorems, TLAPS

ValueLines == {v[1] : v \in XValues}

OtherLines == ValueLines \cup {Target[k] : k \in DOMAIN Target}

Texts == XNames \cup OtherLines

(***************************************************************************)
(* What users have to stick to: no line but a name itself contains the     *)
(* name of an extended attribute, and a value has one line, that is none   *)
(* of the texts with a meaning of their own in Attributes.                 *)
(***************************************************************************)
NamesStandAlone ==
  /\ \A v \in XValues : v = <<v[1]>> /\ v # NULL /\ v # Torn
  /\ \A n, m \in XNames : <<n, m>> \in Occurs => n = m
  /\ \A n \in XNames, l \in OtherLines : <<n, l>> \notin Occurs
  /\ Target # <<>> => Target = <<"st_content", Target[2]>>

-----------------------------------------------------------------------------
(* Sequences of lines.                                                     *)

\* The target of a symlink, and then names with a value each, no name twice.
Pairs(ls) ==
  /\ ls \in Seq(Texts) /\ Len(ls) % 2 = 0 /\ Len(Target) <= Len(ls)
  /\ \A k \in DOMAIN Target : ls[k] = Target[k]
  /\ \A k \in DOMAIN ls : k > Len(Target) =>
       IF k % 2 = 1 THEN ls[k] \in XNames ELSE <<ls[k]>> \in XValues
  /\ \A j, k \in DOMAIN ls : j % 2 = 1 /\ k % 2 = 1 /\ ls[j] = ls[k] => j = k

\* What is spliced in takes the place of what goes; the rest moves up or down.
LEMMA SpliceProperties ==
  ASSUME NEW S, NEW s \in Seq(S), NEW j \in 1..Len(s), NEW m \in Nat,
         j + m - 1 <= Len(s), NEW new \in Seq(S)
  PROVE  /\ Splice(s, j, m, new) \in Seq(S)
         /\ Len(Splice(s, j, m, new)) = Len(s) - m + Len(new)
         /\ \A k \in 1..(Len(s) - m + Len(new)) :
              Splice(s, j, m, new)[k] =
                IF k < j THEN s[k]
                ELSE IF k < j + Len(new) THEN new[k - j + 1] ELSE s[k - Len(new) + m]
<1>0. /\ Len(s) \in Nat /\ \A k \in 1..Len(s) : s[k] \in S
      /\ Len(new) \in Nat /\ j \in Nat /\ j >= 1
  OBVIOUS
<1>1. PICK a : a = SubSeq(s, 1, j - 1)
  OBVIOUS
<1>2. /\ a \in Seq(S) /\ Len(a) = j - 1
      /\ \A k \in 1..(j - 1) : a[k] = s[k]
  BY <1>0, <1>1, SubSeqProperties
<1>3. PICK b : b = SubSeq(s, j + m, Len(s))
  OBVIOUS
<1>4. /\ b \in Seq(S) /\ Len(b) = Len(s) - j - m + 1
      /\ \A k \in 1..(Len(s) - j - m + 1) : b[k] = s[j + m - 1 + k]
  BY <1>0, <1>3, SubSeqProperties
<1>5. PICK c : c = a \o new
  OBVIOUS
<1>6. /\ c \in Seq(S) /\ Len(c) = j - 1 + Len(new)
      /\ \A k \in 1..(j - 1 + Len(new)) : c[k] = IF k <= j - 1 THEN a[k] ELSE new[k - (j - 1)]
  <2>1. /\ a \o new \in Seq(S) /\ Len(a \o new) = Len(a) + Len(new)
        /\ \A k \in 1..(Len(a) + Len(new)) :
             (a \o new)[k] = IF k <= Len(a) THEN a[k] ELSE new[k - Len(a)]
    BY <1>2, ConcatProperties
  <2>. QED
    BY <1>2, <1>5, <2>1
<1>7. PICK d : d = c \o b
  OBVIOUS
<1>8. /\ d \in Seq(S) /\ Len(d) = Len(c) + Len(b)
      /\ \A k \in 1..(Len(c) + Len(b)) : d[k] = IF k <= Len(c) THEN c[k] ELSE b[k - Len(c)]
  <2>1. /\ c \o b \in Seq(S) /\ Len(c \o b) = Len(c) + Len(b)
        /\ \A k \in 1..(Len(c) + Len(b)) :
             (c \o b)[k] = IF k <= Len(c) THEN c[k] ELSE b[k - Len(c)]
    <3>1. c \in Seq(S) /\ b \in Seq(S)
      BY <1>4, <1>6
    <3>. QED
      BY <3>1, ConcatProperties
  <2>. QED
    BY <1>7, <2>1
<1>9. Len(c) + Len(b) = Len(s) - m + Len(new)
  BY <1>0, <1>4, <1>6
<1>10. d = Splice(s, j, m, new)
  BY <1>1, <1>3, <1>5, <1>7 DEF Splice
<1>11. ASSUME NEW k \in 1..(Len(s) - m + Len(new))
       PROVE  d[k] = IF k < j THEN s[k]
                     ELSE IF k < j + Len(new) THEN new[k - j + 1] ELSE s[k - Len(new) + m]
  <2>1. k \in 1..(Len(c) + Len(b))
    BY <1>9
  <2>2. CASE k < j
    <3>1. k <= Len(c) /\ k \in 1..(j - 1 + Len(new)) /\ k \in 1..(j - 1)
      BY <1>0, <1>6, <2>2
    <3>2. d[k] = c[k] /\ c[k] = a[k] /\ a[k] = s[k]
      BY <1>0, <1>2, <1>6, <1>8, <2>1, <3>1
    <3>. QED
      BY <2>2, <3>2
  <2>3. CASE ~ (k < j) /\ k < j + Len(new)
    <3>1. k - (j - 1) = k - j + 1 /\ k \in 1..(j - 1 + Len(new)) /\ k <= Len(c)
      BY <1>0, <1>6, <2>3
    <3>2. d[k] = c[k] /\ c[k] = new[k - (j - 1)]
      BY <1>0, <1>6, <1>8, <2>1, <2>3, <3>1
    <3>. QED
      BY <2>3, <3>1, <3>2
  <2>4. CASE ~ (k < j + Len(new))
    <3>1. PICK i : i = k - Len(c)
      OBVIOUS
    <3>2. i \in 1..(Len(s) - j - m + 1) /\ j + m - 1 + i = k - Len(new) + m
      BY <1>0, <1>6, <1>9, <2>4, <3>1
    <3>3. d[k] = b[i]
      BY <1>0, <1>6, <1>8, <2>1, <2>4, <3>1
    <3>. QED
      BY <1>0, <1>4, <2>4, <3>2, <3>3
  <2>. QED
    BY <1>0, <2>2, <2>3, <2>4
<1>. QED
  BY <1>8, <1>9, <1>10, <1>11

\* Two lines at the end.
LEMMA AddProperties ==
  ASSUME NEW S, NEW s \in Seq(S), NEW a \in S, NEW b \in S
  PROVE  /\ s \o <<a>> \o <<b>> \in Seq(S)
         /\ Len(s \o <<a>> \o <<b>>) = Len(s) + 2
         /\ \A k \in 1..(Len(s) + 2) :
              (s \o <<a>> \o <<b>>)[k] =
                IF k <= Len(s) THEN s[k] ELSE IF k = Len(s) + 1 THEN a ELSE b
<1>0. Len(s) \in Nat /\ <<a>> \in Seq(S) /\ <<b>> \in Seq(S)
  OBVIOUS
<1>1. PICK c : c = s \o <<a>>
  OBVIOUS
<1>2. /\ c \in Seq(S) /\ Len(c) = Len(s) + 1
      /\ \A k \in 1..(Len(s) + 1) : c[k] = IF k <= Len(s) THEN s[k] ELSE a
  BY <1>0, <1>1
<1>3. PICK d : d = c \o <<b>>
  OBVIOUS
<1>4. /\ d \in Seq(S) /\ Len(d) = Len(s) + 2
      /\ \A k \in 1..(Len(s) + 2) : d[k] = IF k <= Len(s) + 1 THEN c[k] ELSE b
  BY <1>0, <1>2, <1>3
<1>5. ASSUME NEW k \in 1..(Len(s) + 2)
      PROVE  d[k] = IF k <= Len(s) THEN s[k] ELSE IF k = Len(s) + 1 THEN a ELSE b
  BY <1>0, <1>2, <1>4
<1>. QED
  BY <1>1, <1>3, <1>4, <1>5

\* The target of a symlink is a pair of lines as well.
LEMMA TargetLen ==
  ASSUME NamesStandAlone
  PROVE  /\ Len(Target) \in {0, 2} /\ Target \in Seq(Texts) /\ DOMAIN Target = 1..Len(Target)
         /\ \A k \in DOMAIN Target : Target[k] \in OtherLines
<1>1. CASE Target = <<>>
  BY <1>1
<1>2. CASE Target # <<>>
  <2>1. PICK c : Target = <<"st_content", c>>
    BY <1>2 DEF NamesStandAlone
  <2>2. Len(Target) = 2 /\ DOMAIN Target = 1..2
    BY <2>1
  <2>3. \A k \in DOMAIN Target : Target[k] \in OtherLines
    BY DEF OtherLines
  <2>4. "st_content" \in Texts /\ c \in Texts
    BY <2>1, <2>2, <2>3 DEF Texts
  <2>. QED
    BY <2>1, <2>2, <2>3, <2>4
<1>. QED
  BY <1>1, <1>2

\* A name does not occur but where it is, in the first line of its pair.
LEMMA HitsOfName ==
  ASSUME NamesStandAlone, NEW ls, Pairs(ls), NEW n \in XNames
  PROVE  /\ \A j \in Hits(ls, n) :
              /\ j \in 1..Len(ls) /\ ls[j] = n /\ j % 2 = 1 /\ j > Len(Target)
              /\ j < Len(ls) /\ FirstHit(ls, n) = j /\ Hits(ls, n) = {j}
         /\ n \in NamesOf(ls) <=> Hits(ls, n) # {}
<1>1. ls \in Seq(Texts) /\ Len(ls) \in Nat /\ DOMAIN ls = 1..Len(ls) /\ Len(ls) % 2 = 0
  BY DEF Pairs
<1>2. \A j \in DOMAIN ls : <<n, ls[j]>> \in Occurs => ls[j] = n /\ ls[j] \notin OtherLines
  BY <1>1 DEF NamesStandAlone, Texts
<1>3. <<n, n>> \in Occurs
  BY AttributesAssumption
<1>4. ASSUME NEW j \in DOMAIN ls, ls[j] = n
      PROVE  j \in Hits(ls, n) /\ j % 2 = 1 /\ j > Len(Target) /\ j < Len(ls)
  <2>1. n \notin OtherLines
    BY <1>3 DEF NamesStandAlone
  <2>2. j > Len(Target)
    <3>1. SUFFICES ASSUME ~ (j > Len(Target)) PROVE FALSE
      OBVIOUS
    <3>2. j \in DOMAIN Target
      BY <1>1, <3>1, TargetLen
    <3>. QED
      BY <1>4, <2>1, <3>2, TargetLen DEF Pairs
  <2>3. j % 2 = 1
    <3>1. SUFFICES ASSUME j % 2 # 1 PROVE FALSE
      OBVIOUS
    <3>2. <<ls[j]>> \in XValues
      BY <1>1, <2>2, <3>1 DEF Pairs
    <3>3. <<ls[j]>>[1] \in ValueLines
      BY <3>2 DEF ValueLines
    <3>. QED
      BY <1>4, <2>1, <3>3 DEF OtherLines
  <2>4. j # Len(ls)
    BY <1>1, <2>3
  <2>. QED
    BY <1>1, <1>3, <1>4, <2>2, <2>3, <2>4 DEF Hits
<1>5. ASSUME NEW j \in Hits(ls, n)
      PROVE  /\ j \in 1..Len(ls) /\ ls[j] = n /\ j % 2 = 1 /\ j > Len(Target)
             /\ j < Len(ls) /\ FirstHit(ls, n) = j /\ Hits(ls, n) = {j}
  <2>1. j \in DOMAIN ls /\ ls[j] = n
    BY <1>2 DEF Hits
  <2>2. j % 2 = 1 /\ j > Len(Target) /\ j < Len(ls)
    BY <1>4, <2>1
  <2>3. ASSUME NEW k \in Hits(ls, n) PROVE k = j
    <3>1. k \in DOMAIN ls /\ ls[k] = n
      BY <1>2 DEF Hits
    <3>2. k % 2 = 1
      BY <1>4, <3>1
    <3>. QED
      BY <2>1, <2>2, <3>1, <3>2 DEF Pairs
  <2>4. Hits(ls, n) = {j} /\ j <= j
    BY <1>1, <2>1, <2>3
  <2>5. FirstHit(ls, n) = j
    BY <2>4 DEF FirstHit
  <2>. QED
    BY <1>1, <2>1, <2>2, <2>4, <2>5
<1>6. n \in NamesOf(ls) <=> Hits(ls, n) # {}
  BY <1>4, <1>5 DEF NamesOf
<1>. QED
  BY <1>5, <1>6

\* The value of a name is the line after it.
LEMMA ValueIsNext ==
  ASSUME NEW ls, Pairs(ls), NEW j \in DOMAIN ls, j % 2 = 1
  PROVE  ls[j] \in NamesOf(ls) /\ ValueOf(ls, ls[j]) = <<ls[j + 1]>>
<1>1. PICK i : i = CHOOSE k \in DOMAIN ls : k % 2 = 1 /\ ls[k] = ls[j]
  OBVIOUS
<1>2. i \in DOMAIN ls /\ i % 2 = 1 /\ ls[i] = ls[j]
  BY <1>1
<1>3. i = j
  BY <1>2 DEF Pairs
<1>4. ls[j] \in NamesOf(ls)
  BY DEF NamesOf
<1>5. ls \in Seq(Texts) /\ j \in Int
  BY DEF Pairs
<1>6. ValueOf(ls, ls[j]) = <<ls[1 + i]>>
  BY <1>1 DEF ValueOf
<1>. QED
  BY <1>3, <1>4, <1>5, <1>6

\* A name not there gets its pair at the end.
LEMMA AddAttr ==
  ASSUME NamesStandAlone, NEW ls, Pairs(ls), NEW n \in XNames, NEW v \in XValues,
         Hits(ls, n) = {}, NEW new, new = add_attr(ls, n, v)
  PROVE  /\ Pairs(new) /\ NamesOf(new) = NamesOf(ls) \cup {n} /\ ValueOf(new, n) = v
         /\ \A m \in NamesOf(ls) : m # n /\ ValueOf(new, m) = ValueOf(ls, m)
<1>1. PICK l : v = <<l>> /\ l \in Texts
  BY DEF NamesStandAlone, Texts, OtherLines, ValueLines
<1>2. ls \in Seq(Texts) /\ Len(ls) \in Nat /\ DOMAIN ls = 1..Len(ls) /\ Len(ls) % 2 = 0
  BY DEF Pairs
<1>3. /\ new \in Seq(Texts) /\ Len(new) = Len(ls) + 2
      /\ \A k \in 1..(Len(ls) + 2) :
           new[k] = IF k <= Len(ls) THEN ls[k] ELSE IF k = Len(ls) + 1 THEN n ELSE l
  BY <1>1, <1>2, AddProperties DEF add_attr, Texts
<1>4. DOMAIN new = 1..(Len(ls) + 2)
  BY <1>3
<1>5. \A k \in 1..Len(ls) : new[k] = ls[k]
  BY <1>2, <1>3
<1>6. new[Len(ls) + 1] = n /\ new[Len(ls) + 2] = l
  BY <1>2, <1>3
<1>7. n \notin NamesOf(ls)
  BY HitsOfName
<1>8. \A k \in 1..Len(ls) : k % 2 = 1 => ls[k] # n
  BY <1>2, <1>7 DEF NamesOf
<1>9. \A k \in DOMAIN new : k % 2 = 1 => k \in 1..Len(ls) \/ k = Len(ls) + 1
  BY <1>2, <1>4
<1>10. Pairs(new)
  <2>1. Len(new) % 2 = 0 /\ Len(Target) <= Len(new)
    BY <1>2, <1>3, TargetLen DEF Pairs
  <2>2. \A k \in DOMAIN Target : new[k] = Target[k]
    BY <1>2, <1>5, TargetLen DEF Pairs
  <2>3. ASSUME NEW k \in DOMAIN new, k > Len(Target)
        PROVE  IF k % 2 = 1 THEN new[k] \in XNames ELSE <<new[k]>> \in XValues
    <3>1. CASE k \in 1..Len(ls)
      BY <1>2, <1>5, <2>3, <3>1 DEF Pairs
    <3>2. CASE k = Len(ls) + 1
      BY <1>2, <1>6, <3>2
    <3>3. CASE k = Len(ls) + 2
      BY <1>1, <1>2, <1>6, <3>3
    <3>. QED
      BY <1>2, <1>4, <3>1, <3>2, <3>3
  <2>4. \A j, k \in DOMAIN new : j % 2 = 1 /\ k % 2 = 1 /\ new[j] = new[k] => j = k
    BY <1>2, <1>5, <1>6, <1>8, <1>9 DEF Pairs
  <2>. QED
    BY <1>3, <2>1, <2>2, <2>3, <2>4 DEF Pairs
<1>11. ValueOf(new, n) = v /\ n \in NamesOf(new)
  <2>1. Len(ls) + 1 \in DOMAIN new /\ (Len(ls) + 1) % 2 = 1 /\ Len(ls) + 1 + 1 = Len(ls) + 2
    BY <1>2, <1>4
  <2>. QED
    BY <1>1, <1>6, <1>10, <2>1, ValueIsNext
<1>12. ASSUME NEW m \in NamesOf(ls)
       PROVE  m # n /\ m \in NamesOf(new) /\ ValueOf(new, m) = ValueOf(ls, m)
  <2>1. PICK j \in DOMAIN ls : j % 2 = 1 /\ ls[j] = m
    BY DEF NamesOf
  <2>2. j \in DOMAIN new /\ new[j] = m /\ j + 1 \in 1..Len(ls)
    BY <1>2, <1>4, <1>5, <2>1
  <2>3. ValueOf(ls, m) = <<ls[j + 1]>> /\ ValueOf(new, m) = <<new[j + 1]>> /\ m \in NamesOf(new)
    BY <1>10, <2>1, <2>2, ValueIsNext
  <2>. QED
    BY <1>5, <1>7, <2>2, <2>3
<1>13. NamesOf(new) \subseteq NamesOf(ls) \cup {n}
  BY <1>2, <1>5, <1>6, <1>9 DEF NamesOf
<1>. QED
  BY <1>10, <1>11, <1>12, <1>13

\* A name that is there gets its new value in its place.
LEMMA ModifyAttr ==
  ASSUME NamesStandAlone, NEW ls, Pairs(ls), NEW n \in XNames, NEW v \in XValues,
         Hits(ls, n) # {}, NEW new, new = modify_attr_str(ls, n, v)
  PROVE  /\ Pairs(new) /\ NamesOf(new) = NamesOf(ls) \cup {n} /\ ValueOf(new, n) = v
         /\ \A m \in NamesOf(ls) : m # n => ValueOf(new, m) = ValueOf(ls, m)
<1>1. PICK l : v = <<l>> /\ l \in Texts
  BY DEF NamesStandAlone, Texts, OtherLines, ValueLines
<1>2. ls \in Seq(Texts) /\ Len(ls) \in Nat /\ DOMAIN ls = 1..Len(ls) /\ Len(ls) % 2 = 0
  BY DEF Pairs
<1>3. PICK j \in Hits(ls, n) : TRUE
  OBVIOUS
<1>4. /\ j \in 1..Len(ls) /\ ls[j] = n /\ j % 2 = 1 /\ j > Len(Target) /\ j < Len(ls)
      /\ FirstHit(ls, n) = j
  BY HitsOfName
<1>5. PICK two : two = <<n>> \o v
  OBVIOUS
<1>6. two \in Seq(Texts) /\ Len(two) = 2 /\ two[1] = n /\ two[2] = l
  BY <1>1, <1>5 DEF Texts
<1>7. new = Splice(ls, j, 2, two)
  BY <1>3, <1>4, <1>5, AttributesAssumption DEF modify_attr_str
<1>8. j + 2 - 1 <= Len(ls) /\ 2 \in Nat
  BY <1>2, <1>4
<1>9. /\ new \in Seq(Texts) /\ Len(new) = Len(ls) - 2 + 2
      /\ \A k \in 1..(Len(ls) - 2 + 2) :
           new[k] = IF k < j THEN ls[k]
                    ELSE IF k < j + 2 THEN two[k - j + 1] ELSE ls[k - 2 + 2]
  <2>1. /\ Splice(ls, j, 2, two) \in Seq(Texts)
        /\ Len(Splice(ls, j, 2, two)) = Len(ls) - 2 + Len(two)
        /\ \A k \in 1..(Len(ls) - 2 + Len(two)) :
             Splice(ls, j, 2, two)[k] =
               IF k < j THEN ls[k]
               ELSE IF k < j + Len(two) THEN two[k - j + 1] ELSE ls[k - Len(two) + 2]
    <3>1. PICK m : m = 2 /\ m \in Nat /\ j + m - 1 <= Len(ls)
      BY <1>8
    <3>2. ls \in Seq(Texts) /\ j \in 1..Len(ls) /\ two \in Seq(Texts)
      BY <1>2, <1>4, <1>6
    <3>3. /\ Splice(ls, j, m, two) \in Seq(Texts)
          /\ Len(Splice(ls, j, m, two)) = Len(ls) - m + Len(two)
          /\ \A k \in 1..(Len(ls) - m + Len(two)) :
               Splice(ls, j, m, two)[k] =
                 IF k < j THEN ls[k]
                 ELSE IF k < j + Len(two) THEN two[k - j + 1] ELSE ls[k - Len(two) + m]
      BY <3>1, <3>2, SpliceProperties
    <3>. QED
      BY <3>1, <3>3
  <2>. QED
    BY <1>6, <1>7, <2>1
<1>10. Len(new) = Len(ls) /\ DOMAIN new = DOMAIN ls
  BY <1>2, <1>9
<1>11. \A k \in DOMAIN ls : k # j + 1 => new[k] = ls[k]
  <2>. SUFFICES ASSUME NEW k \in DOMAIN ls, k # j + 1 PROVE new[k] = ls[k]
    OBVIOUS
  <2>1. k \in 1..(Len(ls) - 2 + 2) /\ k \in Nat /\ j \in Nat
    BY <1>2, <1>4
  <2>2. CASE k = j
    BY <1>4, <1>6, <1>9, <2>1, <2>2
  <2>3. CASE k # j
    BY <1>9, <2>1, <2>3
  <2>. QED
    BY <2>2, <2>3
<1>12. new[j + 1] = l /\ j + 1 \in DOMAIN ls /\ (j + 1) % 2 = 0
  BY SMTT(30), <1>2, <1>4, <1>6, <1>9
<1>13. Pairs(new)
  <2>1. \A k \in DOMAIN Target : new[k] = Target[k]
    BY SMTT(30), <1>2, <1>4, <1>11, TargetLen DEF Pairs
  <2>2. ASSUME NEW k \in DOMAIN new, k > Len(Target)
        PROVE  IF k % 2 = 1 THEN new[k] \in XNames ELSE <<new[k]>> \in XValues
    <3>1. CASE k # j + 1
      BY <1>10, <1>11, <2>2, <3>1 DEF Pairs
    <3>2. CASE k = j + 1
      BY <1>1, <1>12, <3>2
    <3>. QED
      BY <3>1, <3>2
  <2>3. \A k \in DOMAIN new : k % 2 = 1 => new[k] = ls[k]
    BY <1>10, <1>11, <1>12
  <2>. QED
    BY <1>2, <1>9, <1>10, <2>1, <2>2, <2>3 DEF Pairs
<1>14. ASSUME NEW k \in DOMAIN ls, k % 2 = 1
       PROVE  /\ new[k] = ls[k] /\ ls[k] \in NamesOf(new) /\ ls[k] \in NamesOf(ls)
              /\ ValueOf(new, ls[k]) = <<new[k + 1]>> /\ ValueOf(ls, ls[k]) = <<ls[k + 1]>>
  <2>1. new[k] = ls[k]
    BY <1>11, <1>12, <1>14
  <2>. QED
    BY <1>10, <1>13, <1>14, <2>1, ValueIsNext
<1>15. NamesOf(new) = NamesOf(ls) /\ n \in NamesOf(ls)
  BY ZenonT(60), <1>2, <1>4, <1>10, <1>14 DEF NamesOf
<1>16. ValueOf(new, n) = v
  BY <1>1, <1>2, <1>4, <1>12, <1>14
<1>17. ASSUME NEW m \in NamesOf(ls), m # n
       PROVE  ValueOf(new, m) = ValueOf(ls, m)
  <2>1. PICK k \in DOMAIN ls : k % 2 = 1 /\ ls[k] = m
    BY DEF NamesOf
  <2>2. k # j /\ k + 1 # j + 1 /\ k + 1 \in DOMAIN ls
    BY <1>2, <1>4, <1>17, <2>1
  <2>. QED
    BY <1>11, <1>14, <2>1, <2>2
<1>. QED
  BY <1>13, <1>15, <1>16, <1>17

\* setxattr sets the value of its name and touches no other.
LEMMA SetXattr ==
  ASSUME NamesStandAlone, NEW ls, Pairs(ls), NEW n \in XNames, NEW v \in XValues,
         NEW new, new = memcached_setxattr(ls, n, v)
  PROVE  /\ Pairs(new) /\ NamesOf(new) = NamesOf(ls) \cup {n} /\ ValueOf(new, n) = v
         /\ \A m \in NamesOf(ls) : m # n => ValueOf(new, m) = ValueOf(ls, m)
<1>1. CASE Hits(ls, n) = {}
  <2>1. new = add_attr(ls, n, v)
    BY <1>1 DEF memcached_setxattr, get_attr_value_str
  <2>. QED
    BY <1>1, <2>1, AddAttr
<1>2. CASE Hits(ls, n) # {}
  <2>1. PICK j \in Hits(ls, n) : TRUE
    BY <1>2
  <2>2. /\ j \in 1..Len(ls) /\ ls[j] = n /\ j % 2 = 1 /\ j > Len(Target) /\ j < Len(ls)
        /\ FirstHit(ls, n) = j
    BY HitsOfName
  <2>3. get_attr_value_str(ls, n) = <<ls[j + 1]>>
    BY <1>2, <2>2, AttributesAssumption DEF get_attr_value_str
  <2>4. j + 1 \in DOMAIN ls /\ j + 1 > Len(Target) /\ (j + 1) % 2 # 1
    BY <2>2, TargetLen DEF Pairs
  <2>5. <<ls[j + 1]>> \in XValues
    BY <2>4 DEF Pairs
  <2>6. <<ls[j + 1]>> # NULL
    BY <2>5 DEF NamesStandAlone
  <2>7. new = modify_attr_str(ls, n, v)
    BY <2>3, <2>6 DEF memcached_setxattr
  <2>. QED
    BY <1>2, <2>7, ModifyAttr
<1>. QED
  BY <1>1, <1>2

\* removexattr takes a name away with its value, and no other.
LEMMA RemoveXattr ==
  ASSUME NamesStandAlone, NEW ls, Pairs(ls), NEW n \in XNames, Hits(ls, n) # {},
         NEW new, new = remove_extended_attr(ls, n)
  PROVE  /\ Pairs(new) /\ NamesOf(new) = NamesOf(ls) \ {n}
         /\ \A m \in NamesOf(ls) : m # n => ValueOf(new, m) = ValueOf(ls, m)
<1>1. ls \in Seq(Texts) /\ Len(ls) \in Nat /\ DOMAIN ls = 1..Len(ls) /\ Len(ls) % 2 = 0
  BY DEF Pairs
<1>2. PICK j \in Hits(ls, n) : TRUE
  OBVIOUS
<1>3. /\ j \in 1..Len(ls) /\ ls[j] = n /\ j % 2 = 1 /\ j > Len(Target) /\ j < Len(ls)
      /\ FirstHit(ls, n) = j
  BY HitsOfName
<1>4. <<n, ls[j]>> \in Starts
  BY <1>3, AttributesAssumption
<1>5. new = Splice(ls, j, 2, <<>>)
  BY <1>2, <1>3, <1>4 DEF remove_extended_attr
<1>6. j + 2 - 1 <= Len(ls) /\ 2 \in Nat /\ <<>> \in Seq(Texts) /\ Len(<<>>) = 0
  BY <1>1, <1>3
<1>7. PICK none : none = <<>> /\ none \in Seq(Texts) /\ Len(none) = 0
  BY <1>6
<1>8. /\ new \in Seq(Texts) /\ Len(new) = Len(ls) - 2 + 0
      /\ \A k \in 1..(Len(ls) - 2 + 0) :
           new[k] = IF k < j THEN ls[k] ELSE IF k < j + 0 THEN none[k - j + 1] ELSE ls[k - 0 + 2]
  <2>1. /\ Splice(ls, j, 2, none) \in Seq(Texts)
        /\ Len(Splice(ls, j, 2, none)) = Len(ls) - 2 + Len(none)
        /\ \A k \in 1..(Len(ls) - 2 + Len(none)) :
             Splice(ls, j, 2, none)[k] =
               IF k < j THEN ls[k]
               ELSE IF k < j + Len(none) THEN none[k - j + 1] ELSE ls[k - Len(none) + 2]
    <3>1. PICK m : m = 2 /\ m \in Nat /\ j + m - 1 <= Len(ls)
      BY <1>6
    <3>2. ls \in Seq(Texts) /\ j \in 1..Len(ls) /\ none \in Seq(Texts)
      BY <1>1, <1>3, <1>7
    <3>3. /\ Splice(ls, j, m, none) \in Seq(Texts)
          /\ Len(Splice(ls, j, m, none)) = Len(ls) - m + Len(none)
          /\ \A k \in 1..(Len(ls) - m + Len(none)) :
               Splice(ls, j, m, none)[k] =
                 IF k < j THEN ls[k]
                 ELSE IF k < j + Len(none) THEN none[k - j + 1] ELSE ls[k - Len(none) + m]
      BY <3>1, <3>2, SpliceProperties
    <3>. QED
      BY <3>1, <3>3
  <2>. QED
    BY <1>5, <1>7, <2>1
<1>9. Len(new) = Len(ls) - 2 /\ DOMAIN new = 1..(Len(ls) - 2)
  BY <1>1, <1>8
<1>10. \A k \in DOMAIN new : new[k] = IF k < j THEN ls[k] ELSE ls[k + 2]
  BY <1>1, <1>3, <1>8, <1>9
\* Where a line of the new text was before.
<1>. DEFINE Old(k) == IF k < j THEN k ELSE k + 2
<1>11. \A k \in DOMAIN new : /\ Old(k) \in DOMAIN ls /\ Old(k) # j /\ Old(k) # j + 1
                             /\ Old(k) % 2 = k % 2 /\ Old(k) >= k
  BY <1>1, <1>3, <1>9
<1>12. \A k \in DOMAIN new : new[k] = ls[Old(k)]
  BY <1>10
<1>13. \A i, k \in DOMAIN new : Old(i) = Old(k) => i = k
  BY <1>1, <1>3, <1>9
<1>14. \A i \in DOMAIN ls : i # j /\ i # j + 1 => \E k \in DOMAIN new : Old(k) = i
  <2>. SUFFICES ASSUME NEW i \in DOMAIN ls, i # j, i # j + 1
                PROVE  \E k \in DOMAIN new : Old(k) = i
    OBVIOUS
  <2>1. CASE i < j
    <3>1. i \in DOMAIN new
      BY <1>1, <1>3, <1>9, <2>1
    <3>. QED
      BY <2>1, <3>1
  <2>2. CASE i > j
    <3>1. i - 2 \in DOMAIN new /\ ~ (i - 2 < j) /\ i - 2 + 2 = i
      BY <1>1, <1>3, <1>9, <2>2
    <3>. QED
      BY <3>1
  <2>. QED
    BY <1>1, <1>3, <2>1, <2>2
<1>. HIDE DEF Old
<1>15. Pairs(new)
  <2>1. Len(new) % 2 = 0 /\ Len(Target) <= Len(new)
    BY <1>1, <1>3, <1>9, TargetLen
  <2>2. \A k \in DOMAIN Target : new[k] = Target[k]
    <3>. SUFFICES ASSUME NEW k \in DOMAIN Target PROVE new[k] = Target[k]
      OBVIOUS
    <3>1. k \in DOMAIN new /\ k < j
      BY <1>1, <1>3, <1>9, <2>1, TargetLen
    <3>. QED
      BY <1>10, <3>1 DEF Pairs
  <2>3. ASSUME NEW k \in DOMAIN new, k > Len(Target)
        PROVE  IF k % 2 = 1 THEN new[k] \in XNames ELSE <<new[k]>> \in XValues
    <3>1. Old(k) > Len(Target)
      BY <1>1, <1>9, <1>11, <2>3, TargetLen
    <3>. QED
      BY <1>11, <1>12, <2>3, <3>1 DEF Pairs
  <2>4. \A i, k \in DOMAIN new : i % 2 = 1 /\ k % 2 = 1 /\ new[i] = new[k] => i = k
    BY <1>11, <1>12, <1>13 DEF Pairs
  <2>. QED
    BY <1>8, <2>1, <2>2, <2>3, <2>4 DEF Pairs
<1>16. ASSUME NEW m \in NamesOf(ls), m # n
       PROVE  m \in NamesOf(new) /\ ValueOf(new, m) = ValueOf(ls, m)
  <2>1. PICK i \in DOMAIN ls : i % 2 = 1 /\ ls[i] = m
    BY DEF NamesOf
  <2>2. i # j /\ i # j + 1
    BY <1>3, <1>16, <2>1
  <2>3. PICK k \in DOMAIN new : Old(k) = i
    BY <1>14, <2>2
  <2>4. k % 2 = 1 /\ new[k] = m
    BY <1>11, <1>12, <2>1, <2>3
  <2>5. m \in NamesOf(new) /\ ValueOf(new, m) = <<new[k + 1]>> /\ ValueOf(ls, m) = <<ls[i + 1]>>
    BY <1>15, <2>1, <2>4, ValueIsNext
  <2>6. k + 1 \in DOMAIN new /\ Old(k + 1) = i + 1
    BY <1>1, <1>3, <1>9, <2>1, <2>3, <2>4 DEF Old
  <2>. QED
    BY <1>12, <2>5, <2>6
<1>17. ASSUME NEW m \in NamesOf(new)
       PROVE  m \in NamesOf(ls) /\ m # n
  <2>1. PICK k \in DOMAIN new : k % 2 = 1 /\ new[k] = m
    BY DEF NamesOf
  <2>2. /\ Old(k) \in DOMAIN ls /\ Old(k) % 2 = 1 /\ ls[Old(k)] = m /\ Old(k) # j
    BY <1>11, <1>12, <2>1
  <2>3. m # n
    BY <1>1, <1>3, <2>2 DEF Pairs
  <2>. QED
    BY <2>2, <2>3 DEF NamesOf
<1>. QED
  BY <1>15, <1>16, <1>17

-----------------------------------------------------------------------------
(* Any number of threads: the inductive invariant.                         *)

Attr == [st_mode : Int, st_uid : Int, st_gid : Int, st_nlink : Int,
         st_size : Int, st_blocks : Int]

\* A thread has all its fields; what it read is one text that was stored.
IsThread(th) ==
  /\ th = [pc |-> th.pc, alias |-> th.alias, call |-> th.call, attr |-> th.attr,
           lines |-> th.lines, answer |-> th.answer]
  /\ th.pc \in {"idle", "set"}
  /\ th.pc = "set" => th.call \in Changes /\ th.attr \in Attr /\ Pairs(th.lines)

PairsInv ==
  /\ attr \in Attr /\ Pairs(lines)
  /\ DOMAIN thread = Threads /\ thread = [t \in Threads |-> thread[t]]
  /\ \A t \in Threads : IsThread(thread[t])

\* Which call it is that changes the inode.
LEMMA CallKinds ==
  ASSUME NEW x \in Store!Calls
  PROVE  /\ x.op \in {"chmod", "chown", "write", "link", "unlink", "setxattr", "removexattr"}
         /\ x.op = "chmod" => x.mode \in Int
         /\ x.op = "chown" => x.uid \in Int /\ x.gid \in Int
         /\ x.op = "write" => x.blocks \in Int /\ x.end \in Int
         /\ x.op = "setxattr" => x.name \in XNames /\ x.value \in XValues
         /\ x.op = "removexattr" => x.name \in XNames
<1>1. CASE x \in [op : {"chmod"}, mode : {0, 1}]
  BY <1>1
<1>2. CASE x \in [op : {"chown"}, uid : {-1, 1}, gid : {-1, 1}]
  BY <1>2
<1>3. CASE x \in [op : {"write"}, blocks : {1, 2}, end : {1, 2}]
  BY <1>3
<1>4. CASE x \in [op : {"link", "unlink"}]
  BY <1>4
<1>5. CASE x \in [op : {"setxattr"}, name : XNames, value : XValues]
  BY <1>5
<1>6. CASE x \in [op : {"removexattr"}, name : XNames]
  BY <1>6
<1>. QED
  BY <1>1, <1>2, <1>3, <1>4, <1>5, <1>6 DEF Store!Calls

\* What a call makes of the attributes are attributes.
LEMMA NewAttributesType ==
  ASSUME NEW x \in Store!Calls, NEW a \in Attr
  PROVE  NewAttributes(x, a) \in Attr
<1>1. CASE x.op = "chmod"
  BY <1>1, CallKinds DEF NewAttributes, Attr
<1>2. CASE x.op = "chown"
  BY <1>2, CallKinds DEF NewAttributes, Attr
<1>3. CASE x.op = "write"
  BY <1>3, CallKinds DEF NewAttributes, Attr
<1>4. CASE x.op = "link" \/ x.op = "unlink"
  BY <1>4 DEF NewAttributes, Attr
<1>5. CASE x.op = "setxattr" \/ x.op = "removexattr"
  BY <1>5 DEF NewAttributes
<1>. QED
  BY <1>1, <1>2, <1>3, <1>4, <1>5, CallKinds

\* Lines in pairs are not the text that stands for no lines.
LEMMA PairsAreThere ==
  ASSUME NEW ls, Pairs(ls)
  PROVE  ls # NULL /\ ls # Garbled
<1>1. Len(ls) # 1
  <2>1. PICK n : n = Len(ls) /\ n \in Nat /\ n % 2 = 0
    BY DEF Pairs
  <2>2. n # 1
    BY <2>1
  <2>. QED
    BY <2>1, <2>2
<1>2. Len(NULL) = 1 /\ Len(Garbled) = 1
  BY DEF NULL, Garbled
<1>. QED
  BY <1>1, <1>2, Zenon

\* What a call makes of lines in pairs are lines in pairs, unless there is nothing
\* to remove.
LEMMA NewLinesArePairs ==
  ASSUME NamesStandAlone, NEW x \in Store!Calls, NEW ls, Pairs(ls)
  PROVE  /\ NewLines(x, ls) # NULL => Pairs(NewLines(x, ls))
         /\ x.op # "removexattr" => NewLines(x, ls) # NULL
<1>1. PICK new : new = NewLines(x, ls)
  OBVIOUS
<1>2. CASE x.op = "setxattr"
  <2>1. new = memcached_setxattr(ls, x.name, x.value)
    BY <1>1, <1>2 DEF NewLines
  <2>2. x.name \in XNames /\ x.value \in XValues
    BY <1>2, CallKinds
  <2>3. Pairs(new)
    BY <2>1, <2>2, SetXattr
  <2>. QED
    BY <1>1, <2>3, PairsAreThere
<1>3. CASE x.op = "removexattr"
  <2>1. new = remove_extended_attr(ls, x.name)
    BY <1>1, <1>3 DEF NewLines
  <2>2. x.name \in XNames
    BY <1>3, CallKinds
  <2>3. Hits(ls, x.name) = {} => new = NULL
    BY <2>1 DEF remove_extended_attr
  <2>4. Hits(ls, x.name) # {} => Pairs(new)
    BY <2>1, <2>2, RemoveXattr
  <2>. QED
    BY <1>1, <1>3, <2>3, <2>4
<1>4. CASE x.op \notin {"setxattr", "removexattr"}
  <2>1. new = ls
    BY <1>1, <1>4 DEF NewLines
  <2>. QED
    BY <1>1, <2>1, PairsAreThere
<1>. QED
  BY <1>2, <1>3, <1>4

\* A thread outside its calls has the shape the invariant asks for.
LEMMA IdleIsThread == IsThread(Idle)
<1>1. PICK a : a = CHOOSE b \in Aliases : TRUE
  OBVIOUS
<1>2. Idle = [pc |-> "idle", alias |-> a, call |-> [op |-> "none"], attr |-> NewAttr,
              lines |-> <<>>, answer |-> [op |-> "none"]]
  BY <1>1 DEF Idle
<1>. QED
  BY <1>2 DEF IsThread

\* The invariant at the beginning,
LEMMA PairsInit == NamesStandAlone => (Init => PairsInv)
<1>. SUFFICES ASSUME NamesStandAlone, Init PROVE PairsInv
  OBVIOUS
<1>1. attr \in Attr
  BY DEF Init, NewAttr, Attr
<1>2. Pairs(lines)
  <2>1. lines = Target
    BY DEF Init
  <2>2. ASSUME NEW j \in DOMAIN Target, NEW k \in DOMAIN Target, j % 2 = 1, k % 2 = 1
        PROVE  j = k
    BY <2>2, TargetLen
  <2>. QED
    BY <2>1, <2>2, TargetLen DEF Pairs
<1>3. /\ DOMAIN thread = Threads /\ thread = [t \in Threads |-> thread[t]]
      /\ \A t \in Threads : thread[t] = Idle
  BY DEF Init
<1>. QED
  BY <1>1, <1>2, <1>3, IdleIsThread DEF PairsInv

\* One thread goes on.
LEMMA PairsMove ==
  ASSUME PairsInv, NEW t \in Threads, NEW th, thread' = [thread EXCEPT ![t] = th],
         IsThread(th), attr' \in Attr, Pairs(lines')
  PROVE  PairsInv'
<1>1. /\ DOMAIN thread' = Threads /\ thread' = [u \in Threads |-> thread'[u]]
      /\ \A u \in Threads : thread'[u] = IF u = t THEN th ELSE thread[u]
  BY DEF PairsInv
<1>2. \A u \in Threads : IsThread(thread'[u])
  BY <1>1 DEF PairsInv
<1>. QED
  BY <1>1, <1>2 DEF PairsInv, IsThread, Pairs

\* A call that only looks leaves its answer.
LEMMA PairsLook ==
  ASSUME PairsInv, NEW t \in Threads, NEW answer, Look(t, answer)
  PROVE  PairsInv'
<1>1. PICK th : th = [thread[t] EXCEPT !.answer = answer]
  OBVIOUS
<1>2. IsThread(thread[t])
  BY DEF PairsInv
<1>3. IsThread(th) /\ th.answer = answer
  BY <1>1, <1>2 DEF IsThread
<1>4. thread' = [thread EXCEPT ![t] = th] /\ UNCHANGED <<attr, lines>>
  BY <1>1 DEF Look
<1>. QED
  BY <1>3, <1>4, PairsMove DEF PairsInv

\* when a handler reads the text it is to change,
LEMMA PairsGetForChange ==
  ASSUME PairsInv, NEW t \in Threads, GetForChange(t)
  PROVE  PairsInv'
<1>1. PICK x \in Changes, alias \in Aliases :
        thread' = [thread EXCEPT ![t] = [@ EXCEPT !.pc = "set", !.alias = alias,
                                     !.call = x, !.attr = attr, !.lines = lines]]
  BY DEF GetForChange
<1>2. PICK th : th = [thread[t] EXCEPT !.pc = "set", !.alias = alias,
                                     !.call = x, !.attr = attr, !.lines = lines]
  OBVIOUS
<1>3. IsThread(thread[t])
  BY DEF PairsInv
<1>4. /\ th = [pc |-> "set", alias |-> alias, call |-> x, attr |-> attr,
               lines |-> lines, answer |-> thread[t].answer]
  BY <1>2, <1>3 DEF IsThread
<1>5. IsThread(th)
  BY <1>3, <1>4 DEF IsThread, PairsInv
<1>6. thread' = [thread EXCEPT ![t] = th] /\ UNCHANGED <<attr, lines>>
  BY <1>1, <1>2 DEF GetForChange
<1>. QED
  BY <1>5, <1>6, PairsMove DEF PairsInv

\* when it stores what it made of it,
LEMMA PairsSet ==
  ASSUME NamesStandAlone, PairsInv, NEW t \in Threads, Set(t)
  PROVE  PairsInv'
<1>1. PICK x, new : x = thread[t].call /\ new = NewLines(x, thread[t].lines)
  OBVIOUS
<1>2. /\ x \in Store!Calls /\ thread[t].attr \in Attr /\ Pairs(thread[t].lines)
  BY <1>1 DEF Set, PairsInv, IsThread, Changes
<1>3. attr' \in Attr /\ Pairs(lines')
  <2>1. CASE new = NULL
    BY <1>1, <2>1 DEF Set, PairsInv
  <2>2. CASE new # NULL
    BY <1>1, <1>2, <2>2, NewAttributesType, NewLinesArePairs DEF Set
  <2>. QED
    BY <2>1, <2>2
<1>4. PICK th : th = [Idle EXCEPT !.answer = x]
  OBVIOUS
<1>5. IsThread(th) /\ th.answer = x
  BY <1>4, IdleIsThread DEF IsThread, Idle
<1>6. thread' = [thread EXCEPT ![t] = th]
  BY <1>1, <1>4 DEF Set
<1>. QED
  BY <1>3, <1>5, <1>6, PairsMove

\* and after any step.
LEMMA PairsStep == NamesStandAlone => (PairsInv /\ [Next]_vars => PairsInv')
<1>. SUFFICES ASSUME NamesStandAlone, PairsInv, [Next]_vars PROVE PairsInv'
  OBVIOUS
<1>1. CASE UNCHANGED vars
  <2>1. attr' = attr /\ lines' = lines /\ thread' = thread
    BY <1>1 DEF vars
  <2>. QED
    BY <2>1 DEF PairsInv
<1>2. ASSUME NEW t \in Threads,
             \/ memcached_getattr(t) \/ memcached_readlink(t) \/ memcached_listxattr(t)
             \/ \E n \in XNames : memcached_getxattr(t, n)
      PROVE  PairsInv'
  BY <1>2, PairsLook
     DEF memcached_getattr, memcached_readlink, memcached_listxattr, memcached_getxattr
<1>. QED
  BY <1>1, <1>2, PairsGetForChange, PairsSet DEF Next

\* The lines after st_blocks are those of a symlink's target and then pairs of the
\* name of an extended attribute and its value, no name twice, however many
\* threads set the text they read before: setxattr, removexattr and the others of
\* main.c never damage the text.
THEOREM LinesStayPairs ==
  ASSUME NamesStandAlone
  PROVE  Spec => []LinesArePairs
<1>1. PairsInv => LinesArePairs
  BY PairsAreThere DEF PairsInv, Pairs, LinesArePairs
<1>. QED
  BY <1>1, PairsInit, PairsStep, PTL DEF Spec

\* The text of a symlink begins with st_content and the target it was made with,
\* whatever any number of threads do to the extended attributes behind it, through
\* any names: what setxattr and removexattr splice never reaches those two lines.
THEOREM TargetStays ==
  ASSUME NamesStandAlone
  PROVE  Spec => []SymlinkKeepsTarget
<1>1. ASSUME NEW ls, Pairs(ls)
      PROVE  IsPrefix(Target, ls)
  <2>1. /\ ls \in Seq(Texts) /\ Target \in Seq(Texts) /\ Len(Target) <= Len(ls)
        /\ DOMAIN Target = 1..Len(Target) /\ \A k \in DOMAIN Target : ls[k] = Target[k]
    BY <1>1, TargetLen DEF Pairs
  <2>2. PICK a, b : a = SubSeq(Target, 1, Len(Target)) /\ b = SubSeq(ls, 1, Len(Target))
    OBVIOUS
  <2>3. /\ a \in Seq(Texts) /\ Len(a) = Len(Target)
        /\ \A k \in 1..Len(Target) : a[k] = Target[k]
    BY <2>1, <2>2, SubSeqProperties
  <2>4. /\ b \in Seq(Texts) /\ Len(b) = Len(Target)
        /\ \A k \in 1..Len(Target) : b[k] = ls[k]
    BY <2>1, <2>2, SubSeqProperties
  <2>5. a = b
    BY <2>1, <2>3, <2>4
  <2>. QED
    BY <2>1, <2>2, <2>5 DEF IsPrefix
<1>2. PairsInv => SymlinkKeepsTarget
  BY <1>1 DEF PairsInv, SymlinkKeepsTarget
<1>. QED
  BY <1>2, PairsInit, PairsStep, PTL DEF Spec

-----------------------------------------------------------------------------
(* One thread: the promise of AttrStore.                                   *)

(***************************************************************************)
(* One thread, and a file that is no symlink; no name or value is empty.   *)
(***************************************************************************)
OneCaller ==
  /\ NamesStandAlone /\ Target = <<>> /\ Empty \notin Texts
  /\ \A t, u \in Threads : t = u

\* What the thread read is what is stored.
StoreInv ==
  /\ PairsInv
  /\ \A t \in Threads :
       thread[t].pc = "set" => thread[t].attr = attr /\ thread[t].lines = lines

XattrsIn(ls) == [n \in NamesOf(ls) |-> ValueOf(ls, n)]

Assigned(x, n, v) == [m \in DOMAIN x \cup {n} |-> IF m = n THEN v ELSE x[m]]

AnswersIn(threads) == [t \in Threads |-> threads[t].answer]

Serves == [Store!Next]_(Store!vars)

\* Nobody stores between the get and the set of the only thread.
LEMMA StoreStep == OneCaller => (StoreInv /\ [Next]_vars => StoreInv')
<1>. SUFFICES ASSUME OneCaller, StoreInv, [Next]_vars PROVE StoreInv'
  OBVIOUS
<1>1. PairsInv'
  BY PairsStep DEF OneCaller, StoreInv
<1>2. CASE UNCHANGED vars
  BY <1>1, <1>2 DEF vars, StoreInv
<1>3. ASSUME NEW t \in Threads, NEW answer, Look(t, answer)
      PROVE  StoreInv'
  <2>1. \A u \in Threads : u = t
    BY DEF OneCaller
  <2>2. thread'[t].pc = "idle"
    BY <1>3 DEF Look, StoreInv, PairsInv, IsThread
  <2>. QED
    BY <1>1, <2>1, <2>2 DEF StoreInv
<1>4. ASSUME NEW t \in Threads, GetForChange(t)
      PROVE  StoreInv'
  <2>1. \A u \in Threads : u = t
    BY DEF OneCaller
  <2>2. thread'[t].attr = attr /\ thread'[t].lines = lines /\ UNCHANGED <<attr, lines>>
    BY ZenonT(60), <1>4 DEF GetForChange, StoreInv, PairsInv, IsThread
  <2>. QED
    BY <1>1, <2>1, <2>2 DEF StoreInv
<1>5. ASSUME NEW t \in Threads, Set(t)
      PROVE  StoreInv'
  <2>1. \A u \in Threads : u = t
    BY DEF OneCaller
  <2>2. thread'[t].pc = "idle"
    BY <1>5 DEF Set, Idle, StoreInv, PairsInv
  <2>. QED
    BY <1>1, <2>1, <2>2 DEF StoreInv
<1>. QED
  BY <1>2, <1>3, <1>4, <1>5 DEF Next, memcached_getattr, memcached_readlink,
     memcached_listxattr, memcached_getxattr

\* An extended attribute is found if the store has it.
LEMMA XattrIsFound ==
  ASSUME NamesStandAlone, NEW ls, Pairs(ls), NEW n \in XNames
  PROVE  get_attr_value_str(ls, n) =
           IF n \in DOMAIN XattrsIn(ls) THEN XattrsIn(ls)[n] ELSE NULL
<1>1. DOMAIN XattrsIn(ls) = NamesOf(ls)
  BY DEF XattrsIn
<1>2. CASE Hits(ls, n) = {}
  BY <1>1, <1>2, HitsOfName DEF get_attr_value_str
<1>3. CASE Hits(ls, n) # {}
  <2>1. PICK j \in Hits(ls, n) : TRUE
    BY <1>3
  <2>2. /\ j \in 1..Len(ls) /\ ls[j] = n /\ j % 2 = 1 /\ j < Len(ls)
        /\ FirstHit(ls, n) = j
    BY HitsOfName
  <2>3. get_attr_value_str(ls, n) = <<ls[j + 1]>>
    BY <1>3, <2>2, AttributesAssumption DEF get_attr_value_str
  <2>4. j \in DOMAIN ls
    BY <2>2 DEF Pairs
  <2>5. n \in NamesOf(ls) /\ ValueOf(ls, n) = <<ls[j + 1]>>
    BY <2>2, <2>4, ValueIsNext
  <2>6. XattrsIn(ls)[n] = ValueOf(ls, n)
    BY <2>5 DEF XattrsIn
  <2>. QED
    BY <1>1, <2>3, <2>5, <2>6
<1>. QED
  BY <1>2, <1>3

\* listxattr lists the names, without empty lines.
LEMMA NamesAreListed ==
  ASSUME NEW ls, Pairs(ls), Empty \notin Texts
  PROVE  get_extended_attrs_list(ls) = DOMAIN XattrsIn(ls)
<1>1. ls \in Seq(Texts) /\ Len(ls) \in Nat /\ DOMAIN ls = 1..Len(ls)
  BY DEF Pairs
<1>2. PICK tokens : tokens = {j \in DOMAIN ls : ls[j] # Empty}
  OBVIOUS
<1>3. tokens = 1..Len(ls)
  BY <1>1, <1>2
<1>4. ASSUME NEW j \in tokens
      PROVE  Cardinality({k \in tokens : k <= j}) = j
  <2>1. {k \in tokens : k <= j} = 1..j /\ j \in Nat /\ j >= 1
    BY <1>1, <1>3
  <2>2. Cardinality(1..j) = j
    <3>1. PICK a, b : a = 1 /\ b = j /\ a \in Int /\ b \in Int /\ ~ (a > b)
      BY <2>1
    <3>2. Cardinality(a..b) = b - a + 1
      BY <3>1, FS_Interval
    <3>. QED
      BY <2>1, <3>1, <3>2
  <2>. QED
    BY <2>1, <2>2
<1>5. {k \in tokens : Cardinality({i \in tokens : i <= k}) % 2 = 1} = {k \in tokens : k % 2 = 1}
  BY <1>4
<1>6. get_extended_attrs_list(ls) = {ls[j] : j \in {k \in tokens : k % 2 = 1}}
  BY <1>2, <1>5 DEF get_extended_attrs_list
<1>7. DOMAIN XattrsIn(ls) = {ls[j] : j \in {k \in DOMAIN ls : k % 2 = 1}}
  BY DEF XattrsIn, NamesOf
<1>. QED
  BY <1>1, <1>3, <1>6, <1>7

\* setxattr on the text is setxattr on the store.
LEMMA SetXattrInStore ==
  ASSUME NamesStandAlone, NEW ls, Pairs(ls), NEW n \in XNames, NEW v \in XValues
  PROVE  XattrsIn(memcached_setxattr(ls, n, v)) = Assigned(XattrsIn(ls), n, v)
<1>1. PICK new : new = memcached_setxattr(ls, n, v)
  OBVIOUS
<1>2. /\ NamesOf(new) = NamesOf(ls) \cup {n} /\ ValueOf(new, n) = v
      /\ \A m \in NamesOf(ls) : m # n => ValueOf(new, m) = ValueOf(ls, m)
  BY <1>1, SetXattr
<1>. QED
  BY <1>1, <1>2 DEF XattrsIn, Assigned

\* removexattr on the text is removexattr on the store.
LEMMA RemoveXattrInStore ==
  ASSUME NamesStandAlone, NEW ls, Pairs(ls), NEW n \in XNames
  PROVE  LET new == remove_extended_attr(ls, n)
         IN  XattrsIn(IF new = NULL THEN ls ELSE new) =
               [m \in DOMAIN XattrsIn(ls) \ {n} |-> XattrsIn(ls)[m]]
<1>1. PICK new : new = remove_extended_attr(ls, n)
  OBVIOUS
<1>2. CASE Hits(ls, n) = {}
  <2>1. new = NULL /\ n \notin NamesOf(ls)
    BY <1>1, <1>2, HitsOfName DEF remove_extended_attr
  <2>. QED
    BY <1>1, <2>1 DEF XattrsIn
<1>3. CASE Hits(ls, n) # {}
  <2>1. /\ Pairs(new) /\ NamesOf(new) = NamesOf(ls) \ {n}
        /\ \A m \in NamesOf(ls) : m # n => ValueOf(new, m) = ValueOf(ls, m)
    BY <1>1, <1>3, RemoveXattr
  <2>2. new # NULL
    BY <2>1, PairsAreThere
  <2>. QED
    BY <1>1, <2>1, <2>2 DEF XattrsIn
<1>. QED
  BY <1>2, <1>3

\* A look answers what the store holds.
LEMMA LookServes ==
  ASSUME OneCaller, StoreInv, NEW t \in Threads, NEW answer, Look(t, answer),
         \/ answer = [op |-> "getattr", found |-> attr]
         \/ answer = [op |-> "listxattr", found |-> get_extended_attrs_list(lines)]
         \/ \E n \in XNames :
              answer = [op |-> "getxattr", name |-> n, found |-> get_attr_value_str(lines, n)]
  PROVE  Serves
<1>1. PICK x : x = XattrsIn(lines)
  OBVIOUS
<1>2. UNCHANGED <<attr, lines>>
  BY DEF Look
<1>3. AnswersIn(thread') = [AnswersIn(thread) EXCEPT ![t] = answer]
  BY DEF Look, AnswersIn, StoreInv, PairsInv, IsThread
<1>4. ASSUME NEW n \in XNames
      PROVE  get_attr_value_str(lines, n) = IF n \in DOMAIN x THEN x[n] ELSE NULL
  BY <1>1, XattrIsFound DEF OneCaller, StoreInv, PairsInv
<1>5. get_extended_attrs_list(lines) = DOMAIN x
  BY <1>1, NamesAreListed DEF OneCaller, StoreInv, PairsInv
<1>6. Store!Look(t)
  BY ZenonT(60), <1>1, <1>2, <1>3, <1>4, <1>5 DEF Store!Look, XattrsIn, AnswersIn
<1>. QED
  BY <1>6 DEF Serves, Store!Next

\* The get of a handler is no step of the store.
LEMMA GetForChangeServes ==
  ASSUME StoreInv, NEW t \in Threads, GetForChange(t)
  PROVE  Serves
<1>1. UNCHANGED <<attr, lines>> /\ AnswersIn(thread') = AnswersIn(thread)
  BY DEF GetForChange, AnswersIn, StoreInv, PairsInv, IsThread
<1>. QED
  BY <1>1 DEF Serves, Store!vars, AnswersIn

\* The set of a handler changes just what the call names.
LEMMA SetServes ==
  ASSUME OneCaller, StoreInv, NEW t \in Threads, Set(t)
  PROVE  Serves
<1>1. PICK x, a, ls, new : /\ x = thread[t].call /\ a = attr /\ ls = lines
                           /\ new = NewLines(x, ls)
  OBVIOUS
<1>2. /\ x \in Store!Calls /\ a \in Attr /\ Pairs(ls)
      /\ thread[t].attr = a /\ thread[t].lines = ls
  BY <1>1 DEF Set, StoreInv, PairsInv, IsThread, Changes
<1>3. AnswersIn(thread') = [AnswersIn(thread) EXCEPT ![t] = x]
  BY <1>1 DEF Set, AnswersIn, Idle, StoreInv, PairsInv
<1>4. /\ new = NULL => attr' = a /\ lines' = ls
      /\ new # NULL => attr' = NewAttributes(x, a) /\ lines' = new
  BY <1>1, <1>2 DEF Set
<1>5. NamesStandAlone
  BY DEF OneCaller
<1>6. \/ /\ x.op \in {"chmod", "chown", "write", "link", "unlink"}
         /\ attr' = NewAttributes(x, a) /\ lines' = ls
      \/ x.op = "setxattr" /\ attr' = a /\ XattrsIn(lines') =
           Assigned(XattrsIn(ls), x.name, x.value)
      \/ x.op = "removexattr" /\ attr' = a /\ XattrsIn(lines') =
           [m \in DOMAIN XattrsIn(ls) \ {x.name} |-> XattrsIn(ls)[m]]
  <2>1. CASE x.op = "setxattr"
    <3>1. x.name \in XNames /\ x.value \in XValues
      BY <1>2, <2>1, CallKinds
    <3>2. new = memcached_setxattr(ls, x.name, x.value) /\ new # NULL
      BY <1>1, <1>2, <1>5, <2>1, NewLinesArePairs DEF NewLines
    <3>3. attr' = a /\ lines' = new
      BY <1>4, <2>1, <3>2 DEF NewAttributes
    <3>. QED
      BY <1>2, <1>5, <2>1, <3>1, <3>2, <3>3, SetXattrInStore
  <2>2. CASE x.op = "removexattr"
    <3>1. x.name \in XNames
      BY <1>2, <2>2, CallKinds
    <3>2. new = remove_extended_attr(ls, x.name)
      BY <1>1, <2>2 DEF NewLines
    <3>3. attr' = a /\ lines' = IF new = NULL THEN ls ELSE new
      BY <1>4, <2>2, <3>2 DEF NewAttributes
    <3>. QED
      BY <1>2, <1>5, <2>2, <3>1, <3>2, <3>3, RemoveXattrInStore
  <2>3. CASE x.op \in {"chmod", "chown", "write", "link", "unlink"}
    <3>1. new = ls /\ new # NULL
      BY <1>1, <1>2, <2>3, PairsAreThere DEF NewLines
    <3>. QED
      BY <1>4, <2>3, <3>1
  <2>. QED
    BY <1>2, <2>1, <2>2, <2>3, CallKinds
<1>7. \/ x.op = "chmod" /\ Store!chmod(x) /\ lines' = ls
      \/ x.op = "chown" /\ Store!chown(x) /\ lines' = ls
      \/ x.op = "write" /\ Store!write(x) /\ lines' = ls
      \/ x.op = "link" /\ Store!count(1) /\ lines' = ls
      \/ x.op = "unlink" /\ Store!count(-1) /\ lines' = ls
      \/ x.op = "setxattr" /\ Store!setxattr(x) /\ UNCHANGED attr
      \/ x.op = "removexattr" /\ Store!removexattr(x) /\ UNCHANGED attr
  <2>1. CASE x.op = "chmod"
    BY <1>1, <1>6, <2>1 DEF NewAttributes, Store!chmod
  <2>2. CASE x.op = "chown"
    BY <1>1, <1>2, <1>6, <2>2 DEF NewAttributes, Store!chown, Attr
  <2>3. CASE x.op = "write"
    BY <1>1, <1>6, <2>3 DEF NewAttributes, Store!write
  <2>4. CASE x.op = "link"
    BY <1>1, <1>6, <2>4 DEF NewAttributes, Store!count
  <2>5. CASE x.op = "unlink"
    BY <1>1, <1>2, <1>6, <2>5 DEF NewAttributes, Store!count, Attr
  <2>6. CASE x.op = "setxattr"
    BY <1>1, <1>6, <2>6 DEF Store!setxattr, XattrsIn, Assigned
  <2>7. CASE x.op = "removexattr"
    BY <1>1, <1>6, <2>7 DEF Store!removexattr, XattrsIn
  <2>. QED
    BY <1>2, <2>1, <2>2, <2>3, <2>4, <2>5, <2>6, <2>7, CallKinds
<1>8. Store!Change(t)
  BY ZenonT(60), <1>1, <1>2, <1>3, <1>7 DEF Store!Change, AnswersIn
<1>. QED
  BY <1>8 DEF Serves, Store!Next

\* One thread changes and looks at an inode: each call of main.c changes the
\* attributes and extended attributes that it names and no others, in one step,
\* and getattr, getxattr and listxattr find what the changes before them left.
THEOREM TextIsAttrStore ==
  ASSUME OneCaller
  PROVE  Spec => ImplementsAttrStore
<1>1. Init => StoreInv /\ Store!Init
  <2>. SUFFICES ASSUME Init PROVE StoreInv /\ Store!Init
    OBVIOUS
  <2>1. PairsInv
    BY PairsInit DEF OneCaller
  <2>2. \A t \in Threads : thread[t] = Idle
    BY DEF Init
  <2>3. Idle.pc = "idle" /\ Idle.answer = [op |-> "none"]
    BY DEF Idle
  <2>4. lines = <<>> /\ attr = NewAttr
    BY DEF Init, OneCaller
  <2>5. NamesOf(lines) = {}
    BY <2>4 DEF NamesOf
  <2>6. Store!Init
    BY <2>2, <2>3, <2>4, <2>5 DEF Store!Init
  <2>. QED
    BY <2>1, <2>2, <2>3, <2>6 DEF StoreInv
<1>2. StoreInv /\ [Next]_vars => [Store!Next]_(Store!vars)
  <2>. SUFFICES ASSUME StoreInv, [Next]_vars PROVE Serves
    BY DEF Serves
  <2>1. CASE UNCHANGED vars
    BY <2>1 DEF vars, Serves, Store!vars
  <2>2. ASSUME NEW t \in Threads, memcached_readlink(t)
        PROVE  FALSE
    BY <2>2 DEF memcached_readlink, OneCaller
  <2>3. ASSUME NEW t \in Threads,
               \/ memcached_getattr(t) \/ memcached_listxattr(t)
               \/ \E n \in XNames : memcached_getxattr(t, n)
        PROVE  Serves
    BY <2>3, LookServes DEF memcached_getattr, memcached_getxattr, memcached_listxattr
  <2>. QED
    BY <2>1, <2>2, <2>3, GetForChangeServes, SetServes DEF Next
<1>3. StoreInv /\ [Next]_vars => StoreInv'
  BY StoreStep
<1>. QED
  BY <1>1, <1>2, <1>3, PTL DEF Spec, ImplementsAttrStore, Store!Spec

=============================================================================
