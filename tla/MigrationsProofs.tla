---------------------------- MODULE MigrationsProofs ----------------------------
(***************************************************************************)
(* What is true of Migrations for every number of processes, customers and *)
(* crashes.                                                                *)
(***************************************************************************)
EXTENDS Migrations, SequenceTheorems, FiniteSetTheorems, TLAPS

-----------------------------------------------------------------------------
(* Where a step is: what is left of it and what the database is like then *)

Version(v) == [does |-> "version", of |-> v]
End(v) == <<Version(v), Do("commit")>>
NoLinks(d) == \A c \in Customers : d.link[c] = None

\* The baseline: the customers' table is carried over, made or left.
Stage1(s, d) ==
  \/ s = <<Do("look_at_keys"), Do("look_at_columns"), Version(1), Do("commit")>>
  \/ /\ s = <<Do("rename"), Do("create"), Do("copy"), Do("drop"),
              Do("look_at_columns"), Version(1), Do("commit")>>
     /\ d.keys = "legacy"
  \/ /\ s = <<Do("create"), Do("copy"), Do("drop"), Do("look_at_columns"), Version(1), Do("commit")>>
     /\ d.keys = "none" /\ NoLinks(d)
  \/ /\ s = <<Do("copy"), Do("drop"), Do("look_at_columns"), Version(1), Do("commit")>>
     /\ d.keys = "early" /\ NoLinks(d)
  \/ /\ s = <<Do("drop"), Do("look_at_columns"), Version(1), Do("commit")>>
     /\ d.keys = "early"
  \/ /\ s = <<Do("create"), Do("look_at_columns"), Version(1), Do("commit")>>
     /\ d.keys = "none"
  \/ /\ s = <<Do("look_at_columns"), Version(1), Do("commit")>>
     /\ d.keys \in {"early", "current"}
  \/ s = <<Do("add_columns"), Version(1), Do("commit")>> /\ d.keys = "early"
  \/ s = End(1) /\ d.keys = "current"

Stage2(s, d) ==
  \/ s = <<Do("objects"), Version(2), Do("commit")>>
  \/ s = End(2) /\ d.objects

\* The links that are still to be given, each once, to all who have none.
Linking(q, d) ==
  /\ q \in Seq(Statements)
  /\ \A i \in 1..Len(q) :
       \E c \in Customers : q[i] = Link(c) /\ d.link[c] = None
  /\ \A i, j \in 1..Len(q) : q[i] = q[j] => i = j
  /\ \A c \in d.rows : d.link[c] = None => \E i \in 1..Len(q) : q[i] = Link(c)

Stage3(s, d) ==
  \/ s = <<Do("look_at_links"), Version(3), Do("commit")>>
  \/ \E q : s = q \o End(3) /\ Linking(q, d)

Stage4(s, d) ==
  \/ s = <<Do("look_at_factor"), Version(4), Do("commit")>>
  \/ s = <<Do("add_factor"), Do("carry"), Version(4), Do("commit")>> /\ d.stored
  \/ s = <<Do("add_factor"), Version(4), Do("commit")>> /\ ~d.stored
  \/ s = <<Do("carry"), Version(4), Do("commit")>> /\ d.column
  \/ s = End(4) /\ Step(4, d)

\* The step that ends with counter v: what went before holds, and the second factor is
\* switched on only at its very end.
Progress(v, s, d) ==
  /\ v \in 1..Newest /\ \A u \in 1..(v - 1) : Step(u, d)
  /\ d.keys = "legacy" => NoLinks(d)
  /\ d.factor # "none" => v = 4 /\ s \in {End(4), <<Do("commit")>>, <<>>}
  /\ \/ s \in {<<Do("commit")>>, <<>>} /\ Step(v, d) /\ d.version = v
     \/ /\ d.version = v - 1
        /\ \/ v = 1 /\ Stage1(s, d)
           \/ v = 2 /\ Stage2(s, d)
           \/ v = 3 /\ Stage3(s, d)
           \/ v = 4 /\ Stage4(s, d)

\* What no step undoes.
Frame(d, e) ==
  /\ \A c \in Customers : d.link[c] # None => e.link[c] = d.link[c]
  /\ d.factor = "off" => e.factor = "off"

-----------------------------------------------------------------------------
(* The inductive invariant *)

\* Every "drop" follows a "copy", and a commit is the end.
Chain(s) ==
  /\ \A i \in 2..Len(s) : s[i].does = "drop" => s[i - 1].does = "copy"
  /\ s # <<>> => s[Len(s)].does = "commit"

\* Rows: keys_old goes only when its rows have been copied by the same transaction.
TodoOK(p) ==
  /\ Chain(todo[p])
  /\ todo[p] = <<>> => tx.by # p
  /\ todo[p] # <<>> /\ Head(todo[p]).does = "drop" =>
       tx.by = p /\ (tx.db.old # None => tx.db.old \subseteq tx.db.rows)

RowInv ==
  /\ \A p \in Procs : TodoOK(p)
  /\ tx.by # None => phase[tx.by] = "boot" /\ Kept(db) \subseteq Kept(tx.db)

\* One process at a time.
Solo ==
  /\ \A p, q \in Procs : phase[p] = "boot" /\ phase[q] = "boot" => p = q
  /\ VersionAgrees
  /\ db.keys = "legacy" => NoLinks(db)
  /\ db.factor # "none" => db.version = Newest
  /\ tx.by # None => Frame(db, tx.db)
  /\ \A p \in Procs : phase[p] = "boot" => Progress(at[p], todo[p], Sees(p))

SoloInv == ~hist.together => Solo

MigrationInv == TypeOK /\ RowInv /\ SoloInv

-----------------------------------------------------------------------------
(* Lists of statements *)

LEMMA StatementIs ==
  /\ \A what : Do(what).does = what /\ Do(what).of = None
  /\ \A c : Link(c).does = "link" /\ Link(c).of = c
  /\ \A v : Version(v).does = "version" /\ Version(v).of = v
BY DEF Do, Link, Version

LEMMA StatementType ==
  /\ \A what \in Looks \cup Plain : Do(what) \in Statements
  /\ \A c \in Customers : Link(c) \in Statements
  /\ \A v \in 0..Newest : Version(v) \in Statements
BY DEF Do, Link, Version, Statements

LEMMA Join ==
  ASSUME NEW S, NEW s \in Seq(S), NEW r \in Seq(S)
  PROVE  /\ s \o r \in Seq(S) /\ Len(s \o r) = Len(s) + Len(r)
         /\ Len(s) \in Nat /\ Len(r) \in Nat
         /\ \A i \in 1..Len(s) : (s \o r)[i] = s[i]
         /\ \A i \in 1..Len(r) : (s \o r)[Len(s) + i] = r[i]
<1>1. Len(s) \in Nat /\ Len(r) \in Nat
  BY LenProperties
<1>2. /\ s \o r \in Seq(S) /\ Len(s \o r) = Len(s) + Len(r)
      /\ \A i \in 1..(Len(s) + Len(r)) :
           (s \o r)[i] = IF i <= Len(s) THEN s[i] ELSE r[i - Len(s)]
  BY ConcatProperties
<1> DEFINE m == Len(s)
           n == Len(r)
           c == s \o r
<1>3. \A i \in 1..m : c[i] = s[i]
  BY <1>1, <1>2
<1>4. ASSUME NEW i \in 1..n PROVE c[m + i] = r[i]
  <2> HIDE DEF c, m, n
  <2>1. m + i \in 1..(m + n) /\ ~(m + i <= m) /\ m + i - m = i
    BY <1>1, <1>4 DEF m, n
  <2> QED BY <1>2, <2>1 DEF c, m, n
<1> QED BY <1>1, <1>2, <1>3, <1>4

\* Two lists that are one after the other.
LEMMA JoinIs ==
  ASSUME NEW S, NEW s \in Seq(S), NEW r \in Seq(S), NEW t \in Seq(S), Len(t) = Len(s) + Len(r),
         \A i \in 1..Len(s) : t[i] = s[i], \A i \in 1..Len(r) : t[Len(s) + i] = r[i]
  PROVE  s \o r = t
<1> DEFINE c == s \o r
           m == Len(s)
           n == Len(r)
<1>1. /\ c \in Seq(S) /\ Len(c) = m + n /\ m \in Nat /\ n \in Nat
      /\ \A i \in 1..m : c[i] = s[i]
      /\ \A i \in 1..n : c[m + i] = r[i]
  BY Join
<1>2. Len(t) = m + n /\ (\A i \in 1..m : t[i] = s[i]) /\ (\A i \in 1..n : t[m + i] = r[i])
  OBVIOUS
<1> HIDE DEF c, m, n
<1>3. ASSUME NEW i \in 1..(m + n) PROVE c[i] = t[i]
  <2>1. CASE i \in 1..m
    BY <1>1, <1>2, <2>1
  <2>2. CASE i \notin 1..m
    <3>1. i - m \in 1..n /\ m + (i - m) = i
      BY <1>1, <2>2
    <3> QED BY <1>1, <1>2, <3>1
  <2> QED BY <2>1, <2>2
<1>4. c = t
  BY <1>1, <1>2, <1>3, SeqEqual
<1> QED BY <1>4 DEF c

LEMMA Join11 ==
  ASSUME NEW a, NEW b
  PROVE  <<a>> \o <<b>> = <<a, b>>
<1> DEFINE S == {a, b}
           s == <<a>>
           r == <<b>>
           t == <<a, b>>
<1>1. a \in S /\ b \in S
  OBVIOUS
<1> HIDE DEF S
<1>2. s \in Seq(S) /\ Len(s) = 1 /\ r \in Seq(S) /\ Len(r) = 1 /\ t \in Seq(S) /\ Len(t) = 2
  BY <1>1
<1>3. s[1] = t[1] /\ r[1] = t[2]
  OBVIOUS
<1> HIDE DEF s, r, t
<1>4. ASSUME NEW i \in 1..Len(s) PROVE t[i] = s[i]
  <2>1. i = 1
    BY <1>2
  <2> QED BY <1>3, <2>1
<1>5. ASSUME NEW i \in 1..Len(r) PROVE t[Len(s) + i] = r[i]
  <2>1. (i = 1 /\ Len(s) + i = 2)
    BY <1>2
  <2> QED BY <1>3, <2>1
<1>6. Len(t) = Len(s) + Len(r)
  BY <1>2
<1>7. s \in Seq(S) /\ r \in Seq(S) /\ t \in Seq(S)
  BY <1>2
<1>8. s \o r = t
  BY <1>4, <1>5, <1>6, <1>7, JoinIs
<1> QED BY <1>8 DEF s, r, t

LEMMA Join12 ==
  ASSUME NEW a, NEW e, NEW f
  PROVE  <<a>> \o <<e, f>> = <<a, e, f>>
<1> DEFINE S == {a, e, f}
           s == <<a>>
           r == <<e, f>>
           t == <<a, e, f>>
<1>1. a \in S /\ e \in S /\ f \in S
  OBVIOUS
<1> HIDE DEF S
<1>2. s \in Seq(S) /\ Len(s) = 1 /\ r \in Seq(S) /\ Len(r) = 2 /\ t \in Seq(S) /\ Len(t) = 3
  BY <1>1
<1>3. s[1] = t[1] /\ r[1] = t[2] /\ r[2] = t[3]
  OBVIOUS
<1> HIDE DEF s, r, t
<1>4. ASSUME NEW i \in 1..Len(s) PROVE t[i] = s[i]
  <2>1. i = 1
    BY <1>2
  <2> QED BY <1>3, <2>1
<1>5. ASSUME NEW i \in 1..Len(r) PROVE t[Len(s) + i] = r[i]
  <2>1. (i = 1 /\ Len(s) + i = 2) \/ (i = 2 /\ Len(s) + i = 3)
    BY <1>2
  <2> QED BY <1>3, <2>1
<1>6. Len(t) = Len(s) + Len(r)
  BY <1>2
<1>7. s \in Seq(S) /\ r \in Seq(S) /\ t \in Seq(S)
  BY <1>2
<1>8. s \o r = t
  BY <1>4, <1>5, <1>6, <1>7, JoinIs
<1> QED BY <1>8 DEF s, r, t

LEMMA Join22 ==
  ASSUME NEW a, NEW b, NEW e, NEW f
  PROVE  <<a, b>> \o <<e, f>> = <<a, b, e, f>>
<1> DEFINE S == {a, b, e, f}
           s == <<a, b>>
           r == <<e, f>>
           t == <<a, b, e, f>>
<1>1. a \in S /\ b \in S /\ e \in S /\ f \in S
  OBVIOUS
<1> HIDE DEF S
<1>2. s \in Seq(S) /\ Len(s) = 2 /\ r \in Seq(S) /\ Len(r) = 2 /\ t \in Seq(S) /\ Len(t) = 4
  BY <1>1
<1>3. s[1] = t[1] /\ s[2] = t[2] /\ r[1] = t[3] /\ r[2] = t[4]
  OBVIOUS
<1> HIDE DEF s, r, t
<1>4. ASSUME NEW i \in 1..Len(s) PROVE t[i] = s[i]
  <2>1. i = 1 \/ i = 2
    BY <1>2
  <2> QED BY <1>3, <2>1
<1>5. ASSUME NEW i \in 1..Len(r) PROVE t[Len(s) + i] = r[i]
  <2>1. (i = 1 /\ Len(s) + i = 3) \/ (i = 2 /\ Len(s) + i = 4)
    BY <1>2
  <2> QED BY <1>3, <2>1
<1>6. Len(t) = Len(s) + Len(r)
  BY <1>2
<1>7. s \in Seq(S) /\ r \in Seq(S) /\ t \in Seq(S)
  BY <1>2
<1>8. s \o r = t
  BY <1>4, <1>5, <1>6, <1>7, JoinIs
<1> QED BY <1>8 DEF s, r, t

LEMMA Join13 ==
  ASSUME NEW a, NEW e, NEW f, NEW g
  PROVE  <<a>> \o <<e, f, g>> = <<a, e, f, g>>
<1> DEFINE S == {a, e, f, g}
           s == <<a>>
           r == <<e, f, g>>
           t == <<a, e, f, g>>
<1>1. a \in S /\ e \in S /\ f \in S /\ g \in S
  OBVIOUS
<1> HIDE DEF S
<1>2. s \in Seq(S) /\ Len(s) = 1 /\ r \in Seq(S) /\ Len(r) = 3 /\ t \in Seq(S) /\ Len(t) = 4
  BY <1>1
<1>3. s[1] = t[1] /\ r[1] = t[2] /\ r[2] = t[3] /\ r[3] = t[4]
  OBVIOUS
<1> HIDE DEF s, r, t
<1>4. ASSUME NEW i \in 1..Len(s) PROVE t[i] = s[i]
  <2>1. i = 1
    BY <1>2
  <2> QED BY <1>3, <2>1
<1>5. ASSUME NEW i \in 1..Len(r) PROVE t[Len(s) + i] = r[i]
  <2>1. (i = 1 /\ Len(s) + i = 2) \/ (i = 2 /\ Len(s) + i = 3) \/ (i = 3 /\ Len(s) + i = 4)
    BY <1>2
  <2> QED BY <1>3, <2>1
<1>6. Len(t) = Len(s) + Len(r)
  BY <1>2
<1>7. s \in Seq(S) /\ r \in Seq(S) /\ t \in Seq(S)
  BY <1>2
<1>8. s \o r = t
  BY <1>4, <1>5, <1>6, <1>7, JoinIs
<1> QED BY <1>8 DEF s, r, t

LEMMA Join43 ==
  ASSUME NEW a, NEW b, NEW c, NEW d, NEW e, NEW f, NEW g
  PROVE  <<a, b, c, d>> \o <<e, f, g>> = <<a, b, c, d, e, f, g>>
<1> DEFINE S == {a, b, c, d, e, f, g}
           s == <<a, b, c, d>>
           r == <<e, f, g>>
           t == <<a, b, c, d, e, f, g>>
<1>1. a \in S /\ b \in S /\ c \in S /\ d \in S /\ e \in S /\ f \in S /\ g \in S
  OBVIOUS
<1> HIDE DEF S
<1>2. s \in Seq(S) /\ Len(s) = 4 /\ r \in Seq(S) /\ Len(r) = 3 /\ t \in Seq(S) /\ Len(t) = 7
  BY <1>1
<1>3. s[1] = t[1] /\ s[2] = t[2] /\ s[3] = t[3] /\ s[4] = t[4] /\ r[1] = t[5] /\ r[2] = t[6] /\ r[3] = t[7]
  OBVIOUS
<1> HIDE DEF s, r, t
<1>4. ASSUME NEW i \in 1..Len(s) PROVE t[i] = s[i]
  <2>1. i = 1 \/ i = 2 \/ i = 3 \/ i = 4
    BY <1>2
  <2> QED BY <1>3, <2>1
<1>5. ASSUME NEW i \in 1..Len(r) PROVE t[Len(s) + i] = r[i]
  <2>1. (i = 1 /\ Len(s) + i = 5) \/ (i = 2 /\ Len(s) + i = 6) \/ (i = 3 /\ Len(s) + i = 7)
    BY <1>2
  <2> QED BY <1>3, <2>1
<1>6. Len(t) = Len(s) + Len(r)
  BY <1>2
<1>7. s \in Seq(S) /\ r \in Seq(S) /\ t \in Seq(S)
  BY <1>2
<1>8. s \o r = t
  BY <1>4, <1>5, <1>6, <1>7, JoinIs
<1> QED BY <1>8 DEF s, r, t

LEMMA JoinNone ==
  ASSUME NEW S, NEW s \in Seq(S)
  PROVE  <<>> \o s = s /\ s \o <<>> = s
BY ConcatEmptySeq

-----------------------------------------------------------------------------
(* The programs of the steps *)

LEMMA MigrationIs ==
  /\ Migration(1) = <<Do("look_at_keys"), Do("look_at_columns"), Version(1), Do("commit")>>
  /\ Migration(2) = <<Do("objects"), Version(2), Do("commit")>>
  /\ Migration(3) = <<Do("look_at_links"), Version(3), Do("commit")>>
  /\ Migration(4) = <<Do("look_at_factor"), Version(4), Do("commit")>>
<1>1. /\ Migration(1) = <<Do("look_at_keys"), Do("look_at_columns")>> \o <<Version(1), Do("commit")>>
      /\ Migration(2) = <<Do("objects")>> \o <<Version(2), Do("commit")>>
      /\ Migration(3) = <<Do("look_at_links")>> \o <<Version(3), Do("commit")>>
      /\ Migration(4) = <<Do("look_at_factor")>> \o <<Version(4), Do("commit")>>
  BY DEF Migration, Numbered, Version, Objects
<1> QED BY <1>1, Join22, Join12

LEMMA MigrationType ==
  ASSUME NEW v \in 1..Newest
  PROVE  /\ Migration(v) \in Seq(Statements) /\ Migration(v) # <<>> /\ Chain(Migration(v))
         /\ Head(Migration(v)).does # "drop"
<1>1. v = 1 \/ v = 2 \/ v = 3 \/ v = 4
  BY DEF Newest
<1>2. \A u \in 1..4 : Version(u) \in Statements
  BY StatementType DEF Newest
<1> DEFINE l == Do("look_at_keys")
           m == Do("look_at_columns")
           o == Do("objects")
           k == Do("look_at_links")
           f == Do("look_at_factor")
           c == Do("commit")
<1>3. l \in Statements /\ m \in Statements /\ o \in Statements /\ k \in Statements /\ f \in Statements /\ c \in Statements
  BY StatementType DEF Looks, Plain
<1>4. l.does # "drop" /\ m.does # "drop" /\ o.does # "drop" /\ k.does # "drop" /\ f.does # "drop" /\ c.does = "commit"
      /\ \A u : Version(u).does = "version"
  BY StatementIs
<1> HIDE DEF l, m, o, k, f, c
<1>5. CASE v = 1
  <2>1. Migration(v) = <<l, m, Version(1), c>>
    BY <1>5, MigrationIs DEF l, m, c
  <2> DEFINE s == <<l, m, Version(1), c>>
  <2>2. s \in Seq(Statements) /\ s # <<>> /\ Len(s) = 4 /\ Head(s) = l
    BY <1>2, <1>3
  <2>3. s[2].does # "drop" /\ s[3].does # "drop" /\ s[4].does = "commit"
    BY <1>4
  <2> HIDE DEF s
  <2>4. \A i \in 2..Len(s) : i = 2 \/ i = 3 \/ i = 4
    BY <2>2
  <2>5. Chain(s)
    BY <2>2, <2>3, <2>4 DEF Chain
  <2> QED BY <1>4, <2>1, <2>2, <2>5 DEF s
<1>6. ASSUME NEW a \in Statements, a.does # "drop", Migration(v) = <<a, Version(v), c>>
      PROVE  /\ Migration(v) \in Seq(Statements) /\ Migration(v) # <<>> /\ Chain(Migration(v))
             /\ Head(Migration(v)).does # "drop"
  <2> DEFINE s == <<a, Version(v), c>>
  <2>1. Version(v) \in Statements
    BY StatementType DEF Newest
  <2>2. s \in Seq(Statements) /\ s # <<>> /\ Len(s) = 3 /\ Head(s) = a
    BY <1>3, <2>1
  <2>3. s[2].does # "drop" /\ s[3].does = "commit"
    BY <1>4
  <2> HIDE DEF s
  <2>4. \A i \in 2..Len(s) : i = 2 \/ i = 3
    BY <2>2
  <2>5. Chain(s)
    BY <2>2, <2>3, <2>4 DEF Chain
  <2> QED BY <1>6, <2>2, <2>5 DEF s
<1>7. CASE v = 2
  BY <1>3, <1>4, <1>6, <1>7, MigrationIs DEF o, c
<1>8. CASE v = 3
  BY <1>3, <1>4, <1>6, <1>8, MigrationIs DEF k, c
<1>9. CASE v = 4
  BY <1>3, <1>4, <1>6, <1>9, MigrationIs DEF f, c
<1> QED BY <1>1, <1>5, <1>7, <1>8, <1>9

\* The customers who have no link, each once.
LEMMA LinksAre ==
  ASSUME NEW d \in Databases
  PROVE  LET q == Found("look_at_links", d) IN
         /\ q \in Seq(Statements) /\ Linking(q, d)
         /\ \A i \in 1..Len(q) : q[i].does = "link"
<1> DEFINE U == Unlinked(d)
           n == Cardinality(U)
           f == SetToSeq(U)
           q == [i \in 1..n |-> Link(f[i])]
<1>1. U \subseteq Customers /\ d.rows \subseteq Customers
  BY DEF Unlinked, Databases
<1>2. IsFiniteSet(U) /\ n \in Nat
  BY <1>1, ConstantsAssumption, FS_Subset, FS_CardinalityType
<1>3. f \in [1..n -> U] /\ IsInjective(f)
  <2>1. \E g \in [1..n -> U] : IsInjective(g)
    BY <1>2, FS_CardinalityType DEF ExistsBijection, Bijection, Injection, IsInjective
  <2> QED BY <2>1 DEF SetToSeq
<1>4. \A c \in U : \E i \in 1..n : f[i] = c
  <2>1. f \in Injection(1..n, U)
    BY <1>3 DEF Injection
  <2>2. IsFiniteSet(1..n) /\ Cardinality(1..n) = n
    <3>1. IsFiniteSet(1..n) /\ Cardinality(1..n) = IF 1 > n THEN 0 ELSE n - 1 + 1
      BY <1>2, FS_Interval
    <3> QED BY <1>2, <3>1
  <2>3. f \in Surjection(1..n, U)
    BY <1>2, <2>1, <2>2, FS_Injection
  <2> QED BY <2>3 DEF Surjection
<1>5. Found("look_at_links", d) = q
  BY DEF Found
<1>6. \A i \in 1..n : f[i] \in Customers /\ d.link[f[i]] = None
  BY <1>1, <1>3 DEF Unlinked
<1>7. \A i, j \in 1..n : f[i] = f[j] => i = j
  BY <1>3 DEF IsInjective
<1>8. \A c \in d.rows : d.link[c] = None => \E i \in 1..n : f[i] = c
  BY <1>4 DEF Unlinked
<1> HIDE DEF n, f
<1>9. q \in Seq(Statements) /\ Len(q) = n /\ \A i \in 1..n : q[i] = Link(f[i])
  <2>1. \A i \in 1..n : Link(f[i]) \in Statements
    BY <1>6, StatementType
  <2> QED BY <1>2, <2>1
<1> HIDE DEF q, U
<1>10. \A i, j \in 1..n : q[i] = q[j] => i = j
  BY <1>7, <1>9, StatementIs
<1>11. Linking(q, d)
  BY <1>6, <1>8, <1>9, <1>10 DEF Linking
<1> QED BY <1>5, <1>9, <1>11, StatementIs

\* What a look leads to.
LEMMA FoundIs ==
  ASSUME NEW d \in Databases
  PROVE  /\ d.keys = "legacy" => Found("look_at_keys", d) = <<Do("rename"), Do("create"), Do("copy"), Do("drop")>>
         /\ d.keys = "none" => Found("look_at_keys", d) = <<Do("create")>>
         /\ d.keys \notin {"legacy", "none"} => Found("look_at_keys", d) = <<>>
         /\ d.keys = "early" => Found("look_at_columns", d) = <<Do("add_columns")>>
         /\ d.keys # "early" => Found("look_at_columns", d) = <<>>
         /\ ~d.column /\ d.stored => Found("look_at_factor", d) = <<Do("add_factor"), Do("carry")>>
         /\ ~d.column /\ ~d.stored => Found("look_at_factor", d) = <<Do("add_factor")>>
         /\ d.column /\ d.stored => Found("look_at_factor", d) = <<Do("carry")>>
         /\ d.column /\ ~d.stored => Found("look_at_factor", d) = <<>>
<1>1. /\ d.keys = "legacy" => Found("look_at_keys", d) = <<Do("rename"), Do("create"), Do("copy"), Do("drop")>>
      /\ d.keys = "none" => Found("look_at_keys", d) = <<Do("create")>>
      /\ d.keys \notin {"legacy", "none"} => Found("look_at_keys", d) = <<>>
      /\ d.keys = "early" => Found("look_at_columns", d) = <<Do("add_columns")>>
      /\ d.keys # "early" => Found("look_at_columns", d) = <<>>
  BY DEF Found, When, Carried, Missing
<1> DEFINE a == Do("add_factor")
           b == Do("carry")
<1>2. Found("look_at_factor", d) = When(~d.column, <<a>>) \o When(d.stored, <<b>>)
  BY DEF Found
<1> HIDE DEF a, b
<1>3. /\ <<a>> \o <<b>> = <<a, b>> /\ <<a>> \o <<>> = <<a>>
      /\ <<>> \o <<b>> = <<b>> /\ <<>> \o <<>> = <<>>
  <2>1. <<a>> \in Seq({a, b}) /\ <<b>> \in Seq({a, b}) /\ <<>> \in Seq({a, b})
    OBVIOUS
  <2>2. <<a>> \o <<>> = <<a>> /\ <<>> \o <<b>> = <<b>> /\ <<>> \o <<>> = <<>>
    BY <2>1, JoinNone
  <2> QED BY <2>2, Join11
<1>4. CASE ~d.column /\ d.stored
  <2>1. When(~d.column, <<a>>) = <<a>> /\ When(d.stored, <<b>>) = <<b>>
    BY <1>4 DEF When
  <2>2. Found("look_at_factor", d) = <<a>> \o <<b>>
    BY Zenon, <1>2, <2>1
  <2>3. Found("look_at_factor", d) = <<a, b>>
    BY <1>3, <2>2
  <2> QED BY Zenon, <1>1, <1>4, <2>3 DEF a, b
<1>5. CASE ~d.column /\ ~d.stored
  <2>1. When(~d.column, <<a>>) = <<a>> /\ When(d.stored, <<b>>) = <<>>
    BY <1>5 DEF When
  <2>2. Found("look_at_factor", d) = <<a>> \o <<>>
    BY Zenon, <1>2, <2>1
  <2>3. Found("look_at_factor", d) = <<a>>
    BY <1>3, <2>2
  <2> QED BY Zenon, <1>1, <1>5, <2>3 DEF a, b
<1>6. CASE d.column /\ d.stored
  <2>1. When(~d.column, <<a>>) = <<>> /\ When(d.stored, <<b>>) = <<b>>
    BY <1>6 DEF When
  <2>2. Found("look_at_factor", d) = <<>> \o <<b>>
    BY Zenon, <1>2, <2>1
  <2>3. Found("look_at_factor", d) = <<b>>
    BY <1>3, <2>2
  <2> QED BY Zenon, <1>1, <1>6, <2>3 DEF a, b
<1>7. CASE d.column /\ ~d.stored
  <2>1. When(~d.column, <<a>>) = <<>> /\ When(d.stored, <<b>>) = <<>>
    BY <1>7 DEF When
  <2>2. Found("look_at_factor", d) = <<>> \o <<>>
    BY Zenon, <1>2, <2>1
  <2>3. Found("look_at_factor", d) = <<>>
    BY <1>3, <2>2
  <2> QED BY Zenon, <1>1, <1>7, <2>3 DEF a, b
<1> QED BY <1>1, <1>4, <1>5, <1>6, <1>7 DEF a, b

-----------------------------------------------------------------------------
(* What is left of a step *)

LEMMA TailIs ==
  ASSUME NEW S, NEW s \in Seq(S), s # <<>>
  PROVE  /\ Len(s) \in Nat \ {0} /\ Head(s) = s[1] /\ Head(s) \in S
         /\ Tail(s) \in Seq(S) /\ Len(Tail(s)) = Len(s) - 1
         /\ \A i \in 1..(Len(s) - 1) : Tail(s)[i] = s[i + 1]
BY HeadTailProperties, LenProperties

\* An order in which a "drop" comes only after a "copy" is kept by its tail.
LEMMA TailKeeps ==
  ASSUME NEW s \in Seq(Statements), s # <<>>, Chain(s)
  PROVE  /\ Chain(Tail(s))
         /\ Tail(s) # <<>> /\ Head(Tail(s)).does = "drop" => Head(s).does = "copy"
         /\ Tail(s) = <<>> => Head(s).does = "commit"
<1> DEFINE n == Len(s)
           t == Tail(s)
<1>1. /\ n \in Nat \ {0} /\ Head(s) = s[1] /\ t \in Seq(Statements) /\ Len(t) = n - 1
      /\ \A i \in 1..(n - 1) : t[i] = s[i + 1]
  BY TailIs
<1>2. t # <<>> => Len(t) # 0 /\ Head(t) = t[1]
  BY <1>1, TailIs
<1>3. t = <<>> => n = 1
  <2> SUFFICES ASSUME t = <<>> PROVE n = 1
    OBVIOUS
  <2> HIDE DEF t, n
  <2>1. Len(t) = 0
    OBVIOUS
  <2> QED BY <1>1, <2>1
<1>4. (\A i \in 2..n : s[i].does = "drop" => s[i - 1].does = "copy") /\ s[n].does = "commit"
  BY DEF Chain
<1>5. \A i \in 2..Len(t) : t[i].does = "drop" => t[i - 1].does = "copy"
  <2> HIDE DEF t, n
  <2> SUFFICES ASSUME NEW i \in 2..Len(t), t[i].does = "drop" PROVE t[i - 1].does = "copy"
    OBVIOUS
  <2>1. i \in 1..(n - 1) /\ i - 1 \in 1..(n - 1) /\ i + 1 \in 2..n /\ (i + 1) - 1 = i /\ (i - 1) + 1 = i
    BY <1>1
  <2>2. t[i] = s[i + 1] /\ t[i - 1] = s[i]
    BY <1>1, <2>1
  <2>3. s[i + 1].does = "drop" => s[(i + 1) - 1].does = "copy"
    BY <1>4, <2>1
  <2> QED BY <2>1, <2>2, <2>3
<1>6. t # <<>> => t[Len(t)].does = "commit"
  <2> HIDE DEF t, n
  <2> SUFFICES ASSUME t # <<>> PROVE t[Len(t)].does = "commit"
    OBVIOUS
  <2>1. n - 1 \in 1..(n - 1) /\ (n - 1) + 1 = n
    BY <1>1, <1>2
  <2> QED BY <1>1, <1>4, <2>1
<1>7. t # <<>> /\ Head(t).does = "drop" => s[1].does = "copy"
  <2> HIDE DEF t, n
  <2> SUFFICES ASSUME t # <<>>, t[1].does = "drop" PROVE s[1].does = "copy"
    BY <1>2
  <2>1. 1 \in 1..(n - 1) /\ 1 + 1 = 2 /\ 2 \in 2..n /\ 2 - 1 = 1
    BY <1>1, <1>2
  <2>2. t[1] = s[2]
    BY <1>1, <2>1
  <2> QED BY <1>4, <2>1, <2>2
<1> QED BY <1>1, <1>3, <1>4, <1>5, <1>6, <1>7 DEF Chain

\* What a look leads to begins with no "drop" and has one only after a "copy".
LEMMA FoundOrder ==
  ASSUME NEW d \in Databases, NEW look \in Looks
  PROVE  LET q == Found(look, d) IN
         /\ q \in Seq(Statements)
         /\ \A i \in 2..Len(q) : q[i].does = "drop" => q[i - 1].does = "copy"
         /\ Len(q) > 0 => q[1].does # "drop"
<1> DEFINE Good(q) == /\ q \in Seq(Statements)
                      /\ \A i \in 2..Len(q) : q[i].does = "drop" => q[i - 1].does = "copy"
                      /\ Len(q) > 0 => q[1].does # "drop"
<1>1. look = "look_at_links" => Good(Found(look, d))
  <2> SUFFICES ASSUME look = "look_at_links" PROVE Good(Found(look, d))
    OBVIOUS
  <2> DEFINE q == Found("look_at_links", d)
  <2>1. q \in Seq(Statements) /\ \A i \in 1..Len(q) : q[i].does = "link"
    BY LinksAre
  <2> HIDE DEF q
  <2>2. Len(q) \in Nat
    BY <2>1, LenProperties
  <2>3. \A i \in 2..Len(q) : i \in 1..Len(q)
    BY <2>2
  <2>4. Len(q) > 0 => 1 \in 1..Len(q)
    BY <2>2
  <2>5. Good(q)
    BY <2>1, <2>3, <2>4
  <2> QED BY <2>5 DEF q
<1>2. Good(<<>>)
  OBVIOUS
<1>3. ASSUME NEW a \in Statements, a.does # "drop" PROVE Good(<<a>>)
  BY <1>3
<1>4. ASSUME NEW a \in Statements, a.does # "drop", NEW b \in Statements, b.does # "drop"
      PROVE Good(<<a, b>>)
  <2> DEFINE q == <<a, b>>
  <2>1. q \in Seq(Statements) /\ Len(q) = 2 /\ q[1] = a /\ q[2] = b
    OBVIOUS
  <2> HIDE DEF q
  <2>2. \A i \in 2..Len(q) : i = 2
    BY <2>1
  <2>3. Good(q)
    BY <1>4, <2>1, <2>2
  <2> QED BY <2>3 DEF q
<1>5. Good(<<Do("rename"), Do("create"), Do("copy"), Do("drop")>>)
  <2> DEFINE a == Do("rename")
             b == Do("create")
             e == Do("copy")
             f == Do("drop")
             q == <<a, b, e, f>>
  <2>1. a \in Statements /\ b \in Statements /\ e \in Statements /\ f \in Statements
    BY StatementType DEF Plain
  <2>2. a.does # "drop" /\ b.does # "drop" /\ e.does = "copy"
    BY StatementIs
  <2> HIDE DEF a, b, e, f
  <2>3. q \in Seq(Statements) /\ Len(q) = 4 /\ q[1] = a /\ q[2] = b /\ q[3] = e /\ q[4] = f
    BY <2>1
  <2> HIDE DEF q
  <2>4. \A i \in 2..Len(q) : i = 2 \/ i = 3 \/ (i = 4 /\ i - 1 = 3)
    BY <2>3
  <2>5. e.does # "drop"
    BY <2>2
  <2>6. Good(q)
    BY <2>2, <2>3, <2>4, <2>5
  <2> QED BY <2>6 DEF q, a, b, e, f
<1>6. /\ Do("create") \in Statements /\ Do("create").does # "drop"
      /\ Do("add_columns") \in Statements /\ Do("add_columns").does # "drop"
      /\ Do("add_factor") \in Statements /\ Do("add_factor").does # "drop"
      /\ Do("carry") \in Statements /\ Do("carry").does # "drop"
  BY StatementType, StatementIs DEF Plain
<1> HIDE DEF Good
<1>7. Good(<<Do("create")>>) /\ Good(<<Do("add_columns")>>) /\ Good(<<Do("add_factor")>>) /\ Good(<<Do("carry")>>)
  BY <1>3, <1>6
<1>8. Good(<<Do("add_factor"), Do("carry")>>)
  BY <1>4, <1>6
<1>9. look = "look_at_keys" => Good(Found(look, d))
  <2>1. CASE d.keys = "legacy"
    BY <1>5, <2>1, FoundIs
  <2>2. CASE d.keys = "none"
    BY <1>7, <2>2, FoundIs
  <2>3. CASE d.keys \notin {"legacy", "none"}
    BY <1>2, <2>3, FoundIs
  <2> QED BY <2>1, <2>2, <2>3
<1>10. look = "look_at_columns" => Good(Found(look, d))
  <2>1. CASE d.keys = "early"
    BY <1>7, <2>1, FoundIs
  <2>2. CASE d.keys # "early"
    BY <1>2, <2>2, FoundIs
  <2> QED BY <2>1, <2>2
<1>11. look = "look_at_factor" => Good(Found(look, d))
  <2>1. CASE ~d.column /\ d.stored
    BY <1>8, <2>1, FoundIs
  <2>2. CASE ~d.column /\ ~d.stored
    BY <1>7, <2>2, FoundIs
  <2>3. CASE d.column /\ d.stored
    BY <1>7, <2>3, FoundIs
  <2>4. CASE d.column /\ ~d.stored
    BY <1>2, <2>4, FoundIs
  <2> QED BY <2>1, <2>2, <2>3, <2>4
<1>12. Good(Found(look, d))
  BY <1>1, <1>9, <1>10, <1>11 DEF Looks
<1> QED BY <1>12 DEF Good

\* A look is replaced by what it leads to.
LEMMA JoinKeeps ==
  ASSUME NEW s \in Seq(Statements), s # <<>>, Chain(s), Head(s).does \in Looks, NEW d \in Databases
  PROVE  LET t == Found(Head(s).does, d) \o Tail(s) IN
         t \in Seq(Statements) /\ Chain(t) /\ t # <<>> /\ Head(t).does # "drop"
<1> DEFINE q == Found(Head(s).does, d)
           r == Tail(s)
           t == q \o r
           m == Len(q)
           n == Len(r)
<1>1. /\ q \in Seq(Statements)
      /\ \A i \in 2..m : q[i].does = "drop" => q[i - 1].does = "copy"
      /\ m > 0 => q[1].does # "drop"
  BY FoundOrder
<1>2. /\ Chain(r)
      /\ r # <<>> /\ Head(r).does = "drop" => Head(s).does = "copy"
      /\ r = <<>> => Head(s).does = "commit"
  BY TailKeeps
<1>3. r # <<>> /\ Head(r).does # "drop"
  BY <1>2 DEF Looks
<1>4. r \in Seq(Statements)
  BY TailIs
<1>5. /\ t \in Seq(Statements) /\ Len(t) = m + n /\ m \in Nat /\ n \in Nat
      /\ \A i \in 1..m : t[i] = q[i]
      /\ \A i \in 1..n : t[m + i] = r[i]
  BY <1>1, <1>4, Join
<1>6. n \in Nat \ {0} /\ Head(r) = r[1]
  BY <1>3, <1>4, TailIs
<1>7. (\A i \in 2..n : r[i].does = "drop" => r[i - 1].does = "copy") /\ r[n].does = "commit"
  BY <1>2, <1>3 DEF Chain
<1> HIDE DEF t, q, r, m, n
<1>8. t # <<>> /\ Head(t) = t[1] /\ Len(t) # 0
  <2>1. Len(t) # 0
    BY <1>5, <1>6
  <2>2. t # <<>>
    BY <2>1
  <2> QED BY <1>5, <2>1, <2>2, TailIs
<1>9. \A i \in 2..Len(t) : t[i].does = "drop" => t[i - 1].does = "copy"
  <2> SUFFICES ASSUME NEW i \in 2..Len(t), t[i].does = "drop" PROVE t[i - 1].does = "copy"
    OBVIOUS
  <2>1. CASE i <= m
    <3>1. i \in 1..m /\ i - 1 \in 1..m /\ i \in 2..m
      BY <1>5, <2>1
    <3> QED BY <1>1, <1>5, <3>1
  <2>2. CASE i = m + 1
    <3>1. 1 \in 1..n
      BY <1>6
    <3>2. t[i] = r[1]
      BY <1>5, <2>2, <3>1
    <3> QED BY <1>3, <1>6, <3>2
  <2>3. CASE i > m + 1
    <3> DEFINE j == i - m
    <3>1. j \in 2..n /\ j \in 1..n /\ j - 1 \in 1..n /\ m + j = i /\ m + (j - 1) = i - 1
      BY <1>5, <2>3
    <3> HIDE DEF j
    <3>2. t[m + j] = r[j] /\ t[m + (j - 1)] = r[j - 1]
      BY <1>5, <3>1
    <3> QED BY <1>7, <3>1, <3>2
  <2> QED BY <1>5, <2>1, <2>2, <2>3
<1>10. t[Len(t)].does = "commit"
  <2>1. n \in 1..n
    BY <1>6
  <2> QED BY <1>5, <1>7, <2>1
<1>11. t[1].does # "drop"
  <2>1. CASE m > 0
    <3>1. 1 \in 1..m
      BY <1>5, <2>1
    <3> QED BY <1>1, <1>5, <2>1, <3>1
  <2>2. CASE m = 0
    <3>1. 1 \in 1..n /\ m + 1 = 1
      BY <1>6, <2>2
    <3> QED BY <1>3, <1>5, <1>6, <3>1
  <2> QED BY <1>5, <2>1, <2>2
<1>12. Chain(t)
  BY <1>9, <1>10 DEF Chain
<1> QED BY <1>5, <1>8, <1>11, <1>12 DEF t, q, r

-----------------------------------------------------------------------------
(* What a statement does to the database *)

LEMMA HeadKinds ==
  ASSUME NEW s \in Statements, s.does \notin Looks \cup {"commit"}
  PROVE  \/ s.does \in {"rename", "create", "copy", "drop", "add_columns", "objects", "add_factor", "carry"}
         \/ s.does = "link" /\ s.of \in Customers
         \/ s.does = "version" /\ s.of \in 0..Newest
BY DEF Statements, Plain

\* keys_old is not there, or holds customers.
LEMMA OldType ==
  ASSUME NEW d \in Databases
  PROVE  /\ d.rows \subseteq Customers /\ d.rows # None
         /\ d.old # None => d.old \subseteq Customers
BY ConstantsAssumption DEF Databases

LEMMA AfterType ==
  ASSUME NEW s \in Statements, s.does \notin Looks \cup {"commit"}, NEW d \in Databases,
         NEW p \in Procs, Legal(s, d)
  PROVE  After(s, d, p) \in Databases
<1>1. CASE s.does = "rename"
  <2>1. After(s, d, p) = [d EXCEPT !.keys = "none", !.rows = {}, !.old = d.rows]
    BY <1>1 DEF After
  <2> QED BY <2>1, OldType DEF Databases
<1>2. CASE s.does = "create"
  <2>1. After(s, d, p) \in {d, [d EXCEPT !.keys = "early"]}
    BY <1>2 DEF After
  <2> QED BY <2>1 DEF Databases
<1>3. CASE s.does = "copy"
  <2> DEFINE rr == d.rows \cup d.old
             ll == [c \in Customers |-> IF c \in d.old THEN None ELSE d.link[c]]
  <2>1. After(s, d, p) = [d EXCEPT !.rows = rr, !.link = ll]
    BY <1>3 DEF After
  <2>2. d.old \subseteq Customers
    BY <1>3, OldType DEF Legal
  <2>3. ll \in [Customers -> Procs \cup {None}]
    BY DEF Databases
  <2>4. rr \in SUBSET Customers
    BY <2>2, OldType
  <2> HIDE DEF rr, ll
  <2> QED BY <2>1, <2>3, <2>4 DEF Databases
<1>4. CASE s.does = "drop"
  <2>1. After(s, d, p) = [d EXCEPT !.old = None]
    BY <1>4 DEF After
  <2> QED BY <2>1 DEF Databases
<1>5. CASE s.does = "add_columns"
  <2>1. After(s, d, p) = [d EXCEPT !.keys = "current"]
    BY <1>5 DEF After
  <2> QED BY <2>1 DEF Databases
<1>6. CASE s.does = "objects"
  <2>1. After(s, d, p) = [d EXCEPT !.objects = TRUE]
    BY <1>6 DEF After
  <2> QED BY <2>1 DEF Databases
<1>7. CASE s.does = "add_factor"
  <2>1. After(s, d, p) = [d EXCEPT !.column = TRUE]
    BY <1>7 DEF After
  <2> QED BY <2>1 DEF Databases
<1>8. CASE s.does = "carry"
  <2>1. After(s, d, p) = [d EXCEPT !.factor = "on"]
    BY <1>8 DEF After
  <2> QED BY <2>1 DEF Databases
<1>9. CASE s.does = "link" /\ s.of \in Customers
  <2>1. After(s, d, p) \in {d, [d EXCEPT !.link[s.of] = p]}
    BY <1>9 DEF After
  <2> QED BY <2>1 DEF Databases
<1>10. CASE s.does = "version" /\ s.of \in 0..Newest
  <2>1. After(s, d, p) = [d EXCEPT !.version = s.of]
    BY <1>10 DEF After
  <2> QED BY <1>10, <2>1 DEF Databases
<1> QED BY HeadKinds, <1>1, <1>2, <1>3, <1>4, <1>5, <1>6, <1>7, <1>8, <1>9, <1>10

\* No statement loses a row, but a "drop" of rows that have not been copied.
LEMMA KeptGrows ==
  ASSUME NEW s \in Statements, s.does \notin Looks \cup {"commit"}, NEW d \in Databases,
         NEW p \in Procs, Legal(s, d),
         s.does = "drop" => (d.old # None => d.old \subseteq d.rows)
  PROVE  Kept(d) \subseteq Kept(After(s, d, p))
<1> DEFINE e == After(s, d, p)
<1> SUFFICES Kept(d) \subseteq Kept(e)
  OBVIOUS
<1>1. CASE s.does = "rename"
  <2>1. e.rows = {} /\ e.old = d.rows /\ d.old = None
    BY <1>1 DEF After, Legal, Databases
  <2> HIDE DEF e
  <2> QED BY <2>1, OldType DEF Kept
<1>2. CASE s.does = "copy"
  <2>1. e.rows = d.rows \cup d.old /\ e.old = d.old /\ d.old # None
    BY <1>2 DEF After, Legal, Databases
  <2> HIDE DEF e
  <2> QED BY <2>1 DEF Kept
<1>3. CASE s.does = "drop"
  <2>1. e.rows = d.rows /\ e.old = None /\ d.old # None
    BY <1>3 DEF After, Legal, Databases
  <2> HIDE DEF e
  <2> QED BY <1>3, <2>1 DEF Kept
<1>4. CASE s.does \notin {"rename", "copy", "drop"}
  <2>1. e.rows = d.rows /\ e.old = d.old
    <3>1. CASE s.does \in {"create", "add_columns", "objects"}
      BY <3>1 DEF After, Databases
    <3>2. CASE s.does \in {"add_factor", "carry"}
      BY <3>2 DEF After, Databases
    <3>3. CASE s.does \in {"link", "version"}
      BY <3>3 DEF After, Databases
    <3> QED BY <1>4, <3>1, <3>2, <3>3, HeadKinds
  <2> HIDE DEF e
  <2> QED BY <2>1 DEF Kept
<1> QED BY <1>1, <1>2, <1>3, <1>4

\* What a "copy" leaves to be dropped has been copied.
LEMMA CopyCopies ==
  ASSUME NEW s \in Statements, s.does = "copy", NEW d \in Databases, NEW p \in Procs, Legal(s, d)
  PROVE  LET e == After(s, d, p) IN e.old # None => e.old \subseteq e.rows
BY DEF After, Databases

-----------------------------------------------------------------------------
(* No row is lost, whoever migrates at the same time *)

LEMMA NowIs ==
  ASSUME TypeOK, NEW p \in Procs
  PROVE  /\ Sees(p) \in Databases /\ None \notin Procs /\ p # None
         /\ AtStatement(p) => /\ phase[p] = "boot"
                              /\ todo[p] \in Seq(Statements) /\ todo[p] # <<>>
                              /\ Now(p) = Head(todo[p]) /\ Now(p) \in Statements
                              /\ Tail(todo[p]) \in Seq(Statements)
<1>1. Sees(p) \in Databases /\ None \notin Procs /\ p # None
  BY ConstantsAssumption DEF TypeOK, Sees, NoTx
<1>2. todo[p] \in Seq(Statements)
  BY DEF TypeOK
<1>3. todo[p] # <<>> => Head(todo[p]) \in Statements /\ Tail(todo[p]) \in Seq(Statements)
  BY <1>2, TailIs
<1> QED BY <1>1, <1>2, <1>3 DEF AtStatement, Now

\* The next step's statements, or none any more.
LEMMA ArrivesIs ==
  ASSUME TypeOK, NEW p \in Procs, NEW v \in 0..Newest, Arrives(p, v)
  PROVE  /\ phase' \in [Procs -> {"down", "boot", "up"}] /\ at' \in [Procs -> 0..Newest]
         /\ todo' \in [Procs -> Seq(Statements)]
         /\ \A q \in Procs : q # p => phase'[q] = phase[q] /\ at'[q] = at[q] /\ todo'[q] = todo[q]
         /\ v = Newest => phase'[p] = "up" /\ todo'[p] = todo[p]
         /\ v # Newest => /\ v + 1 \in 1..Newest
                          /\ phase'[p] = "boot" /\ at'[p] = v + 1 /\ todo'[p] = Migration(v + 1)
                          /\ Chain(todo'[p]) /\ todo'[p] # <<>> /\ Head(todo'[p]).does # "drop"
<1>1. CASE v = Newest
  BY <1>1 DEF TypeOK, Arrives
<1>2. CASE v # Newest
  <2>1. v + 1 \in 1..Newest /\ v + 1 \in 0..Newest
    BY <1>2 DEF Newest
  <2> DEFINE m == Migration(v + 1)
  <2>2. m \in Seq(Statements) /\ m # <<>> /\ Chain(m) /\ Head(m).does # "drop"
    BY <2>1, MigrationType
  <2>3. /\ phase' = [phase EXCEPT ![p] = "boot"] /\ at' = [at EXCEPT ![p] = v + 1]
        /\ todo' = [todo EXCEPT ![p] = m]
    BY <1>2 DEF Arrives
  <2> HIDE DEF m
  <2>4. /\ phase' \in [Procs -> {"down", "boot", "up"}] /\ at' \in [Procs -> 0..Newest]
        /\ todo' \in [Procs -> Seq(Statements)]
        /\ \A q \in Procs : q # p => phase'[q] = phase[q] /\ at'[q] = at[q] /\ todo'[q] = todo[q]
        /\ phase'[p] = "boot" /\ at'[p] = v + 1 /\ todo'[p] = m
    BY <2>1, <2>2, <2>3 DEF TypeOK
  <2> QED BY <1>2, <2>1, <2>2, <2>4 DEF m
<1> QED BY <1>1, <1>2

\* A process that is not at work holds no transaction.
LEMMA HolderBoots ==
  ASSUME TypeOK, RowInv, NEW p \in Procs, phase[p] # "boot" \/ todo[p] = <<>>
  PROVE  tx.by # p
BY NowIs DEF RowInv, TodoOK

RowKept == TypeOK' /\ RowInv' /\ Kept(db) \subseteq Kept(db')

LEMMA ArrivesRow ==
  ASSUME TypeOK, RowInv, NEW p \in Procs, tx.by # p, phase[p] # "boot" \/ todo[p] = <<>>,
         NEW v \in 0..Newest, Arrives(p, v), UNCHANGED <<db, tx, crashes>>,
         hist' \in [together : BOOLEAN, halted : BOOLEAN]
  PROVE  RowKept
<1>1. /\ phase' \in [Procs -> {"down", "boot", "up"}] /\ at' \in [Procs -> 0..Newest]
      /\ todo' \in [Procs -> Seq(Statements)]
      /\ \A q \in Procs : q # p => phase'[q] = phase[q] /\ at'[q] = at[q] /\ todo'[q] = todo[q]
      /\ v = Newest => phase'[p] = "up" /\ todo'[p] = todo[p]
      /\ v # Newest => Chain(todo'[p]) /\ todo'[p] # <<>> /\ Head(todo'[p]).does # "drop"
  BY ArrivesIs
<1>2. TypeOK'
  BY <1>1 DEF TypeOK
<1>3. ASSUME NEW q \in Procs PROVE TodoOK(q)'
  <2>1. CASE q # p
    BY <1>1, <2>1 DEF RowInv, TodoOK
  <2>2. CASE q = p /\ v # Newest
    BY <1>1, <2>2 DEF RowInv, TodoOK
  <2>3. CASE q = p /\ v = Newest
    BY <1>1, <2>3 DEF RowInv, TodoOK
  <2> QED BY <2>1, <2>2, <2>3
<1>4. tx.by # None => phase'[tx.by] = "boot" /\ Kept(db) \subseteq Kept(tx.db)
  <2> SUFFICES ASSUME tx.by # None PROVE phase'[tx.by] = "boot" /\ Kept(db) \subseteq Kept(tx.db)
    OBVIOUS
  <2>1. tx.by \in Procs /\ tx.by # p
    BY DEF TypeOK, NoTx
  <2> QED BY <1>1, <2>1 DEF RowInv
<1>5. RowInv'
  BY <1>3, <1>4 DEF RowInv, Kept
<1> QED BY <1>2, <1>5 DEF RowKept, Kept

\* Only its own list of statements moves, and no transaction of another.
LEMMA OwnRow ==
  ASSUME TypeOK, RowInv, NEW p \in Procs, phase' = phase, at' = at,
         NEW t \in Seq(Statements), todo' = [todo EXCEPT ![p] = t],
         tx' = tx \/ (Free(p) /\ tx'.by \in {p, None}), Chain(t),
         t = <<>> => tx'.by # p,
         t # <<>> /\ Head(t).does = "drop" =>
           tx'.by = p /\ (tx'.db.old # None => tx'.db.old \subseteq tx'.db.rows)
  PROVE  /\ todo' \in [Procs -> Seq(Statements)] /\ todo'[p] = t
         /\ \A q \in Procs : TodoOK(q)'
<1>1. todo' \in [Procs -> Seq(Statements)] /\ todo'[p] = t /\ \A q \in Procs : q # p => todo'[q] = todo[q]
  BY DEF TypeOK
<1>2. ASSUME NEW q \in Procs PROVE TodoOK(q)'
  <2>1. CASE q = p
    BY <1>1, <2>1 DEF TodoOK
  <2>2. CASE q # p
    <3>1. todo'[q] = todo[q] /\ q # None
      BY <1>1, <2>2, NowIs
    <3>2. TodoOK(q)
      BY DEF RowInv
    <3>3. CASE tx' = tx
      BY <3>1, <3>2, <3>3 DEF TodoOK
    <3>4. CASE Free(p) /\ tx'.by \in {p, None}
      <4>1. tx'.by # q /\ tx.by # q
        BY <2>2, <3>1, <3>4 DEF Free
      <4> QED BY <3>1, <3>2, <4>1 DEF TodoOK
    <3> QED BY <3>3, <3>4
  <2> QED BY <2>1, <2>2
<1> QED BY <1>1, <1>2

LEMMA ReadsRow ==
  ASSUME TypeOK, RowInv, NEW p \in Procs, Reads(p)
  PROVE  RowKept
<1> DEFINE t == Found(Now(p).does, Sees(p)) \o Tail(todo[p])
<1>1. /\ Sees(p) \in Databases /\ todo[p] \in Seq(Statements) /\ todo[p] # <<>>
      /\ Now(p) = Head(todo[p]) /\ Now(p).does \in Looks /\ phase[p] = "boot"
  BY NowIs DEF Reads
<1>2. Chain(todo[p])
  BY DEF RowInv, TodoOK
<1>3. t \in Seq(Statements) /\ Chain(t) /\ t # <<>> /\ Head(t).does # "drop"
  BY <1>1, <1>2, JoinKeeps
<1>4. /\ todo' = [todo EXCEPT ![p] = t]
      /\ UNCHANGED <<db, tx, phase, at, crashes, hist>>
  BY DEF Reads
<1> HIDE DEF t
<1>5. todo' \in [Procs -> Seq(Statements)] /\ \A q \in Procs : TodoOK(q)'
  <2>1. phase' = phase /\ at' = at /\ tx' = tx
    BY <1>4
  <2> QED BY <1>3, <1>4, <2>1, OwnRow
<1>6. TypeOK'
  BY <1>4, <1>5 DEF TypeOK
<1> QED BY <1>4, <1>5, <1>6 DEF RowInv, RowKept, Kept

LEMMA ExecutesRow ==
  ASSUME TypeOK, RowInv, NEW p \in Procs, Executes(p)
  PROVE  RowKept
<1> DEFINE s == Now(p)
           d == Sees(p)
           e == After(s, d, p)
           t == Tail(todo[p])
<1>1. /\ d \in Databases /\ todo[p] \in Seq(Statements) /\ todo[p] # <<>> /\ p # None
      /\ s = Head(todo[p]) /\ s \in Statements /\ phase[p] = "boot" /\ t \in Seq(Statements)
  BY NowIs DEF Executes
<1>2. s.does \notin Looks \cup {"commit"} /\ Free(p) /\ Legal(s, d)
  BY DEF Executes
<1>3. /\ IF tx.by = p \/ s.does \in Data THEN tx' = [by |-> p, db |-> e] /\ db' = db
         ELSE db' = e /\ tx' = tx
      /\ todo' = [todo EXCEPT ![p] = t]
      /\ UNCHANGED <<phase, at, crashes, hist>>
  BY Zenon DEF Executes
<1>4. TodoOK(p)
  BY DEF RowInv
<1>5. /\ Chain(t)
      /\ t # <<>> /\ Head(t).does = "drop" => s.does = "copy"
      /\ t = <<>> => s.does = "commit"
  BY <1>1, <1>4, TailKeeps DEF TodoOK
<1>6. e \in Databases
  BY <1>1, <1>2, AfterType
<1>7. tx.by = p => d = tx.db
  BY DEF Sees
<1>8. tx.by # p => d = db /\ tx.by = None
  BY <1>2 DEF Sees, Free
<1>9. s.does = "drop" => tx.by = p /\ (d.old # None => d.old \subseteq d.rows)
  BY <1>1, <1>4, <1>7 DEF TodoOK
<1>10. Kept(d) \subseteq Kept(e)
  BY <1>1, <1>2, <1>9, KeptGrows
<1>11. s.does = "copy" => (e.old # None => e.old \subseteq e.rows)
  BY <1>1, <1>2, CopyCopies
<1> HIDE DEF s, d, e, t
<1>12. tx' = tx \/ (Free(p) /\ tx'.by \in {p, None})
  BY <1>2, <1>3
<1>13. t # <<>>
  BY <1>2, <1>5
<1>14. s.does = "copy" => tx' = [by |-> p, db |-> e]
  BY <1>3 DEF Data
<1>15. t # <<>> /\ Head(t).does = "drop" =>
         tx'.by = p /\ (tx'.db.old # None => tx'.db.old \subseteq tx'.db.rows)
  BY <1>5, <1>11, <1>14
<1>16. todo' \in [Procs -> Seq(Statements)] /\ \A q \in Procs : TodoOK(q)'
  <2>1. phase' = phase /\ at' = at /\ todo' = [todo EXCEPT ![p] = t]
    BY <1>3
  <2> QED BY <1>1, <1>5, <1>12, <1>13, <1>15, <2>1, OwnRow
<1>17. CASE tx.by = p \/ s.does \in Data
  <2>1. tx' = [by |-> p, db |-> e] /\ db' = db
    BY <1>3, <1>17
  <2>2. TypeOK'
    BY <1>3, <1>6, <1>16, <2>1 DEF TypeOK
  <2>3. Kept(db) \subseteq Kept(d)
    BY <1>1, <1>7, <1>8 DEF RowInv
  <2>4. Kept(db') \subseteq Kept(tx'.db) /\ phase'[tx'.by] = "boot"
    BY <1>1, <1>3, <1>10, <2>1, <2>3
  <2>5. RowInv'
    BY <1>16, <2>4 DEF RowInv, Kept
  <2> QED BY <2>1, <2>2, <2>5 DEF RowKept, Kept
<1>18. CASE ~(tx.by = p \/ s.does \in Data)
  <2>1. db' = e /\ tx' = tx /\ d = db /\ tx.by = None
    BY <1>3, <1>8, <1>18
  <2>2. TypeOK'
    BY <1>3, <1>6, <1>16, <2>1 DEF TypeOK
  <2>3. RowInv'
    BY <1>16, <2>1 DEF RowInv
  <2>4. Kept(db) \subseteq Kept(db')
    BY <1>10, <2>1 DEF Kept
  <2> QED BY <2>2, <2>3, <2>4 DEF RowKept, Kept
<1> QED BY <1>17, <1>18

LEMMA CommitsRow ==
  ASSUME TypeOK, RowInv, NEW p \in Procs, Commits(p)
  PROVE  RowKept
<1> DEFINE t == Tail(todo[p])
<1>1. /\ todo[p] \in Seq(Statements) /\ todo[p] # <<>> /\ p # None /\ None \notin Procs
      /\ Now(p) = Head(todo[p]) /\ Now(p).does = "commit" /\ phase[p] = "boot" /\ t \in Seq(Statements)
  BY NowIs DEF Commits
<1>2. /\ IF tx.by = p THEN db' = tx.db /\ tx' = NoTx ELSE UNCHANGED <<db, tx>>
      /\ todo' = [todo EXCEPT ![p] = t]
      /\ UNCHANGED <<phase, at, crashes, hist>>
  BY Zenon DEF Commits
<1>3. TodoOK(p)
  BY DEF RowInv
<1>4. Chain(t) /\ (t # <<>> => Head(t).does # "drop")
  BY <1>1, <1>3, TailKeeps DEF TodoOK
<1> HIDE DEF t
<1>5. tx'.by # p
  BY <1>1, <1>2 DEF NoTx
<1>6. tx' = tx \/ (Free(p) /\ tx'.by \in {p, None})
  BY <1>2 DEF NoTx, Free
<1>7. todo' \in [Procs -> Seq(Statements)] /\ \A q \in Procs : TodoOK(q)'
  <2>1. phase' = phase /\ at' = at /\ todo' = [todo EXCEPT ![p] = t]
    BY <1>2
  <2> QED BY <1>1, <1>4, <1>5, <1>6, <2>1, OwnRow
<1>8. CASE tx.by = p
  <2>1. db' = tx.db /\ tx' = NoTx
    BY <1>2, <1>8
  <2>2. tx.db \in Databases /\ Kept(db) \subseteq Kept(tx.db)
    BY <1>1, <1>8 DEF TypeOK, NoTx, RowInv
  <2>3. TypeOK'
    BY <1>2, <1>7, <2>1, <2>2 DEF TypeOK
  <2>4. RowInv'
    BY <1>7, <2>1 DEF RowInv, NoTx
  <2> QED BY <2>1, <2>2, <2>3, <2>4 DEF RowKept, Kept
<1>9. CASE tx.by # p
  <2>1. UNCHANGED <<db, tx>>
    BY <1>2, <1>9
  <2>2. TypeOK'
    BY <1>2, <1>7, <2>1 DEF TypeOK
  <2>3. RowInv'
    BY <1>2, <1>7, <2>1 DEF RowInv, Kept
  <2> QED BY <2>1, <2>2, <2>3 DEF RowKept, Kept
<1> QED BY <1>8, <1>9

LEMMA DownRow ==
  ASSUME TypeOK, RowInv, NEW p \in Procs, Down(p), db' = db, crashes' \in 0..MaxCrashes
  PROVE  RowKept
<1>1. /\ phase' = [phase EXCEPT ![p] = "down"] /\ at' = [at EXCEPT ![p] = 0]
      /\ todo' = [todo EXCEPT ![p] = <<>>]
      /\ tx' = IF tx.by = p THEN NoTx ELSE tx
      /\ hist' = [hist EXCEPT !.halted = @ \/ phase[p] = "boot"]
  BY DEF Down
<1>2. p # None /\ None \notin Procs
  BY NowIs
<1>3. TypeOK'
  <2>1. hist' \in [together : BOOLEAN, halted : BOOLEAN] /\ phase' \in [Procs -> {"down", "boot", "up"}]
    BY <1>1 DEF TypeOK
  <2>2. at' \in [Procs -> 0..Newest] /\ todo' \in [Procs -> Seq(Statements)]
    BY <1>1 DEF TypeOK, Newest
  <2>3. tx' = NoTx \/ (tx'.by \in Procs /\ tx'.db \in Databases)
    BY <1>1 DEF TypeOK
  <2> QED BY <2>1, <2>2, <2>3 DEF TypeOK
<1>4. ASSUME NEW q \in Procs PROVE TodoOK(q)'
  <2>1. TodoOK(q)
    BY DEF RowInv
  <2>2. CASE q = p
    <3>1. todo'[q] = <<>> /\ tx'.by # q
      BY <1>1, <1>2, <2>2 DEF TypeOK, NoTx
    <3>2. \A i \in 2..Len(<<>>) : FALSE
      OBVIOUS
    <3>3. Chain(<<>>)
      BY <3>2 DEF Chain
    <3> QED BY <3>1, <3>3 DEF TodoOK
  <2>3. CASE q # p
    <3>1. todo'[q] = todo[q]
      BY <1>1, <2>3 DEF TypeOK
    <3>2. tx.by = p => tx'.by # q /\ tx.by # q
      BY <1>1, <1>2, <2>3 DEF NoTx
    <3> QED BY <1>1, <2>1, <3>1, <3>2 DEF TodoOK
  <2> QED BY <2>2, <2>3
<1>5. tx'.by # None => phase'[tx'.by] = "boot" /\ Kept(db) \subseteq Kept(tx'.db)
  <2>1. tx'.by # None => tx' = tx /\ tx.by # p
    BY <1>1 DEF NoTx
  <2> QED BY <1>1, <2>1 DEF RowInv, TypeOK, NoTx
<1>6. RowInv'
  BY <1>4, <1>5 DEF RowInv, Kept
<1> QED BY <1>3, <1>6 DEF RowKept, Kept

LEMMA RowStep ==
  ASSUME TypeOK, RowInv, [Next]_vars
  PROVE  RowKept
<1>1. CASE UNCHANGED vars
  BY <1>1 DEF vars, TypeOK, RowInv, TodoOK, RowKept, Kept
<1>2. ASSUME NEW p \in Procs, Starts(p) PROVE RowKept
  <2>1. Have \in 0..Newest
    BY DEF TypeOK, Databases, Have
  <2>2. phase[p] = "down" /\ Arrives(p, Have) /\ UNCHANGED <<db, tx, crashes>>
    BY <1>2 DEF Starts
  <2>3. hist' \in [together : BOOLEAN, halted : BOOLEAN]
    BY <1>2 DEF Starts, TypeOK
  <2>4. tx.by # p
    BY <2>2, HolderBoots
  <2> QED BY <2>1, <2>2, <2>3, <2>4, ArrivesRow
<1>3. ASSUME NEW p \in Procs, NextStep(p) PROVE RowKept
  <2>1. at[p] \in 0..Newest
    BY DEF TypeOK
  <2>2. todo[p] = <<>> /\ Arrives(p, at[p]) /\ UNCHANGED <<db, tx, crashes>>
    BY <1>3 DEF NextStep
  <2>3. hist' \in [together : BOOLEAN, halted : BOOLEAN]
    BY <1>3 DEF NextStep, TypeOK
  <2>4. tx.by # p
    BY <2>2, HolderBoots
  <2> QED BY <2>1, <2>2, <2>3, <2>4, ArrivesRow
<1>4. ASSUME NEW p \in Procs, Raises(p) PROVE RowKept
  <2>1. Down(p) /\ db' = db /\ crashes' \in 0..MaxCrashes
    BY <1>4 DEF Raises, TypeOK
  <2> QED BY <2>1, DownRow
<1>5. ASSUME NEW p \in Procs, Crash(p) PROVE RowKept
  <2>1. Down(p) /\ db' = db /\ crashes' \in 0..MaxCrashes
    BY <1>5, ConstantsAssumption DEF Crash, TypeOK
  <2> QED BY <2>1, DownRow
<1>6. ASSUME NEW p \in Procs, SwitchesOff(p) PROVE RowKept
  <2>1. /\ db' = [db EXCEPT !.factor = "off"] /\ tx = NoTx
        /\ UNCHANGED <<tx, phase, at, todo, crashes, hist>>
    BY <1>6 DEF SwitchesOff, procs
  <2>2. db' \in Databases /\ db'.rows = db.rows /\ db'.old = db.old
    BY <2>1 DEF TypeOK, Databases
  <2>3. TypeOK'
    BY <2>1, <2>2 DEF TypeOK
  <2>4. RowInv'
    BY <2>1 DEF RowInv, TodoOK, NoTx
  <2> QED BY <2>2, <2>3, <2>4 DEF RowKept, Kept
<1> QED BY <1>1, <1>2, <1>3, <1>4, <1>5, <1>6, ReadsRow, ExecutesRow, CommitsRow DEF Next, Goes

-----------------------------------------------------------------------------
(* A look keeps a step on its way *)

LEMMA BaselineLook ==
  ASSUME NEW d \in Databases, NEW s, Stage1(s, d), Head(s).does \in Looks
  PROVE  Stage1(Found(Head(s).does, d) \o Tail(s), d)
<1> DEFINE k == Do("look_at_keys")
           l == Do("look_at_columns")
           a == Do("rename")
           b == Do("create")
           e == Do("copy")
           f == Do("drop")
           g == Do("add_columns")
           v == Version(1)
           c == Do("commit")
<1>1. \/ s = <<k, l, v, c>>
      \/ s = <<l, v, c>> /\ d.keys \in {"early", "current"}
      \/ \E h \in {a, b, e, f, g, v} : Head(s) = h
  BY DEF Stage1, End
<1>2. \A h \in {a, b, e, f, g, v} : h.does \notin Looks
  BY StatementIs DEF Looks
<1>3. k.does = "look_at_keys" /\ l.does = "look_at_columns"
  BY StatementIs
<1> HIDE DEF k, l, a, b, e, f, g, v, c
<1>4. CASE s = <<k, l, v, c>>
  <2>1. Head(s) = k /\ Tail(s) = <<l, v, c>>
    BY <1>4
  <2> DEFINE q == Found("look_at_keys", d)
             t == q \o <<l, v, c>>
  <2>2. Found(Head(s).does, d) \o Tail(s) = t
    BY <1>3, <2>1
  <2>3. CASE d.keys = "legacy"
    <3>1. q = <<a, b, e, f>>
      BY <2>3, FoundIs DEF a, b, e, f
    <3> HIDE DEF q
    <3>2. t = <<a, b, e, f, l, v, c>>
      BY <3>1, Join43
    <3> HIDE DEF t
    <3>3. Stage1(t, d)
      BY <2>3, <3>2 DEF Stage1, a, b, e, f, l, v, c
    <3> QED BY <2>2, <3>3
  <2>4. CASE d.keys = "none"
    <3>1. q = <<b>>
      BY <2>4, FoundIs DEF b
    <3> HIDE DEF q
    <3>2. t = <<b, l, v, c>>
      BY <3>1, Join13
    <3> HIDE DEF t
    <3>3. Stage1(t, d)
      BY <2>4, <3>2 DEF Stage1, b, l, v, c
    <3> QED BY <2>2, <3>3
  <2>5. CASE d.keys \notin {"legacy", "none"}
    <3>1. q = <<>>
      BY <2>5, FoundIs
    <3> HIDE DEF q
    <3>2. <<l, v, c>> \in Seq({l, v, c})
      OBVIOUS
    <3>3. t = <<l, v, c>>
      BY <3>1, <3>2, JoinNone
    <3>4. d.keys \in {"early", "current"}
      BY <2>5 DEF Databases
    <3> HIDE DEF t
    <3>5. Stage1(t, d)
      BY <3>3, <3>4 DEF Stage1, l, v, c
    <3> QED BY <2>2, <3>5
  <2> QED BY <2>3, <2>4, <2>5
<1>5. CASE s = <<l, v, c>> /\ d.keys \in {"early", "current"}
  <2>1. Head(s) = l /\ Tail(s) = <<v, c>>
    BY <1>5
  <2> DEFINE q == Found("look_at_columns", d)
             t == q \o <<v, c>>
  <2>2. Found(Head(s).does, d) \o Tail(s) = t
    BY <1>3, <2>1
  <2>3. CASE d.keys = "early"
    <3>1. q = <<g>>
      BY <2>3, FoundIs DEF g
    <3> HIDE DEF q
    <3>2. t = <<g, v, c>>
      BY <3>1, Join12
    <3> HIDE DEF t
    <3>3. Stage1(t, d)
      BY <2>3, <3>2 DEF Stage1, g, v, c
    <3> QED BY <2>2, <3>3
  <2>4. CASE d.keys = "current"
    <3>1. q = <<>>
      BY <2>4, FoundIs
    <3> HIDE DEF q
    <3>2. <<v, c>> \in Seq({v, c})
      OBVIOUS
    <3>3. t = <<v, c>>
      BY <3>1, <3>2, JoinNone
    <3> HIDE DEF t
    <3>4. Stage1(t, d)
      BY <2>4, <3>3 DEF Stage1, End, v, c
    <3> QED BY <2>2, <3>4
  <2> QED BY <1>5, <2>3, <2>4
<1> QED BY <1>1, <1>2, <1>4, <1>5

LEMMA LinkHead ==
  ASSUME NEW d, NEW q, Linking(q, d), q # <<>>
  PROVE  \E c \in Customers : Head(q \o End(3)) = Link(c) /\ Head(q) = Link(c) /\ d.link[c] = None
<1>1. q \in Seq(Statements) /\ End(3) \in Seq(Statements)
  BY StatementType DEF Linking, End, Newest, Plain
<1> DEFINE r == End(3)
           t == q \o r
<1> HIDE DEF r
<1>2. Len(q) \in Nat \ {0} /\ Head(q) = q[1]
  BY <1>1, TailIs
<1>3. t \in Seq(Statements) /\ Len(t) = Len(q) + Len(r) /\ Len(r) \in Nat /\ \A i \in 1..Len(q) : t[i] = q[i]
  BY <1>1, Join DEF r
<1> HIDE DEF t
<1>4. 1 \in 1..Len(q) /\ Len(t) # 0
  BY <1>2, <1>3
<1>5. t # <<>>
  BY <1>4
<1>6. Head(t) = t[1]
  BY <1>3, <1>5, TailIs
<1>7. Head(t) = q[1]
  BY <1>3, <1>4, <1>6
<1>8. PICK c \in Customers : q[1] = Link(c) /\ d.link[c] = None
  BY <1>4 DEF Linking
<1> QED BY <1>2, <1>7, <1>8 DEF t, r

\* Where a step's next statement is a look, it is one of three, or the baseline's.
LEMMA LookStep ==
  ASSUME NEW d \in Databases, NEW v, NEW s, s # <<>>, Head(s).does \in Looks, Progress(v, s, d)
  PROVE  Progress(v, Found(Head(s).does, d) \o Tail(s), d)
<1> DEFINE c == Do("commit")
           t == Found(Head(s).does, d) \o Tail(s)
<1>1. c.does \notin Looks /\ \A u : Version(u).does \notin Looks
  BY StatementIs DEF Looks
<1>2. \A u : Head(<<Version(u), c>>) = Version(u) /\ Head(<<c>>) = c
  OBVIOUS
<1>3. s \notin {<<c>>, <<>>} /\ \A u : s # End(u)
  BY <1>1, <1>2 DEF End
<1>4. /\ v \in 1..Newest /\ \A u \in 1..(v - 1) : Step(u, d)
      /\ d.keys = "legacy" => NoLinks(d)
      /\ d.factor = "none" /\ d.version = v - 1
      /\ \/ v = 1 /\ Stage1(s, d)
         \/ v = 2 /\ Stage2(s, d)
         \/ v = 3 /\ Stage3(s, d)
         \/ v = 4 /\ Stage4(s, d)
  BY <1>3 DEF Progress
<1>5. CASE v = 1 /\ Stage1(s, d)
  <2>1. Stage1(t, d)
    BY <1>5, BaselineLook
  <2> HIDE DEF t
  <2>2. Progress(v, t, d)
    BY <1>4, <1>5, <2>1 DEF Progress
  <2> QED BY <2>2 DEF t
<1>6. CASE v = 2 /\ Stage2(s, d)
  <2> DEFINE o == Do("objects")
  <2>1. o.does \notin Looks
    BY StatementIs DEF Looks
  <2>2. s = <<o, Version(2), c>>
    BY <1>3, <1>6 DEF Stage2
  <2> HIDE DEF o, c
  <2>3. Head(s) = o
    BY <2>2
  <2> QED BY <2>1, <2>3
<1>7. CASE v = 3 /\ Stage3(s, d)
  <2> DEFINE k == Do("look_at_links")
             q == Found("look_at_links", d)
  <2>1. \A x : Link(x).does \notin Looks
    BY StatementIs DEF Looks
  <2>2. s = <<k, Version(3), c>>
    <3>1. ASSUME NEW x, s = x \o End(3), Linking(x, d) PROVE FALSE
      <4>1. CASE x = <<>>
        <5>1. End(3) \in Seq({Version(3), c})
          BY DEF End
        <5>2. s = End(3)
          BY <3>1, <4>1, <5>1, JoinNone
        <5> QED BY <1>3, <5>2
      <4>2. CASE x # <<>>
        <5>1. \E y \in Customers : Head(s) = Link(y)
          BY <3>1, <4>2, LinkHead
        <5> QED BY <2>1, <5>1
      <4> QED BY <4>1, <4>2
    <3> QED BY <1>7, <3>1 DEF Stage3
  <2>3. k.does = "look_at_links"
    BY StatementIs
  <2>4. Linking(q, d)
    BY LinksAre
  <2> HIDE DEF k, c, q
  <2>5. Head(s) = k /\ Tail(s) = <<Version(3), c>>
    BY <2>2
  <2>6. t = q \o End(3)
    BY <2>3, <2>5 DEF q, End, c
  <2> HIDE DEF t
  <2>7. Stage3(t, d)
    BY <2>4, <2>6 DEF Stage3
  <2>8. Progress(v, t, d)
    BY <1>4, <1>7, <2>7 DEF Progress
  <2> QED BY <2>8 DEF t
<1>8. CASE v = 4 /\ Stage4(s, d)
  <2> DEFINE k == Do("look_at_factor")
             a == Do("add_factor")
             b == Do("carry")
             q == Found("look_at_factor", d)
             w == Version(4)
  <2>1. a.does \notin Looks /\ b.does \notin Looks /\ k.does = "look_at_factor"
    BY StatementIs DEF Looks
  <2>2. s = <<k, w, c>> \/ Head(s) = a \/ Head(s) = b
    BY <1>3, <1>8 DEF Stage4
  <2>3. s = <<k, w, c>>
    BY <2>1, <2>2
  <2> HIDE DEF k, c, a, b, w
  <2>4. Head(s) = k /\ Tail(s) = <<w, c>>
    BY <2>3
  <2>5. t = q \o <<w, c>>
    BY <2>1, <2>4
  <2> HIDE DEF t
  <2>6. Stage4(t, d)
    <3>1. CASE ~d.column /\ d.stored
      <4>1. q = <<a, b>>
        BY <3>1, FoundIs DEF a, b
      <4> HIDE DEF q
      <4>2. t = <<a, b, w, c>>
        BY <2>5, <4>1, Join22
      <4> QED BY <3>1, <4>2 DEF Stage4, a, b, w, c
    <3>2. CASE ~d.column /\ ~d.stored
      <4>1. q = <<a>>
        BY <3>2, FoundIs DEF a
      <4> HIDE DEF q
      <4>2. t = <<a, w, c>>
        BY <2>5, <4>1, Join12
      <4> QED BY <3>2, <4>2 DEF Stage4, a, w, c
    <3>3. CASE d.column /\ d.stored
      <4>1. q = <<b>>
        BY <3>3, FoundIs DEF b
      <4> HIDE DEF q
      <4>2. t = <<b, w, c>>
        BY <2>5, <4>1, Join12
      <4> QED BY <3>3, <4>2 DEF Stage4, b, w, c
    <3>4. CASE d.column /\ ~d.stored
      <4>1. q = <<>>
        BY <3>4, FoundIs
      <4> HIDE DEF q
      <4>2. <<w, c>> \in Seq({w, c})
        OBVIOUS
      <4>3. t = <<w, c>>
        BY <2>5, <4>1, <4>2, JoinNone
      <4>4. t = End(4)
        BY <4>3 DEF End, w, c
      <4>5. Step(4, d)
        BY <3>4 DEF Step
      <4> QED BY <4>4, <4>5 DEF Stage4
    <3> QED BY <3>1, <3>2, <3>3, <3>4
  <2>7. Progress(v, t, d)
    BY <1>4, <1>8, <2>6 DEF Progress
  <2> QED BY <2>7 DEF t
<1> QED BY <1>4, <1>5, <1>6, <1>7, <1>8

-----------------------------------------------------------------------------
(* A statement keeps a step on its way, and a commit ends it *)

\* What a statement leaves alone.
LEMMA AfterIs ==
  ASSUME NEW s, NEW d \in Databases, NEW p, s.does \notin Looks \cup {"commit"}
  PROVE  LET e == After(s, d, p) IN
         /\ s.does = "rename" => /\ e.keys = "none" /\ e.link = d.link /\ e.version = d.version
                                 /\ e.factor = d.factor
         /\ s.does = "create" => /\ e.keys = (IF d.keys = "none" THEN "early" ELSE d.keys)
                                 /\ e.link = d.link /\ e.version = d.version /\ e.factor = d.factor
         /\ s.does = "copy" => /\ e.keys = d.keys /\ e.version = d.version /\ e.factor = d.factor
                               /\ \A c \in Customers : e.link[c] \in {None, d.link[c]}
         /\ s.does = "drop" => /\ e.keys = d.keys /\ e.link = d.link /\ e.version = d.version
                               /\ e.factor = d.factor
         /\ s.does = "add_columns" => /\ e.keys = "current" /\ e.link = d.link
                                      /\ e.version = d.version /\ e.factor = d.factor
         /\ s.does = "objects" => e = [d EXCEPT !.objects = TRUE]
         /\ s.does = "link" => e = IF s.of \in d.rows THEN [d EXCEPT !.link[s.of] = p] ELSE d
         /\ s.does = "add_factor" => e = [d EXCEPT !.column = TRUE]
         /\ s.does = "carry" => e = [d EXCEPT !.factor = "on"]
         /\ s.does = "version" => e = [d EXCEPT !.version = s.of]
<1> DEFINE e == After(s, d, p)
<1>1. CASE s.does = "rename"
  BY <1>1 DEF After, Databases
<1>2. CASE s.does = "create"
  BY <1>2 DEF After, Databases
<1>3. CASE s.does = "copy"
  <2>1. e = [d EXCEPT !.rows = d.rows \cup d.old,
                      !.link = [c \in Customers |-> IF c \in d.old THEN None ELSE d.link[c]]]
    BY <1>3 DEF After
  <2> HIDE DEF e
  <2>2. /\ e.keys = d.keys /\ e.version = d.version /\ e.factor = d.factor
        /\ e.link = [c \in Customers |-> IF c \in d.old THEN None ELSE d.link[c]]
    BY <2>1 DEF Databases
  <2>3. \A c \in Customers : e.link[c] \in {None, d.link[c]}
    BY <2>2
  <2> QED BY <1>3, <2>2, <2>3 DEF e
<1>4. CASE s.does = "drop"
  BY <1>4 DEF After, Databases
<1>5. CASE s.does = "add_columns"
  BY <1>5 DEF After, Databases
<1>6. CASE s.does \in {"objects", "link", "add_factor", "carry", "version"}
  BY <1>6 DEF After
<1>7. CASE s.does \notin {"rename", "create", "copy", "drop", "add_columns", "objects", "link",
                         "add_factor", "carry", "version"}
  BY <1>7
<1> QED BY <1>1, <1>2, <1>3, <1>4, <1>5, <1>6, <1>7

\* The statements of the baseline, but for the counter.
LEMMA BaselineExec ==
  ASSUME NEW d \in Databases, NEW s, Stage1(s, d), d.keys = "legacy" => NoLinks(d),
         Head(s).does \notin Looks \cup {"commit", "version"}, NEW p
  PROVE  LET e == After(Head(s), d, p) IN
         /\ Stage1(Tail(s), e) /\ Frame(d, e) /\ e.version = d.version /\ e.factor = d.factor
         /\ e.keys # "legacy"
<1> DEFINE k == Do("look_at_keys")
           l == Do("look_at_columns")
           a == Do("rename")
           b == Do("create")
           x == Do("copy")
           f == Do("drop")
           g == Do("add_columns")
           v == Version(1)
           c == Do("commit")
           e == After(Head(s), d, p)
<1>1. \/ s = <<a, b, x, f, l, v, c>> /\ d.keys = "legacy"
      \/ s = <<b, x, f, l, v, c>> /\ d.keys = "none" /\ NoLinks(d)
      \/ s = <<x, f, l, v, c>> /\ d.keys = "early" /\ NoLinks(d)
      \/ s = <<f, l, v, c>> /\ d.keys = "early"
      \/ s = <<b, l, v, c>> /\ d.keys = "none"
      \/ s = <<g, v, c>> /\ d.keys = "early"
      \/ Head(s) \in {k, l, v}
  BY DEF Stage1, End
<1>2. \A h \in {k, l, v} : h.does \in Looks \cup {"commit", "version"}
  BY StatementIs DEF Looks
<1>3. /\ a.does = "rename" /\ b.does = "create" /\ x.does = "copy" /\ f.does = "drop"
      /\ g.does = "add_columns"
  BY StatementIs
<1>4. /\ Head(s) = a => /\ e.keys = "none" /\ e.link = d.link /\ e.version = d.version
                        /\ e.factor = d.factor
      /\ Head(s) = b => /\ e.keys = (IF d.keys = "none" THEN "early" ELSE d.keys)
                        /\ e.link = d.link /\ e.version = d.version /\ e.factor = d.factor
      /\ Head(s) = x => /\ e.keys = d.keys /\ e.version = d.version /\ e.factor = d.factor
                        /\ \A y \in Customers : e.link[y] \in {None, d.link[y]}
      /\ Head(s) = f => /\ e.keys = d.keys /\ e.link = d.link /\ e.version = d.version
                        /\ e.factor = d.factor
      /\ Head(s) = g => /\ e.keys = "current" /\ e.link = d.link
                        /\ e.version = d.version /\ e.factor = d.factor
  BY <1>3, AfterIs DEF Looks
<1> HIDE DEF k, l, a, b, x, f, g, v, c, e
<1> DEFINE Good == /\ Stage1(Tail(s), e) /\ Frame(d, e) /\ e.version = d.version /\ e.factor = d.factor
                   /\ e.keys # "legacy"
<1> SUFFICES Good
  BY DEF e
<1>5. CASE s = <<a, b, x, f, l, v, c>> /\ d.keys = "legacy"
  <2>1. Head(s) = a /\ Tail(s) = <<b, x, f, l, v, c>>
    BY <1>5
  <2>2. NoLinks(e) /\ Frame(d, e)
    BY <1>4, <1>5, <2>1 DEF NoLinks, Frame
  <2>3. Stage1(Tail(s), e)
    BY <1>4, <2>1, <2>2 DEF Stage1, b, x, f, l, v, c
  <2> QED BY <1>4, <2>1, <2>2, <2>3
<1>6. CASE s = <<b, x, f, l, v, c>> /\ d.keys = "none" /\ NoLinks(d)
  <2>1. Head(s) = b /\ Tail(s) = <<x, f, l, v, c>>
    BY <1>6
  <2>2. NoLinks(e) /\ Frame(d, e)
    BY <1>4, <1>6, <2>1 DEF NoLinks, Frame
  <2>3. Stage1(Tail(s), e)
    BY <1>4, <1>6, <2>1, <2>2 DEF Stage1, x, f, l, v, c
  <2> QED BY <1>4, <1>6, <2>1, <2>2, <2>3
<1>7. CASE s = <<x, f, l, v, c>> /\ d.keys = "early" /\ NoLinks(d)
  <2>1. Head(s) = x /\ Tail(s) = <<f, l, v, c>>
    BY <1>7
  <2>2. Frame(d, e)
    BY <1>4, <1>7, <2>1 DEF NoLinks, Frame
  <2>3. Stage1(Tail(s), e)
    BY <1>4, <1>7, <2>1 DEF Stage1, f, l, v, c
  <2> QED BY <1>4, <1>7, <2>1, <2>2, <2>3
<1>8. CASE s = <<f, l, v, c>> /\ d.keys = "early"
  <2>1. Head(s) = f /\ Tail(s) = <<l, v, c>>
    BY <1>8
  <2>2. Frame(d, e)
    BY <1>4, <2>1 DEF Frame
  <2>3. Stage1(Tail(s), e)
    BY <1>4, <1>8, <2>1 DEF Stage1, l, v, c
  <2> QED BY <1>4, <1>8, <2>1, <2>2, <2>3
<1>9. CASE s = <<b, l, v, c>> /\ d.keys = "none"
  <2>1. Head(s) = b /\ Tail(s) = <<l, v, c>>
    BY <1>9
  <2>2. Frame(d, e)
    BY <1>4, <2>1 DEF Frame
  <2>3. Stage1(Tail(s), e)
    BY <1>4, <1>9, <2>1 DEF Stage1, l, v, c
  <2> QED BY <1>4, <1>9, <2>1, <2>2, <2>3
<1>10. CASE s = <<g, v, c>> /\ d.keys = "early"
  <2>1. Head(s) = g /\ Tail(s) = <<v, c>>
    BY <1>10
  <2>2. Frame(d, e)
    BY <1>4, <2>1 DEF Frame
  <2>3. Stage1(Tail(s), e)
    BY <1>4, <2>1 DEF Stage1, End, v, c
  <2> QED BY <1>4, <2>1, <2>2, <2>3
<1> QED BY <1>1, <1>2, <1>5, <1>6, <1>7, <1>8, <1>9, <1>10

LEMMA TailJoin ==
  ASSUME NEW S, NEW q \in Seq(S), NEW r \in Seq(S), q # <<>>
  PROVE  Tail(q \o r) = Tail(q) \o r
<1> DEFINE w == q \o r
           t == Tail(w)
           s == Tail(q)
           m == Len(s)
           n == Len(r)
<1>1. /\ Len(q) \in Nat \ {0} /\ s \in Seq(S) /\ Len(s) = Len(q) - 1
      /\ \A i \in 1..(Len(q) - 1) : s[i] = q[i + 1]
  BY TailIs
<1>2. /\ w \in Seq(S) /\ Len(w) = Len(q) + n /\ n \in Nat
      /\ \A i \in 1..Len(q) : w[i] = q[i]
      /\ \A i \in 1..n : w[Len(q) + i] = r[i]
  BY Join
<1> HIDE DEF w, s
<1>3. w # <<>>
  <2>1. Len(w) # 0
    BY <1>1, <1>2
  <2> QED BY <2>1
<1>4. /\ t \in Seq(S) /\ Len(t) = Len(w) - 1
      /\ \A i \in 1..(Len(w) - 1) : t[i] = w[i + 1]
  BY <1>2, <1>3, TailIs
<1> HIDE DEF t
<1>5. Len(t) = Len(s) + Len(r)
  BY <1>1, <1>2, <1>4
<1>6. ASSUME NEW i \in 1..Len(s) PROVE t[i] = s[i]
  <2>1. i \in 1..(Len(q) - 1) /\ i + 1 \in 1..Len(q) /\ i \in 1..(Len(w) - 1)
    BY <1>1, <1>2
  <2> QED BY <1>1, <1>2, <1>4, <2>1
<1>7. ASSUME NEW i \in 1..Len(r) PROVE t[Len(s) + i] = r[i]
  <2>1. Len(s) + i \in 1..(Len(w) - 1) /\ Len(s) + i + 1 = Len(q) + i
    BY <1>1, <1>2
  <2> QED BY <1>2, <1>4, <2>1
<1>8. s \o r = t
  BY <1>1, <1>4, <1>5, <1>6, <1>7, JoinIs
<1> QED BY <1>8 DEF s, t, w

\* A link is given to one who has none, and the others are still to be given.
LEMMA LinkStep ==
  ASSUME NEW d \in Databases, NEW q, Linking(q, d), q # <<>>, NEW p \in Procs
  PROVE  LET s == q \o End(3)
             e == After(Head(s), d, p)
         IN /\ Head(s).does = "link" /\ Tail(s) = Tail(q) \o End(3) /\ Linking(Tail(q), e)
            /\ e \in Databases /\ Frame(d, e)
            /\ e.version = d.version /\ e.factor = d.factor /\ e.keys = d.keys
            /\ e.objects = d.objects
<1> DEFINE s == q \o End(3)
           e == After(Head(s), d, p)
           t == Tail(q)
<1>1. q \in Seq(Statements) /\ End(3) \in Seq(Statements)
  BY StatementType DEF Linking, End, Newest, Plain
<1>2. PICK c \in Customers : Head(s) = Link(c) /\ Head(q) = Link(c) /\ d.link[c] = None
  BY LinkHead
<1>3. Head(s).does = "link" /\ Head(s).of = c
  BY <1>2, StatementIs
<1>4. e = IF c \in d.rows THEN [d EXCEPT !.link[c] = p] ELSE d
  BY <1>3, AfterIs DEF Looks
<1>5. Tail(s) = t \o End(3)
  BY <1>1, TailJoin
<1>6. /\ Len(q) \in Nat \ {0} /\ Head(q) = q[1] /\ t \in Seq(Statements) /\ Len(t) = Len(q) - 1
      /\ \A i \in 1..(Len(q) - 1) : t[i] = q[i + 1]
  BY <1>1, TailIs
<1>7. /\ \A i \in 1..Len(q) : \E y \in Customers : q[i] = Link(y) /\ d.link[y] = None
      /\ \A i, j \in 1..Len(q) : q[i] = q[j] => i = j
      /\ \A y \in d.rows : d.link[y] = None => \E i \in 1..Len(q) : q[i] = Link(y)
  BY DEF Linking
<1> HIDE DEF s, e, t
<1>8. /\ e.version = d.version /\ e.factor = d.factor /\ e.keys = d.keys /\ e.objects = d.objects
      /\ e.rows = d.rows /\ e \in Databases
      /\ \A y \in Customers : y # c => e.link[y] = d.link[y]
      /\ c \in d.rows => e.link[c] = p
  BY <1>4 DEF Databases
<1>9. Frame(d, e)
  BY <1>2, <1>8 DEF Frame
<1>10. Linking(t, e)
  <2>1. ASSUME NEW i \in 1..Len(t)
        PROVE  \E y \in Customers : t[i] = Link(y) /\ e.link[y] = None
    <3>1. i \in 1..(Len(q) - 1) /\ i + 1 \in 1..Len(q) /\ 1 \in 1..Len(q) /\ i + 1 # 1
      BY <1>6
    <3>2. t[i] = q[i + 1] /\ q[i + 1] # q[1]
      BY <1>6, <1>7, <3>1
    <3>3. PICK y \in Customers : q[i + 1] = Link(y) /\ d.link[y] = None
      BY <1>7, <3>1
    <3>4. y # c
      BY <1>2, <1>6, <3>2, <3>3
    <3> QED BY <1>8, <3>2, <3>3, <3>4
  <2>2. ASSUME NEW i \in 1..Len(t), NEW j \in 1..Len(t), t[i] = t[j] PROVE i = j
    <3>1. /\ i \in 1..(Len(q) - 1) /\ i + 1 \in 1..Len(q)
          /\ j \in 1..(Len(q) - 1) /\ j + 1 \in 1..Len(q)
      BY <1>6
    <3>2. q[i + 1] = q[j + 1]
      BY <1>6, <2>2, <3>1
    <3>3. i + 1 = j + 1
      BY <1>7, <3>1, <3>2
    <3> QED BY <3>1, <3>3
  <2>3. ASSUME NEW y \in e.rows, e.link[y] = None PROVE \E i \in 1..Len(t) : t[i] = Link(y)
    <3>1. y \in d.rows /\ y \in Customers /\ p # None
      BY <1>8, OldType, ConstantsAssumption
    <3>2. y # c /\ d.link[y] = None
      BY <1>2, <1>8, <2>3, <3>1
    <3>3. PICK i \in 1..Len(q) : q[i] = Link(y)
      BY <1>7, <3>1, <3>2
    <3>4. Link(y) # Link(c)
      BY <3>2, StatementIs
    <3>5. i # 1
      BY <1>2, <1>6, <3>3, <3>4
    <3>6. i - 1 \in 1..(Len(q) - 1) /\ i - 1 \in 1..Len(t) /\ (i - 1) + 1 = i
      BY <1>6, <3>5
    <3>7. t[i - 1] = Link(y)
      BY <1>6, <3>3, <3>6
    <3> QED BY <3>6, <3>7
  <2> QED BY <1>6, <2>1, <2>2, <2>3 DEF Linking
<1> QED BY <1>3, <1>5, <1>8, <1>9, <1>10 DEF s, e, t

\* The counter is written when the step is done.
LEMMA VersionStep ==
  ASSUME NEW d \in Databases, NEW v \in 1..Newest, d.version = v - 1, \A u \in 1..v : Step(u, d),
         d.keys = "legacy" => NoLinks(d), d.factor # "none" => v = 4, NEW p
  PROVE  LET e == After(Head(End(v)), d, p) IN
         /\ Progress(v, Tail(End(v)), e) /\ Frame(d, e) /\ e.factor = d.factor
         /\ Head(End(v)).does = "version"
<1> DEFINE w == Version(v)
           c == Do("commit")
           e == After(w, d, p)
<1>1. w.does = "version" /\ w.of = v
  BY StatementIs
<1>2. e = [d EXCEPT !.version = v]
  BY <1>1, AfterIs DEF Looks
<1> HIDE DEF w, c, e
<1>3. Head(<<w, c>>) = w /\ Tail(<<w, c>>) = <<c>>
  OBVIOUS
<1>4. /\ e.version = v /\ e.keys = d.keys /\ e.link = d.link /\ e.factor = d.factor
      /\ e.rows = d.rows /\ e.objects = d.objects /\ e.column = d.column /\ e.stored = d.stored
  BY <1>2 DEF Databases, Newest
<1>5. \A u \in 1..v : Step(u, e)
  <2>1. /\ Step(1, d) => Step(1, e)
        /\ Step(2, d) => Step(2, e)
        /\ Step(3, d) => Step(3, e)
        /\ Step(4, d) => Step(4, e)
    BY <1>4 DEF Step
  <2>2. \A u \in 1..v : u = 1 \/ u = 2 \/ u = 3 \/ u = 4
    BY DEF Newest
  <2> QED BY <2>1, <2>2
<1>6. v \in 1..v /\ \A u \in 1..(v - 1) : u \in 1..v
  BY DEF Newest
<1>7. Progress(v, <<c>>, e)
  BY <1>4, <1>5, <1>6 DEF Progress, NoLinks, c
<1>8. Frame(d, e)
  BY <1>4 DEF Frame
<1> QED BY <1>1, <1>3, <1>4, <1>7, <1>8 DEF End, w, c, e

LEMMA ExecStep ==
  ASSUME NEW d \in Databases, NEW v, NEW s, s # <<>>, Head(s).does \notin Looks \cup {"commit"},
         Progress(v, s, d), NEW p \in Procs
  PROVE  LET e == After(Head(s), d, p) IN
         /\ Progress(v, Tail(s), e) /\ Frame(d, e)
         /\ d.version = v - 1 /\ (Head(s).does \notin Data => e.factor = d.factor)
<1> DEFINE c == Do("commit")
           e == After(Head(s), d, p)
           Good == /\ Progress(v, Tail(s), e) /\ Frame(d, e)
                   /\ d.version = v - 1 /\ (Head(s).does \notin Data => e.factor = d.factor)
<1> SUFFICES Good
  OBVIOUS
<1>1. s # <<c>>
  <2>1. c.does = "commit" /\ Head(<<c>>) = c
    BY StatementIs
  <2> QED BY <2>1
<1>2. /\ v \in 1..Newest /\ \A u \in 1..(v - 1) : Step(u, d)
      /\ d.keys = "legacy" => NoLinks(d)
      /\ d.factor # "none" => v = 4 /\ s = End(4)
      /\ d.version = v - 1
      /\ \/ v = 1 /\ Stage1(s, d)
         \/ v = 2 /\ Stage2(s, d)
         \/ v = 3 /\ Stage3(s, d)
         \/ v = 4 /\ Stage4(s, d)
  BY <1>1 DEF Progress
<1>3. CASE s = End(v) /\ Step(v, d)
  <2>1. \A u \in 1..v : Step(u, d)
    <3>1. \A u \in 1..v : u \in 1..(v - 1) \/ u = v
      BY <1>2 DEF Newest
    <3> QED BY <1>2, <1>3, <3>1
  <2>2. /\ Progress(v, Tail(End(v)), After(Head(End(v)), d, p)) /\ Frame(d, After(Head(End(v)), d, p))
        /\ After(Head(End(v)), d, p).factor = d.factor
    BY <1>2, <2>1, VersionStep
  <2> QED BY <1>2, <1>3, <2>2
<1>4. CASE v = 1 /\ Stage1(s, d)
  <2>1. CASE Head(s).does = "version"
    <3> DEFINE k == Do("look_at_keys")
               l == Do("look_at_columns")
               a == Do("rename")
               b == Do("create")
               x == Do("copy")
               f == Do("drop")
               g == Do("add_columns")
    <3>1. (s = End(1) /\ d.keys = "current") \/ Head(s) \in {k, l, a, b, x, f, g}
      BY <1>4 DEF Stage1
    <3>2. \A h \in {k, l, a, b, x, f, g} : h.does # "version"
      BY StatementIs
    <3>3. s = End(1) /\ d.keys = "current"
      BY <2>1, <3>1, <3>2
    <3>4. Step(1, d)
      BY <3>3 DEF Step
    <3> QED BY <1>3, <1>4, <3>3, <3>4
  <2>2. CASE Head(s).does # "version"
    <3>1. /\ Stage1(Tail(s), e) /\ Frame(d, e) /\ e.version = d.version /\ e.factor = d.factor
          /\ e.keys # "legacy"
      BY <1>2, <1>4, <2>2, BaselineExec
    <3>2. d.factor = "none" /\ ~\E u : u \in 1..(v - 1)
      BY <1>2, <1>4
    <3> HIDE DEF e
    <3>3. Progress(v, Tail(s), e)
      BY <1>2, <1>4, <3>1, <3>2 DEF Progress
    <3> QED BY <1>2, <3>1, <3>3
  <2> QED BY <2>1, <2>2
<1>5. CASE v = 2 /\ Stage2(s, d)
  <2>1. CASE s = End(2) /\ d.objects
    <3>1. Step(2, d)
      BY <2>1 DEF Step
    <3> QED BY <1>3, <1>5, <2>1, <3>1
  <2>2. CASE s = <<Do("objects"), Version(2), Do("commit")>>
    <3> DEFINE o == Do("objects")
               w == Version(2)
    <3>1. o.does = "objects"
      BY StatementIs
    <3>2. s = <<o, w, c>>
      BY <2>2
    <3> HIDE DEF o, w, c
    <3>3. Head(s) = o /\ Tail(s) = <<w, c>>
      BY <3>2
    <3>4. e = [d EXCEPT !.objects = TRUE]
      BY <3>1, <3>3, AfterIs DEF Looks
    <3> HIDE DEF e
    <3>5. /\ e.version = d.version /\ e.keys = d.keys /\ e.link = d.link /\ e.factor = d.factor
          /\ e.objects
      BY <3>4 DEF Databases
    <3>6. Stage2(Tail(s), e)
      BY <3>3, <3>5 DEF Stage2, End, w, c
    <3>7. d.factor = "none"
      BY <1>2, <1>5
    <3>8. \A u \in 1..(v - 1) : Step(u, e)
      <4>1. \A u \in 1..(v - 1) : u = 1
        BY <1>5
      <4>2. Step(1, d)
        BY <1>2, <1>5
      <4>3. Step(1, e)
        BY <3>5, <4>2 DEF Step
      <4> QED BY <4>1, <4>3
    <3>9. Progress(v, Tail(s), e)
      BY <1>2, <1>5, <3>5, <3>6, <3>7, <3>8 DEF Progress, NoLinks
    <3>10. Frame(d, e)
      BY <3>5 DEF Frame
    <3> QED BY <1>2, <3>5, <3>9, <3>10 DEF e
  <2> QED BY <1>5, <2>1, <2>2 DEF Stage2
<1>6. CASE v = 3 /\ Stage3(s, d)
  <2>1. s # <<Do("look_at_links"), Version(3), Do("commit")>>
    <3> DEFINE k == Do("look_at_links")
               w == Version(3)
    <3>1. k.does = "look_at_links"
      BY StatementIs
    <3> HIDE DEF k, w, c
    <3>2. Head(<<k, w, c>>) = k
      OBVIOUS
    <3>3. s # <<k, w, c>>
      BY <3>1, <3>2 DEF Looks
    <3> QED BY <3>3 DEF k, w, c
  <2>2. PICK q : s = q \o End(3) /\ Linking(q, d)
    BY <1>6, <2>1 DEF Stage3
  <2>3. CASE q = <<>>
    <3>1. End(3) \in Seq({Version(3), c})
      BY DEF End
    <3>2. s = End(3)
      BY <2>2, <2>3, <3>1, JoinNone
    <3>3. \A i \in 1..Len(<<>>) : FALSE
      OBVIOUS
    <3>4. Step(3, d)
      BY <2>2, <2>3, <3>3 DEF Linking, Step
    <3> QED BY <1>3, <1>6, <3>2, <3>4
  <2>4. CASE q # <<>>
    <3> DEFINE t == Tail(q)
    <3>1. /\ Head(s).does = "link" /\ Tail(s) = t \o End(3) /\ Linking(t, e)
          /\ e \in Databases /\ Frame(d, e)
          /\ e.version = d.version /\ e.factor = d.factor /\ e.keys = d.keys
          /\ e.objects = d.objects
      BY <2>2, <2>4, LinkStep
    <3> HIDE DEF e, t
    <3>2. Stage3(Tail(s), e)
      BY <3>1 DEF Stage3
    <3>3. d.factor = "none" /\ d.keys # "legacy"
      <4>1. Step(1, d)
        BY <1>2, <1>6
      <4> QED BY <1>2, <1>6, <4>1 DEF Step
    <3>4. \A u \in 1..(v - 1) : Step(u, e)
      <4>1. \A u \in 1..(v - 1) : u = 1 \/ u = 2
        BY <1>6
      <4>2. Step(1, d) /\ Step(2, d)
        BY <1>2, <1>6
      <4>3. Step(1, e) /\ Step(2, e)
        BY <3>1, <4>2 DEF Step
      <4> QED BY <4>1, <4>3
    <3>5. Progress(v, Tail(s), e)
      BY <1>2, <1>6, <3>1, <3>2, <3>3, <3>4 DEF Progress
    <3> QED BY <1>2, <3>1, <3>5
  <2> QED BY <2>3, <2>4
<1>7. CASE v = 4 /\ Stage4(s, d)
  <2> DEFINE k == Do("look_at_factor")
             a == Do("add_factor")
             b == Do("carry")
             w == Version(4)
  <2>1. k.does = "look_at_factor" /\ a.does = "add_factor" /\ b.does = "carry"
    BY StatementIs
  <2>2. \/ s = <<k, w, c>>
        \/ s = <<a, b, w, c>> /\ d.stored
        \/ s = <<a, w, c>> /\ ~d.stored
        \/ s = <<b, w, c>> /\ d.column
        \/ s = End(4) /\ Step(4, d)
    BY <1>7 DEF Stage4
  <2>3. CASE s = End(4) /\ Step(4, d)
    BY <1>3, <1>7, <2>3
  <2>4. CASE s # End(4)
    <3> HIDE DEF k, a, b, w, c
    <3>1. s # <<k, w, c>>
      <4>1. Head(<<k, w, c>>) = k
        OBVIOUS
      <4> QED BY <2>1, <4>1 DEF Looks
    <3>2. d.factor = "none"
      BY <1>2, <2>4
    <3>3. Head(s) = a => e = [d EXCEPT !.column = TRUE]
      BY <2>1, AfterIs DEF Looks
    <3>4. Head(s) = b => e = [d EXCEPT !.factor = "on"]
      BY <2>1, AfterIs DEF Looks
    <3> HIDE DEF e
    <3>5. Head(s) \in {a, b} =>
            /\ e.version = d.version /\ e.keys = d.keys /\ e.link = d.link /\ e.rows = d.rows
            /\ e.objects = d.objects /\ e.stored = d.stored
      BY <3>3, <3>4 DEF Databases
    <3>6. Head(s) = a => e.column /\ e.factor = "none"
      BY <3>2, <3>3 DEF Databases
    <3>7. Head(s) = b => e.factor = "on" /\ e.column = d.column
      BY <3>4 DEF Databases
    <3>8. Head(s) \in {a, b}
      BY <2>2, <2>4, <3>1
    <3>9. /\ Head(s) = b => s = <<b, w, c>> /\ d.column
          /\ Head(s) = a => (s = <<a, b, w, c>> /\ d.stored) \/ (s = <<a, w, c>> /\ ~d.stored)
      <4>1. a # b
        BY <2>1
      <4> QED BY <2>2, <2>4, <3>1, <4>1
    <3>10. \A u \in 1..(v - 1) : Step(u, e)
      <4>1. \A u \in 1..(v - 1) : u = 1 \/ u = 2 \/ u = 3
        BY <1>7
      <4>2. Step(1, d) /\ Step(2, d) /\ Step(3, d)
        BY <1>2, <1>7
      <4>3. Step(1, e) /\ Step(2, e) /\ Step(3, e)
        BY <3>5, <3>8, <4>2 DEF Step
      <4> QED BY <4>1, <4>3
    <3>11. Stage4(Tail(s), e) /\ (e.factor # "none" => Tail(s) = End(4))
      <4>1. CASE Head(s) = b
        <5>0. s = <<b, w, c>>
          BY <3>9, <4>1
        <5>1. Tail(s) = End(4)
          BY <5>0 DEF End, w, c
        <5>2. Step(4, e)
          BY <3>7, <3>9, <4>1 DEF Step
        <5> QED BY <5>1, <5>2 DEF Stage4
      <4>2. CASE Head(s) = a /\ s = <<a, b, w, c>> /\ d.stored
        <5>1. Tail(s) = <<b, w, c>>
          BY <4>2
        <5> QED BY <3>6, <4>2, <5>1 DEF Stage4, b, w, c
      <4>3. CASE Head(s) = a /\ s = <<a, w, c>> /\ ~d.stored
        <5>1. Tail(s) = End(4)
          BY <4>3 DEF End, w, c
        <5>2. Step(4, e)
          BY <3>5, <3>6, <4>3 DEF Step
        <5> QED BY <5>1, <5>2 DEF Stage4
      <4> QED BY <3>8, <3>9, <4>1, <4>2, <4>3
    <3>12. Progress(v, Tail(s), e)
      BY <1>2, <1>7, <3>5, <3>8, <3>10, <3>11 DEF Progress, NoLinks
    <3>13. Frame(d, e)
      BY <3>2, <3>5, <3>8 DEF Frame
    <3>14. Head(s).does \notin Data => e.factor = d.factor
      BY <2>1, <3>2, <3>6, <3>8 DEF Data
    <3> QED BY <1>2, <3>12, <3>13, <3>14
  <2>5. s = End(4) => Step(4, d)
    <3>1. End(4) = <<w, c>> /\ w.does = "version"
      BY StatementIs DEF End
    <3> HIDE DEF k, a, b, w, c
    <3>2. s = End(4) => Head(s) = w
      BY <3>1
    <3>3. Head(s) \in {k, a, b} \/ (s = End(4) /\ Step(4, d))
      BY <2>2
    <3> QED BY <2>1, <3>1, <3>2, <3>3
  <2> QED BY <2>3, <2>4, <2>5
<1> QED BY <1>2, <1>4, <1>5, <1>6, <1>7

\* A commit is the end of a step, and the step is done then.
LEMMA CommitStep ==
  ASSUME NEW d \in Databases, NEW v, NEW s, s # <<>>, Head(s).does = "commit", Progress(v, s, d)
  PROVE  Tail(s) = <<>> /\ Progress(v, <<>>, d) /\ d.version = v
<1> DEFINE c == Do("commit")
<1>1. ~Stage1(s, d) /\ ~Stage2(s, d) /\ ~Stage3(s, d) /\ ~Stage4(s, d)
  <2>1. \A x \in {"look_at_keys", "look_at_columns", "rename", "create", "copy", "drop",
                  "add_columns", "objects", "look_at_links", "look_at_factor", "add_factor",
                  "carry"} : Do(x).does # "commit"
    BY StatementIs
  <2>2. \A u : Version(u).does # "commit"
    BY StatementIs
  <2>3. \A x : Link(x).does # "commit"
    BY StatementIs
  <2>4. ~Stage1(s, d)
    BY <2>1, <2>2 DEF Stage1, End
  <2>5. ~Stage2(s, d)
    BY <2>1, <2>2 DEF Stage2, End
  <2>6. ~Stage4(s, d)
    BY <2>1, <2>2 DEF Stage4, End
  <2>7. ~Stage3(s, d)
    <3>1. s # <<Do("look_at_links"), Version(3), c>>
      BY <2>1
    <3>2. ASSUME NEW q, s = q \o End(3), Linking(q, d) PROVE FALSE
      <4>1. CASE q = <<>>
        <5>1. End(3) \in Seq({Version(3), c})
          BY DEF End
        <5>2. s = End(3)
          BY <3>2, <4>1, <5>1, JoinNone
        <5>3. Head(s) = Version(3)
          BY <5>2 DEF End
        <5> QED BY <2>2, <5>3
      <4>2. CASE q # <<>>
        <5>1. \E y \in Customers : Head(s) = Link(y)
          BY <3>2, <4>2, LinkHead
        <5> QED BY <2>3, <5>1
      <4> QED BY <4>1, <4>2
    <3> QED BY <3>1, <3>2 DEF Stage3
  <2> QED BY <2>4, <2>5, <2>6, <2>7
<1>5. s = <<c>>
  BY <1>1 DEF Progress
<1> HIDE DEF c
<1>2. Tail(<<c>>) = <<>>
  OBVIOUS
<1>3. /\ v \in 1..Newest /\ \A u \in 1..(v - 1) : Step(u, d)
      /\ d.keys = "legacy" => NoLinks(d)
      /\ d.factor # "none" => v = 4
      /\ Step(v, d) /\ d.version = v
  BY <1>1 DEF Progress
<1>4. Progress(v, <<>>, d)
  BY <1>3 DEF Progress
<1> QED BY <1>2, <1>3, <1>4, <1>5

\* A step begins where the last one left off.
LEMMA BeginStep ==
  ASSUME NEW d \in Databases, NEW v \in 0..Newest, v # Newest, d.version = v,
         \A u \in 1..v : Step(u, d), d.keys = "legacy" => NoLinks(d), d.factor = "none"
  PROVE  Progress(v + 1, Migration(v + 1), d)
<1>1. v + 1 \in 1..Newest /\ (v + 1) - 1 = v /\ v \in {0, 1, 2, 3}
  BY DEF Newest
<1> DEFINE m == Migration(v + 1)
<1>2. \/ v + 1 = 1 /\ Stage1(m, d)
      \/ v + 1 = 2 /\ Stage2(m, d)
      \/ v + 1 = 3 /\ Stage3(m, d)
      \/ v + 1 = 4 /\ Stage4(m, d)
  <2>1. CASE v = 0
    BY <2>1, MigrationIs DEF Stage1
  <2>2. CASE v = 1
    BY <2>2, MigrationIs DEF Stage2
  <2>3. CASE v = 2
    BY <2>3, MigrationIs DEF Stage3
  <2>4. CASE v = 3
    BY <2>4, MigrationIs DEF Stage4
  <2> QED BY <1>1, <2>1, <2>2, <2>3, <2>4
<1> HIDE DEF m
<1>3. Progress(v + 1, m, d)
  BY <1>1, <1>2 DEF Progress
<1> QED BY <1>3 DEF m

\* Where a process has done its step, all steps so far hold.
LEMMA DoneIs ==
  ASSUME NEW d \in Databases, NEW v, Progress(v, <<>>, d)
  PROVE  /\ v \in 1..Newest /\ d.version = v /\ \A u \in 1..v : Step(u, d)
         /\ d.keys = "legacy" => NoLinks(d)
         /\ d.factor # "none" => v = Newest
<1>1. ~Stage1(<<>>, d) /\ ~Stage2(<<>>, d) /\ ~Stage4(<<>>, d)
  BY DEF Stage1, Stage2, Stage4, End
<1>2. ~Stage3(<<>>, d)
  <2> SUFFICES ASSUME NEW q, <<>> = q \o End(3), Linking(q, d) PROVE FALSE
    BY DEF Stage3
  <2>1. q \in Seq(Statements) /\ End(3) \in Seq(Statements) /\ Len(End(3)) = 2
    BY StatementType DEF Linking, End, Newest, Plain
  <2>2. Len(q \o End(3)) = Len(q) + 2 /\ Len(q) \in Nat
    BY <2>1, Join
  <2>3. Len(<<>>) = 0
    OBVIOUS
  <2>4. Len(q) + 2 = 0
    BY <2>2, <2>3
  <2> QED BY <2>2, <2>4
<1>3. /\ v \in 1..Newest /\ \A u \in 1..(v - 1) : Step(u, d)
      /\ d.keys = "legacy" => NoLinks(d)
      /\ d.factor # "none" => v = 4
      /\ Step(v, d) /\ d.version = v
  BY <1>1, <1>2 DEF Progress
<1>4. \A u \in 1..v : u \in 1..(v - 1) \/ u = v
  BY <1>3 DEF Newest
<1> QED BY <1>3, <1>4 DEF Newest

\* Whatever is under way, the counter says what is there.
LEMMA CounterIs ==
  ASSUME NEW d \in Databases, NEW v, NEW s, Progress(v, s, d)
  PROVE  \A u \in 1..d.version : Step(u, d)
<1>1. /\ v \in 1..Newest /\ \A u \in 1..(v - 1) : Step(u, d)
      /\ d.version = v - 1 \/ (d.version = v /\ Step(v, d))
  BY DEF Progress
<1>2. \A u \in 1..v : u \in 1..(v - 1) \/ u = v
  BY <1>1 DEF Newest
<1> QED BY <1>1, <1>2

LEMMA FrameJoins ==
  ASSUME NEW d \in Databases, NEW e \in Databases, NEW f \in Databases, Frame(d, e), Frame(e, f)
  PROVE  Frame(d, f)
BY DEF Frame

-----------------------------------------------------------------------------
(* One process at a time *)

SoloKept == SoloInv' /\ (~hist'.together => Frame(db, db'))

\* The process at work is the only one, and who holds a transaction is at work.
LEMMA AloneIs ==
  ASSUME TypeOK, RowInv, Solo, NEW p \in Procs, phase[p] = "boot"
  PROVE  /\ \A q \in Procs : q # p => phase[q] # "boot" /\ tx.by # q
         /\ tx.by \in {p, None} /\ Progress(at[p], todo[p], Sees(p))
         /\ tx.by = p => Frame(db, tx.db) /\ tx.db \in Databases /\ Sees(p) = tx.db
         /\ tx.by # p => Sees(p) = db
<1>1. \A q \in Procs : q # p => phase[q] # "boot"
  BY DEF Solo
<1>2. \A q \in Procs : q # p => tx.by # q
  BY <1>1, NowIs DEF RowInv
<1>3. tx.by \in {p, None}
  BY <1>2 DEF TypeOK, NoTx
<1>4. p # None
  BY NowIs
<1> QED BY <1>1, <1>2, <1>3, <1>4 DEF Solo, Sees, TypeOK, NoTx

LEMMA ReadsSolo ==
  ASSUME TypeOK, RowInv, SoloInv, NEW p \in Procs, Reads(p)
  PROVE  SoloKept
<1> DEFINE t == Found(Now(p).does, Sees(p)) \o Tail(todo[p])
<1>1. /\ Sees(p) \in Databases /\ todo[p] \in Seq(Statements) /\ todo[p] # <<>>
      /\ Now(p) = Head(todo[p]) /\ Now(p).does \in Looks /\ phase[p] = "boot"
  BY NowIs DEF Reads
<1>2. /\ todo' = [todo EXCEPT ![p] = t]
      /\ UNCHANGED <<db, tx, phase, at, crashes, hist>>
  BY DEF Reads
<1>3. Frame(db, db')
  BY <1>2 DEF Frame
<1>4. ASSUME ~hist'.together PROVE Solo'
  <2>1. Solo
    BY <1>2, <1>4 DEF SoloInv
  <2>2. Progress(at[p], todo[p], Sees(p)) /\ \A q \in Procs : q # p => phase[q] # "boot"
    BY <1>1, <2>1, AloneIs
  <2>3. Progress(at[p], t, Sees(p))
    BY <1>1, <2>2, LookStep
  <2> HIDE DEF t
  <2>4. todo'[p] = t /\ Sees(p)' = Sees(p)
    BY <1>2 DEF TypeOK, Sees
  <2>5. ASSUME NEW q \in Procs, phase'[q] = "boot" PROVE Progress(at[q], todo[q], Sees(q))'
    <3>1. q = p
      BY <1>2, <2>2, <2>5
    <3> QED BY <1>2, <2>3, <2>4, <3>1
  <2> QED BY <1>2, <2>1, <2>5 DEF Solo, VersionAgrees
<1> QED BY <1>3, <1>4 DEF SoloKept, SoloInv

LEMMA ExecutesSolo ==
  ASSUME TypeOK, RowInv, SoloInv, NEW p \in Procs, Executes(p)
  PROVE  SoloKept
<1> DEFINE s == todo[p]
           d == Sees(p)
           e == After(Head(s), d, p)
           v == at[p]
<1>1. /\ d \in Databases /\ s # <<>> /\ p # None /\ Now(p) = Head(s) /\ Head(s) \in Statements
      /\ phase[p] = "boot"
  BY NowIs DEF Executes
<1>2. Now(p).does \notin Looks \cup {"commit"} /\ Legal(Now(p), d)
  BY DEF Executes
<1>3. /\ IF tx.by = p \/ Now(p).does \in Data THEN tx' = [by |-> p, db |-> After(Now(p), d, p)] /\ db' = db
         ELSE db' = After(Now(p), d, p) /\ tx' = tx
      /\ todo' = [todo EXCEPT ![p] = Tail(s)]
      /\ UNCHANGED <<phase, at, crashes, hist>>
  BY Zenon DEF Executes
<1>4. e \in Databases
  BY <1>1, <1>2, AfterType
<1>5. ASSUME ~hist'.together PROVE Solo' /\ Frame(db, db')
  <2>1. Solo
    BY <1>3, <1>5 DEF SoloInv
  <2>2. /\ \A q \in Procs : q # p => phase[q] # "boot" /\ tx.by # q
        /\ tx.by \in {p, None} /\ Progress(v, s, d)
        /\ tx.by = p => Frame(db, tx.db) /\ tx.db \in Databases /\ d = tx.db
        /\ tx.by # p => d = db
    BY <1>1, <2>1, AloneIs
  <2>3. Head(s).does \notin Looks \cup {"commit"}
    BY <1>1, <1>2
  <2>4. /\ Progress(v, Tail(s), e) /\ Frame(d, e)
        /\ d.version = v - 1 /\ (Head(s).does \notin Data => e.factor = d.factor)
    BY <1>1, <2>2, <2>3, ExecStep
  <2>5. /\ IF tx.by = p \/ Head(s).does \in Data THEN tx' = [by |-> p, db |-> e] /\ db' = db
           ELSE db' = e /\ tx' = tx
        /\ todo'[p] = Tail(s) /\ at'[p] = v /\ phase' = phase /\ hist' = hist
    BY <1>1, <1>3 DEF TypeOK
  <2>6. db \in Databases
    BY DEF TypeOK
  <2>7. \A u \in 1..e.version : Step(u, e)
    BY <1>4, <2>4, CounterIs
  <2>8. v \in 1..Newest /\ (e.keys = "legacy" => NoLinks(e))
    BY <2>4 DEF Progress
  <2>9. Frame(db, d)
    BY <2>2 DEF Frame
  <2> HIDE DEF e, d, s, v
  <2>10. Frame(db, e)
    BY <1>1, <1>4, <2>4, <2>6, <2>9, FrameJoins
  <2>11. Frame(db, db')
    BY <2>5, <2>10 DEF Frame
  <2>12. tx'.by # None => Frame(db', tx'.db)
    BY <2>2, <2>5, <2>10
  <2>13. Sees(p)' = e
    BY <2>2, <2>5 DEF Sees
  <2>14. \A q, r \in Procs : phase'[q] = "boot" /\ phase'[r] = "boot" => q = r
    BY <2>2, <2>5
  <2>15. ASSUME NEW q \in Procs, phase'[q] = "boot" PROVE Progress(at[q], todo[q], Sees(q))'
    <3>1. q = p
      BY <2>2, <2>5, <2>15
    <3> QED BY <2>4, <2>5, <2>13, <3>1
  <2>16. \A u \in 1..db'.version : Step(u, db')
    BY <2>1, <2>5, <2>7, <1>5 DEF Solo, VersionAgrees
  <2>17. db'.keys = "legacy" => NoLinks(db')
    BY <2>1, <2>5, <2>8 DEF Solo, NoLinks
  <2>18. db'.factor # "none" => db'.version = Newest
    <3>1. CASE db' = db
      BY <2>1, <3>1 DEF Solo
    <3>2. CASE db' # db
      <4>1. db' = e /\ d = db /\ Head(s).does \notin Data
        BY <2>2, <2>5, <3>2
      <4>2. db.version # Newest
        BY <2>4, <2>8, <4>1 DEF Newest
      <4> QED BY <2>1, <2>4, <4>1, <4>2 DEF Solo
    <3> QED BY <3>1, <3>2
  <2> QED BY <2>11, <2>12, <2>14, <2>15, <2>16, <2>17, <2>18 DEF Solo, VersionAgrees
<1> QED BY <1>5 DEF SoloKept, SoloInv

LEMMA CommitsSolo ==
  ASSUME TypeOK, RowInv, SoloInv, NEW p \in Procs, Commits(p)
  PROVE  SoloKept
<1> DEFINE s == todo[p]
           d == Sees(p)
           v == at[p]
<1>1. /\ d \in Databases /\ s # <<>> /\ p # None /\ None \notin Procs /\ Now(p) = Head(s)
      /\ phase[p] = "boot" /\ Now(p).does = "commit"
  BY NowIs DEF Commits
<1>2. /\ IF tx.by = p THEN db' = tx.db /\ tx' = NoTx ELSE UNCHANGED <<db, tx>>
      /\ todo' = [todo EXCEPT ![p] = Tail(s)]
      /\ UNCHANGED <<phase, at, crashes, hist>>
  BY Zenon DEF Commits
<1>3. ASSUME ~hist'.together PROVE Solo' /\ Frame(db, db')
  <2>1. Solo
    BY <1>2, <1>3 DEF SoloInv
  <2>2. /\ \A q \in Procs : q # p => phase[q] # "boot" /\ tx.by # q
        /\ tx.by \in {p, None} /\ Progress(v, s, d)
        /\ tx.by = p => Frame(db, tx.db) /\ d = tx.db
        /\ tx.by # p => d = db
    BY <1>1, <2>1, AloneIs
  <2>3. Head(s).does = "commit"
    BY <1>1
  <2>4. Tail(s) = <<>> /\ Progress(v, <<>>, d)
    BY <1>1, <2>2, <2>3, CommitStep
  <2>5. /\ v \in 1..Newest /\ d.version = v /\ \A u \in 1..v : Step(u, d)
        /\ d.keys = "legacy" => NoLinks(d)
        /\ d.factor # "none" => v = Newest
    BY <1>1, <2>4, DoneIs
  <2>6. todo'[p] = <<>> /\ at'[p] = v /\ phase' = phase
    BY <1>2, <2>4 DEF TypeOK
  <2> HIDE DEF d, s, v
  <2>7. db' = d /\ tx'.by = None
    BY <1>1, <1>2, <2>2 DEF NoTx
  <2>8. Frame(db, db')
    BY <1>2, <2>2, <2>7 DEF Frame
  <2>9. Sees(p)' = d
    BY <1>1, <2>7 DEF Sees
  <2>10. ASSUME NEW q \in Procs, phase'[q] = "boot" PROVE Progress(at[q], todo[q], Sees(q))'
    <3>1. q = p
      BY <2>2, <2>6, <2>10
    <3> QED BY <2>4, <2>6, <2>9, <3>1
  <2>11. \A q, r \in Procs : phase'[q] = "boot" /\ phase'[r] = "boot" => q = r
    BY <2>2, <2>6
  <2>12. /\ \A u \in 1..db'.version : Step(u, db')
         /\ db'.keys = "legacy" => NoLinks(db')
         /\ db'.factor # "none" => db'.version = Newest
    BY <2>5, <2>7
  <2> QED BY <2>7, <2>8, <2>10, <2>11, <2>12 DEF Solo, VersionAgrees
<1> QED BY <1>3 DEF SoloKept, SoloInv

LEMMA ArrivesSolo ==
  ASSUME TypeOK, RowInv, Solo, ~hist.together, NEW p \in Procs, tx.by # p, \A q \in Procs : q # p => phase[q] # "boot",
         NEW v \in 0..Newest, Arrives(p, v), UNCHANGED <<db, tx>>,
         v # Newest => db.version = v /\ db.factor = "none"
  PROVE  Solo'
<1>1. /\ \A q \in Procs : q # p => phase'[q] = phase[q]
      /\ v = Newest => phase'[p] = "up"
      /\ v # Newest => at'[p] = v + 1 /\ todo'[p] = Migration(v + 1)
  BY ArrivesIs
<1>2. db \in Databases /\ Sees(p)' = db
  BY DEF TypeOK, Sees
<1>3. ASSUME v # Newest PROVE Progress(v + 1, Migration(v + 1), db)
  <2>1. db.version = v /\ db.factor = "none"
    BY <1>3
  <2>2. (\A u \in 1..v : Step(u, db)) /\ (db.keys = "legacy" => NoLinks(db))
    BY <2>1 DEF Solo, VersionAgrees
  <2> QED BY <1>2, <1>3, <2>1, <2>2, BeginStep
<1>4. ASSUME NEW q \in Procs, phase'[q] = "boot" PROVE Progress(at[q], todo[q], Sees(q))'
  <2>1. q = p
    BY <1>1, <1>4
  <2>2. v # Newest
    BY <1>1, <1>4, <2>1
  <2> QED BY <1>1, <1>2, <1>3, <2>1, <2>2
<1>5. \A q, r \in Procs : phase'[q] = "boot" /\ phase'[r] = "boot" => q = r
  BY <1>1
<1>6. /\ \A u \in 1..db'.version : Step(u, db')
      /\ db'.keys = "legacy" => NoLinks(db')
      /\ db'.factor # "none" => db'.version = Newest
      /\ tx'.by # None => Frame(db', tx'.db)
  BY DEF Solo, VersionAgrees
<1> QED BY <1>4, <1>5, <1>6 DEF Solo, VersionAgrees

LEMMA DownSolo ==
  ASSUME TypeOK, RowInv, SoloInv, NEW p \in Procs, Down(p), db' = db
  PROVE  SoloKept
<1>1. /\ phase' = [phase EXCEPT ![p] = "down"] /\ at' = [at EXCEPT ![p] = 0]
      /\ todo' = [todo EXCEPT ![p] = <<>>]
      /\ tx' = IF tx.by = p THEN NoTx ELSE tx
      /\ hist' = [hist EXCEPT !.halted = @ \/ phase[p] = "boot"]
  BY DEF Down
<1>2. hist'.together = hist.together
  BY <1>1 DEF TypeOK
<1>3. Frame(db, db')
  BY DEF Frame
<1>4. ASSUME ~hist'.together PROVE Solo'
  <2>1. Solo
    BY <1>2, <1>4 DEF SoloInv
  <2>2. ASSUME NEW q \in Procs, phase'[q] = "boot" PROVE Progress(at[q], todo[q], Sees(q))'
    <3>1. q # p /\ phase[q] = "boot" /\ at'[q] = at[q] /\ todo'[q] = todo[q]
      BY <1>1, <2>2 DEF TypeOK
    <3>2. Sees(q)' = Sees(q)
      <4>1. CASE tx.by = p
        <5>1. tx'.by # q /\ tx.by # q
          BY <1>1, <3>1, <4>1, NowIs DEF NoTx
        <5> QED BY <5>1 DEF Sees
      <4>2. CASE tx.by # p
        BY <1>1, <4>2 DEF Sees
      <4> QED BY <4>1, <4>2
    <3>3. Progress(at[q], todo[q], Sees(q))
      BY <2>1, <3>1 DEF Solo
    <3> QED BY <3>1, <3>2, <3>3
  <2>3. \A q, r \in Procs : phase'[q] = "boot" /\ phase'[r] = "boot" => q = r
    <3>1. \A q \in Procs : phase'[q] = "boot" => phase[q] = "boot"
      BY <1>1 DEF TypeOK
    <3> QED BY <2>1, <3>1 DEF Solo
  <2>4. tx'.by # None => Frame(db', tx'.db)
    BY <1>1, <2>1 DEF Solo, NoTx
  <2>5. /\ \A u \in 1..db'.version : Step(u, db')
        /\ db'.keys = "legacy" => NoLinks(db')
        /\ db'.factor # "none" => db'.version = Newest
    BY <1>2, <1>4, <2>1 DEF Solo, VersionAgrees
  <2> QED BY <2>2, <2>3, <2>4, <2>5 DEF Solo, VersionAgrees
<1> QED BY <1>3, <1>4 DEF SoloKept, SoloInv

LEMMA SwitchesOffSolo ==
  ASSUME TypeOK, RowInv, SoloInv, NEW p \in Procs, SwitchesOff(p)
  PROVE  SoloKept
<1>1. /\ db' = [db EXCEPT !.factor = "off"] /\ tx = NoTx /\ db.factor = "on"
      /\ tx' = tx /\ phase' = phase /\ at' = at /\ todo' = todo /\ hist' = hist
  BY DEF SwitchesOff, procs
<1>2. /\ db'.version = db.version /\ db'.keys = db.keys /\ db'.link = db.link /\ db'.factor = "off"
      /\ db'.rows = db.rows /\ db'.objects = db.objects /\ db'.column = db.column
      /\ db'.stored = db.stored
  BY <1>1 DEF TypeOK, Databases
<1>3. Frame(db, db')
  BY <1>2 DEF Frame
<1>4. ASSUME ~hist'.together PROVE Solo'
  <2>1. Solo
    BY <1>1, <1>4 DEF SoloInv
  <2>2. db.version = Newest /\ \A u \in 1..db.version : Step(u, db)
    BY <1>1, <1>4, <2>1 DEF Solo, VersionAgrees
  <2>3. \A u \in 1..4 : Step(u, db')
    <3>1. /\ Step(1, db) => Step(1, db')
          /\ Step(2, db) => Step(2, db')
          /\ Step(3, db) => Step(3, db')
          /\ Step(4, db) => Step(4, db')
      BY <1>2 DEF Step
    <3>2. \A u \in 1..4 : u = 1 \/ u = 2 \/ u = 3 \/ u = 4
      OBVIOUS
    <3> QED BY <2>2, <3>1, <3>2 DEF Newest
  <2>4. ASSUME NEW q \in Procs, phase'[q] = "boot" PROVE Progress(at[q], todo[q], Sees(q))'
    <3>1. Sees(q) = db /\ Sees(q)' = db'
      BY <1>1, NowIs DEF Sees, NoTx
    <3>2. Progress(at[q], todo[q], db)
      BY <1>1, <2>1, <2>4, <3>1 DEF Solo
    <3>3. at[q] = 4 /\ todo[q] \in {<<Do("commit")>>, <<>>}
      BY <1>1, <2>2, <3>2 DEF Progress, Newest
    <3>4. Progress(at[q], todo[q], db')
      BY <1>2, <2>2, <2>3, <3>2, <3>3 DEF Progress, NoLinks, Newest
    <3> QED BY <1>1, <3>1, <3>4
  <2>5. \A q, r \in Procs : phase'[q] = "boot" /\ phase'[r] = "boot" => q = r
    BY <1>1, <2>1 DEF Solo
  <2>6. db'.keys = "legacy" => NoLinks(db')
    BY <1>2, <2>1 DEF Solo, NoLinks
  <2>7. tx'.by = None
    BY <1>1 DEF NoTx
  <2> QED BY <1>2, <2>2, <2>3, <2>4, <2>5, <2>6, <2>7 DEF Solo, VersionAgrees, Newest
<1> QED BY <1>3, <1>4 DEF SoloKept, SoloInv

LEMMA SoloStep ==
  ASSUME TypeOK, RowInv, SoloInv, [Next]_vars
  PROVE  SoloKept
<1>1. CASE UNCHANGED vars
  <2>1. db' = db /\ tx' = tx /\ phase' = phase /\ at' = at /\ todo' = todo /\ hist' = hist
    BY <1>1 DEF vars
  <2>2. Frame(db, db')
    BY <2>1 DEF Frame
  <2>3. SoloInv'
    BY <2>1 DEF SoloInv, Solo, VersionAgrees, Sees
  <2> QED BY <2>2, <2>3 DEF SoloKept
<1>2. ASSUME NEW p \in Procs, Starts(p) PROVE SoloKept
  <2>1. /\ phase[p] = "down" /\ Arrives(p, db.version) /\ UNCHANGED <<db, tx, crashes>>
        /\ hist' = [hist EXCEPT !.together = @ \/ \E q \in Procs : phase[q] = "boot"]
    BY <1>2 DEF Starts, Have
  <2>2. Frame(db, db')
    BY <2>1 DEF Frame
  <2>3. ASSUME ~hist'.together PROVE Solo'
    <3>1. Solo /\ ~hist.together /\ \A q \in Procs : phase[q] # "boot"
      BY <2>1, <2>3 DEF SoloInv, TypeOK
    <3>2. db.version \in 0..Newest
      BY DEF TypeOK, Databases
    <3>3. tx.by # p
      BY <2>1, HolderBoots
    <3>4. db.version # Newest => db.factor = "none"
      BY <3>1 DEF Solo
    <3> QED BY <2>1, <3>1, <3>2, <3>3, <3>4, ArrivesSolo
  <2> QED BY <2>2, <2>3 DEF SoloKept, SoloInv
<1>3. ASSUME NEW p \in Procs, NextStep(p) PROVE SoloKept
  <2>1. /\ phase[p] = "boot" /\ todo[p] = <<>> /\ Arrives(p, at[p])
        /\ UNCHANGED <<db, tx, crashes, hist>>
    BY <1>3 DEF NextStep
  <2>2. Frame(db, db')
    BY <2>1 DEF Frame
  <2>3. ASSUME ~hist'.together PROVE Solo'
    <3>1. Solo /\ ~hist.together
      BY <2>1, <2>3 DEF SoloInv
    <3>2. tx.by # p
      BY <2>1, HolderBoots
    <3>3. /\ \A q \in Procs : q # p => phase[q] # "boot"
          /\ Progress(at[p], <<>>, db)
      BY <2>1, <3>1, <3>2, AloneIs
    <3>4. at[p] \in 0..Newest /\ db \in Databases
      BY DEF TypeOK
    <3>5. db.version = at[p] /\ (db.factor # "none" => at[p] = Newest)
      BY <3>3, <3>4, DoneIs
    <3> QED BY <2>1, <3>1, <3>2, <3>3, <3>4, <3>5, ArrivesSolo
  <2> QED BY <2>2, <2>3 DEF SoloKept, SoloInv
<1>4. ASSUME NEW p \in Procs, Raises(p) \/ Crash(p) PROVE SoloKept
  <2>1. Down(p) /\ db' = db
    BY <1>4 DEF Raises, Crash
  <2> QED BY <2>1, DownSolo
<1> QED
  BY <1>1, <1>2, <1>3, <1>4, ReadsSolo, ExecutesSolo, CommitsSolo, SwitchesOffSolo DEF Next, Goes

-----------------------------------------------------------------------------
(* The theorems *)

LEMMA MigrationInit ==
  ASSUME Init
  PROVE  MigrationInv
<1>1. /\ tx = NoTx /\ phase = [p \in Procs |-> "down"] /\ at = [p \in Procs |-> 0]
      /\ todo = [p \in Procs |-> <<>>] /\ crashes = MaxCrashes
      /\ hist = [together |-> FALSE, halted |-> FALSE]
  BY DEF Init
<1>2. /\ Empty \in Databases /\ Empty.version = 0 /\ Empty.factor = "none" /\ Empty.keys = "none"
      /\ Empty = [version |-> 0, keys |-> "none", rows |-> {}, old |-> None,
                  link |-> [c \in Customers |-> None], objects |-> FALSE, column |-> FALSE,
                  factor |-> "none", stored |-> FALSE]
  BY DEF Empty, Databases, Newest
<1>3. /\ db \in Databases /\ db.version = 0 /\ db.factor = "none"
      /\ db.keys = "legacy" => NoLinks(db)
  <2>1. CASE db = Empty
    BY <1>2, <2>1
  <2>2. ASSUME NEW kind \in {"legacy", "early"}, NEW stored \in BOOLEAN, NEW p \in Procs,
               NEW linked \in SUBSET Customers,
               db = [Empty EXCEPT !.keys = kind, !.rows = Customers, !.stored = stored,
                                  !.link = [c \in Customers |->
                                    IF kind = "early" /\ c \in linked THEN p ELSE None]]
        PROVE  /\ db \in Databases /\ db.version = 0 /\ db.factor = "none"
               /\ db.keys = "legacy" => NoLinks(db)
    <3> DEFINE ll == [c \in Customers |-> IF kind = "early" /\ c \in linked THEN p ELSE None]
    <3>1. ll \in [Customers -> Procs \cup {None}] /\ (kind = "legacy" => \A c \in Customers : ll[c] = None)
      OBVIOUS
    <3>2. db = [Empty EXCEPT !.keys = kind, !.rows = Customers, !.stored = stored, !.link = ll]
      BY <2>2
    <3> HIDE DEF ll
    <3>3. /\ db \in Databases /\ db.version = 0 /\ db.factor = "none" /\ db.keys = kind /\ db.link = ll
      BY <1>2, <3>1, <3>2 DEF Databases
    <3> QED BY <3>1, <3>3 DEF NoLinks
  <2>3. \/ db = Empty
        \/ \E kind \in {"legacy", "early"}, stored \in BOOLEAN, p \in Procs,
             linked \in SUBSET Customers :
             db = [Empty EXCEPT !.keys = kind, !.rows = Customers, !.stored = stored,
                                !.link = [c \in Customers |->
                                  IF kind = "early" /\ c \in linked THEN p ELSE None]]
    BY Zenon DEF Init
  <2>4. CASE db # Empty
    <3>1. PICK kind \in {"legacy", "early"}, stored \in BOOLEAN, p \in Procs,
               linked \in SUBSET Customers :
             db = [Empty EXCEPT !.keys = kind, !.rows = Customers, !.stored = stored,
                                !.link = [c \in Customers |->
                                  IF kind = "early" /\ c \in linked THEN p ELSE None]]
      BY Zenon, <2>3, <2>4
    <3> QED BY <2>2, <3>1
  <2> QED BY <2>1, <2>4
<1>4. TypeOK
  <2>1. hist \in [together : BOOLEAN, halted : BOOLEAN]
    BY <1>1
  <2>2. phase \in [Procs -> {"down", "boot", "up"}] /\ at \in [Procs -> 0..Newest]
    BY <1>1 DEF Newest
  <2>3. todo \in [Procs -> Seq(Statements)]
    BY <1>1
  <2>4. crashes \in 0..MaxCrashes
    BY <1>1, ConstantsAssumption
  <2> QED BY <1>1, <1>3, <2>1, <2>2, <2>3, <2>4 DEF TypeOK
<1>5. \A i \in 2..Len(<<>>) : FALSE
  OBVIOUS
<1>6. Chain(<<>>)
  BY <1>5 DEF Chain
<1>7. RowInv
  BY <1>1, <1>6, ConstantsAssumption DEF RowInv, TodoOK, NoTx
<1>8. SoloInv
  BY <1>1, <1>3 DEF SoloInv, Solo, VersionAgrees, NoTx
<1> QED BY <1>4, <1>7, <1>8 DEF MigrationInv

\* The types, who may be at work with what, and where each step is.
THEOREM MigrationHolds == Spec => []MigrationInv
<1>1. MigrationInv /\ [Next]_vars => MigrationInv'
  BY RowStep, SoloStep DEF MigrationInv, RowKept, SoloKept
<1> QED BY MigrationInit, <1>1, PTL DEF Spec

\* The counter says what is there, for as long as no two processes migrate at once: crashes
\* and failed statements leave every step that is counted complete (DB._migrate).
THEOREM CounterIsTrue == Spec => []SchemaInv
<1>1. MigrationInv => SchemaInv
  BY DEF MigrationInv, SoloInv, Solo, SchemaInv, VersionAgrees
<1> QED BY <1>1, MigrationHolds, PTL

\* No customer's row is lost in an upgrade, whoever else migrates and whatever dies
\* (_migrate_keys).
THEOREM RowsAreKept == Spec => NoRowIsLost
<1>1. MigrationInv /\ [Next]_vars => Kept(db) \subseteq Kept(db')
  BY RowStep DEF MigrationInv, RowKept
<1>2. MigrationInv /\ [Next]_vars => [Kept(db) \subseteq Kept(db')]_vars
  BY <1>1
<1> QED BY <1>2, MigrationHolds, PTL DEF Spec, NoRowIsLost

\* A start takes no link away and does not bring back a second factor that the owner has
\* switched off, while processes start one after the other.
THEOREM StartsKeep == Spec => StartsUndoNothing
<1>1. MigrationInv /\ [Next]_vars =>
        [~hist'.together =>
           /\ \A c \in Customers : db.link[c] # None => db'.link[c] = db.link[c]
           /\ db.factor = "off" => db'.factor = "off"]_vars
  BY SoloStep DEF MigrationInv, SoloKept, Frame
<1> QED BY <1>1, MigrationHolds, PTL DEF Spec, StartsUndoNothing
=============================================================================
