------------------------------ MODULE StorageProofs ------------------------------
(***************************************************************************)
(* What is true of Storage for every number of processes, of tasks of each *)
(* kind in each of them, and of crashes.                                   *)
(***************************************************************************)
EXTENDS Storage, SequenceTheorems, TLAPS

-----------------------------------------------------------------------------
(* Where a task stands in its program *)

\* Two sequences, one after the other.
LEMMA ConcatAt ==
  ASSUME NEW S, NEW s \in Seq(S), NEW r \in Seq(S)
  PROVE  /\ s \o r \in Seq(S) /\ Len(s \o r) = Len(s) + Len(r)
         /\ Len(s) \in Nat /\ Len(r) \in Nat
         /\ \A i \in 1..Len(s) : (s \o r)[i] = s[i]
         /\ \A i \in 1..Len(r) : (s \o r)[Len(s) + i] = r[i]
<1>1. Len(s) \in Nat /\ Len(r) \in Nat
  BY LenProperties
<1>2. /\ s \o r \in Seq(S) /\ Len(s \o r) = Len(s) + Len(r)
      /\ \A i \in 1..(Len(s) + Len(r)) :
           (s \o r)[i] = IF i <= Len(s) THEN s[i] ELSE r[i - Len(s)]
  BY ConcatProperties
<1> DEFINE m == Len(s)
           n == Len(r)
           c == s \o r
<1>3. \A i \in 1..m : c[i] = s[i]
  BY <1>1, <1>2
<1>4. ASSUME NEW i \in 1..n PROVE c[m + i] = r[i]
  <2> HIDE DEF c, m, n
  <2>1. m + i \in 1..(m + n) /\ ~(m + i <= m) /\ m + i - m = i
    BY <1>1, <1>4 DEF m, n
  <2> QED BY <1>2, <2>1 DEF c, m, n
<1> QED BY <1>1, <1>2, <1>3, <1>4

LEMMA StatementType ==
  /\ \A what \in {"write", "wipe", "read"}, b \in Tables : Say(what, b) \in Statements
  /\ Say("commit", None) \in Statements /\ Say("look", None) \in Statements
  /\ Say("vacuum", "partial") \in Statements /\ Say("end", None) \in Statements
  /\ Say("rename", None) \in Statements
BY DEF Say, Statements, Names

LEMMA EachIs ==
  ASSUME NEW what \in {"write", "wipe", "read"}, NEW tables \in Seq(Tables)
  PROVE  /\ Each(what, tables) \in Seq(Statements) /\ Len(Each(what, tables)) = Len(tables)
         /\ \A i \in 1..Len(tables) : Each(what, tables)[i] = Say(what, tables[i])
<1>1. Len(tables) \in Nat /\ \A i \in 1..Len(tables) : tables[i] \in Tables
  BY LenProperties, ElementOfSeq
<1>2. \A i \in 1..Len(tables) : Say(what, tables[i]) \in Statements
  BY <1>1, StatementType
<1>3. Each(what, tables) = [i \in 1..Len(tables) |-> Say(what, tables[i])]
  BY DEF Each
<1> QED BY <1>1, <1>2, <1>3

LEMMA WritesAre ==
  ASSUME NEW tables \in Seq(Tables)
  PROVE  /\ Writes(tables) \in Seq(Statements) /\ Len(Writes(tables)) = Len(tables) + 1
         /\ \A i \in 1..Len(tables) : Writes(tables)[i] = Say("write", tables[i])
         /\ Writes(tables)[Len(tables) + 1] = Say("commit", None)
<1> DEFINE s == Each("write", tables)
           c == <<Say("commit", None)>>
<1>1. /\ s \in Seq(Statements) /\ Len(s) = Len(tables) /\ Len(tables) \in Nat
      /\ \A i \in 1..Len(tables) : s[i] = Say("write", tables[i])
  BY EachIs, LenProperties
<1>2. c \in Seq(Statements) /\ Len(c) = 1 /\ c[1] = Say("commit", None)
  BY StatementType
<1>3. Writes(tables) = s \o c
  BY DEF Writes
<1> HIDE DEF s, c
<1>6. s \in Seq(Statements) /\ c \in Seq(Statements)
  BY <1>1, <1>2
<1>4. /\ s \o c \in Seq(Statements) /\ Len(s \o c) = Len(s) + Len(c)
      /\ \A i \in 1..Len(s) : (s \o c)[i] = s[i]
      /\ \A i \in 1..Len(c) : (s \o c)[Len(s) + i] = c[i]
  BY <1>6, ConcatAt
<1>5. (s \o c)[Len(tables) + 1] = Say("commit", None)
  BY <1>1, <1>2, <1>4
<1> QED BY <1>1, <1>2, <1>3, <1>4, <1>5

LEMMA OrderIs ==
  /\ InOrder \in Seq(Tables) /\ Len(InOrder) = 5
  /\ InOrder[1] = "servers" /\ InOrder[2] = "keys" /\ InOrder[3] = "settings"
  /\ InOrder[4] = "admins" /\ InOrder[5] = "ledger"
BY DEF InOrder, Tables

\* The statements of each kind of task.
LEMMA EditIs ==
  LET P == Program("edit") IN
  P \in Seq(Statements) /\ Len(P) = 2 /\ P[1] = Say("write", "settings") /\ P[2] = Say("commit", None)
<1>1. <<"settings">> \in Seq(Tables) /\ Len(<<"settings">>) = 1 /\ <<"settings">>[1] = "settings"
  BY DEF Tables
<1>2. Program("edit") = Writes(<<"settings">>)
  BY DEF Program
<1> DEFINE s == <<"settings">>
<1>3. s \in Seq(Tables) /\ Len(s) = 1 /\ s[1] = "settings" /\ Program("edit") = Writes(s)
  BY <1>1, <1>2
<1> HIDE DEF s
<1>4. /\ Writes(s) \in Seq(Statements) /\ Len(Writes(s)) = Len(s) + 1
      /\ \A i \in 1..Len(s) : Writes(s)[i] = Say("write", s[i])
      /\ Writes(s)[Len(s) + 1] = Say("commit", None)
  BY <1>3, WritesAre
<1> QED BY <1>3, <1>4

LEMMA RemovalIs ==
  LET P == Program("removal") IN
  /\ P \in Seq(Statements) /\ Len(P) = 3
  /\ P[1] = Say("write", "servers") /\ P[2] = Say("write", "keys") /\ P[3] = Say("commit", None)
<1> DEFINE s == <<"servers", "keys">>
<1>1. s \in Seq(Tables) /\ Len(s) = 2 /\ s[1] = "servers" /\ s[2] = "keys"
  BY DEF Tables
<1>2. Program("removal") = Writes(s)
  BY DEF Program, Removal
<1> HIDE DEF s
<1>3. /\ Writes(s) \in Seq(Statements) /\ Len(Writes(s)) = Len(s) + 1
      /\ \A i \in 1..Len(s) : Writes(s)[i] = Say("write", s[i])
      /\ Writes(s)[Len(s) + 1] = Say("commit", None)
  BY <1>1, WritesAre
<1> QED BY <1>1, <1>2, <1>3

LEMMA SaleIs ==
  LET P == Program("sale") IN
  /\ P \in Seq(Statements) /\ Len(P) = 3
  /\ P[1] = Say("write", "admins") /\ P[2] = Say("write", "ledger") /\ P[3] = Say("commit", None)
<1> DEFINE s == <<"admins", "ledger">>
<1>1. s \in Seq(Tables) /\ Len(s) = 2 /\ s[1] = "admins" /\ s[2] = "ledger"
  BY DEF Tables
<1>2. Program("sale") = Writes(s)
  BY DEF Program
<1> HIDE DEF s
<1>3. /\ Writes(s) \in Seq(Statements) /\ Len(Writes(s)) = Len(s) + 1
      /\ \A i \in 1..Len(s) : Writes(s)[i] = Say("write", s[i])
      /\ Writes(s)[Len(s) + 1] = Say("commit", None)
  BY <1>1, WritesAre
<1> QED BY <1>1, <1>2, <1>3

LEMMA RestoreIs ==
  LET P == Program("restore") IN
  /\ P \in Seq(Statements) /\ Len(P) = 11
  /\ \A i \in 1..5 : P[i] = Say("wipe", InOrder[i]) /\ P[5 + i] = Say("write", InOrder[i])
  /\ P[11] = Say("commit", None)
<1> DEFINE a == Each("wipe", InOrder)
           b == Each("write", InOrder)
           c == <<Say("commit", None)>>
<1>1. /\ a \in Seq(Statements) /\ Len(a) = 5 /\ \A i \in 1..5 : a[i] = Say("wipe", InOrder[i])
      /\ b \in Seq(Statements) /\ Len(b) = 5 /\ \A i \in 1..5 : b[i] = Say("write", InOrder[i])
  BY OrderIs, EachIs
<1>2. c \in Seq(Statements) /\ Len(c) = 1 /\ c[1] = Say("commit", None)
  BY StatementType
<1>3. Program("restore") = a \o b \o c
  BY DEF Program, Restore
<1> HIDE DEF a, b, c
<1>11. a \in Seq(Statements) /\ b \in Seq(Statements)
  BY <1>1
<1>4. /\ a \o b \in Seq(Statements) /\ Len(a \o b) = Len(a) + Len(b)
      /\ \A i \in 1..Len(a) : (a \o b)[i] = a[i]
      /\ \A i \in 1..Len(b) : (a \o b)[Len(a) + i] = b[i]
  BY <1>11, ConcatAt
<1> DEFINE d == a \o b
<1>5. /\ d \in Seq(Statements) /\ Len(d) = 10
      /\ \A i \in 1..5 : d[i] = a[i] /\ d[5 + i] = b[i]
  BY <1>1, <1>4
<1>6. Program("restore") = d \o c
  BY <1>3
<1> HIDE DEF d
<1>12. d \in Seq(Statements) /\ c \in Seq(Statements)
  BY <1>2, <1>5
<1>7. /\ d \o c \in Seq(Statements) /\ Len(d \o c) = Len(d) + Len(c)
      /\ \A i \in 1..Len(d) : (d \o c)[i] = d[i]
      /\ \A i \in 1..Len(c) : (d \o c)[Len(d) + i] = c[i]
  BY <1>12, ConcatAt
<1> DEFINE P == d \o c
<1>8. P \in Seq(Statements) /\ Len(P) = 11 /\ \A i \in 1..10 : P[i] = d[i]
  BY <1>2, <1>5, <1>7
<1>9. P[11] = c[1]
  BY <1>2, <1>5, <1>7
<1> HIDE DEF P
<1>10. \A i \in 1..5 : P[i] = Say("wipe", InOrder[i]) /\ P[5 + i] = Say("write", InOrder[i])
  BY <1>1, <1>5, <1>8
<1> QED BY <1>2, <1>6, <1>8, <1>9, <1>10 DEF P

LEMMA ExportIs ==
  LET P == Program("export") IN
  P \in Seq(Statements) /\ Len(P) = 5 /\ \A i \in 1..5 : P[i] = Say("read", InOrder[i])
<1>1. Program("export") = Each("read", InOrder)
  BY DEF Program
<1> QED BY <1>1, OrderIs, EachIs

LEMMA SnapshotIs ==
  LET P == Program("snapshot") IN
  /\ P \in Seq(Statements) /\ Len(P) = 6
  /\ P[1] = Say("look", None) /\ P[2] = Say("vacuum", "partial") /\ P[3] = Say("end", None)
  /\ P[4] = Say("rename", None) /\ P[5] = Say("write", "settings") /\ P[6] = Say("commit", None)
<1> DEFINE a == MakeBackup
           b == Writes(<<"settings">>)
<1>1. <<"settings">> \in Seq(Tables) /\ Len(<<"settings">>) = 1 /\ <<"settings">>[1] = "settings"
  BY DEF Tables
<1>2. /\ b \in Seq(Statements) /\ Len(b) = 2
      /\ b[1] = Say("write", "settings") /\ b[2] = Say("commit", None)
  <2> DEFINE s == <<"settings">>
  <2>1. s \in Seq(Tables) /\ Len(s) = 1 /\ s[1] = "settings" /\ b = Writes(s)
    BY <1>1
  <2> HIDE DEF s, b
  <2>2. /\ Writes(s) \in Seq(Statements) /\ Len(Writes(s)) = Len(s) + 1
        /\ \A i \in 1..Len(s) : Writes(s)[i] = Say("write", s[i])
        /\ Writes(s)[Len(s) + 1] = Say("commit", None)
    BY <2>1, WritesAre
  <2> QED BY <2>1, <2>2
<1>3. /\ a \in Seq(Statements) /\ Len(a) = 4
      /\ a[1] = Say("look", None) /\ a[2] = Say("vacuum", "partial") /\ a[3] = Say("end", None)
      /\ a[4] = Say("rename", None)
  BY StatementType DEF MakeBackup
<1>4. Program("snapshot") = a \o b
  BY DEF Program
<1> HIDE DEF a, b
<1>8. a \in Seq(Statements) /\ b \in Seq(Statements)
  BY <1>2, <1>3
<1>5. /\ a \o b \in Seq(Statements) /\ Len(a \o b) = Len(a) + Len(b)
      /\ \A i \in 1..Len(a) : (a \o b)[i] = a[i]
      /\ \A i \in 1..Len(b) : (a \o b)[Len(a) + i] = b[i]
  BY <1>8, ConcatAt
<1> DEFINE P == a \o b
<1>6. /\ P \in Seq(Statements) /\ Len(P) = 6
      /\ P[1] = a[1] /\ P[2] = a[2] /\ P[3] = a[3] /\ P[4] = a[4] /\ P[5] = b[1] /\ P[6] = b[2]
  BY <1>2, <1>3, <1>5
<1>7. Program("snapshot") = P
  BY <1>4
<1> HIDE DEF P
<1> QED BY <1>2, <1>3, <1>6, <1>7

\* What is left of a program.
LEMMA LeftIs ==
  ASSUME NEW k \in Kinds
  PROVE  /\ Program(k) \in Seq(Statements) /\ Len(Program(k)) \in 2..11
         /\ Left(k, 0) = Program(k) /\ Left(k, Len(Program(k))) = <<>>
         /\ \A n \in 0..Len(Program(k)) :
              Left(k, n) \in Seq(Statements) /\ Len(Left(k, n)) = Len(Program(k)) - n
         /\ \A n \in 0..(Len(Program(k)) - 1) :
              Head(Left(k, n)) = Program(k)[n + 1] /\ Tail(Left(k, n)) = Left(k, n + 1)
<1> DEFINE P == Program(k)
           N == Len(P)
<1>1. P \in Seq(Statements) /\ N \in 2..11
  <2>1. /\ Program("edit") \in Seq(Statements) /\ Len(Program("edit")) = 2
        /\ Program("removal") \in Seq(Statements) /\ Len(Program("removal")) = 3
        /\ Program("sale") \in Seq(Statements) /\ Len(Program("sale")) = 3
        /\ Program("restore") \in Seq(Statements) /\ Len(Program("restore")) = 11
        /\ Program("export") \in Seq(Statements) /\ Len(Program("export")) = 5
        /\ Program("snapshot") \in Seq(Statements) /\ Len(Program("snapshot")) = 6
    BY EditIs, RemovalIs, SaleIs, RestoreIs, ExportIs, SnapshotIs
  <2> QED BY <2>1 DEF Kinds
<1> HIDE DEF P
<1>2. \A i \in 1..N : P[i] \in Statements
  BY <1>1, ElementOfSeq
<1>3. ASSUME NEW n \in 0..N
      PROVE  SubSeq(P, n + 1, N) \in Seq(Statements) /\ Len(SubSeq(P, n + 1, N)) = N - n
  <2>1. \A i \in (n + 1)..N : P[i] \in Statements
    BY <1>1, <1>2, <1>3
  <2> QED BY <1>1, <1>3, <2>1, SubSeqProperties
<1>4. ASSUME NEW n \in 0..(N - 1)
      PROVE  Head(SubSeq(P, n + 1, N)) = P[n + 1] /\ Tail(SubSeq(P, n + 1, N)) = SubSeq(P, n + 2, N)
  <2>1. n + 1 \in 1..N /\ N \in (n + 1)..N
    BY <1>1, <1>4
  <2> QED BY <1>1, <2>1, HeadTailOfSubSeq
<1>5. SubSeq(P, 1, N) = P
  BY <1>1, SubSeqFull
<1>6. SubSeq(P, N + 1, N) = <<>>
  BY <1>1, SubSeqEmpty
<1>7. \A n : Left(k, n) = SubSeq(P, n + 1, N)
  BY DEF Left, P
<1>8. Left(k, 0) = P /\ Left(k, N) = <<>>
  <2>1. Left(k, 0) = SubSeq(P, 0 + 1, N) /\ Left(k, N) = SubSeq(P, N + 1, N)
    BY <1>7
  <2>2. 0 + 1 = 1
    OBVIOUS
  <2> QED BY <1>5, <1>6, <2>1, <2>2
<1>9. \A n \in 0..(N - 1) : n + 1 + 1 = n + 2
  BY <1>1
<1> QED BY <1>1, <1>3, <1>4, <1>7, <1>8, <1>9 DEF P

\* How many statements a task has behind it.
P(t) == Program(Kind[t])
Pos(t) == Len(P(t)) - Len(todo[t])

LEMMA PosIs ==
  ASSUME TypeOK, NEW t \in Tasks
  PROVE  /\ Pos(t) \in 0..Len(P(t)) /\ Len(P(t)) \in 2..11 /\ Kind[t] \in Kinds
         /\ todo[t] = Left(Kind[t], Pos(t))
         /\ todo[t] # <<>> <=> Pos(t) < Len(P(t))
         /\ todo[t] # <<>> => Head(todo[t]) = P(t)[Pos(t) + 1]
         /\ Runs(t) <=> 0 < Pos(t) /\ Pos(t) < Len(P(t))
<1> DEFINE k == Kind[t]
           N == Len(Program(k))
<1>1. k \in Kinds
  BY ConstantsAssumption
<1> HIDE DEF k
<1>2. PICK n \in 0..N : todo[t] = Left(k, n)
  BY DEF TypeOK, k
<1>3. Len(Left(k, n)) = N - n /\ N \in 2..11
  BY <1>1, <1>2, LeftIs
<1>4. Pos(t) = n
  BY <1>2, <1>3 DEF Pos, P, k
<1>5. ASSUME n < N PROVE Len(Left(k, n)) # 0 /\ Head(Left(k, n)) = Program(k)[n + 1]
  <2>1. n \in 0..(Len(Program(k)) - 1)
    BY <1>2, <1>3, <1>5
  <2>2. Head(Left(k, n)) = Program(k)[n + 1]
    BY <1>1, <2>1, LeftIs
  <2> QED BY <1>2, <1>3, <1>5, <2>2
<1>6. n = N => Left(k, n) = <<>>
  BY <1>1, LeftIs
<1>7. Left(k, n) # <<>> <=> n < N
  BY <1>2, <1>3, <1>5, <1>6, EmptySeq
<1>8. n = 0 => Left(k, n) = Program(k)
  BY <1>1, LeftIs
<1>9. n # 0 => Left(k, n) # Program(k)
  BY <1>2, <1>3
<1>10. Runs(t) <=> Left(k, n) # <<>> /\ Left(k, n) # Program(k)
  BY <1>2 DEF Runs, k
<1>11. Runs(t) <=> 0 < n /\ n < N
  BY <1>2, <1>7, <1>8, <1>9, <1>10
<1> QED BY <1>1, <1>2, <1>3, <1>4, <1>5, <1>7, <1>11 DEF P, k

\* A list of statements that is what is left after n of them.
LEMMA MovesTo ==
  ASSUME TypeOK, NEW t \in Tasks, NEW n \in 0..Len(P(t)), todo' = [todo EXCEPT ![t] = Left(Kind[t], n)]
  PROVE  /\ todo' \in [Tasks -> Seq(Statements)]
         /\ \A u \in Tasks : \E m \in 0..Len(P(u)) : todo'[u] = Left(Kind[u], m)
         /\ Pos(t)' = n /\ \A u \in Tasks \ {t} : todo'[u] = todo[u]
<1>1. Kind[t] \in Kinds
  BY ConstantsAssumption
<1>2. /\ Left(Kind[t], n) \in Seq(Statements) /\ Len(Left(Kind[t], n)) = Len(P(t)) - n
      /\ Len(P(t)) \in 2..11
  BY <1>1, LeftIs DEF P
<1>3. todo'[t] = Left(Kind[t], n) /\ \A u \in Tasks \ {t} : todo'[u] = todo[u]
  BY DEF TypeOK
<1>4. todo' \in [Tasks -> Seq(Statements)]
  BY <1>2 DEF TypeOK
<1>5. ASSUME NEW u \in Tasks PROVE \E m \in 0..Len(P(u)) : todo'[u] = Left(Kind[u], m)
  BY <1>3 DEF TypeOK, P
<1>6. Pos(t)' = n
  BY <1>2, <1>3 DEF Pos, P
<1> QED BY <1>3, <1>4, <1>5, <1>6

LEMMA GoesTo ==
  ASSUME TypeOK, NEW t \in Tasks, Goes(t), todo[t] # <<>>
  PROVE  /\ Pos(t) + 1 \in 0..Len(P(t)) /\ todo' = [todo EXCEPT ![t] = Left(Kind[t], Pos(t) + 1)]
<1>1. /\ Pos(t) \in 0..(Len(P(t)) - 1) /\ Kind[t] \in Kinds /\ todo[t] = Left(Kind[t], Pos(t))
      /\ Len(P(t)) \in 2..11
  BY PosIs
<1>2. Tail(Left(Kind[t], Pos(t))) = Left(Kind[t], Pos(t) + 1)
  BY <1>1, LeftIs DEF P
<1>3. Pos(t) + 1 \in 0..Len(P(t))
  BY <1>1
<1>4. Tail(todo[t]) = Left(Kind[t], Pos(t) + 1)
  BY <1>1, <1>2
<1> QED BY <1>3, <1>4 DEF Goes

LEMMA EndsAt ==
  ASSUME TypeOK, NEW t \in Tasks, Ends(t)
  PROVE  Len(P(t)) \in 0..Len(P(t)) /\ todo' = [todo EXCEPT ![t] = Left(Kind[t], Len(P(t)))]
<1>1. Kind[t] \in Kinds /\ Len(P(t)) \in 2..11
  BY PosIs
<1>2. Left(Kind[t], Len(P(t))) = <<>>
  BY <1>1, LeftIs DEF P
<1> QED BY <1>1, <1>2 DEF Ends

LEMMA SkipsTo ==
  ASSUME NEW t \in Tasks, Kind[t] = "snapshot"
  PROVE  4 \in 0..Len(P(t)) /\ Writes(<<"settings">>) = Left(Kind[t], 4)
<1> DEFINE s == Writes(<<"settings">>)
           S == Program("snapshot")
<1>1. <<"settings">> \in Seq(Tables) /\ Len(<<"settings">>) = 1 /\ <<"settings">>[1] = "settings"
  BY DEF Tables
<1>2. /\ s \in Seq(Statements) /\ Len(s) = 2
      /\ s[1] = Say("write", "settings") /\ s[2] = Say("commit", None)
  <2> DEFINE q == <<"settings">>
  <2>1. q \in Seq(Tables) /\ Len(q) = 1 /\ q[1] = "settings" /\ s = Writes(q)
    BY <1>1
  <2> HIDE DEF q, s
  <2>2. /\ Writes(q) \in Seq(Statements) /\ Len(Writes(q)) = Len(q) + 1
        /\ \A i \in 1..Len(q) : Writes(q)[i] = Say("write", q[i])
        /\ Writes(q)[Len(q) + 1] = Say("commit", None)
    BY <2>1, WritesAre
  <2> QED BY <2>1, <2>2
<1>3. S \in Seq(Statements) /\ Len(S) = 6 /\ S[5] = Say("write", "settings") /\ S[6] = Say("commit", None)
  BY SnapshotIs
<1> DEFINE l == SubSeq(S, 5, 6)
<1> HIDE DEF s, S
<1>4. \A i \in 5..6 : S[i] \in Statements
  BY <1>3, StatementType DEF Tables
<1>5. l \in Seq(Statements) /\ Len(l) = 2 /\ \A i \in 1..2 : l[i] = S[5 + i - 1]
  BY <1>4, SubSeqProperties
<1> HIDE DEF l
<1>6. l[1] = S[5] /\ l[2] = S[6]
  BY <1>5
<1>7. \A i \in 1..Len(s) : s[i] = l[i]
  BY <1>2, <1>3, <1>6
<1>8. s = l
  BY <1>2, <1>5, <1>7, SeqEqual
<1>9. Left("snapshot", 4) = l
  <2>1. Left("snapshot", 4) = SubSeq(S, 4 + 1, Len(S))
    BY DEF Left, S
  <2>2. 4 + 1 = 5 /\ Len(S) = 6
    BY <1>3
  <2> QED BY <2>1, <2>2 DEF l
<1> QED BY <1>3, <1>8, <1>9 DEF P, S, s

LEMMA CrashTo ==
  ASSUME TypeOK, NEW p \in Procs, Crash(p)
  PROVE  /\ todo' \in [Tasks -> Seq(Statements)]
         /\ \A t \in Tasks : \E n \in 0..Len(P(t)) : todo'[t] = Left(Kind[t], n)
         /\ \A t \in Tasks : Pos(t)' = IF Home(t) = p /\ Runs(t) THEN Len(P(t)) ELSE Pos(t)
<1> SUFFICES ASSUME NEW t \in Tasks
             PROVE  /\ todo'[t] \in Seq(Statements)
                    /\ \E n \in 0..Len(P(t)) : todo'[t] = Left(Kind[t], n)
                    /\ Pos(t)' = IF Home(t) = p /\ Runs(t) THEN Len(P(t)) ELSE Pos(t)
  BY DEF Crash
<1>1. Kind[t] \in Kinds /\ Len(P(t)) \in 2..11
  BY PosIs
<1>2. CASE Home(t) = p /\ Runs(t)
  <2>1. todo'[t] = <<>>
    BY <1>2 DEF Crash
  <2>2. Left(Kind[t], Len(P(t))) = <<>> /\ <<>> \in Seq(Statements) /\ Len(<<>>) = 0
    BY <1>1, LeftIs, EmptySeq DEF P
  <2>3. Pos(t)' = Len(P(t))
    BY <1>1, <2>1, <2>2 DEF Pos, P
  <2> QED BY <1>1, <1>2, <2>1, <2>2, <2>3
<1>3. CASE ~(Home(t) = p /\ Runs(t))
  <2>1. todo'[t] = todo[t]
    BY <1>3 DEF Crash
  <2>2. Pos(t)' = Pos(t)
    BY <2>1 DEF Pos, P
  <2> QED BY <1>3, <2>1, <2>2 DEF TypeOK, P
<1> QED BY <1>2, <1>3

-----------------------------------------------------------------------------
(* What programs do *)

Touches(s) == s.does \in {"write", "wipe"}

LEMMA SayIs == \A what, b : Say(what, b).does = what /\ Say(what, b).to = b
BY DEF Say

\* What is written is a table, before the commit at the end, and after what is wiped.
LEMMA Touching ==
  ASSUME NEW k \in Kinds, NEW i \in 1..Len(Program(k)), Touches(Program(k)[i])
  PROVE  /\ Program(k)[i].to \in Tables /\ i < Len(Program(k))
         /\ Program(k)[i] = Say(Program(k)[i].does, Program(k)[i].to)
         /\ Program(k)[i].does = "wipe" =>
              \A j \in 1..i, b \in Tables : Program(k)[j] # Say("write", b)
<1> USE SayIs DEF Touches, Tables
<1>7. ASSUME NEW b \in Tables, Program(k)[i] = Say("write", b), i < Len(Program(k))
      PROVE  /\ Program(k)[i].to \in Tables /\ i < Len(Program(k))
             /\ Program(k)[i] = Say(Program(k)[i].does, Program(k)[i].to)
             /\ Program(k)[i].does # "wipe"
  BY <1>7
<1>1. CASE k = "edit"
  <2>1. i \in 1..2
    BY <1>1, EditIs
  <2>2. i = 1 /\ Program(k)[i] = Say("write", "settings")
    BY <1>1, <2>1, EditIs
  <2>3. Len(Program(k)) = 2
    BY <1>1, EditIs
  <2> QED BY <1>7, <2>2, <2>3
<1>2. CASE k = "removal"
  <2>1. i \in 1..3
    BY <1>2, RemovalIs
  <2>2. (i = 1 /\ Program(k)[i] = Say("write", "servers")) \/ (i = 2 /\ Program(k)[i] = Say("write", "keys"))
    BY <1>2, <2>1, RemovalIs
  <2>3. Len(Program(k)) = 3
    BY <1>2, RemovalIs
  <2> QED BY <1>7, <2>2, <2>3
<1>3. CASE k = "sale"
  <2>1. i \in 1..3
    BY <1>3, SaleIs
  <2>2. (i = 1 /\ Program(k)[i] = Say("write", "admins")) \/ (i = 2 /\ Program(k)[i] = Say("write", "ledger"))
    BY <1>3, <2>1, SaleIs
  <2>3. Len(Program(k)) = 3
    BY <1>3, SaleIs
  <2> QED BY <1>7, <2>2, <2>3
<1>4. CASE k = "restore"
  <2> DEFINE S == Program(k)
  <2>1. /\ Len(S) = 11 /\ S[11] = Say("commit", None)
        /\ \A j \in 1..5 : S[j] = Say("wipe", InOrder[j])
        /\ \A j \in 1..5 : S[5 + j] = Say("write", InOrder[j])
    BY <1>4, RestoreIs
  <2> HIDE DEF S
  <2>2. \A j \in 1..5 : InOrder[j] \in Tables
    BY OrderIs
  <2>3. i \in 1..11 /\ Touches(S[i])
    BY <2>1 DEF S
  <2>4. CASE i = 11
    BY <2>1, <2>3, <2>4
  <2>5. CASE i \in 1..5
    BY <2>1, <2>2, <2>5 DEF S
  <2>6. CASE i \in 6..10
    <3>1. i - 5 \in 1..5 /\ 5 + (i - 5) = i
      BY <2>6
    <3>2. S[i] = Say("write", InOrder[i - 5]) /\ InOrder[i - 5] \in Tables
      BY <2>1, <2>2, <3>1
    <3> QED BY <2>1, <2>6, <3>2 DEF S
  <2> QED BY <2>3, <2>4, <2>5, <2>6
<1>5. CASE k = "export"
  <2>1. Program(k)[i] = Say("read", InOrder[i])
    BY <1>5, ExportIs
  <2> QED BY <2>1
<1>6. CASE k = "snapshot"
  <2>1. i \in 1..6
    BY <1>6, SnapshotIs
  <2>2. i = 5 /\ Program(k)[i] = Say("write", "settings")
    BY <1>6, <2>1, SnapshotIs
  <2>3. Len(Program(k)) = 6
    BY <1>6, SnapshotIs
  <2> QED BY <1>7, <2>2, <2>3
<1> QED BY <1>1, <1>2, <1>3, <1>4, <1>5, <1>6 DEF Kinds

\* A commit is the end, and something has been written before it.
LEMMA Committing ==
  ASSUME NEW k \in Kinds, NEW i \in 1..Len(Program(k)), Program(k)[i].does = "commit"
  PROVE  /\ i = Len(Program(k)) /\ Touches(Program(k)[i - 1]) /\ i - 1 \in 1..i
         /\ k \in {"edit", "removal", "sale", "restore", "snapshot"}
<1> USE SayIs DEF Touches
<1>1. CASE k = "edit"
  <2>1. i \in 1..2
    BY <1>1, EditIs
  <2>2. i = 2 /\ Len(Program(k)) = 2 /\ Program(k)[1] = Say("write", "settings")
    BY <1>1, <2>1, EditIs
  <2>3. i - 1 = 1
    BY <2>2
  <2> QED BY <1>1, <2>2, <2>3
<1>2. CASE k = "removal"
  <2>1. i \in 1..3
    BY <1>2, RemovalIs
  <2>2. i = 3 /\ Len(Program(k)) = 3 /\ Program(k)[2] = Say("write", "keys")
    BY <1>2, <2>1, RemovalIs
  <2>3. i - 1 = 2
    BY <2>2
  <2> QED BY <1>2, <2>2, <2>3
<1>3. CASE k = "sale"
  <2>1. i \in 1..3
    BY <1>3, SaleIs
  <2>2. i = 3 /\ Len(Program(k)) = 3 /\ Program(k)[2] = Say("write", "ledger")
    BY <1>3, <2>1, SaleIs
  <2>3. i - 1 = 2
    BY <2>2
  <2> QED BY <1>3, <2>2, <2>3
<1>4. CASE k = "restore"
  <2> DEFINE S == Program(k)
  <2>1. /\ Len(S) = 11
        /\ \A j \in 1..5 : S[j] = Say("wipe", InOrder[j])
        /\ \A j \in 1..5 : S[5 + j] = Say("write", InOrder[j])
    BY <1>4, RestoreIs
  <2> HIDE DEF S
  <2>2. i \in 1..11 /\ S[i].does = "commit"
    BY <2>1 DEF S
  <2>3. i \notin 1..5
    BY <2>1, <2>2
  <2>4. i \notin 6..10
    <3>1. ASSUME i \in 6..10 PROVE i - 5 \in 1..5 /\ 5 + (i - 5) = i
      BY <3>1
    <3> QED BY <2>1, <2>2, <3>1
  <2>5. S[10] = Say("write", InOrder[5])
    BY <2>1
  <2>6. i = 11
    BY <2>2, <2>3, <2>4
  <2> QED BY <1>4, <2>1, <2>5, <2>6 DEF S
<1>5. CASE k = "export"
  <2>1. Program(k)[i] = Say("read", InOrder[i])
    BY <1>5, ExportIs
  <2> QED BY <2>1
<1>6. CASE k = "snapshot"
  <2>1. i \in 1..6
    BY <1>6, SnapshotIs
  <2>2. i = 6 /\ Len(Program(k)) = 6 /\ Program(k)[5] = Say("write", "settings")
    BY <1>6, <2>1, SnapshotIs
  <2>3. i - 1 = 5
    BY <2>2
  <2> QED BY <1>6, <2>2, <2>3
<1> QED BY <1>1, <1>2, <1>3, <1>4, <1>5, <1>6 DEF Kinds

\* The other statements, and whose they are.
LEMMA OthersAre ==
  ASSUME NEW k \in Kinds, NEW i \in 1..Len(Program(k))
  PROVE  /\ Program(k)[i].does = "read" => k = "export" /\ Program(k)[i].to = InOrder[i] /\ i \in 1..5
         /\ Program(k)[i].does = "look" => k = "snapshot" /\ i = 1
         /\ Program(k)[i].does = "vacuum" => k = "snapshot" /\ i = 2 /\ Program(k)[i].to = "partial"
         /\ Program(k)[i].does = "rename" => k = "snapshot" /\ i = 4
         /\ k = "export" => Program(k)[i].does = "read"
         /\ k = "edit" /\ Touches(Program(k)[i]) => i = 1
<1> USE SayIs DEF Touches
<1>1. CASE k = "edit"
  <2>1. i \in 1..2
    BY <1>1, EditIs
  <2> QED BY <1>1, <2>1, EditIs
<1>2. CASE k = "removal"
  <2>1. i \in 1..3
    BY <1>2, RemovalIs
  <2> QED BY <1>2, <2>1, RemovalIs
<1>3. CASE k = "sale"
  <2>1. i \in 1..3
    BY <1>3, SaleIs
  <2> QED BY <1>3, <2>1, SaleIs
<1>4. CASE k = "restore"
  <2> DEFINE S == Program(k)
  <2>1. /\ Len(S) = 11 /\ S[11] = Say("commit", None)
        /\ \A j \in 1..5 : S[j] = Say("wipe", InOrder[j])
        /\ \A j \in 1..5 : S[5 + j] = Say("write", InOrder[j])
    BY <1>4, RestoreIs
  <2> HIDE DEF S
  <2>2. i \in 1..11
    BY <2>1 DEF S
  <2>3. i \in 6..10 => i - 5 \in 1..5 /\ 5 + (i - 5) = i
    OBVIOUS
  <2>4. S[i].does \in {"wipe", "write", "commit"}
    BY <2>1, <2>2, <2>3
  <2> QED BY <1>4, <2>4 DEF S
<1>5. CASE k = "export"
  <2>1. Program(k)[i] = Say("read", InOrder[i]) /\ Len(Program(k)) = 5
    BY <1>5, ExportIs
  <2> QED BY <1>5, <2>1
<1>6. CASE k = "snapshot"
  <2>1. i \in 1..6
    BY <1>6, SnapshotIs
  <2> QED BY <1>6, <2>1, SnapshotIs
<1> QED BY <1>1, <1>2, <1>3, <1>4, <1>5, <1>6 DEF Kinds

-----------------------------------------------------------------------------
(* A step, as a move in the program of its task *)

TodoOK ==
  /\ todo \in [Tasks -> Seq(Statements)]
  /\ \A t \in Tasks : \E n \in 0..Len(P(t)) : todo[t] = Left(Kind[t], n)

\* t goes to its n-th statement, no other task moves.
Puts(t, n) == TodoOK' /\ Pos(t)' = n /\ \A u \in Tasks \ {t} : todo'[u] = todo[u]

LEMMA Advance ==
  ASSUME TypeOK, NEW t \in Tasks, todo[t] # <<>>, Goes(t)
  PROVE  Puts(t, Pos(t) + 1)
<1>1. Pos(t) + 1 \in 0..Len(P(t)) /\ todo' = [todo EXCEPT ![t] = Left(Kind[t], Pos(t) + 1)]
  BY GoesTo
<1> DEFINE n == Pos(t) + 1
<1>2. n \in 0..Len(P(t)) /\ todo' = [todo EXCEPT ![t] = Left(Kind[t], n)]
  BY <1>1
<1> HIDE DEF n
<1>3. /\ todo' \in [Tasks -> Seq(Statements)]
      /\ \A u \in Tasks : \E m \in 0..Len(P(u)) : todo'[u] = Left(Kind[u], m)
      /\ Pos(t)' = n /\ \A u \in Tasks \ {t} : todo'[u] = todo[u]
  BY <1>2, MovesTo
<1> QED BY <1>3 DEF Puts, TodoOK, n, P

LEMMA Finish ==
  ASSUME TypeOK, NEW t \in Tasks, Ends(t)
  PROVE  Puts(t, Len(P(t)))
<1>1. Len(P(t)) \in 0..Len(P(t)) /\ todo' = [todo EXCEPT ![t] = Left(Kind[t], Len(P(t)))]
  BY EndsAt
<1>2. /\ todo' \in [Tasks -> Seq(Statements)]
      /\ \A u \in Tasks : \E m \in 0..Len(P(u)) : todo'[u] = Left(Kind[u], m)
      /\ Pos(t)' = Len(P(t)) /\ \A u \in Tasks \ {t} : todo'[u] = todo[u]
  BY <1>1, MovesTo
<1> QED BY <1>2 DEF Puts, TodoOK, P

LEMMA Skip ==
  ASSUME TypeOK, NEW t \in Tasks, Kind[t] = "snapshot",
         todo' = [todo EXCEPT ![t] = Writes(<<"settings">>)]
  PROVE  Puts(t, 4)
<1>1. 4 \in 0..Len(P(t)) /\ todo' = [todo EXCEPT ![t] = Left(Kind[t], 4)]
  BY SkipsTo
<1>2. /\ todo' \in [Tasks -> Seq(Statements)]
      /\ \A u \in Tasks : \E m \in 0..Len(P(u)) : todo'[u] = Left(Kind[u], m)
      /\ Pos(t)' = 4 /\ \A u \in Tasks \ {t} : todo'[u] = todo[u]
  BY <1>1, MovesTo
<1> QED BY <1>2 DEF Puts, TodoOK, P

\* A task whose next statement writes.
LEMMA Writing ==
  ASSUME TypeOK, NEW t \in Tasks, Next1(t, {"write", "wipe"})
  PROVE  /\ Pos(t) \in Nat /\ Pos(t) + 1 < Len(P(t)) /\ Head(todo[t]) = P(t)[Pos(t) + 1]
         /\ Pos(t) + 1 \in 1..Len(P(t)) /\ Touches(P(t)[Pos(t) + 1])
         /\ P(t)[Pos(t) + 1].to \in Tables
         /\ P(t)[Pos(t) + 1] = Say(P(t)[Pos(t) + 1].does, P(t)[Pos(t) + 1].to)
         /\ P(t)[Pos(t) + 1].does = "wipe" =>
              \A j \in 1..(Pos(t) + 1), b \in Tables : P(t)[j] # Say("write", b)
         /\ Kind[t] # "export" /\ Kind[t] \in Kinds /\ todo[t] # <<>>
         /\ Kind[t] = "edit" => Pos(t) = 0
<1> DEFINE i == Pos(t) + 1
<1>1. /\ Pos(t) \in 0..Len(P(t)) /\ Len(P(t)) \in 2..11 /\ Kind[t] \in Kinds
      /\ todo[t] # <<>> /\ Pos(t) < Len(P(t)) /\ Head(todo[t]) = P(t)[i]
      /\ Head(todo[t]).does \in {"write", "wipe"}
  BY PosIs DEF Next1
<1>2. i \in 1..Len(P(t)) /\ Touches(P(t)[i])
  BY <1>1 DEF Touches
<1> HIDE DEF i
<1>3. i \in 1..Len(Program(Kind[t])) /\ Touches(Program(Kind[t])[i]) /\ Kind[t] \in Kinds
  BY <1>1, <1>2 DEF P
<1>4. /\ P(t)[i].to \in Tables /\ i < Len(P(t)) /\ P(t)[i] = Say(P(t)[i].does, P(t)[i].to)
      /\ P(t)[i].does = "wipe" => \A j \in 1..i, b \in Tables : P(t)[j] # Say("write", b)
  BY <1>3, Touching DEF P
<1>5. /\ Kind[t] = "export" => P(t)[i].does = "read"
      /\ Kind[t] = "edit" => i = 1
  BY <1>3, OthersAre DEF P
<1>6. Kind[t] # "export"
  BY <1>2, <1>5 DEF Touches
<1>7. Kind[t] = "edit" => Pos(t) = 0
  BY <1>1, <1>5 DEF i
<1> QED BY <1>1, <1>2, <1>4, <1>6, <1>7 DEF i

\* A task whose next statement is a commit.
LEMMA Ending ==
  ASSUME TypeOK, NEW t \in Tasks, Next1(t, {"commit"})
  PROVE  /\ Pos(t) \in Nat /\ Pos(t) + 1 = Len(P(t)) /\ Pos(t) \in 1..Pos(t)
         /\ Touches(P(t)[Pos(t)]) /\ todo[t] # <<>>
         /\ Kind[t] \in {"edit", "removal", "sale", "restore", "snapshot"}
<1> DEFINE i == Pos(t) + 1
<1>1. /\ Pos(t) \in 0..Len(P(t)) /\ Len(P(t)) \in 2..11 /\ Kind[t] \in Kinds
      /\ todo[t] # <<>> /\ Pos(t) < Len(P(t)) /\ Head(todo[t]) = P(t)[i]
      /\ Head(todo[t]).does = "commit"
  BY PosIs DEF Next1
<1>2. i \in 1..Len(P(t)) /\ P(t)[i].does = "commit"
  BY <1>1
<1> HIDE DEF i
<1>3. i \in 1..Len(Program(Kind[t])) /\ Program(Kind[t])[i].does = "commit" /\ Kind[t] \in Kinds
  BY <1>1, <1>2 DEF P
<1>4. /\ i = Len(P(t)) /\ Touches(P(t)[i - 1]) /\ i - 1 \in 1..i
      /\ Kind[t] \in {"edit", "removal", "sale", "restore", "snapshot"}
  BY <1>3, Committing DEF P
<1>5. i - 1 = Pos(t)
  BY <1>1 DEF i
<1> QED BY <1>1, <1>4, <1>5 DEF i

\* A task whose next statement is none of these.
LEMMA Reading ==
  ASSUME TypeOK, NEW t \in Tasks, todo[t] # <<>>
  PROVE  /\ Pos(t) \in Nat /\ Pos(t) < Len(P(t)) /\ Len(P(t)) \in Nat
         /\ Head(todo[t]).does = "read" =>
              Kind[t] = "export" /\ Head(todo[t]).to = InOrder[Pos(t) + 1] /\ Pos(t) \in 0..4
         /\ Head(todo[t]).does = "look" => Kind[t] = "snapshot" /\ Pos(t) = 0
         /\ Head(todo[t]).does = "vacuum" =>
              Kind[t] = "snapshot" /\ Pos(t) = 1 /\ Head(todo[t]).to = "partial"
         /\ Head(todo[t]).does = "rename" => Kind[t] = "snapshot" /\ Pos(t) = 3
<1> DEFINE i == Pos(t) + 1
<1>1. /\ Pos(t) \in 0..Len(P(t)) /\ Len(P(t)) \in 2..11 /\ Kind[t] \in Kinds
      /\ Pos(t) < Len(P(t)) /\ Head(todo[t]) = P(t)[i]
  BY PosIs
<1>2. i \in 1..Len(P(t))
  BY <1>1
<1> HIDE DEF i
<1>3. i \in 1..Len(Program(Kind[t])) /\ Kind[t] \in Kinds
  BY <1>1, <1>2 DEF P
<1>4. /\ P(t)[i].does = "read" => Kind[t] = "export" /\ P(t)[i].to = InOrder[i] /\ i \in 1..5
      /\ P(t)[i].does = "look" => Kind[t] = "snapshot" /\ i = 1
      /\ P(t)[i].does = "vacuum" => Kind[t] = "snapshot" /\ i = 2 /\ P(t)[i].to = "partial"
      /\ P(t)[i].does = "rename" => Kind[t] = "snapshot" /\ i = 4
  BY <1>3, OthersAre DEF P
<1>5. /\ i \in 1..5 => Pos(t) \in 0..4
      /\ i = 1 => Pos(t) = 0
      /\ i = 2 => Pos(t) = 1
      /\ i = 4 => Pos(t) = 3
  BY <1>1 DEF i
<1> QED BY <1>1, <1>4, <1>5 DEF i

-----------------------------------------------------------------------------
(* What the first n statements of a task leave *)

\* In the middle of a transaction.
MidAt(t, n) == n < Len(P(t)) /\ \E i \in 1..n : Touches(P(t)[i])

\* What they make of a table.
PendingAt(t, n, c, b) ==
  IF \E i \in 1..n : P(t)[i] = Say("write", b) THEN t
  ELSE IF \E i \in 1..n : P(t)[i] = Say("wipe", b) THEN Gone ELSE c[b]

LEMMA NotMid ==
  ASSUME NEW t \in Tasks, NEW n \in 0..Len(P(t)),
         \/ Kind[t] = "export" \/ n = 0 \/ n = Len(P(t))
         \/ Kind[t] = "snapshot" /\ n \in 0..4
  PROVE  ~MidAt(t, n)
<1>1. Kind[t] \in Kinds
  BY ConstantsAssumption
<1>2. CASE Kind[t] = "export"
  <2>1. ASSUME NEW i \in 1..n PROVE ~Touches(P(t)[i])
    <3>1. i \in 1..Len(Program(Kind[t]))
      BY <1>1, LeftIs DEF P
    <3>2. Program(Kind[t])[i].does = "read"
      BY <1>1, <1>2, <3>1, OthersAre
    <3> QED BY <3>2 DEF Touches, P
  <2> QED BY <2>1 DEF MidAt
<1>3. CASE n = 0 \/ n = Len(P(t))
  BY <1>1, <1>3, LeftIs DEF MidAt, P
<1>4. CASE Kind[t] = "snapshot" /\ n \in 0..4
  <2> DEFINE S == P(t)
  <2>1. /\ S[1] = Say("look", None) /\ S[2] = Say("vacuum", "partial") /\ S[3] = Say("end", None)
        /\ S[4] = Say("rename", None)
    BY <1>4, SnapshotIs DEF P
  <2> HIDE DEF S
  <2>2. ~Touches(S[1]) /\ ~Touches(S[2]) /\ ~Touches(S[3]) /\ ~Touches(S[4])
    BY <2>1, SayIs DEF Touches
  <2>3. ASSUME NEW i \in 1..n PROVE ~Touches(S[i])
    <3>1. i = 1 \/ i = 2 \/ i = 3 \/ i = 4
      BY <1>4, <2>3
    <3> QED BY <2>2, <3>1
  <2> QED BY <2>3 DEF MidAt, S
<1> QED BY <1>2, <1>3, <1>4

LEMMA NothingPending ==
  ASSUME NEW t \in Tasks, NEW n \in 0..Len(P(t)), n < Len(P(t)), ~MidAt(t, n), NEW c, NEW b \in Tables
  PROVE  PendingAt(t, n, c, b) = c[b]
BY SayIs DEF PendingAt, MidAt, Touches

\* One statement more.
LEMMA StatementPends ==
  ASSUME NEW t \in Tasks, NEW n \in Nat, NEW c, NEW b \in Tables, NEW to \in Tables,
         NEW does \in {"write", "wipe"}, P(t)[n + 1] = Say(does, to),
         does = "wipe" => \A j \in 1..(n + 1), a \in Tables : P(t)[j] # Say("write", a)
  PROVE  PendingAt(t, n + 1, c, b) =
           IF b = to THEN IF does = "wipe" THEN Gone ELSE t ELSE PendingAt(t, n, c, b)
<1> DEFINE W(m) == \E i \in 1..m : P(t)[i] = Say("write", b)
           G(m) == \E i \in 1..m : P(t)[i] = Say("wipe", b)
<1>1. 1..(n + 1) = (1..n) \cup {n + 1}
  OBVIOUS
<1>2. W(n + 1) <=> W(n) \/ P(t)[n + 1] = Say("write", b)
  BY <1>1
<1>3. G(n + 1) <=> G(n) \/ P(t)[n + 1] = Say("wipe", b)
  BY <1>1
<1>4. P(t)[n + 1] = Say("write", b) <=> does = "write" /\ b = to
  BY SayIs
<1>5. P(t)[n + 1] = Say("wipe", b) <=> does = "wipe" /\ b = to
  BY SayIs
<1>6. does = "wipe" => ~W(n + 1)
  OBVIOUS
<1>7. \A m : PendingAt(t, m, c, b) = IF W(m) THEN t ELSE IF G(m) THEN Gone ELSE c[b]
  BY DEF PendingAt
<1> HIDE DEF W, G
<1> QED BY <1>2, <1>3, <1>4, <1>5, <1>6, <1>7

\* All but the commit: the tables it is about are its own, the others as they were.
LEMMA WhatIsReplaced ==
  ASSUME NEW t \in Tasks, NEW n \in Nat, n + 1 = Len(P(t)),
         Kind[t] \in {"edit", "removal", "sale", "restore", "snapshot"},
         NEW c, NEW b \in Tables
  PROVE  PendingAt(t, n, c, b) = IF b \in Replaced(Kind[t]) THEN t ELSE c[b]
<1> DEFINE S == P(t)
           W == \E i \in 1..n : S[i] = Say("write", b)
           G == \E i \in 1..n : S[i] = Say("wipe", b)
           R == Replaced(Kind[t])
<1>1. PendingAt(t, n, c, b) = IF W THEN t ELSE IF G THEN Gone ELSE c[b]
  BY DEF PendingAt
<1>2. (W <=> b \in R) /\ (G => W)
  <2>1. CASE Kind[t] = "edit"
    <3>1. S[1] = Say("write", "settings") /\ Len(S) = 2
      BY <2>1, EditIs DEF P
    <3>2. R = {"settings"}
      BY <2>1 DEF Replaced
    <3> HIDE DEF S, R
    <3>3. n = 1
      BY <3>1 DEF S
    <3>4. \A i \in 1..n : i = 1
      BY <3>3
    <3> QED BY <3>1, <3>2, <3>3, <3>4, SayIs
  <2>2. CASE Kind[t] = "removal"
    <3>1. S[1] = Say("write", "servers") /\ S[2] = Say("write", "keys") /\ Len(S) = 3
      BY <2>2, RemovalIs DEF P
    <3>2. R = {"servers", "keys"}
      BY <2>2 DEF Replaced
    <3> HIDE DEF S, R
    <3>3. n = 2
      BY <3>1 DEF S
    <3>4. (\A i \in 1..n : i = 1 \/ i = 2) /\ 1 \in 1..n /\ 2 \in 1..n
      BY <3>3
    <3> QED BY <3>1, <3>2, <3>4, SayIs
  <2>3. CASE Kind[t] = "sale"
    <3>1. S[1] = Say("write", "admins") /\ S[2] = Say("write", "ledger") /\ Len(S) = 3
      BY <2>3, SaleIs DEF P
    <3>2. R = {"admins", "ledger"}
      BY <2>3 DEF Replaced
    <3> HIDE DEF S, R
    <3>3. n = 2
      BY <3>1 DEF S
    <3>4. (\A i \in 1..n : i = 1 \/ i = 2) /\ 1 \in 1..n /\ 2 \in 1..n
      BY <3>3
    <3> QED BY <3>1, <3>2, <3>4, SayIs
  <2>4. CASE Kind[t] = "restore"
    <3>1. Len(S) = 11 /\ \A i \in 1..5 : S[5 + i] = Say("write", InOrder[i])
      BY <2>4, RestoreIs DEF P
    <3>2. R = Tables
      BY <2>4 DEF Replaced
    <3> HIDE DEF S, R
    <3>3. n = 10
      BY <3>1 DEF S
    <3>4. PICK i \in 1..5 : InOrder[i] = b
      BY OrderIs DEF Tables
    <3>5. 5 + i \in 1..n
      BY <3>3
    <3>6. W
      BY <3>1, <3>4, <3>5
    <3> QED BY <3>2, <3>6
  <2>5. CASE Kind[t] = "snapshot"
    <3>1. /\ Len(S) = 6 /\ S[1] = Say("look", None) /\ S[2] = Say("vacuum", "partial")
          /\ S[3] = Say("end", None) /\ S[4] = Say("rename", None) /\ S[5] = Say("write", "settings")
      BY <2>5, SnapshotIs DEF P
    <3>2. R = {"settings"}
      BY <2>5 DEF Replaced
    <3> HIDE DEF S, R
    <3>3. n = 5
      BY <3>1 DEF S
    <3>4. (\A i \in 1..n : i = 1 \/ i = 2 \/ i = 3 \/ i = 4 \/ i = 5) /\ 5 \in 1..n
      BY <3>3
    <3> QED BY <3>1, <3>2, <3>4, SayIs
  <2> QED BY <2>1, <2>2, <2>3, <2>4, <2>5
<1> HIDE DEF W, G, R
<1>3. PendingAt(t, n, c, b) = IF b \in R THEN t ELSE c[b]
  BY <1>1, <1>2
<1> QED BY <1>3 DEF R

\* So they are whole if they were before.
LEMMA CommitIsWhole ==
  ASSUME NEW t \in Tasks, NEW n \in Nat, n + 1 = Len(P(t)),
         Kind[t] \in {"edit", "removal", "sale", "restore", "snapshot"},
         NEW c \in Contents, Whole(c), NEW d \in Contents, \A b \in Tables : d[b] = PendingAt(t, n, c, b)
  PROVE  Whole(d)
<1> DEFINE R == Replaced(Kind[t])
<1>1. \A b \in Tables : d[b] = IF b \in R THEN t ELSE c[b]
  BY WhatIsReplaced
<1>2. ("servers" \in R <=> "keys" \in R) /\ ("admins" \in R <=> "ledger" \in R)
  BY DEF Replaced, Tables
<1>3. t # Gone
  BY ConstantsAssumption
<1>4. {"servers", "keys", "admins", "ledger"} \subseteq Tables
  BY DEF Tables
<1> HIDE DEF R
<1>5. \A b \in Tables : d[b] # Gone
  BY <1>1, <1>3 DEF Whole
<1>6. d["servers"] = d["keys"] /\ d["admins"] = d["ledger"]
  BY <1>1, <1>2, <1>4 DEF Whole
<1> QED BY <1>5, <1>6 DEF Whole

-----------------------------------------------------------------------------
(* The inductive invariant: locks, VACUUMs and connections *)

Mid(t) == MidAt(t, Pos(t))

\* A process's asyncio lock is with the task that is in the middle of a transaction.
LockInv ==
  /\ \A p \in Procs : lock[p] # None => Home(lock[p]) = p /\ Mid(lock[p])
  /\ \A t \in Tasks : Mid(t) => lock[Home(t)] = t

VacuumInv ==
  \A p \in Procs : vacuum[p] # None =>
    Home(vacuum[p]) = p /\ Kind[vacuum[p]] = "snapshot" /\ Pos(vacuum[p]) = 2

\* Who has the lock has written all he came by, and nobody has written anything else.
ConnOK(p) ==
  /\ lock[p] # None =>
       /\ writer = p /\ conn[p].view # None
       /\ \A b \in Tables : conn[p].view[b] = PendingAt(lock[p], Pos(lock[p]), file, b)
  /\ lock[p] = None /\ writer = p => conn[p].view = file
  /\ writer # p /\ conn[p].view # None /\ ~conn[p].stale => conn[p].view = file
  /\ lock[p] = None /\ conn[p].view # None => Whole(conn[p].view)

ConnInv == Whole(file) /\ \A p \in Procs : ConnOK(p)

Base == TypeOK /\ LockInv /\ VacuumInv /\ ConnInv

LEMMA HomeIsProc == \A t \in Tasks : Home(t) \in Procs /\ t # None
BY ConstantsAssumption DEF Home

LEMMA PutsPos ==
  ASSUME TypeOK, NEW t \in Tasks, NEW n, Puts(t, n)
  PROVE  \A u \in Tasks \ {t} : Pos(u)' = Pos(u)
BY DEF Puts, Pos, P

\* Another's transaction is not disturbed.
LEMMA Untouched ==
  ASSUME NEW q \in Procs, ConnOK(q), file' = file, conn'[q] = conn[q], lock'[q] = lock[q],
         writer' = q => writer = q, writer = q => writer' = q,
         lock[q] # None => todo'[lock[q]] = todo[lock[q]]
  PROVE  ConnOK(q)'
<1>1. lock[q] # None => Pos(lock[q])' = Pos(lock[q])
  BY DEF Pos, P
<1> QED BY <1>1 DEF ConnOK, Whole

\* A move outside every transaction.
LEMMA LocksKept ==
  ASSUME TypeOK, LockInv, NEW t \in Tasks, NEW n, Puts(t, n), ~Mid(t), ~MidAt(t, n), lock' = lock
  PROVE  LockInv'
<1>1. ~Mid(t)'
  BY DEF Mid, MidAt, Puts, P
<1>2. \A u \in Tasks \ {t} : todo'[u] = todo[u]
  BY DEF Puts
<1>3. \A u \in Tasks \ {t} : Mid(u)' <=> Mid(u)
  BY <1>2 DEF Mid, MidAt, Pos, P
<1>4. ASSUME NEW p \in Procs, lock'[p] # None PROVE Home(lock[p])' = p /\ Mid(lock[p])'
  <2>1. lock[p] \in Tasks /\ lock[p] # None /\ Home(lock[p]) = p /\ Mid(lock[p])
    BY <1>4 DEF LockInv, TypeOK
  <2>2. lock[p] \in Tasks \ {t}
    BY <2>1
  <2>3. todo'[lock[p]] = todo[lock[p]]
    BY <1>2, <2>2
  <2> QED BY <2>1, <2>3 DEF Mid, MidAt, Pos, P, Home
<1>5. ASSUME NEW u \in Tasks, Mid(u)' PROVE lock'[Home(u)] = u
  BY <1>1, <1>3, <1>5 DEF LockInv
<1> QED BY <1>4, <1>5 DEF LockInv, Home

LEMMA LockTaken ==
  ASSUME TypeOK, LockInv, NEW t \in Tasks, NEW n, Puts(t, n), MidAt(t, n), HasLock(t),
         lock' = [lock EXCEPT ![Home(t)] = t]
  PROVE  LockInv'
<1>1. Mid(t)'
  BY DEF Mid, MidAt, Puts, P
<1>2. \A u \in Tasks \ {t} : todo'[u] = todo[u]
  BY DEF Puts
<1>3. \A u \in Tasks \ {t} : Mid(u)' <=> Mid(u)
  BY <1>2 DEF Mid, MidAt, Pos, P
<1>4. lock'[Home(t)] = t /\ \A q \in Procs \ {Home(t)} : lock'[q] = lock[q]
  BY HomeIsProc DEF TypeOK
<1>5. ASSUME NEW p \in Procs, lock'[p] # None PROVE Home(lock[p])' = p /\ Mid(lock[p])'
  <2>1. CASE p = Home(t)
    <3>1. lock'[p] = t
      BY <1>4, <2>1
    <3> QED BY <1>1, <2>1, <3>1 DEF Home, Mid, MidAt, Pos, P
  <2>2. CASE p # Home(t)
    <3>1. lock'[p] = lock[p] /\ lock[p] \in Tasks /\ lock[p] # None /\ Home(lock[p]) = p /\ Mid(lock[p])
      BY <1>4, <1>5, <2>2 DEF LockInv, TypeOK
    <3>2. lock[p] \in Tasks \ {t}
      BY <2>2, <3>1
    <3>3. todo'[lock[p]] = todo[lock[p]]
      BY <1>2, <3>2
    <3> QED BY <3>1, <3>3 DEF Mid, MidAt, Pos, P, Home
  <2> QED BY <2>1, <2>2
<1>6. ASSUME NEW u \in Tasks, Mid(u)' PROVE lock'[Home(u)] = u
  <2>1. CASE u = t
    BY <1>4, <2>1
  <2>2. CASE u # t
    <3>1. Mid(u) /\ lock[Home(u)] = u
      BY <1>3, <1>6, <2>2 DEF LockInv
    <3>2. Home(u) # Home(t)
      BY <2>2, <3>1, HomeIsProc DEF HasLock
    <3> QED BY <1>4, <3>1, <3>2, HomeIsProc
  <2> QED BY <2>1, <2>2
<1> QED BY <1>5, <1>6 DEF LockInv, Home

LEMMA LockLeft ==
  ASSUME TypeOK, LockInv, NEW t \in Tasks, NEW n, Puts(t, n), ~MidAt(t, n), HasLock(t),
         lock' = [lock EXCEPT ![Home(t)] = None]
  PROVE  LockInv'
<1>1. ~Mid(t)'
  BY DEF Mid, MidAt, Puts, P
<1>2. \A u \in Tasks \ {t} : todo'[u] = todo[u]
  BY DEF Puts
<1>3. \A u \in Tasks \ {t} : Mid(u)' <=> Mid(u)
  BY <1>2 DEF Mid, MidAt, Pos, P
<1>4. lock'[Home(t)] = None /\ \A q \in Procs \ {Home(t)} : lock'[q] = lock[q]
  BY HomeIsProc DEF TypeOK
<1>5. ASSUME NEW p \in Procs, lock'[p] # None PROVE Home(lock[p])' = p /\ Mid(lock[p])'
  <2>1. p # Home(t)
    BY <1>4, <1>5
  <2>2. lock'[p] = lock[p] /\ lock[p] \in Tasks /\ lock[p] # None /\ Home(lock[p]) = p /\ Mid(lock[p])
    BY <1>4, <1>5, <2>1 DEF LockInv, TypeOK
  <2>3. lock[p] \in Tasks \ {t}
    BY <2>1, <2>2
  <2>4. todo'[lock[p]] = todo[lock[p]]
    BY <1>2, <2>3
  <2> QED BY <2>2, <2>4 DEF Mid, MidAt, Pos, P, Home
<1>6. ASSUME NEW u \in Tasks, Mid(u)' PROVE lock'[Home(u)] = u
  <2>1. u # t
    BY <1>1, <1>6
  <2>2. Mid(u) /\ lock[Home(u)] = u
    BY <1>3, <1>6, <2>1 DEF LockInv
  <2>3. Home(u) # Home(t)
    BY <2>1, <2>2, HomeIsProc DEF HasLock
  <2> QED BY <1>4, <2>2, <2>3, HomeIsProc
<1> QED BY <1>5, <1>6 DEF LockInv, Home

LEMMA VacuumKept ==
  ASSUME TypeOK, VacuumInv, NEW t \in Tasks, NEW n, Puts(t, n), vacuum' = vacuum, vacuum[Home(t)] # t
  PROVE  VacuumInv'
<1> SUFFICES ASSUME NEW p \in Procs, vacuum[p] # None
             PROVE  Home(vacuum[p])' = p /\ Kind[vacuum[p]] = "snapshot" /\ Pos(vacuum[p])' = 2
  BY DEF VacuumInv, Home
<1>1. /\ Home(vacuum[p]) = p /\ Kind[vacuum[p]] = "snapshot" /\ Pos(vacuum[p]) = 2
      /\ vacuum[p] \in Tasks
  BY DEF VacuumInv, TypeOK
<1>2. vacuum[p] \in Tasks \ {t}
  BY <1>1
<1>3. todo'[vacuum[p]] = todo[vacuum[p]]
  BY <1>2 DEF Puts
<1> QED BY <1>1, <1>3 DEF Pos, P, Home

RestOK ==
  /\ file \in Contents
  /\ writer \in Procs \cup {None}
  /\ conn \in [Procs -> [open : BOOLEAN, view : Contents \cup {None}, stale : BOOLEAN]]
  /\ lock \in [Procs -> Tasks \cup {None}]
  /\ got \in [Tasks -> [Tables -> Tasks \cup {Shipped, Gone, None}]]
  /\ vacuum \in [Procs -> Tasks \cup {None}]
  /\ disk \in [at : [Names -> Tasks \cup {None}], whole : SUBSET Tasks]
  /\ crashes \in 0..MaxCrashes
  /\ hist \in [mixed : SUBSET Tasks, twins : BOOLEAN]

LEMMA TypeIs == TodoOK' /\ RestOK' => TypeOK'
BY DEF TypeOK, TodoOK, RestOK, P

LEMMA SeesType ==
  ASSUME TypeOK, NEW p \in Procs
  PROVE  /\ Sees(p) \in Contents /\ conn[p].open \in BOOLEAN /\ conn[p].stale \in BOOLEAN
         /\ conn[p].view \in Contents \cup {None} /\ None \notin Contents
         /\ None \notin Procs
BY ConstantsAssumption DEF TypeOK, Sees

LEMMA ContentType ==
  ASSUME NEW c \in Contents, NEW b \in Tables, NEW x \in Tasks \cup {Gone}
  PROVE  /\ [c EXCEPT ![b] = x] \in Contents
         /\ \A a \in Tables : [c EXCEPT ![b] = x][a] = IF a = b THEN x ELSE c[a]
BY DEF Contents

\* With its lock free, what a process that can write sees is what is committed.
LEMMA SeesFile ==
  ASSUME TypeOK, ConnInv, NEW p \in Procs, lock[p] = None
  PROVE  Whole(Sees(p)) /\ (CanWrite(p) => Sees(p) = file)
<1>1. ConnOK(p) /\ Whole(file) /\ None \notin Procs
  BY SeesType DEF ConnInv
<1> QED BY <1>1 DEF ConnOK, Sees, CanWrite

LEMMA OwnWriter ==
  ASSUME TypeOK, ConnInv, NEW p \in Procs, CanWrite(p), NEW q \in Procs \ {p}
  PROVE  lock[q] = None /\ writer # q
BY SeesType DEF CanWrite, ConnInv, ConnOK

LEMMA WrittenConn ==
  ASSUME TypeOK, NEW p \in Procs, NEW c \in Contents, WritesTo(p, c)
  PROVE  /\ conn' \in [Procs -> [open : BOOLEAN, view : Contents \cup {None}, stale : BOOLEAN]]
         /\ writer' = p /\ file' = file
         /\ conn'[p].view = c /\ \A q \in Procs \ {p} : conn'[q] = conn[q]
<1> DEFINE r == [open |-> TRUE, view |-> c, stale |-> FALSE]
<1>1. r \in [open : BOOLEAN, view : Contents \cup {None}, stale : BOOLEAN] /\ r.view = c
  OBVIOUS
<1>2. conn' = [conn EXCEPT ![p] = r] /\ writer' = p /\ file' = file
  BY DEF WritesTo
<1> HIDE DEF r
<1> QED BY <1>1, <1>2 DEF TypeOK

LEMMA OpenedConn ==
  ASSUME TypeOK, NEW p \in Procs, LeftOpen(p)
  PROVE  /\ conn' \in [Procs -> [open : BOOLEAN, view : Contents \cup {None}, stale : BOOLEAN]]
         /\ writer' = writer /\ file' = file
         /\ conn'[p].view = conn[p].view /\ conn'[p].stale = conn[p].stale
         /\ \A q \in Procs \ {p} : conn'[q] = conn[q]
<1> DEFINE r == [conn[p] EXCEPT !.open = TRUE]
           R == [open : BOOLEAN, view : Contents \cup {None}, stale : BOOLEAN]
<1>1. conn[p] \in R
  BY DEF TypeOK
<1>2. r \in R /\ r.view = conn[p].view /\ r.stale = conn[p].stale
  BY <1>1
<1>3. conn' = [conn EXCEPT ![p] = r]
  BY DEF LeftOpen
<1>4. conn \in [Procs -> R] /\ writer' = writer /\ file' = file
  BY DEF TypeOK, LeftOpen
<1> HIDE DEF r, R
<1>5. conn' \in [Procs -> R] /\ conn'[p] = r /\ \A q \in Procs \ {p} : conn'[q] = conn[q]
  BY <1>2, <1>3, <1>4
<1> QED BY <1>2, <1>4, <1>5 DEF R

LEMMA ClosedConn ==
  ASSUME TypeOK, NEW p \in Procs, RollbackOf(p)
  PROVE  /\ conn' \in [Procs -> [open : BOOLEAN, view : Contents \cup {None}, stale : BOOLEAN]]
         /\ writer' \in Procs \cup {None} /\ file' = file /\ conn'[p].view = None /\ writer' # p
         /\ \A q \in Procs \ {p} :
              conn'[q] = conn[q] /\ (writer' = q => writer = q) /\ (writer = q => writer' = q)
<1>1. Closed \in [open : BOOLEAN, view : Contents \cup {None}, stale : BOOLEAN] /\ Closed.view = None
  BY DEF Closed
<1>2. /\ conn' = [conn EXCEPT ![p] = Closed] /\ file' = file
      /\ writer' = (IF writer = p THEN None ELSE writer)
  BY DEF RollbackOf
<1>3. /\ conn' \in [Procs -> [open : BOOLEAN, view : Contents \cup {None}, stale : BOOLEAN]]
      /\ conn'[p] = Closed /\ \A q \in Procs \ {p} : conn'[q] = conn[q]
  BY <1>1, <1>2 DEF TypeOK
<1>4. writer \in Procs \cup {None} /\ None \notin Procs
  BY SeesType DEF TypeOK
<1> QED BY <1>1, <1>2, <1>3, <1>4

LEMMA CommittedConn ==
  ASSUME TypeOK, NEW p \in Procs, NEW c, CommitOf(p, c)
  PROVE  /\ conn' \in [Procs -> [open : BOOLEAN, view : Contents \cup {None}, stale : BOOLEAN]]
         /\ writer' = None /\ file' = c /\ conn'[p].view = None
         /\ \A q \in Procs \ {p} :
              /\ conn'[q].view = conn[q].view
              /\ conn[q].view # None => conn'[q].stale
<1> DEFINE R == [open : BOOLEAN, view : Contents \cup {None}, stale : BOOLEAN]
           r(q) == [conn[q] EXCEPT !.stale = conn[q].view # None]
<1>1. Closed \in R /\ Closed.view = None
  BY DEF Closed
<1>2. \A q \in Procs : conn[q] \in R
  BY DEF TypeOK
<1>3. ASSUME NEW q \in Procs
      PROVE  r(q) \in R /\ r(q).view = conn[q].view /\ (conn[q].view # None => r(q).stale)
  <2>1. conn[q] \in R
    BY <1>2
  <2> QED BY <2>1
<1>4. /\ conn' = [q \in Procs |-> IF q = p THEN Closed ELSE r(q)]
      /\ writer' = None /\ file' = c
  BY DEF CommitOf
<1> HIDE DEF R, r
<1>5. /\ conn' \in [Procs -> R] /\ conn'[p] = Closed
      /\ \A q \in Procs \ {p} : conn'[q] = r(q)
  BY <1>1, <1>3, <1>4
<1> QED BY <1>1, <1>3, <1>4, <1>5 DEF R

\* A SELECT changes nothing of what its process sees.
LEMMA LookedConn ==
  ASSUME TypeOK, NEW p \in Procs, Looked(p)
  PROVE  /\ conn' \in [Procs -> [open : BOOLEAN, view : Contents \cup {None}, stale : BOOLEAN]]
         /\ conn'[p].stale = conn[p].stale
         /\ conn'[p].view = conn[p].view \/ (conn[p].view = None /\ conn'[p].view = file)
         /\ \A q \in Procs \ {p} : conn'[q] = conn[q]
<1> DEFINE R == [open : BOOLEAN, view : Contents \cup {None}, stale : BOOLEAN]
           r == [conn[p] EXCEPT !.view = file]
<1>1. conn \in [Procs -> R] /\ conn[p] \in R /\ file \in Contents
  BY DEF TypeOK
<1>2. r \in R /\ r.view = file /\ r.stale = conn[p].stale
  BY <1>1
<1>3. CASE conn[p].open /\ conn[p].view = None
  <2>1. conn' = [conn EXCEPT ![p] = r]
    BY <1>3 DEF Looked
  <2> HIDE DEF R, r
  <2>2. conn' \in [Procs -> R] /\ conn'[p] = r /\ \A q \in Procs \ {p} : conn'[q] = conn[q]
    BY <1>1, <1>2, <2>1
  <2> QED BY <1>2, <1>3, <2>2 DEF R
<1>4. CASE ~(conn[p].open /\ conn[p].view = None)
  <2>1. conn' = conn
    BY <1>4 DEF Looked
  <2> QED BY <1>1, <2>1
<1> QED BY <1>3, <1>4

-----------------------------------------------------------------------------
(* Each step keeps them *)

LEMMA Holders ==
  ASSUME TypeOK, LockInv, NEW t \in Tasks, NEW n, Puts(t, n)
  PROVE  /\ \A q \in Procs \ {Home(t)} : lock[q] # None => todo'[lock[q]] = todo[lock[q]]
         /\ ~Mid(t) => \A q \in Procs : lock[q] # None => todo'[lock[q]] = todo[lock[q]]
BY DEF Puts, LockInv, TypeOK

\* The connections, the locks and the file are as they were.
LEMMA NothingWritten ==
  ASSUME Base, NEW t \in Tasks, NEW n, Puts(t, n), ~Mid(t), UNCHANGED <<file, writer, conn, lock>>
  PROVE  ConnInv'
<1> USE DEF Base
<1>1. \A q \in Procs : lock[q] # None => todo'[lock[q]] = todo[lock[q]]
  BY Holders
<1>2. ASSUME NEW q \in Procs PROVE ConnOK(q)'
  BY <1>1, <1>2, Untouched DEF ConnInv
<1> QED BY <1>2 DEF ConnInv, Whole

LEMMA ByStatement ==
  ASSUME Base, NEW t \in Tasks, Statement(t)
  PROVE  /\ Base' /\ Puts(t, Pos(t) + 1) /\ MidAt(t, Pos(t) + 1)
         /\ Kind[t] # "export" /\ Overlaps /\ UNCHANGED <<got, copies>>
<1> DEFINE p == Home(t)
           i == Pos(t) + 1
           to == P(t)[i].to
           does == P(t)[i].does
           x == IF does = "wipe" THEN Gone ELSE t
           c == [Sees(p) EXCEPT ![to] = x]
<1> USE DEF Base
<1>1. /\ Next1(t, {"write", "wipe"}) /\ HasLock(t) /\ CanWrite(p) /\ Goes(t) /\ Overlaps
      /\ lock' = [lock EXCEPT ![p] = t] /\ UNCHANGED <<got, copies, crashes>>
      /\ WritesTo(p, [Sees(p) EXCEPT ![Head(todo[t]).to] =
                        IF Head(todo[t]).does = "wipe" THEN Gone ELSE t])
  BY Zenon DEF Statement
<1>2. /\ Pos(t) \in Nat /\ i < Len(P(t)) /\ Head(todo[t]) = P(t)[i]
      /\ i \in 1..Len(P(t)) /\ Touches(P(t)[i]) /\ to \in Tables
      /\ P(t)[i] = Say(does, to)
      /\ does = "wipe" => \A j \in 1..i, b \in Tables : P(t)[j] # Say("write", b)
      /\ Kind[t] # "export" /\ Kind[t] \in Kinds /\ todo[t] # <<>>
  BY <1>1, Writing
<1>3. does \in {"write", "wipe"}
  BY <1>2 DEF Touches
<1>4. Puts(t, i)
  BY <1>1, <1>2, Advance
<1>5. MidAt(t, i)
  <2>1. i \in 1..i
    BY <1>2
  <2> HIDE DEF i
  <2> QED BY <1>2, <2>1 DEF MidAt
<1>6. p \in Procs /\ t # None
  BY HomeIsProc
<1>7. Sees(p) \in Contents /\ x \in Tasks \cup {Gone}
  BY <1>6, SeesType
<1>8. WritesTo(p, c)
  BY <1>1, <1>2
<1> HIDE DEF p, i, to, does, x
<1>9. c \in Contents /\ \A b \in Tables : c[b] = IF b = to THEN x ELSE Sees(p)[b]
  BY <1>2, <1>7, ContentType
<1> HIDE DEF c
<1>10. /\ conn' \in [Procs -> [open : BOOLEAN, view : Contents \cup {None}, stale : BOOLEAN]]
       /\ writer' = p /\ file' = file
       /\ conn'[p].view = c /\ \A q \in Procs \ {p} : conn'[q] = conn[q]
  BY <1>6, <1>8, <1>9, WrittenConn
<1>11. lock'[p] = t /\ lock' \in [Procs -> Tasks \cup {None}] /\ \A q \in Procs \ {p} : lock'[q] = lock[q]
  BY <1>1, <1>6 DEF TypeOK
<1>12. TypeOK'
  <2>1. TodoOK'
    BY <1>4 DEF Puts
  <2>2. hist' \in [mixed : SUBSET Tasks, twins : BOOLEAN]
    BY <1>1 DEF Overlaps, TypeOK
  <2>3. RestOK'
    BY <1>1, <1>6, <1>10, <1>11, <2>2 DEF RestOK, TypeOK, copies
  <2> QED BY <2>1, <2>3, TypeIs
<1>13. LockInv'
  BY <1>1, <1>4, <1>5, LockTaken DEF p
<1>14. VacuumInv'
  <2>1. vacuum' = vacuum /\ vacuum[Home(t)] # t
    BY <1>1, <1>6 DEF copies, Next1
  <2> QED BY <1>4, <2>1, VacuumKept
<1>15. \A b \in Tables : Sees(p)[b] = PendingAt(t, Pos(t), file, b)
  <2>1. CASE lock[p] = t
    <3>1. ConnOK(p) /\ None \notin Contents
      BY <1>6, SeesType DEF ConnInv
    <3> QED BY <1>6, <2>1, <3>1 DEF ConnOK, Sees
  <2>2. CASE lock[p] = None
    <3>1. Sees(p) = file
      BY <1>1, <1>6, <2>2, SeesFile
    <3>2. ~Mid(t)
      BY <1>6, <2>2 DEF LockInv, p
    <3>3. Pos(t) \in 0..Len(P(t)) /\ Pos(t) < Len(P(t)) /\ ~MidAt(t, Pos(t))
      BY <1>2, <3>2, PosIs DEF Mid, i
    <3> QED BY <3>1, <3>3, NothingPending
  <2> QED BY <1>1, <2>1, <2>2 DEF HasLock, p
<1>16. \A b \in Tables : c[b] = PendingAt(t, i, file, b)
  <2> SUFFICES ASSUME NEW b \in Tables PROVE c[b] = PendingAt(t, i, file, b)
    OBVIOUS
  <2>1. PendingAt(t, Pos(t) + 1, file, b) =
          IF b = to THEN IF does = "wipe" THEN Gone ELSE t ELSE PendingAt(t, Pos(t), file, b)
    <3>1. /\ Pos(t) \in Nat /\ to \in Tables /\ does \in {"write", "wipe"}
          /\ P(t)[Pos(t) + 1] = Say(does, to)
          /\ does = "wipe" => \A j \in 1..(Pos(t) + 1), a \in Tables : P(t)[j] # Say("write", a)
      BY <1>2, <1>3 DEF i
    <3> QED BY <3>1, StatementPends
  <2> QED BY <1>9, <1>15, <2>1 DEF i, x
<1>17. ConnOK(p)'
  <2>1. Pos(t)' = i
    BY <1>4 DEF Puts
  <2>2. \A b \in Tables : conn'[p].view[b] = PendingAt(lock'[p], Len(P(lock'[p])) - Len(todo'[lock'[p]]), file', b)
    BY <1>10, <1>11, <1>16, <2>1 DEF Pos, P
  <2>3. conn'[p].view # None
    BY <1>6, <1>9, <1>10, SeesType
  <2>4. lock'[p] # None /\ writer' = p
    BY <1>6, <1>10, <1>11
  <2> QED BY <2>2, <2>3, <2>4 DEF ConnOK, Pos, PendingAt, P
<1>18. ASSUME NEW q \in Procs \ {p} PROVE ConnOK(q)'
  <2>1. lock[q] = None /\ writer # q
    BY <1>1, <1>6, <1>18, OwnWriter
  <2>2. lock'[q] = lock[q] /\ conn'[q] = conn[q] /\ writer' # q /\ file' = file
    BY <1>10, <1>11, <1>18
  <2>3. ConnOK(q)
    BY <1>18 DEF ConnInv
  <2> QED BY <2>1, <2>2, <2>3, Untouched
<1>19. ConnInv'
  BY <1>10, <1>17, <1>18 DEF ConnInv, Whole
<1> QED BY <1>1, <1>2, <1>4, <1>5, <1>12, <1>13, <1>14, <1>19 DEF i

\* A commit of what is whole leaves everybody's view in order.
LEMMA CommitKeeps ==
  ASSUME Base, NEW p \in Procs, CanWrite(p), NEW c \in Contents, Whole(c), CommitOf(p, c),
         lock'[p] = None, \A q \in Procs \ {p} : lock'[q] = lock[q]
  PROVE  ConnInv'
<1> USE DEF Base
<1>1. /\ writer' = None /\ file' = c /\ conn'[p].view = None
      /\ \A q \in Procs \ {p} :
           conn'[q].view = conn[q].view /\ (conn[q].view # None => conn'[q].stale)
  BY CommittedConn
<1>2. None \notin Procs
  BY SeesType
<1>3. ConnOK(p)'
  BY <1>1, <1>2 DEF ConnOK
<1>4. ASSUME NEW q \in Procs \ {p} PROVE ConnOK(q)'
  <2>1. lock[q] = None /\ ConnOK(q)
    BY <1>4, OwnWriter DEF ConnInv
  <2> QED BY <1>1, <1>2, <1>4, <2>1 DEF ConnOK, Whole
<1>5. Whole(file)'
  BY <1>1 DEF Whole
<1> QED BY <1>3, <1>4, <1>5 DEF ConnInv

LEMMA ByCommit ==
  ASSUME Base, NEW t \in Tasks, Commits(t)
  PROVE  Base' /\ Puts(t, Len(P(t))) /\ Kind[t] # "export" /\ Overlaps /\ UNCHANGED <<got, copies>>
<1> DEFINE p == Home(t)
<1> USE DEF Base
<1>1. /\ Next1(t, {"commit"}) /\ CommitOf(p, conn[p].view) /\ Goes(t) /\ Overlaps
      /\ lock' = [lock EXCEPT ![p] = None] /\ UNCHANGED <<got, copies, crashes>>
  BY Zenon DEF Commits
<1>2. /\ Pos(t) \in Nat /\ Pos(t) + 1 = Len(P(t)) /\ Pos(t) \in 1..Pos(t)
      /\ Touches(P(t)[Pos(t)]) /\ todo[t] # <<>>
      /\ Kind[t] \in {"edit", "removal", "sale", "restore", "snapshot"}
  BY <1>1, Ending
<1>3. p \in Procs /\ t # None
  BY HomeIsProc
<1>4. lock[p] = t
  <2>1. Mid(t)
    BY <1>2 DEF Mid, MidAt
  <2> QED BY <2>1 DEF LockInv
<1> HIDE DEF p
<1>5. ConnOK(p) /\ Whole(file) /\ file \in Contents
  BY <1>3 DEF ConnInv, TypeOK
<1>6. /\ writer = p /\ conn[p].view \in Contents
      /\ \A b \in Tables : conn[p].view[b] = PendingAt(t, Pos(t), file, b)
  BY <1>3, <1>4, <1>5, SeesType DEF ConnOK
<1>7. Whole(conn[p].view)
  BY <1>2, <1>5, <1>6, CommitIsWhole
<1>8. Puts(t, Len(P(t)))
  BY <1>1, <1>2, Advance
<1>9. /\ conn' \in [Procs -> [open : BOOLEAN, view : Contents \cup {None}, stale : BOOLEAN]]
      /\ writer' = None /\ file' = conn[p].view
  BY <1>1, <1>3, CommittedConn
<1>10. /\ lock' \in [Procs -> Tasks \cup {None}] /\ lock'[p] = None
       /\ \A q \in Procs \ {p} : lock'[q] = lock[q]
  BY <1>1, <1>3 DEF TypeOK
<1>11. TypeOK'
  <2>1. TodoOK'
    BY <1>8 DEF Puts
  <2>2. hist' \in [mixed : SUBSET Tasks, twins : BOOLEAN]
    BY <1>1 DEF Overlaps, TypeOK
  <2>3. RestOK'
    BY <1>1, <1>6, <1>9, <1>10, <2>2 DEF RestOK, TypeOK, copies
  <2> QED BY <2>1, <2>3, TypeIs
<1>12. LockInv'
  <2>1. Len(P(t)) \in 0..Len(P(t))
    BY <1>2
  <2>2. ~MidAt(t, Len(P(t))) /\ HasLock(t)
    BY <1>4, <2>1, NotMid DEF HasLock, p
  <2> QED BY <1>1, <1>8, <2>2, LockLeft DEF p
<1>13. VacuumInv'
  <2>1. vacuum' = vacuum /\ vacuum[Home(t)] # t
    BY <1>1, <1>3 DEF copies, Next1
  <2> QED BY <1>8, <2>1, VacuumKept
<1>14. ConnInv'
  <2>1. CanWrite(p)
    BY <1>6 DEF CanWrite
  <2> QED BY <1>1, <1>3, <1>6, <1>7, <1>10, <2>1, CommitKeeps
<1> QED BY <1>1, <1>2, <1>8, <1>11, <1>12, <1>13, <1>14

\* A statement fails: its transaction goes, or never wrote anything.
LEMMA ByFailure ==
  ASSUME Base, NEW t \in Tasks, Busy(t) \/ Rejected(t)
  PROVE  Base' /\ Puts(t, Len(P(t))) /\ Kind[t] # "export" /\ Overlaps /\ UNCHANGED <<got, copies>>
<1> DEFINE p == Home(t)
<1> USE DEF Base
<1>1. /\ Next1(t, {"write", "wipe"}) /\ HasLock(t) /\ Fails(t)
      /\ ~CanWrite(p) \/ Kind[t] \in RollsBack \cup {"edit"}
  <2>1. CASE Busy(t)
    BY <2>1 DEF Busy
  <2>2. CASE Rejected(t)
    BY <2>2 DEF Rejected, Next1, RollsBack
  <2> QED BY <2>1, <2>2
<1>2. /\ IF Kind[t] \in RollsBack THEN RollbackOf(p)
         ELSE IF CanWrite(p) THEN WritesTo(p, Sees(p)) ELSE LeftOpen(p)
      /\ lock' = [lock EXCEPT ![p] = None] /\ Ends(t) /\ Overlaps
      /\ UNCHANGED <<got, copies, crashes>>
  BY <1>1, Zenon DEF Fails
<1>3. /\ Pos(t) \in Nat /\ Kind[t] # "export" /\ Kind[t] \in Kinds
      /\ Kind[t] = "edit" => Pos(t) = 0
  BY <1>1, Writing
<1>4. Puts(t, Len(P(t))) /\ Len(P(t)) \in Nat
  BY <1>2, Finish, PosIs
<1>5. p \in Procs /\ t # None
  BY HomeIsProc
<1> HIDE DEF p
<1>6. /\ lock' \in [Procs -> Tasks \cup {None}] /\ lock'[p] = None
      /\ \A q \in Procs \ {p} : lock'[q] = lock[q]
  BY <1>2, <1>5 DEF TypeOK
<1>7. ConnOK(p) /\ Whole(file) /\ file \in Contents /\ Sees(p) \in Contents
  BY <1>5, SeesType DEF ConnInv, TypeOK
<1>8. /\ conn' \in [Procs -> [open : BOOLEAN, view : Contents \cup {None}, stale : BOOLEAN]]
      /\ writer' \in Procs \cup {None} /\ file' = file /\ ConnOK(p)'
      /\ \A q \in Procs \ {p} :
           conn'[q] = conn[q] /\ (writer' = q => writer = q) /\ (writer = q => writer' = q)
  <2>1. CASE Kind[t] \in RollsBack
    <3>1. RollbackOf(p)
      BY <1>2, <2>1
    <3>2. /\ conn' \in [Procs -> [open : BOOLEAN, view : Contents \cup {None}, stale : BOOLEAN]]
          /\ writer' \in Procs \cup {None} /\ file' = file /\ conn'[p].view = None /\ writer' # p
          /\ \A q \in Procs \ {p} :
               conn'[q] = conn[q] /\ (writer' = q => writer = q) /\ (writer = q => writer' = q)
      BY <1>5, <3>1, ClosedConn
    <3>3. ConnOK(p)'
      BY <1>6, <3>2 DEF ConnOK
    <3> QED BY <3>2, <3>3
  <2>2. CASE Kind[t] \notin RollsBack /\ CanWrite(p)
    <3>1. WritesTo(p, Sees(p)) /\ Kind[t] = "edit"
      BY <1>1, <1>2, <2>2
    <3>2. /\ conn' \in [Procs -> [open : BOOLEAN, view : Contents \cup {None}, stale : BOOLEAN]]
          /\ writer' = p /\ file' = file
          /\ conn'[p].view = Sees(p) /\ \A q \in Procs \ {p} : conn'[q] = conn[q]
      BY <1>5, <1>7, <3>1, WrittenConn
    <3>3. lock[p] = None
      <4>1. 0 \in 0..Len(P(t))
        BY <1>4
      <4>2. ~MidAt(t, 0)
        BY <4>1, NotMid
      <4>3. ~Mid(t)
        BY <1>3, <3>1, <4>2 DEF Mid
      <4> QED BY <1>1, <1>5, <4>3 DEF HasLock, LockInv, p
    <3>4. Sees(p) = file
      BY <1>5, <2>2, <3>3, SeesFile
    <3>5. ConnOK(p)'
      BY <1>6, <1>7, <3>2, <3>4 DEF ConnOK, Whole
    <3>6. \A q \in Procs \ {p} : writer # q
      BY <1>5, <2>2, OwnWriter
    <3> QED BY <1>5, <3>2, <3>5, <3>6
  <2>3. CASE Kind[t] \notin RollsBack /\ ~CanWrite(p)
    <3>1. LeftOpen(p)
      BY <1>2, <2>3
    <3>2. /\ conn' \in [Procs -> [open : BOOLEAN, view : Contents \cup {None}, stale : BOOLEAN]]
          /\ writer' = writer /\ file' = file
          /\ conn'[p].view = conn[p].view /\ conn'[p].stale = conn[p].stale
          /\ \A q \in Procs \ {p} : conn'[q] = conn[q]
      BY <1>5, <3>1, OpenedConn
    <3>3. lock[p] = None
      BY <1>7, <2>3 DEF ConnOK, CanWrite
    <3>4. writer \in Procs \cup {None}
      BY DEF TypeOK
    <3>5. ConnOK(p)'
      BY <1>6, <1>7, <3>2, <3>3 DEF ConnOK, Whole
    <3> QED BY <3>2, <3>4, <3>5
  <2> QED BY <2>1, <2>2, <2>3
<1>9. TypeOK'
  <2>1. TodoOK'
    BY <1>4 DEF Puts
  <2>2. hist' \in [mixed : SUBSET Tasks, twins : BOOLEAN]
    BY <1>2 DEF Overlaps, TypeOK
  <2>3. RestOK'
    BY <1>2, <1>6, <1>8, <2>2 DEF RestOK, TypeOK, copies
  <2> QED BY <2>1, <2>3, TypeIs
<1>10. LockInv'
  <2>1. Len(P(t)) \in 0..Len(P(t))
    BY <1>4
  <2>2. ~MidAt(t, Len(P(t)))
    BY <2>1, NotMid
  <2> QED BY <1>1, <1>2, <1>4, <2>2, LockLeft DEF p
<1>11. VacuumInv'
  <2>1. vacuum' = vacuum /\ vacuum[Home(t)] # t
    BY <1>1, <1>2, <1>5 DEF copies, Next1
  <2> QED BY <1>4, <2>1, VacuumKept
<1>12. ASSUME NEW q \in Procs \ {p} PROVE ConnOK(q)'
  <2>1. lock[q] # None => todo'[lock[q]] = todo[lock[q]]
    BY <1>4, <1>12, Holders DEF p
  <2>2. ConnOK(q)
    BY <1>12 DEF ConnInv
  <2> QED BY <1>6, <1>8, <1>12, <2>1, <2>2, Untouched
<1>13. ConnInv'
  BY <1>7, <1>8, <1>12 DEF ConnInv, Whole
<1> QED BY <1>2, <1>3, <1>4, <1>9, <1>10, <1>11, <1>13

LEMMA NobodyMoves ==
  ASSUME Base, lock' = lock, todo' = todo, vacuum' = vacuum
  PROVE  TodoOK' /\ LockInv' /\ VacuumInv'
<1> USE DEF Base
<1>1. TodoOK
  BY DEF TypeOK, TodoOK, P
<1>2. TodoOK'
  BY <1>1 DEF TodoOK, P
<1>3. LockInv'
  BY DEF LockInv, Mid, MidAt, Pos, P, Home
<1>4. VacuumInv'
  BY DEF VacuumInv, Pos, P, Home
<1> QED BY <1>2, <1>3, <1>4

LEMMA ByLease ==
  ASSUME Base, NEW p \in Procs, Lease(p)
  PROVE  Base' /\ Overlaps /\ UNCHANGED <<todo, got, copies>>
<1> USE DEF Base
<1>1. /\ lock[p] = None /\ (IF CanWrite(p) THEN CommitOf(p, Sees(p)) ELSE LeftOpen(p)) /\ Overlaps
      /\ UNCHANGED <<lock, todo, got, copies, crashes>>
  BY Zenon DEF Lease, CommitLease
<1>2. TodoOK' /\ LockInv' /\ VacuumInv'
  BY <1>1, NobodyMoves DEF copies
<1>3. hist' \in [mixed : SUBSET Tasks, twins : BOOLEAN]
  BY <1>1 DEF Overlaps, TypeOK
<1>4. lock' = lock /\ lock'[p] = None
  BY <1>1
<1>5. CASE CanWrite(p)
  <2>1. CommitOf(p, Sees(p)) /\ Whole(Sees(p)) /\ Sees(p) \in Contents
    BY <1>1, <1>5, SeesFile, SeesType
  <2>2. ConnInv'
    BY <1>4, <1>5, <2>1, CommitKeeps
  <2>3. /\ conn' \in [Procs -> [open : BOOLEAN, view : Contents \cup {None}, stale : BOOLEAN]]
        /\ writer' = None /\ file' = Sees(p)
    BY <2>1, CommittedConn
  <2>4. RestOK'
    BY <1>1, <1>3, <2>1, <2>3 DEF RestOK, TypeOK, copies
  <2> QED BY <1>1, <1>2, <2>2, <2>4, TypeIs
<1>6. CASE ~CanWrite(p)
  <2>1. /\ conn' \in [Procs -> [open : BOOLEAN, view : Contents \cup {None}, stale : BOOLEAN]]
        /\ writer' = writer /\ file' = file
        /\ conn'[p].view = conn[p].view /\ conn'[p].stale = conn[p].stale
        /\ \A q \in Procs \ {p} : conn'[q] = conn[q]
    BY <1>1, <1>6, OpenedConn
  <2>2. RestOK'
    BY <1>1, <1>3, <2>1 DEF RestOK, TypeOK, copies
  <2>3. ConnOK(p)'
    BY <1>1, <1>4, <2>1 DEF ConnInv, ConnOK, Whole
  <2>4. ASSUME NEW q \in Procs \ {p} PROVE ConnOK(q)'
    <3>1. ConnOK(q) /\ todo' = todo
      BY <1>1, <2>4 DEF ConnInv
    <3> QED BY <1>4, <2>1, <2>4, <3>1, Untouched
  <2>5. ConnInv'
    BY <2>1, <2>3, <2>4 DEF ConnInv, Whole
  <2> QED BY <1>1, <1>2, <2>2, <2>5, TypeIs
<1> QED BY <1>5, <1>6

\* A SELECT.
LEMMA LookKeeps ==
  ASSUME Base, NEW p \in Procs, Looked(p), UNCHANGED <<file, writer, lock>>,
         \A q \in Procs : lock[q] # None => todo'[lock[q]] = todo[lock[q]]
  PROVE  /\ ConnInv'
         /\ conn' \in [Procs -> [open : BOOLEAN, view : Contents \cup {None}, stale : BOOLEAN]]
         /\ \A q \in Procs : Sees(q)' = Sees(q)
<1> USE DEF Base
<1>1. /\ conn' \in [Procs -> [open : BOOLEAN, view : Contents \cup {None}, stale : BOOLEAN]]
      /\ conn'[p].stale = conn[p].stale
      /\ conn'[p].view = conn[p].view \/ (conn[p].view = None /\ conn'[p].view = file)
      /\ \A q \in Procs \ {p} : conn'[q] = conn[q]
  BY LookedConn
<1>2. ConnOK(p) /\ Whole(file) /\ file \in Contents /\ None \notin Contents
  BY SeesType DEF ConnInv, TypeOK
<1>3. ConnOK(p)'
  <2>1. lock[p] # None => Pos(lock[p])' = Pos(lock[p])
    BY DEF Pos, P
  <2>2. CASE conn'[p].view = conn[p].view
    BY <1>1, <1>2, <2>1, <2>2 DEF ConnOK, Whole
  <2>3. CASE conn[p].view = None /\ conn'[p].view = file
    <3>1. lock[p] = None
      BY <1>2, <2>3 DEF ConnOK
    <3> QED BY <1>1, <1>2, <2>3, <3>1 DEF ConnOK, Whole
  <2> QED BY <1>1, <2>2, <2>3
<1>4. ASSUME NEW q \in Procs \ {p} PROVE ConnOK(q)'
  <2>1. ConnOK(q)
    BY <1>4 DEF ConnInv
  <2> QED BY <1>1, <1>4, <2>1, Untouched
<1>5. ConnInv'
  BY <1>2, <1>3, <1>4 DEF ConnInv, Whole
<1>6. ASSUME NEW q \in Procs PROVE Sees(q)' = Sees(q)
  BY <1>1, <1>2 DEF Sees
<1> QED BY <1>1, <1>5, <1>6

LEMMA ByRead ==
  ASSUME Base, NEW t \in Tasks, Reads(t)
  PROVE  /\ Base' /\ Puts(t, Pos(t) + 1) /\ Kind[t] = "export" /\ Pos(t) \in 0..4 /\ Len(P(t)) = 5
         /\ \A q \in Procs : Sees(q)' = Sees(q)
         /\ got' = [got EXCEPT ![t][InOrder[Pos(t) + 1]] = Sees(Home(t))[InOrder[Pos(t) + 1]]]
         /\ lock' = lock /\ disk' = disk /\ (t \notin hist'.mixed => Runs(t) \/ lock[Home(t)] = None)
         /\ hist'.mixed \in {hist.mixed, hist.mixed \cup {t}} /\ hist'.twins = hist.twins
<1> DEFINE p == Home(t)
<1> USE DEF Base
<1>1. /\ Next1(t, {"read"}) /\ Looked(p) /\ Goes(t)
      /\ got' = [got EXCEPT ![t][Head(todo[t]).to] = Sees(p)[Head(todo[t]).to]]
      /\ hist' = IF ~Runs(t) /\ lock[p] # None THEN [hist EXCEPT !.mixed = @ \cup {t}] ELSE hist
      /\ UNCHANGED <<file, writer, lock, copies, crashes>>
  BY Zenon DEF Reads
<1>2. todo[t] # <<>> /\ Head(todo[t]).does = "read" /\ vacuum[p] = None
  BY <1>1 DEF Next1
<1>3. Kind[t] = "export" /\ Head(todo[t]).to = InOrder[Pos(t) + 1] /\ Pos(t) \in 0..4
  BY <1>2, Reading
<1>4. Puts(t, Pos(t) + 1)
  BY <1>1, <1>2, Advance
<1>5. p \in Procs /\ t # None /\ Sees(p) \in Contents
  BY HomeIsProc, SeesType
<1>6. Len(P(t)) = 5
  BY <1>3, ExportIs DEF P
<1> DEFINE b == InOrder[Pos(t) + 1]
<1>7. b \in Tables
  <2>1. Pos(t) + 1 \in 1..5
    BY <1>3
  <2> QED BY <2>1, OrderIs, ElementOfSeq
<1>8. got' = [got EXCEPT ![t][b] = Sees(p)[b]]
  BY <1>1, <1>3
<1>9. Sees(p)[b] \in Tasks \cup {Shipped, Gone, None}
  BY <1>5, <1>7 DEF Contents
<1> HIDE DEF b, p
<1>10. got' \in [Tasks -> [Tables -> Tasks \cup {Shipped, Gone, None}]]
  BY <1>7, <1>8, <1>9 DEF TypeOK
<1>11. /\ hist' \in [mixed : SUBSET Tasks, twins : BOOLEAN]
       /\ t \notin hist'.mixed => Runs(t) \/ lock[p] = None
       /\ hist'.mixed \in {hist.mixed, hist.mixed \cup {t}} /\ hist'.twins = hist.twins
  <2>1. hist \in [mixed : SUBSET Tasks, twins : BOOLEAN]
    BY DEF TypeOK
  <2>2. CASE ~Runs(t) /\ lock[p] # None
    BY <1>1, <2>1, <2>2
  <2>3. CASE ~(~Runs(t) /\ lock[p] # None)
    BY <1>1, <2>1, <2>3
  <2> QED BY <2>2, <2>3
<1>12. ~Mid(t) /\ ~MidAt(t, Pos(t) + 1)
  <2>1. Pos(t) \in 0..Len(P(t)) /\ Pos(t) + 1 \in 0..Len(P(t))
    BY <1>3, <1>6
  <2>2. ~MidAt(t, Pos(t))
    BY <1>3, <2>1, NotMid
  <2>3. ~MidAt(t, Pos(t) + 1)
    BY <1>3, <2>1, NotMid
  <2> QED BY <2>2, <2>3 DEF Mid
<1>13. \A q \in Procs : lock[q] # None => todo'[lock[q]] = todo[lock[q]]
  BY <1>4, <1>12, Holders
<1>14. /\ ConnInv'
       /\ conn' \in [Procs -> [open : BOOLEAN, view : Contents \cup {None}, stale : BOOLEAN]]
       /\ \A q \in Procs : Sees(q)' = Sees(q)
  BY <1>1, <1>5, <1>13, LookKeeps
<1>15. TypeOK'
  <2>1. TodoOK'
    BY <1>4 DEF Puts
  <2>2. RestOK'
    BY <1>1, <1>10, <1>11, <1>14 DEF RestOK, TypeOK, copies
  <2> QED BY <2>1, <2>2, TypeIs
<1>16. LockInv'
  BY <1>1, <1>4, <1>12, LocksKept
<1>17. VacuumInv'
  <2>1. vacuum' = vacuum /\ vacuum[Home(t)] # t
    BY <1>1, <1>2, <1>5 DEF copies, p
  <2> QED BY <1>4, <2>1, VacuumKept
<1> QED BY <1>1, <1>3, <1>4, <1>6, <1>8, <1>11, <1>14, <1>15, <1>16, <1>17 DEF copies, b, p

LEMMA ByRequest ==
  ASSUME Base, NEW p \in Procs, Request(p)
  PROVE  /\ Base' /\ UNCHANGED <<lock, todo, got, disk, hist>>
         /\ \A q \in Procs : Sees(q)' = Sees(q)
<1> USE DEF Base
<1>1. Looked(p) /\ UNCHANGED <<file, writer, lock, todo, got, copies, crashes, hist>>
  BY Zenon DEF Request
<1>2. /\ ConnInv'
      /\ conn' \in [Procs -> [open : BOOLEAN, view : Contents \cup {None}, stale : BOOLEAN]]
      /\ \A q \in Procs : Sees(q)' = Sees(q)
  BY <1>1, LookKeeps
<1>3. TodoOK' /\ LockInv' /\ VacuumInv'
  BY <1>1, NobodyMoves DEF copies
<1>4. RestOK'
  BY <1>1, <1>2 DEF RestOK, TypeOK, copies
<1> QED BY <1>1, <1>2, <1>3, <1>4, TypeIs DEF copies

\* A step of a snapshot.
LEMMA SnapshotMoves ==
  ASSUME Base, NEW t \in Tasks, NEW n \in 0..4 \cup {Len(P(t))}, Puts(t, n), Kind[t] = "snapshot",
         Pos(t) \in 0..3, UNCHANGED <<sqlite, lock, got, crashes>>,
         vacuum' \in [Procs -> Tasks \cup {None}],
         disk' \in [at : [Names -> Tasks \cup {None}], whole : SUBSET Tasks],
         hist' \in [mixed : SUBSET Tasks, twins : BOOLEAN]
  PROVE  TypeOK' /\ LockInv' /\ ConnInv'
<1> USE DEF Base
<1>1. Len(P(t)) = 6
  BY SnapshotIs DEF P
<1>2. ~Mid(t) /\ ~MidAt(t, n)
  <2>1. Pos(t) \in 0..Len(P(t)) /\ n \in 0..Len(P(t)) /\ Pos(t) \in 0..4
    BY <1>1
  <2>2. ~MidAt(t, Pos(t))
    BY <2>1, NotMid
  <2>3. ~MidAt(t, n)
    BY <1>1, <2>1, NotMid
  <2> QED BY <2>2, <2>3 DEF Mid
<1>3. TypeOK'
  <2>1. TodoOK'
    BY DEF Puts
  <2>2. RestOK'
    BY DEF RestOK, TypeOK, sqlite
  <2> QED BY <2>1, <2>2, TypeIs
<1>4. LockInv'
  BY <1>2, LocksKept
<1>5. ConnInv'
  BY <1>2, NothingWritten DEF sqlite
<1> QED BY <1>3, <1>4, <1>5

LEMMA ByLook ==
  ASSUME Base, NEW t \in Tasks, LooksForTarget(t)
  PROVE  /\ Base' /\ Kind[t] = "snapshot" /\ Pos(t) = 0 /\ UNCHANGED <<sqlite, lock, got>>
         /\ disk'.at["db"] = disk.at["db"] /\ disk'.whole = disk.whole /\ hist'.mixed = hist.mixed
         /\ \/ Puts(t, 4) /\ disk' = disk /\ hist' = hist
            \/ /\ Puts(t, 1)
               /\ ~hist'.twins =>
                    ~hist.twins /\ \A u \in Tasks \ {t} : Kind[u] = "snapshot" => ~Runs(u)
<1> USE DEF Base
<1>1. /\ Next1(t, {"look"}) /\ UNCHANGED <<sqlite, lock, got, vacuum, crashes>>
      /\ IF disk.at["db"] # None
         THEN /\ todo' = [todo EXCEPT ![t] = Writes(<<"settings">>)]
              /\ UNCHANGED <<disk, hist>>
         ELSE /\ Goes(t)
              /\ disk' = [disk EXCEPT !.at["partial"] = None]
              /\ hist' = [hist EXCEPT !.twins = @ \/ \E u \in Tasks \ {t} :
                                         Kind[u] = "snapshot" /\ Runs(u)]
  BY Zenon DEF LooksForTarget
<1>2. todo[t] # <<>> /\ Head(todo[t]).does = "look" /\ vacuum[Home(t)] = None
  BY <1>1 DEF Next1
<1>3. Kind[t] = "snapshot" /\ Pos(t) = 0
  BY <1>2, Reading
<1>4. /\ hist \in [mixed : SUBSET Tasks, twins : BOOLEAN]
      /\ disk \in [at : [Names -> Tasks \cup {None}], whole : SUBSET Tasks]
      /\ vacuum \in [Procs -> Tasks \cup {None}]
  BY DEF TypeOK
<1>5. vacuum' = vacuum /\ vacuum[Home(t)] # t
  BY <1>1, <1>2, HomeIsProc
<1>6. CASE disk.at["db"] # None
  <2>1. Puts(t, 4) /\ disk' = disk /\ hist' = hist
    BY <1>1, <1>3, <1>6, Skip
  <2>2. VacuumInv'
    BY <1>5, <2>1, VacuumKept
  <2>3. TypeOK' /\ LockInv' /\ ConnInv'
    <3>1. 4 \in 0..4 \cup {Len(P(t))} /\ Pos(t) \in 0..3
      BY <1>3
    <3> QED BY <1>1, <1>3, <1>4, <2>1, <3>1, SnapshotMoves
  <2> QED BY <1>1, <1>3, <2>1, <2>2, <2>3
<1>7. CASE disk.at["db"] = None
  <2>1. Puts(t, 1)
    <3>1. Puts(t, Pos(t) + 1) /\ Pos(t) + 1 = 1
      BY <1>1, <1>2, <1>3, <1>7, Advance
    <3> QED BY <3>1
  <2>2. /\ disk' \in [at : [Names -> Tasks \cup {None}], whole : SUBSET Tasks]
        /\ disk'.at["db"] = disk.at["db"] /\ disk'.whole = disk.whole
    BY <1>1, <1>4, <1>7 DEF Names
  <2> DEFINE Twins == \E u \in Tasks \ {t} : Kind[u] = "snapshot" /\ Runs(u)
  <2>3. hist' = [hist EXCEPT !.twins = hist.twins \/ Twins]
    BY <1>1, <1>7
  <2>4. Twins \in BOOLEAN
    OBVIOUS
  <2>5. ~Twins => \A u \in Tasks \ {t} : Kind[u] = "snapshot" => ~Runs(u)
    OBVIOUS
  <2> HIDE DEF Twins
  <2>6. /\ hist' \in [mixed : SUBSET Tasks, twins : BOOLEAN] /\ hist'.mixed = hist.mixed
        /\ ~hist'.twins => ~hist.twins /\ ~Twins
    BY <1>4, <2>3, <2>4
  <2>7. VacuumInv'
    BY <1>5, <2>1, VacuumKept
  <2>8. TypeOK' /\ LockInv' /\ ConnInv'
    <3>1. 1 \in 0..4 \cup {Len(P(t))} /\ Pos(t) \in 0..3
      BY <1>3
    <3>2. UNCHANGED <<sqlite, lock, got, crashes>> /\ vacuum' \in [Procs -> Tasks \cup {None}]
      BY <1>1, <1>4
    <3> QED BY <1>3, <2>1, <2>2, <2>6, <3>1, <3>2, SnapshotMoves
  <2> QED BY <1>1, <1>3, <2>1, <2>2, <2>5, <2>6, <2>7, <2>8
<1> QED BY <1>6, <1>7

LEMMA ByVacuum ==
  ASSUME Base, NEW t \in Tasks, Vacuums(t)
  PROVE  /\ Base' /\ Kind[t] = "snapshot" /\ Pos(t) = 1 /\ UNCHANGED <<sqlite, lock, got, hist>>
         /\ \/ Puts(t, Len(P(t))) /\ disk' = disk
            \/ /\ Puts(t, 2) /\ disk'.at["partial"] = t
               /\ disk'.at["db"] = disk.at["db"] /\ disk'.whole = disk.whole
<1> USE DEF Base
<1>1. /\ Next1(t, {"vacuum"}) /\ UNCHANGED <<sqlite, lock, got, crashes, hist>>
      /\ \/ Ends(t) /\ UNCHANGED copies
         \/ /\ Goes(t) /\ disk' = [disk EXCEPT !.at[Head(todo[t]).to] = t]
            /\ vacuum' = [vacuum EXCEPT ![Home(t)] = t]
  BY Zenon DEF Vacuums
<1>2. todo[t] # <<>> /\ Head(todo[t]).does = "vacuum" /\ vacuum[Home(t)] = None
  BY <1>1 DEF Next1
<1>3. Kind[t] = "snapshot" /\ Pos(t) = 1 /\ Head(todo[t]).to = "partial" /\ Len(P(t)) \in Nat
  BY <1>2, Reading
<1>4. /\ hist \in [mixed : SUBSET Tasks, twins : BOOLEAN]
      /\ disk \in [at : [Names -> Tasks \cup {None}], whole : SUBSET Tasks]
      /\ vacuum \in [Procs -> Tasks \cup {None}] /\ Home(t) \in Procs /\ t # None
  BY HomeIsProc DEF TypeOK
<1>5. CASE Ends(t) /\ UNCHANGED copies
  <2>1. Puts(t, Len(P(t))) /\ disk' = disk /\ vacuum' = vacuum
    BY <1>5, Finish DEF copies
  <2>2. VacuumInv'
    BY <1>2, <1>4, <2>1, VacuumKept
  <2>3. TypeOK' /\ LockInv' /\ ConnInv'
    <3>1. Len(P(t)) \in 0..4 \cup {Len(P(t))} /\ Pos(t) \in 0..3
      BY <1>3
    <3>2. /\ UNCHANGED <<sqlite, lock, got, crashes>> /\ vacuum' \in [Procs -> Tasks \cup {None}]
          /\ hist' \in [mixed : SUBSET Tasks, twins : BOOLEAN]
          /\ disk' \in [at : [Names -> Tasks \cup {None}], whole : SUBSET Tasks]
      BY <1>1, <1>4, <2>1
    <3> QED BY <1>3, <2>1, <3>1, <3>2, SnapshotMoves
  <2> QED BY <1>1, <1>3, <2>1, <2>2, <2>3
<1>6. CASE /\ Goes(t) /\ disk' = [disk EXCEPT !.at[Head(todo[t]).to] = t]
           /\ vacuum' = [vacuum EXCEPT ![Home(t)] = t]
  <2>1. Puts(t, 2)
    <3>1. Puts(t, Pos(t) + 1) /\ Pos(t) + 1 = 2
      BY <1>2, <1>3, <1>6, Advance
    <3> QED BY <3>1
  <2>2. disk' = [disk EXCEPT !.at["partial"] = t]
    BY <1>3, <1>6
  <2>3. /\ disk' \in [at : [Names -> Tasks \cup {None}], whole : SUBSET Tasks]
        /\ disk'.at["db"] = disk.at["db"] /\ disk'.whole = disk.whole /\ disk'.at["partial"] = t
    BY <1>4, <2>2 DEF Names
  <2>4. /\ vacuum' \in [Procs -> Tasks \cup {None}] /\ vacuum'[Home(t)] = t
        /\ \A q \in Procs \ {Home(t)} : vacuum'[q] = vacuum[q]
    BY <1>4, <1>6
  <2>5. VacuumInv'
    <3> SUFFICES ASSUME NEW p \in Procs, vacuum'[p] # None
                 PROVE  Home(vacuum[p])' = p /\ Kind[vacuum'[p]] = "snapshot" /\ Pos(vacuum[p])' = 2
      BY DEF VacuumInv, Home
    <3>1. CASE p = Home(t)
      BY <1>3, <2>1, <2>4, <3>1 DEF Puts, Home, Pos, P
    <3>2. CASE p # Home(t)
      <4>1. /\ vacuum'[p] = vacuum[p] /\ vacuum[p] \in Tasks /\ Home(vacuum[p]) = p
            /\ Kind[vacuum[p]] = "snapshot" /\ Pos(vacuum[p]) = 2
        BY <1>4, <2>4, <3>2 DEF VacuumInv
      <4>2. vacuum[p] \in Tasks \ {t}
        BY <3>2, <4>1
      <4>3. todo'[vacuum[p]] = todo[vacuum[p]]
        BY <2>1, <4>2 DEF Puts
      <4> QED BY <4>1, <4>3 DEF Pos, P, Home
    <3> QED BY <3>1, <3>2
  <2>6. TypeOK' /\ LockInv' /\ ConnInv'
    <3>1. 2 \in 0..4 \cup {Len(P(t))} /\ Pos(t) \in 0..3
      BY <1>3
    <3>2. UNCHANGED <<sqlite, lock, got, crashes>> /\ hist' \in [mixed : SUBSET Tasks, twins : BOOLEAN]
      BY <1>1, <1>4
    <3> QED BY <1>3, <2>1, <2>3, <2>4, <3>1, <3>2, SnapshotMoves
  <2> QED BY <1>1, <1>3, <2>1, <2>3, <2>5, <2>6
<1> QED BY <1>1, <1>5, <1>6

LEMMA ByVacuumEnd ==
  ASSUME Base, NEW t \in Tasks, VacuumEnds(t)
  PROVE  /\ Base' /\ Kind[t] = "snapshot" /\ Pos(t) = 2 /\ UNCHANGED <<sqlite, lock, got, hist>>
         /\ Puts(t, 3) /\ disk'.at = disk.at /\ disk'.whole = disk.whole \cup {t}
<1> USE DEF Base
<1>1. /\ vacuum[Home(t)] = t /\ vacuum' = [vacuum EXCEPT ![Home(t)] = None] /\ Goes(t)
      /\ disk' = [disk EXCEPT !.whole = @ \cup {t}]
      /\ UNCHANGED <<sqlite, lock, got, crashes, hist>>
  BY Zenon DEF VacuumEnds
<1>2. Home(t) \in Procs /\ t # None
  BY HomeIsProc
<1>3. Kind[t] = "snapshot" /\ Pos(t) = 2
  BY <1>1, <1>2 DEF VacuumInv
<1>4. todo[t] # <<>>
  <2>1. Len(P(t)) = 6
    BY <1>3, SnapshotIs DEF P
  <2>2. todo[t] # <<>> <=> Pos(t) < Len(P(t))
    BY PosIs
  <2> QED BY <1>3, <2>1, <2>2
<1>5. Puts(t, 3)
  <2>1. Puts(t, Pos(t) + 1) /\ Pos(t) + 1 = 3
    BY <1>1, <1>3, <1>4, Advance
  <2> QED BY <2>1
<1>6. /\ hist \in [mixed : SUBSET Tasks, twins : BOOLEAN]
      /\ disk \in [at : [Names -> Tasks \cup {None}], whole : SUBSET Tasks]
      /\ vacuum \in [Procs -> Tasks \cup {None}]
  BY DEF TypeOK
<1>7. /\ disk' \in [at : [Names -> Tasks \cup {None}], whole : SUBSET Tasks]
      /\ disk'.at = disk.at /\ disk'.whole = disk.whole \cup {t}
  BY <1>1, <1>6
<1>8. /\ vacuum' \in [Procs -> Tasks \cup {None}] /\ vacuum'[Home(t)] = None
      /\ \A q \in Procs \ {Home(t)} : vacuum'[q] = vacuum[q]
  BY <1>1, <1>2, <1>6
<1>9. VacuumInv'
  <2> SUFFICES ASSUME NEW p \in Procs, vacuum'[p] # None
               PROVE  Home(vacuum[p])' = p /\ Kind[vacuum'[p]] = "snapshot" /\ Pos(vacuum[p])' = 2
    BY DEF VacuumInv, Home
  <2>1. p # Home(t)
    BY <1>8
  <2>2. /\ vacuum'[p] = vacuum[p] /\ vacuum[p] \in Tasks /\ Home(vacuum[p]) = p
        /\ Kind[vacuum[p]] = "snapshot" /\ Pos(vacuum[p]) = 2
    BY <1>6, <1>8, <2>1 DEF VacuumInv
  <2>3. vacuum[p] \in Tasks \ {t}
    BY <2>1, <2>2
  <2>4. todo'[vacuum[p]] = todo[vacuum[p]]
    BY <1>5, <2>3 DEF Puts
  <2> QED BY <2>2, <2>4 DEF Pos, P, Home
<1>10. TypeOK' /\ LockInv' /\ ConnInv'
  <2>1. 3 \in 0..4 \cup {Len(P(t))} /\ Pos(t) \in 0..3
    BY <1>3
  <2>2. UNCHANGED <<sqlite, lock, got, crashes>> /\ hist' \in [mixed : SUBSET Tasks, twins : BOOLEAN]
    BY <1>1, <1>6
  <2> QED BY <1>3, <1>5, <1>7, <1>8, <2>1, <2>2, SnapshotMoves
<1> QED BY <1>1, <1>3, <1>5, <1>7, <1>9, <1>10

LEMMA ByRename ==
  ASSUME Base, NEW t \in Tasks, Renames(t)
  PROVE  /\ Base' /\ Kind[t] = "snapshot" /\ Pos(t) = 3 /\ UNCHANGED <<sqlite, lock, got, hist>>
         /\ \/ Puts(t, Len(P(t))) /\ disk' = disk
            \/ Puts(t, 4) /\ disk'.at["db"] = disk.at["partial"] /\ disk'.whole = disk.whole
<1> USE DEF Base
<1>1. /\ todo[t] # <<>> /\ Head(todo[t]).does = "rename"
      /\ UNCHANGED <<sqlite, lock, got, vacuum, crashes, hist>>
      /\ \/ Ends(t) /\ UNCHANGED disk
         \/ /\ Goes(t)
            /\ disk' = [disk EXCEPT !.at = [partial |-> None, db |-> disk.at["partial"]]]
  BY Zenon DEF Renames
<1>2. Kind[t] = "snapshot" /\ Pos(t) = 3 /\ Len(P(t)) \in Nat
  BY <1>1, Reading
<1>3. /\ hist' \in [mixed : SUBSET Tasks, twins : BOOLEAN]
      /\ disk \in [at : [Names -> Tasks \cup {None}], whole : SUBSET Tasks]
      /\ vacuum' \in [Procs -> Tasks \cup {None}] /\ Home(t) \in Procs /\ t # None
      /\ UNCHANGED <<sqlite, lock, got, crashes>>
  BY <1>1, HomeIsProc DEF TypeOK
<1>4. vacuum[Home(t)] # t
  BY <1>2, <1>3 DEF VacuumInv
<1>5. Pos(t) \in 0..3
  BY <1>2
<1>6. CASE Ends(t) /\ UNCHANGED disk
  <2>1. Puts(t, Len(P(t))) /\ disk' = disk
    BY <1>6, Finish
  <2>2. VacuumInv'
    BY <1>1, <1>4, <2>1, VacuumKept
  <2>3. TypeOK' /\ LockInv' /\ ConnInv'
    <3>1. Len(P(t)) \in 0..4 \cup {Len(P(t))}
      OBVIOUS
    <3>2. disk' \in [at : [Names -> Tasks \cup {None}], whole : SUBSET Tasks]
      BY <1>3, <2>1
    <3> QED BY <1>2, <1>3, <1>5, <2>1, <3>1, <3>2, SnapshotMoves
  <2> QED BY <1>1, <1>2, <2>1, <2>2, <2>3
<1>7. CASE /\ Goes(t)
           /\ disk' = [disk EXCEPT !.at = [partial |-> None, db |-> disk.at["partial"]]]
  <2>1. Puts(t, 4)
    <3>1. Puts(t, Pos(t) + 1) /\ Pos(t) + 1 = 4
      BY <1>1, <1>2, <1>7, Advance
    <3> QED BY <3>1
  <2> DEFINE at == [partial |-> None, db |-> disk.at["partial"]]
  <2>2. at \in [Names -> Tasks \cup {None}] /\ at["db"] = disk.at["partial"]
    BY <1>3 DEF Names
  <2>3. disk' = [disk EXCEPT !.at = at]
    BY <1>7
  <2> HIDE DEF at
  <2>4. /\ disk' \in [at : [Names -> Tasks \cup {None}], whole : SUBSET Tasks]
        /\ disk'.at["db"] = disk.at["partial"] /\ disk'.whole = disk.whole
    BY <1>3, <2>2, <2>3
  <2>5. VacuumInv'
    BY <1>1, <1>4, <2>1, VacuumKept
  <2>6. TypeOK' /\ LockInv' /\ ConnInv'
    <3>1. 4 \in 0..4 \cup {Len(P(t))}
      OBVIOUS
    <3> QED BY <1>2, <1>3, <1>5, <2>1, <2>4, <3>1, SnapshotMoves
  <2> QED BY <1>1, <1>2, <2>1, <2>4, <2>5, <2>6
<1> QED BY <1>1, <1>6, <1>7

LEMMA ByCrash ==
  ASSUME Base, NEW p \in Procs, Crash(p)
  PROVE  /\ Base' /\ UNCHANGED <<got, disk, hist>>
         /\ \A t \in Tasks : Pos(t)' = IF Home(t) = p /\ Runs(t) THEN Len(P(t)) ELSE Pos(t)
         /\ \A q \in Procs \ {p} : Sees(q)' = Sees(q) /\ lock'[q] = lock[q]
<1> USE DEF Base
<1>1. /\ crashes > 0 /\ crashes' = crashes - 1 /\ RollbackOf(p)
      /\ lock' = [lock EXCEPT ![p] = None] /\ vacuum' = [vacuum EXCEPT ![p] = None]
      /\ todo' = [t \in Tasks |-> IF Home(t) = p /\ Runs(t) THEN <<>> ELSE todo[t]]
      /\ UNCHANGED <<file, got, disk, hist>>
  BY Zenon DEF Crash
<1>2. /\ todo' \in [Tasks -> Seq(Statements)]
      /\ \A t \in Tasks : \E n \in 0..Len(P(t)) : todo'[t] = Left(Kind[t], n)
      /\ \A t \in Tasks : Pos(t)' = IF Home(t) = p /\ Runs(t) THEN Len(P(t)) ELSE Pos(t)
  BY CrashTo
<1>3. /\ conn' \in [Procs -> [open : BOOLEAN, view : Contents \cup {None}, stale : BOOLEAN]]
      /\ writer' \in Procs \cup {None} /\ file' = file /\ conn'[p].view = None /\ writer' # p
      /\ \A q \in Procs \ {p} :
           conn'[q] = conn[q] /\ (writer' = q => writer = q) /\ (writer = q => writer' = q)
  BY <1>1, ClosedConn
<1>4. /\ lock' \in [Procs -> Tasks \cup {None}] /\ lock'[p] = None
      /\ \A q \in Procs \ {p} : lock'[q] = lock[q]
      /\ vacuum' \in [Procs -> Tasks \cup {None}] /\ vacuum'[p] = None
      /\ \A q \in Procs \ {p} : vacuum'[q] = vacuum[q]
  BY <1>1 DEF TypeOK
<1>5. \A t \in Tasks : Home(t) # p => todo'[t] = todo[t]
  BY <1>1
<1>6. TypeOK'
  <2>1. TodoOK'
    BY <1>2 DEF TodoOK, P
  <2>2. crashes' \in 0..MaxCrashes
    BY <1>1, ConstantsAssumption DEF TypeOK
  <2>3. file' \in Contents /\ got' = got /\ disk' = disk /\ hist' = hist
    BY <1>1 DEF TypeOK
  <2>4. RestOK'
    BY <1>3, <1>4, <2>2, <2>3 DEF RestOK, TypeOK
  <2> QED BY <2>1, <2>4, TypeIs
<1>7. ASSUME NEW t \in Tasks, Home(t) = p PROVE ~Mid(t)'
  <2>1. Runs(t) => Pos(t)' = Len(P(t))
    BY <1>2, <1>7
  <2>2. ~Runs(t) => Pos(t)' = Pos(t) /\ Pos(t) \in {0, Len(P(t))}
    BY <1>2, <1>7, PosIs
  <2>3. 0 \in 0..Len(P(t)) /\ Len(P(t)) \in 0..Len(P(t))
    BY PosIs
  <2>4. ~MidAt(t, 0) /\ ~MidAt(t, Len(P(t)))
    BY <2>3, NotMid
  <2>5. Pos(t)' = 0 \/ Pos(t)' = Len(P(t))
    BY <2>1, <2>2
  <2> QED BY <2>4, <2>5 DEF Mid, MidAt, P
<1>8. LockInv'
  <2>1. ASSUME NEW q \in Procs, lock'[q] # None PROVE Home(lock[q])' = q /\ Mid(lock[q])'
    <3>1. q # p
      BY <1>4, <2>1
    <3>2. /\ lock'[q] = lock[q] /\ lock[q] \in Tasks /\ Home(lock[q]) = q /\ Mid(lock[q])
      BY <1>4, <2>1, <3>1 DEF LockInv, TypeOK
    <3>3. todo'[lock[q]] = todo[lock[q]]
      BY <1>5, <3>1, <3>2
    <3> QED BY <3>2, <3>3 DEF Mid, MidAt, Pos, P, Home
  <2>2. ASSUME NEW u \in Tasks, Mid(u)' PROVE lock'[Home(u)] = u
    <3>1. Home(u) # p /\ Home(u) \in Procs
      BY <1>7, <2>2, HomeIsProc
    <3>2. todo'[u] = todo[u]
      BY <1>5, <3>1
    <3>3. Mid(u)
      BY <2>2, <3>2 DEF Mid, MidAt, Pos, P
    <3> QED BY <1>4, <3>1, <3>3 DEF LockInv
  <2> QED BY <2>1, <2>2 DEF LockInv, Home
<1>9. VacuumInv'
  <2> SUFFICES ASSUME NEW q \in Procs, vacuum'[q] # None
               PROVE  Home(vacuum[q])' = q /\ Kind[vacuum'[q]] = "snapshot" /\ Pos(vacuum[q])' = 2
    BY DEF VacuumInv, Home
  <2>1. q # p
    BY <1>4
  <2>2. /\ vacuum'[q] = vacuum[q] /\ vacuum[q] \in Tasks /\ Home(vacuum[q]) = q
        /\ Kind[vacuum[q]] = "snapshot" /\ Pos(vacuum[q]) = 2
    BY <1>4, <2>1 DEF VacuumInv, TypeOK
  <2>3. todo'[vacuum[q]] = todo[vacuum[q]]
    BY <1>5, <2>1, <2>2
  <2> QED BY <2>2, <2>3 DEF Pos, P, Home
<1>10. ConnOK(p)'
  BY <1>3, <1>4 DEF ConnOK
<1>11. ASSUME NEW q \in Procs \ {p} PROVE ConnOK(q)'
  <2>1. lock[q] # None => todo'[lock[q]] = todo[lock[q]]
    BY <1>5, <1>11 DEF LockInv, TypeOK
  <2>2. ConnOK(q)
    BY <1>11 DEF ConnInv
  <2> QED BY <1>3, <1>4, <1>11, <2>1, <2>2, Untouched
<1>12. ConnInv'
  BY <1>3, <1>10, <1>11 DEF ConnInv, Whole
<1>13. ASSUME NEW q \in Procs \ {p} PROVE Sees(q)' = Sees(q)
  BY <1>3, <1>13 DEF Sees
<1> QED BY <1>1, <1>2, <1>4, <1>6, <1>8, <1>9, <1>12, <1>13

-----------------------------------------------------------------------------
(* Downloads *)

\* An export that nothing has overlapped has read what its process still sees, and of
\* the other tables nothing.
ExportOK(t) ==
  /\ Runs(t) => /\ lock[Home(t)] = None
                /\ \A i \in 1..Pos(t) : got[t][InOrder[i]] = Sees(Home(t))[InOrder[i]]
  /\ \A i \in (Pos(t) + 1)..5 : got[t][InOrder[i]] = None
  /\ (\A b \in Tables : got[t][b] # None) => Whole(got[t])

ExportInv == \A t \in Tasks \ hist.mixed : Kind[t] = "export" => ExportOK(t)

LEMMA RunsAt ==
  ASSUME TypeOK, TypeOK', NEW t \in Tasks, todo'[t] = todo[t]
  PROVE  Runs(t)' <=> Runs(t)
BY DEF Runs

\* A write marks the exports it overlaps.
LEMMA OverlapKeeps ==
  ASSUME Base, ExportInv, Overlaps, got' = got,
         \A t \in Tasks : Kind[t] = "export" => todo'[t] = todo[t]
  PROVE  ExportInv'
<1> SUFFICES ASSUME NEW t \in Tasks \ hist'.mixed, Kind[t] = "export" PROVE ExportOK(t)'
  BY DEF ExportInv
<1>1. hist'.mixed = hist.mixed \cup {u \in Tasks : Kind[u] = "export" /\ Runs(u)}
  BY DEF Overlaps, Base, TypeOK
<1>2. t \in Tasks \ hist.mixed /\ ~Runs(t) /\ todo'[t] = todo[t]
  BY <1>1
<1>3. ExportOK(t)
  BY <1>2 DEF ExportInv
<1> QED BY <1>2, <1>3 DEF ExportOK, Pos, P, Runs, Whole

LEMMA QuietKeeps ==
  ASSUME Base, ExportInv, got' = got, hist'.mixed = hist.mixed, lock' = lock,
         \A q \in Procs : Sees(q)' = Sees(q),
         \A t \in Tasks : Kind[t] = "export" => todo'[t] = todo[t]
  PROVE  ExportInv'
<1> SUFFICES ASSUME NEW t \in Tasks \ hist.mixed, Kind[t] = "export" PROVE ExportOK(t)'
  BY DEF ExportInv
<1>1. ExportOK(t) /\ todo'[t] = todo[t] /\ Home(t) \in Procs
  BY HomeIsProc DEF ExportInv
<1>2. Sees(Home(t))' = Sees(Home(t)) /\ Pos(t)' = Pos(t)
  BY <1>1 DEF Home, Pos, P
<1>3. Runs(t)' => lock'[Home(t)] = None /\ \A i \in 1..Pos(t) : got'[t][InOrder[i]] = Sees(Home(t))[InOrder[i]]
  BY <1>1 DEF ExportOK, Runs
<1> HIDE DEF Base
<1> QED BY <1>1, <1>2, <1>3 DEF ExportOK, Whole, Home

\* What a table is at in the order of reading.
LEMMA PlaceOf == \A b \in Tables : \E i \in 1..5 : InOrder[i] = b
BY OrderIs DEF Tables

LEMMA PlacesDiffer == \A i, j \in 1..5 : InOrder[i] = InOrder[j] => i = j
<1> SUFFICES ASSUME NEW i \in 1..5, NEW j \in 1..5, InOrder[i] = InOrder[j] PROVE i = j
  OBVIOUS
<1>1. i = 1 \/ i = 2 \/ i = 3 \/ i = 4 \/ i = 5
  OBVIOUS
<1>2. j = 1 \/ j = 2 \/ j = 3 \/ j = 4 \/ j = 5
  OBVIOUS
<1> QED BY <1>1, <1>2, OrderIs

LEMMA ReadKeeps ==
  ASSUME Base, ExportInv, NEW t \in Tasks, Reads(t)
  PROVE  ExportInv'
<1>1. /\ Base' /\ Puts(t, Pos(t) + 1) /\ Kind[t] = "export" /\ Pos(t) \in 0..4 /\ Len(P(t)) = 5
      /\ \A q \in Procs : Sees(q)' = Sees(q)
      /\ got' = [got EXCEPT ![t][InOrder[Pos(t) + 1]] = Sees(Home(t))[InOrder[Pos(t) + 1]]]
      /\ lock' = lock /\ (t \notin hist'.mixed => Runs(t) \/ lock[Home(t)] = None)
      /\ hist'.mixed \in {hist.mixed, hist.mixed \cup {t}}
  BY ByRead
<1> DEFINE n == Pos(t) + 1
           b == InOrder[n]
           S == Sees(Home(t))
<1>2. n \in 1..5 /\ Pos(t) = n - 1
  BY <1>1
<1>3. Pos(t)' = n
  BY <1>1 DEF Puts
<1>4. got' = [got EXCEPT ![t][b] = S[b]]
  BY <1>1
<1>5. Home(t) \in Procs /\ S \in Contents
  <2>1. Home(t) \in Procs
    BY HomeIsProc
  <2>2. S \in Contents
    BY <2>1, SeesType DEF Base
  <2> QED BY <2>1, <2>2
<1>6. Sees(Home(t))' = S
  BY <1>1, <1>5 DEF Home
<1> HIDE DEF n, b, S
<1>7. got \in [Tasks -> [Tables -> Tasks \cup {Shipped, Gone, None}]]
  BY DEF Base, TypeOK
<1>8. b \in Tables
  BY <1>2, OrderIs, ElementOfSeq DEF b
<1>9. got'[t][b] = S[b] /\ \A a \in Tables \ {b} : got'[t][a] = got[t][a]
  BY <1>4, <1>7, <1>8
<1>10. \A u \in Tasks \ {t} : got'[u] = got[u] /\ todo'[u] = todo[u]
  BY <1>1, <1>4, <1>7 DEF Puts
<1>11. ASSUME NEW u \in Tasks \ hist'.mixed, Kind[u] = "export", u # t PROVE ExportOK(u)'
  <2>1. u \in Tasks \ hist.mixed
    BY <1>1, <1>11
  <2>2. ExportOK(u) /\ todo'[u] = todo[u] /\ got'[u] = got[u] /\ Home(u) \in Procs
    BY <1>10, <1>11, <2>1, HomeIsProc DEF ExportInv
  <2>3. Sees(Home(u))' = Sees(Home(u)) /\ Pos(u)' = Pos(u) /\ lock' = lock
    BY <1>1, <2>2 DEF Home, Pos, P
  <2>4. Runs(u)' => lock'[Home(u)] = None /\ \A i \in 1..Pos(u) : got'[u][InOrder[i]] = Sees(Home(u))[InOrder[i]]
    BY <2>2, <2>3 DEF ExportOK, Runs
  <2> QED BY <2>2, <2>3, <2>4 DEF ExportOK, Whole, Home
<1>12. ASSUME t \notin hist'.mixed PROVE ExportOK(t)'
  <2>1. ExportOK(t)
    BY <1>1, <1>12 DEF ExportInv
  <2>2. lock[Home(t)] = None
    BY <1>1, <1>12, <2>1 DEF ExportOK
  <2>3. \A i \in 1..(n - 1) : got[t][InOrder[i]] = S[InOrder[i]]
    <3>1. CASE Runs(t)
      BY <1>2, <2>1, <3>1 DEF ExportOK, S
    <3>2. CASE ~Runs(t)
      <4>1. Pos(t) = 0
        BY <1>1, <3>2, PosIs DEF Base
      <4> QED BY <1>2, <4>1
    <3> QED BY <3>1, <3>2
  <2>4. \A i \in n..5 : got[t][InOrder[i]] = None
    BY <1>2, <2>1 DEF ExportOK, n
  <2>5. \A i \in 1..5 : InOrder[i] \in Tables
    BY OrderIs, ElementOfSeq
  <2>6. ASSUME NEW i \in 1..5, i # n PROVE got'[t][InOrder[i]] = got[t][InOrder[i]]
    <3>1. InOrder[i] \in Tables \ {b}
      BY <1>2, <2>5, <2>6, PlacesDiffer DEF b
    <3> QED BY <1>9, <3>1
  <2>7. ASSUME NEW i \in 1..n PROVE got'[t][InOrder[i]] = S[InOrder[i]]
    <3>1. CASE i = n
      BY <1>9, <3>1 DEF b
    <3>2. CASE i # n
      <4>1. i \in 1..(n - 1) /\ i \in 1..5
        BY <1>2, <3>2
      <4> QED BY <2>3, <2>6, <3>2, <4>1
    <3> QED BY <3>1, <3>2
  <2>8. ASSUME NEW i \in (n + 1)..5 PROVE got'[t][InOrder[i]] = None
    <3>1. i \in n..5 /\ i \in 1..5 /\ i # n
      BY <1>2
    <3> QED BY <2>4, <2>6, <3>1
  <2>9. (\A a \in Tables : got'[t][a] # None) => Whole(got'[t])
    <3>1. CASE n = 5
      <4>1. ASSUME NEW a \in Tables PROVE got'[t][a] = S[a]
        <5>1. PICK i \in 1..5 : InOrder[i] = a
          BY PlaceOf
        <5> QED BY <2>7, <3>1, <5>1
      <4>2. Whole(S)
        BY <1>5, <2>2, SeesFile DEF S, Base
      <4> QED BY <4>1, <4>2 DEF Whole, Tables
    <3>2. CASE n # 5
      <4>1. 5 \in (n + 1)..5 /\ 5 \in 1..5
        BY <1>2, <3>2
      <4> QED BY <2>5, <2>8, <4>1
    <3> QED BY <3>1, <3>2
  <2>10. lock'[Home(t)] = None
    BY <1>1, <2>2
  <2> QED BY <1>3, <1>6, <2>7, <2>8, <2>9, <2>10 DEF ExportOK, Whole, Home
<1> QED BY <1>11, <1>12 DEF ExportInv

LEMMA CrashKeeps ==
  ASSUME Base, ExportInv, NEW p \in Procs, Crash(p)
  PROVE  ExportInv'
<1>1. /\ Base' /\ UNCHANGED <<got, disk, hist>>
      /\ \A t \in Tasks : Pos(t)' = IF Home(t) = p /\ Runs(t) THEN Len(P(t)) ELSE Pos(t)
      /\ \A q \in Procs \ {p} : Sees(q)' = Sees(q) /\ lock'[q] = lock[q]
  BY ByCrash
<1> SUFFICES ASSUME NEW t \in Tasks \ hist.mixed, Kind[t] = "export" PROVE ExportOK(t)'
  BY <1>1 DEF ExportInv
<1>2. ExportOK(t) /\ Home(t) \in Procs /\ Len(P(t)) = 5
  BY HomeIsProc, ExportIs DEF ExportInv, P
<1>3. CASE Home(t) = p
  <2>1. ~Runs(t)'
    BY <1>3 DEF Crash, Runs, Home
  <2>2. Pos(t)' = 5 \/ Pos(t)' = Pos(t)
    BY <1>1, <1>2
  <2>3. \A i \in (Pos(t)' + 1)..5 : got'[t][InOrder[i]] = None
    BY <1>1, <1>2, <2>2 DEF ExportOK
  <2> QED BY <1>1, <1>2, <2>1, <2>3 DEF ExportOK, Whole
<1>4. CASE Home(t) # p
  <2>1. todo'[t] = todo[t] /\ lock'[Home(t)] = lock[Home(t)]
    BY <1>1, <1>2, <1>4 DEF Crash
  <2>2. Sees(Home(t))' = Sees(Home(t)) /\ Pos(t)' = Pos(t)
    BY <1>1, <1>2, <1>4, <2>1 DEF Home, Pos, P
  <2>3. Runs(t)' => lock'[Home(t)] = None /\ \A i \in 1..Pos(t) : got'[t][InOrder[i]] = Sees(Home(t))[InOrder[i]]
    BY <1>1, <1>2, <2>1 DEF ExportOK, Runs
  <2> QED BY <1>1, <1>2, <2>1, <2>2, <2>3 DEF ExportOK, Whole, Home
<1> QED BY <1>3, <1>4

-----------------------------------------------------------------------------
(* Snapshots *)

Copying(t) == Kind[t] = "snapshot" /\ Pos(t) \in 1..3

\* One at a time has the .partial, and has filled it when it renames it.
OneCopies ==
  /\ \A t \in Tasks, u \in Tasks : Copying(t) /\ Copying(u) => t = u
  /\ \A t \in Tasks : Kind[t] = "snapshot" /\ Pos(t) = 2 => disk.at["partial"] = t
  /\ \A t \in Tasks : Kind[t] = "snapshot" /\ Pos(t) = 3 =>
       disk.at["partial"] = t /\ t \in disk.whole
  /\ disk.at["db"] # None => disk.at["db"] \in disk.whole

SnapInv == ~hist.twins => OneCopies

LEMMA RunningCopies ==
  ASSUME TypeOK, NEW t \in Tasks, Copying(t)
  PROVE  Runs(t)
<1>1. Pos(t) \in 1..3 /\ Len(P(t)) = 6
  BY SnapshotIs DEF Copying, P
<1>2. 0 < Pos(t) /\ Pos(t) < Len(P(t))
  BY <1>1
<1>3. Runs(t) <=> 0 < Pos(t) /\ Pos(t) < Len(P(t))
  BY PosIs
<1> QED BY <1>2, <1>3

\* A step that starts or advances no snapshot.
LEMMA NoCopyMoves ==
  ASSUME SnapInv, disk' = disk, hist'.twins = hist.twins,
         \A t \in Tasks : Kind[t] = "snapshot" /\ Pos(t)' \in 1..3 => Pos(t)' = Pos(t)
  PROVE  SnapInv'
<1> SUFFICES ASSUME ~hist.twins PROVE OneCopies'
  BY DEF SnapInv
<1>1. OneCopies
  BY DEF SnapInv
<1>2. \A t \in Tasks : Copying(t)' => Copying(t)
  BY DEF Copying
<1>3. \A t \in Tasks, u \in Tasks : Copying(t)' /\ Copying(u)' => t = u
  BY <1>1, <1>2 DEF OneCopies
<1>4. \A t \in Tasks : Kind[t] = "snapshot" /\ Pos(t)' = 2 => disk'.at["partial"] = t
  BY <1>1 DEF OneCopies
<1>5. \A t \in Tasks : Kind[t] = "snapshot" /\ Pos(t)' = 3 =>
        disk'.at["partial"] = t /\ t \in disk'.whole
  BY <1>1 DEF OneCopies
<1>6. disk'.at["db"] # None => disk'.at["db"] \in disk'.whole
  BY <1>1 DEF OneCopies
<1> QED BY <1>3, <1>4, <1>5, <1>6 DEF OneCopies

\* t has come to its n-th statement and is the only one to copy.
LEMMA OneMoves ==
  ASSUME Base, NEW t \in Tasks, NEW n \in 1..3, Puts(t, n), Kind[t] = "snapshot",
         \A u \in Tasks \ {t} : ~Copying(u),
         n = 2 => disk'.at["partial"] = t,
         n = 3 => disk'.at["partial"] = t /\ t \in disk'.whole,
         disk'.at["db"] # None => disk'.at["db"] \in disk'.whole
  PROVE  OneCopies'
<1>1. Pos(t)' = n /\ \A u \in Tasks \ {t} : Pos(u)' = Pos(u)
  BY PutsPos DEF Puts, Base
<1>2. \A u \in Tasks \ {t} : ~Copying(u)' /\ (Kind[u] = "snapshot" => Pos(u)' # 2 /\ Pos(u)' # 3)
  BY <1>1 DEF Copying
<1>3. \A u \in Tasks : Kind[u] = "snapshot" /\ Pos(u)' = 2 => disk'.at["partial"] = u
  BY <1>1, <1>2
<1>4. \A u \in Tasks : Kind[u] = "snapshot" /\ Pos(u)' = 3 =>
        disk'.at["partial"] = u /\ u \in disk'.whole
  BY <1>1, <1>2
<1> QED BY <1>2, <1>3, <1>4 DEF OneCopies

LEMMA LookSnaps ==
  ASSUME Base, SnapInv, NEW t \in Tasks, LooksForTarget(t)
  PROVE  SnapInv'
<1>1. /\ Kind[t] = "snapshot" /\ Pos(t) = 0
      /\ disk'.at["db"] = disk.at["db"] /\ disk'.whole = disk.whole
      /\ \/ Puts(t, 4) /\ disk' = disk /\ hist' = hist
         \/ /\ Puts(t, 1)
            /\ ~hist'.twins =>
                 ~hist.twins /\ \A u \in Tasks \ {t} : Kind[u] = "snapshot" => ~Runs(u)
  BY ByLook
<1>2. CASE Puts(t, 4) /\ disk' = disk /\ hist' = hist
  <2>1. Pos(t)' = 4 /\ \A u \in Tasks \ {t} : Pos(u)' = Pos(u)
    BY <1>2, PutsPos DEF Puts, Base
  <2>2. \A u \in Tasks : Kind[u] = "snapshot" /\ Pos(u)' \in 1..3 => Pos(u)' = Pos(u)
    BY <2>1
  <2> QED BY <1>2, <2>2, NoCopyMoves
<1>3. CASE /\ Puts(t, 1)
           /\ ~hist'.twins =>
                ~hist.twins /\ \A u \in Tasks \ {t} : Kind[u] = "snapshot" => ~Runs(u)
  <2> SUFFICES ASSUME ~hist'.twins PROVE OneCopies'
    BY DEF SnapInv
  <2>1. OneCopies /\ \A u \in Tasks \ {t} : ~Copying(u)
    BY <1>3, RunningCopies DEF SnapInv, Copying, Base
  <2>2. disk'.at["db"] # None => disk'.at["db"] \in disk'.whole
    BY <1>1, <2>1 DEF OneCopies
  <2>3. 1 \in 1..3 /\ Puts(t, 1)
    BY <1>3
  <2> QED BY <1>1, <2>1, <2>2, <2>3, OneMoves
<1> QED BY <1>1, <1>2, <1>3

LEMMA VacuumSnaps ==
  ASSUME Base, SnapInv, NEW t \in Tasks, Vacuums(t)
  PROVE  SnapInv'
<1>1. /\ Kind[t] = "snapshot" /\ Pos(t) = 1 /\ hist' = hist
      /\ \/ Puts(t, Len(P(t))) /\ disk' = disk
         \/ /\ Puts(t, 2) /\ disk'.at["partial"] = t
            /\ disk'.at["db"] = disk.at["db"] /\ disk'.whole = disk.whole
  BY ByVacuum
<1>2. CASE Puts(t, Len(P(t))) /\ disk' = disk
  <2>1. Pos(t)' = 6 /\ \A u \in Tasks \ {t} : Pos(u)' = Pos(u)
    BY <1>1, <1>2, PutsPos, SnapshotIs DEF Puts, Base, P
  <2>2. \A u \in Tasks : Kind[u] = "snapshot" /\ Pos(u)' \in 1..3 => Pos(u)' = Pos(u)
    BY <2>1
  <2> QED BY <1>1, <1>2, <2>2, NoCopyMoves
<1>3. CASE /\ Puts(t, 2) /\ disk'.at["partial"] = t
           /\ disk'.at["db"] = disk.at["db"] /\ disk'.whole = disk.whole
  <2> SUFFICES ASSUME ~hist.twins PROVE OneCopies'
    BY <1>1 DEF SnapInv
  <2>1. OneCopies
    BY DEF SnapInv
  <2>2. \A u \in Tasks \ {t} : ~Copying(u)
    BY <1>1, <2>1 DEF OneCopies, Copying
  <2>3. disk'.at["db"] # None => disk'.at["db"] \in disk'.whole
    BY <1>3, <2>1 DEF OneCopies
  <2>4. 2 \in 1..3 /\ Puts(t, 2) /\ disk'.at["partial"] = t
    BY <1>3
  <2> QED BY <1>1, <2>2, <2>3, <2>4, OneMoves
<1> QED BY <1>1, <1>2, <1>3

LEMMA EndSnaps ==
  ASSUME Base, SnapInv, NEW t \in Tasks, VacuumEnds(t)
  PROVE  SnapInv'
<1>1. /\ Kind[t] = "snapshot" /\ Pos(t) = 2 /\ hist' = hist
      /\ Puts(t, 3) /\ disk'.at = disk.at /\ disk'.whole = disk.whole \cup {t}
  BY ByVacuumEnd
<1> SUFFICES ASSUME ~hist.twins PROVE OneCopies'
  BY <1>1 DEF SnapInv
<1>2. OneCopies
  BY DEF SnapInv
<1>3. \A u \in Tasks \ {t} : ~Copying(u)
  BY <1>1, <1>2 DEF OneCopies, Copying
<1>4. disk'.at["db"] # None => disk'.at["db"] \in disk'.whole
  BY <1>1, <1>2 DEF OneCopies
<1>5. 3 \in 1..3 /\ disk'.at["partial"] = t /\ t \in disk'.whole
  BY <1>1, <1>2 DEF OneCopies
<1> QED BY <1>1, <1>3, <1>4, <1>5, OneMoves

LEMMA RenameSnaps ==
  ASSUME Base, SnapInv, NEW t \in Tasks, Renames(t)
  PROVE  SnapInv'
<1>1. /\ Kind[t] = "snapshot" /\ Pos(t) = 3 /\ hist' = hist
      /\ \/ Puts(t, Len(P(t))) /\ disk' = disk
         \/ Puts(t, 4) /\ disk'.at["db"] = disk.at["partial"] /\ disk'.whole = disk.whole
  BY ByRename
<1>2. CASE Puts(t, Len(P(t))) /\ disk' = disk
  <2>1. Pos(t)' = 6 /\ \A u \in Tasks \ {t} : Pos(u)' = Pos(u)
    BY <1>1, <1>2, PutsPos, SnapshotIs DEF Puts, Base, P
  <2>2. \A u \in Tasks : Kind[u] = "snapshot" /\ Pos(u)' \in 1..3 => Pos(u)' = Pos(u)
    BY <2>1
  <2> QED BY <1>1, <1>2, <2>2, NoCopyMoves
<1>3. CASE Puts(t, 4) /\ disk'.at["db"] = disk.at["partial"] /\ disk'.whole = disk.whole
  <2> SUFFICES ASSUME ~hist.twins PROVE OneCopies'
    BY <1>1 DEF SnapInv
  <2>1. OneCopies
    BY DEF SnapInv
  <2>2. \A u \in Tasks \ {t} : ~Copying(u)
    BY <1>1, <2>1 DEF OneCopies, Copying
  <2>3. Pos(t)' = 4 /\ \A u \in Tasks \ {t} : Pos(u)' = Pos(u)
    BY <1>3, PutsPos DEF Puts, Base
  <2>4. \A u \in Tasks : Kind[u] = "snapshot" => Pos(u)' \notin 1..3
    BY <2>2, <2>3 DEF Copying
  <2>5. disk'.at["db"] \in disk'.whole
    BY <1>1, <1>3, <2>1 DEF OneCopies
  <2> QED BY <2>4, <2>5 DEF OneCopies, Copying
<1> QED BY <1>1, <1>2, <1>3

-----------------------------------------------------------------------------
(* The theorems *)

StoreIInv == Base /\ ExportInv /\ SnapInv

LEMMA Starts ==
  ASSUME Init
  PROVE  StoreIInv
<1>1. PICK some \in kSubset(AtOnce, Tasks) :
        todo = [t \in Tasks |-> IF t \in some THEN Program(Kind[t]) ELSE <<>>]
  BY DEF Init
<1>2. ASSUME NEW t \in Tasks
      PROVE  /\ todo[t] \in Seq(Statements) /\ Pos(t) \in {0, Len(P(t))} /\ Len(P(t)) \in 2..11
             /\ \E n \in 0..Len(P(t)) : todo[t] = Left(Kind[t], n)
  <2>1. /\ Kind[t] \in Kinds /\ P(t) \in Seq(Statements) /\ Len(P(t)) \in 2..11
        /\ Left(Kind[t], 0) = P(t) /\ Left(Kind[t], Len(P(t))) = <<>>
    BY ConstantsAssumption, LeftIs DEF P
  <2>2. CASE t \in some
    <3>1. todo[t] = P(t)
      BY <1>1, <2>2 DEF P
    <3> QED BY <2>1, <3>1 DEF Pos
  <2>3. CASE t \notin some
    <3>1. todo[t] = <<>> /\ <<>> \in Seq(Statements) /\ Len(<<>>) = 0
      BY <1>1, <2>3, EmptySeq
    <3> QED BY <2>1, <3>1 DEF Pos
  <2> QED BY <2>2, <2>3
<1>3. TypeOK
  <2>1. TodoOK
    BY <1>1, <1>2 DEF TodoOK
  <2>2. Closed \in [open : BOOLEAN, view : Contents \cup {None}, stale : BOOLEAN]
    BY DEF Closed
  <2>3. RestOK
    BY <2>2, ConstantsAssumption DEF Init, RestOK, Contents
  <2> QED BY <2>1, <2>3 DEF TypeOK, TodoOK, RestOK, P
<1>4. \A t \in Tasks : ~Mid(t) /\ ~Runs(t)
  <2> SUFFICES ASSUME NEW t \in Tasks PROVE ~Mid(t) /\ ~Runs(t)
    OBVIOUS
  <2>1. Pos(t) \in 0..Len(P(t)) /\ (Pos(t) = 0 \/ Pos(t) = Len(P(t)))
    BY <1>2
  <2>2. ~MidAt(t, Pos(t))
    BY <2>1, NotMid
  <2> QED BY <1>3, <2>1, <2>2, PosIs DEF Mid
<1>5. LockInv /\ VacuumInv
  BY <1>4 DEF Init, LockInv, VacuumInv
<1>6. ConnInv
  <2>1. Whole(file)
    BY ConstantsAssumption DEF Init, Whole, Tables
  <2>2. None \notin Procs
    BY ConstantsAssumption
  <2> QED BY <2>1, <2>2 DEF Init, ConnInv, ConnOK, Closed
<1>7. ExportInv
  <2> SUFFICES ASSUME NEW t \in Tasks PROVE ExportOK(t)
    BY DEF ExportInv
  <2>1. \A b \in Tables : got[t][b] = None
    BY DEF Init
  <2>2. \A i \in 1..5 : InOrder[i] \in Tables
    BY OrderIs, ElementOfSeq
  <2>3. \A i \in (Pos(t) + 1)..5 : i \in 1..5
    BY <1>2
  <2>4. \A i \in (Pos(t) + 1)..5 : got[t][InOrder[i]] = None
    BY <2>1, <2>2, <2>3
  <2>5. "keys" \in Tables
    BY DEF Tables
  <2> QED BY <1>4, <2>1, <2>4, <2>5 DEF ExportOK
<1>8. SnapInv
  <2>1. \A t \in Tasks : Kind[t] = "snapshot" => Pos(t) = 0 \/ Pos(t) = 6
    BY <1>2, SnapshotIs DEF P
  <2>2. disk.at["db"] = None
    BY DEF Init, Names
  <2> QED BY <2>1, <2>2 DEF SnapInv, OneCopies, Copying
<1> QED BY <1>3, <1>5, <1>6, <1>7, <1>8 DEF StoreIInv, Base

LEMMA StatementSnaps ==
  ASSUME Base, SnapInv, NEW t \in Tasks, NEW n, Puts(t, n), Overlaps, disk' = disk,
         Kind[t] = "snapshot" => n \notin 1..3
  PROVE  SnapInv'
<1>1. Pos(t)' = n /\ \A u \in Tasks \ {t} : Pos(u)' = Pos(u)
  BY PutsPos DEF Puts, Base
<1>2. \A u \in Tasks : Kind[u] = "snapshot" /\ Pos(u)' \in 1..3 => Pos(u)' = Pos(u)
  BY <1>1
<1>3. hist'.twins = hist.twins
  BY DEF Overlaps, Base, TypeOK
<1> QED BY <1>2, <1>3, NoCopyMoves

LEMMA StepKeeps ==
  ASSUME StoreIInv, [Next]_vars
  PROVE  StoreIInv'
<1> USE DEF StoreIInv
<1>1. ASSUME NEW t \in Tasks, Statement(t) PROVE StoreIInv'
  <2>1. /\ Base' /\ Puts(t, Pos(t) + 1) /\ MidAt(t, Pos(t) + 1)
        /\ Kind[t] # "export" /\ Overlaps /\ got' = got /\ disk' = disk
    BY <1>1, ByStatement DEF copies
  <2>2. \A u \in Tasks : Kind[u] = "export" => todo'[u] = todo[u]
    BY <2>1 DEF Puts
  <2>3. ExportInv'
    BY <2>1, <2>2, OverlapKeeps
  <2>4. Kind[t] = "snapshot" => Pos(t) + 1 \notin 1..3
    <3> SUFFICES ASSUME Kind[t] = "snapshot", Pos(t) + 1 \in 1..3 PROVE FALSE
      OBVIOUS
    <3>1. Len(P(t)) = 6
      BY SnapshotIs DEF P
    <3> DEFINE n == Pos(t) + 1
    <3>2. n \in 0..4 /\ n \in 0..Len(P(t)) /\ MidAt(t, n)
      BY <2>1, <3>1
    <3> HIDE DEF n
    <3> QED BY <3>2, NotMid
  <2>5. SnapInv'
    BY <2>1, <2>4, StatementSnaps
  <2> QED BY <2>1, <2>3, <2>5
<1>2. ASSUME NEW t \in Tasks, Commits(t) \/ Busy(t) \/ Rejected(t) PROVE StoreIInv'
  <2>1. /\ Base' /\ Puts(t, Len(P(t))) /\ Kind[t] # "export" /\ Overlaps /\ got' = got /\ disk' = disk
    BY <1>2, ByCommit, ByFailure DEF copies
  <2>2. \A u \in Tasks : Kind[u] = "export" => todo'[u] = todo[u]
    BY <2>1 DEF Puts
  <2>3. ExportInv'
    BY <2>1, <2>2, OverlapKeeps
  <2>4. Kind[t] = "snapshot" => Len(P(t)) \notin 1..3
    BY SnapshotIs DEF P
  <2>5. SnapInv'
    BY <2>1, <2>4, StatementSnaps
  <2> QED BY <2>1, <2>3, <2>5
<1>3. ASSUME NEW t \in Tasks, Reads(t) PROVE StoreIInv'
  <2>1. /\ Base' /\ Puts(t, Pos(t) + 1) /\ Kind[t] = "export" /\ disk' = disk /\ hist'.twins = hist.twins
    BY <1>3, ByRead
  <2>2. ExportInv'
    BY <1>3, ReadKeeps
  <2>3. \A u \in Tasks \ {t} : Pos(u)' = Pos(u)
    BY <2>1, PutsPos DEF Base
  <2>4. \A u \in Tasks : Kind[u] = "snapshot" /\ Pos(u)' \in 1..3 => Pos(u)' = Pos(u)
    BY <2>1, <2>3
  <2>5. SnapInv'
    BY <2>1, <2>4, NoCopyMoves
  <2> QED BY <2>1, <2>2, <2>5
<1>4. ASSUME NEW t \in Tasks, Base', NEW n, Puts(t, n), Kind[t] = "snapshot", UNCHANGED <<sqlite, lock, got>>,
             hist'.mixed = hist.mixed
      PROVE  ExportInv'
  <2>1. \A u \in Tasks : Kind[u] = "export" => todo'[u] = todo[u]
    BY <1>4 DEF Puts
  <2>2. \A q \in Procs : Sees(q)' = Sees(q)
    BY <1>4 DEF Sees, sqlite
  <2> QED BY <1>4, <2>1, <2>2, QuietKeeps
<1>5. ASSUME NEW t \in Tasks, LooksForTarget(t) PROVE StoreIInv'
  <2>1. /\ Base' /\ (Puts(t, 4) \/ Puts(t, 1)) /\ Kind[t] = "snapshot" /\ hist'.mixed = hist.mixed
        /\ UNCHANGED <<sqlite, lock, got>>
    BY <1>5, ByLook
  <2>2. ExportInv'
    BY <1>4, <2>1
  <2> QED BY <1>5, <2>1, <2>2, LookSnaps
<1>6. ASSUME NEW t \in Tasks, Vacuums(t) PROVE StoreIInv'
  <2>1. /\ Base' /\ (Puts(t, Len(P(t))) \/ Puts(t, 2)) /\ Kind[t] = "snapshot" /\ hist' = hist
        /\ UNCHANGED <<sqlite, lock, got>>
    BY <1>6, ByVacuum
  <2>2. ExportInv'
    BY <1>4, <2>1
  <2> QED BY <1>6, <2>1, <2>2, VacuumSnaps
<1>7. ASSUME NEW t \in Tasks, VacuumEnds(t) PROVE StoreIInv'
  <2>1. /\ Base' /\ Puts(t, 3) /\ Kind[t] = "snapshot" /\ hist' = hist /\ UNCHANGED <<sqlite, lock, got>>
    BY <1>7, ByVacuumEnd
  <2>2. ExportInv'
    BY <1>4, <2>1
  <2> QED BY <1>7, <2>1, <2>2, EndSnaps
<1>8. ASSUME NEW t \in Tasks, Renames(t) PROVE StoreIInv'
  <2>1. /\ Base' /\ (Puts(t, Len(P(t))) \/ Puts(t, 4)) /\ Kind[t] = "snapshot" /\ hist' = hist
        /\ UNCHANGED <<sqlite, lock, got>>
    BY <1>8, ByRename
  <2>2. ExportInv'
    BY <1>4, <2>1
  <2> QED BY <1>8, <2>1, <2>2, RenameSnaps
<1>9. ASSUME todo' = todo PROVE \A u \in Tasks : Pos(u)' = Pos(u)
  BY <1>9 DEF Pos, P
<1>10. ASSUME NEW p \in Procs, Lease(p) PROVE StoreIInv'
  <2>1. Base' /\ Overlaps /\ todo' = todo /\ got' = got /\ disk' = disk
    BY <1>10, ByLease DEF copies
  <2>2. ExportInv'
    BY <2>1, OverlapKeeps
  <2>3. hist'.twins = hist.twins
    BY <2>1 DEF Overlaps, Base, TypeOK
  <2>4. SnapInv'
    BY <1>9, <2>1, <2>3, NoCopyMoves
  <2> QED BY <2>1, <2>2, <2>4
<1>11. ASSUME NEW p \in Procs, Request(p) PROVE StoreIInv'
  <2>1. /\ Base' /\ UNCHANGED <<lock, todo, got, disk, hist>>
        /\ \A q \in Procs : Sees(q)' = Sees(q)
    BY <1>11, ByRequest
  <2>2. ExportInv'
    BY <2>1, QuietKeeps
  <2>3. SnapInv'
    BY <1>9, <2>1, NoCopyMoves
  <2> QED BY <2>1, <2>2, <2>3
<1>12. ASSUME NEW p \in Procs, Crash(p) PROVE StoreIInv'
  <2>1. /\ Base' /\ UNCHANGED <<got, disk, hist>>
        /\ \A t \in Tasks : Pos(t)' = IF Home(t) = p /\ Runs(t) THEN Len(P(t)) ELSE Pos(t)
    BY <1>12, ByCrash
  <2>2. \A t \in Tasks : Kind[t] = "snapshot" => Len(P(t)) = 6
    BY SnapshotIs DEF P
  <2>3. \A t \in Tasks : Kind[t] = "snapshot" /\ Pos(t)' \in 1..3 => Pos(t)' = Pos(t)
    BY <2>1, <2>2
  <2>4. SnapInv'
    BY <2>1, <2>3, NoCopyMoves
  <2> QED BY <1>12, <2>1, <2>4, CrashKeeps
<1>13. CASE UNCHANGED vars
  <2>1. UNCHANGED <<file, writer, conn, lock, todo, got, vacuum, disk, crashes, hist>>
    BY <1>13 DEF vars
  <2>2. TypeOK'
    BY <2>1 DEF Base, TypeOK
  <2>3. TodoOK' /\ LockInv' /\ VacuumInv'
    BY <2>1, NobodyMoves
  <2>4. ConnInv'
    BY <2>1 DEF Base, ConnInv, ConnOK, Whole, Pos, P
  <2>5. \A q \in Procs : Sees(q)' = Sees(q)
    BY <2>1 DEF Sees
  <2>6. ExportInv'
    BY <2>1, <2>5, QuietKeeps
  <2>7. SnapInv'
    BY <1>9, <2>1, NoCopyMoves
  <2> QED BY <2>2, <2>3, <2>4, <2>6, <2>7 DEF Base
<1> QED
  BY <1>1, <1>2, <1>3, <1>5, <1>6, <1>7, <1>8, <1>10, <1>11, <1>12, <1>13, Zenon DEF Next, Does

\* The inductive invariant holds whatever the tasks do and whenever processes crash.
THEOREM StoreHolds == Spec => []StoreIInv
<1>1. Init => StoreIInv
  BY Starts
<1>2. StoreIInv /\ [Next]_vars => StoreIInv'
  BY StepKeeps
<1> QED BY <1>1, <1>2, PTL DEF Spec

\* The types, and outside an operation nothing written is left in an open transaction
\* (core/db.py's rollbacks: the next commit from anywhere would flush it).
THEOREM NothingPendingHolds == Spec => []StoreInv
<1>1. StoreIInv => StoreInv
  BY DEF StoreIInv, Base, ConnInv, ConnOK, StoreInv, NothingIsLeftPending
<1> QED BY <1>1, StoreHolds, PTL

\* What is committed is whole, so is a download that no write overlapped, and so is a file
\* with a snapshot's name, unless two were taken in one second (import_all, delete_server,
\* charge; export_all; make_backup's .partial).
THEOREM CopiesAreWhole == Spec => []EveryCopyIsWhole
<1>1. StoreIInv => CommittedIsWhole /\ FileIsWhole
  BY DEF StoreIInv, Base, ConnInv, ExportInv, ExportOK, CommittedIsWhole, FileIsWhole
<1>2. StoreIInv => WholeUnderItsName
  BY DEF StoreIInv, SnapInv, OneCopies, WholeUnderItsName
<1>3. StoreIInv => EveryCopyIsWhole
  BY <1>1, <1>2 DEF EveryCopyIsWhole
<1> QED BY <1>3, StoreHolds, PTL

-----------------------------------------------------------------------------
(* The file is an atomic store *)

\* The tasks that may still take effect.
Waiting == {t \in Tasks : Kind[t] # "export" /\ todo[t] # <<>>}

\* A task that moves was waiting; the others wait as they did.
LEMMA OthersWait ==
  ASSUME Base, NEW t \in Tasks, NEW n, Puts(t, n), todo[t] # <<>>
  PROVE  Waiting' \subseteq Waiting
BY DEF Puts, Waiting

\* The end of a task.
LEMMA NoLongerWaits ==
  ASSUME Base, Base', NEW t \in Tasks, Puts(t, Len(P(t)))
  PROVE  Waiting' = Waiting \ {t}
<1>1. todo'[t] = <<>>
  <2>1. Len(P(t)) - Len(todo'[t]) = Len(P(t)) /\ todo'[t] \in Seq(Statements)
    BY DEF Puts, Pos, P, TodoOK
  <2>2. Len(P(t)) \in 2..11
    BY PosIs DEF Base
  <2>3. Len(todo'[t]) \in Nat
    BY <2>1, LenProperties
  <2>4. Len(todo'[t]) = 0
    BY <2>1, <2>2, <2>3
  <2> QED BY <2>1, <2>4, EmptySeq
<1> QED BY <1>1 DEF Puts, Waiting

\* A commit is the operation, on the tables as all commits before it have made them: what
\* its view was when it was read has not changed since.
LEMMA CommitTakesEffect ==
  ASSUME Base, NEW t \in Tasks, Commits(t)
  PROVE  Abstract!TakeEffect(t)
<1> DEFINE p == Home(t)
           k == Replaced(Kind[t])
<1> USE DEF Base
<1>1. Next1(t, {"commit"}) /\ CommitOf(p, conn[p].view)
  BY Zenon DEF Commits
<1>2. /\ Pos(t) \in Nat /\ Pos(t) + 1 = Len(P(t)) /\ Pos(t) \in 1..Pos(t)
      /\ Touches(P(t)[Pos(t)]) /\ todo[t] # <<>>
      /\ Kind[t] \in {"edit", "removal", "sale", "restore", "snapshot"}
  BY <1>1, Ending
<1>3. p \in Procs /\ t # None
  BY HomeIsProc
<1>4. lock[p] = t
  <2>1. Mid(t)
    BY <1>2 DEF Mid, MidAt
  <2> QED BY <2>1 DEF LockInv
<1> HIDE DEF p
<1>5. ConnOK(p) /\ file \in Contents
  BY <1>3 DEF ConnInv, TypeOK
<1>6. /\ conn[p].view \in Contents
      /\ \A b \in Tables : conn[p].view[b] = PendingAt(t, Pos(t), file, b)
  BY <1>3, <1>4, <1>5, SeesType DEF ConnOK
<1>7. \A b \in Tables : conn[p].view[b] = IF b \in k THEN t ELSE file[b]
  BY <1>2, <1>6, WhatIsReplaced
<1>8. file' = conn[p].view
  BY <1>1 DEF CommitOf
<1> HIDE DEF k
<1>9. file' = [b \in Tables |-> IF b \in k THEN t ELSE file[b]]
  BY <1>6, <1>7, <1>8 DEF Contents
<1>10. Base' /\ Puts(t, Len(P(t)))
  BY ByCommit
<1>11. Waiting' = Waiting \ {t} /\ t \in Waiting
  BY <1>2, <1>10, NoLongerWaits DEF Waiting
<1> QED BY <1>9, <1>11 DEF Abstract!TakeEffect, Waiting, k

\* Every other step leaves the file as it is, and nobody waits who did not.
LEMMA StepIsAtomic ==
  ASSUME StoreIInv, [Next]_vars
  PROVE  \/ \E t \in Tasks : Kind[t] # "export" /\ Abstract!TakeEffect(t)
         \/ file' = file /\ Waiting' \subseteq Waiting
<1> USE DEF StoreIInv
<1>1. ASSUME NEW t \in Tasks, NEW n, Puts(t, n), todo[t] # <<>> PROVE Waiting' \subseteq Waiting
  BY <1>1, OthersWait
<1>2. ASSUME NEW t \in Tasks, Statement(t) PROVE file' = file /\ Waiting' \subseteq Waiting
  <2>1. file' = file /\ todo[t] # <<>>
    BY <1>2, Zenon DEF Statement, WritesTo, Next1
  <2> QED BY <1>1, <1>2, <2>1, ByStatement
<1>3. ASSUME NEW t \in Tasks, Commits(t) PROVE Kind[t] # "export" /\ Abstract!TakeEffect(t)
  BY <1>3, CommitTakesEffect, ByCommit
<1>4. ASSUME NEW t \in Tasks, Busy(t) \/ Rejected(t) PROVE file' = file /\ Waiting' \subseteq Waiting
  <2>1. Fails(t) /\ todo[t] # <<>>
    BY <1>4, Zenon DEF Busy, Rejected, Next1
  <2>2. file' = file
    BY <2>1 DEF Fails, RollbackOf, WritesTo, LeftOpen
  <2> QED BY <1>1, <1>4, <2>1, <2>2, ByFailure
<1>5. ASSUME NEW t \in Tasks, Reads(t) PROVE file' = file /\ Waiting' \subseteq Waiting
  <2>1. file' = file /\ todo[t] # <<>>
    BY <1>5, Zenon DEF Reads, Next1
  <2> QED BY <1>1, <1>5, <2>1, ByRead
<1>6. ASSUME NEW t \in Tasks, LooksForTarget(t) PROVE file' = file /\ Waiting' \subseteq Waiting
  <2>1. todo[t] # <<>>
    BY <1>6, Zenon DEF LooksForTarget, Next1
  <2> QED BY <1>1, <1>6, <2>1, ByLook DEF sqlite
<1>7. ASSUME NEW t \in Tasks, Vacuums(t) PROVE file' = file /\ Waiting' \subseteq Waiting
  <2>1. todo[t] # <<>>
    BY <1>7, Zenon DEF Vacuums, Next1
  <2> QED BY <1>1, <1>7, <2>1, ByVacuum DEF sqlite
<1>8. ASSUME NEW t \in Tasks, VacuumEnds(t) PROVE file' = file /\ Waiting' \subseteq Waiting
  <2>1. Puts(t, 3) /\ file' = file /\ Pos(t) = 2 /\ Kind[t] = "snapshot"
    BY <1>8, ByVacuumEnd DEF sqlite
  <2>2. todo[t] # <<>>
    BY <2>1, PosIs, SnapshotIs DEF Base, P
  <2> QED BY <1>1, <2>1, <2>2
<1>9. ASSUME NEW t \in Tasks, Renames(t) PROVE file' = file /\ Waiting' \subseteq Waiting
  <2>1. todo[t] # <<>>
    BY <1>9, Zenon DEF Renames
  <2> QED BY <1>1, <1>9, <2>1, ByRename DEF sqlite
<1>10. ASSUME NEW p \in Procs, Lease(p) PROVE file' = file /\ Waiting' \subseteq Waiting
  <2>1. lock[p] = None /\ (IF CanWrite(p) THEN CommitOf(p, Sees(p)) ELSE LeftOpen(p)) /\ todo' = todo
    BY <1>10, Zenon DEF Lease, CommitLease
  <2>2. CanWrite(p) => Sees(p) = file
    BY <2>1, SeesFile DEF Base
  <2>3. file' = file
    BY <2>1, <2>2 DEF CommitOf, LeftOpen
  <2> QED BY <2>1, <2>3 DEF Waiting
<1>11. ASSUME NEW p \in Procs, Request(p) PROVE file' = file /\ Waiting' \subseteq Waiting
  BY <1>11, Zenon DEF Request, Waiting
<1>12. ASSUME NEW p \in Procs, Crash(p) PROVE file' = file /\ Waiting' \subseteq Waiting
  <2>1. \A t \in Tasks : todo'[t] # <<>> => todo[t] # <<>>
    BY <1>12 DEF Crash
  <2> QED BY <1>12, <2>1, Zenon DEF Crash, Waiting
<1>13. CASE UNCHANGED vars
  BY <1>13 DEF vars, Waiting
<1> QED
  BY <1>2, <1>3, <1>4, <1>5, <1>6, <1>7, <1>8, <1>9, <1>10, <1>11, <1>12, <1>13, Zenon DEF Next, Does

\* Whatever statements, refusals, stale views and crashes do, what is committed is what an
\* atomic store would hold (core/db.py: implicit transactions, its lock, its rollbacks).
THEOREM StorageImplementsAtomicStore == Spec => TakesEffectAtOnce
<1>1. Init => Abstract!Start
  BY DEF Init, Abstract!Start
<1>2. StoreIInv /\ [Next]_vars => [Abstract!StoreNext]_(Abstract!storeVars)
  <2> SUFFICES ASSUME StoreIInv, [Next]_vars PROVE Abstract!StoreNext \/ UNCHANGED Abstract!storeVars
    OBVIOUS
  <2>1. CASE \E t \in Tasks : Kind[t] # "export" /\ Abstract!TakeEffect(t)
    BY <2>1, Zenon DEF Abstract!StoreNext
  <2>2. CASE file' = file /\ Waiting' \subseteq Waiting
    <3>1. Abstract!GiveUp
      BY <2>2 DEF Abstract!GiveUp, Waiting
    <3> QED BY <3>1 DEF Abstract!StoreNext
  <2> QED BY <2>1, <2>2, StepIsAtomic
<1> QED BY <1>1, <1>2, StoreHolds, PTL DEF Spec, TakesEffectAtOnce, Abstract!StoreSpec
=============================================================================
