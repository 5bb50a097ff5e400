------------------------------ MODULE AccessProofs ------------------------------
(***************************************************************************)
(* What is true of Access for every number of tabs, places, secrets,       *)
(* requests and crashes, and whatever the limits of failures are.          *)
(***************************************************************************)
EXTENDS Access, SequenceTheorems, TLAPS

-----------------------------------------------------------------------------
(* The inductive invariant *)

Counts(s) == \E i \in 1..Len(s) : s[i].put \in {"fail", "clear"}

\* Only a sign-in counts failures, its own place's and everybody's.
RequestOK(r) ==
  IF r.route = "login"
  THEN /\ r.from \in Places
       /\ r.todo \in {<<>>, Failure(r.from), <<Put("fail", Global)>>, <<Put("clear", r.from)>>}
  ELSE ~Counts(r.todo) /\ (r.route = None => r = Idle)

RequestsOK == \A t \in Tabs : RequestOK(tab[t])

\* A sign-in that may still fail has found room, and nobody else has filled it since.
MayFail(r) ==
  /\ r.todo \in {<<>>, Failure(r.from)} => fails[r.from] < MaxFails
  /\ r.todo \in {<<>>, Failure(r.from), <<Put("fail", Global)>>} => fails[Global] < GlobalMax

BudgetInv ==
  ~hist.logins =>
    /\ \A t, u \in Tabs : tab[t].route = "login" /\ tab[u].route = "login" => t = u
    /\ \A t \in Tabs : tab[t].route = "login" => MayFail(tab[t])

Changing(t) == tab[t].route \notin {None, "login"}

\* What holds between two changes.
FactorFits ==
  /\ row.on => row.secret \in proved
  /\ row.secret = None /\ copy.on => copy.secret \in proved \cup {None}
Settled == PasswordFits /\ FactorFits

\* The secret that enable_2fa was shown a code for.
Same(s) == IF row.secret = None THEN copy.secret = s ELSE row.secret = s

\* Where a change is, and what it has left half done: it has arrived and read the row, or
\* it is writing what its route writes.
Waiting(t) == tab[t].todo = <<>> /\ Settled /\ tab[t].mine = row

Starting(t) ==
  /\ tab[t].route = "start" /\ Settled /\ ~row.on
  /\ \E s \in Secrets : tab[t].todo = <<Put("secret", s)>>

Enabling(t) ==
  /\ tab[t].route = "enable" /\ Settled /\ row.secret \in proved
  /\ tab[t].todo = <<Put("on", TRUE)>>

Disabling(t) ==
  /\ tab[t].route = "disable" /\ PasswordFits
  /\ \/ /\ tab[t].todo = <<Put("row", NoFactor), Put("copy_on", FALSE), Put("copy_secret", None)>>
        /\ Settled
     \/ /\ tab[t].todo = <<Put("copy_on", FALSE), Put("copy_secret", None)>>
        /\ row = NoFactor
     \/ /\ tab[t].todo = <<Put("copy_secret", None)>>
        /\ row = NoFactor /\ ~copy.on

OldStarting(t) ==
  /\ tab[t].route = "old_start" /\ Settled /\ ~row.on /\ ~copy.on
  /\ \E s \in Secrets : \/ tab[t].todo = <<Put("copy_secret", s), Put("secret", s)>>
                        \/ tab[t].todo = <<Put("secret", s)>>

OldEnabling(t) ==
  /\ tab[t].route = "old_enable" /\ PasswordFits /\ FactorFits
  /\ \E s \in proved :
       /\ Same(s)
       /\ \/ /\ tab[t].todo = <<Put("copy_on", TRUE), Put("row", [secret |-> s, on |-> TRUE])>>
             /\ Settled
          \/ /\ tab[t].todo = <<Put("row", [secret |-> s, on |-> TRUE])>>
             /\ copy.on

OldDisabling(t) ==
  /\ tab[t].route = "old_disable" /\ Settled
  /\ \/ tab[t].todo = <<Put("copy_on", FALSE), Put("copy_secret", None), Put("row", NoFactor)>>
     \/ tab[t].todo = <<Put("copy_secret", None), Put("row", NoFactor)>> /\ ~copy.on
     \/ tab[t].todo = <<Put("row", NoFactor)>> /\ ~copy.on

NewPassword(t) ==
  /\ tab[t].route = "password" /\ FactorFits
  /\ \E n \in 0..MaxRequests :
       \/ tab[t].todo = <<Put("hash", n), Put("salt", n)>> /\ PasswordFits
       \/ tab[t].todo = <<Put("salt", n)>> /\ pw.hash = n

Midway(t) ==
  \/ Waiting(t) \/ Starting(t) \/ Enabling(t) \/ Disabling(t)
  \/ OldStarting(t) \/ OldEnabling(t) \/ OldDisabling(t) \/ NewPassword(t)

FactorInv ==
  ~hist.changes /\ ~hist.cut =>
    /\ \A t, u \in Tabs : Changing(t) /\ Changing(u) => t = u
    /\ (\A t \in Tabs : ~Changing(t)) => Settled
    /\ \A t \in Tabs : Changing(t) => Midway(t)

AccessIInv == AccessInv /\ RequestsOK /\ BudgetInv /\ FactorInv

-----------------------------------------------------------------------------
(* Types *)

LEMMA PutIs ==
  /\ \A w, x : Put(w, x).put = w /\ Put(w, x).as = x
  /\ \A f \in Factor : Put("row", f) \in Puts
  /\ \A b \in BOOLEAN : Put("on", b) \in Puts /\ Put("copy_on", b) \in Puts
  /\ \A s \in Secrets \cup {None} : Put("secret", s) \in Puts /\ Put("copy_secret", s) \in Puts
  /\ \A n \in 0..MaxRequests : Put("hash", n) \in Puts /\ Put("salt", n) \in Puts
  /\ \A b \in Buckets : Put("fail", b) \in Puts /\ Put("clear", b) \in Puts
BY DEF Put, Puts

LEMMA PutsAre ==
  ASSUME NEW w \in Puts
  PROVE  /\ w.put \in {"row", "on", "copy_on", "secret", "copy_secret", "hash", "salt", "fail", "clear"}
         /\ w.put = "row" => w.as \in Factor
         /\ w.put \in {"on", "copy_on"} => w.as \in BOOLEAN
         /\ w.put \in {"secret", "copy_secret"} => w.as \in Secrets \cup {None}
         /\ w.put \in {"hash", "salt"} => w.as \in 0..MaxRequests
         /\ w.put \in {"fail", "clear"} => w.as \in Buckets
BY DEF Puts

LEMMA IdleIs ==
  /\ Idle \in Requests /\ Idle.route = None /\ Idle.todo = <<>> /\ NoFactor \in Factor
  /\ None \notin Routes /\ None \notin Secrets
BY ConstantsAssumption DEF Idle, Requests, NoFactor, Factor

\* What a tab is like after it has been answered, refused or has written.
LEMMA AnswerIs ==
  ASSUME tab \in [Tabs -> Requests], NEW t \in Tabs, NEW writes \in Seq(Puts), Answers(t, writes)
  PROVE  /\ tab' \in [Tabs -> Requests]
         /\ \A u \in Tabs : u # t => tab'[u] = tab[u]
         /\ tab'[t].route = tab[t].route /\ tab'[t].from = tab[t].from
         /\ tab'[t].mine = tab[t].mine /\ tab'[t].todo = writes
<1> DEFINE r == tab[t]
           e == [r EXCEPT !.todo = writes]
<1>1. tab' = [tab EXCEPT ![t] = e]
  BY DEF Answers
<1>2. r \in Requests
  OBVIOUS
<1> HIDE DEF r
<1>3. e \in Requests /\ e.route = r.route /\ e.from = r.from /\ e.mine = r.mine /\ e.todo = writes
  BY <1>2 DEF Requests
<1> HIDE DEF e
<1> QED BY <1>1, <1>3 DEF r

LEMMA RefusalIs ==
  ASSUME tab \in [Tabs -> Requests], NEW t \in Tabs, Refuses(t)
  PROVE  /\ tab' \in [Tabs -> Requests]
         /\ \A u \in Tabs : u # t => tab'[u] = tab[u]
         /\ tab'[t] = Idle
BY IdleIs DEF Refuses

LEMMA TailIs ==
  ASSUME NEW S, NEW s \in Seq(S), s # <<>>
  PROVE  /\ Len(s) \in Nat \ {0} /\ Head(s) = s[1] /\ Head(s) \in S
         /\ Tail(s) \in Seq(S) /\ Len(Tail(s)) = Len(s) - 1
         /\ \A i \in 1..(Len(s) - 1) : Tail(s)[i] = s[i + 1]
BY HeadTailProperties, LenProperties

LEMMA WriteIs ==
  ASSUME TypeOK, NEW t \in Tabs, Write(t)
  PROVE  LET w == Head(tab[t].todo) IN
         /\ tab[t] \in Requests /\ tab[t].todo \in Seq(Puts) /\ tab[t].todo # <<>> /\ w \in Puts
         /\ tab' \in [Tabs -> Requests]
         /\ \A u \in Tabs : u # t => tab'[u] = tab[u]
         /\ Tail(tab[t].todo) = <<>> => tab'[t] = Idle
         /\ Tail(tab[t].todo) # <<>> =>
              /\ tab'[t].route = tab[t].route /\ tab'[t].from = tab[t].from
              /\ tab'[t].mine = tab[t].mine /\ tab'[t].todo = Tail(tab[t].todo)
<1> DEFINE r == tab[t]
           e == [r EXCEPT !.todo = Tail(r.todo)]
           f == IF Tail(r.todo) = <<>> THEN Idle ELSE e
<1>1. r \in Requests /\ r.todo # <<>>
  BY DEF TypeOK, Write
<1>2. tab' = [tab EXCEPT ![t] = f]
  BY DEF Write
<1> HIDE DEF r
<1>3. r.todo \in Seq(Puts)
  BY <1>1 DEF Requests
<1>4. Head(r.todo) \in Puts /\ Tail(r.todo) \in Seq(Puts)
  BY <1>1, <1>3, TailIs
<1>5. /\ e \in Requests /\ e.route = r.route /\ e.from = r.from /\ e.mine = r.mine
      /\ e.todo = Tail(r.todo)
  BY <1>1, <1>4 DEF Requests
<1> HIDE DEF e
<1>6. f \in Requests /\ (Tail(r.todo) = <<>> => f = Idle) /\ (Tail(r.todo) # <<>> => f = e)
  BY <1>5, IdleIs
<1> HIDE DEF f
<1>7. tab' \in [Tabs -> Requests] /\ tab'[t] = f /\ \A u \in Tabs : u # t => tab'[u] = tab[u]
  BY <1>2, <1>6 DEF TypeOK
<1> QED BY <1>1, <1>3, <1>4, <1>5, <1>6, <1>7 DEF r

LEMMA FactorType ==
  ASSUME NEW f \in Factor
  PROVE  /\ f.secret \in Secrets \cup {None} /\ f.on \in BOOLEAN
         /\ \A s \in Secrets \cup {None} : /\ [f EXCEPT !.secret = s] \in Factor
                                           /\ [f EXCEPT !.secret = s].secret = s
                                           /\ [f EXCEPT !.secret = s].on = f.on
         /\ \A b \in BOOLEAN : /\ [f EXCEPT !.on = b] \in Factor
                               /\ [f EXCEPT !.on = b].on = b
                               /\ [f EXCEPT !.on = b].secret = f.secret
BY DEF Factor

\* What each route writes.
LEMMA WritesType ==
  ASSUME NEW s \in Secrets \cup {None}, NEW n \in 0..MaxRequests
  PROVE  /\ \A route \in Routes \ {"login"} : WritesOf(route, s, n) \in Seq(Puts)
         /\ \A place \in Places : Failure(place) \in Seq(Puts) /\ <<Put("clear", place)>> \in Seq(Puts)
<1>1. [secret |-> s, on |-> TRUE] \in Factor /\ NoFactor \in Factor
  BY IdleIs DEF Factor
<1>2. ASSUME NEW a \in Puts PROVE <<a>> \in Seq(Puts)
  OBVIOUS
<1>3. ASSUME NEW a \in Puts, NEW b \in Puts PROVE <<a, b>> \in Seq(Puts)
  OBVIOUS
<1>4. ASSUME NEW a \in Puts, NEW b \in Puts, NEW c \in Puts PROVE <<a, b, c>> \in Seq(Puts)
  OBVIOUS
<1>5. /\ Put("secret", s) \in Puts /\ Put("copy_secret", s) \in Puts /\ Put("copy_secret", None) \in Puts
      /\ Put("on", TRUE) \in Puts /\ Put("copy_on", TRUE) \in Puts /\ Put("copy_on", FALSE) \in Puts
      /\ Put("row", NoFactor) \in Puts /\ Put("row", [secret |-> s, on |-> TRUE]) \in Puts
      /\ Put("hash", n) \in Puts /\ Put("salt", n) \in Puts
      /\ Put("fail", Global) \in Puts
      /\ \A place \in Places : Put("fail", place) \in Puts /\ Put("clear", place) \in Puts
  BY <1>1, PutIs DEF Buckets
<1>6. WritesOf("start", s, n) \in Seq(Puts) /\ WritesOf("enable", s, n) \in Seq(Puts)
  BY <1>2, <1>5 DEF WritesOf, Start
<1>7. WritesOf("disable", s, n) \in Seq(Puts) /\ WritesOf("old_disable", s, n) \in Seq(Puts)
  BY <1>4, <1>5 DEF WritesOf, Disable
<1>8. /\ WritesOf("old_start", s, n) \in Seq(Puts) /\ WritesOf("old_enable", s, n) \in Seq(Puts)
      /\ WritesOf("password", s, n) \in Seq(Puts)
  BY <1>3, <1>5 DEF WritesOf
<1>9. \A place \in Places : Failure(place) \in Seq(Puts) /\ <<Put("clear", place)>> \in Seq(Puts)
  BY <1>2, <1>3, <1>5 DEF Failure
<1> QED BY <1>6, <1>7, <1>8, <1>9 DEF Routes

\* What a write changes.
LEMMA Written ==
  ASSUME TypeOK, NEW t \in Tabs, Write(t)
  PROVE  LET w == Head(tab[t].todo) IN
         /\ w.put = "row" => row' = w.as
         /\ w.put = "secret" => row' = [row EXCEPT !.secret = w.as]
         /\ w.put = "on" => row' = [row EXCEPT !.on = w.as]
         /\ w.put \notin {"row", "secret", "on"} => row' = row
         /\ w.put = "copy_on" => copy' = [copy EXCEPT !.on = w.as]
         /\ w.put = "copy_secret" => copy' = [copy EXCEPT !.secret = w.as]
         /\ w.put \notin {"copy_on", "copy_secret"} => copy' = copy
         /\ w.put = "hash" => pw' = [pw EXCEPT !.hash = w.as]
         /\ w.put = "salt" => pw' = [pw EXCEPT !.salt = w.as]
         /\ w.put \notin {"hash", "salt"} => pw' = pw
         /\ w.put = "fail" => fails' = [fails EXCEPT ![w.as] = @ + 1]
         /\ w.put = "clear" => fails' = [fails EXCEPT ![w.as] = 0]
         /\ w.put \notin {"fail", "clear"} => fails' = fails
         /\ UNCHANGED <<minted, proved, left, crashes, hist>>
<1> DEFINE w == Head(tab[t].todo)
<1>1. /\ row' = CASE w.put = "row" -> w.as
                  [] w.put = "secret" -> [row EXCEPT !.secret = w.as]
                  [] w.put = "on" -> [row EXCEPT !.on = w.as]
                  [] OTHER -> row
      /\ copy' = CASE w.put = "copy_on" -> [copy EXCEPT !.on = w.as]
                   [] w.put = "copy_secret" -> [copy EXCEPT !.secret = w.as]
                   [] OTHER -> copy
      /\ pw' = IF w.put \in {"hash", "salt"} THEN [pw EXCEPT ![w.put] = w.as] ELSE pw
      /\ fails' = CASE w.put = "fail" -> [fails EXCEPT ![w.as] = @ + 1]
                    [] w.put = "clear" -> [fails EXCEPT ![w.as] = 0]
                    [] OTHER -> fails
      /\ UNCHANGED <<minted, proved, left, crashes, hist>>
  BY Zenon DEF Write
<1> HIDE DEF w
<1>2. /\ w.put = "row" => row' = w.as
      /\ w.put = "secret" => row' = [row EXCEPT !.secret = w.as]
      /\ w.put = "on" => row' = [row EXCEPT !.on = w.as]
      /\ w.put \notin {"row", "secret", "on"} => row' = row
  BY <1>1
<1>3. /\ w.put = "copy_on" => copy' = [copy EXCEPT !.on = w.as]
      /\ w.put = "copy_secret" => copy' = [copy EXCEPT !.secret = w.as]
      /\ w.put \notin {"copy_on", "copy_secret"} => copy' = copy
  BY <1>1
<1>4. /\ w.put = "hash" => pw' = [pw EXCEPT !.hash = w.as]
      /\ w.put = "salt" => pw' = [pw EXCEPT !.salt = w.as]
      /\ w.put \notin {"hash", "salt"} => pw' = pw
  BY <1>1
<1>5. /\ w.put = "fail" => fails' = [fails EXCEPT ![w.as] = @ + 1]
      /\ w.put = "clear" => fails' = [fails EXCEPT ![w.as] = 0]
      /\ w.put \notin {"fail", "clear"} => fails' = fails
  BY <1>1
<1> QED BY <1>1, <1>2, <1>3, <1>4, <1>5 DEF w

LEMMA WriteType ==
  ASSUME TypeOK, NEW t \in Tabs, Write(t)
  PROVE  TypeOK'
<1> DEFINE w == Head(tab[t].todo)
<1>1. w \in Puts /\ tab' \in [Tabs -> Requests]
  BY WriteIs
<1>2. /\ w.put \in {"row", "on", "copy_on", "secret", "copy_secret", "hash", "salt", "fail", "clear"}
      /\ w.put = "row" => w.as \in Factor
      /\ w.put \in {"on", "copy_on"} => w.as \in BOOLEAN
      /\ w.put \in {"secret", "copy_secret"} => w.as \in Secrets \cup {None}
      /\ w.put \in {"hash", "salt"} => w.as \in 0..MaxRequests
      /\ w.put \in {"fail", "clear"} => w.as \in Buckets
  BY <1>1, PutsAre
<1>3. /\ w.put = "row" => row' = w.as
      /\ w.put = "secret" => row' = [row EXCEPT !.secret = w.as]
      /\ w.put = "on" => row' = [row EXCEPT !.on = w.as]
      /\ w.put \notin {"row", "secret", "on"} => row' = row
      /\ w.put = "copy_on" => copy' = [copy EXCEPT !.on = w.as]
      /\ w.put = "copy_secret" => copy' = [copy EXCEPT !.secret = w.as]
      /\ w.put \notin {"copy_on", "copy_secret"} => copy' = copy
      /\ w.put = "hash" => pw' = [pw EXCEPT !.hash = w.as]
      /\ w.put = "salt" => pw' = [pw EXCEPT !.salt = w.as]
      /\ w.put \notin {"hash", "salt"} => pw' = pw
      /\ w.put = "fail" => fails' = [fails EXCEPT ![w.as] = @ + 1]
      /\ w.put = "clear" => fails' = [fails EXCEPT ![w.as] = 0]
      /\ w.put \notin {"fail", "clear"} => fails' = fails
      /\ UNCHANGED <<minted, proved, left, crashes, hist>>
  BY Written
<1> HIDE DEF w
<1>4. row' \in Factor
  BY <1>2, <1>3, FactorType DEF TypeOK
<1>5. copy' \in Factor
  BY <1>2, <1>3, FactorType DEF TypeOK
<1>6. pw' \in [hash : 0..MaxRequests, salt : 0..MaxRequests]
  BY <1>2, <1>3 DEF TypeOK
<1>7. fails' \in [Buckets -> Nat]
  BY <1>2, <1>3 DEF TypeOK
<1> QED BY <1>1, <1>3, <1>4, <1>5, <1>6, <1>7 DEF TypeOK

LEMMA TypeStep ==
  ASSUME TypeOK, RequestsOK, [Next]_vars
  PROVE  TypeOK'
<1>1. CASE UNCHANGED vars
  BY <1>1 DEF vars, TypeOK
<1>2. ASSUME NEW t \in Tabs, Arrives(t) PROVE TypeOK'
  <2>1. PICK r \in Routes, place \in Places :
          LET others == {tab[u].route : u \in Tabs} \ {None} IN
          /\ hist' = [hist EXCEPT !.logins = @ \/ (r = "login" /\ "login" \in others),
                                  !.changes = @ \/ (r # "login" /\ others \ {"login"} # {})]
          /\ tab' = [tab EXCEPT ![t] = [Idle EXCEPT !.route = r, !.mine = row,
                       !.from = IF r = "login" THEN place ELSE None]]
    BY <1>2 DEF Arrives
  <2> DEFINE f == IF r = "login" THEN place ELSE None
             e == [Idle EXCEPT !.route = r, !.mine = row, !.from = f]
  <2>2. tab' = [tab EXCEPT ![t] = e]
    BY <2>1
  <2>3. f \in Places \cup {None} /\ row \in Factor
    BY DEF TypeOK
  <2> HIDE DEF f
  <2>4. e \in Requests
    BY <2>3, IdleIs DEF Requests
  <2> HIDE DEF e
  <2>5. tab' \in [Tabs -> Requests]
    BY <2>2, <2>4 DEF TypeOK
  <2>6. hist' \in [logins : BOOLEAN, changes : BOOLEAN, cut : BOOLEAN]
    BY <2>1 DEF TypeOK
  <2>7. left' \in 0..MaxRequests
    BY <1>2, ConstantsAssumption DEF Arrives, TypeOK
  <2> QED BY <1>2, <2>5, <2>6, <2>7 DEF Arrives, TypeOK
<1>3. ASSUME NEW t \in Tabs, StartsFactor(t) PROVE TypeOK'
  <2>1. tab[t].route \in {"start", "old_start"} /\ UNCHANGED <<row, copy, pw, fails, proved, left, crashes, hist>>
    BY <1>3 DEF StartsFactor
  <2>2. CASE Refuses(t) /\ UNCHANGED minted
    BY <2>1, <2>2, RefusalIs DEF TypeOK
  <2>3. CASE \E s \in Secrets :
               /\ Mints(s) /\ minted' = minted \cup {s}
               /\ Answers(t, WritesOf(tab[t].route, s, 0))
    <3>1. PICK s \in Secrets :
            /\ minted' = minted \cup {s} /\ Answers(t, WritesOf(tab[t].route, s, 0))
      BY <2>3
    <3>2. 0 \in 0..MaxRequests
      BY ConstantsAssumption
    <3>3. WritesOf(tab[t].route, s, 0) \in Seq(Puts)
      BY <2>1, <3>2, WritesType DEF Routes
    <3>4. tab' \in [Tabs -> Requests]
      BY <3>1, <3>3, AnswerIs DEF TypeOK
    <3> QED BY <2>1, <3>1, <3>4 DEF TypeOK
  <2> QED BY <1>3, <2>2, <2>3 DEF StartsFactor
<1>4. ASSUME NEW t \in Tabs, EnablesFactor(t) PROVE TypeOK'
  <2> DEFINE mine == tab[t].mine.secret
             secret == IF tab[t].route = "old_enable" /\ mine = None THEN copy.secret ELSE mine
  <2>1. tab[t].route \in {"enable", "old_enable"} /\ UNCHANGED <<row, copy, pw, fails, minted, left, crashes, hist>>
    BY <1>4 DEF EnablesFactor
  <2>2. \/ secret \in minted /\ proved' = proved \cup {secret} /\ Answers(t, WritesOf(tab[t].route, secret, 0))
        \/ Refuses(t) /\ proved' = proved
    BY Zenon, <1>4 DEF EnablesFactor
  <2> HIDE DEF secret
  <2>3. CASE Refuses(t) /\ proved' = proved
    BY <2>1, <2>3, RefusalIs DEF TypeOK
  <2>4. CASE secret \in minted /\ proved' = proved \cup {secret} /\ Answers(t, WritesOf(tab[t].route, secret, 0))
    <3>1. 0 \in 0..MaxRequests /\ secret \in Secrets
      BY <2>4, ConstantsAssumption DEF TypeOK
    <3>2. WritesOf(tab[t].route, secret, 0) \in Seq(Puts)
      BY <2>1, <3>1, WritesType DEF Routes
    <3>3. tab' \in [Tabs -> Requests]
      BY <2>4, <3>2, AnswerIs DEF TypeOK
    <3> QED BY <2>1, <2>4, <3>3 DEF TypeOK
  <2> QED BY <2>2, <2>3, <2>4
<1>5. ASSUME NEW t \in Tabs, WithPassword(t) PROVE TypeOK'
  <2>1. /\ tab[t].route \in {"disable", "old_disable", "password"}
        /\ UNCHANGED <<row, copy, pw, fails, minted, proved, left, crashes, hist>>
        /\ Answers(t, WritesOf(tab[t].route, None, MaxRequests - left)) \/ Refuses(t)
    BY <1>5 DEF WithPassword
  <2>2. CASE Refuses(t)
    BY <2>1, <2>2, RefusalIs DEF TypeOK
  <2>3. CASE Answers(t, WritesOf(tab[t].route, None, MaxRequests - left))
    <3>1. MaxRequests - left \in 0..MaxRequests
      BY ConstantsAssumption DEF TypeOK
    <3>2. WritesOf(tab[t].route, None, MaxRequests - left) \in Seq(Puts)
      BY <2>1, <3>1, WritesType DEF Routes
    <3>3. tab' \in [Tabs -> Requests]
      BY <2>3, <3>2, AnswerIs DEF TypeOK
    <3> QED BY <2>1, <3>3 DEF TypeOK
  <2> QED BY <2>1, <2>2, <2>3
<1>6. ASSUME NEW t \in Tabs, Login(t) PROVE TypeOK'
  <2>0. tab[t].from \in Places
    BY <1>6 DEF Login, RequestsOK, RequestOK
  <2>1. /\ UNCHANGED <<row, copy, pw, fails, minted, left, crashes, hist>>
        /\ \/ Answers(t, Failure(tab[t].from)) /\ proved' = proved
           \/ Refuses(t) /\ proved' = proved
           \/ Asked \in minted \cup {None} /\ proved' = proved \cup ({Asked} \ {None})
              /\ Answers(t, <<Put("clear", tab[t].from)>>)
    BY <1>6 DEF Login
  <2>2. 0 \in 0..MaxRequests
    BY ConstantsAssumption
  <2>3. Failure(tab[t].from) \in Seq(Puts) /\ <<Put("clear", tab[t].from)>> \in Seq(Puts)
    BY <2>0, <2>2, WritesType
  <2>4. tab' \in [Tabs -> Requests]
    BY <2>1, <2>3, AnswerIs, RefusalIs DEF TypeOK
  <2>5. proved' \subseteq minted
    BY <2>1 DEF TypeOK
  <2> QED BY <2>1, <2>4, <2>5 DEF TypeOK
<1>7. ASSUME NEW t \in Tabs, Crash(t) PROVE TypeOK'
  <2>1. /\ crashes' \in 0..MaxCrashes /\ Refuses(t)
        /\ UNCHANGED <<row, copy, pw, fails, minted, proved, left>>
    BY <1>7, ConstantsAssumption DEF Crash, TypeOK
  <2>2. hist' \in [logins : BOOLEAN, changes : BOOLEAN, cut : BOOLEAN]
    BY <1>7 DEF Crash, TypeOK
  <2> QED BY <2>1, <2>2, RefusalIs DEF TypeOK
<1>8. ASSUME NEW b \in Buckets, Ages(b) PROVE TypeOK'
  BY <1>8 DEF Ages, TypeOK
<1> QED BY <1>1, <1>2, <1>3, <1>4, <1>5, <1>6, <1>7, <1>8, WriteType DEF Next

-----------------------------------------------------------------------------
(* The budget of failures *)

\* The todo lists of a sign-in, by their first write and what it leaves.
LEMMA LoginTodo ==
  ASSUME NEW place \in Places
  PROVE  LET a == Failure(place)
             b == <<Put("fail", Global)>>
             c == <<Put("clear", place)>>
         IN /\ a # <<>> /\ Head(a) = Put("fail", place) /\ Tail(a) = b
            /\ b # <<>> /\ Head(b) = Put("fail", Global) /\ Tail(b) = <<>>
            /\ c # <<>> /\ Head(c) = Put("clear", place) /\ Tail(c) = <<>>
            /\ a # b /\ a # c /\ b # c
<1> DEFINE x == Put("fail", place)
           y == Put("fail", Global)
           z == Put("clear", place)
<1>1. x.put = "fail" /\ y.put = "fail" /\ z.put = "clear" /\ x.as = place /\ y.as = Global
  BY PutIs
<1>2. place # Global
  BY ConstantsAssumption
<1>3. x # y /\ x # z /\ y # z
  BY <1>1, <1>2
<1> HIDE DEF x, y, z
<1>4. /\ <<x, y>> # <<>> /\ Head(<<x, y>>) = x /\ Tail(<<x, y>>) = <<y>>
      /\ <<y>> # <<>> /\ Head(<<y>>) = y /\ Tail(<<y>>) = <<>>
      /\ <<z>> # <<>> /\ Head(<<z>>) = z /\ Tail(<<z>>) = <<>>
  OBVIOUS
<1>5. <<x, y>> # <<y>> /\ <<x, y>> # <<z>> /\ <<y>> # <<z>>
  BY <1>3, <1>4
<1> QED BY <1>4, <1>5 DEF Failure, x, y, z

\* No change counts failures.
LEMMA ChangesCountNot ==
  ASSUME NEW s, NEW n
  PROVE  \A route \in Routes \ {"login"} : ~Counts(WritesOf(route, s, n))
<1>1. ASSUME NEW a, a.put \notin {"fail", "clear"} PROVE ~Counts(<<a>>)
  <2>1. \A i \in 1..Len(<<a>>) : <<a>>[i] = a
    OBVIOUS
  <2> QED BY <1>1, <2>1 DEF Counts
<1>2. ASSUME NEW a, NEW b, a.put \notin {"fail", "clear"}, b.put \notin {"fail", "clear"}
      PROVE ~Counts(<<a, b>>)
  <2>1. \A i \in 1..Len(<<a, b>>) : <<a, b>>[i] = a \/ <<a, b>>[i] = b
    OBVIOUS
  <2> QED BY <1>2, <2>1 DEF Counts
<1>3. ASSUME NEW a, NEW b, NEW c, a.put \notin {"fail", "clear"}, b.put \notin {"fail", "clear"},
             c.put \notin {"fail", "clear"}
      PROVE ~Counts(<<a, b, c>>)
  <2>1. \A i \in 1..Len(<<a, b, c>>) :
          <<a, b, c>>[i] = a \/ <<a, b, c>>[i] = b \/ <<a, b, c>>[i] = c
    OBVIOUS
  <2> QED BY <1>3, <2>1 DEF Counts
<1> DEFINE a == Put("secret", s)
           b == Put("on", TRUE)
           c == Put("row", NoFactor)
           d == Put("copy_on", FALSE)
           e == Put("copy_secret", None)
           f == Put("copy_secret", s)
           g == Put("copy_on", TRUE)
           h == Put("row", [secret |-> s, on |-> TRUE])
           k == Put("hash", n)
           l == Put("salt", n)
<1>4. /\ a.put = "secret" /\ b.put = "on" /\ c.put = "row" /\ d.put = "copy_on" /\ e.put = "copy_secret"
      /\ f.put = "copy_secret" /\ g.put = "copy_on" /\ h.put = "row" /\ k.put = "hash" /\ l.put = "salt"
  BY PutIs
<1>5. /\ WritesOf("start", s, n) = <<a>> /\ WritesOf("enable", s, n) = <<b>>
      /\ WritesOf("disable", s, n) = <<c, d, e>> /\ WritesOf("old_disable", s, n) = <<d, e, c>>
      /\ WritesOf("old_start", s, n) = <<f, a>> /\ WritesOf("old_enable", s, n) = <<g, h>>
      /\ WritesOf("password", s, n) = <<k, l>>
  BY DEF WritesOf, Start, Disable
<1> HIDE DEF a, b, c, d, e, f, g, h, k, l
<1>6. /\ ~Counts(<<a>>) /\ ~Counts(<<b>>)
      /\ ~Counts(<<f, a>>) /\ ~Counts(<<g, h>>) /\ ~Counts(<<k, l>>)
  BY <1>1, <1>2, <1>4
<1>7. ~Counts(<<c, d, e>>) /\ ~Counts(<<d, e, c>>)
  BY <1>3, <1>4
<1> QED BY <1>5, <1>6, <1>7 DEF Routes

LEMMA TailCounts ==
  ASSUME NEW s \in Seq(Puts), s # <<>>, ~Counts(s)
  PROVE  ~Counts(Tail(s)) /\ Head(s).put \notin {"fail", "clear"}
<1>1. /\ Len(s) \in Nat \ {0} /\ Head(s) = s[1] /\ Len(Tail(s)) = Len(s) - 1
      /\ \A i \in 1..(Len(s) - 1) : Tail(s)[i] = s[i + 1]
  BY TailIs
<1> DEFINE t == Tail(s)
<1> HIDE DEF t
<1>2. \A i \in 1..(Len(s) - 1) : i + 1 \in 1..Len(s)
  BY <1>1
<1>3. 1 \in 1..Len(s)
  BY <1>1
<1> QED BY <1>1, <1>2, <1>3 DEF Counts

LEMMA IdleCounts == RequestOK(Idle) /\ ~Counts(<<>>) /\ Idle.route # "login"
<1>1. \A i \in 1..Len(<<>>) : FALSE
  OBVIOUS
<1>2. "login" \in Routes
  BY DEF Routes
<1> QED BY <1>1, <1>2, IdleIs DEF RequestOK, Counts

BudgetKept == RequestsOK' /\ BudgetInv' /\ BudgetIsShared'

\* A tab that is answered, refused or done, while no failure is counted.
LEMMA BudgetLeftAlone ==
  ASSUME RequestsOK, BudgetInv, BudgetIsShared, NEW t \in Tabs,
         \A u \in Tabs : u # t => tab'[u] = tab[u],
         fails' = fails, hist'.logins = hist.logins, RequestOK(tab'[t]),
         tab'[t].route = "login" =>
           /\ tab[t].route = "login" /\ tab'[t].from = tab[t].from
           /\ tab[t].todo = <<>> \/ tab'[t].todo = <<Put("clear", tab[t].from)>>
  PROVE  BudgetKept
<1>1. RequestsOK'
  BY DEF RequestsOK
<1>2. BudgetIsShared'
  BY DEF BudgetIsShared
<1>3. ASSUME ~hist'.logins PROVE /\ \A u, v \in Tabs : tab'[u].route = "login" /\ tab'[v].route = "login" => u = v
                                 /\ \A u \in Tabs : tab'[u].route = "login" => MayFail(tab[u])'
  <2>1. /\ \A u, v \in Tabs : tab[u].route = "login" /\ tab[v].route = "login" => u = v
        /\ \A u \in Tabs : tab[u].route = "login" => MayFail(tab[u])
    BY <1>3 DEF BudgetInv
  <2>2. \A u \in Tabs : tab'[u].route = "login" => tab[u].route = "login"
    OBVIOUS
  <2>3. ASSUME NEW u \in Tabs, tab'[u].route = "login" PROVE MayFail(tab[u])'
    <3>1. MayFail(tab[u])
      BY <2>1, <2>2, <2>3
    <3>2. CASE u # t
      BY <3>1, <3>2 DEF MayFail
    <3>3. CASE u = t
      <4>1. tab'[t].from = tab[t].from /\ tab[t].from \in Places
        BY <2>3, <3>3 DEF RequestsOK, RequestOK
      <4>2. CASE tab[t].todo = <<>>
        <5>1. fails[tab[t].from] < MaxFails /\ fails[Global] < GlobalMax
          BY <3>1, <3>3, <4>2 DEF MayFail
        <5> QED BY <3>3, <4>1, <5>1 DEF MayFail
      <4>3. CASE tab'[t].todo = <<Put("clear", tab[t].from)>>
        <5>1. tab'[t].todo \notin {<<>>, Failure(tab[t].from), <<Put("fail", Global)>>}
          BY <4>1, <4>3, LoginTodo
        <5> QED BY <3>3, <4>1, <5>1 DEF MayFail
      <4> QED BY <2>3, <3>3, <4>2, <4>3
    <3> QED BY <3>2, <3>3
  <2> QED BY <2>1, <2>2, <2>3
<1>4. BudgetInv'
  BY <1>3 DEF BudgetInv
<1> QED BY <1>1, <1>2, <1>4 DEF BudgetKept

LEMMA ArrivesBudget ==
  ASSUME TypeOK, RequestsOK, BudgetInv, BudgetIsShared, NEW t \in Tabs, Arrives(t)
  PROVE  BudgetKept
<1>1. PICK r \in Routes, place \in Places :
        /\ r = "login" => Room(place)
        /\ hist' = [hist EXCEPT !.logins = @ \/ (r = "login" /\ "login" \in ({tab[u].route : u \in Tabs} \ {None})),
                                !.changes = @ \/ (r # "login" /\ ({tab[u].route : u \in Tabs} \ {None}) \ {"login"} # {})]
        /\ tab' = [tab EXCEPT ![t] = [Idle EXCEPT !.route = r, !.mine = row,
                     !.from = IF r = "login" THEN place ELSE None]]
  BY DEF Arrives
<1> DEFINE f == IF r = "login" THEN place ELSE None
           e == [Idle EXCEPT !.route = r, !.mine = row, !.from = f]
<1>2. tab' = [tab EXCEPT ![t] = e] /\ tab[t] = Idle /\ fails' = fails
  BY <1>1 DEF Arrives
<1>3. f \in Places \cup {None} /\ row \in Factor /\ (r = "login" => f = place)
  BY DEF TypeOK
<1> HIDE DEF f
<1>4. e \in Requests /\ e.route = r /\ e.from = f /\ e.todo = <<>>
  BY <1>3, IdleIs DEF Requests
<1> HIDE DEF e
<1>5. tab'[t] = e /\ \A u \in Tabs : u # t => tab'[u] = tab[u]
  BY <1>2, <1>4 DEF TypeOK
<1>6. RequestOK(tab'[t])
  BY <1>3, <1>4, <1>5, IdleCounts, IdleIs DEF RequestOK
<1>7. CASE r # "login"
  <2>1. hist'.logins = hist.logins
    BY <1>1, <1>7 DEF TypeOK
  <2>2. tab'[t].route # "login"
    BY <1>4, <1>5, <1>7
  <2> QED BY <1>2, <1>5, <1>6, <2>1, <2>2, BudgetLeftAlone
<1>8. CASE r = "login"
  <2>1. hist'.logins \/ ((~hist.logins) /\ \A u \in Tabs : tab[u].route # "login")
    <3>1. "login" \in Routes
      BY DEF Routes
    <3> QED BY <1>1, <1>8, <3>1, IdleIs DEF TypeOK
  <2>2. RequestsOK' /\ BudgetIsShared'
    <3>1. BudgetIsShared'
      BY <1>2, <2>1 DEF BudgetIsShared
    <3> QED BY <1>5, <1>6, <3>1 DEF RequestsOK
  <2>3. ASSUME ~hist'.logins
        PROVE /\ \A u, v \in Tabs : tab'[u].route = "login" /\ tab'[v].route = "login" => u = v
              /\ \A u \in Tabs : tab'[u].route = "login" => MayFail(tab[u])'
    <3>1. \A u \in Tabs : tab'[u].route = "login" => u = t
      BY <1>5, <2>1, <2>3
    <3>2. fails'[e.from] < MaxFails /\ fails'[Global] < GlobalMax
      BY <1>1, <1>2, <1>3, <1>4, <1>8 DEF Room
    <3>3. MayFail(tab[t])'
      BY <1>5, <3>2 DEF MayFail
    <3> QED BY <3>1, <3>3
  <2>4. BudgetInv'
    BY <2>3 DEF BudgetInv
  <2> QED BY <2>2, <2>4 DEF BudgetKept
<1> QED BY <1>7, <1>8

\* A change of the password or the second factor counts no failure.
LEMMA ChangeBudget ==
  ASSUME RequestsOK, BudgetInv, BudgetIsShared, NEW t \in Tabs, tab \in [Tabs -> Requests],
         tab[t].route \in Routes \ {"login"}, NEW s \in Secrets \cup {None}, NEW n \in 0..MaxRequests,
         Answers(t, WritesOf(tab[t].route, s, n)), fails' = fails, hist' = hist
  PROVE  BudgetKept
<1> DEFINE w == WritesOf(tab[t].route, s, n)
<1>1. w \in Seq(Puts) /\ ~Counts(w)
  BY WritesType, ChangesCountNot
<1> HIDE DEF w
<1>2. /\ \A u \in Tabs : u # t => tab'[u] = tab[u]
      /\ tab'[t].route = tab[t].route /\ tab'[t].todo = w
  BY <1>1, AnswerIs DEF w
<1>3. RequestOK(tab'[t]) /\ tab'[t].route # "login"
  BY <1>1, <1>2, IdleIs DEF RequestOK
<1> QED BY <1>2, <1>3, BudgetLeftAlone

LEMMA IdleBudget ==
  ASSUME RequestsOK, BudgetInv, BudgetIsShared, NEW t \in Tabs, tab \in [Tabs -> Requests],
         Refuses(t), fails' = fails, hist'.logins = hist.logins
  PROVE  BudgetKept
<1>1. tab'[t] = Idle /\ \A u \in Tabs : u # t => tab'[u] = tab[u]
  BY RefusalIs
<1>2. RequestOK(tab'[t]) /\ tab'[t].route # "login"
  BY <1>1, IdleCounts
<1> QED BY <1>1, <1>2, BudgetLeftAlone

LEMMA LoginBudget ==
  ASSUME TypeOK, RequestsOK, BudgetInv, BudgetIsShared, NEW t \in Tabs, Login(t)
  PROVE  BudgetKept
<1> DEFINE place == tab[t].from
<1>1. /\ tab[t].route = "login" /\ tab[t].todo = <<>> /\ fails' = fails /\ hist' = hist
      /\ \/ Refuses(t)
         \/ \E w \in {Failure(place), <<Put("clear", place)>>} : Answers(t, w)
  BY DEF Login, Decides
<1>2. place \in Places /\ tab \in [Tabs -> Requests]
  BY <1>1 DEF RequestsOK, RequestOK, TypeOK
<1>3. CASE Refuses(t)
  BY <1>1, <1>2, <1>3, IdleBudget
<1>4. ASSUME NEW w \in {Failure(place), <<Put("clear", place)>>}, Answers(t, w) PROVE BudgetKept
  <2>1. 0 \in 0..MaxRequests
    BY ConstantsAssumption
  <2>2. w \in Seq(Puts)
    BY <1>2, <2>1, WritesType
  <2>3. /\ \A u \in Tabs : u # t => tab'[u] = tab[u]
        /\ tab'[t].route = tab[t].route /\ tab'[t].from = tab[t].from /\ tab'[t].todo = w
    BY <1>2, <1>4, <2>2, AnswerIs
  <2>4. RequestOK(tab'[t])
    BY <1>1, <1>2, <2>3 DEF RequestOK
  <2> QED BY <1>1, <2>3, <2>4, BudgetLeftAlone
<1> QED BY <1>1, <1>3, <1>4

\* One more failure, or none any more.
LEMMA CountedBudget ==
  ASSUME TypeOK, RequestsOK, BudgetInv, BudgetIsShared, NEW t \in Tabs, Write(t), tab[t].route = "login"
  PROVE  BudgetKept
<1> DEFINE place == tab[t].from
           a == Failure(place)
           b == <<Put("fail", Global)>>
           c == <<Put("clear", place)>>
           s == tab[t].todo
<1>1. /\ place \in Places /\ s \in {a, b, c}
  BY DEF RequestsOK, RequestOK, Write
<1>2. /\ \A u \in Tabs : u # t => tab'[u] = tab[u]
      /\ Tail(s) = <<>> => tab'[t] = Idle
      /\ Tail(s) # <<>> => /\ tab'[t].route = "login" /\ tab'[t].from = place
                           /\ tab'[t].todo = Tail(s)
  BY WriteIs
<1>3. /\ Head(a) = Put("fail", place) /\ Tail(a) = b /\ b # <<>>
      /\ Head(b) = Put("fail", Global) /\ Tail(b) = <<>>
      /\ Head(c) = Put("clear", place) /\ Tail(c) = <<>>
      /\ a # b /\ a # c /\ b # c
  BY <1>1, LoginTodo
<1>4. /\ s = a => fails' = [fails EXCEPT ![place] = @ + 1]
      /\ s = b => fails' = [fails EXCEPT ![Global] = @ + 1]
      /\ s = c => fails' = [fails EXCEPT ![place] = 0]
      /\ hist' = hist
  <2>1. /\ \A x : Put("fail", x).put = "fail" /\ Put("fail", x).as = x
        /\ \A x : Put("clear", x).put = "clear" /\ Put("clear", x).as = x
    BY PutIs
  <2>2. LET w == Head(s) IN
        /\ w.put = "fail" => fails' = [fails EXCEPT ![w.as] = @ + 1]
        /\ w.put = "clear" => fails' = [fails EXCEPT ![w.as] = 0]
        /\ UNCHANGED <<minted, proved, left, crashes, hist>>
    BY Written
  <2> HIDE DEF a, b, c, s
  <2> QED BY <1>3, <2>1, <2>2
<1>5. /\ Global \notin Places /\ Global \in Buckets /\ place \in Buckets /\ fails \in [Buckets -> Nat]
      /\ Places \subseteq Buckets
  BY <1>1, ConstantsAssumption DEF Buckets, TypeOK
<1>6. MaxFails \in Nat /\ GlobalMax \in Nat
  BY ConstantsAssumption
<1>7. RequestOK(tab'[t])
  BY <1>1, <1>2, <1>3, IdleCounts DEF RequestOK
<1>8. RequestsOK'
  BY <1>2, <1>7 DEF RequestsOK
<1>9. ASSUME ~hist'.logins
      PROVE /\ \A u, v \in Tabs : tab'[u].route = "login" /\ tab'[v].route = "login" => u = v
            /\ \A u \in Tabs : tab'[u].route = "login" => MayFail(tab[u])'
            /\ \A p \in Places : fails'[p] <= MaxFails
            /\ fails'[Global] <= GlobalMax
  <2>1. /\ \A u \in Tabs : tab[u].route = "login" => u = t
        /\ MayFail(tab[t])
        /\ \A p \in Places : fails[p] <= MaxFails
        /\ fails[Global] <= GlobalMax
    BY <1>4, <1>9 DEF BudgetInv, BudgetIsShared
  <2>2. \A u \in Tabs : tab'[u].route = "login" => u = t
    BY <1>2, <2>1
  <2>3. s = a => fails[place] < MaxFails /\ fails[Global] < GlobalMax
    BY <2>1 DEF MayFail
  <2>4. s = b => fails[Global] < GlobalMax
    BY <2>1 DEF MayFail
  <2>5. (\A p \in Places : fails'[p] <= MaxFails) /\ fails'[Global] <= GlobalMax
    <3> HIDE DEF a, b, c, s, place
    <3>1. CASE s = a
      BY <1>4, <1>5, <1>6, <2>1, <2>3, <3>1
    <3>2. CASE s = b
      BY <1>4, <1>5, <1>6, <2>1, <2>4, <3>2
    <3>3. CASE s = c
      BY <1>4, <1>5, <1>6, <2>1, <3>3
    <3> QED BY <1>1, <3>1, <3>2, <3>3
  <2>6. tab'[t].route = "login" => MayFail(tab[t])'
    <3> SUFFICES ASSUME tab'[t].route = "login" PROVE MayFail(tab[t])'
      OBVIOUS
    <3>1. s = a /\ tab'[t].from = place /\ tab'[t].todo = b
      BY <1>1, <1>2, <1>3, IdleCounts
    <3>2. fails'[Global] < GlobalMax
      BY <1>4, <1>5, <1>1, <2>3, <3>1
    <3>3. b # <<>> /\ a # b
      BY <1>3
    <3> QED BY <3>1, <3>2, <3>3 DEF MayFail
  <2> QED BY <2>2, <2>5, <2>6
<1>10. BudgetInv' /\ BudgetIsShared'
  BY <1>9 DEF BudgetInv, BudgetIsShared
<1> QED BY <1>8, <1>10 DEF BudgetKept

LEMMA WriteBudget ==
  ASSUME TypeOK, RequestsOK, BudgetInv, BudgetIsShared, NEW t \in Tabs, Write(t)
  PROVE  BudgetKept
<1> DEFINE s == tab[t].todo
<1>1. CASE tab[t].route = "login"
  BY <1>1, CountedBudget
<1>2. CASE tab[t].route # "login"
  <2>1. /\ s \in Seq(Puts) /\ s # <<>>
        /\ \A u \in Tabs : u # t => tab'[u] = tab[u]
        /\ Tail(s) = <<>> => tab'[t] = Idle
        /\ Tail(s) # <<>> => tab'[t].route = tab[t].route /\ tab'[t].todo = Tail(s)
    BY WriteIs
  <2>2. ~Counts(s) /\ (tab[t].route = None => tab[t] = Idle)
    BY <1>2 DEF RequestsOK, RequestOK
  <2>3. ~Counts(Tail(s)) /\ Head(s).put \notin {"fail", "clear"}
    BY <2>1, <2>2, TailCounts
  <2>4. fails' = fails /\ hist' = hist
    BY <2>3, Written
  <2>5. tab[t].route # None
    BY <2>1, <2>2, IdleIs
  <2> HIDE DEF s
  <2>6. RequestOK(tab'[t]) /\ tab'[t].route # "login"
    BY <1>2, <2>1, <2>3, <2>5, IdleCounts DEF RequestOK
  <2> QED BY <2>1, <2>4, <2>6, BudgetLeftAlone
<1> QED BY <1>1, <1>2

LEMMA BudgetStep ==
  ASSUME TypeOK, RequestsOK, BudgetInv, BudgetIsShared, [Next]_vars
  PROVE  BudgetKept
<1>1. tab \in [Tabs -> Requests] /\ 0 \in 0..MaxRequests
  BY ConstantsAssumption DEF TypeOK
<1>2. CASE UNCHANGED vars
  BY <1>2 DEF vars, RequestsOK, BudgetInv, BudgetIsShared, BudgetKept, MayFail
<1>3. ASSUME NEW t \in Tabs, StartsFactor(t) PROVE BudgetKept
  <2>1. /\ tab[t].route \in Routes \ {"login"} /\ fails' = fails /\ hist' = hist
        /\ Refuses(t) \/ \E s \in Secrets : Answers(t, WritesOf(tab[t].route, s, 0))
    BY <1>3 DEF StartsFactor, Routes
  <2> QED BY <1>1, <2>1, IdleBudget, ChangeBudget
<1>4. ASSUME NEW t \in Tabs, EnablesFactor(t) PROVE BudgetKept
  <2>1. /\ tab[t].route \in Routes \ {"login"} /\ fails' = fails /\ hist' = hist
        /\ Refuses(t) \/ \E s \in minted : Answers(t, WritesOf(tab[t].route, s, 0))
    BY <1>4 DEF EnablesFactor, Routes
  <2>2. minted \subseteq Secrets
    BY DEF TypeOK
  <2> QED BY <1>1, <2>1, <2>2, IdleBudget, ChangeBudget
<1>5. ASSUME NEW t \in Tabs, WithPassword(t) PROVE BudgetKept
  <2>1. /\ tab[t].route \in Routes \ {"login"} /\ fails' = fails /\ hist' = hist
        /\ Refuses(t) \/ Answers(t, WritesOf(tab[t].route, None, MaxRequests - left))
    BY <1>5 DEF WithPassword, Routes
  <2>2. MaxRequests - left \in 0..MaxRequests
    BY ConstantsAssumption DEF TypeOK
  <2> QED BY <1>1, <2>1, <2>2, IdleBudget, ChangeBudget
<1>6. ASSUME NEW t \in Tabs, Crash(t) PROVE BudgetKept
  <2>1. Refuses(t) /\ fails' = fails /\ hist'.logins = hist.logins
    BY <1>6 DEF Crash, TypeOK
  <2> QED BY <1>1, <2>1, IdleBudget
<1>7. ASSUME NEW b \in Buckets, Ages(b) PROVE BudgetKept
  <2>1. fails' = [fails EXCEPT ![b] = 0] /\ tab' = tab /\ hist' = hist
    BY <1>7 DEF Ages
  <2>2. \A c \in Buckets : fails'[c] <= fails[c] /\ fails'[c] \in Nat /\ fails[c] \in Nat
    BY <2>1 DEF TypeOK
  <2>3. MaxFails \in Nat /\ GlobalMax \in Nat /\ Global \in Buckets /\ Places \subseteq Buckets
    BY ConstantsAssumption DEF Buckets
  <2>4. BudgetIsShared'
    BY <2>1, <2>2, <2>3 DEF BudgetIsShared
  <2>5. RequestsOK'
    BY <2>1 DEF RequestsOK
  <2>6. ASSUME NEW u \in Tabs, tab[u].route = "login", MayFail(tab[u]) PROVE MayFail(tab[u])'
    <3>1. tab[u].from \in Buckets
      BY <2>3, <2>6 DEF RequestsOK, RequestOK
    <3> QED BY <2>1, <2>2, <2>3, <2>6, <3>1 DEF MayFail
  <2>7. BudgetInv'
    BY <2>1, <2>6 DEF BudgetInv
  <2> QED BY <2>4, <2>5, <2>7 DEF BudgetKept
<1> QED
  BY <1>2, <1>3, <1>4, <1>5, <1>6, <1>7, ArrivesBudget, LoginBudget, WriteBudget DEF Next

-----------------------------------------------------------------------------
(* The factor and the password *)

LEMMA Pops ==
  /\ \A a : <<a>> # <<>> /\ Head(<<a>>) = a /\ Tail(<<a>>) = <<>>
  /\ \A a, b : <<a, b>> # <<>> /\ Head(<<a, b>>) = a /\ Tail(<<a, b>>) = <<b>>
  /\ \A a, b, c : /\ <<a, b, c>> # <<>> /\ Head(<<a, b, c>>) = a
                  /\ Tail(<<a, b, c>>) = <<b, c>>
<1>1. ASSUME NEW a PROVE <<a>> # <<>> /\ Head(<<a>>) = a /\ Tail(<<a>>) = <<>>
  OBVIOUS
<1>2. ASSUME NEW a, NEW b PROVE <<a, b>> # <<>> /\ Head(<<a, b>>) = a /\ Tail(<<a, b>>) = <<b>>
  OBVIOUS
<1>3. ASSUME NEW a, NEW b, NEW c
      PROVE <<a, b, c>> # <<>> /\ Head(<<a, b, c>>) = a /\ Tail(<<a, b, c>>) = <<b, c>>
  OBVIOUS
<1> QED BY <1>1, <1>2, <1>3

SameButRow == copy' = copy /\ pw' = pw
SameButCopy == row' = row /\ pw' = pw
SameButPw == row' = row /\ copy' = copy

\* What writing w does, when `rest` comes after it.
LEMMA Effect ==
  ASSUME TypeOK, NEW t \in Tabs, Write(t), NEW w, NEW rest,
         Head(tab[t].todo) = w, Tail(tab[t].todo) = rest
  PROVE  /\ proved' = proved /\ hist' = hist
         /\ \A u \in Tabs : u # t => tab'[u] = tab[u]
         /\ rest = <<>> => tab'[t] = Idle
         /\ rest # <<>> => tab'[t].route = tab[t].route /\ tab'[t].todo = rest
         /\ \A f : w = Put("row", f) => row' = f /\ SameButRow
         /\ \A s \in Secrets \cup {None} :
              w = Put("secret", s) => row'.secret = s /\ row'.on = row.on /\ SameButRow
         /\ \A b \in BOOLEAN :
              w = Put("on", b) => row'.secret = row.secret /\ row'.on = b /\ SameButRow
         /\ \A b \in BOOLEAN :
              w = Put("copy_on", b) => copy'.secret = copy.secret /\ copy'.on = b /\ SameButCopy
         /\ \A s \in Secrets \cup {None} :
              w = Put("copy_secret", s) => copy'.secret = s /\ copy'.on = copy.on /\ SameButCopy
         /\ \A n \in 0..MaxRequests : w = Put("hash", n) => pw'.hash = n /\ SameButPw
         /\ \A n \in 0..MaxRequests :
              w = Put("salt", n) => pw'.salt = n /\ pw'.hash = pw.hash /\ SameButPw
         /\ w.put \in {"fail", "clear"} => row' = row /\ SameButRow
<1>1. \A x, y : Put(x, y).put = x /\ Put(x, y).as = y
  BY PutIs
<1>2. /\ w.put = "row" => row' = w.as
      /\ w.put = "secret" => row' = [row EXCEPT !.secret = w.as]
      /\ w.put = "on" => row' = [row EXCEPT !.on = w.as]
      /\ w.put \notin {"row", "secret", "on"} => row' = row
      /\ w.put = "copy_on" => copy' = [copy EXCEPT !.on = w.as]
      /\ w.put = "copy_secret" => copy' = [copy EXCEPT !.secret = w.as]
      /\ w.put \notin {"copy_on", "copy_secret"} => copy' = copy
      /\ w.put = "hash" => pw' = [pw EXCEPT !.hash = w.as]
      /\ w.put = "salt" => pw' = [pw EXCEPT !.salt = w.as]
      /\ w.put \notin {"hash", "salt"} => pw' = pw
      /\ UNCHANGED <<minted, proved, left, crashes, hist>>
  BY Written
<1>3. /\ \A u \in Tabs : u # t => tab'[u] = tab[u]
      /\ rest = <<>> => tab'[t] = Idle
      /\ rest # <<>> => tab'[t].route = tab[t].route /\ tab'[t].todo = rest
  BY WriteIs
<1>4. row \in Factor /\ copy \in Factor /\ pw \in [hash : 0..MaxRequests, salt : 0..MaxRequests]
  BY DEF TypeOK
<1>5. ASSUME NEW f, w = Put("row", f) PROVE row' = f /\ SameButRow
  BY <1>1, <1>2, <1>5 DEF SameButRow
<1>6. ASSUME NEW s \in Secrets \cup {None}, w = Put("secret", s)
      PROVE row'.secret = s /\ row'.on = row.on /\ SameButRow
  <2>1. row' = [row EXCEPT !.secret = s] /\ SameButRow
    BY <1>1, <1>2, <1>6 DEF SameButRow
  <2> QED BY <2>1, <1>4, FactorType
<1>7. ASSUME NEW b \in BOOLEAN, w = Put("on", b)
      PROVE row'.secret = row.secret /\ row'.on = b /\ SameButRow
  <2>1. row' = [row EXCEPT !.on = b] /\ SameButRow
    BY <1>1, <1>2, <1>7 DEF SameButRow
  <2> QED BY <2>1, <1>4, FactorType
<1>8. ASSUME NEW b \in BOOLEAN, w = Put("copy_on", b)
      PROVE copy'.secret = copy.secret /\ copy'.on = b /\ SameButCopy
  <2>1. copy' = [copy EXCEPT !.on = b] /\ SameButCopy
    BY <1>1, <1>2, <1>8 DEF SameButCopy
  <2> QED BY <2>1, <1>4, FactorType
<1>9. ASSUME NEW s \in Secrets \cup {None}, w = Put("copy_secret", s)
      PROVE copy'.secret = s /\ copy'.on = copy.on /\ SameButCopy
  <2>1. copy' = [copy EXCEPT !.secret = s] /\ SameButCopy
    BY <1>1, <1>2, <1>9 DEF SameButCopy
  <2> QED BY <2>1, <1>4, FactorType
<1>10. ASSUME NEW n \in 0..MaxRequests, w = Put("hash", n) PROVE pw'.hash = n /\ SameButPw
  <2>1. pw' = [pw EXCEPT !.hash = n] /\ SameButPw
    BY <1>1, <1>2, <1>10 DEF SameButPw
  <2> QED BY <2>1, <1>4
<1>11. ASSUME NEW n \in 0..MaxRequests, w = Put("salt", n)
       PROVE pw'.salt = n /\ pw'.hash = pw.hash /\ SameButPw
  <2>1. pw' = [pw EXCEPT !.salt = n] /\ SameButPw
    BY <1>1, <1>2, <1>11 DEF SameButPw
  <2> QED BY <2>1, <1>4
<1>12. w.put \in {"fail", "clear"} => row' = row /\ SameButRow
  BY <1>2 DEF SameButRow
<1> QED BY <1>2, <1>3, <1>5, <1>6, <1>7, <1>8, <1>9, <1>10, <1>11, <1>12

\* A change after one of its writes.
FitsAfter(t) == IF tab'[t].route \in {None, "login"} THEN Settled' ELSE Midway(t)'
AskedKept == Asked # None => Asked' = Asked
OffAtLast(t) == tab'[t] = Idle => Asked' = None

LEMMA Secretive ==
  ASSUME TypeOK
  PROVE  /\ None \notin proved /\ proved \subseteq Secrets /\ Idle.route = None
         /\ NoFactor.secret = None /\ NoFactor.on = FALSE
         /\ \A r \in Routes : r # None
BY IdleIs DEF TypeOK, NoFactor

LEMMA StartWritten ==
  ASSUME TypeOK, NEW t \in Tabs, Write(t), Starting(t)
  PROVE  FitsAfter(t) /\ (AskedKept \/ Hides(t))
<1>1. PICK s \in Secrets : tab[t].todo = <<Put("secret", s)>>
  BY DEF Starting
<1>2. Head(tab[t].todo) = Put("secret", s) /\ Tail(tab[t].todo) = <<>>
  BY <1>1, Pops
<1>3. /\ proved' = proved /\ hist' = hist /\ tab'[t] = Idle
      /\ row'.secret = s /\ row'.on = row.on /\ SameButRow
  BY <1>2, Effect
<1>4. Settled /\ ~row.on
  BY DEF Starting
<1>5. Settled'
  BY <1>3, <1>4, IdleIs DEF Settled, PasswordFits, FactorFits, SameButRow
<1>6. AskedKept \/ Hides(t)
  <2>1. Asked # None => row.secret = None
    BY <1>4 DEF Asked
  <2>2. row.secret = None => Hides(t)
    BY DEF Starting, Hides, Write
  <2> QED BY <2>1, <2>2 DEF AskedKept
<1> QED BY <1>3, <1>5, <1>6, Secretive DEF FitsAfter

LEMMA EnableWritten ==
  ASSUME TypeOK, NEW t \in Tabs, Write(t), Enabling(t)
  PROVE  FitsAfter(t) /\ AskedKept
<1>1. Head(tab[t].todo) = Put("on", TRUE) /\ Tail(tab[t].todo) = <<>>
  BY Pops DEF Enabling
<1>2. /\ proved' = proved /\ hist' = hist /\ tab'[t] = Idle
      /\ row'.secret = row.secret /\ row'.on = TRUE /\ SameButRow
  BY <1>1, Effect
<1>3. Settled /\ row.secret \in proved /\ row.secret # None
  BY Secretive DEF Enabling
<1>4. Settled'
  BY <1>2, <1>3 DEF Settled, PasswordFits, FactorFits, SameButRow
<1>5. AskedKept
  BY <1>2, <1>3 DEF AskedKept, Asked
<1> QED BY <1>2, <1>4, <1>5, Secretive DEF FitsAfter

LEMMA DisableWritten ==
  ASSUME TypeOK, NEW t \in Tabs, Write(t), Disabling(t)
  PROVE  FitsAfter(t) /\ OffAtLast(t)
<1> DEFINE a == Put("row", NoFactor)
           b == Put("copy_on", FALSE)
           c == Put("copy_secret", None)
           s == <<a, b, c>>
           u == <<b, c>>
           v == <<c>>
<1>1. /\ tab[t].route = "disable" /\ PasswordFits
      /\ \/ tab[t].todo = s /\ Settled
         \/ tab[t].todo = u /\ row = NoFactor
         \/ tab[t].todo = v /\ row = NoFactor /\ ~copy.on
  BY DEF Disabling
<1>2. /\ PasswordFits' /\ tab'[t].route = "disable" /\ tab'[t].todo = u /\ row' = NoFactor
           => Disabling(t)'
      /\ PasswordFits' /\ tab'[t].route = "disable" /\ tab'[t].todo = v /\ row' = NoFactor /\ ~copy'.on
           => Disabling(t)'
  BY DEF Disabling
<1>3. Disabling(t)' /\ tab'[t].route = "disable" => FitsAfter(t)
  BY Secretive DEF FitsAfter, Midway, Routes
<1> HIDE DEF a, b, c
<1>4. /\ u # <<>> /\ v # <<>> /\ Head(s) = a /\ Tail(s) = u /\ Head(u) = b /\ Tail(u) = v
      /\ Head(v) = c /\ Tail(v) = <<>>
  BY Pops
<1>8. tab'[t].todo = u \/ tab'[t].todo = v => OffAtLast(t)
  BY <1>4, IdleIs DEF OffAtLast
<1> HIDE DEF s, u, v
<1>5. CASE tab[t].todo = s /\ Settled
  <2>1. Head(tab[t].todo) = a /\ Tail(tab[t].todo) = u
    BY <1>4, <1>5
  <2>2. tab'[t].route = tab[t].route /\ tab'[t].todo = u
    BY <1>4, <2>1, Effect
  <2>3. row' = NoFactor /\ SameButRow
    BY <2>1, Effect DEF a
  <2> QED BY <1>1, <1>2, <1>3, <1>8, <2>2, <2>3 DEF PasswordFits, SameButRow
<1>6. CASE tab[t].todo = u /\ row = NoFactor
  <2>1. Head(tab[t].todo) = b /\ Tail(tab[t].todo) = v
    BY <1>4, <1>6
  <2>2. tab'[t].route = tab[t].route /\ tab'[t].todo = v
    BY <1>4, <2>1, Effect
  <2>3. copy'.on = FALSE /\ SameButCopy
    BY <2>1, Effect DEF b
  <2> QED BY <1>1, <1>2, <1>3, <1>6, <1>8, <2>2, <2>3 DEF PasswordFits, SameButCopy
<1>7. CASE tab[t].todo = v /\ row = NoFactor /\ ~copy.on
  <2>1. Head(tab[t].todo) = c /\ Tail(tab[t].todo) = <<>>
    BY <1>4, <1>7
  <2>2. tab'[t] = Idle
    BY <2>1, Effect
  <2>3. copy'.on = copy.on /\ SameButCopy
    BY <2>1, Effect DEF c
  <2>4. Settled'
    BY <1>1, <1>7, <2>3, Secretive DEF Settled, PasswordFits, FactorFits, SameButCopy
  <2>5. OffAtLast(t)
    BY <1>7, <2>3, Secretive DEF OffAtLast, Asked, SameButCopy
  <2> QED BY <2>2, <2>4, <2>5, Secretive DEF FitsAfter
<1> QED BY <1>1, <1>5, <1>6, <1>7

LEMMA OldStartWritten ==
  ASSUME TypeOK, NEW t \in Tabs, Write(t), OldStarting(t)
  PROVE  FitsAfter(t) /\ AskedKept
<1>1. PICK x \in Secrets : \/ tab[t].todo = <<Put("copy_secret", x), Put("secret", x)>>
                           \/ tab[t].todo = <<Put("secret", x)>>
  BY DEF OldStarting
<1> DEFINE a == Put("copy_secret", x)
           b == Put("secret", x)
           s == <<a, b>>
           u == <<b>>
<1>2. tab[t].route = "old_start" /\ Settled /\ ~row.on /\ ~copy.on /\ (tab[t].todo = s \/ tab[t].todo = u)
  BY <1>1 DEF OldStarting
<1>3. /\ Settled' /\ tab'[t].route = "old_start" /\ tab'[t].todo = u /\ ~row'.on /\ ~copy'.on
           => OldStarting(t)'
  BY DEF OldStarting
<1>4. OldStarting(t)' /\ tab'[t].route = "old_start" => FitsAfter(t)
  BY Secretive DEF FitsAfter, Midway, Routes
<1> HIDE DEF a, b
<1>5. u # <<>> /\ Head(s) = a /\ Tail(s) = u /\ Head(u) = b /\ Tail(u) = <<>>
  BY Pops
<1> HIDE DEF s, u
<1>6. CASE tab[t].todo = s
  <2>1. Head(tab[t].todo) = a /\ Tail(tab[t].todo) = u
    BY <1>5, <1>6
  <2>2. tab'[t].route = tab[t].route /\ tab'[t].todo = u /\ proved' = proved /\ hist' = hist
    BY <1>5, <2>1, Effect
  <2>3. copy'.secret = x /\ copy'.on = copy.on /\ SameButCopy
    BY <2>1, Effect DEF a
  <2>4. Settled'
    BY <1>2, <2>2, <2>3 DEF Settled, PasswordFits, FactorFits, SameButCopy
  <2>5. AskedKept
    BY <1>2, <2>3 DEF AskedKept, Asked, SameButCopy
  <2> QED BY <1>2, <1>3, <1>4, <2>2, <2>3, <2>4, <2>5 DEF SameButCopy
<1>7. CASE tab[t].todo = u
  <2>1. Head(tab[t].todo) = b /\ Tail(tab[t].todo) = <<>>
    BY <1>5, <1>7
  <2>2. tab'[t] = Idle /\ proved' = proved /\ hist' = hist
    BY <2>1, Effect
  <2>3. row'.secret = x /\ row'.on = row.on /\ SameButRow
    BY <2>1, Effect DEF b
  <2>4. Settled'
    BY <1>2, <2>2, <2>3 DEF Settled, PasswordFits, FactorFits, SameButRow
  <2>5. AskedKept
    BY <1>2, <2>3 DEF AskedKept, Asked
  <2> QED BY <2>2, <2>4, <2>5, Secretive DEF FitsAfter
<1> QED BY <1>2, <1>6, <1>7

LEMMA OldEnableWritten ==
  ASSUME TypeOK, NEW t \in Tabs, Write(t), OldEnabling(t)
  PROVE  FitsAfter(t) /\ AskedKept
<1>1. PICK x \in proved :
        /\ Same(x)
        /\ \/ /\ tab[t].todo = <<Put("copy_on", TRUE), Put("row", [secret |-> x, on |-> TRUE])>>
              /\ Settled
           \/ tab[t].todo = <<Put("row", [secret |-> x, on |-> TRUE])>> /\ copy.on
  BY DEF OldEnabling
<1> DEFINE f == [secret |-> x, on |-> TRUE]
           a == Put("copy_on", TRUE)
           b == Put("row", f)
           s == <<a, b>>
           u == <<b>>
<1>2. /\ tab[t].route = "old_enable" /\ PasswordFits /\ FactorFits /\ Same(x)
      /\ (tab[t].todo = s /\ Settled) \/ (tab[t].todo = u /\ copy.on)
  <2>1. tab[t].route = "old_enable" /\ PasswordFits /\ FactorFits
    BY DEF OldEnabling
  <2> QED BY <1>1, <2>1
<1>3. /\ PasswordFits' /\ FactorFits' /\ tab'[t].route = "old_enable" /\ tab'[t].todo = u /\ copy'.on
         /\ Same(x)' /\ x \in proved'
           => OldEnabling(t)'
  BY DEF OldEnabling
<1>4. OldEnabling(t)' /\ tab'[t].route = "old_enable" => FitsAfter(t)
  BY Secretive DEF FitsAfter, Midway, Routes
<1>5. f.secret = x /\ f.on = TRUE /\ x # None
  BY Secretive
<1> HIDE DEF f, a, b
<1>6. u # <<>> /\ Head(s) = a /\ Tail(s) = u /\ Head(u) = b /\ Tail(u) = <<>>
  BY Pops
<1> HIDE DEF s, u
<1>7. CASE tab[t].todo = s /\ Settled
  <2>1. Head(tab[t].todo) = a /\ Tail(tab[t].todo) = u
    BY <1>6, <1>7
  <2>2. tab'[t].route = tab[t].route /\ tab'[t].todo = u /\ proved' = proved /\ hist' = hist
    BY <1>6, <2>1, Effect
  <2>3. copy'.secret = copy.secret /\ copy'.on = TRUE /\ SameButCopy
    BY <2>1, Effect DEF a
  <2>4. PasswordFits' /\ FactorFits' /\ Same(x)'
    BY <1>2, <2>2, <2>3 DEF PasswordFits, FactorFits, Same, SameButCopy
  <2>5. AskedKept
    BY <1>7, <2>3 DEF AskedKept, Asked, SameButCopy, Settled
  <2> QED BY <1>2, <1>3, <1>4, <2>2, <2>3, <2>4, <2>5
<1>8. CASE tab[t].todo = u /\ copy.on
  <2>1. Head(tab[t].todo) = b /\ Tail(tab[t].todo) = <<>>
    BY <1>6, <1>8
  <2>2. tab'[t] = Idle /\ proved' = proved /\ hist' = hist
    BY <2>1, Effect
  <2>3. row' = f /\ SameButRow
    <3>1. Head(tab[t].todo) = Put("row", f)
      BY <2>1 DEF b
    <3> QED BY <3>1, Effect
  <2>4. Settled'
    BY <1>2, <1>5, <2>2, <2>3 DEF Settled, PasswordFits, FactorFits, SameButRow
  <2>5. AskedKept
    BY <1>2, <1>5, <1>8, <2>3 DEF AskedKept, Asked, Same
  <2> QED BY <2>2, <2>4, <2>5, Secretive DEF FitsAfter
<1> QED BY <1>2, <1>7, <1>8

LEMMA OldDisableWritten ==
  ASSUME TypeOK, NEW t \in Tabs, Write(t), OldDisabling(t)
  PROVE  FitsAfter(t) /\ OffAtLast(t)
<1> DEFINE a == Put("copy_on", FALSE)
           b == Put("copy_secret", None)
           c == Put("row", NoFactor)
           s == <<a, b, c>>
           u == <<b, c>>
           v == <<c>>
<1>1. /\ tab[t].route = "old_disable" /\ Settled
      /\ tab[t].todo = s \/ (tab[t].todo = u /\ ~copy.on) \/ (tab[t].todo = v /\ ~copy.on)
  BY DEF OldDisabling
<1>2. /\ Settled' /\ tab'[t].route = "old_disable" /\ (tab'[t].todo = u \/ tab'[t].todo = v) /\ ~copy'.on
           => OldDisabling(t)'
  BY DEF OldDisabling
<1>3. OldDisabling(t)' /\ tab'[t].route = "old_disable" => FitsAfter(t)
  BY Secretive DEF FitsAfter, Midway, Routes
<1> HIDE DEF a, b, c
<1>4. /\ u # <<>> /\ v # <<>> /\ Head(s) = a /\ Tail(s) = u /\ Head(u) = b /\ Tail(u) = v
      /\ Head(v) = c /\ Tail(v) = <<>>
  BY Pops
<1>8. tab'[t].todo = u \/ tab'[t].todo = v => OffAtLast(t)
  BY <1>4, IdleIs DEF OffAtLast
<1> HIDE DEF s, u, v
<1>5. CASE tab[t].todo = s
  <2>1. Head(tab[t].todo) = a /\ Tail(tab[t].todo) = u
    BY <1>4, <1>5
  <2>2. tab'[t].route = tab[t].route /\ tab'[t].todo = u /\ proved' = proved /\ hist' = hist
    BY <1>4, <2>1, Effect
  <2>3. copy'.on = FALSE /\ SameButCopy
    BY <2>1, Effect DEF a
  <2>4. Settled'
    BY <1>1, <2>2, <2>3 DEF Settled, PasswordFits, FactorFits, SameButCopy
  <2> QED BY <1>1, <1>2, <1>3, <1>8, <2>2, <2>3, <2>4
<1>6. CASE tab[t].todo = u /\ ~copy.on
  <2>1. Head(tab[t].todo) = b /\ Tail(tab[t].todo) = v
    BY <1>4, <1>6
  <2>2. tab'[t].route = tab[t].route /\ tab'[t].todo = v /\ proved' = proved /\ hist' = hist
    BY <1>4, <2>1, Effect
  <2>3. copy'.on = copy.on /\ SameButCopy
    BY <2>1, Effect DEF b
  <2>4. Settled'
    BY <1>1, <1>6, <2>2, <2>3 DEF Settled, PasswordFits, FactorFits, SameButCopy
  <2> QED BY <1>1, <1>2, <1>3, <1>6, <1>8, <2>2, <2>3, <2>4
<1>7. CASE tab[t].todo = v /\ ~copy.on
  <2>1. Head(tab[t].todo) = c /\ Tail(tab[t].todo) = <<>>
    BY <1>4, <1>7
  <2>2. tab'[t] = Idle
    BY <2>1, Effect
  <2>3. row' = NoFactor /\ SameButRow
    <3>1. Head(tab[t].todo) = Put("row", NoFactor)
      BY <2>1 DEF c
    <3> QED BY <3>1, Effect
  <2>4. Settled'
    BY <1>1, <1>7, <2>3, Secretive DEF Settled, PasswordFits, FactorFits, SameButRow
  <2>5. OffAtLast(t)
    BY <1>7, <2>3, Secretive DEF OffAtLast, Asked, SameButRow
  <2> QED BY <2>2, <2>4, <2>5, Secretive DEF FitsAfter
<1> QED BY <1>1, <1>5, <1>6, <1>7

LEMMA PasswordWritten ==
  ASSUME TypeOK, NEW t \in Tabs, Write(t), NewPassword(t)
  PROVE  FitsAfter(t) /\ AskedKept
<1>1. PICK n \in 0..MaxRequests :
        \/ tab[t].todo = <<Put("hash", n), Put("salt", n)>> /\ PasswordFits
        \/ tab[t].todo = <<Put("salt", n)>> /\ pw.hash = n
  BY DEF NewPassword
<1> DEFINE a == Put("hash", n)
           b == Put("salt", n)
           s == <<a, b>>
           u == <<b>>
           Rest == FactorFits
<1>2. /\ tab[t].route = "password" /\ Rest
      /\ tab[t].todo = s \/ (tab[t].todo = u /\ pw.hash = n)
  BY <1>1 DEF NewPassword
<1>3. tab'[t].route = "password" /\ Rest' /\ tab'[t].todo = u /\ pw'.hash = n => NewPassword(t)'
  BY DEF NewPassword
<1>4. NewPassword(t)' /\ tab'[t].route = "password" => FitsAfter(t)
  BY Secretive DEF FitsAfter, Midway, Routes
<1>5. SameButPw /\ proved' = proved /\ hist' = hist => Rest' /\ AskedKept
  BY <1>2 DEF FactorFits, SameButPw, AskedKept, Asked
<1>6. Rest' /\ pw'.hash = pw'.salt => Settled'
  BY DEF Settled, PasswordFits
<1> HIDE DEF a, b, Rest
<1>7. u # <<>> /\ Head(s) = a /\ Tail(s) = u /\ Head(u) = b /\ Tail(u) = <<>>
  BY Pops
<1> HIDE DEF s, u
<1>8. CASE tab[t].todo = s
  <2>1. Head(tab[t].todo) = a /\ Tail(tab[t].todo) = u
    BY <1>7, <1>8
  <2>2. tab'[t].route = tab[t].route /\ tab'[t].todo = u /\ proved' = proved /\ hist' = hist
    BY <1>7, <2>1, Effect
  <2>3. pw'.hash = n /\ SameButPw
    BY <2>1, Effect DEF a
  <2> QED BY <1>2, <1>3, <1>4, <1>5, <2>2, <2>3
<1>9. CASE tab[t].todo = u /\ pw.hash = n
  <2>1. Head(tab[t].todo) = b /\ Tail(tab[t].todo) = <<>>
    BY <1>7, <1>9
  <2>2. tab'[t] = Idle /\ proved' = proved /\ hist' = hist
    BY <2>1, Effect
  <2>3. pw'.salt = n /\ pw'.hash = pw.hash /\ SameButPw
    BY <2>1, Effect DEF b
  <2> QED BY <1>5, <1>6, <1>9, <2>2, <2>3, Secretive DEF FitsAfter
<1> QED BY <1>2, <1>8, <1>9

\* What a request that changes nothing leaves as it was.
LEMMA Untouched ==
  ASSUME NEW u \in Tabs, tab'[u] = tab[u], row' = row, copy' = copy, pw' = pw,
         proved \subseteq proved'
  PROVE  (Settled => Settled') /\ (Midway(u) => Midway(u)')
<1>1. Settled => Settled'
  BY DEF Settled, PasswordFits, FactorFits
<1>2. (PasswordFits => PasswordFits') /\ (FactorFits => FactorFits')
  BY DEF PasswordFits, FactorFits
<1>3. (Waiting(u) => Waiting(u)') /\ (Starting(u) => Starting(u)') /\ (Enabling(u) => Enabling(u)')
  BY <1>1 DEF Waiting, Starting, Enabling
<1>4. Disabling(u) => Disabling(u)'
  BY <1>1, <1>2 DEF Disabling
<1>5. OldStarting(u) => OldStarting(u)'
  BY <1>1 DEF OldStarting
<1>6. OldEnabling(u) => OldEnabling(u)'
  <2> SUFFICES ASSUME OldEnabling(u) PROVE OldEnabling(u)'
    OBVIOUS
  <2>1. PICK s \in proved :
          /\ Same(s)
          /\ \/ /\ tab[u].todo = <<Put("copy_on", TRUE), Put("row", [secret |-> s, on |-> TRUE])>>
                /\ Settled
             \/ tab[u].todo = <<Put("row", [secret |-> s, on |-> TRUE])>> /\ copy.on
    BY DEF OldEnabling
  <2>2. s \in proved' /\ Same(s)'
    BY <2>1 DEF Same
  <2> QED BY <1>1, <1>2, <2>1, <2>2 DEF OldEnabling
<1>7. OldDisabling(u) => OldDisabling(u)'
  BY <1>1 DEF OldDisabling
<1>8. NewPassword(u) => NewPassword(u)'
  BY <1>2 DEF NewPassword, PasswordFits
<1> QED BY <1>1, <1>3, <1>4, <1>5, <1>6, <1>7, <1>8 DEF Midway

LEMMA OtherFactor ==
  ASSUME FactorInv, NEW t \in Tabs, ~Changing(t), ~Changing(t)',
         \A u \in Tabs : u # t => tab'[u] = tab[u],
         row' = row, copy' = copy, pw' = pw, proved \subseteq proved',
         hist'.changes = hist.changes, hist'.cut = hist.cut
  PROVE  FactorInv'
<1> SUFFICES ASSUME ~hist'.changes, ~hist'.cut
             PROVE  /\ \A u, v \in Tabs : Changing(u)' /\ Changing(v)' => u = v
                    /\ (\A u \in Tabs : ~Changing(u)') => Settled'
                    /\ \A u \in Tabs : Changing(u)' => Midway(u)'
  BY DEF FactorInv
<1>1. /\ \A u, v \in Tabs : Changing(u) /\ Changing(v) => u = v
      /\ (\A u \in Tabs : ~Changing(u)) => Settled
      /\ \A u \in Tabs : Changing(u) => Midway(u)
  BY DEF FactorInv
<1>2. \A u \in Tabs : Changing(u)' <=> Changing(u)
  BY DEF Changing
<1>3. Settled => Settled'
  BY DEF Settled, PasswordFits, FactorFits
<1>4. ASSUME NEW u \in Tabs, Changing(u)' PROVE Midway(u)'
  <2>1. u # t /\ tab'[u] = tab[u] /\ Midway(u)
    BY <1>1, <1>2, <1>4
  <2> QED BY <2>1, Untouched
<1> QED BY <1>1, <1>2, <1>3, <1>4

LEMMA ChangerFactor ==
  ASSUME FactorInv, NEW t \in Tabs, \A u \in Tabs : u # t => tab'[u] = tab[u],
         ~hist'.changes /\ ~hist'.cut =>
           /\ ~hist.changes /\ ~hist.cut
           /\ Changing(t) \/ \A u \in Tabs : ~Changing(u)
           /\ FitsAfter(t)
  PROVE  FactorInv'
<1> SUFFICES ASSUME ~hist'.changes, ~hist'.cut
             PROVE  /\ \A u, v \in Tabs : Changing(u)' /\ Changing(v)' => u = v
                    /\ (\A u \in Tabs : ~Changing(u)') => Settled'
                    /\ \A u \in Tabs : Changing(u)' => Midway(u)'
  BY DEF FactorInv
<1>1. \A u \in Tabs : u # t => ~Changing(u)
  BY DEF FactorInv
<1>2. \A u \in Tabs : Changing(u)' => u = t
  BY <1>1 DEF Changing
<1>3. (~Changing(t)' => Settled') /\ (Changing(t)' => Midway(t)')
  BY DEF FitsAfter, Changing
<1> QED BY <1>2, <1>3

\* A write of a change, in every route.
LEMMA ChangeWritten ==
  ASSUME TypeOK, NEW t \in Tabs, Write(t), Midway(t)
  PROVE  /\ FitsAfter(t) /\ (AskedKept \/ Disables(t) \/ Hides(t))
         /\ Disables(t) => OffAtLast(t)
<1>1. tab[t].todo # <<>>
  BY DEF Write
<1>2. ~Waiting(t)
  BY <1>1 DEF Waiting
<1>3. CASE Starting(t)
  <2>1. ~Disables(t)
    BY <1>3 DEF Starting, Disables
  <2> QED BY <1>3, <2>1, StartWritten
<1>4. CASE Enabling(t)
  <2>1. ~Disables(t)
    BY <1>4 DEF Enabling, Disables
  <2> QED BY <1>4, <2>1, EnableWritten
<1>5. CASE Disabling(t)
  <2>1. Disables(t)
    BY <1>1, <1>5 DEF Disabling, Disables
  <2> QED BY <1>5, <2>1, DisableWritten
<1>6. CASE OldStarting(t)
  <2>1. ~Disables(t)
    BY <1>6 DEF OldStarting, Disables
  <2> QED BY <1>6, <2>1, OldStartWritten
<1>7. CASE OldEnabling(t)
  <2>1. ~Disables(t)
    BY <1>7 DEF OldEnabling, Disables
  <2> QED BY <1>7, <2>1, OldEnableWritten
<1>8. CASE OldDisabling(t)
  <2>1. Disables(t)
    BY <1>1, <1>8 DEF OldDisabling, Disables
  <2> QED BY <1>8, <2>1, OldDisableWritten
<1>9. CASE NewPassword(t)
  <2>1. ~Disables(t)
    BY <1>9 DEF NewPassword, Disables
  <2> QED BY <1>9, <2>1, PasswordWritten
<1> QED BY <1>2, <1>3, <1>4, <1>5, <1>6, <1>7, <1>8, <1>9 DEF Midway

\* A write of a sign-in counts, and touches neither factor nor password.
LEMMA SignInWritten ==
  ASSUME TypeOK, RequestsOK, NEW t \in Tabs, Write(t), ~Changing(t)
  PROVE  /\ row' = row /\ copy' = copy /\ pw' = pw /\ proved' = proved /\ hist' = hist
         /\ ~Changing(t)' /\ \A u \in Tabs : u # t => tab'[u] = tab[u]
<1> DEFINE place == tab[t].from
           s == tab[t].todo
           w == Head(s)
<1>1. tab[t].todo # <<>> /\ tab[t].route = "login"
  BY IdleIs DEF Write, Changing, RequestsOK, RequestOK
<1>2. place \in Places /\ s \in {Failure(place), <<Put("fail", Global)>>, <<Put("clear", place)>>}
  BY <1>1 DEF RequestsOK, RequestOK
<1>3. w \in {Put("fail", place), Put("fail", Global), Put("clear", place)}
  BY <1>2, LoginTodo
<1>4. w.put \in {"fail", "clear"}
  <2> HIDE DEF w
  <2> QED BY <1>3, PutIs
<1>5. /\ row' = row /\ SameButRow /\ proved' = proved /\ hist' = hist
      /\ \A u \in Tabs : u # t => tab'[u] = tab[u]
      /\ Tail(s) = <<>> => tab'[t] = Idle
      /\ Tail(s) # <<>> => tab'[t].route = tab[t].route
  BY <1>4, Effect
<1>6. ~Changing(t)'
  BY <1>1, <1>5, IdleIs DEF Changing
<1> QED BY <1>5, <1>6 DEF SameButRow

\* A change that writes nothing yet has only arrived; one that does may be cut, and then
\* what has been written is in order, if it was not the password or disable_my_2fa.
LEMMA OnlyArrived ==
  ASSUME NEW t \in Tabs, Midway(t), tab[t].todo = <<>>
  PROVE  Waiting(t)
<1>1. ~Starting(t) /\ ~Enabling(t)
  BY Pops DEF Starting, Enabling
<1>2. ~Disabling(t) /\ ~OldDisabling(t)
  BY Pops DEF Disabling, OldDisabling
<1>3. ~OldStarting(t) /\ ~OldEnabling(t) /\ ~NewPassword(t)
  BY Pops DEF OldStarting, OldEnabling, NewPassword
<1> QED BY <1>1, <1>2, <1>3 DEF Midway

LEMMA StartFits ==
  ASSUME TypeOK, NEW t \in Tabs, StartsFactor(t), Waiting(t)
  PROVE  FitsAfter(t)
<1>1. /\ tab[t].route \in {"start", "old_start"} /\ tab \in [Tabs -> Requests]
      /\ row' = row /\ copy' = copy /\ pw' = pw /\ proved' = proved /\ hist' = hist
      /\ Settled /\ tab[t].mine = row
  BY DEF StartsFactor, Waiting, TypeOK
<1>2. Settled'
  BY <1>1 DEF Settled, PasswordFits, FactorFits
<1>3. CASE Refuses(t)
  <2>1. tab'[t] = Idle
    BY <1>1, <1>3, RefusalIs
  <2> QED BY <1>2, <2>1, Secretive DEF FitsAfter
<1>4. CASE ~Refuses(t)
  <2>1. ~row.on /\ (tab[t].route = "old_start" => ~copy.on)
    BY <1>1, <1>4 DEF StartsFactor, IsOn
  <2>2. PICK s \in Secrets : Answers(t, WritesOf(tab[t].route, s, 0))
    BY <1>4 DEF StartsFactor
  <2>3. 0 \in 0..MaxRequests
    BY ConstantsAssumption
  <2>4. WritesOf(tab[t].route, s, 0) \in Seq(Puts)
    BY <1>1, <2>3, WritesType DEF Routes
  <2>5. tab'[t].route = tab[t].route /\ tab'[t].todo = WritesOf(tab[t].route, s, 0)
    BY <1>1, <2>2, <2>4, AnswerIs
  <2>6. CASE tab[t].route = "start"
    <3>1. tab'[t].todo = <<Put("secret", s)>>
      BY <2>5, <2>6 DEF WritesOf, Start
    <3>2. Starting(t)'
      BY <1>1, <1>2, <2>1, <2>5, <2>6, <3>1 DEF Starting
    <3> QED BY <2>5, <2>6, <3>2, Secretive DEF FitsAfter, Midway, Routes
  <2>7. CASE tab[t].route = "old_start"
    <3>1. tab'[t].todo = <<Put("copy_secret", s), Put("secret", s)>>
      BY <2>5, <2>7 DEF WritesOf
    <3>2. OldStarting(t)'
      BY <1>1, <1>2, <2>1, <2>5, <2>7, <3>1 DEF OldStarting
    <3> QED BY <2>5, <2>7, <3>2, Secretive DEF FitsAfter, Midway, Routes
  <2> QED BY <1>1, <2>6, <2>7
<1> QED BY <1>3, <1>4

LEMMA EnableFits ==
  ASSUME TypeOK, NEW t \in Tabs, EnablesFactor(t), Waiting(t)
  PROVE  FitsAfter(t) /\ proved \subseteq proved'
<1> DEFINE mine == tab[t].mine.secret
           secret == IF tab[t].route = "old_enable" /\ mine = None THEN copy.secret ELSE mine
<1>1. /\ tab[t].route \in {"enable", "old_enable"} /\ tab \in [Tabs -> Requests]
      /\ row' = row /\ copy' = copy /\ pw' = pw /\ hist' = hist
      /\ Settled /\ tab[t].mine = row
  BY DEF EnablesFactor, Waiting, TypeOK
<1>2. \/ secret \in minted /\ proved' = proved \cup {secret} /\ Answers(t, WritesOf(tab[t].route, secret, 0))
      \/ Refuses(t) /\ proved' = proved
  BY Zenon DEF EnablesFactor
<1>3. (tab[t].route = "enable" => secret = row.secret) /\ (tab[t].route = "old_enable" => Same(secret))
  <2>1. tab[t].route = "enable" => secret = row.secret
    BY <1>1
  <2>2. tab[t].route = "old_enable" => secret = IF row.secret = None THEN copy.secret ELSE row.secret
    BY <1>1
  <2> HIDE DEF secret
  <2> QED BY <2>1, <2>2 DEF Same
<1> HIDE DEF secret
<1>4. proved \subseteq proved'
  BY <1>2
<1>5. Settled' /\ PasswordFits' /\ FactorFits'
  BY <1>1, <1>4 DEF Settled, PasswordFits, FactorFits
<1>6. CASE Refuses(t)
  <2>1. tab'[t] = Idle
    BY <1>1, <1>6, RefusalIs
  <2> QED BY <1>4, <1>5, <2>1, Secretive DEF FitsAfter
<1>7. CASE secret \in minted /\ proved' = proved \cup {secret} /\ Answers(t, WritesOf(tab[t].route, secret, 0))
  <2>1. secret \in Secrets /\ 0 \in 0..MaxRequests
    BY <1>7, ConstantsAssumption DEF TypeOK
  <2>2. WritesOf(tab[t].route, secret, 0) \in Seq(Puts)
    BY <1>1, <2>1, WritesType DEF Routes
  <2>3. tab'[t].route = tab[t].route /\ tab'[t].todo = WritesOf(tab[t].route, secret, 0)
    BY <1>1, <1>7, <2>2, AnswerIs
  <2>4. PICK s \in Secrets : s = secret
    BY <2>1
  <2>5. CASE tab[t].route = "enable"
    <3>1. tab'[t].todo = <<Put("on", TRUE)>>
      BY <2>3, <2>5 DEF WritesOf
    <3>2. row'.secret \in proved'
      BY <1>1, <1>3, <1>7, <2>5
    <3>3. Enabling(t)'
      BY <1>5, <2>3, <2>5, <3>1, <3>2 DEF Enabling
    <3> QED BY <1>4, <2>3, <2>5, <3>3, Secretive DEF FitsAfter, Midway, Routes
  <2>6. CASE tab[t].route = "old_enable"
    <3>1. tab'[t].todo = <<Put("copy_on", TRUE), Put("row", [secret |-> s, on |-> TRUE])>>
      BY <2>3, <2>4, <2>6 DEF WritesOf
    <3>2. Same(s)' /\ s \in proved'
      BY <1>1, <1>3, <1>7, <2>4, <2>6 DEF Same
    <3>3. OldEnabling(t)'
      BY <1>5, <2>3, <2>6, <3>1, <3>2 DEF OldEnabling
    <3> QED BY <1>4, <2>3, <2>6, <3>3, Secretive DEF FitsAfter, Midway, Routes
  <2> QED BY <1>1, <2>5, <2>6
<1> QED BY <1>2, <1>6, <1>7

LEMMA PasswordedFits ==
  ASSUME TypeOK, NEW t \in Tabs, WithPassword(t), Waiting(t)
  PROVE  FitsAfter(t)
<1> DEFINE n == MaxRequests - left
<1>1. /\ tab[t].route \in {"disable", "old_disable", "password"} /\ tab \in [Tabs -> Requests]
      /\ row' = row /\ copy' = copy /\ pw' = pw /\ proved' = proved /\ hist' = hist
      /\ Settled
      /\ Refuses(t) \/ Answers(t, WritesOf(tab[t].route, None, n))
  BY DEF WithPassword, Waiting, TypeOK
<1>2. Settled'
  BY <1>1 DEF Settled, PasswordFits, FactorFits
<1>3. n \in 0..MaxRequests
  BY ConstantsAssumption DEF TypeOK
<1> HIDE DEF n
<1>4. CASE Refuses(t)
  <2>1. tab'[t] = Idle
    BY <1>1, <1>4, RefusalIs
  <2> QED BY <1>2, <2>1, Secretive DEF FitsAfter
<1>5. CASE Answers(t, WritesOf(tab[t].route, None, n))
  <2>1. WritesOf(tab[t].route, None, n) \in Seq(Puts)
    BY <1>1, <1>3, WritesType DEF Routes
  <2>2. tab'[t].route = tab[t].route /\ tab'[t].todo = WritesOf(tab[t].route, None, n)
    BY <1>1, <1>5, <2>1, AnswerIs
  <2>3. CASE tab[t].route = "disable"
    <3>1. tab'[t].todo = <<Put("row", NoFactor), Put("copy_on", FALSE), Put("copy_secret", None)>>
      BY <2>2, <2>3 DEF WritesOf, Disable
    <3>2. Disabling(t)'
      BY <1>2, <2>2, <2>3, <3>1 DEF Disabling, Settled
    <3> QED BY <2>2, <2>3, <3>2, Secretive DEF FitsAfter, Midway, Routes
  <2>4. CASE tab[t].route = "old_disable"
    <3>1. tab'[t].todo = <<Put("copy_on", FALSE), Put("copy_secret", None), Put("row", NoFactor)>>
      BY <2>2, <2>4 DEF WritesOf
    <3>2. OldDisabling(t)'
      BY <1>2, <2>2, <2>4, <3>1 DEF OldDisabling
    <3> QED BY <2>2, <2>4, <3>2, Secretive DEF FitsAfter, Midway, Routes
  <2>5. CASE tab[t].route = "password"
    <3>1. tab'[t].todo = <<Put("hash", n), Put("salt", n)>>
      BY <2>2, <2>5 DEF WritesOf
    <3>2. NewPassword(t)'
      BY <1>2, <1>3, <2>2, <2>5, <3>1 DEF NewPassword, Settled
    <3> QED BY <2>2, <2>5, <3>2, Secretive DEF FitsAfter, Midway, Routes
  <2> QED BY <1>1, <2>3, <2>4, <2>5
<1> QED BY <1>1, <1>4, <1>5

LEMMA CrashFits ==
  ASSUME TypeOK, NEW t \in Tabs, Crash(t), Midway(t), ~hist'.cut
  PROVE  FitsAfter(t)
<1> DEFINE cutting == tab[t].route \in {"disable", "password"} /\ tab[t].todo # <<>>
<1>1. /\ row' = row /\ copy' = copy /\ pw' = pw /\ proved' = proved /\ Refuses(t)
      /\ tab \in [Tabs -> Requests]
  BY DEF Crash, TypeOK
<1>2. hist' = [hist EXCEPT !.cut = @ \/ cutting]
  BY DEF Crash
<1>3. tab'[t] = Idle
  BY <1>1, RefusalIs
<1>4. ~cutting
  <2> HIDE DEF cutting
  <2> QED BY <1>2 DEF TypeOK
<1>5. PasswordFits /\ FactorFits => Settled'
  BY <1>1 DEF Settled, PasswordFits, FactorFits
<1>6. ~Disabling(t) /\ ~NewPassword(t)
  BY <1>4, Pops DEF Disabling, NewPassword
<1>7. PasswordFits /\ FactorFits
  BY <1>6 DEF Midway, Waiting, Starting, Enabling, OldStarting, OldEnabling, OldDisabling, Settled
<1> QED BY <1>3, <1>5, <1>7, Secretive DEF FitsAfter

LEMMA ArrivesFactor ==
  ASSUME TypeOK, FactorInv, NEW t \in Tabs, Arrives(t)
  PROVE  FactorInv'
<1>1. PICK r \in Routes, place \in Places :
        /\ hist' = [hist EXCEPT !.logins = @ \/ (r = "login" /\ "login" \in ({tab[u].route : u \in Tabs} \ {None})),
                                !.changes = @ \/ (r # "login" /\ ({tab[u].route : u \in Tabs} \ {None}) \ {"login"} # {})]
        /\ tab' = [tab EXCEPT ![t] = [Idle EXCEPT !.route = r, !.mine = row,
                     !.from = IF r = "login" THEN place ELSE None]]
  BY DEF Arrives
<1> DEFINE f == IF r = "login" THEN place ELSE None
           e == [Idle EXCEPT !.route = r, !.mine = row, !.from = f]
<1>2. /\ tab' = [tab EXCEPT ![t] = e] /\ tab[t] = Idle
      /\ row' = row /\ copy' = copy /\ pw' = pw /\ proved' = proved
  BY <1>1 DEF Arrives
<1>3. f \in Places \cup {None} /\ row \in Factor
  BY DEF TypeOK
<1> HIDE DEF f
<1>4. e.route = r /\ e.mine = row /\ e.todo = <<>>
  BY <1>3, IdleIs DEF Requests
<1> HIDE DEF e
<1>5. tab'[t] = e /\ \A u \in Tabs : u # t => tab'[u] = tab[u]
  BY <1>2, <1>4 DEF TypeOK
<1>6. hist'.cut = hist.cut /\ ~Changing(t) /\ r # None
  BY <1>1, <1>2, IdleIs DEF TypeOK, Changing
<1>7. CASE r = "login"
  <2>1. hist'.changes = hist.changes
    BY <1>1, <1>7 DEF TypeOK
  <2>2. ~Changing(t)'
    BY <1>4, <1>5, <1>7 DEF Changing
  <2> QED BY <1>2, <1>5, <1>6, <2>1, <2>2, OtherFactor
<1>8. CASE r # "login"
  <2> SUFFICES ASSUME ~hist'.changes, ~hist'.cut
               PROVE  ~hist.changes /\ (\A u \in Tabs : ~Changing(u)) /\ FitsAfter(t)
    BY <1>5, <1>6, ChangerFactor
  <2>1. ~hist.changes /\ \A u \in Tabs : ~Changing(u)
    BY <1>1, <1>8 DEF TypeOK, Changing
  <2>2. Settled
    BY <1>6, <2>1 DEF FactorInv
  <2>3. Waiting(t)'
    BY <1>2, <1>4, <1>5, <1>6, <2>2 DEF Waiting, Settled, PasswordFits, FactorFits
  <2>4. tab'[t].route \notin {None, "login"}
    BY <1>4, <1>5, <1>6, <1>8
  <2> QED BY <2>1, <2>3, <2>4 DEF FitsAfter, Midway
<1> QED BY <1>7, <1>8

\* A tab that goes on with a change.
LEMMA ChangeOn ==
  ASSUME TypeOK, FactorInv, NEW t \in Tabs, Changing(t), \A u \in Tabs : u # t => tab'[u] = tab[u],
         hist' = hist, Midway(t) => FitsAfter(t)
  PROVE  FactorInv'
BY ChangerFactor DEF FactorInv

LEMMA FactorStep ==
  ASSUME TypeOK, RequestsOK, FactorInv, [Next]_vars
  PROVE  FactorInv'
<1>1. tab \in [Tabs -> Requests] /\ 0 \in 0..MaxRequests
  BY ConstantsAssumption DEF TypeOK
<1>2. CASE row' = row /\ copy' = copy /\ pw' = pw /\ tab' = tab /\ proved' = proved /\ hist' = hist
  <2>1. Settled => Settled'
    BY <1>2 DEF Settled, PasswordFits, FactorFits
  <2>2. \A u \in Tabs : (Changing(u)' <=> Changing(u)) /\ tab'[u] = tab[u]
    BY <1>2 DEF Changing
  <2>3. ASSUME NEW u \in Tabs, Midway(u) PROVE Midway(u)'
    BY <1>2, <2>2, <2>3, Untouched
  <2> QED BY <1>2, <2>1, <2>2, <2>3 DEF FactorInv
<1>3. ASSUME NEW t \in Tabs, StartsFactor(t) PROVE FactorInv'
  <2>1. Changing(t) /\ tab[t].todo = <<>> /\ hist' = hist
    BY <1>3, IdleIs DEF StartsFactor, Decides, Changing, Routes
  <2>2. \A u \in Tabs : u # t => tab'[u] = tab[u]
    BY <1>1, <1>3 DEF StartsFactor, Answers, Refuses
  <2> QED BY <1>3, <2>1, <2>2, OnlyArrived, StartFits, ChangeOn
<1>4. ASSUME NEW t \in Tabs, EnablesFactor(t) PROVE FactorInv'
  <2>1. Changing(t) /\ tab[t].todo = <<>> /\ hist' = hist
    BY <1>4, IdleIs DEF EnablesFactor, Decides, Changing, Routes
  <2>2. \A u \in Tabs : u # t => tab'[u] = tab[u]
    BY <1>1, <1>4 DEF EnablesFactor, Answers, Refuses
  <2> QED BY <1>4, <2>1, <2>2, OnlyArrived, EnableFits, ChangeOn
<1>5. ASSUME NEW t \in Tabs, WithPassword(t) PROVE FactorInv'
  <2>1. Changing(t) /\ tab[t].todo = <<>> /\ hist' = hist
    BY <1>5, IdleIs DEF WithPassword, Decides, Changing, Routes
  <2>2. \A u \in Tabs : u # t => tab'[u] = tab[u]
    BY <1>1, <1>5 DEF WithPassword, Answers, Refuses
  <2> QED BY <1>5, <2>1, <2>2, OnlyArrived, PasswordedFits, ChangeOn
<1>6. ASSUME NEW t \in Tabs, Login(t) PROVE FactorInv'
  <2>1. /\ ~Changing(t) /\ tab[t].route = "login" /\ row' = row /\ copy' = copy /\ pw' = pw /\ hist' = hist
        /\ proved \subseteq proved'
        /\ Refuses(t) \/ \E w \in {Failure(tab[t].from), <<Put("clear", tab[t].from)>>} : Answers(t, w)
    BY <1>6 DEF Login, Decides, Changing
  <2>2. tab[t].from \in Places
    BY <2>1 DEF RequestsOK, RequestOK
  <2>3. \A w \in {Failure(tab[t].from), <<Put("clear", tab[t].from)>>} : w \in Seq(Puts)
    BY <1>1, <2>2, WritesType
  <2>4. /\ \A u \in Tabs : u # t => tab'[u] = tab[u]
        /\ tab'[t] = Idle \/ tab'[t].route = "login"
    BY <1>1, <2>1, <2>3, RefusalIs, AnswerIs
  <2>5. ~Changing(t)'
    BY <2>4, IdleIs DEF Changing
  <2> QED BY <2>1, <2>4, <2>5, OtherFactor
<1>7. ASSUME NEW t \in Tabs, Write(t) PROVE FactorInv'
  <2>1. CASE Changing(t)
    <3>1. \A u \in Tabs : u # t => tab'[u] = tab[u]
      BY <1>7, WriteIs
    <3>2. hist' = hist
      BY <1>7, Written
    <3>3. Midway(t) => FitsAfter(t)
      BY <1>7, ChangeWritten
    <3> QED BY <2>1, <3>1, <3>2, <3>3, ChangeOn
  <2>2. CASE ~Changing(t)
    <3>1. /\ row' = row /\ copy' = copy /\ pw' = pw /\ proved' = proved /\ hist' = hist
          /\ ~Changing(t)' /\ \A u \in Tabs : u # t => tab'[u] = tab[u]
      BY <1>7, <2>2, SignInWritten
    <3> QED BY <2>2, <3>1, OtherFactor
  <2> QED BY <2>1, <2>2
<1>8. ASSUME NEW t \in Tabs, Crash(t) PROVE FactorInv'
  <2>1. /\ row' = row /\ copy' = copy /\ pw' = pw /\ proved' = proved /\ Refuses(t)
    BY <1>8 DEF Crash
  <2>2. tab'[t] = Idle /\ \A u \in Tabs : u # t => tab'[u] = tab[u]
    BY <1>1, <2>1, RefusalIs
  <2>3. hist'.changes = hist.changes /\ (~hist'.cut => ~hist.cut)
    BY <1>8 DEF Crash, TypeOK
  <2>4. CASE Changing(t)
    <3>1. ~hist'.changes /\ ~hist'.cut => Midway(t)
      BY <2>3, <2>4 DEF FactorInv
    <3> QED BY <1>8, <2>2, <2>3, <2>4, <3>1, CrashFits, ChangerFactor
  <2>5. CASE ~Changing(t)
    <3>1. tab[t].route \notin {"disable", "password"}
      BY <2>5, IdleIs DEF Changing, Routes
    <3>2. hist'.cut = hist.cut
      BY <1>8, <3>1 DEF Crash, TypeOK
    <3>3. ~Changing(t)'
      BY <2>2, IdleIs DEF Changing
    <3> QED BY <2>1, <2>2, <2>3, <2>5, <3>2, <3>3, OtherFactor
  <2> QED BY <2>4, <2>5
<1>9. ASSUME NEW b \in Buckets, Ages(b) PROVE FactorInv'
  BY <1>2, <1>9 DEF Ages
<1>10. UNCHANGED vars => FactorInv'
  BY <1>2 DEF vars
<1> QED BY <1>3, <1>4, <1>5, <1>6, <1>7, <1>8, <1>9, <1>10, ArrivesFactor DEF Next

\* What the second factor asks for changes with the password, or with a first secret in
\* the row.
LEMMA SwitchStep ==
  ASSUME TypeOK, RequestsOK, FactorInv, [Next]_vars,
         Asked # None, Asked' # Asked, ~hist.changes, ~hist.cut
  PROVE  \E t \in Tabs : Disables(t) \/ Hides(t)
<1>1. row' # row \/ copy' # copy
  BY DEF Asked
<1>2. PICK t \in Tabs : Write(t)
  BY <1>1 DEF Next, vars, Arrives, StartsFactor, EnablesFactor, WithPassword, Login, Crash, Ages
<1>3. CASE Changing(t)
  <2>1. Midway(t)
    BY <1>3 DEF FactorInv
  <2>2. AskedKept \/ Disables(t) \/ Hides(t)
    BY <1>2, <2>1, ChangeWritten
  <2> QED BY <2>2 DEF AskedKept
<1>4. CASE ~Changing(t)
  BY <1>1, <1>2, <1>4, SignInWritten
<1> QED BY <1>3, <1>4

\* Only its last write ends a route that gives the factor up, if no crash does.
LEMMA EndsByWriting ==
  ASSUME TypeOK, [Next]_vars, NEW t \in Tabs, Disables(t), tab'[t] = Idle, crashes' = crashes
  PROVE  Write(t)
<1>1. tab \in [Tabs -> Requests] /\ tab[t].todo # <<>> /\ tab'[t] # tab[t] /\ crashes \in Nat
  BY IdleIs, ConstantsAssumption DEF Disables, TypeOK
<1>2. \A u \in Tabs : ~Crash(u)
  BY <1>1 DEF Crash
<1>3. ~UNCHANGED vars /\ \A b \in Buckets : ~Ages(b)
  BY <1>1 DEF vars, Ages
<1>4. \A u \in Tabs : Arrives(u) \/ Decides(u) => ~Write(u) /\ tab[u].todo = <<>>
  BY IdleIs DEF Arrives, Decides, Write
<1>5. ASSUME NEW u \in Tabs,
             Arrives(u) \/ StartsFactor(u) \/ EnablesFactor(u) \/ WithPassword(u) \/ Login(u)
      PROVE  FALSE
  <2>1. tab[u].todo = <<>>
    BY <1>4, <1>5 DEF StartsFactor, EnablesFactor, WithPassword, Login
  <2>2. u # t
    BY <1>1, <2>1
  <2>3. \A v \in Tabs : v # u => tab'[v] = tab[v]
    BY <1>1, <1>5 DEF Arrives, StartsFactor, EnablesFactor, WithPassword, Login, Answers, Refuses
  <2> QED BY <1>1, <2>2, <2>3
<1>6. PICK u \in Tabs : Write(u)
  BY <1>2, <1>3, <1>5 DEF Next
<1>7. u = t
  BY <1>1, <1>6, WriteIs
<1> QED BY <1>6, <1>7

-----------------------------------------------------------------------------
(* The theorems *)

LEMMA InitHolds == ASSUME Init PROVE AccessIInv
<1>1. PICK was \in {NoFactor} \cup [secret : {Shipped}, on : BOOLEAN] :
        /\ copy = was /\ row \in {was, NoFactor}
        /\ minted = {was.secret} \ {None}
        /\ proved = IF was.on THEN minted ELSE {}
  BY DEF Init
<1>2. NoFactor.secret = None /\ NoFactor.on = FALSE /\ Shipped \in Secrets /\ Shipped # None
  BY ConstantsAssumption DEF NoFactor
<1>3. was \in Factor /\ row \in Factor /\ minted \subseteq Secrets /\ proved \subseteq minted
  <2>1. was \in Factor /\ NoFactor \in Factor
    BY <1>1, <1>2, IdleIs DEF Factor
  <2>2. was.secret \in Secrets \cup {None}
    BY <2>1 DEF Factor
  <2> QED BY <1>1, <2>1, <2>2
<1>4. TypeOK
  <2>1. pw \in [hash : 0..MaxRequests, salt : 0..MaxRequests]
    BY ConstantsAssumption DEF Init
  <2>2. fails \in [Buckets -> Nat] /\ tab \in [Tabs -> Requests]
    BY IdleIs DEF Init
  <2>3. left \in 0..MaxRequests /\ crashes \in 0..MaxCrashes
    BY ConstantsAssumption DEF Init
  <2>4. hist \in [logins : BOOLEAN, changes : BOOLEAN, cut : BOOLEAN]
    BY DEF Init
  <2> QED BY <1>1, <1>3, <2>1, <2>2, <2>3, <2>4 DEF TypeOK
<1>5. \A t \in Tabs : tab[t] = Idle
  BY DEF Init
<1>6. RequestsOK
  BY <1>5, IdleCounts DEF RequestsOK
<1>7. BudgetIsShared
  BY ConstantsAssumption DEF Init, BudgetIsShared, Buckets
<1>8. BudgetInv
  BY <1>5, IdleCounts DEF BudgetInv
<1>9. Settled
  <2>1. PasswordFits
    BY DEF Init, PasswordFits
  <2>2. was.on => was.secret \in proved
    <3>1. CASE was = NoFactor
      BY <1>2, <3>1
    <3>2. CASE was \in [secret : {Shipped}, on : BOOLEAN]
      BY <1>1, <1>2, <3>2
    <3> QED BY <1>1, <3>1, <3>2
  <2>3. FactorFits
    BY <1>1, <1>2, <2>2 DEF FactorFits
  <2> QED BY <2>1, <2>3 DEF Settled
<1>10. FactorInv
  BY <1>5, <1>9, IdleIs DEF FactorInv, Changing
<1> QED BY <1>4, <1>6, <1>7, <1>8, <1>10 DEF AccessIInv, AccessInv

LEMMA StepHolds == ASSUME AccessIInv, [Next]_vars PROVE AccessIInv'
<1>1. TypeOK'
  BY TypeStep DEF AccessIInv, AccessInv
<1>2. BudgetKept
  BY BudgetStep DEF AccessIInv, AccessInv
<1>3. FactorInv'
  BY FactorStep DEF AccessIInv, AccessInv
<1> QED BY <1>1, <1>2, <1>3 DEF AccessIInv, AccessInv, BudgetKept

\* The inductive invariant: where each request is, what room a sign-in has found, and how
\* far a change of the factor or the password has come.
THEOREM AccessHolds == Spec => []AccessIInv
<1>1. Init => AccessIInv
  BY InitHolds
<1>2. AccessIInv /\ [Next]_vars => AccessIInv'
  BY StepHolds
<1> QED BY <1>1, <1>2, PTL DEF Spec

\* Types, and the budget of failures: as long as sign-ins follow each other no place, and
\* not all places together, fail more often than the limits allow, however many workers
\* serve them (_check_login_rate).
THEOREM BudgetHolds == Spec => []AccessInv
<1>1. AccessIInv => AccessInv
  BY DEF AccessIInv
<1> QED BY <1>1, AccessHolds, PTL

\* Old and new routes in any order leave a password that fits its salt and a code that its
\* owner can show.
THEOREM SomebodyGetsIn == Spec => []NobodyIsLockedOut
<1>1. ASSUME AccessIInv, Quiet, ~hist.changes, ~hist.cut PROVE CanSignIn
  <2>1. Settled
    <3>1. CASE \A t \in Tabs : ~Changing(t)
      BY <1>1, <3>1 DEF AccessIInv, FactorInv
    <3>2. ASSUME NEW t \in Tabs, Changing(t) PROVE Settled
      <4>1. Midway(t) /\ tab[t].todo = <<>>
        BY <1>1, <3>2 DEF AccessIInv, FactorInv, Quiet
      <4> QED BY <4>1, OnlyArrived DEF Waiting
    <3> QED BY <3>1, <3>2
  <2> QED BY <2>1 DEF Settled, FactorFits, CanSignIn, Asked
<1>2. AccessIInv => NobodyIsLockedOut
  BY <1>1 DEF NobodyIsLockedOut
<1> QED BY <1>2, AccessHolds, PTL

\* A second factor in force goes only with a route that costs a password, or where
\* start_my_2fa hides one that `settings` alone has; and a route that gives it up leaves
\* none.
THEOREM OnlyThePasswordDoes == Spec => OnlyDisableSwitchesOff
<1>1. ASSUME AccessIInv, [Next]_vars, ~hist.changes, ~hist.cut
      PROVE  OnlyByDisabling /\ OffWhenDone
  <2>1. TypeOK /\ RequestsOK /\ FactorInv
    BY <1>1 DEF AccessIInv, AccessInv
  <2>2. OnlyByDisabling
    BY <1>1, <2>1, SwitchStep DEF OnlyByDisabling
  <2>3. ASSUME NEW t \in Tabs, Disables(t), tab'[t] = Idle, crashes' = crashes
        PROVE  Asked' = None
    <3>1. Changing(t)
      BY <2>3, ConstantsAssumption DEF Disables, Changing, Routes
    <3>2. Write(t) /\ Midway(t)
      BY <1>1, <2>1, <2>3, <3>1, EndsByWriting DEF FactorInv
    <3> QED BY <2>1, <2>3, <3>2, ChangeWritten DEF OffAtLast
  <2> QED BY <2>2, <2>3 DEF OffWhenDone
<1>2. ASSUME AccessIInv, [Next]_vars
      PROVE  [~hist.changes /\ ~hist.cut => OnlyByDisabling /\ OffWhenDone]_vars
  BY <1>1, <1>2
<1> QED BY <1>2, AccessHolds, PTL DEF Spec, OnlyDisableSwitchesOff
=============================================================================
