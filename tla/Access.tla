--------------------------------- MODULE Access ---------------------------------
(***************************************************************************)
(* Signing in, and what an owner changes about it from several browser     *)
(* tabs: the second factor, which is kept in the admin's row and, for      *)
(* older clients and versions, in `settings` as well; the password, whose  *)
(* hash and salt are two rows of `settings`; and the failures counted      *)
(* against a place and against everybody.  Each request reads the admin's  *)
(* row when it arrives (current_admin), decides on what it has read, and   *)
(* then writes, one transaction per write.                                 *)
(* A sub-admin's second factor is the same without the copy in `settings`. *)
(* Hashing and TOTP are what they tell apart: a code fits its secret, a    *)
(* hash fits the salt it was made with.                                    *)
(* A definition introduced by "Mistake:" is no part of the specification.  *)
(***************************************************************************)
EXTENDS Integers, Sequences

CONSTANTS
  Tabs,         \* browser tabs, one request at a time each
  Places,       \* addresses they sign in from
  Secrets,      \* secrets yet to be minted, and Shipped
  Shipped,      \* the secret of an owner who used the factor before the upgrade
  None,         \* NULL
  MaxFails,     \* login_max_fails
  GlobalMax,    \* login_global_max_fails
  MaxRequests,  \* bound
  MaxCrashes    \* bound

Global == "*"
Buckets == Places \cup {Global}
Routes == {"login", "start", "enable", "disable", "old_start", "old_enable",
           "old_disable", "password"}

ASSUME ConstantsAssumption ==
  /\ Shipped \in Secrets /\ None \notin Secrets \cup Routes /\ Global \notin Places
  /\ MaxFails \in Nat \ {0} /\ GlobalMax \in Nat \ {0}
  /\ MaxRequests \in Nat /\ MaxCrashes \in Nat

VARIABLES
  row,      \* totp_secret and totp_enabled of the owner's row in `admins`
  copy,     \* TOTP_SECRET and TOTP_ENABLED in `settings`
  pw,       \* admin_password_hash and _salt: the change that wrote each
  fails,    \* rate_events within the window, for each bucket
  tab,      \* each tab's request: the route, the row it read, the writes to come
  minted,   \* the secrets an authenticator was given
  proved,   \* those of them a code was accepted for
  left,     \* how many requests there may still be
  crashes,  \* how many crashes
  hist      \* history: logins, or changes, that overlapped; a change that a crash cut
            \* in two

vars == <<row, copy, pw, fails, tab, minted, proved, left, crashes, hist>>

Factor == [secret : Secrets \cup {None}, on : BOOLEAN]
NoFactor == [secret |-> None, on |-> FALSE]

\* The writes of a request.
Puts ==
  [put : {"row"}, as : Factor] \cup [put : {"on", "copy_on"}, as : BOOLEAN]
    \cup [put : {"secret", "copy_secret"}, as : Secrets \cup {None}]
    \cup [put : {"hash", "salt"}, as : 0..MaxRequests]
    \cup [put : {"fail", "clear"}, as : Buckets]
Requests ==
  [route : Routes \cup {None}, mine : Factor, from : Places \cup {None}, todo : Seq(Puts)]

Idle == [route |-> None, mine |-> NoFactor, from |-> None, todo |-> <<>>]

TypeOK ==
  /\ row \in Factor /\ copy \in Factor
  /\ pw \in [hash : 0..MaxRequests, salt : 0..MaxRequests]
  /\ fails \in [Buckets -> Nat]
  /\ tab \in [Tabs -> Requests]
  /\ proved \subseteq minted /\ minted \subseteq Secrets
  /\ left \in 0..MaxRequests /\ crashes \in 0..MaxCrashes
  /\ hist \in [logins : BOOLEAN, changes : BOOLEAN, cut : BOOLEAN]

\* A new panel, or one from before the row had the factor: off, begun or in force.
\* Migration 007 has copied it; or there was no owner to copy it to, whom bootstrap()
\* added later, or a backup without those columns was restored, and only `settings` has it.
Init ==
  /\ \E was \in {NoFactor} \cup [secret : {Shipped}, on : BOOLEAN] :
       /\ copy = was /\ row \in {was, NoFactor}
       /\ minted = {was.secret} \ {None}
       /\ proved = IF was.on THEN minted ELSE {}
  /\ pw = [hash |-> 0, salt |-> 0]
  /\ fails = [b \in Buckets |-> 0]
  /\ tab = [t \in Tabs |-> Idle]
  /\ left = MaxRequests
  /\ crashes = MaxCrashes
  /\ hist = [logins |-> FALSE, changes |-> FALSE, cut |-> FALSE]

\* What login() asks a code for: the row's, else that of `settings`.
Asked ==
  IF row.secret = None /\ copy.on THEN copy.secret
  ELSE IF row.on THEN row.secret ELSE None

PasswordFits == pw.hash = pw.salt

-----------------------------------------------------------------------------
(* A request arrives, decides, writes *)

\* Mistake: only the place is counted.
RoomForPlace(place) == fails[place] < MaxFails

\* _check_login_rate
Room(place) == fails[place] < MaxFails /\ fails[Global] < GlobalMax

Arrives(t) ==
  /\ tab[t] = Idle /\ left > 0
  /\ \E r \in Routes, place \in Places :
       LET others == {tab[u].route : u \in Tabs} \ {None} IN
       /\ r = "login" => Room(place)
       /\ hist' = [hist EXCEPT !.logins = @ \/ (r = "login" /\ "login" \in others),
                               !.changes = @ \/ (r # "login" /\ others \ {"login"} # {})]
       /\ tab' = [tab EXCEPT ![t] = [Idle EXCEPT !.route = r, !.mine = row,
                    !.from = IF r = "login" THEN place ELSE None]]
  /\ left' = left - 1
  /\ UNCHANGED <<row, copy, pw, fails, minted, proved, crashes>>

Put(what, value) == [put |-> what, as |-> value]

\* What a route writes once it has let the request through.  `s` is the secret it minted
\* or accepted a code for, `n` marks a change of the password.

\* Mistake: the secret is enabled before a code has been shown for it.
StartEnabled(s) == <<Put("row", [secret |-> s, on |-> TRUE])>>

\* start_my_2fa
Start(s) == <<Put("secret", s)>>

\* Mistake: the copy in `settings` stays ("would otherwise switch it straight back on").
DisableRowOnly == <<Put("row", NoFactor)>>

\* disable_my_2fa
Disable == <<Put("row", NoFactor), Put("copy_on", FALSE), Put("copy_secret", None)>>

WritesOf(route, s, n) ==
  CASE route = "start" -> Start(s)
    [] route = "enable" -> <<Put("on", TRUE)>>
    [] route = "disable" -> Disable
    [] route = "old_start" -> <<Put("copy_secret", s), Put("secret", s)>>
    [] route = "old_enable" ->
         <<Put("copy_on", TRUE), Put("row", [secret |-> s, on |-> TRUE])>>
    [] route = "old_disable" ->
         <<Put("copy_on", FALSE), Put("copy_secret", None), Put("row", NoFactor)>>
    [] route = "password" -> <<Put("hash", n), Put("salt", n)>>

Answers(t, writes) == tab' = [tab EXCEPT ![t].todo = writes]
Refuses(t) == tab' = [tab EXCEPT ![t] = Idle]
Decides(t) == tab[t] # Idle /\ tab[t].todo = <<>>
Mints(s) == s \in Secrets \ (minted \cup {Shipped})

\* Mistake: the old route, too, looks at the row alone.
RowIsOn(t) == tab[t].mine.on

IsOn(t) == tab[t].mine.on \/ (tab[t].route = "old_start" /\ copy.on)

\* start_my_2fa, start_2fa
StartsFactor(t) ==
  /\ Decides(t) /\ tab[t].route \in {"start", "old_start"}
  /\ IF IsOn(t)
     THEN Refuses(t) /\ UNCHANGED minted
     ELSE \E s \in Secrets :
            /\ Mints(s) /\ minted' = minted \cup {s}
            /\ Answers(t, WritesOf(tab[t].route, s, 0))
  /\ UNCHANGED <<row, copy, pw, fails, proved, left, crashes, hist>>

\* enable_my_2fa, enable_2fa: the user has a code for some secret they were given.
EnablesFactor(t) ==
  LET mine == tab[t].mine.secret
      secret == IF tab[t].route = "old_enable" /\ mine = None THEN copy.secret ELSE mine
  IN
  /\ Decides(t) /\ tab[t].route \in {"enable", "old_enable"}
  /\ \/ secret \in minted /\ proved' = proved \cup {secret}
        /\ Answers(t, WritesOf(tab[t].route, secret, 0))
     \/ Refuses(t) /\ proved' = proved
  /\ UNCHANGED <<row, copy, pw, fails, minted, left, crashes, hist>>

\* disable_my_2fa, disable_2fa, change_password: for the password.
WithPassword(t) ==
  /\ Decides(t) /\ tab[t].route \in {"disable", "old_disable", "password"}
  /\ \/ PasswordFits /\ Answers(t, WritesOf(tab[t].route, None, MaxRequests - left))
     \/ Refuses(t)
  /\ UNCHANGED <<row, copy, pw, fails, minted, proved, left, crashes, hist>>

Failure(place) == <<Put("fail", place), Put("fail", Global)>>

\* login: the password, then the code.  One that is asked for and missing is no failure.
Login(t) ==
  LET place == tab[t].from IN
  /\ Decides(t) /\ tab[t].route = "login"
  /\ \/ Answers(t, Failure(place)) /\ proved' = proved
     \/ PasswordFits /\ Asked # None /\ Refuses(t) /\ proved' = proved
     \/ PasswordFits /\ Asked \in minted \cup {None}
        /\ proved' = proved \cup ({Asked} \ {None})
        /\ Answers(t, <<Put("clear", place)>>)
  /\ UNCHANGED <<row, copy, pw, fails, minted, left, crashes, hist>>

\* update_admin, set_setting, record_rate_event, clear_rate_events
Write(t) ==
  LET w == Head(tab[t].todo)
      rest == Tail(tab[t].todo)
  IN
  /\ tab[t].todo # <<>>
  /\ row' = CASE w.put = "row" -> w.as
              [] w.put = "secret" -> [row EXCEPT !.secret = w.as]
              [] w.put = "on" -> [row EXCEPT !.on = w.as]
              [] OTHER -> row
  /\ copy' = CASE w.put = "copy_on" -> [copy EXCEPT !.on = w.as]
               [] w.put = "copy_secret" -> [copy EXCEPT !.secret = w.as]
               [] OTHER -> copy
  /\ pw' = IF w.put \in {"hash", "salt"} THEN [pw EXCEPT ![w.put] = w.as] ELSE pw
  /\ fails' = CASE w.put = "fail" -> [fails EXCEPT ![w.as] = @ + 1]
                [] w.put = "clear" -> [fails EXCEPT ![w.as] = 0]
                [] OTHER -> fails
  /\ tab' = [tab EXCEPT ![t] = IF rest = <<>> THEN Idle ELSE [@ EXCEPT !.todo = rest]]
  /\ UNCHANGED <<minted, proved, left, crashes, hist>>

\* The window has passed.
Ages(b) ==
  /\ fails[b] > 0
  /\ fails' = [fails EXCEPT ![b] = 0]
  /\ UNCHANGED <<row, copy, pw, tab, minted, proved, left, crashes, hist>>

\* The worker that serves a tab dies.
Crash(t) ==
  /\ crashes > 0 /\ crashes' = crashes - 1
  /\ tab[t] # Idle
  /\ Refuses(t)
  /\ LET midway == tab[t].route \in {"disable", "password"} /\ tab[t].todo # <<>> IN
       hist' = [hist EXCEPT !.cut = @ \/ midway]
  /\ UNCHANGED <<row, copy, pw, fails, minted, proved, left>>

Next ==
  \/ \E t \in Tabs :
       \/ Arrives(t) \/ StartsFactor(t) \/ EnablesFactor(t) \/ WithPassword(t)
       \/ Login(t) \/ Write(t) \/ Crash(t)
  \/ \E b \in Buckets : Ages(b)

Spec == Init /\ [][Next]_vars

-----------------------------------------------------------------------------
(* What must hold *)

Quiet == \A t \in Tabs : tab[t].todo = <<>>

\* The budget of failures is one for all workers, and one for all places together, as
\* long as sign-ins follow each other ("with N workers the old version handed an attacker
\* N times the budget").
BudgetIsShared ==
  ~hist.logins => /\ \A p \in Places : fails[p] <= MaxFails
                  /\ fails[Global] <= GlobalMax

\* The types, and the budget.
AccessInv == TypeOK /\ BudgetIsShared

\* Whatever routes, old and new, were called in whatever order, the owner can sign in:
\* hash and salt belong together and the code asked for is of a secret that a code was
\* accepted for ("the code has to be proved first, or a misread QR locks someone out of
\* their own panel"), as long as changes follow each other and no worker dies half-way
\* through a change of the password or through disable_my_2fa.
CanSignIn == PasswordFits /\ Asked \in proved \cup {None}
NobodyIsLockedOut == Quiet /\ ~hist.changes /\ ~hist.cut => CanSignIn

\* A second factor in force is given up by the routes that cost a password, and by no
\* other one ("turning it off costs a password, so a borrowed open tab cannot"), and when
\* such a route is done there is none ("the pre-migration copy would otherwise switch it
\* straight back on"), in whatever order old and new clients use the two sets of routes.
\* One exception, which costs no password: a factor that only `settings` has, after an
\* upgrade, a restore or an enable_2fa cut in two, is hidden by start_my_2fa, which looks
\* at the row alone and stores there a secret that is not enabled.
Disables(t) == tab[t].route \in {"disable", "old_disable"} /\ tab[t].todo # <<>>
Hides(t) == tab[t].route = "start" /\ tab[t].todo # <<>> /\ row.secret = None
OnlyByDisabling == Asked # None /\ Asked' # Asked => \E t \in Tabs : Disables(t) \/ Hides(t)
OffWhenDone ==
  \A t \in Tabs : Disables(t) /\ tab'[t] = Idle /\ crashes' = crashes => Asked' = None
OnlyDisableSwitchesOff ==
  [][~hist.changes /\ ~hist.cut => OnlyByDisabling /\ OffWhenDone]_vars

\* What the code says and does not do: only a password switches a factor off, where the
\* row has none and `settings` has (disable_my_2fa, start_my_2fa).
OnlyAPasswordSwitchesOff ==
  [][ Asked # None /\ Asked' # Asked /\ ~hist.changes /\ ~hist.cut
        => \E t \in Tabs : Disables(t) ]_vars

\* What the code says and does not do: a secret is proved first, whatever two tabs do at
\* once (start_my_2fa).
EnabledIsProved == row.on => row.secret \in proved \cup {None}
=============================================================================
