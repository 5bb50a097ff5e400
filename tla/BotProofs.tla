-------------------------------- MODULE BotProofs --------------------------------
(***************************************************************************)
(* What is true of Bot for every number of messages handled at once, of    *)
(* servers, keys and rights, and of dispatchers started and stopped.       *)
(***************************************************************************)
EXTENDS Bot, FiniteSetTheorems, SequenceTheorems, TLAPS

\* Where a handler q stands.  "gate" comes first, then, for one that is about a key,
\* "owns"; what is made, is made by the handlers that make.
Ordered(q) ==
  /\ \A i \in DOMAIN q.todo :
       /\ q.todo[i] = "gate" => i = 1
       /\ q.todo[i] = "owns" => i = 1 \/ (i = 2 /\ q.todo[1] = "gate")
       /\ q.todo[i] \in {"answer", "create"} => q.at \in Makers
  /\ OnKeys(q.at) /\ q.todo # <<>> /\ q.todo[1] = "gate" => Len(q.todo) > 1 /\ q.todo[2] = "owns"

\* Allowed, of a handler.
Admitted(q) ==
  q.owned /\ \E a \in q.had : May(a, q.at, q.sid) /\ (IsFree(q.at) => ~a.credit)

\* One that is through with a check has passed it at some time since its message came.
Cleared(q) ==
  /\ q.todo # <<>> /\ q.todo[1] # "gate" /\ q.at # "step_name" => q.who \in q.had
  /\ OnKeys(q.at) /\ q.todo # <<>> /\ q.todo[1] # "gate" => May(q.who, q.at, q.sid)
  /\ OnKeys(q.at) /\ q.todo # <<>> /\ q.todo[1] \notin {"gate", "owns"} => Admitted(q)

\* One with nothing left to do has ended; one at work has noted the rights there are
\* now, and its key is on its server.
Aware(q) ==
  /\ q.todo = <<>> <=> q = Done
  /\ q # Done => /\ admin # None => admin \in q.had
                 /\ q.kid # None /\ Mine(q.kid) => q.owned
                 /\ OnKeys(q.at) <=> q.kid # None
                 /\ q.kid # None => q.sid = ServerOf[q.kid]

Sound(q) == Ordered(q) /\ Cleared(q) /\ Aware(q)
HandlerInv == \A t \in Tasks : Sound(task[t])

\* A name that was asked for is with a dialog, with a handler that has taken it over
\* from one, or with a key.
Owed == {g \in 1..MaxBots : chat[g].named \/ chat[g].state = "name"}
Held == {t \in Tasks : task[t].named}
NamesAreCounted ==
  /\ IsFiniteSet(Held)
  /\ made.free + made.sold + Cardinality(Owed) + Cardinality(Held) <= made.asked

-----------------------------------------------------------------------------

LEMMA TypeInitially == Init => TypeOK
<1> SUFFICES ASSUME Init PROVE TypeOK
  OBVIOUS
<1> USE ConstantsAssumption DEF Init
<1>1. Done \in Handler
  <2>1. <<>> \in Seq(Steps) /\ 1 \in 1..MaxBots
    OBVIOUS
  <2> QED BY <2>1 DEF Done, Handler
<1>2. Blank \in Chat
  BY DEF Blank, Chat
<1>3. bot \in [up : BOOLEAN, gen : 1..MaxBots]
  OBVIOUS
<1>4. /\ outline \in [Keys -> [there : BOOLEAN, open : BOOLEAN, set : SUBSET {"name", "limit"}]]
      /\ row \in [Keys -> [there : BOOLEAN, mine : BOOLEAN, off : BOOLEAN,
                           set : SUBSET {"name", "limit", "date"}]]
  OBVIOUS
<1>5. /\ made \in [asked : Nat, free : Nat, sold : Nat]
      /\ left \in 0..MaxMessages /\ changes \in 0..MaxChanges
  OBVIOUS
<1> QED BY <1>1, <1>2, <1>3, <1>4, <1>5 DEF TypeOK

\* The checks and the work a handler begins with.
LEMMA PlanType ==
  ASSUME NEW at
  PROVE  /\ Checks(at) \in Seq(Steps) /\ Work(at) \in Seq(Steps)
         /\ Checks(at) \o Work(at) \in Seq(Steps)
         /\ Checks(at) \o Work(at) # <<>> /\ (Checks(at) \o Work(at))[1] = "gate"
<1>1. Checks(at) \in Seq(Steps) /\ Len(Checks(at)) \in {1, 2} /\ Checks(at)[1] = "gate"
  <2>1. <<"gate", "owns">> \in Seq(Steps) /\ <<"gate">> \in Seq(Steps)
    BY DEF Steps
  <2>2. Len(<<"gate", "owns">>) = 2 /\ Len(<<"gate">>) = 1
    OBVIOUS
  <2>3. <<"gate", "owns">>[1] = "gate" /\ <<"gate">>[1] = "gate"
    OBVIOUS
  <2> QED BY <2>1, <2>2, <2>3 DEF Checks
<1>2. Work(at) \in Seq(Steps)
  <2>1. /\ <<>> \in Seq(Steps) /\ <<"packages">> \in Seq(Steps)
        /\ <<"answer", "create">> \in Seq(Steps) /\ <<"create">> \in Seq(Steps)
        /\ <<"look">> \in Seq(Steps)
    BY DEF Steps
  <2>2. /\ <<"call_name", "row_name">> \in Seq(Steps)
        /\ <<"adopt", "call_cut", "row_off">> \in Seq(Steps)
        /\ <<"call_open", "row_on">> \in Seq(Steps)
        /\ <<"call_gone", "row_gone">> \in Seq(Steps)
    BY DEF Steps, CallSteps, RowSteps
  <2> QED BY <2>1, <2>2 DEF Work
<1> QED BY <1>1, <1>2, ConcatProperties, LenProperties

LEMMA AfterLookType ==
  ASSUME NEW at, NEW off
  PROVE  AfterLook(at, off) \in Seq(Steps)
<1>1. /\ <<>> \in Seq(Steps)
      /\ <<"call_limit">> \in Seq(Steps) /\ <<"row_limit">> \in Seq(Steps)
      /\ <<"row_later">> \in Seq(Steps) /\ <<"call_open", "row_on">> \in Seq(Steps)
  BY DEF Steps, CallSteps, RowSteps
<1> QED BY <1>1, ConcatProperties DEF AfterLook

\* What the helpers leave a handler with.
LEMMA HandlesType ==
  ASSUME TypeOK, NEW t \in Tasks, NEW at, NEW sid \in Servers \cup {None},
         NEW kid \in Keys \cup {None}, Handles(t, at, sid, kid),
         at \in KeyHandlers \cup Makers \cup {"cb_new", "cb_new_server", "step_name"}
  PROVE  task' \in [Tasks -> Handler]
<1>1. Checks(at) \o Work(at) \in Seq(Steps)
  BY PlanType
<1>2. {admin} \ {None} \in SUBSET Grants /\ bot.gen \in 1..MaxBots
  BY DEF TypeOK
<1>3. (kid # None /\ Mine(kid)) \in BOOLEAN
  OBVIOUS
<1>4. [Done EXCEPT !.at = at, !.sid = sid, !.kid = kid, !.gen = bot.gen,
                   !.todo = Checks(at) \o Work(at), !.had = {admin} \ {None},
                   !.owned = kid # None /\ Mine(kid)] \in Handler
  BY <1>1, <1>2, <1>3 DEF Done, Handler
<1> QED BY <1>4 DEF Handles, TypeOK

LEMMA DoneType == Done \in Handler
<1>1. <<>> \in Seq(Steps) /\ 1 \in 1..MaxBots
  BY ConstantsAssumption
<1> QED BY <1>1 DEF Done, Handler

LEMMA GoneType == ASSUME TypeOK, NEW t \in Tasks, Gone(t) PROVE task' \in [Tasks -> Handler]
BY DoneType DEF Gone, TypeOK

LEMMA WentType ==
  ASSUME TypeOK, NEW t \in Tasks, NEW r \in Handler, Went(t, r)
  PROVE  task' \in [Tasks -> Handler]
BY DoneType DEF Went, TypeOK

LEMMA NextType ==
  ASSUME TypeOK, NEW t \in Tasks, NEW step, Awaits(t, step)
  PROVE  Next1(t) \in Handler
<1>1. Tail(task[t].todo) \in Seq(Steps)
  BY HeadTailProperties DEF TypeOK, Handler, Awaits
<1>2. task[t] \in Handler
  BY DEF TypeOK
<1>3. Next1(t) = [task[t] EXCEPT !.todo = Tail(task[t].todo)]
  BY DEF Next1
<1> QED BY <1>1, <1>2, <1>3 DEF Handler

LEMMA RememberType ==
  ASSUME TypeOK, NEW t \in Tasks, NEW c \in Chat, Remember(t, c)
  PROVE  chat' \in [1..MaxBots -> Chat]
BY DEF Remember, TypeOK, Handler

LEMMA MemType == ASSUME TypeOK, NEW t \in Tasks PROVE Mem(t) \in Chat
<1>1. task[t].gen \in 1..MaxBots
  BY DEF TypeOK, Handler
<1> QED BY <1>1 DEF TypeOK, Mem

LEMMA NowType == ASSUME TypeOK PROVE Now \in Chat /\ Blank \in Chat
<1>1. bot.gen \in 1..MaxBots
  BY DEF TypeOK
<1> QED BY <1>1 DEF TypeOK, Now, Blank, Chat

LEMMA SayType ==
  ASSUME TypeOK, NEW c \in Chat, Say(c)
  PROVE  chat' \in [1..MaxBots -> Chat]
BY DEF Say, TypeOK

LEMMA TypeStep == TypeOK /\ [Next]_vars => TypeOK'
<1> SUFFICES ASSUME TypeOK, [Next]_vars PROVE TypeOK'
  OBVIOUS
<1> USE ConstantsAssumption
<1>0. /\ admin \in Grants \cup {None} /\ chat \in [1..MaxBots -> Chat]
      /\ bot \in [up : BOOLEAN, gen : 1..MaxBots] /\ task \in [Tasks -> Handler]
      /\ outline \in [Keys -> [there : BOOLEAN, open : BOOLEAN, set : SUBSET {"name", "limit"}]]
      /\ row \in [Keys -> [there : BOOLEAN, mine : BOOLEAN, off : BOOLEAN,
                           set : SUBSET {"name", "limit", "date"}]]
      /\ made \in [asked : Nat, free : Nat, sold : Nat]
      /\ left \in 0..MaxMessages /\ changes \in 0..MaxChanges
  BY DEF TypeOK
<1>1. ASSUME left > 0, left' = left - 1 PROVE left' \in 0..MaxMessages
  BY <1>0, <1>1
<1>2. ASSUME Changes PROVE changes' \in 0..MaxChanges
  BY <1>0, <1>2 DEF Changes
<1>3. CASE Menu
  <2>1. chat' \in [1..MaxBots -> Chat]
    BY <1>3, NowType, SayType DEF Menu
  <2> QED BY <1>0, <1>1, <1>3, <2>1 DEF Menu, TypeOK
<1>4. CASE TypeFreely
  <2>1. [Now EXCEPT !.named = TRUE, !.state = "data_limit"] \in Chat
    BY NowType DEF Chat, States
  <2>2. [Now EXCEPT !.state = "duration"] \in Chat
    BY NowType DEF Chat, States
  <2>3. chat' \in [1..MaxBots -> Chat]
    BY <1>4, <2>1, <2>2, SayType DEF TypeFreely
  <2> QED BY <1>0, <1>1, <1>4, <2>3 DEF TypeFreely, TypeOK
<1>5. CASE Regrants
  <2>1. \A t \in Tasks : [task[t] EXCEPT !.had = @ \cup ({admin'} \ {None})] \in Handler
    <3>1. {admin'} \ {None} \subseteq Grants
      BY <1>5 DEF Regrants
    <3>2. ASSUME NEW t \in Tasks
          PROVE  [task[t] EXCEPT !.had = @ \cup ({admin'} \ {None})] \in Handler
      <4>1. task[t] \in Handler
        BY <1>0
      <4> QED BY <3>1, <4>1 DEF Handler
    <3> QED BY <3>2
  <2>2. task' \in [Tasks -> Handler]
    BY <1>5, <2>1, DoneType DEF Regrants
  <2> QED BY <1>0, <1>2, <1>5, <2>2 DEF Regrants, TypeOK
<1>6. CASE SetBot
  <2>1. bot' \in [up : BOOLEAN, gen : 1..MaxBots]
    <3>1. bot.gen \in 1..MaxBots
      BY <1>0
    <3>2. ASSUME StartBot PROVE bot' \in [up : BOOLEAN, gen : 1..MaxBots]
      <4>1. bot.gen + 1 \in 1..MaxBots /\ bot' = [up |-> TRUE, gen |-> bot.gen + 1]
        BY <3>1, <3>2 DEF StartBot
      <4> QED BY <4>1
    <3>3. ASSUME StopBot PROVE bot' \in [up : BOOLEAN, gen : 1..MaxBots]
      BY <1>0, <3>3 DEF StopBot
    <3> QED BY <1>6, <3>2, <3>3 DEF SetBot
  <2> QED BY <1>0, <1>2, <1>6, <2>1 DEF SetBot, TypeOK
<1>7. CASE Crash
  <2>1. task' \in [Tasks -> Handler] /\ chat' \in [1..MaxBots -> Chat]
    <3>1. Blank \in Chat
      BY DEF Blank, Chat
    <3> QED BY <1>7, <3>1, DoneType DEF Crash
  <2> QED BY <1>0, <1>2, <1>7, <2>1 DEF Crash, TypeOK
<1>8. ASSUME NEW k \in Keys, Reassigns(k) PROVE TypeOK'
  <2>1. row' \in [Keys -> [there : BOOLEAN, mine : BOOLEAN, off : BOOLEAN,
                           set : SUBSET {"name", "limit", "date"}]]
    <3>1. row[k] \in [there : BOOLEAN, mine : BOOLEAN, off : BOOLEAN,
                       set : SUBSET {"name", "limit", "date"}]
      BY <1>0
    <3>2. [row[k] EXCEPT !.mine = ~@] \in [there : BOOLEAN, mine : BOOLEAN, off : BOOLEAN,
                                            set : SUBSET {"name", "limit", "date"}]
      BY <3>1
    <3>3. row' = [row EXCEPT ![k] = [row[k] EXCEPT !.mine = ~@]]
      BY <1>0, <1>8 DEF Reassigns
    <3> QED BY <1>0, <3>2, <3>3
  <2>2. \A t \in Tasks : [task[t] EXCEPT !.owned = @ \/ ~row[k].mine] \in Handler
    <3>1. ASSUME NEW t \in Tasks
          PROVE  [task[t] EXCEPT !.owned = @ \/ ~row[k].mine] \in Handler
      <4>1. task[t] \in Handler
        BY <1>0
      <4>2. (task[t].owned \/ ~row[k].mine) \in BOOLEAN
        OBVIOUS
      <4>3. [task[t] EXCEPT !.owned = @ \/ ~row[k].mine]
              = [task[t] EXCEPT !.owned = task[t].owned \/ ~row[k].mine]
        OBVIOUS
      <4> QED BY <4>1, <4>2, <4>3 DEF Handler
    <3> QED BY <3>1
  <2>3. task' \in [Tasks -> Handler]
    BY <1>0, <1>8, <2>2 DEF Reassigns
  <2> QED BY <1>0, <1>2, <1>8, <2>1, <2>3 DEF Reassigns, TypeOK
<1>9. ASSUME NEW t \in Tasks, Press(t) PROVE TypeOK'
  <2>1. \A s \in Servers : s \in Servers \cup {None}
    OBVIOUS
  <2>2. \A k \in Keys : k \in Keys \cup {None} /\ ServerOf[k] \in Servers \cup {None}
    OBVIOUS
  <2>3. PICK at, sid, kid : /\ Handles(t, at, sid, kid)
                            /\ sid \in Servers \cup {None} /\ kid \in Keys \cup {None}
                            /\ at \in KeyHandlers \cup Makers \cup {"cb_new", "cb_new_server"}
    BY <1>9, <2>1, <2>2 DEF Press, KeyHandlers, Makers
  <2>4. task' \in [Tasks -> Handler]
    BY <2>3, HandlesType
  <2> QED BY <1>0, <1>1, <1>9, <2>4 DEF Press, Comes, TypeOK
<1>10. ASSUME NEW t \in Tasks, TypeName(t) PROVE TypeOK'
  <2>1. [Now EXCEPT !.named = TRUE] \in Chat
    BY NowType DEF Chat
  <2>2. task' \in [Tasks -> Handler]
    BY <1>10, HandlesType DEF TypeName
  <2> QED BY <1>0, <1>1, <1>10, <2>1, <2>2, SayType DEF TypeName, Comes, TypeOK
<1>11. ASSUME NEW t \in Tasks, TypeDuration(t) PROVE TypeOK'
  <2>2. task' \in [Tasks -> Handler]
    BY <1>11, HandlesType DEF TypeDuration, Makers
  <2> QED BY <1>0, <1>1, <1>11, <2>2 DEF TypeDuration, Comes, TypeOK
<1>12. ASSUME NEW t \in Tasks, TypeReply(t) PROVE TypeOK'
  <2>1. Now.sid \in Servers \cup {None} /\ Now.kid \in Keys \cup {None}
    BY NowType DEF Chat
  <2>2. task' \in [Tasks -> Handler]
    BY <1>12, <2>1, HandlesType DEF TypeReply, KeyHandlers
  <2> QED BY <1>0, <1>1, <1>12, <2>2, NowType, SayType DEF TypeReply, Comes, TypeOK
<1>12a. made.asked \in Nat /\ made.asked + 1 \in Nat
  BY <1>0
<1>13. ASSUME NEW t \in Tasks, AdminRead(t) PROVE TypeOK'
  <2>0. Awaits(t, "gate") /\ UNCHANGED <<admin, bot, outline, row, left, changes>>
    BY <1>13 DEF AdminRead
  <2>1. Next1(t) \in Handler
    BY <2>0, NextType
  <2>2. [Next1(t) EXCEPT !.who = admin] \in Handler
    BY <1>0, <2>1 DEF Handler
  <2>3. ASSUME NEW r \in Handler, Takes(t, r)
        PROVE  task' \in [Tasks -> Handler] /\ chat' \in [1..MaxBots -> Chat]
    <3>1. Mem(t).sid \in Servers \cup {None} /\ Mem(t).named \in BOOLEAN
      BY MemType, NowType DEF Chat
    <3>2. [r EXCEPT !.sid = Mem(t).sid, !.named = Mem(t).named] \in Handler
      BY <3>1 DEF Handler
    <3>3. Remember(t, Blank)
      BY <2>3 DEF Takes, Taken
    <3> QED BY <2>3, <3>2, <3>3, GoneType, WentType, RememberType, MemType, NowType DEF Takes
  <2>4. ASSUME Begins(t), admin # None
        PROVE  made' \in [asked : Nat, free : Nat, sold : Nat] /\ chat' \in [1..MaxBots -> Chat]
    <3>1. admin.credit \in BOOLEAN
      BY <1>0, <2>4 DEF Rights
    <3>2. \A s \in Servers :
            /\ [[Mem(t) EXCEPT !.credit = admin.credit] EXCEPT !.state = "server"] \in Chat
            /\ [[Mem(t) EXCEPT !.credit = admin.credit] EXCEPT !.state = "name", !.sid = s] \in Chat
      BY <3>1, MemType, NowType DEF Chat, States
    <3>3. [made EXCEPT !.asked = @ + 1] \in [asked : Nat, free : Nat, sold : Nat]
      BY <1>0, <1>12a
    <3>4. CASE UNCHANGED <<chat, made>>
      BY <1>0, <3>4
    <3>5. ASSUME NEW c \in Chat, Remember(t, c),
                 made' = made \/ made' = [made EXCEPT !.asked = @ + 1]
          PROVE  made' \in [asked : Nat, free : Nat, sold : Nat] /\ chat' \in [1..MaxBots -> Chat]
      BY <1>0, <3>3, <3>5, RememberType
    <3> DEFINE cc == [Mem(t) EXCEPT !.credit = admin.credit]
    <3>6. \/ UNCHANGED <<chat, made>>
          \/ Remember(t, [cc EXCEPT !.state = "server"]) /\ made' = made
          \/ \E s \in Servers : /\ Remember(t, [cc EXCEPT !.state = "name", !.sid = s])
                                /\ made' = [made EXCEPT !.asked = @ + 1]
      BY <2>4 DEF Begins
    <3>7. [cc EXCEPT !.state = "server"] \in Chat
      BY <3>1, MemType DEF Chat, States
    <3> HIDE DEF cc
    <3> QED BY <3>2, <3>4, <3>5, <3>6, <3>7 DEF cc
  <2>5. task[t].sid \in Servers \cup {None}
    BY <1>0 DEF Handler
  <2>6. [Mem(t) EXCEPT !.sid = task[t].sid, !.state = "name"] \in Chat
    BY <2>5, MemType, NowType DEF Chat, States
  <2>7. [made EXCEPT !.asked = @ + 1] \in [asked : Nat, free : Nat, sold : Nat]
    BY <1>0, <1>12a
  <2>8. /\ task' \in [Tasks -> Handler] /\ chat' \in [1..MaxBots -> Chat]
        /\ made' \in [asked : Nat, free : Nat, sold : Nat]
    <3>1. CASE ~May(admin, task[t].at, task[t].sid) /\ task[t].at # "step_name"
      BY <1>0, <1>13, <3>1, GoneType, RememberType, MemType, NowType DEF AdminRead
    <3>2. CASE ~(~May(admin, task[t].at, task[t].sid) /\ task[t].at # "step_name")
      <4>1. CASE task[t].at = "cb_new"
        <5>1. Gone(t) /\ Begins(t) /\ admin # None
          BY <1>13, <3>2, <4>1 DEF AdminRead, May
        <5> QED BY <5>1, <2>4, GoneType
      <4>2. CASE task[t].at = "cb_new_server"
        BY <1>13, <3>2, <4>2, <2>6, <2>7, GoneType, RememberType DEF AdminRead
      <4>3. CASE task[t].at = "step_duration"
        BY <1>0, <1>13, <3>2, <4>3, <2>2, <2>3 DEF AdminRead
      <4>4. CASE task[t].at \notin {"cb_new", "cb_new_server", "step_duration"}
        BY <1>0, <1>13, <3>2, <4>4, <2>2, WentType DEF AdminRead
      <4> QED BY <4>1, <4>2, <4>3, <4>4
    <3> QED BY <3>1, <3>2
  <2> QED BY <1>0, <2>0, <2>8 DEF TypeOK
<1>14. ASSUME NEW t \in Tasks, OwnerRead(t) PROVE TypeOK'
  <2>1. Next1(t) \in Handler
    BY <1>14, NextType DEF OwnerRead
  <2>2. task' \in [Tasks -> Handler]
    BY <1>14, <2>1, GoneType, WentType DEF OwnerRead
  <2>3. task[t].sid \in Servers \cup {None} /\ task[t].kid \in Keys \cup {None}
    BY <1>0 DEF Handler
  <2>4. \A state \in States : [Mem(t) EXCEPT !.sid = task[t].sid, !.kid = task[t].kid,
                                             !.state = state] \in Chat
    BY <2>3, MemType, NowType DEF Chat
  <2>5. (IF task[t].at = "cb_rename" THEN "rename" ELSE "limit") \in States
    BY DEF States
  <2>6. chat' \in [1..MaxBots -> Chat]
    BY <1>0, <1>14, <2>4, <2>5, RememberType DEF OwnerRead
  <2> QED BY <1>0, <1>14, <2>2, <2>6 DEF OwnerRead, TypeOK
<1>15. ASSUME NEW t \in Tasks, PackagesRead(t) PROVE TypeOK'
  <2>1. [Mem(t) EXCEPT !.state = "package"] \in Chat
    BY MemType, NowType DEF Chat, States
  <2>2. task' \in [Tasks -> Handler]
    BY <1>15, GoneType DEF PackagesRead
  <2>3. chat' \in [1..MaxBots -> Chat]
    BY <1>0, <1>15, <2>1, MemType, NowType, RememberType DEF PackagesRead
  <2> QED BY <1>0, <1>15, <2>2, <2>3 DEF PackagesRead, TypeOK
<1>16. ASSUME NEW t \in Tasks, Answered(t) PROVE TypeOK'
  <2>1. Next1(t) \in Handler
    BY <1>16, NextType DEF Answered
  <2>2. Mem(t).sid \in Servers \cup {None} /\ Mem(t).named \in BOOLEAN
    BY MemType, NowType DEF Chat
  <2>3. [Next1(t) EXCEPT !.sid = Mem(t).sid, !.named = Mem(t).named] \in Handler
    BY <2>1, <2>2 DEF Handler
  <2>4. Remember(t, Blank)
    BY <1>16 DEF Answered, Takes, Taken
  <2>5. task' \in [Tasks -> Handler]
    BY <1>16, <2>3, GoneType, WentType DEF Answered, Takes
  <2>6. chat' \in [1..MaxBots -> Chat]
    BY <2>4, MemType, NowType, RememberType
  <2> QED BY <1>0, <1>16, <2>5, <2>6 DEF Answered, TypeOK
<1>17. ASSUME NEW t \in Tasks, Creates(t) PROVE TypeOK'
  <2>1. task' \in [Tasks -> Handler]
    BY <1>17, GoneType DEF Creates
  <2>2. Terms(task[t].who, task[t].at) \in {"free", "sold", "refused"}
    BY DEF Terms
  <2>3. made' \in [asked : Nat, free : Nat, sold : Nat]
    BY <1>0, <1>17, <2>2 DEF Creates
  <2> QED BY <1>0, <1>17, <2>1, <2>3 DEF Creates, TypeOK
<1>18. ASSUME NEW t \in Tasks, Looks(t) PROVE TypeOK'
  <2>1. AfterLook(task[t].at, Adopted(task[t].kid).off) \in Seq(Steps)
    BY AfterLookType
  <2>2. task[t] \in Handler
    BY <1>0
  <2>3. [task[t] EXCEPT !.todo = AfterLook(task[t].at, Adopted(task[t].kid).off)] \in Handler
    BY <2>1, <2>2 DEF Handler
  <2>4. task' \in [Tasks -> Handler]
    BY <1>18, <2>3, WentType DEF Looks
  <2>5. row' \in [Keys -> [there : BOOLEAN, mine : BOOLEAN, off : BOOLEAN,
                           set : SUBSET {"name", "limit", "date"}]]
    BY <1>0, <1>18 DEF Looks, Adopted
  <2> QED BY <1>0, <1>18, <2>4, <2>5 DEF Looks, TypeOK
<1>19. ASSUME NEW t \in Tasks, Adopts(t) PROVE TypeOK'
  <2>1. Next1(t) \in Handler
    BY <1>19, NextType DEF Adopts
  <2>4. task' \in [Tasks -> Handler]
    BY <1>19, <2>1, WentType DEF Adopts
  <2>5. row' \in [Keys -> [there : BOOLEAN, mine : BOOLEAN, off : BOOLEAN,
                           set : SUBSET {"name", "limit", "date"}]]
    BY <1>0, <1>19 DEF Adopts, Adopted
  <2> QED BY <1>0, <1>19, <2>4, <2>5 DEF Adopts, TypeOK
<1>20. ASSUME NEW t \in Tasks, Calls(t) PROVE TypeOK'
  <2>1. Next1(t) \in Handler
    BY <1>20, NextType DEF Calls
  <2>2. task' \in [Tasks -> Handler]
    BY <1>20, <2>1, WentType, GoneType DEF Calls
  <2>3. outline' \in [Keys -> [there : BOOLEAN, open : BOOLEAN, set : SUBSET {"name", "limit"}]]
    <3> DEFINE k == task[t].kid
               T == [there : BOOLEAN, open : BOOLEAN, set : SUBSET {"name", "limit"}]
    <3>1. ASSUME k \in Keys
          PROVE  /\ outline[k] \in T
                 /\ [outline[k] EXCEPT !.set = @ \cup {"name"}] \in T
                 /\ [outline[k] EXCEPT !.set = @ \cup {"limit"}] \in T
                 /\ [outline[k] EXCEPT !.open = FALSE] \in T
                 /\ [outline[k] EXCEPT !.open = TRUE] \in T
                 /\ [outline[k] EXCEPT !.there = FALSE] \in T
      <4>1. outline[k] \in T
        BY <1>0, <3>1
      <4> HIDE DEF k
      <4> QED BY <4>1
    <3>2. outline' = outline \/ \E o : outline' = [outline EXCEPT ![k] = o]
      BY <1>20 DEF Calls
    <3>3. \/ outline' = outline
          \/ outline' = [outline EXCEPT ![k] = [outline[k] EXCEPT !.set = @ \cup {"name"}]]
          \/ outline' = [outline EXCEPT ![k] = [outline[k] EXCEPT !.set = @ \cup {"limit"}]]
          \/ outline' = [outline EXCEPT ![k] = [outline[k] EXCEPT !.open = FALSE]]
          \/ outline' = [outline EXCEPT ![k] = [outline[k] EXCEPT !.open = TRUE]]
          \/ outline' = [outline EXCEPT ![k] = [outline[k] EXCEPT !.there = FALSE]]
      BY <1>20 DEF Calls
    <3> HIDE DEF k
    <3>4. CASE k \in Keys
      <4>1. \A o \in T : [outline EXCEPT ![k] = o] \in [Keys -> T]
        BY <1>0
      <4>2. outline' = outline \/ \E o \in T : outline' = [outline EXCEPT ![k] = o]
        BY <3>1, <3>3, <3>4
      <4> HIDE DEF T
      <4> QED BY <1>0, <4>1, <4>2 DEF T
    <3>5. CASE k \notin Keys
      BY <1>0, <3>2, <3>5
    <3> QED BY <3>4, <3>5
  <2> QED BY <1>0, <1>20, <2>2, <2>3 DEF Calls, TypeOK
<1>21. ASSUME NEW t \in Tasks, Writes(t) PROVE TypeOK'
  <2>1. Next1(t) \in Handler
    BY <1>21, NextType DEF Writes
  <2>2. task' \in [Tasks -> Handler]
    BY <1>21, <2>1, WentType DEF Writes
  <2>3. row' \in [Keys -> [there : BOOLEAN, mine : BOOLEAN, off : BOOLEAN,
                           set : SUBSET {"name", "limit", "date"}]]
    <3> DEFINE k == task[t].kid
               T == [there : BOOLEAN, mine : BOOLEAN, off : BOOLEAN,
                     set : SUBSET {"name", "limit", "date"}]
    <3>0. /\ row[k] \in T => Adopted(k) \in T
          /\ Adopted(k).set \cup {"name"} \subseteq {"name", "limit", "date"} \/ row[k] \notin T
      BY DEF Adopted
    <3>1. ASSUME k \in Keys
          PROVE  /\ row[k] \in T
                 /\ [Adopted(k) EXCEPT !.set = @ \cup {"name"}] \in T
                 /\ [row[k] EXCEPT !.set = @ \cup {"limit"}] \in T
                 /\ [row[k] EXCEPT !.set = @ \cup {"date"}] \in T
                 /\ [row[k] EXCEPT !.off = TRUE] \in T
                 /\ [row[k] EXCEPT !.off = FALSE] \in T
                 /\ [row[k] EXCEPT !.there = FALSE] \in T
      <4>1. row[k] \in T /\ Adopted(k) \in T
        BY <1>0, <3>0, <3>1
      <4> HIDE DEF k
      <4> QED BY <4>1
    <3>3. \/ row' = [row EXCEPT ![k] = [Adopted(k) EXCEPT !.set = @ \cup {"name"}]]
          \/ row' = [row EXCEPT ![k] = row[k]]
          \/ row' = [row EXCEPT ![k] = [row[k] EXCEPT !.set = @ \cup {"limit"}]]
          \/ row' = [row EXCEPT ![k] = [row[k] EXCEPT !.set = @ \cup {"date"}]]
          \/ row' = [row EXCEPT ![k] = [row[k] EXCEPT !.off = TRUE]]
          \/ row' = [row EXCEPT ![k] = [row[k] EXCEPT !.off = FALSE]]
          \/ row' = [row EXCEPT ![k] = [row[k] EXCEPT !.there = FALSE]]
      BY <1>21 DEF Writes
    <3> HIDE DEF k
    <3>4. CASE k \in Keys
      <4>1. \A r \in T : [row EXCEPT ![k] = r] \in [Keys -> T]
        BY <1>0
      <4>2. \E r \in T : row' = [row EXCEPT ![k] = r]
        BY <3>1, <3>3, <3>4
      <4> HIDE DEF T
      <4> QED BY <4>1, <4>2 DEF T
    <3>5. CASE k \notin Keys
      BY <1>0, <3>3, <3>5
    <3> QED BY <3>4, <3>5
  <2> QED BY <1>0, <1>21, <2>2, <2>3 DEF Writes, TypeOK
<1>22. CASE UNCHANGED vars
  BY <1>22 DEF vars, TypeOK
<1> QED
  BY <1>3, <1>4, <1>5, <1>6, <1>7, <1>8, <1>9, <1>10, <1>11, <1>12, <1>13, <1>14,
     <1>15, <1>16, <1>17, <1>18, <1>19, <1>20, <1>21, <1>22 DEF Next

\* What the bot remembers of dialogs and handlers is of the kind the code expects.
THEOREM TypeCorrect == Spec => []TypeOK
BY TypeInitially, TypeStep, PTL DEF Spec

-----------------------------------------------------------------------------
(* A name asked for becomes one key at most *)

\* The dialogs that owe a key are finitely many.
LEMMA OwedFinite == ASSUME TypeOK PROVE IsFiniteSet(Owed) /\ Cardinality(Owed) \in Nat
<1>1. IsFiniteSet(1..MaxBots)
  BY ConstantsAssumption, FS_Interval
<1>2. Owed \in SUBSET (1..MaxBots)
  BY DEF Owed
<1> QED BY <1>1, <1>2, FS_Subset, FS_CardinalityType

\* Four things that may happen to the count: nothing, a name is asked for, a handler
\* takes one over from a dialog, a key is made.
LEMMA CountKeeps ==
  ASSUME TypeOK, TypeOK', NamesAreCounted, Held' \subseteq Held, Owed' \subseteq Owed, made' = made
  PROVE  NamesAreCounted'
<1>1. /\ IsFiniteSet(Held') /\ Cardinality(Held') <= Cardinality(Held)
      /\ Cardinality(Held) \in Nat /\ Cardinality(Held') \in Nat
  BY FS_Subset, FS_CardinalityType DEF NamesAreCounted
<1>2. /\ Cardinality(Owed') <= Cardinality(Owed)
      /\ Cardinality(Owed) \in Nat /\ Cardinality(Owed') \in Nat
  BY OwedFinite, FS_Subset, FS_CardinalityType
<1>3. made.free \in Nat /\ made.sold \in Nat /\ made.asked \in Nat
  BY DEF TypeOK
<1> HIDE DEF Held, Owed
<1> QED BY <1>1, <1>2, <1>3 DEF NamesAreCounted

LEMMA CountAsks ==
  ASSUME TypeOK, TypeOK', NamesAreCounted, NEW g, Held' \subseteq Held, Owed' \subseteq Owed \cup {g},
         made' = [made EXCEPT !.asked = @ + 1]
  PROVE  NamesAreCounted'
<1>1. /\ IsFiniteSet(Held') /\ Cardinality(Held') <= Cardinality(Held)
      /\ Cardinality(Held) \in Nat /\ Cardinality(Held') \in Nat
  BY FS_Subset, FS_CardinalityType DEF NamesAreCounted
<1>2. /\ Cardinality(Owed') <= Cardinality(Owed) + 1
      /\ Cardinality(Owed) \in Nat /\ Cardinality(Owed') \in Nat
  <2>1. /\ IsFiniteSet(Owed \cup {g}) /\ Cardinality(Owed) \in Nat
        /\ Cardinality(Owed \cup {g}) <= Cardinality(Owed) + 1
    BY OwedFinite, FS_AddElement
  <2>2. Cardinality(Owed') <= Cardinality(Owed \cup {g}) /\ IsFiniteSet(Owed')
    BY <2>1, FS_Subset
  <2> QED BY <2>1, <2>2, FS_CardinalityType
<1>3. /\ made.free \in Nat /\ made.sold \in Nat /\ made.asked \in Nat
      /\ made'.free = made.free /\ made'.sold = made.sold /\ made'.asked = made.asked + 1
  BY DEF TypeOK
<1> HIDE DEF Held, Owed
<1> QED BY <1>1, <1>2, <1>3 DEF NamesAreCounted

LEMMA CountTakes ==
  ASSUME TypeOK, TypeOK', NamesAreCounted, NEW g \in Owed, NEW t,
         Held' \subseteq Held \cup {t}, Owed' \subseteq Owed \ {g}, made' = made
  PROVE  NamesAreCounted'
<1>1. /\ IsFiniteSet(Held') /\ Cardinality(Held') <= Cardinality(Held) + 1
      /\ Cardinality(Held) \in Nat /\ Cardinality(Held') \in Nat
  <2>1. IsFiniteSet(Held) /\ Cardinality(Held) \in Nat
    BY FS_CardinalityType DEF NamesAreCounted
  <2>2. IsFiniteSet(Held \cup {t}) /\ Cardinality(Held \cup {t}) <= Cardinality(Held) + 1
    <3>1. /\ IsFiniteSet(Held \cup {t})
          /\ Cardinality(Held \cup {t}) = IF t \in Held THEN Cardinality(Held)
                                          ELSE Cardinality(Held) + 1
      BY <2>1, FS_AddElement
    <3> QED BY <2>1, <3>1
  <2>3. Cardinality(Held') <= Cardinality(Held \cup {t}) /\ IsFiniteSet(Held')
    BY <2>2, FS_Subset
  <2>4. Cardinality(Held') \in Nat /\ Cardinality(Held \cup {t}) \in Nat
    BY <2>2, <2>3, FS_CardinalityType
  <2> QED BY <2>1, <2>2, <2>3, <2>4
<1>2. /\ Cardinality(Owed') <= Cardinality(Owed) - 1
      /\ Cardinality(Owed) \in Nat /\ Cardinality(Owed') \in Nat
  <2>1. /\ IsFiniteSet(Owed \ {g}) /\ Cardinality(Owed) \in Nat
        /\ Cardinality(Owed \ {g}) = Cardinality(Owed) - 1
    BY OwedFinite, FS_RemoveElement
  <2>2. Cardinality(Owed') <= Cardinality(Owed \ {g}) /\ IsFiniteSet(Owed')
    BY <2>1, FS_Subset
  <2> QED BY <2>1, <2>2, FS_CardinalityType
<1>3. made.free \in Nat /\ made.sold \in Nat /\ made.asked \in Nat
  BY DEF TypeOK
<1> HIDE DEF Held, Owed
<1> QED BY <1>1, <1>2, <1>3 DEF NamesAreCounted

LEMMA CountMakes ==
  ASSUME TypeOK, TypeOK', NamesAreCounted, NEW t \in Held, NEW terms \in {"free", "sold"},
         Held' \subseteq Held \ {t}, Owed' \subseteq Owed, made' = [made EXCEPT ![terms] = @ + 1]
  PROVE  NamesAreCounted'
<1>1. /\ IsFiniteSet(Held') /\ Cardinality(Held') <= Cardinality(Held) - 1
      /\ Cardinality(Held) \in Nat /\ Cardinality(Held') \in Nat
  <2>1. IsFiniteSet(Held) /\ Cardinality(Held) \in Nat
    BY FS_CardinalityType DEF NamesAreCounted
  <2>2. IsFiniteSet(Held \ {t}) /\ Cardinality(Held \ {t}) = Cardinality(Held) - 1
    BY <2>1, FS_RemoveElement
  <2>3. Cardinality(Held') <= Cardinality(Held \ {t}) /\ IsFiniteSet(Held')
    BY <2>2, FS_Subset
  <2> QED BY <2>1, <2>2, <2>3, FS_CardinalityType
<1>2. /\ Cardinality(Owed') <= Cardinality(Owed)
      /\ Cardinality(Owed) \in Nat /\ Cardinality(Owed') \in Nat
  BY OwedFinite, FS_Subset, FS_CardinalityType
<1>3. /\ made.free \in Nat /\ made.sold \in Nat /\ made.asked \in Nat
      /\ made'.free + made'.sold = made.free + made.sold + 1 /\ made'.asked = made.asked
  BY DEF TypeOK
<1> HIDE DEF Held, Owed
<1> QED BY <1>1, <1>2, <1>3 DEF NamesAreCounted

\* What the helpers do to the count.
LEMMA HandlesHolds ==
  ASSUME TypeOK, NEW t \in Tasks, NEW at, NEW sid, NEW kid, Handles(t, at, sid, kid)
  PROVE  Held' \subseteq Held
<1>1. task'[t].named = FALSE /\ \A u \in Tasks \ {t} : task'[u] = task[u]
  BY DEF Handles, TypeOK, Done
<1> QED BY <1>1 DEF Held

LEMMA GoneHolds == ASSUME TypeOK, NEW t \in Tasks, Gone(t) PROVE Held' \subseteq Held \ {t}
<1>1. task'[t].named = FALSE /\ \A u \in Tasks \ {t} : task'[u] = task[u]
  BY DEF Gone, TypeOK, Done
<1> QED BY <1>1 DEF Held

LEMMA WentHolds ==
  ASSUME TypeOK, NEW t \in Tasks, NEW r, Went(t, r)
  PROVE  /\ Held' \subseteq Held \cup {t}
         /\ r.named = task[t].named => Held' \subseteq Held
         /\ r.named = FALSE => Held' \subseteq Held
<1>1. task'[t] \in {Done, r} /\ \A u \in Tasks \ {t} : task'[u] = task[u]
  BY DEF Went, TypeOK
<1>2. Done.named = FALSE
  BY DEF Done
<1> QED BY <1>1, <1>2 DEF Held

LEMMA NextHolds ==
  ASSUME TypeOK, NEW t \in Tasks, Went(t, Next1(t))
  PROVE  Held' \subseteq Held
<1>1. task[t] \in Handler
  BY DEF TypeOK
<1>2. Next1(t).named = task[t].named
  BY <1>1 DEF Next1, Handler
<1> QED BY <1>2, WentHolds

LEMMA ChatOwes ==
  ASSUME TypeOK, NEW g \in 1..MaxBots, NEW c \in Chat, chat' = [chat EXCEPT ![g] = c]
  PROVE  /\ Owed' \subseteq Owed \cup {g}
         /\ c.state # "name" /\ c.named = chat[g].named => Owed' \subseteq Owed
         /\ c.state # "name" /\ c.named = FALSE => Owed' \subseteq Owed \ {g}
         /\ g \in Owed => Owed' \subseteq Owed
<1>1. chat'[g] = c /\ \A h \in (1..MaxBots) \ {g} : chat'[h] = chat[h]
  BY DEF TypeOK
<1> QED BY <1>1 DEF Owed

LEMMA BlankOwes ==
  ASSUME TypeOK, NEW g \in 1..MaxBots, chat' = [chat EXCEPT ![g] = Blank]
  PROVE  Owed' \subseteq Owed \ {g} /\ Owed' \subseteq Owed
<1>1. Blank.state # "name" /\ Blank.named = FALSE
  BY ConstantsAssumption DEF Blank
<1> QED BY <1>1, NowType, ChatOwes

\* A handler takes a dialog over: with the name, if there is one.
LEMMA TakesCounts ==
  ASSUME TypeOK, TypeOK', NamesAreCounted, NEW t \in Tasks, NEW r \in Handler,
         r.named = task[t].named, Takes(t, r), made' = made
  PROVE  NamesAreCounted'
<1>1. task[t].gen \in 1..MaxBots
  BY DEF TypeOK, Handler
<1>2. Owed' \subseteq Owed \ {task[t].gen} /\ Owed' \subseteq Owed
  BY <1>1, BlankOwes DEF Takes, Remember, Taken
<1>3. CASE Gone(t)
  BY <1>2, <1>3, GoneHolds, CountKeeps
<1>4. ASSUME ~Gone(t) PROVE NamesAreCounted'
  <2> DEFINE q == [r EXCEPT !.sid = Mem(t).sid, !.named = Mem(t).named]
  <2>1. Went(t, q)
    BY <1>4 DEF Takes
  <2>2. q.named = Mem(t).named
    BY DEF Handler
  <2>3. Mem(t).named \in BOOLEAN
    BY MemType DEF Chat
  <2> HIDE DEF q
  <2>4. Held' \subseteq Held \cup {t}
    BY <2>1, WentHolds
  <2>5. CASE Mem(t).named = TRUE
    <3>1. task[t].gen \in Owed
      BY <1>1, <2>5 DEF Owed, Mem
    <3> QED BY <1>2, <2>4, <3>1, CountTakes
  <2>6. CASE Mem(t).named = FALSE
    <3>1. Held' \subseteq Held
      BY <2>1, <2>2, <2>6, WentHolds
    <3> QED BY <1>2, <3>1, CountKeeps
  <2> QED BY <2>3, <2>5, <2>6
<1> QED BY <1>3, <1>4

LEMMA CountStep == TypeOK /\ NamesAreCounted /\ [Next]_vars => NamesAreCounted'
<1> SUFFICES ASSUME TypeOK, NamesAreCounted, [Next]_vars PROVE NamesAreCounted'
  OBVIOUS
<1>0. TypeOK'
  BY TypeStep
<1>1. /\ bot.gen \in 1..MaxBots /\ \A t \in Tasks : task[t].gen \in 1..MaxBots
      /\ task \in [Tasks -> Handler] /\ chat \in [1..MaxBots -> Chat]
  BY DEF TypeOK, Handler
<1>2. CASE task' = task /\ chat' = chat /\ made' = made
  BY <1>0, <1>2, CountKeeps DEF Held, Owed
<1>3. CASE Menu
  <2>1. Owed' \subseteq Owed /\ Held' \subseteq Held /\ made' = made
    BY <1>1, <1>3, BlankOwes DEF Menu, Say, Held
  <2> QED BY <1>0, <2>1, CountKeeps
<1>4. CASE TypeFreely
  <2>1. Held' \subseteq Held /\ made' = made
    BY <1>4 DEF TypeFreely, Held
  <2>2. Owed' \subseteq Owed
    <3>1. CASE Now.state = "name" /\ Say([Now EXCEPT !.named = TRUE, !.state = "data_limit"])
      <4>1. bot.gen \in Owed
        BY <1>1, <3>1 DEF Owed, Now
      <4>2. [Now EXCEPT !.named = TRUE, !.state = "data_limit"] \in Chat
        BY NowType DEF Chat, States
      <4> QED BY <1>1, <3>1, <4>1, <4>2, ChatOwes DEF Say
    <3>2. CASE Say([Now EXCEPT !.state = "duration"])
      <4> DEFINE c == [Now EXCEPT !.state = "duration"]
      <4>1. c \in Chat /\ c.state # "name" /\ c.named = chat[bot.gen].named
        BY NowType DEF Chat, States, Now
      <4>2. chat' = [chat EXCEPT ![bot.gen] = c]
        BY <3>2 DEF Say
      <4> HIDE DEF c
      <4> QED BY <1>1, <4>1, <4>2, ChatOwes
    <3> QED BY <1>4, <3>1, <3>2 DEF TypeFreely
  <2> QED BY <1>0, <2>1, <2>2, CountKeeps
<1>5. CASE Regrants
  <2>1. \A t \in Tasks : task'[t].named = task[t].named
    BY <1>1, <1>5 DEF Regrants, Handler
  <2> QED BY <1>0, <1>5, <2>1, CountKeeps DEF Regrants, Held, Owed
<1>6. CASE Crash
  <2>1. Held' = {}
    BY <1>6 DEF Crash, Held, Done
  <2>2. Owed' = {}
    BY <1>6, ConstantsAssumption DEF Crash, Owed, Blank
  <2> QED BY <1>0, <1>6, <2>1, <2>2, CountKeeps DEF Crash
<1>7. ASSUME NEW k \in Keys, Reassigns(k) PROVE NamesAreCounted'
  <2>1. \A t \in Tasks : task'[t].named = task[t].named
    BY <1>1, <1>7 DEF Reassigns, Handler
  <2> QED BY <1>0, <1>7, <2>1, CountKeeps DEF Reassigns, Held, Owed
<1>8. ASSUME NEW t \in Tasks, Press(t) PROVE NamesAreCounted'
  <2>1. Held' \subseteq Held
    BY <1>8, HandlesHolds DEF Press
  <2> QED BY <1>0, <1>8, <2>1, CountKeeps DEF Press, Owed
<1>9. ASSUME NEW t \in Tasks, TypeName(t) PROVE NamesAreCounted'
  <2>1. Held' \subseteq Held /\ made' = made
    BY <1>9, HandlesHolds DEF TypeName
  <2>2. bot.gen \in Owed
    BY <1>1, <1>9 DEF TypeName, Owed, Now
  <2>3. [Now EXCEPT !.named = TRUE] \in Chat
    BY NowType DEF Chat
  <2>4. Owed' \subseteq Owed
    BY <1>1, <1>9, <2>2, <2>3, ChatOwes DEF TypeName, Say
  <2> QED BY <1>0, <2>1, <2>4, CountKeeps
<1>10. ASSUME NEW t \in Tasks, TypeDuration(t) PROVE NamesAreCounted'
  <2>1. Held' \subseteq Held
    BY <1>10, HandlesHolds DEF TypeDuration
  <2> QED BY <1>0, <1>10, <2>1, CountKeeps DEF TypeDuration, Owed
<1>11. ASSUME NEW t \in Tasks, TypeReply(t) PROVE NamesAreCounted'
  <2>1. Held' \subseteq Held
    BY <1>11, HandlesHolds DEF TypeReply
  <2>2. Owed' \subseteq Owed
    BY <1>1, <1>11, BlankOwes DEF TypeReply, Say
  <2> QED BY <1>0, <1>11, <2>1, <2>2, CountKeeps DEF TypeReply
<1>12. ASSUME NEW t \in Tasks, AdminRead(t) PROVE NamesAreCounted'
  <2>0. Next1(t) \in Handler /\ task[t] \in Handler
    BY <1>1, <1>12, NextType DEF AdminRead
  <2>1. CASE Gone(t) /\ made' = made /\ (Remember(t, Blank) \/ chat' = chat)
    <3>1. Held' \subseteq Held
      BY <2>1, GoneHolds
    <3>2. Owed' \subseteq Owed
      BY <1>1, <2>1, BlankOwes DEF Remember, Owed
    <3> QED BY <1>0, <2>1, <3>1, <3>2, CountKeeps
  <2>2. CASE Gone(t) /\ Begins(t) /\ admin # None
    <3>1. Held' \subseteq Held
      BY <2>2, GoneHolds
    <3>2. admin.credit \in BOOLEAN
      BY <2>2, ConstantsAssumption DEF TypeOK, Rights
    <3> DEFINE c == [Mem(t) EXCEPT !.credit = admin.credit]
    <3>3. CASE chat' = chat /\ made' = made
      BY <1>0, <3>1, <3>3, CountKeeps DEF Owed
    <3>4. CASE Remember(t, [c EXCEPT !.state = "server"]) /\ made' = made
      <4> DEFINE d == [c EXCEPT !.state = "server"]
      <4>1. d \in Chat /\ d.state # "name" /\ d.named = chat[task[t].gen].named
        BY <3>2, MemType DEF Chat, States, Mem
      <4>2. chat' = [chat EXCEPT ![task[t].gen] = d]
        BY <3>4 DEF Remember
      <4> HIDE DEF d
      <4>3. Owed' \subseteq Owed
        BY <1>1, <4>1, <4>2, ChatOwes
      <4> QED BY <1>0, <3>1, <3>4, <4>3, CountKeeps
    <3>5. ASSUME NEW s \in Servers, Remember(t, [c EXCEPT !.state = "name", !.sid = s]),
                 made' = [made EXCEPT !.asked = @ + 1]
          PROVE  NamesAreCounted'
      <4> DEFINE d == [c EXCEPT !.state = "name", !.sid = s]
      <4>1. d \in Chat
        BY <3>2, MemType DEF Chat, States
      <4>2. chat' = [chat EXCEPT ![task[t].gen] = d]
        BY <3>5 DEF Remember
      <4> HIDE DEF d
      <4>3. Owed' \subseteq Owed \cup {task[t].gen}
        BY <1>1, <4>1, <4>2, ChatOwes
      <4> QED BY <1>0, <3>1, <3>5, <4>3, CountAsks
    <3> QED BY <2>2, <3>3, <3>4, <3>5 DEF Begins
  <2>3. CASE /\ Gone(t) /\ Remember(t, [Mem(t) EXCEPT !.sid = task[t].sid, !.state = "name"])
             /\ made' = [made EXCEPT !.asked = @ + 1]
    <3>1. Held' \subseteq Held
      BY <2>3, GoneHolds
    <3>2. [Mem(t) EXCEPT !.sid = task[t].sid, !.state = "name"] \in Chat
      BY <2>0, MemType DEF Chat, States, Handler
    <3>3. Owed' \subseteq Owed \cup {task[t].gen}
      BY <1>1, <2>3, <3>2, ChatOwes DEF Remember
    <3> QED BY <1>0, <2>3, <3>1, <3>3, CountAsks
  <2>4. ASSUME NEW r, r = [Next1(t) EXCEPT !.who = admin], made' = made,
               Takes(t, r) \/ (Went(t, r) /\ chat' = chat)
        PROVE  NamesAreCounted'
    <3>1. r \in Handler /\ r.named = task[t].named
      BY <2>0, <2>4 DEF TypeOK, Handler, Next1
    <3>2. CASE Takes(t, r)
      BY <1>0, <2>4, <3>1, <3>2, TakesCounts
    <3>3. CASE Went(t, r) /\ chat' = chat
      BY <1>0, <2>4, <3>1, <3>3, WentHolds, CountKeeps DEF Owed
    <3> QED BY <2>4, <3>2, <3>3
  <2>5. CASE ~May(admin, task[t].at, task[t].sid) /\ task[t].at # "step_name"
    BY <1>12, <2>1, <2>5 DEF AdminRead
  <2>6. CASE ~(~May(admin, task[t].at, task[t].sid) /\ task[t].at # "step_name")
    <3>1. CASE task[t].at = "cb_new"
      BY <1>12, <2>2, <2>6, <3>1 DEF AdminRead, May
    <3>2. CASE task[t].at = "cb_new_server"
      BY <1>12, <2>3, <2>6, <3>2 DEF AdminRead
    <3>3. CASE task[t].at \notin {"cb_new", "cb_new_server"}
      BY <1>12, <2>4, <2>6, <3>3 DEF AdminRead
    <3> QED BY <3>1, <3>2, <3>3
  <2> QED BY <2>5, <2>6
<1>13. ASSUME NEW t \in Tasks, OwnerRead(t) PROVE NamesAreCounted'
  <2>1. Held' \subseteq Held /\ made' = made
    BY <1>13, GoneHolds, NextHolds DEF OwnerRead
  <2>2. \A state \in {"rename", "limit"} : Owed' \subseteq Owed \/
          ~Remember(t, [Mem(t) EXCEPT !.sid = task[t].sid, !.kid = task[t].kid, !.state = state])
    <3>1. SUFFICES ASSUME NEW state \in {"rename", "limit"},
                          Remember(t, [Mem(t) EXCEPT !.sid = task[t].sid, !.kid = task[t].kid,
                                                     !.state = state])
                   PROVE  Owed' \subseteq Owed
      OBVIOUS
    <3> DEFINE d == [Mem(t) EXCEPT !.sid = task[t].sid, !.kid = task[t].kid, !.state = state]
    <3>2. d \in Chat /\ d.state # "name" /\ d.named = chat[task[t].gen].named
      BY <1>1, MemType DEF Chat, States, Mem, Handler
    <3>3. chat' = [chat EXCEPT ![task[t].gen] = d]
      BY <3>1 DEF Remember
    <3> HIDE DEF d
    <3> QED BY <1>1, <3>2, <3>3, ChatOwes
  <2>3. Owed' \subseteq Owed
    BY <1>13, <2>2 DEF OwnerRead, Owed
  <2> QED BY <1>0, <2>1, <2>3, CountKeeps
<1>14. ASSUME NEW t \in Tasks, PackagesRead(t) PROVE NamesAreCounted'
  <2>1. Held' \subseteq Held /\ made' = made
    BY <1>14, GoneHolds DEF PackagesRead
  <2>2. CASE Remember(t, [Mem(t) EXCEPT !.state = "package"])
    <3> DEFINE d == [Mem(t) EXCEPT !.state = "package"]
    <3>2. d \in Chat /\ d.state # "name" /\ d.named = chat[task[t].gen].named
      BY MemType DEF Chat, States, Mem
    <3>3. chat' = [chat EXCEPT ![task[t].gen] = d]
      BY <2>2 DEF Remember
    <3> HIDE DEF d
    <3>4. Owed' \subseteq Owed
      BY <1>1, <3>2, <3>3, ChatOwes
    <3> QED BY <1>0, <2>1, <3>4, CountKeeps
  <2>3. CASE Remember(t, Blank) \/ chat' = chat
    <3>1. Owed' \subseteq Owed
      BY <1>1, <2>3, BlankOwes DEF Remember, Owed
    <3> QED BY <1>0, <2>1, <3>1, CountKeeps
  <2> QED BY <1>14, <2>2, <2>3 DEF PackagesRead
<1>15. ASSUME NEW t \in Tasks, Answered(t) PROVE NamesAreCounted'
  <2>1. Next1(t) \in Handler /\ task[t] \in Handler
    BY <1>1, <1>15, NextType DEF Answered
  <2>2. Next1(t).named = task[t].named
    BY <2>1 DEF Next1, Handler
  <2> QED BY <1>0, <1>15, <2>1, <2>2, TakesCounts DEF Answered
<1>16. ASSUME NEW t \in Tasks, Creates(t) PROVE NamesAreCounted'
  <2>1. Held' \subseteq Held \ {t} /\ Owed' = Owed
    BY <1>16, GoneHolds DEF Creates, Owed
  <2>2. CASE made' = made
    BY <1>0, <2>1, <2>2, CountKeeps
  <2>3. ASSUME task[t].named, NEW terms \in {"free", "sold"}, made' = [made EXCEPT ![terms] = @ + 1]
        PROVE  NamesAreCounted'
    <3>1. t \in Held
      BY <2>3 DEF Held
    <3> QED BY <1>0, <2>1, <2>3, <3>1, CountMakes
  <2>4. Terms(task[t].who, task[t].at) \in {"free", "sold", "refused"}
    BY DEF Terms
  <2> QED BY <1>16, <2>2, <2>3, <2>4 DEF Creates
<1>17. ASSUME NEW t \in Tasks, Looks(t) PROVE NamesAreCounted'
  <2> DEFINE r == [task[t] EXCEPT !.todo = AfterLook(task[t].at, Adopted(task[t].kid).off)]
  <2>1. r.named = task[t].named
    BY <1>1 DEF Handler
  <2>2. Went(t, r)
    BY <1>17 DEF Looks
  <2> HIDE DEF r
  <2> QED BY <1>0, <1>17, <2>1, <2>2, WentHolds, CountKeeps DEF Looks, Owed
<1>18. ASSUME NEW t \in Tasks, Adopts(t) \/ Calls(t) \/ Writes(t) PROVE NamesAreCounted'
  <2>1. Held' \subseteq Held
    BY <1>18, GoneHolds, NextHolds DEF Adopts, Calls, Writes
  <2> QED BY <1>0, <1>18, <2>1, CountKeeps DEF Adopts, Calls, Writes, Owed
<1> QED
  BY <1>2, <1>3, <1>4, <1>5, <1>6, <1>7, <1>8, <1>9, <1>10, <1>11, <1>12, <1>13, <1>14,
     <1>15, <1>16, <1>17, <1>18 DEF Next, SetBot, vars

-----------------------------------------------------------------------------
(* Nobody gets past a check *)

\* The steps that are no check and make nothing, and those that are no check.
LEMMA WorkOrder ==
  ASSUME NEW at, NEW off
  PROVE  /\ Work(at) \in Seq(Steps \ {"gate", "owns"})
         /\ at \notin Makers => Work(at) \in Seq(Steps \ {"gate", "owns", "answer", "create"})
         /\ AfterLook(at, off) \in Seq(CallSteps \cup RowSteps)
<1> DEFINE S == Steps \ {"gate", "owns", "answer", "create"}
<1>1. /\ <<>> \in Seq(S) /\ <<"packages">> \in Seq(S) /\ <<"look">> \in Seq(S)
  BY DEF Steps
<1>2. /\ <<"call_name", "row_name">> \in Seq(S)
      /\ <<"adopt", "call_cut", "row_off">> \in Seq(S)
      /\ <<"call_open", "row_on">> \in Seq(S)
      /\ <<"call_gone", "row_gone">> \in Seq(S)
  BY DEF Steps, CallSteps, RowSteps
<1>3. /\ <<"answer", "create">> \in Seq(Steps \ {"gate", "owns"})
      /\ <<"create">> \in Seq(Steps \ {"gate", "owns"})
  BY DEF Steps
<1>4. Seq(S) \subseteq Seq(Steps \ {"gate", "owns"})
  BY SeqMonotonic
<1>5. at \notin Makers => Work(at) \in Seq(S)
  BY <1>1, <1>2 DEF Work, Makers
<1>6. at \in Makers => Work(at) \in Seq(Steps \ {"gate", "owns"})
  BY <1>3 DEF Work, Makers
<1>7. AfterLook(at, off) \in Seq(CallSteps \cup RowSteps)
  <2> DEFINE C == CallSteps \cup RowSteps
  <2>1. /\ <<>> \in Seq(C) /\ <<"call_limit">> \in Seq(C) /\ <<"row_limit">> \in Seq(C)
        /\ <<"row_later">> \in Seq(C) /\ <<"call_open", "row_on">> \in Seq(C)
    BY DEF CallSteps, RowSteps
  <2> QED BY <2>1, ConcatProperties DEF AfterLook
<1> QED BY <1>4, <1>5, <1>6, <1>7

LEMMA PlanOrder ==
  ASSUME NEW at, NEW q, q.at = at, q.todo = Checks(at) \o Work(at)
  PROVE  Ordered(q) /\ q.todo # <<>> /\ q.todo[1] = "gate"
<1> DEFINE S == Steps \ {"gate", "owns"}
<1>1. q.todo # <<>> /\ q.todo[1] = "gate"
  BY PlanType
<1>2. CASE OnKeys(at)
  <2>1. Checks(at) = <<"gate", "owns">>
    BY <1>2 DEF Checks
  <2>2. Work(at) \in Seq(Steps \ {"gate", "owns", "answer", "create"})
    BY <1>2, WorkOrder DEF OnKeys, KeyHandlers, KeyButtons, Makers
  <2>3. <<"gate", "owns">> \in Seq(Steps) /\ Work(at) \in Seq(Steps)
    BY <2>1, PlanType
  <2>4. /\ Len(q.todo) = 2 + Len(Work(at)) /\ Len(Work(at)) \in Nat
        /\ q.todo \in Seq(Steps)
        /\ \A i \in 1..Len(q.todo) : q.todo[i] = IF i <= 2 THEN <<"gate", "owns">>[i]
                                                   ELSE Work(at)[i - 2]
    BY <2>1, <2>3, ConcatProperties, LenProperties
  <2>5. \A i \in 1..Len(Work(at)) : Work(at)[i] \notin {"gate", "owns", "answer", "create"}
    BY <2>2, ElementOfSeq
  <2>6. /\ q.todo[1] = "gate" /\ q.todo[2] = "owns"
        /\ \A i \in 3..Len(q.todo) : q.todo[i] \notin {"gate", "owns", "answer", "create"}
    BY <2>4, <2>5
  <2>7. DOMAIN q.todo = 1..Len(q.todo)
    BY <2>4, LenProperties
  <2> QED BY <1>1, <2>4, <2>6, <2>7 DEF Ordered
<1>3. CASE ~OnKeys(at)
  <2>1. Checks(at) = <<"gate">>
    BY <1>3 DEF Checks
  <2>2. Work(at) \in Seq(S)
    BY WorkOrder
  <2>3. <<"gate">> \in Seq(Steps) /\ Work(at) \in Seq(Steps)
    BY <2>1, PlanType
  <2>4. /\ Len(q.todo) = 1 + Len(Work(at)) /\ Len(Work(at)) \in Nat
        /\ q.todo \in Seq(Steps)
        /\ \A i \in 1..Len(q.todo) : q.todo[i] = IF i <= 1 THEN <<"gate">>[i]
                                                   ELSE Work(at)[i - 1]
    BY <2>1, <2>3, ConcatProperties, LenProperties
  <2>5. \A i \in 1..Len(Work(at)) : /\ Work(at)[i] \notin {"gate", "owns"}
                                    /\ Work(at)[i] \in {"answer", "create"} => at \in Makers
    <3>1. \A i \in 1..Len(Work(at)) : Work(at)[i] \in S
      BY <2>2, ElementOfSeq
    <3>2. CASE at \notin Makers
      <4>1. Work(at) \in Seq(Steps \ {"gate", "owns", "answer", "create"})
        BY <3>2, WorkOrder
      <4>2. \A i \in 1..Len(Work(at)) : Work(at)[i] \in Steps \ {"gate", "owns", "answer", "create"}
        BY <4>1, ElementOfSeq
      <4> QED BY <4>2
    <3> QED BY <3>1, <3>2
  <2>6. /\ q.todo[1] = "gate"
        /\ \A i \in 2..Len(q.todo) : /\ q.todo[i] \notin {"gate", "owns"}
                                     /\ q.todo[i] \in {"answer", "create"} => at \in Makers
    BY <2>4, <2>5
  <2>7. DOMAIN q.todo = 1..Len(q.todo)
    BY <2>4, LenProperties
  <2> QED BY <1>1, <1>3, <2>4, <2>6, <2>7 DEF Ordered
<1> QED BY <1>2, <1>3

\* A handler that has made its first step is as well ordered as before.
LEMMA TailOrder ==
  ASSUME TypeOK, NEW t \in Tasks, Ordered(task[t]), task[t].todo # <<>>,
         NEW q, q.at = task[t].at, q.todo = Tail(task[t].todo)
  PROVE  /\ Ordered(q)
         /\ q.todo # <<>> => q.todo[1] # "gate" /\ q.todo[1] = task[t].todo[2]
         /\ OnKeys(q.at) /\ task[t].todo[1] = "gate" => q.todo[1] = "owns"
         /\ task[t].todo[1] # "gate" /\ q.todo # <<>> => q.todo[1] # "owns"
<1> DEFINE s == task[t].todo
<1>1. s \in Seq(Steps) /\ s # <<>>
  BY DEF TypeOK, Handler
<1>2. /\ q.todo \in Seq(Steps) /\ Len(q.todo) = Len(s) - 1 /\ Len(s) \in Nat
      /\ \A i \in 1..Len(q.todo) : q.todo[i] = s[i + 1]
      /\ DOMAIN q.todo = 1..Len(q.todo) /\ DOMAIN s = 1..Len(s)
      /\ q.todo # <<>> => Len(q.todo) >= 1
  BY <1>1, HeadTailProperties, LenProperties, EmptySeq
<1>3. \A i \in DOMAIN s : /\ s[i] = "gate" => i = 1
                          /\ s[i] = "owns" => i = 1 \/ (i = 2 /\ s[1] = "gate")
                          /\ s[i] \in {"answer", "create"} => q.at \in Makers
  BY DEF Ordered
<1>4. OnKeys(q.at) /\ s[1] = "gate" => Len(s) > 1 /\ s[2] = "owns"
  BY <1>1 DEF Ordered
<1> HIDE DEF s
<1>5. \A i \in DOMAIN q.todo : /\ q.todo[i] # "gate"
                               /\ q.todo[i] = "owns" => i = 1
                               /\ q.todo[i] \in {"answer", "create"} => q.at \in Makers
  BY <1>2, <1>3
<1>6. q.todo # <<>> => q.todo[1] # "gate" /\ q.todo[1] = s[2] /\ 1 \in DOMAIN q.todo
  BY <1>2, <1>5
<1>7. Ordered(q)
  BY <1>5, <1>6 DEF Ordered
<1>8. s[1] # "gate" /\ q.todo # <<>> => q.todo[1] # "owns"
  BY <1>2, <1>3, <1>6
<1> QED BY <1>2, <1>4, <1>6, <1>7, <1>8 DEF s

\* What the helpers leave of the invariant, when the admin and the key's owner stay.
LEMMA StepSound ==
  ASSUME HandlerInv, NEW t \in Tasks, task' = [task EXCEPT ![t] = task'[t]],
         admin' = admin, \A k \in Keys : Mine(k)' => Mine(k), TypeOK, TypeOK',
         Ordered(task'[t]), Cleared(task'[t]), Aware(task'[t])
  PROVE  HandlerInv'
<1>1. \A u \in Tasks \ {t} : task'[u] = task[u]
  BY DEF TypeOK
<1>2. \A u \in Tasks : task'[u].kid \in Keys \cup {None}
  BY DEF TypeOK, Handler
<1>3. \A q : Ordered(q)' <=> Ordered(q)
  BY DEF Ordered
<1>4. ASSUME NEW u \in Tasks, Aware(task'[u]) PROVE Aware(task[u])'
  BY <1>2, <1>4 DEF Aware
<1>5. ASSUME NEW u \in Tasks, u # t PROVE Sound(task'[u])
  BY <1>1, <1>5 DEF HandlerInv
<1>6. \A u \in Tasks : Ordered(task'[u]) /\ Cleared(task'[u]) /\ Aware(task'[u])
  BY <1>5 DEF Sound
<1>7. \A u \in Tasks : Ordered(task[u])' /\ Cleared(task[u])' /\ Aware(task[u])'
  BY <1>4, <1>6 DEF Ordered, Cleared, Admitted
<1> QED BY <1>7 DEF HandlerInv, Sound

LEMMA DoneSound == Ordered(Done) /\ Cleared(Done) /\ Aware(Done)
BY DEF Ordered, Cleared, Aware, Done

LEMMA HandlesSound ==
  ASSUME TypeOK, TypeOK', HandlerInv, NEW t \in Tasks, NEW at, NEW sid, NEW kid,
         Handles(t, at, sid, kid), OnKeys(at) <=> kid # None,
         kid # None => sid = ServerOf[kid], UNCHANGED <<admin, row>>
  PROVE  HandlerInv'
<1> DEFINE q == [Done EXCEPT !.at = at, !.sid = sid, !.kid = kid, !.gen = bot.gen,
                             !.todo = Checks(at) \o Work(at), !.had = {admin} \ {None},
                             !.owned = kid # None /\ Mine(kid)]
<1>1. task' = [task EXCEPT ![t] = q]
  BY DEF Handles
<1>2. task'[t] = q /\ task' = [task EXCEPT ![t] = task'[t]]
  BY <1>1 DEF TypeOK
<1>3. /\ q.at = at /\ q.sid = sid /\ q.kid = kid /\ q.todo = Checks(at) \o Work(at)
      /\ q.had = {admin} \ {None} /\ q.owned = (kid # None /\ Mine(kid))
  BY DEF Done
<1> HIDE DEF q
<1>4. Ordered(q) /\ q.todo # <<>> /\ q.todo[1] = "gate"
  BY <1>3, PlanOrder
<1>5. Cleared(q)
  BY <1>4 DEF Cleared
<1>6. Aware(q)
  <2>1. q # Done
    BY <1>4 DEF Done
  <2>2. q.kid # None /\ Mine(q.kid) => q.owned
    BY <1>3
  <2> QED BY <1>3, <1>4, <2>1, <2>2 DEF Aware
<1>7. \A k \in Keys : Mine(k)' => Mine(k)
  BY DEF Mine
<1> QED BY <1>2, <1>4, <1>5, <1>6, <1>7, StepSound

LEMMA GoneSound ==
  ASSUME TypeOK, TypeOK', HandlerInv, NEW t \in Tasks, Gone(t),
         admin' = admin, \A k \in Keys : Mine(k)' => Mine(k)
  PROVE  HandlerInv'
<1>1. task'[t] = Done /\ task' = [task EXCEPT ![t] = task'[t]]
  BY DEF Gone, TypeOK
<1> QED BY <1>1, DoneSound, StepSound

\* A handler that goes on with what it has checked.
LEMMA WentSound ==
  ASSUME TypeOK, TypeOK', HandlerInv, NEW t \in Tasks, NEW q, Went(t, q),
         admin' = admin, \A k \in Keys : Mine(k)' => Mine(k),
         task[t].todo # <<>>, Ordered(q), Cleared(q),
         q.at = task[t].at, q.kid = task[t].kid, q.had = task[t].had, q.owned = task[t].owned,
         q.kid # None => q.sid = task[t].sid
  PROVE  HandlerInv'
<1>1. task'[t] \in {Done, q} /\ task' = [task EXCEPT ![t] = task'[t]]
  BY DEF Went, TypeOK
<1>2. CASE task'[t] = Done
  BY <1>1, <1>2, DoneSound, StepSound
<1>3. CASE task'[t] # Done
  <2>1. task'[t] = q /\ q.todo # <<>>
    BY <1>3 DEF Went, TypeOK
  <2>2. Aware(task[t]) /\ task[t] # Done
    BY DEF HandlerInv, Sound, Aware
  <2>3. Aware(q)
    BY <1>3, <2>1, <2>2 DEF Aware
  <2> QED BY <1>1, <2>1, <2>3, StepSound
<1> QED BY <1>2, <1>3

\* The next of two steps, neither of them a check.
LEMMA NextSound ==
  ASSUME TypeOK, TypeOK', HandlerInv, NEW t \in Tasks, NEW q, Went(t, q),
         admin' = admin, \A k \in Keys : Mine(k)' => Mine(k),
         NEW step, step \notin {"gate", "owns"}, Awaits(t, step),
         q.at = task[t].at, q.kid = task[t].kid, q.had = task[t].had, q.owned = task[t].owned,
         q.kid # None => q.sid = task[t].sid, q.who = task[t].who,
         q.todo = Tail(task[t].todo)
  PROVE  HandlerInv'
<1>1. task[t].todo # <<>> /\ task[t].todo[1] \notin {"gate", "owns"}
  BY DEF Awaits
<1>2. Ordered(task[t]) /\ Cleared(task[t]) /\ Aware(task[t]) /\ task[t] # Done
  BY <1>1 DEF HandlerInv, Sound, Aware
<1>3. Ordered(q) /\ (q.todo # <<>> => q.todo[1] \notin {"gate", "owns"})
  BY <1>1, <1>2, TailOrder
<1>4. OnKeys(q.at) => q.sid = task[t].sid
  BY <1>2 DEF Aware
<1>5. Cleared(q)
  BY <1>1, <1>2, <1>3, <1>4 DEF Cleared, Admitted
<1> QED BY <1>1, <1>3, <1>5, WentSound

LEMMA NextOf ==
  ASSUME TypeOK, NEW t \in Tasks
  PROVE  /\ Next1(t).at = task[t].at /\ Next1(t).kid = task[t].kid /\ Next1(t).sid = task[t].sid
         /\ Next1(t).had = task[t].had /\ Next1(t).owned = task[t].owned
         /\ Next1(t).who = task[t].who /\ Next1(t).todo = Tail(task[t].todo)
<1>1. task[t] \in Handler
  BY DEF TypeOK
<1> QED BY <1>1 DEF Next1, Handler

\* No step of a handler makes a key the user's own.
LEMMA MineStays ==
  ASSUME TypeOK, NEW t \in Tasks, Looks(t) \/ Adopts(t) \/ Writes(t)
  PROVE  \A k \in Keys : Mine(k)' => Mine(k)
<1> DEFINE k == task[t].kid
<1>1. \E r : row' = [row EXCEPT ![k] = r] /\ (k \in Keys /\ r.there /\ r.mine => Mine(k))
  <2>1. k \in Keys => row[k] \in [there : BOOLEAN, mine : BOOLEAN, off : BOOLEAN,
                                  set : SUBSET {"name", "limit", "date"}]
    BY DEF TypeOK
  <2>2. k \in Keys /\ Adopted(k).there /\ Adopted(k).mine => Mine(k)
    BY DEF Adopted, Mine
  <2>3. ASSUME k \in Keys
        PROVE  LET r == [Adopted(k) EXCEPT !.set = @ \cup {"name"}] IN r.there /\ r.mine => Mine(k)
    <3>1. Adopted(k) \in [there : BOOLEAN, mine : BOOLEAN, off : BOOLEAN,
                          set : SUBSET {"name", "limit", "date"}]
      BY <2>1, <2>3 DEF Adopted
    <3> QED BY <2>2, <2>3, <3>1
  <2> HIDE DEF k
  <2>4. CASE row' = [row EXCEPT ![k] = Adopted(k)]
    BY <2>2, <2>4
  <2>5. CASE row' = [row EXCEPT ![k] = [Adopted(k) EXCEPT !.set = @ \cup {"name"}]]
    BY <2>3, <2>5
  <2>6. CASE row' = [row EXCEPT ![k] = row[k]]
    BY <2>6 DEF Mine
  <2>7. ASSUME NEW x, row' = [row EXCEPT ![k] = [row[k] EXCEPT !.set = x]]
        PROVE  \E r : row' = [row EXCEPT ![k] = r] /\ (k \in Keys /\ r.there /\ r.mine => Mine(k))
    <3>1. k \in Keys => LET r == [row[k] EXCEPT !.set = x] IN r.there /\ r.mine => Mine(k)
      BY <2>1 DEF Mine
    <3> QED BY <2>7, <3>1
  <2>8. ASSUME NEW x, row' = [row EXCEPT ![k] = [row[k] EXCEPT !.off = x]]
        PROVE  \E r : row' = [row EXCEPT ![k] = r] /\ (k \in Keys /\ r.there /\ r.mine => Mine(k))
    <3>1. k \in Keys => LET r == [row[k] EXCEPT !.off = x] IN r.there /\ r.mine => Mine(k)
      BY <2>1 DEF Mine
    <3> QED BY <2>8, <3>1
  <2>9. CASE row' = [row EXCEPT ![k] = [row[k] EXCEPT !.there = FALSE]]
    <3>1. k \in Keys => ~[row[k] EXCEPT !.there = FALSE].there
      BY <2>1
    <3> QED BY <2>9, <3>1
  <2>10. CASE Looks(t) \/ Adopts(t)
    BY <2>4, <2>10 DEF Looks, Adopts, k
  <2>11. CASE Writes(t)
    <3>1. \/ row' = [row EXCEPT ![k] = [Adopted(k) EXCEPT !.set = @ \cup {"name"}]]
          \/ row' = [row EXCEPT ![k] = row[k]]
          \/ row' = [row EXCEPT ![k] = [row[k] EXCEPT !.set = row[k].set \cup {"limit"}]]
          \/ row' = [row EXCEPT ![k] = [row[k] EXCEPT !.set = row[k].set \cup {"date"}]]
          \/ row' = [row EXCEPT ![k] = [row[k] EXCEPT !.off = TRUE]]
          \/ row' = [row EXCEPT ![k] = [row[k] EXCEPT !.off = FALSE]]
          \/ row' = [row EXCEPT ![k] = [row[k] EXCEPT !.there = FALSE]]
      BY <2>11 DEF Writes, k
    <3> QED BY <2>5, <2>6, <2>7, <2>8, <2>9, <3>1
  <2> QED BY <2>10, <2>11
<1> HIDE DEF k
<1>2. PICK r : row' = [row EXCEPT ![k] = r] /\ (k \in Keys /\ r.there /\ r.mine => Mine(k))
  BY <1>1
<1>3. row \in [Keys -> [there : BOOLEAN, mine : BOOLEAN, off : BOOLEAN,
                        set : SUBSET {"name", "limit", "date"}]]
  BY DEF TypeOK
<1> QED BY <1>2, <1>3 DEF Mine

LEMMA HandlerStep == TypeOK /\ TargetIsOne /\ HandlerInv /\ [Next]_vars => HandlerInv'
<1> SUFFICES ASSUME TypeOK, TargetIsOne, HandlerInv, [Next]_vars PROVE HandlerInv'
  OBVIOUS
<1>0. TypeOK'
  BY TypeStep
<1>1. /\ bot.gen \in 1..MaxBots /\ task \in [Tasks -> Handler] /\ chat \in [1..MaxBots -> Chat]
  BY DEF TypeOK
<1>2. None \notin Keys /\ None \notin Grants
  BY ConstantsAssumption
<1>3. CASE task' = task /\ admin' = admin /\ row' = row
  <2>1. ASSUME NEW t \in Tasks PROVE Sound(task[t])'
    <3>1. Sound(task[t])
      BY DEF HandlerInv
    <3> QED BY <1>3, <3>1 DEF Sound, Ordered, Cleared, Admitted, Aware, Mine
  <2> QED BY <2>1 DEF HandlerInv
<1>4. CASE Regrants
  <2> SUFFICES ASSUME NEW t \in Tasks PROVE Sound(task[t])'
    BY DEF HandlerInv
  <2>1. Sound(task[t]) /\ row' = row /\ task[t] \in Handler /\ admin' \in Grants \cup {None}
    BY <1>1, <1>4 DEF HandlerInv, Regrants
  <2>2. CASE task[t] = Done
    <3>1. task'[t] = Done
      BY <1>4, <2>2 DEF Regrants
    <3> QED BY <2>1, <3>1 DEF Sound, Ordered, Cleared, Admitted, Aware, Done
  <2>3. CASE task[t] # Done
    <3> DEFINE q == task'[t]
    <3>1. q = [task[t] EXCEPT !.had = task[t].had \cup ({admin'} \ {None})]
      BY <1>4, <2>3 DEF Regrants
    <3>2. /\ q.at = task[t].at /\ q.kid = task[t].kid /\ q.sid = task[t].sid
          /\ q.owned = task[t].owned /\ q.who = task[t].who /\ q.todo = task[t].todo
          /\ q.had = task[t].had \cup ({admin'} \ {None})
      BY <2>1, <3>1 DEF Handler
    <3> HIDE DEF q
    <3>3. Ordered(q)
      BY <2>1, <3>2 DEF Sound, Ordered
    <3>4. Cleared(q)
      BY <2>1, <3>2 DEF Sound, Cleared, Admitted
    <3>5. q # Done
      BY <2>1, <2>3, <3>2 DEF Sound, Aware, Done
    <3>6. q.kid # None /\ row[q.kid].there /\ row[q.kid].mine => q.owned
      BY <2>1, <2>3, <3>2 DEF Sound, Aware, Mine
    <3>9. admin' # None => admin' \in q.had
      BY <2>1, <3>2
    <3>7. /\ q.todo = <<>> <=> q = Done
          /\ OnKeys(q.at) <=> q.kid # None
          /\ q.kid # None => q.sid = ServerOf[q.kid]
      BY <2>1, <2>3, <3>2, <3>5 DEF Sound, Aware
    <3>8. Ordered(task[t])' /\ Cleared(task[t])'
      BY <3>3, <3>4 DEF q, Ordered, Cleared, Admitted
    <3>10. Aware(task[t])'
      BY <2>1, <3>5, <3>6, <3>7, <3>9 DEF q, Aware, Mine
    <3> QED BY <3>8, <3>10 DEF Sound
  <2> QED BY <2>2, <2>3
<1>5. CASE Crash
  <2>1. ASSUME NEW t \in Tasks PROVE Sound(task[t])'
    <3>1. task'[t] = Done
      BY <1>5 DEF Crash
    <3> QED BY <3>1 DEF Sound, Ordered, Cleared, Admitted, Aware, Done
  <2> QED BY <2>1 DEF HandlerInv
<1>6. ASSUME NEW k \in Keys, Reassigns(k) PROVE HandlerInv'
  <2> SUFFICES ASSUME NEW t \in Tasks PROVE Sound(task[t])'
    BY DEF HandlerInv
  <2>1. Sound(task[t]) /\ admin' = admin /\ task[t] \in Handler
    BY <1>1, <1>6 DEF HandlerInv, Reassigns
  <2>3. Mine(k)' => ~row[k].mine
    <3>1. row'[k].mine = ~row[k].mine
      BY <1>6 DEF Reassigns, TypeOK
    <3> QED BY <3>1 DEF Mine
  <2>4. CASE task[t].kid # k
    <3>1. task'[t] = task[t]
      BY <1>1, <1>6, <2>4 DEF Reassigns
    <3>2. task[t].kid # None /\ Mine(task[t].kid)' => Mine(task[t].kid)
      <4>1. task[t].kid # None => row'[task[t].kid] = row[task[t].kid]
        BY <1>6, <2>1, <2>4 DEF Reassigns, Handler, TypeOK
      <4> QED BY <3>1, <4>1 DEF Mine
    <3>3. Ordered(task[t])' /\ Cleared(task[t])'
      BY <2>1, <3>1 DEF Sound, Ordered, Cleared, Admitted
    <3>4. Aware(task[t])'
      BY <2>1, <3>1, <3>2 DEF Sound, Aware
    <3> QED BY <3>3, <3>4 DEF Sound
  <2>5. CASE task[t].kid = k
    <3> DEFINE q == task'[t]
    <3>1. q = [task[t] EXCEPT !.owned = task[t].owned \/ ~row[k].mine]
      BY <1>1, <1>6, <2>5 DEF Reassigns
    <3>2. /\ q.at = task[t].at /\ q.kid = task[t].kid /\ q.sid = task[t].sid
          /\ q.who = task[t].who /\ q.todo = task[t].todo /\ q.had = task[t].had
      BY <2>1, <3>1 DEF Handler
    <3>3. /\ task[t].owned => q.owned
          /\ ~row[k].mine => q.owned
      BY <2>1, <3>1 DEF Handler
    <3>4. task[t] # Done
      BY <1>2, <2>5 DEF Done
    <3> HIDE DEF q
    <3>5. q # Done
      BY <2>1, <3>2, <3>4 DEF Sound, Aware, Done
    <3>6. Ordered(q) /\ Cleared(q)
      BY <2>1, <3>2, <3>3 DEF Sound, Ordered, Cleared, Admitted
    <3>7. /\ q.todo = <<>> <=> q = Done
          /\ admin # None => admin \in q.had
          /\ Mine(k)' => q.owned
          /\ OnKeys(q.at) <=> q.kid # None
          /\ q.kid # None => q.sid = ServerOf[q.kid]
      BY <2>1, <2>3, <3>2, <3>3, <3>4, <3>5 DEF Sound, Aware
    <3>8. Ordered(task[t])' /\ Cleared(task[t])'
      BY <3>6 DEF q, Ordered, Cleared, Admitted
    <3>9. q.kid = k
      BY <2>5, <3>2
    <3>10. Aware(task[t])'
      BY <2>1, <3>5, <3>7, <3>9 DEF q, Aware
    <3> QED BY <3>8, <3>10 DEF Sound
  <2> QED BY <2>4, <2>5
<1>7. ASSUME NEW t \in Tasks, Press(t) PROVE HandlerInv'
  <2>1. UNCHANGED <<admin, row>>
    BY <1>7 DEF Press
  <2>2. /\ ~OnKeys("cb_new") /\ ~OnKeys("cb_new_server") /\ ~OnKeys("cb_new_package")
        /\ \A at \in KeyButtons : OnKeys(at)
    BY DEF OnKeys, KeyHandlers, KeyButtons
  <2>3. \A k \in Keys : k # None
    BY <1>2
  <2>4. PICK at, sid, kid : /\ Handles(t, at, sid, kid)
                            /\ OnKeys(at) <=> kid # None
                            /\ kid # None => sid = ServerOf[kid]
    BY <1>7, <2>2, <2>3 DEF Press
  <2>5. TypeOK /\ TypeOK' /\ HandlerInv
    BY <1>0
  <2> QED BY <2>1, <2>4, <2>5, HandlesSound
<1>8. ASSUME NEW t \in Tasks, TypeName(t) \/ TypeDuration(t) PROVE HandlerInv'
  <2>1. ~OnKeys("step_name") /\ ~OnKeys("step_duration")
    BY DEF OnKeys, KeyHandlers, KeyButtons
  <2> QED BY <1>0, <1>8, <2>1, HandlesSound DEF TypeName, TypeDuration
<1>9. ASSUME NEW t \in Tasks, TypeReply(t) PROVE HandlerInv'
  <2>1. OnKeys("step_rename") /\ OnKeys("step_set_limit")
    BY DEF OnKeys, KeyHandlers
  <2>2. Now.kid # None /\ Now.sid = ServerOf[Now.kid]
    BY <1>1, <1>9 DEF TypeReply, Now, TargetIsOne
  <2> QED BY <1>0, <1>9, <2>1, <2>2, HandlesSound DEF TypeReply
<1>10. ASSUME NEW t \in Tasks, AdminRead(t) PROVE HandlerInv'
  <2>1. /\ task[t].todo # <<>> /\ task[t].todo[1] = "gate" /\ admin' = admin
        /\ \A k \in Keys : Mine(k)' => Mine(k)
    BY <1>10 DEF AdminRead, Awaits, Mine
  <2>2. Ordered(task[t]) /\ Cleared(task[t]) /\ Aware(task[t]) /\ task[t] # Done
    BY <2>1 DEF HandlerInv, Sound, Aware
  <2>3. CASE Gone(t)
    BY <1>0, <2>1, <2>3, GoneSound
  <2>4. ASSUME NEW q, Went(t, q), q.at = task[t].at, q.kid = task[t].kid, q.had = task[t].had,
               q.owned = task[t].owned, q.kid # None => q.sid = task[t].sid,
               q.who = admin, q.todo = Tail(task[t].todo),
               May(admin, q.at, task[t].sid) \/ q.at = "step_name"
        PROVE  HandlerInv'
    <3>1. Ordered(q) /\ (OnKeys(q.at) => q.todo[1] = "owns")
      BY <2>1, <2>2, <2>4, TailOrder
    <3>2. q.at # "step_name" => q.who \in q.had
      BY <2>2, <2>4 DEF Aware, May
    <3>3. OnKeys(q.at) => q.sid = task[t].sid /\ q.at # "step_name"
      BY <2>2, <2>4 DEF Aware, OnKeys, KeyHandlers, KeyButtons
    <3>4. Cleared(q)
      BY <2>4, <3>1, <3>2, <3>3 DEF Cleared
    <3> QED BY <1>0, <2>1, <2>4, <3>1, <3>4, WentSound
  <2>5. ASSUME ~Gone(t),
               May(admin, task[t].at, task[t].sid) \/ task[t].at = "step_name"
        PROVE  HandlerInv'
    <3> DEFINE r == [Next1(t) EXCEPT !.who = admin]
    <3>1. Next1(t) \in Handler
      BY <1>10, NextType DEF AdminRead
    <3>2. /\ r.at = task[t].at /\ r.kid = task[t].kid /\ r.had = task[t].had /\ r.sid = task[t].sid
          /\ r.owned = task[t].owned /\ r.who = admin /\ r.todo = Tail(task[t].todo)
          /\ r \in Handler
      BY <3>1, NextOf DEF Handler, TypeOK
    <3>3. CASE task[t].at = "step_duration"
      <4> DEFINE q == [r EXCEPT !.sid = Mem(t).sid, !.named = Mem(t).named]
      <4>1. Went(t, q)
        BY <1>10, <2>5, <3>3 DEF AdminRead, Takes
      <4>2. /\ q.at = task[t].at /\ q.kid = task[t].kid /\ q.had = task[t].had
            /\ q.owned = task[t].owned /\ q.who = admin /\ q.todo = Tail(task[t].todo)
        BY <3>2 DEF Handler
      <4>3. q.kid = None
        BY <2>2, <3>3, <4>2 DEF Aware, OnKeys, KeyHandlers, KeyButtons
      <4> HIDE DEF q, r
      <4> QED BY <2>4, <2>5, <4>1, <4>2, <4>3
    <3>4. CASE task[t].at # "step_duration"
      <4>1. Went(t, r)
        BY <1>10, <2>5, <3>4 DEF AdminRead
      <4> HIDE DEF r
      <4> QED BY <2>4, <2>5, <3>2, <4>1
    <3> QED BY <3>3, <3>4
  <2>6. CASE ~May(admin, task[t].at, task[t].sid) /\ task[t].at # "step_name"
    BY <1>10, <2>3, <2>6 DEF AdminRead
  <2> QED BY <2>3, <2>5, <2>6
<1>11. ASSUME NEW t \in Tasks, OwnerRead(t) PROVE HandlerInv'
  <2>1. /\ task[t].todo # <<>> /\ task[t].todo[1] = "owns" /\ admin' = admin
        /\ \A k \in Keys : Mine(k)' => Mine(k)
    BY <1>11 DEF OwnerRead, Awaits, Mine
  <2>2. Ordered(task[t]) /\ Cleared(task[t]) /\ Aware(task[t]) /\ task[t] # Done
    BY <2>1 DEF HandlerInv, Sound, Aware
  <2>3. CASE Gone(t)
    BY <1>0, <2>1, <2>3, GoneSound
  <2>4. CASE Mine(task[t].kid) /\ ~(IsFree(task[t].at) /\ task[t].who.credit) /\ Went(t, Next1(t))
    <3> DEFINE q == Next1(t)
    <3>1. /\ q.at = task[t].at /\ q.kid = task[t].kid /\ q.sid = task[t].sid
          /\ q.had = task[t].had /\ q.owned = task[t].owned /\ q.who = task[t].who
          /\ q.todo = Tail(task[t].todo)
      BY NextOf
    <3> HIDE DEF q
    <3>2. Ordered(q) /\ (q.todo # <<>> => q.todo[1] \notin {"gate", "owns"})
      BY <2>1, <2>2, <3>1, TailOrder
    <3>3. OnKeys(q.at) => Admitted(q)
      <4>1. SUFFICES ASSUME OnKeys(q.at) PROVE Admitted(q)
        OBVIOUS
      <4>2. q.at # "step_name"
        BY <4>1 DEF OnKeys, KeyHandlers, KeyButtons
      <4>3. task[t].who \in task[t].had /\ May(task[t].who, task[t].at, task[t].sid)
        BY <2>1, <2>2, <3>1, <4>1, <4>2 DEF Cleared
      <4>4. task[t].owned
        BY <2>2, <2>4, <3>1, <4>1 DEF Aware
      <4> QED BY <2>4, <3>1, <4>3, <4>4 DEF Admitted
    <3>4. Cleared(q)
      BY <2>1, <2>2, <3>1, <3>2, <3>3 DEF Cleared
    <3>5. Went(t, q)
      BY <2>4 DEF q
    <3> QED BY <1>0, <2>1, <3>1, <3>2, <3>4, <3>5, WentSound
  <2> QED BY <1>11, <2>3, <2>4 DEF OwnerRead
<1>12. ASSUME NEW t \in Tasks, PackagesRead(t) \/ Creates(t) PROVE HandlerInv'
  <2>1. Gone(t) /\ UNCHANGED <<admin, row>>
    BY <1>12 DEF PackagesRead, Creates
  <2> QED BY <1>0, <2>1, GoneSound DEF Mine
<1>13. ASSUME NEW t \in Tasks, Answered(t) PROVE HandlerInv'
  <2>1. Awaits(t, "answer") /\ admin' = admin /\ \A k \in Keys : Mine(k)' => Mine(k)
    BY <1>13 DEF Answered, Mine
  <2>2. CASE Gone(t)
    BY <1>0, <2>1, <2>2, GoneSound
  <2>3. CASE ~Gone(t)
    <3> DEFINE q == [Next1(t) EXCEPT !.sid = Mem(t).sid, !.named = Mem(t).named]
    <3>1. Went(t, q)
      BY <1>13, <2>3 DEF Answered, Takes
    <3>2. Next1(t) \in Handler
      BY <2>1, NextType
    <3>3. /\ q.at = task[t].at /\ q.kid = task[t].kid /\ q.had = task[t].had
          /\ q.owned = task[t].owned /\ q.who = task[t].who /\ q.todo = Tail(task[t].todo)
      BY <3>2, NextOf DEF Handler
    <3>4. task[t].kid = None
      <4>1. Ordered(task[t]) /\ Aware(task[t]) /\ task[t] # Done
        BY <2>1 DEF HandlerInv, Sound, Aware, Awaits
      <4>2. 1 \in DOMAIN task[t].todo /\ task[t].todo[1] = "answer"
        BY <1>1, <2>1, LenProperties, EmptySeq DEF Awaits, Handler
      <4> QED BY <4>1, <4>2 DEF Ordered, Aware, OnKeys, KeyHandlers, KeyButtons, Makers
    <3> HIDE DEF q
    <3> QED BY <1>0, <2>1, <3>1, <3>3, <3>4, NextSound
  <2> QED BY <2>2, <2>3
<1>14. ASSUME NEW t \in Tasks, Looks(t) PROVE HandlerInv'
  <2> DEFINE s == AfterLook(task[t].at, Adopted(task[t].kid).off)
             q == [task[t] EXCEPT !.todo = s]
  <2>1. Went(t, q) /\ Awaits(t, "look") /\ admin' = admin
    BY <1>14 DEF Looks
  <2>2. /\ q.at = task[t].at /\ q.kid = task[t].kid /\ q.had = task[t].had /\ q.sid = task[t].sid
        /\ q.owned = task[t].owned /\ q.who = task[t].who /\ q.todo = s
    BY <1>1 DEF Handler
  <2>3. s \in Seq(CallSteps \cup RowSteps)
    BY WorkOrder
  <2>4. \A i \in DOMAIN s : s[i] \notin {"gate", "owns", "answer", "create"}
    <3>1. \A i \in DOMAIN s : s[i] \in CallSteps \cup RowSteps
      BY <2>3, ElementOfSeq, LenProperties
    <3> QED BY <3>1 DEF CallSteps, RowSteps
  <2>5. s # <<>> => 1 \in DOMAIN s
    BY <2>3, LenProperties, EmptySeq
  <2> HIDE DEF q, s
  <2>6. Ordered(q)
    BY <2>2, <2>4, <2>5 DEF Ordered
  <2>7. Cleared(task[t]) /\ Aware(task[t]) /\ task[t] # Done /\ task[t].todo # <<>>
        /\ task[t].todo[1] = "look"
    BY <2>1 DEF HandlerInv, Sound, Aware, Awaits
  <2>8. Cleared(q)
    BY <2>2, <2>7 DEF Cleared, Admitted
  <2> QED BY <1>0, <1>14, <2>1, <2>2, <2>6, <2>7, <2>8, MineStays, WentSound
<1>15. ASSUME NEW t \in Tasks, Adopts(t) \/ Calls(t) \/ Writes(t) PROVE HandlerInv'
  <2>1. /\ Gone(t) \/ Went(t, Next1(t))
        /\ admin' = admin
    BY <1>15 DEF Adopts, Calls, Writes
  <2>5. \A k \in Keys : Mine(k)' => Mine(k)
    <3>1. CASE Adopts(t) \/ Writes(t)
      BY <3>1, MineStays
    <3>2. CASE Calls(t)
      BY <3>2 DEF Calls, Mine
    <3> QED BY <1>15, <3>1, <3>2
  <2>2. \E step : step \notin {"gate", "owns"} /\ Awaits(t, step)
    <3>1. Adopts(t) => Awaits(t, "adopt")
      BY DEF Adopts
    <3>2. Calls(t) => \E step \in CallSteps : Awaits(t, step)
      BY DEF Calls
    <3>3. Writes(t) => \E step \in RowSteps : Awaits(t, step)
      BY DEF Writes
    <3>4. \A step \in CallSteps \cup RowSteps \cup {"adopt"} : step \notin {"gate", "owns"}
      BY DEF CallSteps, RowSteps
    <3> QED BY <1>15, <3>1, <3>2, <3>3, <3>4
  <2>3. CASE Gone(t)
    BY <1>0, <2>1, <2>3, <2>5, GoneSound
  <2>4. CASE Went(t, Next1(t))
    BY <1>0, <2>1, <2>2, <2>4, <2>5, NextOf, NextSound
  <2> QED BY <2>1, <2>3, <2>4
<1> QED
  BY <1>3, <1>4, <1>5, <1>6, <1>7, <1>8, <1>9, <1>10, <1>11, <1>12, <1>13, <1>14, <1>15
  DEF Next, Menu, TypeFreely, SetBot, vars

-----------------------------------------------------------------------------
(* A reply is about the key that was chosen *)

\* A dialog that is written with a key and its server.
LEMMA TargetKept ==
  ASSUME TypeOK, TargetIsOne, NEW g, NEW c, chat' = [chat EXCEPT ![g] = c],
         c.state \in {"rename", "limit"} => c.kid # None /\ c.sid = ServerOf[c.kid]
  PROVE  TargetIsOne'
BY DEF TypeOK, TargetIsOne

LEMMA BlankTarget == Blank.state \notin {"rename", "limit"}
BY ConstantsAssumption DEF Blank

LEMMA TakesTarget ==
  ASSUME TypeOK, TargetIsOne, NEW t \in Tasks, NEW r, Takes(t, r)
  PROVE  TargetIsOne'
BY TargetKept, BlankTarget DEF Takes, Remember, Taken

LEMMA TargetStep == TypeOK /\ HandlerInv /\ TargetIsOne /\ [Next]_vars => TargetIsOne'
<1> SUFFICES ASSUME TypeOK, HandlerInv, TargetIsOne, [Next]_vars PROVE TargetIsOne'
  OBVIOUS
<1>1. Now \in Chat /\ \A t \in Tasks : Mem(t) \in Chat
  BY NowType, MemType
<1>2. CASE chat' = chat
  BY <1>2 DEF TargetIsOne
<1>3. CASE Menu \/ \E t \in Tasks : TypeReply(t)
  BY <1>3, TargetKept, BlankTarget DEF Menu, TypeReply, Say
<1>4. CASE TypeFreely
  <2>1. ASSUME NEW s \in {"data_limit", "duration"}, Say([Now EXCEPT !.state = s])
        PROVE  TargetIsOne'
    <3>1. [Now EXCEPT !.state = s].state \notin {"rename", "limit"}
      BY <1>1, <2>1 DEF Chat
    <3> QED BY <2>1, <3>1, TargetKept DEF Say
  <2>2. ASSUME Say([Now EXCEPT !.named = TRUE, !.state = "data_limit"]) PROVE TargetIsOne'
    <3>1. [Now EXCEPT !.named = TRUE, !.state = "data_limit"].state \notin {"rename", "limit"}
      BY <1>1 DEF Chat
    <3> QED BY <2>2, <3>1, TargetKept DEF Say
  <2> QED BY <1>4, <2>1, <2>2 DEF TypeFreely
<1>5. ASSUME NEW t \in Tasks, TypeName(t) PROVE TargetIsOne'
  <2>1. [Now EXCEPT !.named = TRUE].state = "name"
    BY <1>1, <1>5 DEF TypeName, Chat
  <2> QED BY <1>5, <2>1, TargetKept DEF TypeName, Say
<1>6. CASE Crash
  BY <1>6, BlankTarget DEF Crash, TargetIsOne
<1>7. ASSUME NEW t \in Tasks, AdminRead(t) PROVE TargetIsOne'
  <2>1. CASE Remember(t, Blank)
    BY <2>1, TargetKept, BlankTarget DEF Remember
  <2>2. CASE Begins(t)
    <3> DEFINE c == [Mem(t) EXCEPT !.credit = admin.credit]
               d(s) == [c EXCEPT !.state = "name", !.sid = s]
    <3>1. [c EXCEPT !.state = "server"].state = "server" /\ \A s : d(s).state = "name"
      BY <1>1 DEF Chat
    <3>2. \/ chat' = chat
          \/ Remember(t, [c EXCEPT !.state = "server"])
          \/ \E s \in Servers : Remember(t, d(s))
      BY <2>2, Zenon DEF Begins
    <3> HIDE DEF c, d
    <3>3. CASE Remember(t, [c EXCEPT !.state = "server"])
      BY <3>1, <3>3, TargetKept DEF Remember
    <3>4. ASSUME NEW s, Remember(t, d(s)) PROVE TargetIsOne'
      BY <3>1, <3>4, TargetKept DEF Remember
    <3> QED BY <1>2, <3>2, <3>3, <3>4
  <2>3. CASE Remember(t, [Mem(t) EXCEPT !.sid = task[t].sid, !.state = "name"])
    <3>1. [Mem(t) EXCEPT !.sid = task[t].sid, !.state = "name"].state = "name"
      BY <1>1 DEF Chat
    <3> QED BY <2>3, <3>1, TargetKept DEF Remember
  <2> QED BY <1>2, <1>7, <2>1, <2>2, <2>3, TakesTarget DEF AdminRead
<1>8. ASSUME NEW t \in Tasks, OwnerRead(t) PROVE TargetIsOne'
  <2> DEFINE c(s) == [Mem(t) EXCEPT !.sid = task[t].sid, !.kid = task[t].kid, !.state = s]
  <2>1. Aware(task[t]) /\ task[t].todo # <<>>
    BY <1>8 DEF HandlerInv, Sound, OwnerRead, Awaits
  <2>2. \A s : c(s).kid = task[t].kid /\ c(s).sid = task[t].sid
    BY <1>1 DEF Chat
  <2>3. \/ chat' = chat
        \/ task[t].at \in {"cb_rename", "cb_limit"} /\ \E s : Remember(t, c(s))
    BY <1>8, Zenon DEF OwnerRead
  <2> HIDE DEF c
  <2>4. task[t].at \in {"cb_rename", "cb_limit"} =>
          task[t].kid # None /\ task[t].sid = ServerOf[task[t].kid]
    BY <2>1 DEF Aware, Done, OnKeys, KeyHandlers, KeyButtons
  <2>5. ASSUME NEW s, task[t].at \in {"cb_rename", "cb_limit"}, Remember(t, c(s))
        PROVE  TargetIsOne'
    BY <2>2, <2>4, <2>5, TargetKept DEF Remember
  <2> QED BY <1>2, <2>3, <2>5
<1>9. ASSUME NEW t \in Tasks, PackagesRead(t) PROVE TargetIsOne'
  <2>1. [Mem(t) EXCEPT !.state = "package"].state = "package"
    BY <1>1 DEF Chat
  <2>2. CASE Remember(t, [Mem(t) EXCEPT !.state = "package"])
    BY <2>1, <2>2, TargetKept DEF Remember
  <2>3. CASE Remember(t, Blank)
    BY <2>3, TargetKept, BlankTarget DEF Remember
  <2> QED BY <1>2, <1>9, <2>2, <2>3 DEF PackagesRead
<1>10. ASSUME NEW t \in Tasks, Answered(t) PROVE TargetIsOne'
  BY <1>10, TakesTarget DEF Answered
<1>11. ASSUME NEW t \in Tasks,
              Press(t) \/ TypeDuration(t) \/ Creates(t) \/ Looks(t) \/ Adopts(t) \/ Calls(t) \/ Writes(t)
       PROVE  chat' = chat
  BY <1>11 DEF Press, TypeDuration, Creates, Looks, Adopts, Calls, Writes
<1>12. CASE Regrants \/ SetBot \/ UNCHANGED vars \/ \E k \in Keys : Reassigns(k)
  BY <1>2, <1>12 DEF Regrants, SetBot, Reassigns, vars
<1> QED
  BY <1>2, <1>3, <1>4, <1>5, <1>6, <1>7, <1>8, <1>9, <1>10, <1>11, <1>12 DEF Next

-----------------------------------------------------------------------------
(* The theorems *)

LEMMA Initially == Init => HandlerInv /\ TargetIsOne /\ NamesAreCounted
<1> SUFFICES ASSUME Init PROVE HandlerInv /\ TargetIsOne /\ NamesAreCounted
  OBVIOUS
<1>1. ASSUME NEW t \in Tasks PROVE Sound(task[t])
  <2>1. task[t] = Done
    BY DEF Init
  <2> QED BY <2>1, DoneSound DEF Sound
<1>2. \A g \in 1..MaxBots : chat[g] = Blank
  BY DEF Init
<1>3. TargetIsOne
  BY <1>2, BlankTarget DEF TargetIsOne
<1>4. Owed = {}
  BY <1>2, ConstantsAssumption DEF Owed, Blank
<1>5. Held = {}
  BY DEF Held, Init, Done
<1>6. IsFiniteSet({}) /\ Cardinality({}) = 0
  BY FS_EmptySet
<1>7. NamesAreCounted
  BY <1>4, <1>5, <1>6 DEF NamesAreCounted, Init
<1> QED BY <1>1, <1>3, <1>7 DEF HandlerInv

\* What is remembered is of its kind, handlers know of the rights and the owner there
\* have been, replies are about one key, and names are counted.
THEOREM Bookkeeping == Spec => [](TypeOK /\ HandlerInv /\ TargetIsOne /\ NamesAreCounted)
BY TypeInitially, Initially, TypeStep, HandlerStep, TargetStep, CountStep, PTL DEF Spec

\* However dialogs, messages, changes of rights, restarts and crashes fall together, a
\* reply is about the key that was chosen, on its server, and a name that was asked for
\* becomes one key at most.
THEOREM DialogsHold == Spec => []BotInv
<1>1. TypeOK /\ TargetIsOne /\ NamesAreCounted => BotInv
  <2> SUFFICES ASSUME TypeOK, TargetIsOne, NamesAreCounted PROVE BotInv
    OBVIOUS
  <2>1. Cardinality(Held) \in Nat /\ Cardinality(Owed) \in Nat
    BY OwedFinite, FS_CardinalityType DEF NamesAreCounted
  <2>2. made.free \in Nat /\ made.sold \in Nat /\ made.asked \in Nat
    BY DEF TypeOK
  <2>3. OneKeyPerDialog
    BY <2>1, <2>2 DEF NamesAreCounted, OneKeyPerDialog
  <2> QED BY <2>3 DEF BotInv
<1> QED BY <1>1, Bookkeeping, PTL

\* A handler that is through with its checks is one whose user was allowed.
LEMMA ThroughIsAllowed ==
  ASSUME TypeOK, HandlerInv, NEW t \in Tasks, NEW step, Awaits(t, step),
         step \notin {"gate", "owns"}, task[t].kid \in Keys
  PROVE  Allowed(t)
<1>1. Cleared(task[t]) /\ Aware(task[t]) /\ task[t] # Done
  BY DEF HandlerInv, Sound, Awaits, Aware
<1>2. OnKeys(task[t].at)
  BY <1>1, ConstantsAssumption DEF Aware
<1> QED BY <1>1, <1>2 DEF Cleared, Admitted, Allowed, Awaits

\* A handler that does one step is not where it was.
LEMMA GoesOn ==
  ASSUME TypeOK, HandlerInv, NEW t \in Tasks, NEW step, Awaits(t, step),
         NEW q, Went(t, q),
         q.todo = Tail(task[t].todo) \/ (q.todo # <<>> => q.todo[1] # step)
  PROVE  task'[t] # task[t]
<1>1. task[t].todo \in Seq(Steps) /\ task[t].todo # <<>> /\ task[t].todo[1] = step
  BY DEF TypeOK, Handler, Awaits
<1>2. q.todo # <<>> => q.todo # task[t].todo
  <2>1. CASE q.todo = Tail(task[t].todo)
    <3>1. Len(Tail(task[t].todo)) = Len(task[t].todo) - 1 /\ Len(task[t].todo) \in Nat
      BY <1>1, HeadTailProperties, LenProperties
    <3> DEFINE n == Len(task[t].todo)
    <3>2. n \in Nat
      BY <3>1
    <3>3. n - 1 # n
      <4> HIDE DEF n
      <4> QED BY <3>2
    <3> QED BY <2>1, <3>1, <3>3, Zenon
  <2> QED BY <1>1, <2>1
<1>3. Done # task[t]
  BY <1>1 DEF Done
<1>4. task'[t] \in {Done, q} /\ (task'[t] = q => q.todo # <<>> \/ q = Done)
  BY DEF Went, TypeOK
<1> QED BY <1>2, <1>3, <1>4

\* A step that touches no key, or only the key of a handler that is through.
LEMMA NothingTouched ==
  ASSUME UNCHANGED <<outline, row>>, made'.free = made.free
  PROVE  EffectsAreAllowed
BY DEF EffectsAreAllowed, SameButOwner

LEMMA OneTouched ==
  ASSUME TypeOK, HandlerInv, NEW t \in Tasks, NEW step, Awaits(t, step),
         step \notin {"gate", "owns"}, task'[t] # task[t], made' = made,
         \A k \in Keys : task[t].kid # k => outline'[k] = outline[k] /\ row'[k] = row[k]
  PROVE  EffectsAreAllowed
<1>1. \A k \in Keys : task[t].kid # k => SameButOwner(k)
  BY DEF SameButOwner
<1>2. ASSUME task[t].kid \in Keys PROVE Allowed(t)
  BY <1>2, ThroughIsAllowed
<1> QED BY <1>1, <1>2 DEF EffectsAreAllowed

LEMMA BiteStep == TypeOK /\ HandlerInv /\ [Next]_vars => [EffectsAreAllowed]_vars
<1> SUFFICES ASSUME TypeOK, HandlerInv, Next PROVE EffectsAreAllowed
  BY DEF vars
<1>1. CASE Menu \/ TypeFreely \/ Regrants \/ SetBot \/ Crash
  BY <1>1, NothingTouched DEF Menu, TypeFreely, Regrants, SetBot, Crash
<1>2. ASSUME NEW t \in Tasks,
             \/ Press(t) \/ TypeName(t) \/ TypeDuration(t) \/ TypeReply(t)
             \/ OwnerRead(t) \/ PackagesRead(t) \/ Answered(t)
      PROVE  EffectsAreAllowed
  BY <1>2, NothingTouched
  DEF Press, TypeName, TypeDuration, TypeReply, OwnerRead, PackagesRead, Answered
<1>3. ASSUME NEW t \in Tasks, AdminRead(t) PROVE EffectsAreAllowed
  <2>1. made' = made \/ made' = [made EXCEPT !.asked = made.asked + 1]
    BY <1>3, Zenon DEF AdminRead, Begins
  <2>2. UNCHANGED <<outline, row>>
    BY <1>3 DEF AdminRead
  <2>3. made'.free = made.free
    BY <2>1 DEF TypeOK
  <2> QED BY <2>2, <2>3, NothingTouched
<1>4. ASSUME NEW k \in Keys, Reassigns(k) PROVE EffectsAreAllowed
  <2>1. UNCHANGED <<outline, made>> /\ row' = [row EXCEPT ![k] = [row[k] EXCEPT !.mine = ~row[k].mine]]
    BY <1>4 DEF Reassigns
  <2>2. ASSUME NEW l \in Keys PROVE [row'[l] EXCEPT !.mine = TRUE] = [row[l] EXCEPT !.mine = TRUE]
    <3>1. row[l] \in [there : BOOLEAN, mine : BOOLEAN, off : BOOLEAN,
                      set : SUBSET {"name", "limit", "date"}]
      BY DEF TypeOK
    <3>2. row'[l] = IF l = k THEN [row[k] EXCEPT !.mine = ~row[k].mine] ELSE row[l]
      BY <2>1 DEF TypeOK
    <3> QED BY <3>1, <3>2
  <2> QED BY <2>1, <2>2 DEF EffectsAreAllowed, SameButOwner
<1>5. ASSUME NEW t \in Tasks, Creates(t) PROVE EffectsAreAllowed
  <2> DEFINE terms == Terms(task[t].who, task[t].at)
  <2>1. Awaits(t, "create") /\ Gone(t) /\ UNCHANGED <<outline, row>>
    BY <1>5 DEF Creates
  <2>2. CASE terms = "free" /\ ~task[t].who.credit
    <3>1. task'[t] = Done /\ task[t] # Done
      BY <2>1 DEF Gone, TypeOK, Awaits, Done
    <3>2. 1 \in DOMAIN task[t].todo /\ task[t].todo[1] = "create"
      BY <2>1, LenProperties, EmptySeq DEF Awaits, TypeOK, Handler
    <3>3. task[t].at \in Makers
      BY <3>2 DEF HandlerInv, Sound, Ordered
    <3>4. task[t].who \in task[t].had
      BY <2>1, <3>2, <3>3 DEF HandlerInv, Sound, Cleared, Awaits, Makers
    <3> QED BY <2>1, <2>2, <3>1, <3>4 DEF EffectsAreAllowed, SameButOwner
  <2>3. CASE terms = "sold"
    <3>1. made' = made \/ made' = [made EXCEPT !.sold = made.sold + 1]
      BY <1>5, <2>3 DEF Creates
    <3>2. made'.free = made.free
      BY <3>1 DEF TypeOK
    <3> QED BY <2>1, <3>2, NothingTouched
  <2>4. CASE terms = "refused"
    BY <1>5, <2>1, <2>4, NothingTouched DEF Creates
  <2>5. (terms = "free" /\ ~task[t].who.credit) \/ terms = "sold" \/ terms = "refused"
    BY DEF Terms
  <2> QED BY <2>2, <2>3, <2>4, <2>5
<1>6. ASSUME NEW t \in Tasks, Looks(t) PROVE EffectsAreAllowed
  <2> DEFINE s == AfterLook(task[t].at, Adopted(task[t].kid).off)
             q == [task[t] EXCEPT !.todo = s]
  <2>1. Went(t, q) /\ Awaits(t, "look")
    BY <1>6 DEF Looks
  <2>2. q.todo = s
    BY DEF TypeOK, Handler
  <2>3. s \in Seq(CallSteps \cup RowSteps)
    BY WorkOrder
  <2>4. s # <<>> => s[1] \in CallSteps \cup RowSteps
    BY <2>3, ElementOfSeq, LenProperties, EmptySeq
  <2>5. s # <<>> => s[1] # "look"
    BY <2>4 DEF CallSteps, RowSteps
  <2> HIDE DEF q, s
  <2>6. task'[t] # task[t]
    BY <2>1, <2>2, <2>5, GoesOn
  <2>7. /\ made' = made
        /\ \A k \in Keys : task[t].kid # k => outline'[k] = outline[k] /\ row'[k] = row[k]
    BY <1>6 DEF Looks, TypeOK
  <2> QED BY <2>1, <2>6, <2>7, OneTouched
<1>7. ASSUME NEW t \in Tasks, NEW step, Awaits(t, step), step \notin {"gate", "owns"},
             Went(t, Next1(t)), made' = made,
             \A k \in Keys : task[t].kid # k => outline'[k] = outline[k] /\ row'[k] = row[k]
      PROVE  EffectsAreAllowed
  <2>1. task'[t] # task[t]
    BY <1>7, NextOf, GoesOn
  <2> QED BY <1>7, <2>1, OneTouched
<1>8. ASSUME NEW t \in Tasks, Adopts(t) PROVE EffectsAreAllowed
  <2>1. Awaits(t, "adopt") /\ Went(t, Next1(t))
    BY <1>8 DEF Adopts
  <2>2. /\ made' = made
        /\ \A k \in Keys : task[t].kid # k => outline'[k] = outline[k] /\ row'[k] = row[k]
    BY <1>8 DEF Adopts, TypeOK
  <2> QED BY <1>7, <2>1, <2>2
<1>9. ASSUME NEW t \in Tasks, Calls(t) PROVE EffectsAreAllowed
  <2>1. row' = row /\ made' = made
    BY <1>9 DEF Calls
  <2>2. PICK step \in CallSteps : Awaits(t, step)
    BY <1>9 DEF Calls
  <2>3. step \notin {"gate", "owns"}
    BY <2>2 DEF CallSteps
  <2>4. CASE outline' = outline
    BY <2>1, <2>4, NothingTouched
  <2>5. ASSUME NEW o, outline' = [outline EXCEPT ![task[t].kid] = o], Went(t, Next1(t))
        PROVE  EffectsAreAllowed
    <3>1. \A k \in Keys : task[t].kid # k => outline'[k] = outline[k] /\ row'[k] = row[k]
      BY <2>1, <2>5 DEF TypeOK
    <3> QED BY <1>7, <2>1, <2>2, <2>3, <2>5, <3>1
  <2>6. \/ outline' = outline
        \/ \E o : outline' = [outline EXCEPT ![task[t].kid] = o] /\ Went(t, Next1(t))
    BY <1>9, Zenon DEF Calls
  <2> QED BY <2>4, <2>5, <2>6
<1>10. ASSUME NEW t \in Tasks, Writes(t) PROVE EffectsAreAllowed
  <2>1. Went(t, Next1(t)) /\ outline' = outline /\ made' = made
    BY <1>10 DEF Writes
  <2>2. PICK step \in RowSteps : Awaits(t, step)
    BY <1>10 DEF Writes
  <2>3. step \notin {"gate", "owns"}
    BY <2>2 DEF RowSteps
  <2>4. \A k \in Keys : task[t].kid # k => outline'[k] = outline[k] /\ row'[k] = row[k]
    <3>1. PICK r : row' = [row EXCEPT ![task[t].kid] = r]
      BY <1>10, Zenon DEF Writes
    <3> QED BY <2>1, <3>1 DEF TypeOK
  <2> QED BY <1>7, <2>1, <2>2, <2>3, <2>4
<1> QED
  BY <1>1, <1>2, <1>3, <1>4, <1>5, <1>6, <1>8, <1>9, <1>10 DEF Next

\* Rights that were taken away bite where the bot looks again: a key that is there is
\* touched only for one who had the right to it at some time since the message came, and
\* a key is made for nothing only for one who was not on credit then.  (That who makes a
\* key may still do so is not part of it: the last message of a creation does not ask.)
THEOREM RightsBite == Spec => RevokedRightsBite
BY BiteStep, Bookkeeping, PTL DEF Spec, RevokedRightsBite
=============================================================================
