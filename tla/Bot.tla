----------------------------------- MODULE Bot -----------------------------------
(***************************************************************************)
(* The Telegram bot, for one sub-admin's chat.  A dialog is kept in the    *)
(* dispatcher's memory between messages; a message is handled by a task of *)
(* its own, which waits for the database and for Outline, so that other    *)
(* messages are handled meanwhile and the owner may change what the admin  *)
(* may do.  The storage of dialogs never makes a task wait: from one wait  *)
(* to the next a handler is one action.  Buttons stay in the chat and say  *)
(* whatever the client makes of them, so any may be pressed at any time.   *)
(* How a sale and the key's own bookkeeping go is in Purchase and in       *)
(* KeyLifecycle.  The owner's own chat passes every check and is left out. *)
(* A definition introduced by "Mistake:" is no part of the specification.  *)
(***************************************************************************)
EXTENDS Integers, Sequences

CONSTANTS
  Tasks,        \* messages that may be handled at once
  Servers, Keys,
  ServerOf,     \* the server a key is on
  Grants,       \* what the owner may let the admin do
  None,         \* NULL, no state, no admin
  MaxMessages,  \* bound: messages sent
  MaxChanges,   \* bound: rights changed, keys given away, bots stopped, crashes
  MaxBots       \* bound: times a bot is started

Caps == {"create", "edit", "delete"}
Rights == [caps : SUBSET Caps, sees : SUBSET Servers, credit : BOOLEAN]

ASSUME ConstantsAssumption ==
  /\ Grants \subseteq Rights /\ None \notin Grants
  /\ ServerOf \in [Keys -> Servers] /\ None \notin Servers \cup Keys
  /\ None \notin {"server", "name", "package", "data_limit", "duration", "rename", "limit"}
  /\ MaxMessages \in Nat /\ MaxChanges \in Nat /\ MaxBots \in Nat \ {0}

VARIABLES
  admin,    \* the row the Telegram user is linked to; None: unlinked, disabled, deleted
  chat,     \* the dialog in the memory of each dispatcher there has been
  bot,      \* whether one polls, and the number of dispatchers so far
  task,     \* the handlers at work
  outline,  \* keys on Outline: what was set from here
  row,      \* keys in the database
  made,     \* history: names asked for, keys made for nothing, keys sold
  left,     \* messages to come
  changes   \* changes to come

vars == <<admin, chat, bot, task, outline, row, made, left, changes>>

KeyButtons == {"cb_rename", "cb_limit", "cb_disable", "cb_enable", "cb_del", "cb_extend"}
KeyHandlers == KeyButtons \cup {"step_rename", "step_set_limit"}
Makers == {"cb_new_package", "step_duration"}
OnKeys(at) == at \in KeyHandlers
States == {"server", "name", "package", "data_limit", "duration", "rename", "limit"}
CallSteps == {"call_name", "call_limit", "call_cut", "call_open", "call_gone"}
RowSteps == {"row_name", "row_limit", "row_off", "row_on", "row_later", "row_gone"}
Steps == {"gate", "owns", "packages", "answer", "create", "look", "adopt"}
         \cup CallSteps \cup RowSteps

\* FSMContext.clear
Blank == [state |-> None, sid |-> None, kid |-> None, named |-> FALSE, credit |-> FALSE]

Done == [at |-> None, sid |-> None, kid |-> None, named |-> FALSE, who |-> None,
         gen |-> 1, todo |-> <<>>, had |-> {}, owned |-> FALSE]

Chat == [state : States \cup {None}, sid : Servers \cup {None}, kid : Keys \cup {None},
         named : BOOLEAN, credit : BOOLEAN]

Handler == [at : KeyHandlers \cup Makers \cup {"cb_new", "cb_new_server", "step_name", None},
            sid : Servers \cup {None}, kid : Keys \cup {None}, named : BOOLEAN,
            who : Grants \cup {None}, gen : 1..MaxBots, todo : Seq(Steps),
            had : SUBSET Grants, owned : BOOLEAN]

TypeOK ==
  /\ admin \in Grants \cup {None}
  /\ chat \in [1..MaxBots -> Chat]
  /\ bot \in [up : BOOLEAN, gen : 1..MaxBots]
  /\ task \in [Tasks -> Handler]
  /\ outline \in [Keys -> [there : BOOLEAN, open : BOOLEAN, set : SUBSET {"name", "limit"}]]
  /\ row \in [Keys -> [there : BOOLEAN, mine : BOOLEAN, off : BOOLEAN,
                       set : SUBSET {"name", "limit", "date"}]]
  /\ made \in [asked : Nat, free : Nat, sold : Nat]
  /\ left \in 0..MaxMessages /\ changes \in 0..MaxChanges

Init ==
  /\ admin \in Grants
  /\ chat = [g \in 1..MaxBots |-> Blank]
  /\ bot = [up |-> TRUE, gen |-> 1]
  /\ task = [t \in Tasks |-> Done]
  /\ outline = [k \in Keys |-> [there |-> TRUE, open |-> TRUE, set |-> {}]]
  /\ row = [k \in Keys |-> [there |-> TRUE, mine |-> TRUE, off |-> FALSE, set |-> {}]]
  /\ made = [asked |-> 0, free |-> 0, sold |-> 0]
  /\ left = MaxMessages /\ changes = MaxChanges

-----------------------------------------------------------------------------
(* What a handler has to do *)

\* Mistake: a reply is not checked again ("rights revoked between the button and the
\* reply must still bite").
CheckedAtTheButton(at) ==
  IF at \in {"step_rename", "step_set_limit"} THEN <<>>
  ELSE IF OnKeys(at) THEN <<"gate", "owns">> ELSE <<"gate">>

\* gate, gate_key
Checks(at) == IF OnKeys(at) THEN <<"gate", "owns">> ELSE <<"gate">>

\* What follows the checks, by waits.
Work(at) ==
  CASE at = "step_name" -> <<"packages">>
    [] at = "cb_new_package" -> <<"answer", "create">>
    [] at = "step_duration" -> <<"create">>
    [] at = "step_rename" -> <<"call_name", "row_name">>
    [] at \in {"step_set_limit", "cb_extend"} -> <<"look">>
    [] at = "cb_disable" -> <<"adopt", "call_cut", "row_off">>
    [] at = "cb_enable" -> <<"call_open", "row_on">>
    [] at = "cb_del" -> <<"call_gone", "row_gone">>
    [] OTHER -> <<>>

\* What step_set_limit and cb_extend do to a key that is, or is not, switched off.
AfterLook(at, off) ==
  IF at = "step_set_limit"
  THEN (IF off THEN <<>> ELSE <<"call_limit">>) \o <<"row_limit">>
  ELSE <<"row_later">> \o (IF off THEN <<"call_open", "row_on">> ELSE <<>>)

Cap(at) == CASE at \in {"cb_new", "cb_new_server", "cb_new_package"} -> "create"
             [] at = "cb_del" -> "delete"
             [] at \in {"step_name", "step_duration"} -> None
             [] OTHER -> "edit"

\* refuse_free
IsFree(at) == at \in {"cb_limit", "step_set_limit", "cb_extend"}

\* has_cap, can_see, on_credit: of a row that was read, if there was one.
May(a, at, sid) == /\ a # None
                   /\ Cap(at) = None \/ Cap(at) \in a.caps
                   /\ sid = None \/ sid \in a.sees

Mine(k) == row[k].there /\ row[k].mine

-----------------------------------------------------------------------------
(* Messages *)

\* admin, had and owned: what the user could do at some time since the message came.
Handles(t, at, sid, kid) ==
  task' = [task EXCEPT ![t] =
    [Done EXCEPT !.at = at, !.sid = sid, !.kid = kid, !.gen = bot.gen,
                 !.todo = Checks(at) \o Work(at), !.had = {admin} \ {None},
                 !.owned = kid # None /\ Mine(kid)]]

Comes(t) == bot.up /\ left > 0 /\ left' = left - 1 /\ task[t] = Done

Now == chat[bot.gen]
Say(c) == chat' = [chat EXCEPT ![bot.gen] = c]

\* cmd_start, cb_menu
Menu ==
  /\ bot.up /\ left > 0 /\ left' = left - 1
  /\ Say(Blank)
  /\ UNCHANGED <<admin, bot, task, outline, row, made, changes>>

\* cb_new, cb_new_server, cb_new_package and the buttons of key_menu.
Press(t) ==
  /\ Comes(t)
  /\ \/ Handles(t, "cb_new", None, None)
     \/ Now.state = "server" /\ \E s \in Servers : Handles(t, "cb_new_server", s, None)
     \/ Now.state = "package" /\ Handles(t, "cb_new_package", None, None)
     \/ \E at \in KeyButtons, k \in Keys : Handles(t, at, ServerOf[k], k)
  /\ UNCHANGED <<admin, chat, bot, outline, row, made, changes>>

\* step_name for one who names a size, step_limit: answered at once.
TypeFreely ==
  /\ bot.up /\ left > 0 /\ left' = left - 1
  /\ \/ Now.state = "name" /\ ~Now.credit
        /\ Say([Now EXCEPT !.named = TRUE, !.state = "data_limit"])
     \/ Now.state = "data_limit" /\ Say([Now EXCEPT !.state = "duration"])
  /\ UNCHANGED <<admin, bot, task, outline, row, made, changes>>

\* step_name for one who picks from the price list.
TypeName(t) ==
  /\ Comes(t)
  /\ Now.state = "name" /\ Now.credit
  /\ Say([Now EXCEPT !.named = TRUE])
  /\ Handles(t, "step_name", None, None)
  /\ UNCHANGED <<admin, bot, outline, row, made, changes>>

\* step_duration
TypeDuration(t) ==
  /\ Comes(t)
  /\ Now.state = "duration"
  /\ Handles(t, "step_duration", None, None)
  /\ UNCHANGED <<admin, chat, bot, outline, row, made, changes>>

\* step_rename, step_set_limit
TypeReply(t) ==
  /\ Comes(t)
  /\ \/ Now.state = "rename" /\ Handles(t, "step_rename", Now.sid, Now.kid)
     \/ Now.state = "limit" /\ Handles(t, "step_set_limit", Now.sid, Now.kid)
  /\ Say(Blank)
  /\ UNCHANGED <<admin, bot, outline, row, made, changes>>

-----------------------------------------------------------------------------
(* Handlers go on *)

Awaits(t, step) == task[t].todo # <<>> /\ Head(task[t].todo) = step
Gone(t) == task' = [task EXCEPT ![t] = Done]
Went(t, r) == task' = [task EXCEPT ![t] = IF r.todo = <<>> THEN Done ELSE r]
Next1(t) == [task[t] EXCEPT !.todo = Tail(@)]
Mem(t) == chat[task[t].gen]
Remember(t, c) == chat' = [chat EXCEPT ![task[t].gen] = c]

\* Mistake: the dialog is forgotten once the key has been made.
Kept(c) == c

\* _finish_create, before it calls create_key.
Taken(c) == Blank

\* _finish_create: no server, no key; a missing name is found out later.
Takes(t, r) ==
  /\ Remember(t, Taken(Mem(t)))
  /\ IF Mem(t).sid = None THEN Gone(t)
     ELSE Went(t, [r EXCEPT !.sid = Mem(t).sid, !.named = Mem(t).named])

\* cb_new: with one server to choose from, the name is asked for at once.
Begins(t) ==
  LET c == [Mem(t) EXCEPT !.credit = admin.credit] IN
  IF admin.sees = {} THEN UNCHANGED <<chat, made>>
  ELSE \/ /\ admin.sees \notin {{s} : s \in Servers}
          /\ Remember(t, [c EXCEPT !.state = "server"])
          /\ made' = made
       \/ \E s \in Servers :
            /\ admin.sees = {s}
            /\ Remember(t, [c EXCEPT !.state = "name", !.sid = s])
            /\ made' = [made EXCEPT !.asked = @ + 1]

\* admin_of answers: gate, and what follows it without another wait.
AdminRead(t) ==
  LET at == task[t].at
      r == [Next1(t) EXCEPT !.who = admin]
  IN
  /\ Awaits(t, "gate")
  /\ IF ~May(admin, at, task[t].sid) /\ at # "step_name"
     THEN /\ Gone(t) /\ made' = made
          /\ IF at = "step_duration" THEN Remember(t, Blank) ELSE chat' = chat
     ELSE CASE at = "cb_new" -> Gone(t) /\ Begins(t)
            [] at = "cb_new_server" ->
                 /\ Gone(t)
                 /\ Remember(t, [Mem(t) EXCEPT !.sid = task[t].sid, !.state = "name"])
                 /\ made' = [made EXCEPT !.asked = @ + 1]
            [] at = "step_duration" -> Takes(t, r) /\ made' = made
            [] OTHER -> Went(t, r) /\ UNCHANGED <<chat, made>>
  /\ UNCHANGED <<admin, bot, outline, row, left, changes>>

\* gate_key has the key's row; then refuse_free, and a question or the work itself.
OwnerRead(t) ==
  LET at == task[t].at
      asks == at \in {"cb_rename", "cb_limit"}
      fine == Mine(task[t].kid) /\ ~(IsFree(at) /\ task[t].who.credit)
  IN
  /\ Awaits(t, "owns")
  /\ IF fine THEN Went(t, Next1(t)) ELSE Gone(t)
  /\ IF fine /\ asks
     THEN Remember(t, [Mem(t) EXCEPT !.sid = task[t].sid, !.kid = task[t].kid,
            !.state = IF at = "cb_rename" THEN "rename" ELSE "limit"])
     ELSE chat' = chat
  /\ UNCHANGED <<admin, bot, outline, row, made, left, changes>>

\* step_name: no package to buy, no admin to price it for, or a choice.
PackagesRead(t) ==
  /\ Awaits(t, "packages")
  /\ Gone(t)
  /\ \/ Remember(t, Blank)
     \/ task[t].who = None /\ chat' = chat
     \/ task[t].who # None /\ Remember(t, [Mem(t) EXCEPT !.state = "package"])
  /\ UNCHANGED <<admin, bot, outline, row, made, left, changes>>

\* cb_new_package: the button has been answered.
Answered(t) ==
  /\ Awaits(t, "answer")
  /\ Takes(t, Next1(t))
  /\ UNCHANGED <<admin, bot, outline, row, made, left, changes>>

\* create_key_as, _buy: on credit a package is sold; a size of one's own is refused.
Terms(who, at) == IF ~who.credit THEN "free"
                  ELSE IF at = "cb_new_package" THEN "sold" ELSE "refused"

\* create_key_as: made, sold, refused or failed.
Creates(t) ==
  LET terms == Terms(task[t].who, task[t].at) IN
  /\ Awaits(t, "create")
  /\ Gone(t)
  /\ \/ /\ task[t].named /\ terms # "refused"
        /\ made' = [made EXCEPT ![terms] = @ + 1]
     \/ made' = made
  /\ UNCHANGED <<admin, chat, bot, outline, row, left, changes>>

\* db.add_key: a row nobody owns.
Adopted(k) ==
  IF row[k].there THEN row[k]
  ELSE [there |-> TRUE, mine |-> FALSE, off |-> FALSE, set |-> {}]

\* step_set_limit, cb_extend: get_key, add_key when there is no row.
Looks(t) ==
  LET k == task[t].kid IN
  /\ Awaits(t, "look")
  /\ row' = [row EXCEPT ![k] = Adopted(k)]
  /\ Went(t, [task[t] EXCEPT !.todo = AfterLook(task[t].at, Adopted(k).off)])
  /\ UNCHANGED <<admin, chat, bot, outline, made, left, changes>>

\* cb_disable: add_key.
Adopts(t) ==
  /\ Awaits(t, "adopt")
  /\ row' = [row EXCEPT ![task[t].kid] = Adopted(task[t].kid)]
  /\ Went(t, Next1(t))
  /\ UNCHANGED <<admin, chat, bot, outline, made, left, changes>>

\* Outline answers, or says no and the handler ends.
Calls(t) ==
  LET k == task[t].kid
      Becomes(o) == outline' = [outline EXCEPT ![k] = o] /\ Went(t, Next1(t))
      old == outline[k]
  IN
  /\ \E c \in CallSteps : Awaits(t, c)
  /\ \/ /\ old.there
        /\ \/ Awaits(t, "call_name") /\ Becomes([old EXCEPT !.set = @ \cup {"name"}])
           \/ Awaits(t, "call_limit") /\ Becomes([old EXCEPT !.set = @ \cup {"limit"}])
           \/ Awaits(t, "call_cut") /\ Becomes([old EXCEPT !.open = FALSE])
           \/ Awaits(t, "call_open") /\ Becomes([old EXCEPT !.open = TRUE])
           \/ Awaits(t, "call_gone") /\ Becomes([old EXCEPT !.there = FALSE])
     \/ Gone(t) /\ outline' = outline
  /\ UNCHANGED <<admin, chat, bot, row, made, left, changes>>

\* set_name (or add_key), set_limit, set_disabled, set_duration or set_expiry, delete_key
Writes(t) ==
  LET k == task[t].kid
      Becomes(r) == row' = [row EXCEPT ![k] = r]
      old == row[k]
      If(r) == Becomes(IF old.there THEN r ELSE old)
  IN
  /\ \E w \in RowSteps : Awaits(t, w)
  /\ \/ Awaits(t, "row_name") /\ Becomes([Adopted(k) EXCEPT !.set = @ \cup {"name"}])
     \/ Awaits(t, "row_limit") /\ If([old EXCEPT !.set = @ \cup {"limit"}])
     \/ Awaits(t, "row_later") /\ If([old EXCEPT !.set = @ \cup {"date"}])
     \/ Awaits(t, "row_off") /\ If([old EXCEPT !.off = TRUE])
     \/ Awaits(t, "row_on") /\ If([old EXCEPT !.off = FALSE])
     \/ Awaits(t, "row_gone") /\ If([old EXCEPT !.there = FALSE])
  /\ Went(t, Next1(t))
  /\ UNCHANGED <<admin, chat, bot, outline, made, left, changes>>

-----------------------------------------------------------------------------
(* Meanwhile *)

Changes == changes > 0 /\ changes' = changes - 1

\* update_admin, delete_admin, the link to Telegram
Regrants ==
  /\ Changes
  /\ admin' \in (Grants \cup {None}) \ {admin}
  /\ task' = [t \in Tasks |-> IF task[t] = Done THEN Done
                ELSE [task[t] EXCEPT !.had = @ \cup ({admin'} \ {None})]]
  /\ UNCHANGED <<chat, bot, outline, row, made, left>>

\* A key is given to another admin, or given back.
Reassigns(k) ==
  /\ Changes
  /\ row[k].there
  /\ row' = [row EXCEPT ![k].mine = ~@]
  /\ task' = [t \in Tasks |-> IF task[t].kid # k THEN task[t]
                ELSE [task[t] EXCEPT !.owned = @ \/ ~row[k].mine]]
  /\ UNCHANGED <<admin, chat, bot, outline, made, left>>

\* BotManager.start: a new dispatcher polls.
StartBot == bot.gen < MaxBots /\ bot' = [up |-> TRUE, gen |-> bot.gen + 1]

\* BotManager.stop; start does the same before it knows the token to be good.
StopBot == bot.up /\ bot' = [bot EXCEPT !.up = FALSE]

\* set_bot.  The handlers at work go on, with the memory of the dispatcher that started them.
SetBot ==
  /\ Changes
  /\ StartBot \/ StopBot
  /\ UNCHANGED <<admin, chat, task, outline, row, made, left>>

\* The process that polls dies and is started again.
Crash ==
  /\ Changes
  /\ chat' = [g \in 1..MaxBots |-> Blank]
  /\ task' = [t \in Tasks |-> Done]
  /\ UNCHANGED <<admin, bot, outline, row, made, left>>

Next ==
  \/ Menu \/ TypeFreely \/ Regrants \/ SetBot \/ Crash
  \/ \E k \in Keys : Reassigns(k)
  \/ \E t \in Tasks :
       \/ Press(t) \/ TypeName(t) \/ TypeDuration(t) \/ TypeReply(t)
       \/ AdminRead(t) \/ OwnerRead(t) \/ PackagesRead(t) \/ Answered(t) \/ Creates(t)
       \/ Looks(t) \/ Adopts(t) \/ Calls(t) \/ Writes(t)

Spec == Init /\ [][Next]_vars

-----------------------------------------------------------------------------
(* What must hold *)

\* The key a reply will be about is on the server remembered with it, whatever dialogs
\* were begun, left and overtaken meanwhile.
TargetIsOne ==
  \A g \in 1..MaxBots :
    chat[g].state \in {"rename", "limit"} =>
      chat[g].kid # None /\ chat[g].sid = ServerOf[chat[g].kid]

\* A name asked for becomes one key at most: a button pressed twice, or a reply sent
\* twice, finds the dialog taken (_finish_create).
OneKeyPerDialog == made.free + made.sold <= made.asked

\* The types, the target and the one key.
BotInv == TypeOK /\ TargetIsOne /\ OneKeyPerDialog

\* The rights under which a handler may do what it does to its key, held at some time
\* since its message came.
Allowed(t) ==
  /\ task[t].owned
  /\ \E a \in task[t].had : /\ May(a, task[t].at, task[t].sid)
                            /\ IsFree(task[t].at) => ~a.credit

SameButOwner(k) == outline'[k] = outline[k] /\
                   [row'[k] EXCEPT !.mine = TRUE] = [row[k] EXCEPT !.mine = TRUE]

\* Rights bite at the reply as at the button: a key is touched only by a handler whose user
\* had the capability, the server, the key and, for a limit or a term, no price list, at
\* some time since the message being handled ("rights revoked between the button and the
\* reply must still bite"); and a key is made for nothing only for one who was not on
\* credit then ("any time or volume that reaches a user is paid for").
EffectsAreAllowed ==
  /\ \A k \in Keys : SameButOwner(k) \/
       \E t \in Tasks : task[t].kid = k /\ task'[t] # task[t] /\ Allowed(t)
  /\ made'.free = made.free \/
       \E t \in Tasks : task'[t] # task[t] /\ \E a \in task[t].had : ~a.credit

\* Of every step.
RevokedRightsBite == [][EffectsAreAllowed]_vars
=============================================================================
