-------------------------------- MODULE KeyProofs --------------------------------
(***************************************************************************)
(* What is true of KeyLifecycle for every number of requests under way,    *)
(* every price list and quota, any clock and traffic, and any number of    *)
(* calls and commits that fail.                                            *)
(***************************************************************************)
EXTENDS KeyLifecycle, SequenceTheorems, TLAPS

-----------------------------------------------------------------------------
(* Plans *)

Columns == {"known", "limit", "duration", "activated", "expiry", "disabled", "monthly", "reset"}

\* What comes last in a plan that measures the usage first.
Lasts == {[disabled |-> FALSE]} \cup [monthly : Quotas \cup {None}, reset : Nullable]

\* A plan that sets a quota's allowance, of a key the panel knows and of another.
Metered(q, e) == <<Measure, [cap |-> q], [limit |-> q], e>>
MeteredNew(q, e) == <<Unseen, Measure, [cap |-> q], [limit |-> q], e>>
Seeded(q, e) == <<[cap |-> q], [limit |-> q], e>>

\* The plans there are, the limits they set being of `limits`.
Shaped(plan, limits, live) ==
  \/ plan \in Seq(Effects(limits))
  \/ \E q \in Quotas, e \in Lasts : plan = Metered(q, e) \/ plan = MeteredNew(q, e)
  \/ plan = Remove
  \/ plan = Tail(Remove) /\ ~live

LEMMA ConstantsAre ==
  /\ None \notin Nat /\ Quotas \subseteq Nat \ {0} /\ Quotas # {} /\ Quotas \subseteq Nullable
  /\ None \in Nullable /\ Nat \subseteq Nullable /\ Pass \in Writers /\ Routes \subseteq Writers
  /\ Pass \notin Routes
BY ConstantsAssumption DEF Nullable, Writers

LEMMA UnseenIs ==
  /\ Unseen \in Rows /\ Unseen.known = TRUE /\ Unseen.limit = None /\ Unseen.disabled = FALSE
  /\ Unseen.monthly = None /\ Unseen.expiry = None
  /\ Unseen.duration = None /\ Unseen.activated = None /\ Unseen.reset = None
BY ConstantsAre DEF Unseen, Rows

LEMMA EffectsAre ==
  ASSUME NEW C
  PROVE  /\ \A c \in C : [cap |-> c] \in Effects(C) /\ [limit |-> c] \in Effects(C)
         /\ \A n \in Nat : /\ [duration |-> n] \in Effects(C) /\ [expiry |-> n] \in Effects(C)
                           /\ [reset |-> n] \in Effects(C)
         /\ \A m, n \in Nat : [activated |-> m, expiry |-> n] \in Effects(C)
         /\ \A b \in BOOLEAN : [disabled |-> b] \in Effects(C)
         /\ \A q \in Quotas \cup {None}, n \in Nullable : [monthly |-> q, reset |-> n] \in Effects(C)
         /\ Unseen \in Effects(C)
BY DEF Effects

LEMMA MoreEffects ==
  ASSUME NEW C, NEW D, C \subseteq D
  PROVE  Effects(C) \subseteq Effects(D) /\ Seq(Effects(C)) \subseteq Seq(Effects(D))
<1>1. Effects(C) \subseteq Effects(D)
  BY DEF Effects
<1> QED BY <1>1

LEMMA MoreShaped ==
  ASSUME NEW C, NEW D, C \subseteq D, NEW plan, NEW live, NEW live2, Shaped(plan, C, live), live2 => live
  PROVE  Shaped(plan, D, live2)
BY MoreEffects DEF Shaped

\* A step of a plan.
LEMMA EffectKinds ==
  ASSUME NEW C, NEW e \in Effects(C)
  PROVE  /\ DOMAIN e \subseteq Outlines => e \in [cap : C]
         /\ DOMAIN e \subseteq Columns =>
              e \in [limit : C] \cup [duration : Nat] \cup [expiry : Nat]
                \cup [activated : Nat, expiry : Nat] \cup [disabled : BOOLEAN] \cup [reset : Nat]
                \cup [monthly : Quotas \cup {None}, reset : Nullable] \cup {Unseen}
         /\ e # Measure /\ e # Remove[1] /\ e # Remove[2]
<1>1. DOMAIN Unseen = Columns
  BY DEF Unseen, Columns
<1>2. "cap" \notin Columns /\ "limit" \notin Outlines
  BY DEF Columns, Outlines
<1>3. Remove[1] = [live |-> FALSE] /\ Remove[2] = [known |-> FALSE] /\ Measure = [measure |-> TRUE]
  BY DEF Remove, Measure
<1>4. DOMAIN e \subseteq Outlines => e \in [cap : C]
  BY <1>1 DEF Effects, Columns, Outlines
<1>5. DOMAIN e \subseteq Columns =>
              e \in [limit : C] \cup [duration : Nat] \cup [expiry : Nat]
                \cup [activated : Nat, expiry : Nat] \cup [disabled : BOOLEAN] \cup [reset : Nat]
                \cup [monthly : Quotas \cup {None}, reset : Nullable] \cup {Unseen}
  BY <1>2 DEF Effects
<1>6. "live" \notin DOMAIN e /\ "measure" \notin DOMAIN e
  BY <1>1 DEF Effects, Columns
<1>7. e # [known |-> FALSE]
  BY <1>1 DEF Effects, Columns
<1> QED BY <1>3, <1>4, <1>5, <1>6, <1>7

LEMMA Sequences ==
  ASSUME NEW S
  PROVE  /\ <<>> \in Seq(S)
         /\ \A a \in S : <<a>> \in Seq(S)
         /\ \A a, b \in S : <<a, b>> \in Seq(S)
         /\ \A a, b, c \in S : <<a, b, c>> \in Seq(S)
         /\ \A p, q \in Seq(S) : p \o q \in Seq(S)
         /\ \A b \in BOOLEAN : \A p : (b => p \in Seq(S)) => When(b, p) \in Seq(S)
BY DEF When

\* A longer term is a term.
LEMMA LongerTermIs ==
  ASSUME NEW m \in Rows, NEW t \in Nat, NEW d \in Int, NEW C
  PROVE  LongerTerm(m, t, d) \in Effects(C)
<1>1. CASE IsPending(m)
  <2>1. m.duration \in Nat
    BY <1>1, ConstantsAre DEF IsPending, Rows, Nullable
  <2>2. Larger(1, m.duration + d) \in Nat
    BY <2>1 DEF Larger
  <2> QED BY <1>1, <2>2, EffectsAre DEF LongerTerm
<1>2. CASE ~IsPending(m)
  <2>1. OrZero(m.expiry) \in Nat
    BY ConstantsAre DEF OrZero, Rows, Nullable
  <2>2. Larger(OrZero(m.expiry), t) \in Nat
    BY <2>1 DEF Larger
  <2>3. Larger(t, Larger(OrZero(m.expiry), t) + d) \in Nat
    BY <2>2 DEF Larger
  <2> QED BY <1>2, <2>3, EffectsAre DEF LongerTerm
<1> QED BY <1>1, <1>2

LEMMA RenewIs ==
  ASSUME NEW m \in Rows, NEW t \in Nat, NEW gb \in Nullable, NEW d \in Nullable
  PROVE  Renew(m, t, gb, d) \in Seq(Effects(Nullable))
<1> DEFINE new == IF gb = None \/ m.limit = None THEN None ELSE m.limit + gb
           days == IF d = None THEN 0 ELSE d
           S == Effects(Nullable)
<1>1. new \in Nullable /\ days \in Int
  BY ConstantsAre DEF Rows, Nullable
<1>2. Renew(m, t, gb, d) = <<[cap |-> new], [limit |-> new]>>
                             \o When(d # None, <<LongerTerm(m, t, days)>>)
                             \o When(m.disabled, <<[disabled |-> FALSE]>>)
  BY DEF Renew
<1> HIDE DEF new, days
<1>3. [cap |-> new] \in S /\ [limit |-> new] \in S /\ [disabled |-> FALSE] \in S
  BY <1>1, EffectsAre
<1>4. LongerTerm(m, t, days) \in S
  BY <1>1, LongerTermIs
<1> HIDE DEF S
<1>5. When(d # None, <<LongerTerm(m, t, days)>>) \in Seq(S) /\ When(m.disabled, <<[disabled |-> FALSE]>>) \in Seq(S)
  BY <1>3, <1>4, Sequences DEF When
<1>6. <<[cap |-> new], [limit |-> new]>> \in Seq(S)
  BY <1>3, Sequences
<1> QED BY <1>2, <1>5, <1>6, Sequences DEF S

LEMMA ExtendIs ==
  ASSUME NEW m \in Rows, NEW t \in Nat, NEW d \in Int, NEW C, m.limit \in C
  PROVE  Extend(m, t, d) \in Seq(Effects(C))
<1> DEFINE on == d > 0 /\ m.disabled
           S == Effects(C)
           term == LongerTerm(m, t, d)
<1>1. Extend(m, t, d) = When(on, <<[cap |-> m.limit]>>) \o <<term>> \o When(on, <<[disabled |-> FALSE]>>)
  BY DEF Extend
<1>2. on \in BOOLEAN
  BY DEF Rows
<1>3. [cap |-> m.limit] \in S /\ term \in S /\ [disabled |-> FALSE] \in S
  BY EffectsAre, LongerTermIs
<1> HIDE DEF on, S, term
<1>4. /\ When(on, <<[cap |-> m.limit]>>) \in Seq(S) /\ <<term>> \in Seq(S)
      /\ When(on, <<[disabled |-> FALSE]>>) \in Seq(S)
  BY <1>2, <1>3, Sequences
<1> QED BY <1>1, <1>4, Sequences DEF S

LEMMA SetLimitIs ==
  ASSUME NEW m \in Rows, NEW C, NEW v \in C
  PROVE  SetLimit(m, v) \in Seq(Effects(C))
<1> DEFINE S == Effects(C)
<1>1. [cap |-> v] \in S /\ [limit |-> v] \in S
  BY EffectsAre
<1> HIDE DEF S
<1>2. When(~m.disabled, <<[cap |-> v]>>) \in Seq(S) /\ <<[limit |-> v]>> \in Seq(S)
  BY <1>1, Sequences DEF When
<1> QED BY <1>2, Sequences DEF SetLimit, S

\* Tuples, put together and taken apart.
LEMMA Joins ==
  /\ \A a, b : <<a>> \o <<b>> = <<a, b>>
  /\ \A a, b, c : <<a, b>> \o <<c>> = <<a, b, c>>
  /\ \A a, b, c, d : <<a, b, c>> \o <<d>> = <<a, b, c, d>>
  /\ \A a, b, c, d, e : <<a>> \o <<b, c, d, e>> = <<a, b, c, d, e>>
<1>1. ASSUME NEW S, NEW s \in Seq(S), NEW t \in Seq(S), NEW u \in Seq(S), Len(u) = Len(s) + Len(t),
             \A i \in 1..Len(u) : u[i] = IF i <= Len(s) THEN s[i] ELSE t[i - Len(s)]
      PROVE  s \o t = u
  <2>1. /\ s \o t \in Seq(S) /\ Len(s \o t) = Len(s) + Len(t)
        /\ \A i \in 1 .. Len(s) + Len(t) : (s \o t)[i] = IF i <= Len(s) THEN s[i] ELSE t[i - Len(s)]
    BY ConcatProperties
  <2> QED BY <1>1, <2>1, SeqEqual
<1>2. ASSUME NEW a, NEW b PROVE <<a>> \o <<b>> = <<a, b>>
  <2> DEFINE S == {a, b}
             s == <<a>>
             t == <<b>>
             u == <<a, b>>
  <2>1. s \in Seq(S) /\ t \in Seq(S) /\ u \in Seq(S) /\ Len(s) = 1 /\ Len(t) = 1 /\ Len(u) = 2
    OBVIOUS
  <2>2. s[1] = a /\ t[1] = b
        /\ u[1] = a /\ u[2] = b
    OBVIOUS
  <2> HIDE DEF S, s, t, u
  <2>3. Len(u) = Len(s) + Len(t) /\ \A i \in 1..Len(u) : u[i] = IF i <= Len(s) THEN s[i] ELSE t[i - Len(s)]
    BY <2>1, <2>2
  <2>4. s \o t = u
    BY <1>1, <2>1, <2>3
  <2> QED BY <2>4 DEF s, t, u
<1>3. ASSUME NEW a, NEW b, NEW c PROVE <<a, b>> \o <<c>> = <<a, b, c>>
  <2> DEFINE S == {a, b, c}
             s == <<a, b>>
             t == <<c>>
             u == <<a, b, c>>
  <2>1. s \in Seq(S) /\ t \in Seq(S) /\ u \in Seq(S) /\ Len(s) = 2 /\ Len(t) = 1 /\ Len(u) = 3
    OBVIOUS
  <2>2. s[1] = a /\ s[2] = b /\ t[1] = c
        /\ u[1] = a /\ u[2] = b /\ u[3] = c
    OBVIOUS
  <2> HIDE DEF S, s, t, u
  <2>3. Len(u) = Len(s) + Len(t) /\ \A i \in 1..Len(u) : u[i] = IF i <= Len(s) THEN s[i] ELSE t[i - Len(s)]
    BY <2>1, <2>2
  <2>4. s \o t = u
    BY <1>1, <2>1, <2>3
  <2> QED BY <2>4 DEF s, t, u
<1>4. ASSUME NEW a, NEW b, NEW c, NEW d PROVE <<a, b, c>> \o <<d>> = <<a, b, c, d>>
  <2> DEFINE S == {a, b, c, d}
             s == <<a, b, c>>
             t == <<d>>
             u == <<a, b, c, d>>
  <2>1. s \in Seq(S) /\ t \in Seq(S) /\ u \in Seq(S) /\ Len(s) = 3 /\ Len(t) = 1 /\ Len(u) = 4
    OBVIOUS
  <2>2. s[1] = a /\ s[2] = b /\ s[3] = c /\ t[1] = d
        /\ u[1] = a /\ u[2] = b /\ u[3] = c /\ u[4] = d
    OBVIOUS
  <2> HIDE DEF S, s, t, u
  <2>3. Len(u) = Len(s) + Len(t) /\ \A i \in 1..Len(u) : u[i] = IF i <= Len(s) THEN s[i] ELSE t[i - Len(s)]
    BY <2>1, <2>2
  <2>4. s \o t = u
    BY <1>1, <2>1, <2>3
  <2> QED BY <2>4 DEF s, t, u
<1>5. ASSUME NEW a, NEW b, NEW c, NEW d, NEW e PROVE <<a>> \o <<b, c, d, e>> = <<a, b, c, d, e>>
  <2> DEFINE S == {a, b, c, d, e}
             s == <<a>>
             t == <<b, c, d, e>>
             u == <<a, b, c, d, e>>
  <2>1. s \in Seq(S) /\ t \in Seq(S) /\ u \in Seq(S) /\ Len(s) = 1 /\ Len(t) = 4 /\ Len(u) = 5
    OBVIOUS
  <2>2. s[1] = a /\ t[1] = b /\ t[2] = c /\ t[3] = d /\ t[4] = e
        /\ u[1] = a /\ u[2] = b /\ u[3] = c /\ u[4] = d /\ u[5] = e
    OBVIOUS
  <2> HIDE DEF S, s, t, u
  <2>3. Len(u) = Len(s) + Len(t) /\ \A i \in 1..Len(u) : u[i] = IF i <= Len(s) THEN s[i] ELSE t[i - Len(s)]
    BY <2>1, <2>2
  <2>4. s \o t = u
    BY <1>1, <2>1, <2>3
  <2> QED BY <2>4 DEF s, t, u
<1> QED BY <1>2, <1>3, <1>4, <1>5

LEMMA Pops ==
  ASSUME NEW a, NEW b, NEW c, NEW d, NEW e
  PROVE  /\ <<a>> # <<>> /\ Head(<<a>>) = a /\ Tail(<<a>>) = <<>>
         /\ <<a, b>> # <<>> /\ Head(<<a, b>>) = a /\ Tail(<<a, b>>) = <<b>>
         /\ <<a, b, c>> # <<>> /\ Head(<<a, b, c>>) = a /\ Tail(<<a, b, c>>) = <<b, c>>
         /\ <<a, b, c, d>> # <<>> /\ Head(<<a, b, c, d>>) = a /\ Tail(<<a, b, c, d>>) = <<b, c, d>>
         /\ <<a, b, c, d, e>> # <<>> /\ Head(<<a, b, c, d, e>>) = a
         /\ Tail(<<a, b, c, d, e>>) = <<b, c, d, e>>
<1>1. <<a>> # <<>> /\ Head(<<a>>) = a /\ Tail(<<a>>) = <<>>
  OBVIOUS
<1>2. <<a, b>> # <<>> /\ Head(<<a, b>>) = a /\ Tail(<<a, b>>) = <<b>>
  OBVIOUS
<1>3. <<a, b, c>> # <<>> /\ Head(<<a, b, c>>) = a /\ Tail(<<a, b, c>>) = <<b, c>>
  OBVIOUS
<1>4. <<a, b, c, d>> # <<>> /\ Head(<<a, b, c, d>>) = a /\ Tail(<<a, b, c, d>>) = <<b, c, d>>
  OBVIOUS
<1>5. /\ <<a, b, c, d, e>> # <<>> /\ Head(<<a, b, c, d, e>>) = a
      /\ Tail(<<a, b, c, d, e>>) = <<b, c, d, e>>
  OBVIOUS
<1> QED BY <1>1, <1>2, <1>3, <1>4, <1>5

LEMMA NothingFirst == ASSUME NEW S, NEW s \in Seq(S) PROVE <<>> \o s = s
BY ConcatEmptySeq

LEMMA SetQuotaIs ==
  ASSUME NEW m \in Rows, NEW t \in Nat, NEW q \in Quotas
  PROVE  \E e \in Lasts, v \in Nullable :
           /\ e = [monthly |-> q, reset |-> v]
           /\ SetQuota(m, t, q) = IF m.limit = None /\ ~m.disabled
                                  THEN Metered(q, e) ELSE <<e>>
<1> DEFINE e == [monthly |-> q, reset |-> t + Cycle]
           a == Measure
           b == [cap |-> q]
           c == [limit |-> q]
<1>1. t + Cycle \in Nullable
  BY ConstantsAssumption, ConstantsAre
<1>2. e \in Lasts
  BY <1>1 DEF Lasts
<1>3. SetQuota(m, t, q) = When(m.limit = None /\ ~m.disabled, <<a, b, c>>) \o <<e>>
  BY DEF SetQuota
<1> HIDE DEF a, b, c, e
<1>4. <<a, b, c>> \o <<e>> = <<a, b, c, e>> /\ <<>> \o <<e>> = <<e>>
  <2>1. <<e>> \in Seq({e})
    OBVIOUS
  <2>2. <<>> \o <<e>> = <<e>>
    BY <2>1, NothingFirst
  <2>3. <<a, b, c>> \o <<e>> = <<a, b, c, e>>
    BY Joins
  <2> QED BY <2>2, <2>3
<1>5. SetQuota(m, t, q) = IF m.limit = None /\ ~m.disabled THEN <<a, b, c, e>> ELSE <<e>>
  BY <1>3, <1>4 DEF When
<1>6. <<a, b, c, e>> = Metered(q, e)
  BY DEF a, b, c, Metered
<1>7. e = [monthly |-> q, reset |-> t + Cycle]
  BY DEF e
<1> QED BY <1>1, <1>2, <1>5, <1>6, <1>7

LEMMA LastsAre ==
  ASSUME NEW C
  PROVE  Lasts \subseteq Effects(C) /\ NoQuota \in Seq(Effects(C))
<1>1. Lasts \subseteq Effects(C)
  <2>1. [disabled |-> FALSE] \in Effects(C)
    BY EffectsAre
  <2>2. [monthly : Quotas \cup {None}, reset : Nullable] \subseteq Effects(C)
    BY DEF Effects
  <2> QED BY <2>1, <2>2 DEF Lasts
<1>2. [monthly |-> None, reset |-> None] \in Effects(C)
  BY ConstantsAre, EffectsAre
<1>3. NoQuota \in Seq(Effects(C))
  BY <1>2, Sequences DEF NoQuota
<1> QED BY <1>1, <1>3

LEMMA SwitchesAre ==
  ASSUME NEW C
  PROVE  /\ 0 \in C => SwitchOff \in Seq(Effects(C))
         /\ \A m \in Rows : m.limit \in C => SwitchOn(m) \in Seq(Effects(C))
<1> DEFINE S == Effects(C)
<1>1. \A c \in C : [cap |-> c] \in S
  BY EffectsAre
<1>2. [disabled |-> FALSE] \in S /\ [disabled |-> TRUE] \in S
  BY EffectsAre
<1> HIDE DEF S
<1>3. ASSUME 0 \in C PROVE SwitchOff \in Seq(S)
  BY <1>1, <1>2, <1>3, Sequences DEF SwitchOff
<1>4. ASSUME NEW m \in Rows, m.limit \in C PROVE SwitchOn(m) \in Seq(S)
  BY <1>1, <1>2, <1>4, Sequences DEF SwitchOn
<1> QED BY <1>3, <1>4 DEF S

\* What the plans of the pass are.
LEMMA ResetsAre ==
  ASSUME NEW m \in Rows, NEW C, NEW live
  PROVE  m.monthly # None => \E q \in Quotas, e \in Lasts :
           ResetUsage(m) = Metered(q, e)
<1> SUFFICES ASSUME m.monthly # None
             PROVE  \E q \in Quotas, e \in Lasts :
                      ResetUsage(m) = Metered(q, e)
  OBVIOUS
<1>1. m.monthly \in Quotas /\ [disabled |-> FALSE] \in Lasts
  BY DEF Rows, Lasts
<1>2. ResetUsage(m) = Metered(m.monthly, [disabled |-> FALSE])
  BY DEF ResetUsage, Metered
<1> QED BY <1>1, <1>2

\* A key that has to be adopted is adopted first.
LEMMA Adopts ==
  ASSUME NEW b \in BOOLEAN, NEW C, NEW live, NEW plan,
         \/ plan \in Seq(Effects(C))
         \/ \E q \in Quotas, e \in Lasts : plan = Metered(q, e)
  PROVE  Shaped(When(b, <<Unseen>>) \o plan, C, live)
<1>1. CASE plan \in Seq(Effects(C))
  <2>1. <<Unseen>> \in Seq(Effects(C)) /\ <<>> \in Seq(Effects(C))
    BY EffectsAre, Sequences
  <2>2. When(b, <<Unseen>>) \in Seq(Effects(C))
    BY <2>1 DEF When
  <2>3. When(b, <<Unseen>>) \o plan \in Seq(Effects(C))
    BY <1>1, <2>2, Sequences
  <2> QED BY <2>3 DEF Shaped
<1>2. CASE \E q \in Quotas, e \in Lasts : plan = Metered(q, e)
  <2>1. PICK q \in Quotas, e \in Lasts : plan = Metered(q, e)
    BY <1>2
  <2> DEFINE m == Measure
             c == [cap |-> q]
             l == [limit |-> q]
  <2>2. CASE b
    <3>1. <<Unseen>> \o <<m, c, l, e>> = <<Unseen, m, c, l, e>>
      <4> HIDE DEF m, c, l
      <4> QED BY Joins
    <3>2. When(b, <<Unseen>>) \o plan = MeteredNew(q, e)
      BY <2>1, <2>2, <3>1 DEF When, Metered, MeteredNew
    <3> QED BY <3>2 DEF Shaped
  <2>3. CASE ~b
    <3>1. <<m, c, l, e>> \in Seq({m, c, l, e})
      <4> HIDE DEF m, c, l
      <4> QED OBVIOUS
    <3>2. plan \in Seq({m, c, l, e})
      BY <2>1, <3>1 DEF Metered
    <3>3. <<>> \o plan = plan
      BY <3>2, NothingFirst
    <3>4. When(b, <<Unseen>>) \o plan = plan
      BY <2>3, <3>3 DEF When
    <3> QED BY <2>1, <3>4 DEF Shaped
  <2> QED BY <2>2, <2>3
<1> QED BY <1>1, <1>2

LEMMA Quotients == \A n \in Nat, c \in Nat \ {0} : n \div c \in Nat
OBVIOUS

LEMMA ActivationIs ==
  ASSUME NEW m \in Rows, NEW C, IsPending(m), pass.clock \in Nat
  PROVE  Activation(m) \in Seq(Effects(C))
<1>1. m.duration \in Nat
  BY ConstantsAre DEF IsPending, Rows, Nullable
<1>2. pass.clock + m.duration \in Nat
  BY <1>1
<1>3. [activated |-> pass.clock, expiry |-> pass.clock + m.duration] \in Effects(C)
  BY <1>2, EffectsAre
<1>4. /\ <<[activated |-> pass.clock, expiry |-> pass.clock + m.duration]>> \in Seq(Effects(C))
      /\ <<>> \in Seq(Effects(C))
  BY <1>3, Sequences
<1> QED BY <1>4 DEF Activation, When

LEMMA NextResetIs ==
  ASSUME NEW rt \in Nat, pass.clock \in Nat, pass.clock >= rt
  PROVE  NextReset(rt) \in Nat
<1> DEFINE n == pass.clock - rt
<1>1. n \in Nat /\ Cycle \in Nat \ {0}
  BY ConstantsAssumption
<1>2. n \div Cycle \in Nat
  BY <1>1, Quotients
<1>3. NextReset(rt) = rt + Cycle * (n \div Cycle + 1)
  BY DEF NextReset
<1> DEFINE k == n \div Cycle
<1> HIDE DEF n, k
<1>4. Cycle * (k + 1) \in Nat
  BY <1>1, <1>2 DEF k
<1> QED BY <1>3, <1>4 DEF k

LEMMA QuotaResetIs ==
  ASSUME NEW m \in Rows, NEW C, QuotaDue(m), pass.clock \in Nat, pass.usage + m.monthly \in C
  PROVE  QuotaReset(m) \in Seq(Effects(C))
<1>1. m.reset \in Nat /\ pass.clock >= m.reset
  BY ConstantsAre DEF QuotaDue, Rows, Nullable
<1>2. NextReset(m.reset) \in Nat
  BY <1>1, NextResetIs
<1> DEFINE a == [cap |-> pass.usage + m.monthly]
           b == [limit |-> pass.usage + m.monthly]
           c == [reset |-> NextReset(m.reset)]
<1>3. a \in Effects(C) /\ b \in Effects(C) /\ c \in Effects(C)
  BY <1>2, EffectsAre
<1>4. QuotaReset(m) = <<a, b, c>>
  BY DEF QuotaReset
<1> HIDE DEF a, b, c
<1> QED BY <1>3, <1>4, Sequences

\* What is left of a plan once the usage is known.
LEMMA RaisedIs ==
  ASSUME NEW q \in Nat, NEW e \in Lasts, NEW u \in Nat
  PROVE  Raised(Seeded(q, e), u) = Seeded(q + u, e)
<1> DEFINE plan == <<[cap |-> q], [limit |-> q], e>>
           r == Raised(plan, u)
           raise(x) == [f \in DOMAIN x |-> IF f \in {"cap", "limit"} THEN x[f] + u ELSE x[f]]
<1>1. DOMAIN plan = 1..3 /\ plan[1] = [cap |-> q] /\ plan[2] = [limit |-> q] /\ plan[3] = e
  OBVIOUS
<1>2. r = [i \in 1..3 |-> raise(plan[i])]
  BY <1>1 DEF Raised
<1>3. raise([cap |-> q]) = [cap |-> q + u]
  OBVIOUS
<1>4. raise([limit |-> q]) = [limit |-> q + u]
  OBVIOUS
<1>5. raise(e) = e
  <2>1. CASE e = [disabled |-> FALSE]
    BY <2>1
  <2>2. CASE e \in [monthly : Quotas \cup {None}, reset : Nullable]
    BY <2>2
  <2> QED BY <2>1, <2>2 DEF Lasts
<1> DEFINE a == [cap |-> q + u]
           b == [limit |-> q + u]
<1>6. r[1] = a /\ r[2] = b /\ r[3] = e
  BY <1>1, <1>2, <1>3, <1>4, <1>5
<1>7. DOMAIN r = 1..3 /\ r = [i \in 1..3 |-> r[i]]
  BY <1>2
<1> HIDE DEF r, a, b
<1>8. r = <<a, b, e>>
  BY <1>6, <1>7
<1> QED BY <1>8 DEF r, a, b, Seeded

-----------------------------------------------------------------------------
(* What the next step of a plan is *)

\* The columns an effect sets.
ColumnEffects(limits) ==
  [limit : limits] \cup [duration : Nat] \cup [expiry : Nat]
    \cup [activated : Nat, expiry : Nat] \cup [disabled : BOOLEAN] \cup [reset : Nat]
    \cup [monthly : Quotas \cup {None}, reset : Nullable] \cup {Unseen}

LEMMA RemoveIs ==
  /\ Remove # <<>> /\ Head(Remove) = [live |-> FALSE]
  /\ Tail(Remove) = <<[known |-> FALSE]>> /\ Tail(Remove) # <<>>
  /\ Head(Tail(Remove)) = [known |-> FALSE] /\ Tail(Tail(Remove)) = <<>>
  /\ DOMAIN Head(Remove) = {"live"} /\ DOMAIN Head(Tail(Remove)) = {"known"}
  /\ DOMAIN Measure = {"measure"} /\ Unseen # Measure
<1> DEFINE x == [live |-> FALSE]
           y == [known |-> FALSE]
<1>0. Remove = <<x, y>>
  BY DEF Remove
<1> HIDE DEF x, y
<1>1a. Tail(Remove) = <<y>> /\ Head(Remove) = x /\ Remove # <<>>
  BY <1>0
<1>1. Tail(Remove) = <<[known |-> FALSE]>> /\ Head(Remove) = [live |-> FALSE] /\ Remove # <<>>
  BY <1>1a DEF x, y
<1>2. DOMAIN Measure = {"measure"} /\ Unseen # Measure
  BY DEF Measure, Unseen
<1>3. DOMAIN [live |-> FALSE] = {"live"} /\ DOMAIN [known |-> FALSE] = {"known"}
  OBVIOUS
<1>4. \A e : Head(<<e>>) = e /\ Tail(<<e>>) = <<>> /\ <<e>> # <<>>
  OBVIOUS
<1> QED BY <1>1, <1>2, <1>3, <1>4

LEMMA MeasureStep ==
  ASSUME NEW C, NEW live, NEW plan, Shaped(plan, C, live), plan # <<>>, Head(plan) = Measure
  PROVE  \E q \in Quotas, e \in Lasts : Tail(plan) = Seeded(q, e)
<1>1. plan \notin Seq(Effects(C))
  <2> DEFINE S == Effects(C)
  <2>1. Measure \notin S
    BY EffectKinds
  <2> HIDE DEF S
  <2>2. plan \notin Seq(S)
    BY <2>1
  <2> QED BY <2>2 DEF S
<1>2. ASSUME NEW q \in Quotas, NEW e \in Lasts, plan = MeteredNew(q, e) PROVE FALSE
  <2>1. Head(plan) = Unseen
    BY <1>2 DEF MeteredNew
  <2> QED BY <2>1, RemoveIs
<1>3. plan # Remove /\ plan # Tail(Remove)
  BY RemoveIs
<1>4. PICK q \in Quotas, e \in Lasts : plan = Metered(q, e)
  BY <1>1, <1>2, <1>3 DEF Shaped
<1>5. Tail(plan) = Seeded(q, e)
  BY <1>4 DEF Metered, Seeded
<1> QED BY <1>5

LEMMA PlanSteps ==
  ASSUME NEW C, NEW live, NEW plan, Shaped(plan, C, live), plan # <<>>, Quotas \subseteq C
  PROVE  /\ DOMAIN Head(plan) \subseteq Outlines =>
              \/ Head(plan) \in [cap : C] /\ Shaped(Tail(plan), C, live)
              \/ plan = Remove
         /\ DOMAIN Head(plan) \subseteq Columns =>
              /\ Head(plan) \in ColumnEffects(C) \/ (Head(plan) = [known |-> FALSE] /\ ~live)
              /\ Shaped(Tail(plan), C, live)
<1> DEFINE Goal == /\ DOMAIN Head(plan) \subseteq Outlines =>
                        \/ Head(plan) \in [cap : C] /\ Shaped(Tail(plan), C, live)
                        \/ plan = Remove
                   /\ DOMAIN Head(plan) \subseteq Columns =>
                        /\ Head(plan) \in ColumnEffects(C) \/ (Head(plan) = [known |-> FALSE] /\ ~live)
                        /\ Shaped(Tail(plan), C, live)
<1> SUFFICES Goal
  OBVIOUS
<1> HIDE DEF Goal
<1>1. CASE plan \in Seq(Effects(C))
  <2>1. Head(plan) \in Effects(C) /\ Tail(plan) \in Seq(Effects(C))
    <3> DEFINE S == Effects(C)
    <3> HIDE DEF S
    <3>1. plan \in Seq(S)
      BY <1>1 DEF S
    <3>2. Head(plan) \in S /\ Tail(plan) \in Seq(S)
      BY <3>1
    <3> QED BY <3>2 DEF S
  <2>2. Shaped(Tail(plan), C, live)
    BY <2>1 DEF Shaped
  <2>3. /\ DOMAIN Head(plan) \subseteq Outlines => Head(plan) \in [cap : C]
        /\ DOMAIN Head(plan) \subseteq Columns => Head(plan) \in ColumnEffects(C)
        /\ Head(plan) # Measure
    BY <2>1, EffectKinds DEF ColumnEffects
  <2> QED BY <2>2, <2>3 DEF Goal
<1>2. ASSUME NEW q \in Quotas, NEW e \in Lasts, plan = Metered(q, e)
      PROVE  Goal
  <2>1. Head(plan) = Measure /\ Tail(plan) = Seeded(q, e)
    BY <1>2 DEF Metered, Seeded
  <2>2. ~(DOMAIN Head(plan) \subseteq Outlines) /\ ~(DOMAIN Head(plan) \subseteq Columns)
    BY <2>1, RemoveIs DEF Outlines, Columns
  <2> QED BY <2>1, <2>2 DEF Goal
<1>3. ASSUME NEW q \in Quotas, NEW e \in Lasts, plan = MeteredNew(q, e)
      PROVE  Goal
  <2>1. Head(plan) = Unseen /\ Tail(plan) = Metered(q, e)
    BY <1>3 DEF Metered, MeteredNew
  <2>2. Shaped(Tail(plan), C, live)
    BY <2>1 DEF Shaped
  <2>3. Head(plan) \in ColumnEffects(C) /\ Head(plan) # Measure
    BY <2>1, RemoveIs DEF ColumnEffects
  <2>4. ~(DOMAIN Head(plan) \subseteq Outlines)
    BY <2>1 DEF Unseen, Outlines
  <2> QED BY <2>2, <2>3, <2>4 DEF Goal
<1>4. CASE plan = Remove
  <2>1. DOMAIN Head(plan) = {"live"} /\ Head(plan) # Measure
    BY <1>4, RemoveIs
  <2>2. ~(DOMAIN Head(plan) \subseteq Columns)
    BY <2>1 DEF Columns
  <2> QED BY <1>4, <2>1, <2>2 DEF Goal
<1>5. CASE plan = Tail(Remove) /\ ~live
  <2>1. Head(plan) = [known |-> FALSE] /\ DOMAIN Head(plan) = {"known"} /\ Tail(plan) = <<>>
    BY <1>5, RemoveIs
  <2>2. ~(DOMAIN Head(plan) \subseteq Outlines) /\ Head(plan) # Measure
    BY <2>1, RemoveIs DEF Outlines
  <2>3. Shaped(Tail(plan), C, live)
    BY <2>1, Sequences DEF Shaped
  <2> QED BY <1>5, <2>1, <2>2, <2>3 DEF Goal
<1>6. CASE \E q \in Quotas, e \in Lasts :
             plan = Metered(q, e) \/ plan = MeteredNew(q, e)
  <2>1. PICK q \in Quotas, e \in Lasts :
             plan = Metered(q, e) \/ plan = MeteredNew(q, e)
    BY <1>6
  <2> QED BY <2>1, <1>2, <1>3
<1> QED BY <1>1, <1>4, <1>5, <1>6 DEF Shaped

LEMMA CallStep ==
  ASSUME NEW C, NEW live, NEW plan, Shaped(plan, C, live), plan # <<>>, Quotas \subseteq C,
         DOMAIN Head(plan) \subseteq Outlines
  PROVE  \/ Head(plan) \in [cap : C] /\ Shaped(Tail(plan), C, live)
         \/ plan = Remove
BY PlanSteps

LEMMA WriteStep ==
  ASSUME NEW C, NEW live, NEW plan, Shaped(plan, C, live), plan # <<>>, Quotas \subseteq C,
         DOMAIN Head(plan) \subseteq Columns
  PROVE  /\ Head(plan) \in ColumnEffects(C) \/ (Head(plan) = [known |-> FALSE] /\ ~live)
         /\ Shaped(Tail(plan), C, live)
BY PlanSteps

LEMMA AppliedIs ==
  ASSUME NEW C, C \subseteq Nullable, None \in C, NEW r \in Rows, r.limit \in C, NEW e \in ColumnEffects(C)
  PROVE  Applied(e, r) \in Rows /\ Applied(e, r).limit \in C /\ Applied(e, r).known = (r.known \/ e = Unseen)
<1> DEFINE a == Applied(e, r)
<1>0. DOMAIN r = Columns /\ a = [f \in Columns |-> IF f \in DOMAIN e THEN e[f] ELSE r[f]]
  BY DEF Rows, Columns, Applied
<1>1. /\ r.known \in BOOLEAN /\ r.limit \in Nullable /\ r.duration \in Nullable
      /\ r.activated \in Nullable /\ r.expiry \in Nullable /\ r.disabled \in BOOLEAN
      /\ r.monthly \in Quotas \cup {None} /\ r.reset \in Nullable
  BY DEF Rows
<1> DEFINE g(f) == IF f \in DOMAIN e THEN e[f] ELSE r[f]
           Fine == /\ g("known") \in BOOLEAN /\ g("limit") \in Nullable /\ g("duration") \in Nullable
                   /\ g("activated") \in Nullable /\ g("expiry") \in Nullable
                   /\ g("disabled") \in BOOLEAN /\ g("monthly") \in Quotas \cup {None}
                   /\ g("reset") \in Nullable /\ g("limit") \in C
                   /\ g("known") = (r.known \/ e = Unseen)
<1>2. Fine
  <2>1. CASE e \in [limit : C]
    <3>1. DOMAIN e = {"limit"} /\ e["limit"] \in C /\ e["limit"] \in Nullable
      BY <2>1
    <3>2. e # Unseen
      BY <3>1 DEF Unseen
    <3> QED BY <1>1, <3>1, <3>2
  <2>2. CASE e \in [duration : Nat]
    BY <1>1, <2>2, ConstantsAre DEF Unseen
  <2>3. CASE e \in [expiry : Nat]
    BY <1>1, <2>3, ConstantsAre DEF Unseen
  <2>4. CASE e \in [activated : Nat, expiry : Nat]
    BY <1>1, <2>4, ConstantsAre DEF Unseen
  <2>5. CASE e \in [disabled : BOOLEAN]
    BY <1>1, <2>5, ConstantsAre DEF Unseen
  <2>6. CASE e \in [reset : Nat]
    BY <1>1, <2>6, ConstantsAre DEF Unseen
  <2>7. CASE e \in [monthly : Quotas \cup {None}, reset : Nullable]
    BY <1>1, <2>7, ConstantsAre DEF Unseen
  <2>8. CASE e = Unseen
    BY <1>1, <2>8, ConstantsAre DEF Unseen
  <2> QED BY <2>1, <2>2, <2>3, <2>4, <2>5, <2>6, <2>7, <2>8 DEF ColumnEffects
<1>3. a = [f \in Columns |-> g(f)]
  BY <1>0
<1> HIDE DEF a, g
<1>4. /\ a.known = g("known") /\ a.limit = g("limit") /\ a.duration = g("duration")
      /\ a.activated = g("activated") /\ a.expiry = g("expiry") /\ a.disabled = g("disabled")
      /\ a.monthly = g("monthly") /\ a.reset = g("reset")
  BY <1>3 DEF Columns
<1>5. a \in Rows
  BY <1>2, <1>3 DEF Rows, Columns
<1> QED BY <1>2, <1>4, <1>5 DEF a

-----------------------------------------------------------------------------
(* The invariant: types, and how much a key may be given *)

\* The limits of a key that lives on its quota, and any limit if volume was given.
Ceilings(used, topped) ==
  IF topped THEN Nullable ELSE {c \in Nullable : c # None => \E q \in Quotas : c <= used + q}

Allowed == Ceilings(out.used, hist.topped)

\* What a pass that knows the usage may set: something is left, or the key is cut.
Fresh(base) == {c \in Nat : c = 0 \/ c > base}

Hists == [disturbed : BOOLEAN, asked : BOOLEAN, topped : BOOLEAN, waived : BOOLEAN,
          inherited : BOOLEAN]

\* What a pass works from is of the phase it is in, and it never knows of more usage
\* than there is.
PassKnows ==
  /\ pass.read # None =>
       /\ todo[Pass] = <<>>
       /\ \/ pass.at = "pending" /\ IsPending(pass.read)
          \/ pass.at = "quota" /\ QuotaDue(pass.read)
  /\ pass.base <= out.used
  /\ pass.usage # None => pass.usage <= out.used
  /\ out.live /\ ~pass.blind =>
       /\ pass.usage # None => pass.usage >= pass.base
       /\ todo[Pass] \in Seq(Effects(Fresh(pass.base)))

KeyIInv ==
  /\ TypeOK
  /\ row.limit \in Allowed /\ out.cap \in Allowed
  /\ \A w \in Writers : Shaped(todo[w], Allowed, out.live)
  /\ PassKnows

LEMMA CeilingsAre ==
  ASSUME NEW u \in Nat, NEW v \in Nat, u <= v, NEW a \in BOOLEAN, NEW b \in BOOLEAN, a => b
  PROVE  /\ Ceilings(u, a) \subseteq Ceilings(v, b) /\ Ceilings(u, a) \subseteq Nullable
         /\ None \in Ceilings(u, a) /\ 0 \in Ceilings(u, a) /\ Quotas \subseteq Ceilings(u, a)
         /\ \A q \in Quotas, x \in 0..u : q + x \in Ceilings(u, a) /\ x + q \in Ceilings(u, a)
         /\ a => Ceilings(u, a) = Nullable
<1>1. Ceilings(u, a) \subseteq Ceilings(v, b)
  <2>1. CASE b
    BY <2>1 DEF Ceilings
  <2>2. CASE ~b
    <3>1. ASSUME NEW c \in Nullable, c # None, NEW q \in Quotas, c <= u + q PROVE c <= v + q
      BY <3>1, ConstantsAre DEF Nullable
    <3> QED BY <2>2, <3>1 DEF Ceilings
  <2> QED BY <2>1, <2>2
<1>2. None \in Ceilings(u, a) /\ Ceilings(u, a) \subseteq Nullable /\ (a => Ceilings(u, a) = Nullable)
  BY ConstantsAre DEF Ceilings
<1>3. ASSUME NEW q \in Quotas, NEW x \in 0..u PROVE q + x \in Ceilings(u, a) /\ x + q \in Ceilings(u, a)
  <2>1. q \in Nat /\ q + x \in Nat /\ q + x <= u + q /\ x + q = q + x
    BY ConstantsAre
  <2>2. q + x \in Nullable
    BY <2>1, ConstantsAre
  <2> QED BY <2>1, <2>2 DEF Ceilings
<1>4. ASSUME NEW q \in Quotas PROVE q \in Ceilings(u, a) /\ 0 \in Ceilings(u, a)
  <2>1. q \in Nat /\ q \in Nullable /\ 0 \in Nullable /\ q <= u + q /\ 0 <= u + q
    BY ConstantsAre
  <2> QED BY <2>1 DEF Ceilings
<1>5. \E q \in Quotas : TRUE
  BY ConstantsAre
<1> QED BY <1>1, <1>2, <1>3, <1>4, <1>5

\* A plan is a sequence of what TypeOK says it is.
LEMMA ShapedIs ==
  ASSUME NEW C, C \subseteq Nullable, Quotas \subseteq C, NEW live, NEW plan, Shaped(plan, C, live)
  PROVE  plan \in Seq(Effects(Nullable) \cup {Measure, Remove[1], Remove[2]})
<1> DEFINE E == Effects(Nullable)
           S == Effects(Nullable) \cup {Measure, Remove[1], Remove[2]}
<1> SUFFICES plan \in Seq(S)
  OBVIOUS
<1>1. CASE plan \in Seq(Effects(C))
  <2>1. plan \in Seq(E)
    BY <1>1, MoreEffects
  <2>2. Seq(E) \subseteq Seq(S)
    <3>1. E \subseteq S
      OBVIOUS
    <3> HIDE DEF E, S
    <3> QED BY <3>1
  <2> QED BY <2>1, <2>2
<1>2. ASSUME NEW q \in Quotas, NEW e \in Lasts, plan = Metered(q, e) \/ plan = MeteredNew(q, e)
      PROVE  plan \in Seq(S)
  <2> DEFINE m == Measure
             c == [cap |-> q]
             l == [limit |-> q]
             n == Unseen
  <2>1. m \in S /\ c \in S /\ l \in S /\ e \in S /\ n \in S
    BY ConstantsAre, EffectsAre, LastsAre
  <2>2. plan = <<m, c, l, e>> \/ plan = <<n, m, c, l, e>>
    BY <1>2 DEF Metered, MeteredNew
  <2> HIDE DEF m, c, l, n, S
  <2>3. <<m, c, l, e>> \in Seq(S)
    BY <2>1
  <2>4. <<n, m, c, l, e>> \in Seq(S)
    BY <2>1
  <2> QED BY <2>2, <2>3, <2>4
<1>3. CASE plan = Remove \/ plan = Tail(Remove)
  <2> DEFINE a == Remove[1]
             b == Remove[2]
  <2>1. Remove = <<a, b>>
    BY DEF Remove
  <2>2. a \in S /\ b \in S
    OBVIOUS
  <2> HIDE DEF a, b, S
  <2>3. Tail(Remove) = <<b>>
    BY <2>1
  <2>4. <<a, b>> \in Seq(S) /\ <<b>> \in Seq(S)
    BY <2>2
  <2> QED BY <1>3, <2>1, <2>3, <2>4
<1> HIDE DEF S
<1>4. (\E q \in Quotas, e \in Lasts : plan = Metered(q, e) \/ plan = MeteredNew(q, e)) => plan \in Seq(S)
  BY <1>2
<1> QED BY <1>1, <1>3, <1>4 DEF Shaped

LEMMA NotesIs ==
  ASSUME hist \in Hists, NEW F, Notes(F)
  PROVE  /\ hist' \in Hists
         /\ hist'.disturbed = (hist.disturbed \/ "disturbed" \in F)
         /\ hist'.asked = (hist.asked \/ "asked" \in F)
         /\ hist'.topped = (hist.topped \/ "topped" \in F)
         /\ hist'.waived = (hist.waived \/ "waived" \in F)
         /\ "inherited" \notin F => hist'.inherited = hist.inherited
<1>1. /\ DOMAIN hist = {"disturbed", "asked", "topped", "waived", "inherited"}
      /\ hist.disturbed \in BOOLEAN /\ hist.asked \in BOOLEAN /\ hist.topped \in BOOLEAN
      /\ hist.waived \in BOOLEAN /\ hist.inherited \in BOOLEAN
  BY DEF Hists
<1>2. hist' = [f \in DOMAIN hist |-> hist[f] \/ f \in F]
  BY DEF Notes
<1> DEFINE g(f) == hist[f] \/ f \in F
<1>3. /\ hist'.disturbed = g("disturbed") /\ hist'.asked = g("asked")
      /\ hist'.topped = g("topped") /\ hist'.waived = g("waived")
      /\ hist'.inherited = g("inherited")
  BY <1>1, <1>2
<1>4. hist' \in Hists
  <2>1. \A f \in DOMAIN hist : g(f) \in BOOLEAN
    BY <1>1
  <2>2. hist' = [f \in {"disturbed", "asked", "topped", "waived", "inherited"} |-> g(f)]
    BY <1>1, <1>2
  <2> HIDE DEF g
  <2> QED BY <1>1, <2>1, <2>2 DEF Hists
<1>5. "inherited" \notin F => hist'.inherited = hist.inherited
  BY <1>1, <1>3
<1> QED BY <1>3, <1>4, <1>5

LEMMA TypesAre ==
  ASSUME TypeOK
  PROVE  /\ now \in Nat /\ row \in Rows /\ row.known \in BOOLEAN /\ row.disabled \in BOOLEAN
         /\ row.limit \in Nullable /\ row.monthly \in Quotas \cup {None}
         /\ out \in [live : BOOLEAN, cap : Nullable, used : 0..MaxUsed]
         /\ out.live \in BOOLEAN /\ out.used \in Nat /\ out.cap \in Nullable
         /\ pass.clock \in Nat /\ pass.base \in Nat /\ pass.usage \in Nullable
         /\ pass.blind \in BOOLEAN /\ (pass.read # None => pass.read \in Rows)
         /\ hist \in Hists /\ hist.topped \in BOOLEAN /\ spent \in Nat /\ faults \in Nat
<1>1. now \in Nat /\ spent \in Nat /\ faults \in Nat
  BY ConstantsAssumption DEF TypeOK
<1>2. row \in Rows /\ row.known \in BOOLEAN /\ row.disabled \in BOOLEAN
      /\ row.limit \in Nullable /\ row.monthly \in Quotas \cup {None}
  BY DEF TypeOK, Rows
<1>3. out \in [live : BOOLEAN, cap : Nullable, used : 0..MaxUsed]
      /\ out.live \in BOOLEAN /\ out.used \in Nat /\ out.cap \in Nullable
  BY DEF TypeOK
<1>4. /\ pass.clock \in Nat /\ pass.base \in Nat /\ pass.usage \in Nullable
      /\ pass.blind \in BOOLEAN /\ (pass.read # None => pass.read \in Rows)
  BY <1>1 DEF TypeOK
<1>5. hist \in Hists /\ hist.topped \in BOOLEAN
  BY DEF TypeOK, Hists
<1> QED BY <1>1, <1>2, <1>3, <1>4, <1>5

LEMMA InitHolds == Init => KeyIInv
<1> SUFFICES ASSUME Init PROVE KeyIInv
  OBVIOUS
<1>1. row \in Rows
  <2>1. CASE row = [Unseen EXCEPT !.known = FALSE]
    BY <2>1, UnseenIs DEF Rows
  <2>2. ASSUME NEW sale \in Sales, row = Made(sale) PROVE row \in Rows
    <3>1. sale.limit \in Nullable /\ sale.days \in Nullable /\ (sale.days # None => sale.days \in Nat)
          /\ sale.monthly \in Quotas \cup {None} /\ sale.startNow \in BOOLEAN
      BY ConstantsAssumption DEF Nullable
    <3> DEFINE starts == sale.days # None /\ sale.startNow
               l == IF sale.limit = None THEN sale.monthly ELSE sale.limit
               a == IF starts THEN now ELSE None
               x == IF starts THEN now + sale.days ELSE None
               s == IF sale.monthly = None THEN None ELSE now + Cycle
    <3>2. now = 0
      BY DEF Init
    <3>5. Cycle \in Nat
      BY ConstantsAssumption
    <3>6. l \in Nullable
      BY <3>1, ConstantsAre
    <3>7. a \in Nullable /\ s \in Nullable
      BY <3>2, <3>5, ConstantsAre
    <3>8. x \in Nullable
      BY <3>1, <3>2, ConstantsAre
    <3>3. l \in Nullable /\ a \in Nullable /\ x \in Nullable /\ s \in Nullable
      BY <3>6, <3>7, <3>8
    <3>4. row = [Unseen EXCEPT !.limit = l, !.duration = sale.days, !.activated = a,
                               !.expiry = x, !.monthly = sale.monthly, !.reset = s]
      BY <2>2 DEF Made
    <3> HIDE DEF starts, l, a, x, s
    <3> QED BY <3>1, <3>3, <3>4, UnseenIs DEF Rows
  <2> QED BY <2>1, <2>2 DEF Init
<1>2. /\ out = [live |-> TRUE, cap |-> out.cap, used |-> 0]
      /\ todo = [w \in Writers |-> <<>>] /\ pass = Idle
      /\ hist = [NoHistory EXCEPT !.topped = out.cap # row.monthly,
                                  !.inherited = out.cap # row.limit]
  BY DEF Init
<1>3. /\ row.limit \in Nullable /\ row.monthly \in Quotas \cup {None}
      /\ out.cap \in Nullable /\ (out.cap = row.limit \/ row.limit = None)
  <2>1. CASE out = [live |-> TRUE, cap |-> row.limit, used |-> 0]
    BY <1>1, <2>1 DEF Rows
  <2>2. ASSUME row = [Unseen EXCEPT !.known = FALSE],
               NEW v \in Sizes, out = [live |-> TRUE, cap |-> v, used |-> 0]
        PROVE  row.limit = None /\ out.cap \in Nullable
    BY <2>2, UnseenIs, ConstantsAssumption DEF Unseen, Nullable
  <2> QED BY <1>1, <2>1, <2>2 DEF Init, Rows
<1>4. hist \in Hists /\ hist.topped = (out.cap # row.monthly)
  BY <1>2 DEF NoHistory, Hists
<1>5. \A w \in Writers : todo[w] = <<>>
  BY <1>2
<1>6. \A S : <<>> \in Seq(S)
  OBVIOUS
<1>7. TypeOK
  <2>1. now \in 0..MaxTime /\ spent \in 0..MaxRequests /\ faults \in 0..MaxFaults
    BY ConstantsAssumption DEF Init
  <2>2. out \in [live : BOOLEAN, cap : Nullable, used : 0..MaxUsed]
    <3> DEFINE c == out.cap
    <3>1. out = [live |-> TRUE, cap |-> c, used |-> 0] /\ c \in Nullable /\ 0 \in 0..MaxUsed
      BY <1>2, <1>3, ConstantsAssumption
    <3> HIDE DEF c
    <3> QED BY <3>1
  <2>3. touched \in [Writers -> BOOLEAN]
    BY DEF Init
  <2>4. pass \in [at : {"idle", "pending", "quota", "expiry"}, clock : 0..now,
               read : Rows \cup {None}, usage : Nullable, base : 0..MaxUsed, blind : BOOLEAN]
    BY <1>2, ConstantsAre, ConstantsAssumption DEF Idle, Init
  <2>5. todo \in [Writers -> Seq(Effects(Nullable) \cup {Measure, Remove[1], Remove[2]})]
    <3> DEFINE S == Effects(Nullable) \cup {Measure, Remove[1], Remove[2]}
    <3> HIDE DEF S
    <3>1. todo \in [Writers -> Seq(S)]
      BY <1>2, <1>6
    <3> QED BY <3>1 DEF S
  <2> QED BY <1>1, <1>4, <2>1, <2>2, <2>3, <2>4, <2>5 DEF TypeOK, Hists
<1>8. row.limit \in Allowed /\ out.cap \in Allowed
  <2>1. out.used = 0
    BY <1>2
  <2>2. Allowed = Ceilings(0, hist.topped) /\ hist.topped \in BOOLEAN
    BY <1>4, <2>1 DEF Allowed
  <2>3. /\ None \in Ceilings(0, hist.topped) /\ Quotas \subseteq Ceilings(0, hist.topped)
        /\ hist.topped => Ceilings(0, hist.topped) = Nullable
    BY <2>2, CeilingsAre
  <2>4. CASE hist.topped
    <3>1. Ceilings(0, hist.topped) = Nullable
      BY <2>3, <2>4
    <3> QED BY <1>3, <2>1, <2>2, <3>1
  <2>5. CASE ~hist.topped
    <3>1. out.cap = row.monthly
      BY <1>4, <2>5
    <3>2. row.limit = out.cap \/ row.limit = None
      BY <1>3
    <3> QED BY <1>3, <2>1, <2>2, <2>3, <3>1, <3>2
  <2> QED BY <2>4, <2>5
<1>9. \A w \in Writers : Shaped(todo[w], Allowed, out.live)
  BY <1>5, <1>6 DEF Shaped
<1>10. PassKnows
  BY <1>2, <1>5, <1>6, ConstantsAre DEF PassKnows, Idle
<1> QED BY <1>7, <1>8, <1>9, <1>10 DEF KeyIInv

\* More usage and more history allow more.
LEMMA AllowedGrows ==
  ASSUME KeyIInv, out'.used \in Nat, out.used <= out'.used, hist' \in Hists, hist.topped => hist'.topped
  PROVE  /\ Allowed \subseteq Allowed' /\ Allowed' \subseteq Nullable /\ None \in Allowed'
         /\ 0 \in Allowed' /\ Quotas \subseteq Allowed' /\ Quotas \subseteq Allowed
         /\ hist'.topped => Allowed' = Nullable
         /\ \A q \in Quotas, x \in 0..out.used : q + x \in Allowed /\ x + q \in Allowed
<1>1. out.used \in Nat /\ hist.topped \in BOOLEAN /\ hist'.topped \in BOOLEAN
  BY TypesAre DEF KeyIInv, Hists
<1> DEFINE a == hist.topped
           b == hist'.topped
           u == out.used
           v == out'.used
<1>2. Allowed = Ceilings(u, a) /\ Allowed' = Ceilings(v, b)
  BY DEF Allowed
<1>3. u \in Nat /\ v \in Nat /\ u <= v /\ a \in BOOLEAN /\ b \in BOOLEAN /\ (a => b)
  BY <1>1
<1>4. /\ Ceilings(u, a) \subseteq Ceilings(v, b) /\ Quotas \subseteq Ceilings(u, a)
      /\ \A q \in Quotas, x \in 0..u : q + x \in Ceilings(u, a) /\ x + q \in Ceilings(u, a)
  BY <1>3, CeilingsAre
<1>5. /\ Ceilings(v, b) \subseteq Nullable /\ None \in Ceilings(v, b) /\ 0 \in Ceilings(v, b)
      /\ Quotas \subseteq Ceilings(v, b) /\ (b => Ceilings(v, b) = Nullable)
  <2>1. v <= v /\ (b => b)
    BY <1>3
  <2> QED BY <1>3, <2>1, CeilingsAre
<1> QED BY <1>2, <1>4, <1>5

\* What has been planned stays a plan as usage and history grow; the key never comes back.
LEMMA PlansKept ==
  ASSUME KeyIInv, out'.used \in Nat, out.used <= out'.used, hist' \in Hists,
         hist.topped => hist'.topped, out'.live => out.live
  PROVE  \A w \in Writers : Shaped(todo[w], Allowed', out'.live)
<1>1. Allowed \subseteq Allowed'
  BY AllowedGrows
<1>2. ASSUME NEW w \in Writers PROVE Shaped(todo[w], Allowed', out'.live)
  <2>1. Shaped(todo[w], Allowed, out.live)
    BY <1>2 DEF KeyIInv
  <2> QED BY <1>1, <2>1, MoreShaped
<1> QED BY <1>2

\* One writer's plan changes.
LEMMA OnePlan ==
  ASSUME KeyIInv, out'.used \in Nat, out.used <= out'.used, hist' \in Hists,
         hist.topped => hist'.topped, out'.live => out.live,
         NEW w \in Writers, todo' = [todo EXCEPT ![w] = todo'[w]],
         Shaped(todo'[w], Allowed', out'.live)
  PROVE  /\ \A v \in Writers : Shaped(todo'[v], Allowed', out'.live)
         /\ todo' \in [Writers -> Seq(Effects(Nullable) \cup {Measure, Remove[1], Remove[2]})]
<1> DEFINE S == Seq(Effects(Nullable) \cup {Measure, Remove[1], Remove[2]})
<1>1. todo \in [Writers -> S]
  BY DEF KeyIInv, TypeOK
<1>2. Allowed' \subseteq Nullable /\ Quotas \subseteq Allowed'
  BY AllowedGrows
<1>3. todo'[w] \in S
  BY <1>2, ShapedIs
<1>4. \A v \in Writers : Shaped(todo[v], Allowed', out'.live)
  BY PlansKept
<1> HIDE DEF S
<1>5. todo' \in [Writers -> S] /\ \A v \in Writers : v # w => todo'[v] = todo[v]
  BY <1>1, <1>3
<1>6. \A v \in Writers : Shaped(todo'[v], Allowed', out'.live)
  BY <1>4, <1>5
<1> QED BY <1>5, <1>6 DEF S

LEMMA BeginKeeps ==
  ASSUME KeyIInv, NEW r \in Routes, NEW plan, Begin(r, plan), NEW F, Notes(F),
         Shaped(plan, Allowed', out.live)
  PROVE  KeyIInv'
<1>1. /\ todo' = [todo EXCEPT ![r] = plan] /\ touched' = [touched EXCEPT ![r] = FALSE]
      /\ spent' = spent + 1 /\ spent < MaxRequests /\ now' = now /\ row' = row /\ out' = out
      /\ pass' = pass /\ faults' = faults
  BY DEF Begin
<1>2. TypeOK /\ hist \in Hists /\ out.used \in Nat
  BY TypesAre DEF KeyIInv
<1>3. hist' \in Hists /\ (hist.topped => hist'.topped)
  BY <1>2, NotesIs
<1>4. r \in Writers /\ r # Pass /\ Pass \in Writers
  BY ConstantsAre
<1>5. todo'[r] = plan /\ todo' = [todo EXCEPT ![r] = todo'[r]] /\ todo'[Pass] = todo[Pass]
  BY <1>1, <1>2, <1>4 DEF TypeOK
<1>6. out'.used \in Nat /\ out.used <= out'.used /\ (out'.live => out.live)
  BY <1>1, <1>2
<1>7. /\ \A v \in Writers : Shaped(todo'[v], Allowed', out'.live)
      /\ todo' \in [Writers -> Seq(Effects(Nullable) \cup {Measure, Remove[1], Remove[2]})]
  <2>1. Shaped(todo'[r], Allowed', out'.live)
    BY <1>1, <1>5
  <2> QED BY <1>3, <1>4, <1>5, <1>6, <2>1, OnePlan
<1>8. TypeOK'
  <2>1. touched' \in [Writers -> BOOLEAN]
    BY <1>1, <1>2 DEF TypeOK
  <2>2. spent' \in 0..MaxRequests
    BY <1>1, <1>2, ConstantsAssumption DEF TypeOK
  <2>3. /\ now' \in 0..MaxTime /\ row' \in Rows /\ faults' \in 0..MaxFaults
        /\ out' \in [live : BOOLEAN, cap : Nullable, used : 0..MaxUsed]
        /\ pass' \in [at : {"idle", "pending", "quota", "expiry"}, clock : 0..now',
               read : Rows \cup {None}, usage : Nullable, base : 0..MaxUsed, blind : BOOLEAN]
    BY <1>1, <1>2 DEF TypeOK
  <2> QED BY <1>3, <1>7, <2>1, <2>2, <2>3 DEF TypeOK, Hists
<1>9. row'.limit \in Allowed' /\ out'.cap \in Allowed'
  <2>1. Allowed \subseteq Allowed'
    BY <1>3, <1>6, AllowedGrows
  <2> QED BY <1>1, <2>1 DEF KeyIInv
<1>10. PassKnows'
  BY <1>1, <1>5 DEF KeyIInv, PassKnows, QuotaDue
<1> QED BY <1>7, <1>8, <1>9, <1>10 DEF KeyIInv

\* The row a route works from.
LEMMA AdoptedIs ==
  ASSUME KeyIInv
  PROVE  /\ Adopted \in Rows /\ Adopted.limit \in Allowed /\ now \in Nat
         /\ Adoption = When(~row.known, <<Unseen>>) /\ (~row.known) \in BOOLEAN
<1>1. row \in Rows /\ row.known \in BOOLEAN /\ row.limit \in Allowed /\ now \in Nat
      /\ out.used \in Nat /\ hist.topped \in BOOLEAN
  BY TypesAre DEF KeyIInv
<1>2. out.used <= out.used /\ (hist.topped => hist.topped)
  BY <1>1
<1>3. None \in Ceilings(out.used, hist.topped)
  BY <1>1, <1>2, CeilingsAre
<1> QED BY <1>1, <1>3, UnseenIs DEF Adopted, Adoption, Allowed

\* A route that has noted what it does may begin any plan its limits are of.
LEMMA AdoptsKeeps ==
  ASSUME KeyIInv, NEW r \in Routes, NEW F, Notes(F), NEW plan, Begin(r, Adoption \o plan),
         \/ plan \in Seq(Effects(Allowed'))
         \/ \E q \in Quotas, e \in Lasts : plan = Metered(q, e)
  PROVE  KeyIInv'
<1>1. Adoption = When(~row.known, <<Unseen>>) /\ (~row.known) \in BOOLEAN
  BY AdoptedIs
<1>2. Shaped(When(~row.known, <<Unseen>>) \o plan, Allowed', out.live)
  BY <1>1, Adopts
<1>3. Shaped(Adoption \o plan, Allowed', out.live)
  BY <1>1, <1>2
<1> QED BY <1>3, BeginKeeps

LEMMA BeginGrows ==
  ASSUME KeyIInv, NEW r, NEW plan, Begin(r, plan), NEW F, Notes(F)
  PROVE  /\ Allowed \subseteq Allowed' /\ None \in Allowed' /\ 0 \in Allowed'
         /\ "topped" \in F => Allowed' = Nullable
<1>1. out' = out
  BY DEF Begin
<1>2. out.used \in Nat /\ hist \in Hists
  BY TypesAre DEF KeyIInv
<1>3. hist' \in Hists /\ hist'.topped = (hist.topped \/ "topped" \in F)
  BY <1>2, NotesIs
<1>4. out'.used \in Nat /\ out.used <= out'.used /\ (hist.topped => hist'.topped)
  <2>1. out'.used = out.used /\ out.used <= out.used
    BY <1>1, <1>2
  <2> QED BY <1>2, <1>3, <2>1
<1>5. /\ Allowed \subseteq Allowed' /\ None \in Allowed' /\ 0 \in Allowed'
      /\ hist'.topped => Allowed' = Nullable
  BY <1>3, <1>4, AllowedGrows
<1> QED BY <1>3, <1>5

LEMMA RouteKeeps ==
  ASSUME KeyIInv, NEW r \in Routes, Route(r)
  PROVE  KeyIInv'
<1>1. Adopted \in Rows /\ Adopted.limit \in Allowed /\ now \in Nat
  BY AdoptedIs
<1>2. CASE RenewKey(r)
  <2>1. PICK p \in Packages :
          /\ Begin(r, Adoption \o Renew(Adopted, now, p.gb, p.days))
          /\ Notes({"topped"} \cup (IF p.gb = None THEN {"waived"} ELSE {}))
    BY <1>2 DEF RenewKey
  <2>2. p.gb \in Nullable /\ p.days \in Nullable
    BY ConstantsAssumption DEF Nullable
  <2>3. Allowed' = Nullable
    BY <2>1, BeginGrows
  <2>4. Renew(Adopted, now, p.gb, p.days) \in Seq(Effects(Allowed'))
    BY <1>1, <2>2, <2>3, RenewIs
  <2> QED BY <2>1, <2>4, AdoptsKeeps
<1>3. CASE ExtendKey(r)
  <2>1. PICK d \in Days \cup {-x : x \in Days} : Begin(r, Adoption \o Extend(Adopted, now, d))
    BY <1>3 DEF ExtendKey
  <2>2. d \in Int /\ Notes({})
    BY <1>3, ConstantsAssumption DEF ExtendKey
  <2>3. Allowed \subseteq Allowed'
    BY <2>1, <2>2, BeginGrows
  <2>4. Extend(Adopted, now, d) \in Seq(Effects(Allowed'))
    BY <1>1, <2>2, <2>3, ExtendIs
  <2> QED BY <2>1, <2>2, <2>4, AdoptsKeeps
<1>4. CASE LimitKey(r)
  <2>1. PICK v \in Sizes :
          /\ Begin(r, Adoption \o SetLimit(Adopted, v))
          /\ Notes({"topped"} \cup (IF v = None THEN {"waived"} ELSE {}))
    BY <1>4 DEF LimitKey
  <2>2. Allowed' = Nullable /\ v \in Nullable
    BY <2>1, BeginGrows, ConstantsAssumption DEF Nullable
  <2>3. SetLimit(Adopted, v) \in Seq(Effects(Allowed'))
    BY <1>1, <2>2, SetLimitIs
  <2> QED BY <2>1, <2>3, AdoptsKeeps
<1>5. CASE QuotaKey(r)
  <2>1. PICK F : Notes(F)
    BY <1>5 DEF QuotaKey
  <2>2. CASE \E q \in Quotas : Begin(r, Adoption \o SetQuota(Adopted, now, q))
    <3>1. PICK q \in Quotas : Begin(r, Adoption \o SetQuota(Adopted, now, q))
      BY <2>2
    <3>2. PICK e \in Lasts :
            SetQuota(Adopted, now, q) = IF Adopted.limit = None /\ ~Adopted.disabled
                                        THEN Metered(q, e) ELSE <<e>>
      BY <1>1, SetQuotaIs
    <3>3. e \in Effects(Allowed')
      BY LastsAre
    <3>4. <<e>> \in Seq(Effects(Allowed'))
      BY <3>3, Sequences
    <3>5. \/ SetQuota(Adopted, now, q) \in Seq(Effects(Allowed'))
          \/ \E q2 \in Quotas, e2 \in Lasts : SetQuota(Adopted, now, q) = Metered(q2, e2)
      BY <3>2, <3>4
    <3> QED BY <2>1, <3>1, <3>5, AdoptsKeeps
  <2>3. CASE Begin(r, Adoption \o NoQuota)
    <3>1. NoQuota \in Seq(Effects(Allowed'))
      BY LastsAre
    <3> QED BY <2>1, <2>3, <3>1, AdoptsKeeps
  <2> QED BY <1>5, <2>2, <2>3 DEF QuotaKey
<1>6. CASE ResetKey(r)
  <2>1. Begin(r, Adoption \o When(Adopted.monthly # None, ResetUsage(Adopted))) /\ Notes({})
    BY <1>6 DEF ResetKey
  <2> DEFINE plan == When(Adopted.monthly # None, ResetUsage(Adopted))
  <2>2. \/ plan \in Seq(Effects(Allowed'))
        \/ \E q \in Quotas, e \in Lasts : plan = Metered(q, e)
    <3>1. <<>> \in Seq(Effects(Allowed'))
      BY Sequences
    <3> QED BY <1>1, <3>1, ResetsAre DEF When
  <2> HIDE DEF plan
  <2>3. Begin(r, Adoption \o plan) /\ Notes({})
    BY <2>1 DEF plan
  <2> QED BY <2>2, <2>3, AdoptsKeeps
<1>7. CASE DisableKey(r)
  <2>1. Begin(r, Adoption \o SwitchOff) /\ Notes({"asked"})
    BY <1>7 DEF DisableKey
  <2>2. 0 \in Allowed'
    BY <2>1, BeginGrows
  <2>3. SwitchOff \in Seq(Effects(Allowed'))
    BY <2>2, SwitchesAre
  <2> QED BY <2>1, <2>3, AdoptsKeeps
<1>8. CASE EnableKey(r)
  <2>1. Begin(r, SwitchOn(Adopted)) /\ Notes({})
    BY <1>8 DEF EnableKey
  <2>2. Adopted.limit \in Allowed'
    BY <1>1, <2>1, BeginGrows
  <2>3. SwitchOn(Adopted) \in Seq(Effects(Allowed'))
    BY <1>1, <2>2, SwitchesAre
  <2>4. Shaped(SwitchOn(Adopted), Allowed', out.live)
    BY <2>3 DEF Shaped
  <2> QED BY <2>1, <2>4, BeginKeeps
<1>9. CASE DeleteKey(r)
  <2>1. Begin(r, Remove) /\ Notes({})
    BY <1>9 DEF DeleteKey
  <2>2. Shaped(Remove, Allowed', out.live)
    BY DEF Shaped
  <2> QED BY <2>1, <2>2, BeginKeeps
<1> QED BY <1>2, <1>3, <1>4, <1>5, <1>6, <1>7, <1>8, <1>9 DEF Route

-----------------------------------------------------------------------------
(* What any writer does next *)

LEMMA TailsAre ==
  ASSUME NEW S, NEW s \in Seq(S), s # <<>>
  PROVE  Head(s) \in S /\ Tail(s) \in Seq(S)
OBVIOUS

LEMMA ReadsUsageKeeps ==
  ASSUME KeyIInv, NEW w \in Writers, ReadsUsage(w)
  PROVE  KeyIInv'
<1> DEFINE u == IF out.live THEN out.used ELSE 0
<1>1. /\ todo[w] # <<>> /\ Head(todo[w]) = Measure
      /\ todo' = [todo EXCEPT ![w] = Raised(Tail(todo[w]), u)]
      /\ now' = now /\ row' = row /\ out' = out /\ touched' = touched /\ spent' = spent
      /\ pass' = pass /\ faults' = faults /\ hist' = hist
  BY DEF ReadsUsage
<1>2. TypeOK /\ hist \in Hists /\ out.used \in Nat /\ out.live \in BOOLEAN /\ u \in 0..out.used
  BY TypesAre DEF KeyIInv
<1> HIDE DEF u
<1>3. out'.used \in Nat /\ out.used <= out'.used /\ hist' \in Hists /\ Allowed' = Allowed
      /\ (hist.topped => hist'.topped) /\ (out'.live => out.live)
  BY <1>1, <1>2 DEF Allowed
<1>4. Quotas \subseteq Allowed /\ \A q \in Quotas, x \in 0..out.used : q + x \in Allowed
  BY <1>3, AllowedGrows
<1>5. Shaped(todo[w], Allowed, out.live)
  BY DEF KeyIInv
<1>6. PICK q \in Quotas, e \in Lasts : Tail(todo[w]) = Seeded(q, e)
  <2>1. /\ Shaped(todo[w], Allowed, out.live) /\ todo[w] # <<>> /\ Quotas \subseteq Allowed
        /\ Head(todo[w]) = Measure
    BY <1>1, <1>4, <1>5
  <2> QED BY <2>1, MeasureStep
<1>7. q \in Nat /\ u \in Nat /\ q + u \in Allowed
  BY <1>2, <1>4, ConstantsAre
<1>8. todo'[w] = Seeded(q + u, e)
  <2>1. todo'[w] = Raised(Tail(todo[w]), u)
    BY <1>1, <1>2 DEF TypeOK
  <2>2. Raised(Seeded(q, e), u) = Seeded(q + u, e)
    BY <1>7, RaisedIs
  <2> QED BY <1>6, <2>1, <2>2
<1>9. todo'[w] \in Seq(Effects(Allowed'))
  <2> DEFINE a == [cap |-> q + u]
             b == [limit |-> q + u]
             E == Effects(Allowed)
  <2>1. a \in E /\ b \in E /\ e \in E
    BY <1>7, EffectsAre, LastsAre
  <2>2. todo'[w] = <<a, b, e>>
    BY <1>8 DEF Seeded
  <2> HIDE DEF a, b, E
  <2>3. todo'[w] \in Seq(E)
    BY <2>1, <2>2, Sequences
  <2> QED BY <1>3, <2>3 DEF E
<1>10. todo' = [todo EXCEPT ![w] = todo'[w]]
  BY <1>1, <1>2 DEF TypeOK
<1>11. /\ \A v \in Writers : Shaped(todo'[v], Allowed', out'.live)
       /\ todo' \in [Writers -> Seq(Effects(Nullable) \cup {Measure, Remove[1], Remove[2]})]
  <2>1. Shaped(todo'[w], Allowed', out'.live)
    BY <1>9 DEF Shaped
  <2> QED BY <1>3, <1>10, <2>1, OnePlan
<1>12. TypeOK'
  BY <1>1, <1>2, <1>11 DEF TypeOK
<1>13. row'.limit \in Allowed' /\ out'.cap \in Allowed'
  BY <1>1, <1>3 DEF KeyIInv
<1>14. PassKnows'
  <2>1. CASE w # Pass
    <3>1. todo'[Pass] = todo[Pass]
      BY <1>1, <1>2, <2>1, ConstantsAre DEF TypeOK
    <3> QED BY <1>1, <3>1 DEF KeyIInv, PassKnows, QuotaDue
  <2>2. CASE w = Pass
    <3>1. PassKnows /\ todo[Pass] # <<>> /\ Head(todo[Pass]) = Measure
      BY <1>1, <2>2 DEF KeyIInv
    <3>2. pass.read = None
      BY <3>1 DEF PassKnows
    <3>3. ~(out.live /\ ~pass.blind)
      <4>1. SUFFICES ASSUME out.live, ~pass.blind PROVE FALSE
        OBVIOUS
      <4>2. todo[Pass] \in Seq(Effects(Fresh(pass.base)))
        BY <3>1, <4>1 DEF PassKnows
      <4>3. Head(todo[Pass]) \in Effects(Fresh(pass.base))
        BY <3>1, <4>2, TailsAre
      <4> QED BY <3>1, <4>3, EffectKinds
    <3> QED BY <1>1, <3>1, <3>2, <3>3 DEF PassKnows
  <2> QED BY <2>1, <2>2
<1> QED BY <1>11, <1>12, <1>13, <1>14 DEF KeyIInv

LEMMA CallsIs ==
  ASSUME KeyIInv, NEW w \in Writers, Calls(w)
  PROVE  \/ \E c \in Allowed :
              /\ Head(todo[w]) = [cap |-> c] /\ out' = [out EXCEPT !.cap = c]
              /\ Shaped(Tail(todo[w]), Allowed, out.live)
         \/ todo[w] = Remove /\ out' = [out EXCEPT !.live = FALSE]
<1> DEFINE h == Head(todo[w])
<1>1. todo[w] # <<>> /\ DOMAIN h \subseteq Outlines /\ out' = Applied(h, out)
  BY DEF Calls
<1>2. out \in [live : BOOLEAN, cap : Nullable, used : 0..MaxUsed] /\ hist.topped \in BOOLEAN
      /\ out.used \in Nat
  BY TypesAre DEF KeyIInv
<1>3. Quotas \subseteq Allowed
  <2>1. out.used <= out.used /\ (hist.topped => hist.topped)
    BY <1>2
  <2> QED BY <1>2, <2>1, CeilingsAre DEF Allowed
<1>4. Shaped(todo[w], Allowed, out.live)
  BY DEF KeyIInv
<1>5. (h \in [cap : Allowed] /\ Shaped(Tail(todo[w]), Allowed, out.live)) \/ todo[w] = Remove
  BY <1>1, <1>3, <1>4, CallStep
<1> HIDE DEF h
<1>6. CASE h \in [cap : Allowed] /\ Shaped(Tail(todo[w]), Allowed, out.live)
  <2>1. PICK c \in Allowed : h = [cap |-> c]
    <3>1. h = [cap |-> h.cap] /\ h.cap \in Allowed
      BY <1>6
    <3> QED BY <3>1
  <2>2. out' = [out EXCEPT !.cap = c]
    BY <1>1, <1>2, <2>1 DEF Applied
  <2> QED BY <1>6, <2>1, <2>2 DEF h
<1>7. CASE todo[w] = Remove
  <2>1. h = [live |-> FALSE]
    BY <1>7, RemoveIs DEF h
  <2>2. out' = [out EXCEPT !.live = FALSE]
    <3>1. DOMAIN h = {"live"} /\ h["live"] = FALSE
      BY <2>1
    <3>2. out' = [f \in DOMAIN out |-> IF f \in DOMAIN h THEN h[f] ELSE out[f]]
      BY <1>1 DEF Applied
    <3>3. out' = [f \in DOMAIN out |-> IF f = "live" THEN FALSE ELSE out[f]]
      BY <3>1, <3>2
    <3> QED BY <1>2, <3>3
  <2> QED BY <1>7, <2>2
<1> QED BY <1>5, <1>6, <1>7

LEMMA CallNotes ==
  ASSUME hist \in Hists, NEW w \in Writers, Calls(w)
  PROVE  /\ hist' \in Hists /\ hist'.topped = hist.topped
         /\ hist'.disturbed = (hist.disturbed \/ Overlaps(w))
         /\ hist'.asked = hist.asked /\ hist'.waived = hist.waived
         /\ hist'.inherited = (hist.inherited /\ "cap" \notin DOMAIN Head(todo[w]))
<1> DEFINE d == hist.disturbed \/ Overlaps(w)
           i == hist.inherited /\ "cap" \notin DOMAIN Head(todo[w])
<1>1. hist' = [hist EXCEPT !.disturbed = d, !.inherited = i]
  BY DEF Calls
<1>2. d \in BOOLEAN /\ i \in BOOLEAN
  BY DEF Hists
<1>3. /\ hist'.disturbed = d /\ hist'.inherited = i /\ hist'.topped = hist.topped
      /\ hist'.asked = hist.asked /\ hist'.waived = hist.waived /\ hist' \in Hists
  <2> HIDE DEF d, i
  <2> QED BY <1>1, <1>2 DEF Hists
<1> QED BY <1>3

LEMMA CallsKeeps ==
  ASSUME KeyIInv, NEW w \in Writers, Calls(w)
  PROVE  KeyIInv'
<1>2. /\ todo[w] # <<>> /\ todo' = [todo EXCEPT ![w] = Tail(todo[w])]
      /\ touched' = [touched EXCEPT ![w] = Len(todo[w]) > 1]
      /\ now' = now /\ row' = row /\ spent' = spent /\ pass' = pass /\ faults' = faults
  BY DEF Calls, Takes
<1>3. TypeOK /\ hist \in Hists /\ out.used \in Nat /\ out.live \in BOOLEAN
      /\ out \in [live : BOOLEAN, cap : Nullable, used : 0..MaxUsed]
  BY TypesAre DEF KeyIInv
<1>4. hist' \in Hists /\ (hist.topped => hist'.topped)
  BY <1>3, CallNotes
<1>5. todo'[w] = Tail(todo[w]) /\ todo' = [todo EXCEPT ![w] = todo'[w]]
  BY <1>2, <1>3 DEF TypeOK
<1>6. /\ out'.used = out.used /\ (out'.live => out.live)
      /\ Shaped(todo'[w], Allowed, out'.live) /\ out'.cap \in Allowed
      /\ out' \in [live : BOOLEAN, cap : Nullable, used : 0..MaxUsed]
  <2>0. out.cap \in Allowed /\ Allowed \subseteq Nullable
    BY <1>3 DEF KeyIInv, Allowed, Ceilings
  <2>1. CASE \E c \in Allowed :
              /\ Head(todo[w]) = [cap |-> c] /\ out' = [out EXCEPT !.cap = c]
              /\ Shaped(Tail(todo[w]), Allowed, out.live)
    <3>1. PICK c \in Allowed : out' = [out EXCEPT !.cap = c]
      BY <2>1
    <3>2. out'.used = out.used /\ out'.live = out.live /\ out'.cap = c
          /\ out' \in [live : BOOLEAN, cap : Nullable, used : 0..MaxUsed]
      BY <1>3, <2>0, <3>1
    <3> QED BY <1>5, <2>1, <3>2
  <2>2. CASE todo[w] = Remove /\ out' = [out EXCEPT !.live = FALSE]
    <3>1. out'.used = out.used /\ out'.live = FALSE /\ out'.cap = out.cap
          /\ out' \in [live : BOOLEAN, cap : Nullable, used : 0..MaxUsed]
      BY <1>3, <2>2
    <3>2. Shaped(todo'[w], Allowed, out'.live)
      BY <1>5, <2>2, <3>1 DEF Shaped
    <3> QED BY <2>0, <3>1, <3>2
  <2> QED BY <2>1, <2>2, CallsIs
<1>7. out'.used \in Nat /\ out.used <= out'.used
  BY <1>3, <1>6
<1>8. Allowed \subseteq Allowed' /\ Allowed' \subseteq Nullable
  BY <1>4, <1>7, AllowedGrows
<1>9. /\ \A v \in Writers : Shaped(todo'[v], Allowed', out'.live)
      /\ todo' \in [Writers -> Seq(Effects(Nullable) \cup {Measure, Remove[1], Remove[2]})]
  <2>1. Shaped(todo'[w], Allowed', out'.live)
    BY <1>6, <1>8, MoreShaped
  <2> QED BY <1>4, <1>5, <1>6, <1>7, <2>1, OnePlan
<1>10. TypeOK'
  <2>1. touched' \in [Writers -> BOOLEAN]
    BY <1>2, <1>3 DEF TypeOK
  <2> QED BY <1>2, <1>3, <1>4, <1>6, <1>9, <2>1 DEF TypeOK, Hists
<1>11. row'.limit \in Allowed' /\ out'.cap \in Allowed'
  BY <1>2, <1>6, <1>8 DEF KeyIInv
<1>12. PassKnows'
  <2>1. PassKnows
    BY DEF KeyIInv
  <2>2. CASE w # Pass
    <3>1. todo'[Pass] = todo[Pass]
      BY <1>2, <1>3, <2>2, ConstantsAre DEF TypeOK
    <3> QED BY <1>2, <1>6, <2>1, <3>1 DEF PassKnows, QuotaDue
  <2>3. CASE w = Pass
    <3>1. pass.read = None
      BY <1>2, <2>1, <2>3 DEF PassKnows
    <3>2. ASSUME out'.live, ~pass.blind PROVE todo'[Pass] \in Seq(Effects(Fresh(pass.base)))
      <4>1. todo[Pass] \in Seq(Effects(Fresh(pass.base)))
        BY <1>6, <2>1, <3>2 DEF PassKnows
      <4>2. todo[Pass] # <<>> /\ todo'[Pass] = Tail(todo[Pass])
        BY <1>2, <1>5, <2>3
      <4>3. Tail(todo[Pass]) \in Seq(Effects(Fresh(pass.base)))
        BY <4>1, <4>2, TailsAre
      <4> QED BY <4>2, <4>3
    <3> QED BY <1>2, <1>6, <2>1, <3>1, <3>2 DEF PassKnows
  <2> QED BY <2>2, <2>3
<1> QED BY <1>9, <1>10, <1>11, <1>12 DEF KeyIInv

LEMMA WritesIs ==
  ASSUME KeyIInv, NEW w \in Writers, Writes(w)
  PROVE  /\ Head(todo[w]) \in ColumnEffects(Allowed) \/ (Head(todo[w]) = [known |-> FALSE] /\ ~out.live)
         /\ Shaped(Tail(todo[w]), Allowed, out.live)
         /\ row' \in Rows /\ row'.limit \in Allowed
<1> DEFINE h == Head(todo[w])
<1>1. todo[w] # <<>> /\ DOMAIN h \subseteq DOMAIN row /\ row' = Written(h)
  BY DEF Writes
<1>2. row \in Rows /\ row.limit \in Allowed /\ hist.topped \in BOOLEAN /\ out.used \in Nat
  BY TypesAre DEF KeyIInv
<1>3. Quotas \subseteq Allowed /\ Allowed \subseteq Nullable /\ None \in Allowed
  <2>1. out.used <= out.used /\ (hist.topped => hist.topped)
    BY <1>2
  <2> QED BY <1>2, <2>1, CeilingsAre DEF Allowed
<1>4. Shaped(todo[w], Allowed, out.live)
  BY DEF KeyIInv
<1>5. DOMAIN h \subseteq Columns
  BY <1>1, <1>2 DEF Rows, Columns
<1>6. /\ h \in ColumnEffects(Allowed) \/ (h = [known |-> FALSE] /\ ~out.live)
      /\ Shaped(Tail(todo[w]), Allowed, out.live)
  BY <1>1, <1>3, <1>4, <1>5, WriteStep
<1> HIDE DEF h
<1>7. Applied(h, row) \in Rows /\ Applied(h, row).limit \in Allowed
  <2>1. CASE h \in ColumnEffects(Allowed)
    BY <1>2, <1>3, <2>1, AppliedIs
  <2>2. CASE h = [known |-> FALSE]
    <3>1. DOMAIN h = {"known"} /\ h["known"] = FALSE
      BY <2>2
    <3>2. Applied(h, row) = [f \in DOMAIN row |-> IF f = "known" THEN FALSE ELSE row[f]]
      BY <3>1 DEF Applied
    <3>3. Applied(h, row) = [row EXCEPT !.known = FALSE]
      BY <1>2, <3>2 DEF Rows
    <3> QED BY <1>2, <3>3 DEF Rows
  <2> QED BY <1>6, <2>1, <2>2
<1>8. row' \in Rows /\ row'.limit \in Allowed
  BY <1>1, <1>2, <1>7 DEF Written
<1> QED BY <1>6, <1>8 DEF h

LEMMA WritesKeeps ==
  ASSUME KeyIInv, NEW w \in Writers, Writes(w)
  PROVE  KeyIInv'
<1>1. PICK F : Notes(F)
  BY DEF Writes
<1>2. /\ todo[w] # <<>> /\ todo' = [todo EXCEPT ![w] = Tail(todo[w])]
      /\ touched' = [touched EXCEPT ![w] = Len(todo[w]) > 1]
      /\ now' = now /\ out' = out /\ spent' = spent /\ pass' = pass /\ faults' = faults
  BY DEF Writes, Takes
<1>3. TypeOK /\ hist \in Hists /\ out.used \in Nat
  BY TypesAre DEF KeyIInv
<1>4. hist' \in Hists /\ (hist.topped => hist'.topped)
  BY <1>1, <1>3, NotesIs
<1>5. todo'[w] = Tail(todo[w]) /\ todo' = [todo EXCEPT ![w] = todo'[w]]
  BY <1>2, <1>3 DEF TypeOK
<1>6. row' \in Rows /\ row'.limit \in Allowed /\ Shaped(Tail(todo[w]), Allowed, out.live)
  BY WritesIs
<1>7. out'.used \in Nat /\ out.used <= out'.used /\ (out'.live => out.live) /\ out'.live = out.live
  BY <1>2, <1>3
<1>8. Allowed \subseteq Allowed'
  BY <1>4, <1>7, AllowedGrows
<1>9. /\ \A v \in Writers : Shaped(todo'[v], Allowed', out'.live)
      /\ todo' \in [Writers -> Seq(Effects(Nullable) \cup {Measure, Remove[1], Remove[2]})]
  <2>1. Shaped(Tail(todo[w]), Allowed', out'.live)
    BY <1>6, <1>7, <1>8, MoreShaped
  <2>2. Shaped(todo'[w], Allowed', out'.live)
    BY <1>5, <2>1
  <2> QED BY <1>4, <1>5, <1>7, <2>2, OnePlan
<1>10. TypeOK'
  <2>1. touched' \in [Writers -> BOOLEAN]
    BY <1>2, <1>3 DEF TypeOK
  <2> QED BY <1>2, <1>3, <1>4, <1>6, <1>9, <2>1 DEF TypeOK, Hists
<1>11. row'.limit \in Allowed' /\ out'.cap \in Allowed'
  BY <1>2, <1>6, <1>8 DEF KeyIInv
<1>12. PassKnows'
  <2>1. PassKnows
    BY DEF KeyIInv
  <2>2. CASE w # Pass
    <3>1. todo'[Pass] = todo[Pass]
      BY <1>2, <1>3, <2>2, ConstantsAre DEF TypeOK
    <3> QED BY <1>2, <2>1, <3>1 DEF PassKnows, QuotaDue
  <2>3. CASE w = Pass
    <3>1. pass.read = None
      BY <1>2, <2>1, <2>3 DEF PassKnows
    <3>2. ASSUME out.live, ~pass.blind PROVE todo'[Pass] \in Seq(Effects(Fresh(pass.base)))
      <4>1. todo[Pass] \in Seq(Effects(Fresh(pass.base)))
        BY <2>1, <3>2 DEF PassKnows
      <4>2. todo[Pass] # <<>> /\ todo'[Pass] = Tail(todo[Pass])
        BY <1>2, <1>5, <2>3
      <4>3. Tail(todo[Pass]) \in Seq(Effects(Fresh(pass.base)))
        BY <4>1, <4>2, TailsAre
      <4> QED BY <4>2, <4>3
    <3> QED BY <1>2, <2>1, <3>1, <3>2 DEF PassKnows
  <2> QED BY <2>2, <2>3
<1> QED BY <1>9, <1>10, <1>11, <1>12 DEF KeyIInv

\* A writer gives up, and the pass with it or not.
LEMMA DropKeeps ==
  ASSUME KeyIInv, NEW w \in Writers, Drop(w), now' = now, row' = row, out' = out, spent' = spent,
         faults' \in 0..MaxFaults, pass' = pass \/ (w = Pass /\ pass' = Idle)
  PROVE  KeyIInv'
<1>1. PICK F : Notes(F)
  BY DEF Drop
<1>2. todo' = [todo EXCEPT ![w] = <<>>] /\ touched' = [touched EXCEPT ![w] = FALSE]
  BY DEF Drop
<1>3. TypeOK /\ hist \in Hists /\ out.used \in Nat
  BY TypesAre DEF KeyIInv
<1>4. hist' \in Hists /\ (hist.topped => hist'.topped)
  BY <1>1, <1>3, NotesIs
<1>5. todo'[w] = <<>> /\ todo' = [todo EXCEPT ![w] = todo'[w]]
      /\ (\A v \in Writers : todo'[v] = todo[v] \/ todo'[v] = <<>>)
  BY <1>2, <1>3 DEF TypeOK
<1>6. out'.used \in Nat /\ out.used <= out'.used /\ (out'.live => out.live)
  BY <1>3
<1>7. Allowed \subseteq Allowed'
  BY <1>4, <1>6, AllowedGrows
<1>8. \A S : <<>> \in Seq(S)
  OBVIOUS
<1>9. /\ \A v \in Writers : Shaped(todo'[v], Allowed', out'.live)
      /\ todo' \in [Writers -> Seq(Effects(Nullable) \cup {Measure, Remove[1], Remove[2]})]
  <2>1. Shaped(todo'[w], Allowed', out'.live)
    BY <1>5, <1>8 DEF Shaped
  <2> QED BY <1>4, <1>5, <1>6, <2>1, OnePlan
<1>10. TypeOK'
  <2>1. touched' \in [Writers -> BOOLEAN]
    BY <1>2, <1>3 DEF TypeOK
  <2>2. pass' \in [at : {"idle", "pending", "quota", "expiry"}, clock : 0..now',
               read : Rows \cup {None}, usage : Nullable, base : 0..MaxUsed, blind : BOOLEAN]
    <3>1. CASE pass' = Idle
      <4>1. now \in Nat
        BY <1>3, TypesAre
      <4> QED BY <3>1, <4>1, ConstantsAre, ConstantsAssumption DEF Idle
    <3>2. CASE pass' = pass
      BY <1>3, <3>2 DEF TypeOK
    <3> QED BY <3>1, <3>2
  <2> QED BY <1>3, <1>4, <1>9, <2>1, <2>2 DEF TypeOK, Hists
<1>11. row'.limit \in Allowed' /\ out'.cap \in Allowed'
  BY <1>7 DEF KeyIInv
<1>12. PassKnows'
  <2>1. PassKnows
    BY DEF KeyIInv
  <2>2. todo'[Pass] = todo[Pass] \/ todo'[Pass] = <<>>
    BY <1>5, ConstantsAre
  <2>3. CASE pass' = pass
    BY <1>8, <2>1, <2>2, <2>3 DEF PassKnows, QuotaDue
  <2>4. CASE w = Pass /\ pass' = Idle
    <3>1. /\ pass'.read = None /\ pass'.base = 0 /\ pass'.usage = None
          /\ pass'.base <= out'.used
      BY <1>3, <2>4 DEF Idle
    <3>2. ASSUME out'.live, ~pass'.blind
          PROVE  todo'[Pass] \in Seq(Effects(Fresh(pass'.base)))
      BY <1>5, <1>8, <2>4
    <3> QED BY <3>1, <3>2 DEF PassKnows
  <2> QED BY <2>3, <2>4
<1> QED BY <1>9, <1>10, <1>11, <1>12 DEF KeyIInv

LEMMA FewerFaults ==
  ASSUME faults \in 0..MaxFaults, faults > 0, faults' = faults - 1
  PROVE  faults' \in 0..MaxFaults
<1>1. MaxFaults \in Nat /\ faults \in Nat /\ faults <= MaxFaults
  BY ConstantsAssumption
<1> QED BY <1>1

LEMMA StopsKeeps ==
  ASSUME KeyIInv, NEW w \in Writers, CallFails(w) \/ Stops(w)
  PROVE  KeyIInv'
<1>1. faults \in 0..MaxFaults
  BY DEF KeyIInv, TypeOK
<1>2. CASE CallFails(w)
  <2>1. /\ Drop(w) /\ now' = now /\ row' = row /\ out' = out /\ spent' = spent /\ pass' = pass
        /\ (faults > 0 /\ faults' = faults - 1) \/ faults' = faults
    BY <1>2 DEF CallFails
  <2>2. faults' \in 0..MaxFaults
    BY <1>1, <2>1, FewerFaults
  <2> QED BY <2>1, <2>2, DropKeeps
<1>3. CASE Stops(w)
  <2>1. /\ Drop(w) /\ now' = now /\ row' = row /\ out' = out /\ spent' = spent
        /\ faults > 0 /\ faults' = faults - 1 /\ (pass' = pass \/ (w = Pass /\ pass' = Idle))
    BY <1>3 DEF Stops
  <2>2. faults' \in 0..MaxFaults
    BY <1>1, <2>1, FewerFaults
  <2> QED BY <2>1, <2>2, DropKeeps
<1> QED BY <1>2, <1>3

-----------------------------------------------------------------------------
(* The pass, and the world *)

\* Nothing but the pass, the clock and the traffic moves.
LEMMA PassKeeps ==
  ASSUME KeyIInv, now' = now, row' = row, out' = out, todo' = todo, touched' = touched,
         spent' = spent, hist' = hist, faults' \in 0..MaxFaults,
         pass' \in [at : {"idle", "pending", "quota", "expiry"}, clock : 0..now,
               read : Rows \cup {None}, usage : Nullable, base : 0..MaxUsed, blind : BOOLEAN],
         PassKnows'
  PROVE  KeyIInv'
<1>1. TypeOK' /\ Allowed' = Allowed
  BY DEF KeyIInv, TypeOK, Allowed
<1> QED BY <1>1 DEF KeyIInv

LEMMA PassStartsKeeps ==
  ASSUME KeyIInv, PassStarts
  PROVE  KeyIInv'
<1>1. /\ pass' = [Idle EXCEPT !.at = "pending", !.clock = now, !.base = out.used]
      /\ todo[Pass] = <<>> /\ faults' = faults /\ todo' = todo /\ out' = out
  BY DEF PassStarts, PassIs
<1>2. now \in Nat /\ out.used \in 0..MaxUsed /\ faults \in 0..MaxFaults
  BY TypesAre DEF KeyIInv, TypeOK
<1>3. pass' \in [at : {"idle", "pending", "quota", "expiry"}, clock : 0..now,
               read : Rows \cup {None}, usage : Nullable, base : 0..MaxUsed, blind : BOOLEAN]
  <2>1. pass' = [at |-> "pending", clock |-> now, read |-> None, usage |-> None,
                 base |-> out.used, blind |-> FALSE]
    BY <1>1 DEF Idle
  <2>2. now \in 0..now
    BY <1>2
  <2> QED BY <1>2, <2>1, <2>2, ConstantsAre
<1>4. \A S : <<>> \in Seq(S)
  OBVIOUS
<1>5. PassKnows'
  <2>1. pass'.read = None /\ pass'.usage = None /\ pass'.base = out.used /\ todo'[Pass] = <<>>
        /\ out'.used = out.used /\ out.used <= out.used
    BY <1>1, <1>2 DEF Idle
  <2> QED BY <1>4, <2>1 DEF PassKnows
<1> QED BY <1>2, <1>3, <1>5, PassKeeps DEF PassStarts

LEMMA PassReadsKeeps ==
  ASSUME KeyIInv, PassReads
  PROVE  KeyIInv'
<1>1. /\ todo[Pass] = <<>> /\ faults' = faults /\ todo' = todo /\ out' = out /\ pass.read = None
      /\ pass.at \in {"pending", "quota"}
      /\ pass' = IF row.known /\ Concerns(row) THEN [pass EXCEPT !.read = row]
                                               ELSE [pass EXCEPT !.at = After]
  BY DEF PassReads, PassIs
<1>2. faults \in 0..MaxFaults /\ row \in Rows /\ PassKnows
      /\ pass \in [at : {"idle", "pending", "quota", "expiry"}, clock : 0..now,
               read : Rows \cup {None}, usage : Nullable, base : 0..MaxUsed, blind : BOOLEAN]
  BY DEF KeyIInv, TypeOK
<1>3. CASE pass' = [pass EXCEPT !.read = row] /\ Concerns(row)
  <2>1. pass' \in [at : {"idle", "pending", "quota", "expiry"}, clock : 0..now,
               read : Rows \cup {None}, usage : Nullable, base : 0..MaxUsed, blind : BOOLEAN]
    BY <1>2, <1>3
  <2>2. /\ pass'.read = row /\ pass'.at = pass.at /\ pass'.clock = pass.clock
        /\ pass'.base = pass.base /\ pass'.usage = pass.usage /\ pass'.blind = pass.blind
    BY <1>2, <1>3
  <2>3. \/ pass.at = "pending" /\ IsPending(row)
        \/ pass.at = "quota" /\ QuotaDue(row)
    BY <1>3 DEF Concerns
  <2>4. PassKnows'
    BY <1>1, <1>2, <2>2, <2>3 DEF PassKnows, QuotaDue, IsPending
  <2> QED BY <1>1, <1>2, <2>1, <2>4, PassKeeps DEF PassReads
<1>4. CASE pass' = [pass EXCEPT !.at = After]
  <2>1. pass' \in [at : {"idle", "pending", "quota", "expiry"}, clock : 0..now,
               read : Rows \cup {None}, usage : Nullable, base : 0..MaxUsed, blind : BOOLEAN]
    BY <1>2, <1>4 DEF After
  <2>2. /\ pass'.read = None /\ pass'.clock = pass.clock
        /\ pass'.base = pass.base /\ pass'.usage = pass.usage /\ pass'.blind = pass.blind
    BY <1>1, <1>2, <1>4
  <2>3. PassKnows'
    BY <1>1, <1>2, <2>2 DEF PassKnows
  <2> QED BY <1>1, <1>2, <2>1, <2>3, PassKeeps DEF PassReads
<1> QED BY <1>1, <1>3, <1>4

LEMMA PassMeasuresKeeps ==
  ASSUME KeyIInv, PassMeasures
  PROVE  KeyIInv'
<1>1. TypeOK /\ PassKnows /\ out.used \in Nat /\ pass.read # None /\ todo' = todo /\ out' = out
      /\ pass.base <= out.used
  BY TypesAre DEF KeyIInv, PassMeasures, PassKnows
<1>2. faults \in 0..MaxFaults /\ pass.base \in Nat
      /\ pass \in [at : {"idle", "pending", "quota", "expiry"}, clock : 0..now,
               read : Rows \cup {None}, usage : Nullable, base : 0..MaxUsed, blind : BOOLEAN]
  BY <1>1 DEF TypeOK
<1>3. CASE pass' = [pass EXCEPT !.usage = IF out.live THEN out.used ELSE 0] /\ faults' = faults
  <2> DEFINE u == IF out.live THEN out.used ELSE 0
  <2>1. u \in Nat /\ u <= out.used /\ (out.live => u >= pass.base) /\ u \in Nullable
    BY <1>1, <1>2, ConstantsAre
  <2>2. pass' = [pass EXCEPT !.usage = u]
    BY <1>3
  <2> HIDE DEF u
  <2>3. pass' \in [at : {"idle", "pending", "quota", "expiry"}, clock : 0..now,
               read : Rows \cup {None}, usage : Nullable, base : 0..MaxUsed, blind : BOOLEAN]
    BY <1>2, <2>1, <2>2
  <2>4. /\ pass'.read = pass.read /\ pass'.at = pass.at /\ pass'.clock = pass.clock
        /\ pass'.base = pass.base /\ pass'.usage = u /\ pass'.blind = pass.blind
    BY <1>2, <2>2
  <2>5. PassKnows'
    BY <1>1, <2>1, <2>4 DEF PassKnows, QuotaDue, IsPending
  <2> QED BY <1>2, <1>3, <2>3, <2>5, PassKeeps DEF PassMeasures
<1>4. CASE pass' = [pass EXCEPT !.usage = 0, !.blind = TRUE] /\ faults > 0 /\ faults' = faults - 1
  <2>1. pass' \in [at : {"idle", "pending", "quota", "expiry"}, clock : 0..now,
               read : Rows \cup {None}, usage : Nullable, base : 0..MaxUsed, blind : BOOLEAN]
    BY <1>2, <1>4, ConstantsAre
  <2>2. /\ pass'.read = pass.read /\ pass'.at = pass.at /\ pass'.clock = pass.clock
        /\ pass'.base = pass.base /\ pass'.usage = 0 /\ pass'.blind = TRUE
    BY <1>2, <1>4
  <2>3. PassKnows'
    BY <1>1, <2>2 DEF PassKnows, QuotaDue, IsPending
  <2>4. faults' \in 0..MaxFaults
    BY <1>2, <1>4, FewerFaults
  <2> QED BY <2>1, <2>3, <2>4, PassKeeps DEF PassMeasures
<1> QED BY <1>3, <1>4 DEF PassMeasures

\* The pass hands its plan over, which is of the limits it may set.
LEMMA PassPlansKeeps ==
  ASSUME KeyIInv, NEW plan, PassPlans(plan), plan \in Seq(Effects(Allowed)),
         pass' = Idle \/ pass' = [pass EXCEPT !.read = None, !.at = After],
         out.live /\ ~pass'.blind => plan \in Seq(Effects(Fresh(pass'.base))),
         now' = now
  PROVE  KeyIInv'
<1>1. /\ todo' = [todo EXCEPT ![Pass] = plan] /\ touched' = [touched EXCEPT ![Pass] = FALSE]
      /\ row' = row /\ out' = out /\ spent' = spent /\ faults' = faults /\ hist' = hist
  BY DEF PassPlans
<1>2. TypeOK /\ hist \in Hists /\ out.used \in Nat /\ now \in Nat /\ PassKnows /\ Pass \in Writers
  BY TypesAre, ConstantsAre DEF KeyIInv
<1>3. /\ out'.used \in Nat /\ out.used <= out'.used /\ (out'.live => out.live)
      /\ hist' \in Hists /\ (hist.topped => hist'.topped) /\ Allowed' = Allowed
  BY <1>1, <1>2 DEF Allowed
<1>4. todo'[Pass] = plan /\ todo' = [todo EXCEPT ![Pass] = todo'[Pass]]
  BY <1>1, <1>2 DEF TypeOK
<1>5. /\ \A v \in Writers : Shaped(todo'[v], Allowed', out'.live)
      /\ todo' \in [Writers -> Seq(Effects(Nullable) \cup {Measure, Remove[1], Remove[2]})]
  <2>1. Shaped(todo'[Pass], Allowed', out'.live)
    BY <1>3, <1>4 DEF Shaped
  <2> QED BY <1>2, <1>3, <1>4, <2>1, OnePlan
<1>6. TypeOK'
  <2>1. touched' \in [Writers -> BOOLEAN]
    BY <1>1, <1>2 DEF TypeOK
  <2>2. pass' \in [at : {"idle", "pending", "quota", "expiry"}, clock : 0..now',
               read : Rows \cup {None}, usage : Nullable, base : 0..MaxUsed, blind : BOOLEAN]
    <3>1. CASE pass' = Idle
      BY <1>2, <3>1, ConstantsAre, ConstantsAssumption DEF Idle
    <3>2. CASE pass' = [pass EXCEPT !.read = None, !.at = After]
      BY <1>2, <3>2 DEF TypeOK, After
    <3> QED BY <3>1, <3>2
  <2> QED BY <1>1, <1>2, <1>3, <1>5, <2>1, <2>2 DEF TypeOK, Hists
<1>7. row'.limit \in Allowed' /\ out'.cap \in Allowed'
  BY <1>1, <1>3 DEF KeyIInv
<1>8. PassKnows'
  <2>1. CASE pass' = Idle
    <3>1. pass'.read = None /\ pass'.base = 0 /\ pass'.usage = None /\ pass'.base <= out'.used
      BY <1>3, <2>1 DEF Idle
    <3> QED BY <1>1, <1>4, <3>1 DEF PassKnows
  <2>2. CASE pass' = [pass EXCEPT !.read = None, !.at = After]
    <3>1. /\ pass'.read = None /\ pass'.base = pass.base /\ pass'.usage = pass.usage
          /\ pass'.blind = pass.blind
      BY <1>2, <2>2 DEF TypeOK
    <3> QED BY <1>1, <1>2, <1>4, <3>1 DEF PassKnows
  <2> QED BY <2>1, <2>2
<1> QED BY <1>5, <1>6, <1>7, <1>8 DEF KeyIInv

LEMMA PassDecidesKeeps ==
  ASSUME KeyIInv, PassDecides
  PROVE  KeyIInv'
<1> DEFINE m == pass.read
           plan == IF pass.at = "pending" THEN Activation(m) ELSE QuotaReset(m)
<1>1. m # None /\ pass.usage # None /\ PassPlans(plan) /\ now' = now
      /\ pass' = [pass EXCEPT !.read = None, !.at = After]
  BY DEF PassDecides, PassPlans
<1>2. TypeOK /\ PassKnows /\ out.used \in Nat /\ pass.clock \in Nat /\ pass.base \in Nat
      /\ m \in Rows /\ pass.usage \in Nat /\ pass.usage <= out.used
      /\ hist \in Hists /\ hist.topped \in BOOLEAN
  BY <1>1, TypesAre DEF KeyIInv, PassKnows, Nullable
<1>3. \/ pass.at = "pending" /\ IsPending(m)
      \/ pass.at = "quota" /\ QuotaDue(m)
  BY <1>1, <1>2 DEF PassKnows
<1>4. pass'.base = pass.base /\ pass'.blind = pass.blind
  BY <1>1, <1>2 DEF TypeOK
<1>5. plan \in Seq(Effects(Allowed)) /\ (out.live /\ ~pass'.blind => plan \in Seq(Effects(Fresh(pass'.base))))
  <2>1. CASE pass.at = "pending"
    <3>1. IsPending(m)
      BY <1>3, <2>1
    <3>2. /\ Activation(m) \in Seq(Effects(Allowed))
          /\ Activation(m) \in Seq(Effects(Fresh(pass.base)))
      BY <1>2, <3>1, ActivationIs
    <3> QED BY <1>4, <2>1, <3>2
  <2>2. CASE pass.at # "pending"
    <3>1. QuotaDue(m) /\ m.monthly \in Quotas /\ m.monthly \in Nat \ {0}
      BY <1>2, <1>3, <2>2, ConstantsAre DEF QuotaDue, Rows
    <3>2. pass.usage \in 0..out.used
      BY <1>2
    <3>3. pass.usage + m.monthly \in Allowed
      <4>1. out.used <= out.used /\ (hist.topped => hist.topped)
        BY <1>2
      <4>2. pass.usage + m.monthly \in Ceilings(out.used, hist.topped)
        BY <1>2, <3>1, <3>2, <4>1, CeilingsAre
      <4> QED BY <4>2 DEF Allowed
    <3>4. QuotaReset(m) \in Seq(Effects(Allowed))
      BY <1>2, <3>1, <3>3, QuotaResetIs
    <3>5. ASSUME out.live, ~pass.blind PROVE QuotaReset(m) \in Seq(Effects(Fresh(pass.base)))
      <4>1. pass.usage >= pass.base
        BY <1>1, <1>2, <3>5 DEF PassKnows
      <4>2. pass.usage + m.monthly \in Fresh(pass.base)
        BY <1>2, <3>1, <4>1 DEF Fresh
      <4> QED BY <1>2, <3>1, <4>2, QuotaResetIs
    <3> QED BY <1>4, <2>2, <3>4, <3>5
  <2> QED BY <2>1, <2>2
<1> HIDE DEF plan
<1> QED BY <1>1, <1>5, PassPlansKeeps

LEMMA PassExpiresKeeps ==
  ASSUME KeyIInv, PassExpires
  PROVE  KeyIInv'
<1> DEFINE plan == When(row.known /\ Expired(row), SwitchOff)
<1>1. PassPlans(plan) /\ pass' = Idle /\ now' = now
  BY DEF PassExpires, PassPlans
<1>2. hist.topped \in BOOLEAN /\ out.used \in Nat
  BY TypesAre DEF KeyIInv
<1>3. 0 \in Allowed /\ 0 \in Fresh(pass'.base)
  <2>1. out.used <= out.used /\ (hist.topped => hist.topped)
    BY <1>2
  <2>2. 0 \in Ceilings(out.used, hist.topped)
    BY <1>2, <2>1, CeilingsAre
  <2> QED BY <2>2 DEF Allowed, Fresh
<1>4. plan \in Seq(Effects(Allowed)) /\ plan \in Seq(Effects(Fresh(pass'.base)))
  <2>1. SwitchOff \in Seq(Effects(Allowed)) /\ SwitchOff \in Seq(Effects(Fresh(pass'.base)))
    BY <1>3, SwitchesAre
  <2>2. \A S : <<>> \in Seq(S)
    OBVIOUS
  <2> QED BY <2>1, <2>2 DEF When
<1> HIDE DEF plan
<1> QED BY <1>1, <1>4, PassPlansKeeps

LEMMA TrafficKeeps ==
  ASSUME KeyIInv, Traffic
  PROVE  KeyIInv'
<1>1. /\ out.used < MaxUsed /\ out' = [out EXCEPT !.used = out.used + 1]
      /\ now' = now /\ row' = row /\ todo' = todo /\ touched' = touched /\ spent' = spent
      /\ pass' = pass /\ faults' = faults /\ hist' = hist
  BY DEF Traffic
<1>2. TypeOK /\ hist \in Hists /\ out.used \in Nat /\ PassKnows /\ pass.base \in Nat
      /\ pass.usage \in Nullable
      /\ out \in [live : BOOLEAN, cap : Nullable, used : 0..MaxUsed]
  BY TypesAre DEF KeyIInv
<1>3. /\ out'.live = out.live /\ out'.cap = out.cap /\ out'.used = out.used + 1
      /\ out'.used \in 0..MaxUsed
  BY <1>1, <1>2, ConstantsAssumption
<1>4. out' \in [live : BOOLEAN, cap : Nullable, used : 0..MaxUsed]
  BY <1>1, <1>2, <1>3
<1>5. /\ out'.used \in Nat /\ out.used <= out'.used /\ (out'.live => out.live)
      /\ hist' \in Hists /\ (hist.topped => hist'.topped)
  BY <1>1, <1>2, <1>3
<1>6. Allowed \subseteq Allowed'
  BY <1>5, AllowedGrows
<1>7. \A w \in Writers : Shaped(todo'[w], Allowed', out'.live)
  BY <1>1, <1>5, PlansKept
<1>8. TypeOK'
  BY <1>1, <1>2, <1>4 DEF TypeOK
<1>9. PassKnows'
  <2>1. pass.usage # None => pass.usage \in Nat
    BY <1>2 DEF Nullable
  <2>2. pass.base <= out'.used /\ (pass.usage # None => pass.usage <= out'.used)
    BY <1>2, <1>3, <2>1 DEF PassKnows
  <2> QED BY <1>1, <1>2, <1>3, <2>2 DEF PassKnows, QuotaDue
<1> QED BY <1>1, <1>3, <1>6, <1>7, <1>8, <1>9 DEF KeyIInv

LEMMA TickKeeps ==
  ASSUME KeyIInv, Tick
  PROVE  KeyIInv'
<1>1. /\ now' = now + 1 /\ now < MaxTime /\ row' = row /\ out' = out /\ todo' = todo
      /\ touched' = touched /\ spent' = spent /\ pass' = pass /\ faults' = faults /\ hist' = hist
  BY DEF Tick
<1>2. TypeOK /\ now \in Nat
  BY TypesAre DEF KeyIInv
<1>3. now' \in 0..MaxTime /\ 0..now \subseteq 0..now'
  BY <1>1, <1>2, ConstantsAssumption
<1>4. pass' \in [at : {"idle", "pending", "quota", "expiry"}, clock : 0..now',
               read : Rows \cup {None}, usage : Nullable, base : 0..MaxUsed, blind : BOOLEAN]
  BY <1>1, <1>2, <1>3 DEF TypeOK
<1>5. TypeOK'
  BY <1>1, <1>2, <1>3, <1>4 DEF TypeOK
<1> QED BY <1>1, <1>5 DEF KeyIInv, PassKnows, QuotaDue, Allowed

LEMMA StutterKeeps ==
  ASSUME KeyIInv, UNCHANGED vars
  PROVE  KeyIInv'
BY DEF KeyIInv, PassKnows, QuotaDue, Allowed, TypeOK, vars

LEMMA NextKeeps ==
  ASSUME KeyIInv, [Next]_vars
  PROVE  KeyIInv'
<1>1. ASSUME NEW r \in Routes, Route(r) PROVE KeyIInv'
  BY <1>1, RouteKeeps
<1>2. ASSUME NEW w \in Writers, Acts(w) \/ Stops(w) PROVE KeyIInv'
  BY <1>2, ReadsUsageKeeps, CallsKeeps, WritesKeeps, StopsKeeps DEF Acts
<1>3. CASE PassStep
  BY <1>3, PassStartsKeeps, PassReadsKeeps, PassMeasuresKeeps, PassDecidesKeeps, PassExpiresKeeps
     DEF PassStep
<1>4. CASE Traffic \/ Tick \/ UNCHANGED vars
  BY <1>4, TrafficKeeps, TickKeeps, StutterKeeps
<1> QED BY <1>1, <1>2, <1>3, <1>4 DEF Next

-----------------------------------------------------------------------------
(* What follows *)

\* The types are right, a limit and a ceiling are never more than the quota allows unless
\* volume was given, every plan that is under way sets such limits only, and a pass
\* never decides on more usage than there is (db.py's columns, the plans of the routes
\* in keys.py and of _check_once in scheduler.py).
THEOREM KeyHolds == Spec => []KeyIInv
<1>1. Init => KeyIInv
  BY InitHolds
<1>2. KeyIInv /\ [Next]_vars => KeyIInv'
  BY NextKeeps
<1> QED BY <1>1, <1>2, PTL DEF Spec

\* Resets do not add up: a key that lives on its quota is never more than one of it
\* ahead, whatever overlaps or fails (reset_usage, set_key_monthly, _check_once).
THEOREM ResetsDoNotAddUp == Spec => []QuotaDoesNotCompound
<1>1. KeyIInv => QuotaDoesNotCompound
  <2> SUFFICES ASSUME KeyIInv, ~hist.topped, out.cap # None
               PROVE  \E q \in Quotas : out.cap <= out.used + q
    BY DEF QuotaDoesNotCompound
  <2>1. out.cap \in Ceilings(out.used, hist.topped)
    BY DEF KeyIInv, Allowed
  <2> QED BY <2>1 DEF Ceilings
<1> QED BY <1>1, KeyHolds, PTL

\* A reset of the pass leaves something beyond what was used when the pass began, if it
\* could read the usage (_check_once measures, then sets usage + quota).
THEOREM ResetsReopen == Spec => ResetReopens
<1> DEFINE Step == todo[Pass] # <<>> /\ todo'[Pass] = Tail(todo[Pass]) /\ out'.cap # out.cap
           Goal == out'.cap = 0 \/ out'.cap > pass.base \/ pass.blind
<1>1. ASSUME KeyIInv, Next, Step PROVE Goal
  <2>1. PassKnows /\ Pass \in Writers /\ TypeOK
        /\ out \in [live : BOOLEAN, cap : Nullable, used : 0..MaxUsed]
    BY <1>1, ConstantsAre, TypesAre DEF KeyIInv
  <2>2. PICK w \in Writers : Calls(w)
    <3>1. ASSUME NEW r \in Routes, Route(r) PROVE out' = out
      BY <3>1 DEF Route, RenewKey, ExtendKey, LimitKey, QuotaKey, ResetKey, DisableKey,
                  EnableKey, DeleteKey, Begin
    <3>2. ASSUME NEW w \in Writers, ReadsUsage(w) \/ Writes(w) \/ CallFails(w) \/ Stops(w)
          PROVE  out' = out
      BY <3>2 DEF ReadsUsage, Writes, CallFails, Stops
    <3>3. ASSUME PassStep PROVE out' = out
      BY <3>3 DEF PassStep, PassStarts, PassReads, PassMeasures, PassDecides, PassExpires, PassPlans
    <3>4. ASSUME Traffic PROVE out'.cap = out.cap
      BY <2>1, <3>4 DEF Traffic
    <3>5. ASSUME Tick PROVE out' = out
      BY <3>5 DEF Tick
    <3> QED BY <1>1, <3>1, <3>2, <3>3, <3>4, <3>5 DEF Next, Acts
  <2>3. todo' = [todo EXCEPT ![w] = Tail(todo[w])]
    BY <2>2 DEF Calls, Takes
  <2>4. w = Pass
    <3> SUFFICES ASSUME w # Pass PROVE FALSE
      OBVIOUS
    <3>1. todo'[Pass] = todo[Pass]
      BY <2>1, <2>3 DEF TypeOK
    <3>2. Tail(todo[Pass]) = todo[Pass] /\ todo[Pass] # <<>>
      BY <1>1, <3>1
    <3> DEFINE S == Effects(Nullable) \cup {Measure, Remove[1], Remove[2]}
    <3>3. todo[Pass] \in Seq(S)
      BY <2>1 DEF TypeOK
    <3> HIDE DEF S
    <3>4. Len(Tail(todo[Pass])) = Len(todo[Pass]) - 1 /\ Len(todo[Pass]) \in Nat
      BY <3>2, <3>3
    <3> DEFINE n == Len(todo[Pass])
    <3>5. n \in Nat /\ n = n - 1
      <4>1. Len(Tail(todo[Pass])) = Len(todo[Pass])
        BY <3>2, Zenon
      <4> QED BY <3>4, <4>1
    <3> HIDE DEF n
    <3> QED BY <3>5
  <2>5. CASE \E c \in Allowed : Head(todo[w]) = [cap |-> c] /\ out' = [out EXCEPT !.cap = c]
    <3>1. PICK c \in Allowed : Head(todo[w]) = [cap |-> c] /\ out' = [out EXCEPT !.cap = c]
      BY <2>5
    <3>2. out'.cap = c
      BY <2>1, <3>1
    <3>3. out.live
      <4>1. Head(todo[w]) # [live |-> FALSE]
        <5>1. DOMAIN [cap |-> c] = {"cap"} /\ DOMAIN [live |-> FALSE] = {"live"}
          OBVIOUS
        <5> QED BY <3>1, <5>1
      <4> QED BY <2>2, <4>1 DEF Calls
    <3>4. ASSUME ~pass.blind PROVE c \in Fresh(pass.base)
      <4>1. todo[Pass] \in Seq(Effects(Fresh(pass.base))) /\ todo[Pass] # <<>>
        BY <1>1, <2>1, <3>3, <3>4 DEF PassKnows
      <4>2. Head(todo[Pass]) \in Effects(Fresh(pass.base))
        BY <4>1, TailsAre
      <4>3. [cap |-> c] \in Effects(Fresh(pass.base)) /\ DOMAIN [cap |-> c] \subseteq Outlines
        BY <2>4, <3>1, <4>2 DEF Outlines
      <4>4. [cap |-> c] \in [cap : Fresh(pass.base)]
        BY <4>3, EffectKinds
      <4>5. [cap |-> c].cap = c /\ [cap |-> c].cap \in Fresh(pass.base)
        BY <4>4
      <4> QED BY <4>5
    <3> QED BY <3>2, <3>4 DEF Fresh
  <2>6. CASE out' = [out EXCEPT !.live = FALSE]
    <3>1. out'.cap = out.cap
      BY <2>1, <2>6
    <3> QED BY <1>1, <3>1
  <2> QED BY <1>1, <2>2, <2>5, <2>6, CallsIs
<1>2. KeyIInv /\ [Next]_vars => [Step => Goal]_vars
  BY <1>1
<1>3. [][Step => Goal]_vars => ResetReopens
  BY DEF ResetReopens
<1> QED BY <1>2, <1>3, KeyHolds, PTL DEF Spec

-----------------------------------------------------------------------------
(* Where a plan leads to *)

\* A row and a limit on Outline.
Sit(r, c) == [row |-> r, cap |-> c]

\* What they are after an effect: Calls and Writes.
Exec(e, s) ==
  IF "cap" \in DOMAIN e THEN Sit(s.row, e["cap"])
  ELSE IF s.row.known \/ "known" \in DOMAIN e THEN Sit(Applied(e, s.row), s.cap) ELSE s

\* A plan leads from s to z, if nobody else does anything.
Trace(tr, plan, s, z) ==
  /\ DOMAIN tr = 1 .. Len(plan) + 1 /\ tr[1] = s /\ tr[Len(plan) + 1] = z
  /\ \A i \in 1..Len(plan) : tr[i + 1] = Exec(plan[i], tr[i])
Runs(plan, s, z) == \E tr : Trace(tr, plan, s, z)

LEMMA RunsNone == ASSUME NEW s PROVE Runs(<<>>, s, s)
<1> DEFINE tr == [i \in 1..1 |-> s]
<1>1. Len(<<>>) = 0 /\ 1..1 = 1 .. Len(<<>>) + 1
  OBVIOUS
<1>2. Trace(tr, <<>>, s, s)
  BY <1>1 DEF Trace
<1> QED BY <1>2 DEF Runs

LEMMA RunsOne == ASSUME NEW e, NEW s PROVE Runs(<<e>>, s, Exec(e, s))
<1> DEFINE z == Exec(e, s)
           p == <<e>>
           tr == [i \in 1..2 |-> IF i = 1 THEN s ELSE z]
<1>1. Len(p) = 1 /\ p[1] = e
  OBVIOUS
<1>2. DOMAIN tr = 1..2 /\ tr[1] = s /\ tr[2] = z
  OBVIOUS
<1>3. z = Exec(e, s)
  OBVIOUS
<1> HIDE DEF p, tr, z
<1>4. \A i \in 1..Len(p) : tr[i + 1] = Exec(p[i], tr[i])
  BY <1>1, <1>2, <1>3
<1>5. Trace(tr, p, s, z)
  BY <1>1, <1>2, <1>4 DEF Trace
<1>6. Runs(p, s, z)
  BY <1>5 DEF Runs
<1> QED BY <1>6 DEF p, z

LEMMA RunsNowhere == ASSUME NEW s, NEW z, Runs(<<>>, s, z) PROVE z = s
<1>1. PICK tr : Trace(tr, <<>>, s, z)
  BY DEF Runs
<1>2. Len(<<>>) + 1 = 1
  OBVIOUS
<1> QED BY <1>1, <1>2 DEF Trace

\* One plan after another.
LEMMA RunsThen ==
  ASSUME NEW S, NEW p \in Seq(S), NEW q \in Seq(S), NEW s, NEW y, NEW z, Runs(p, s, y), Runs(q, y, z)
  PROVE  Runs(p \o q, s, z)
<1>1. PICK a : Trace(a, p, s, y)
  BY DEF Runs
<1>2. PICK b : Trace(b, q, y, z)
  BY DEF Runs
<1> DEFINE m == Len(p)
           n == Len(q)
           pq == p \o q
           tr == [i \in 1 .. m + n + 1 |-> IF i <= m THEN a[i] ELSE b[i - m]]
<1>3. m \in Nat /\ n \in Nat /\ Len(pq) = m + n
      /\ \A i \in 1 .. m + n : pq[i] = IF i <= m THEN p[i] ELSE q[i - m]
  BY ConcatProperties
<1>4. a[1] = s /\ a[m + 1] = y /\ \A i \in 1..m : a[i + 1] = Exec(p[i], a[i])
  BY <1>1 DEF Trace
<1>5. b[1] = y /\ b[n + 1] = z /\ \A i \in 1..n : b[i + 1] = Exec(q[i], b[i])
  BY <1>2 DEF Trace
<1>6. DOMAIN tr = 1 .. m + n + 1 /\ \A i \in 1 .. m + n + 1 : tr[i] = IF i <= m THEN a[i] ELSE b[i - m]
  OBVIOUS
<1> HIDE DEF m, n, pq, tr
<1>7. tr[1] = s /\ tr[m + n + 1] = z
  <2>1. 1 \in 1 .. m + n + 1 /\ m + n + 1 \in 1 .. m + n + 1
    BY <1>3
  <2>2. tr[m + n + 1] = b[n + 1]
    <3>1. \A k \in 1 .. m + n + 1 : k = m + n + 1 => tr[k] = b[k - m] /\ k - m = n + 1
      BY <1>3, <1>6
    <3> QED BY <2>1, <3>1
  <2>3. tr[1] = s
    <3>1. CASE m = 0
      BY <1>3, <1>4, <1>5, <1>6, <2>1, <3>1
    <3>2. CASE m > 0
      BY <1>3, <1>4, <1>6, <2>1, <3>2
    <3> QED BY <1>3, <3>1, <3>2
  <2> QED BY <1>5, <2>2, <2>3
<1>8. ASSUME NEW i \in 1 .. m + n PROVE tr[i + 1] = Exec(pq[i], tr[i])
  <2>0. i \in Nat /\ i \in 1 .. m + n + 1 /\ i + 1 \in 1 .. m + n + 1
    BY <1>3
  <2>1. CASE i < m
    <3>1. tr[i] = a[i] /\ tr[i + 1] = a[i + 1] /\ pq[i] = p[i] /\ i \in 1..m
      BY <1>3, <1>6, <2>0, <2>1
    <3> QED BY <1>4, <3>1
  <2>2. CASE i = m
    <3>1. tr[i] = a[i] /\ tr[i + 1] = b[1] /\ pq[i] = p[i] /\ i \in 1..m
      BY <1>3, <1>6, <2>0, <2>2
    <3> QED BY <1>4, <1>5, <2>2, <3>1
  <2>3. CASE i > m
    <3>1. tr[i] = b[i - m] /\ tr[i + 1] = b[i - m + 1] /\ pq[i] = q[i - m] /\ i - m \in 1..n
      <4>1. i + 1 - m = i - m + 1 /\ ~(i <= m) /\ ~(i + 1 <= m) /\ i - m \in 1..n
        BY <1>3, <2>0, <2>3
      <4> QED BY <1>3, <1>6, <2>0, <4>1
    <3> QED BY <1>5, <3>1
  <2> QED BY <1>3, <2>0, <2>1, <2>2, <2>3
<1>9. Trace(tr, pq, s, z)
  BY <1>3, <1>6, <1>7, <1>8 DEF Trace
<1>10. Runs(pq, s, z)
  BY <1>9 DEF Runs
<1> QED BY <1>10 DEF pq

\* What is left of a plan after its first step.
LEMMA RunsOn ==
  ASSUME NEW S, NEW p \in Seq(S), p # <<>>, NEW s, NEW z, Runs(p, s, z)
  PROVE  Runs(Tail(p), Exec(Head(p), s), z)
<1>1. PICK a : Trace(a, p, s, z)
  BY DEF Runs
<1> DEFINE n == Len(p)
           q == Tail(p)
           tr == [i \in 1..n |-> a[i + 1]]
<1>2. n \in Nat \ {0} /\ Len(q) = n - 1 /\ Head(p) = p[1] /\ \A i \in 1 .. n - 1 : q[i] = p[i + 1]
  OBVIOUS
<1>3. a[1] = s /\ a[n + 1] = z /\ \A i \in 1..n : a[i + 1] = Exec(p[i], a[i])
  BY <1>1 DEF Trace
<1>4. DOMAIN tr = 1..n /\ \A i \in 1..n : tr[i] = a[i + 1]
  OBVIOUS
<1> HIDE DEF n, q, tr
<1>5. 1 \in 1..n /\ n \in 1..n /\ n - 1 + 1 = n
  BY <1>2
<1>6. tr[1] = Exec(Head(p), s) /\ tr[n] = z
  <2>1. tr[1] = a[1 + 1] /\ tr[n] = a[n + 1]
    BY <1>4, <1>5
  <2>2. a[1 + 1] = Exec(p[1], a[1])
    BY <1>3, <1>5
  <2> QED BY <1>2, <1>3, <2>1, <2>2
<1>7. ASSUME NEW i \in 1 .. n - 1 PROVE tr[i + 1] = Exec(q[i], tr[i])
  <2>1. i \in 1..n /\ i + 1 \in 1..n
    BY <1>2
  <2>2. tr[i] = a[i + 1] /\ tr[i + 1] = a[i + 1 + 1] /\ q[i] = p[i + 1]
    BY <1>2, <1>4, <2>1
  <2> QED BY <1>3, <2>1, <2>2
<1>8. Trace(tr, q, Exec(Head(p), s), z)
  BY <1>2, <1>4, <1>5, <1>6, <1>7 DEF Trace
<1>9. Runs(q, Exec(Head(p), s), z)
  BY <1>8 DEF Runs
<1> QED BY <1>9 DEF q

LEMMA RunsWhen ==
  ASSUME NEW b \in BOOLEAN, NEW p, NEW s, NEW z, Runs(p, s, z)
  PROVE  Runs(When(b, p), s, IF b THEN z ELSE s)
BY RunsNone DEF When

LEMMA RunsTwo ==
  ASSUME NEW a, NEW b, NEW s
  PROVE  Runs(<<a, b>>, s, Exec(b, Exec(a, s)))
<1> DEFINE S == {a, b}
<1>1. <<a>> \in Seq(S) /\ <<b>> \in Seq(S)
  OBVIOUS
<1> HIDE DEF S
<1>2. Runs(<<a>>, s, Exec(a, s)) /\ Runs(<<b>>, Exec(a, s), Exec(b, Exec(a, s)))
  BY RunsOne
<1>3. Runs(<<a>> \o <<b>>, s, Exec(b, Exec(a, s)))
  BY <1>1, <1>2, RunsThen
<1> QED BY <1>3, Joins

LEMMA RunsThree ==
  ASSUME NEW a, NEW b, NEW c, NEW s
  PROVE  Runs(<<a, b, c>>, s, Exec(c, Exec(b, Exec(a, s))))
<1> DEFINE S == {a, b, c}
           y == Exec(b, Exec(a, s))
<1>1. <<a, b>> \in Seq(S) /\ <<c>> \in Seq(S)
  OBVIOUS
<1> HIDE DEF S
<1>2. Runs(<<a, b>>, s, y) /\ Runs(<<c>>, y, Exec(c, y))
  BY RunsOne, RunsTwo
<1> HIDE DEF y
<1>3. Runs(<<a, b>> \o <<c>>, s, Exec(c, y))
  BY <1>1, <1>2, RunsThen
<1> QED BY <1>3, Joins DEF y

\* What each effect does to a row that is there.
LEMMA AppliedAs ==
  ASSUME NEW r \in Rows
  PROVE  /\ \A v : Applied([limit |-> v], r) = [r EXCEPT !.limit = v]
         /\ \A v : Applied([duration |-> v], r) = [r EXCEPT !.duration = v]
         /\ \A v : Applied([expiry |-> v], r) = [r EXCEPT !.expiry = v]
         /\ \A v : Applied([disabled |-> v], r) = [r EXCEPT !.disabled = v]
         /\ \A v : Applied([reset |-> v], r) = [r EXCEPT !.reset = v]
         /\ Applied(Unseen, r) = Unseen
<1>1. DOMAIN r = Columns
  BY DEF Rows, Columns
<1>2. ASSUME NEW v PROVE Applied([limit |-> v], r) = [r EXCEPT !.limit = v]
  BY DEF Applied, Rows
<1>3. ASSUME NEW v PROVE Applied([duration |-> v], r) = [r EXCEPT !.duration = v]
  BY DEF Applied, Rows
<1>4. ASSUME NEW v PROVE Applied([expiry |-> v], r) = [r EXCEPT !.expiry = v]
  BY DEF Applied, Rows
<1>5. ASSUME NEW v PROVE Applied([disabled |-> v], r) = [r EXCEPT !.disabled = v]
  BY DEF Applied, Rows
<1>6. ASSUME NEW v PROVE Applied([reset |-> v], r) = [r EXCEPT !.reset = v]
  BY DEF Applied, Rows
<1>9. Applied(Unseen, r) = Unseen
  <2>1. DOMAIN Unseen = Columns /\ Unseen = [f \in Columns |-> Unseen[f]]
    BY DEF Unseen, Columns
  <2>2. Applied(Unseen, r) = [f \in Columns |-> Unseen[f]]
    BY <1>1, <2>1 DEF Applied
  <2> QED BY <2>1, <2>2
<1> QED BY <1>2, <1>3, <1>4, <1>5, <1>6, <1>9

LEMMA ExecIs ==
  ASSUME NEW r \in Rows, NEW c
  PROVE  /\ Sit(r, c).row = r /\ Sit(r, c).cap = c
         /\ \A v : Exec([cap |-> v], Sit(r, c)) = Sit(r, v)
         /\ Exec(Unseen, Sit(r, c)) = Sit(Unseen, c)
         /\ \A e : "cap" \notin DOMAIN e /\ r.known => Exec(e, Sit(r, c)) = Sit(Applied(e, r), c)
         /\ \A e : "cap" \notin DOMAIN e /\ "known" \notin DOMAIN e /\ ~r.known =>
              Exec(e, Sit(r, c)) = Sit(r, c)
<1>1. Sit(r, c).row = r /\ Sit(r, c).cap = c
  BY DEF Sit
<1>2. ASSUME NEW v PROVE Exec([cap |-> v], Sit(r, c)) = Sit(r, v)
  <2>1. "cap" \in DOMAIN [cap |-> v] /\ [cap |-> v]["cap"] = v
    OBVIOUS
  <2> QED BY <1>1, <2>1 DEF Exec
<1>3. "cap" \notin DOMAIN Unseen /\ "known" \in DOMAIN Unseen
  BY DEF Unseen
<1>4. Exec(Unseen, Sit(r, c)) = Sit(Unseen, c)
  BY <1>1, <1>3, AppliedAs DEF Exec
<1> QED BY <1>1, <1>2, <1>4 DEF Exec

\* The same for each kind of effect.
LEMMA ExecLimit ==
  ASSUME NEW r \in Rows, NEW c, r.known, NEW v
  PROVE  Exec([limit |-> v], Sit(r, c)) = Sit([r EXCEPT !.limit = v], c)
<1>1. "cap" \notin DOMAIN [limit |-> v] /\ Applied([limit |-> v], r) = [r EXCEPT !.limit = v]
  BY AppliedAs
<1> QED BY <1>1, ExecIs

LEMMA ExecDuration ==
  ASSUME NEW r \in Rows, NEW c, r.known, NEW v
  PROVE  Exec([duration |-> v], Sit(r, c)) = Sit([r EXCEPT !.duration = v], c)
<1>1. "cap" \notin DOMAIN [duration |-> v] /\ Applied([duration |-> v], r) = [r EXCEPT !.duration = v]
  BY AppliedAs
<1> QED BY <1>1, ExecIs

LEMMA ExecExpiry ==
  ASSUME NEW r \in Rows, NEW c, r.known, NEW v
  PROVE  Exec([expiry |-> v], Sit(r, c)) = Sit([r EXCEPT !.expiry = v], c)
<1>1. "cap" \notin DOMAIN [expiry |-> v] /\ Applied([expiry |-> v], r) = [r EXCEPT !.expiry = v]
  BY AppliedAs
<1> QED BY <1>1, ExecIs

LEMMA ExecDisabled ==
  ASSUME NEW r \in Rows, NEW c, r.known, NEW v
  PROVE  Exec([disabled |-> v], Sit(r, c)) = Sit([r EXCEPT !.disabled = v], c)
<1>1. "cap" \notin DOMAIN [disabled |-> v] /\ Applied([disabled |-> v], r) = [r EXCEPT !.disabled = v]
  BY AppliedAs
<1> QED BY <1>1, ExecIs

LEMMA ExecReset ==
  ASSUME NEW r \in Rows, NEW c, r.known, NEW v
  PROVE  Exec([reset |-> v], Sit(r, c)) = Sit([r EXCEPT !.reset = v], c)
<1>1. "cap" \notin DOMAIN [reset |-> v] /\ Applied([reset |-> v], r) = [r EXCEPT !.reset = v]
  BY AppliedAs
<1> QED BY <1>1, ExecIs

LEMMA ExecTerm ==
  ASSUME NEW r \in Rows, NEW c, r.known, NEW e \in [activated : Nat, expiry : Nat]
  PROVE  /\ Exec(e, Sit(r, c)) = Sit(Applied(e, r), c) /\ Applied(e, r) \in Rows
         /\ Applied(e, r).activated = e.activated /\ Applied(e, r).expiry = e.expiry
         /\ Applied(e, r).known = r.known /\ Applied(e, r).limit = r.limit
         /\ Applied(e, r).duration = r.duration /\ Applied(e, r).disabled = r.disabled
         /\ Applied(e, r).monthly = r.monthly /\ Applied(e, r).reset = r.reset
<1> DEFINE y == Applied(e, r)
<1>1. DOMAIN e = {"activated", "expiry"} /\ DOMAIN r = Columns
  BY DEF Rows, Columns
<1>2. y = [f \in Columns |->
             IF f = "activated" THEN e["activated"] ELSE IF f = "expiry" THEN e["expiry"] ELSE r[f]]
  BY <1>1 DEF Applied
<1>3. /\ y.activated = e.activated /\ y.expiry = e.expiry
      /\ y.known = r.known /\ y.limit = r.limit /\ y.duration = r.duration /\ y.disabled = r.disabled
      /\ y.monthly = r.monthly /\ y.reset = r.reset
  BY <1>2 DEF Columns
<1>4. y \in Rows
  BY <1>2, <1>3, ConstantsAre DEF Rows, Columns
<1>5. Exec(e, Sit(r, c)) = Sit(y, c)
  BY <1>1, ExecIs
<1> QED BY <1>3, <1>4, <1>5

LEMMA ExecQuota ==
  ASSUME NEW r \in Rows, NEW c, r.known,
         NEW e \in [monthly : Quotas \cup {None}, reset : Nullable]
  PROVE  /\ Exec(e, Sit(r, c)) = Sit(Applied(e, r), c) /\ Applied(e, r) \in Rows
         /\ Applied(e, r).monthly = e.monthly /\ Applied(e, r).reset = e.reset
         /\ Applied(e, r).known = r.known /\ Applied(e, r).limit = r.limit
         /\ Applied(e, r).duration = r.duration /\ Applied(e, r).activated = r.activated
         /\ Applied(e, r).expiry = r.expiry /\ Applied(e, r).disabled = r.disabled
<1> DEFINE y == Applied(e, r)
<1>1. DOMAIN e = {"monthly", "reset"} /\ DOMAIN r = Columns
  BY DEF Rows, Columns
<1>2. y = [f \in Columns |->
             IF f = "monthly" THEN e["monthly"] ELSE IF f = "reset" THEN e["reset"] ELSE r[f]]
  BY <1>1 DEF Applied
<1>3. /\ y.monthly = e.monthly /\ y.reset = e.reset
      /\ y.known = r.known /\ y.limit = r.limit /\ y.duration = r.duration /\ y.activated = r.activated
      /\ y.expiry = r.expiry /\ y.disabled = r.disabled
  BY <1>2 DEF Columns
<1>4. y \in Rows
  BY <1>2, <1>3, ConstantsAre DEF Rows, Columns
<1>5. Exec(e, Sit(r, c)) = Sit(y, c)
  BY <1>1, ExecIs
<1> QED BY <1>3, <1>4, <1>5

-----------------------------------------------------------------------------
(* What the plans lead to *)

\* Row and Outline agree; a key with a quota has a ceiling, unless somebody took it away;
\* a key is off because its term is over, or somebody said so.  k is what is known then:
\* the clock and the history.
Fits(r, c, k) ==
  /\ r \in Rows /\ c \in Nullable
  /\ c = IF r.disabled THEN 0 ELSE r.limit
  /\ ~k.waived => r.monthly = None \/ r.limit # None
  /\ ~k.asked /\ r.disabled => r.expiry # None /\ r.expiry <= k.now
  /\ IsPending(r) => r.expiry = None
  /\ ~r.known => r = [Unseen EXCEPT !.known = FALSE]

Leads(plan, s, k) ==
  /\ plan \in Seq(Effects(Nullable))
  /\ \E r \in Rows, c \in Nullable : Runs(plan, s, Sit(r, c)) /\ Fits(r, c, k)

\* What effect e, a longer term by d, makes of r at t.
Longer(e, r, c, t, d) ==
  \E y \in Rows :
    /\ Exec(e, Sit(r, c)) = Sit(y, c)
    /\ y.known /\ y.limit = r.limit /\ y.disabled = r.disabled /\ y.monthly = r.monthly
    /\ IsPending(y) => IsPending(r) /\ y.expiry = r.expiry
    /\ ~IsPending(r) /\ d <= 0 /\ r.expiry # None /\ r.expiry <= t => y.expiry = t

LEMMA LongerRuns ==
  ASSUME NEW m \in Rows, NEW t \in Nat, NEW d \in Int, NEW r \in Rows, NEW c, r.known,
         r.duration = m.duration, r.activated = m.activated, r.expiry = m.expiry
  PROVE  Longer(LongerTerm(m, t, d), r, c, t, d)
<1>1. IsPending(r) = IsPending(m)
  BY DEF IsPending
<1>2. CASE IsPending(m)
  <2> DEFINE n == Larger(1, m.duration + d)
             y == [r EXCEPT !.duration = n]
  <2>1. m.duration \in Nat
    BY <1>2, ConstantsAre DEF IsPending, Rows, Nullable
  <2>2. n \in Nat
    BY <2>1 DEF Larger
  <2>3. LongerTerm(m, t, d) = [duration |-> n]
    BY <1>2 DEF LongerTerm
  <2> HIDE DEF n
  <2>4. Exec([duration |-> n], Sit(r, c)) = Sit(y, c)
    BY ExecDuration
  <2>5. /\ y \in Rows /\ y.known /\ y.limit = r.limit /\ y.disabled = r.disabled
        /\ y.monthly = r.monthly /\ y.expiry = r.expiry
    BY <2>2, ConstantsAre DEF Rows
  <2> QED BY <1>1, <1>2, <2>3, <2>4, <2>5 DEF Longer
<1>3. CASE ~IsPending(m)
  <2> DEFINE n == Larger(t, Larger(OrZero(m.expiry), t) + d)
             y == [r EXCEPT !.expiry = n]
  <2>1. OrZero(m.expiry) \in Nat
    BY ConstantsAre DEF OrZero, Rows, Nullable
  <2>2. n \in Nat
    BY <2>1 DEF Larger
  <2>3. LongerTerm(m, t, d) = [expiry |-> n]
    BY <1>3 DEF LongerTerm
  <2>4. d <= 0 /\ r.expiry # None /\ r.expiry <= t => n = t
    BY <2>1 DEF Larger, OrZero
  <2> HIDE DEF n
  <2>5. Exec([expiry |-> n], Sit(r, c)) = Sit(y, c)
    BY ExecExpiry
  <2>6. /\ y \in Rows /\ y.known /\ y.limit = r.limit /\ y.disabled = r.disabled
        /\ y.monthly = r.monthly /\ y.expiry = n
        /\ y.duration = r.duration /\ y.activated = r.activated
    BY <2>2, ConstantsAre DEF Rows
  <2>7. ~IsPending(y)
    BY <1>1, <1>3, <2>6 DEF IsPending
  <2> QED BY <2>3, <2>4, <2>5, <2>6, <2>7 DEF Longer
<1> QED BY <1>2, <1>3

LEMMA RenewLeads ==
  ASSUME NEW m \in Rows, NEW c, NEW k, Fits(m, c, k), m.known, NEW t \in Nat,
         NEW gb \in Nullable, NEW d \in Nullable, gb = None => k.waived
  PROVE  Leads(Renew(m, t, gb, d), Sit(m, c), k)
<1> DEFINE new == IF gb = None \/ m.limit = None THEN None ELSE m.limit + gb
           days == IF d = None THEN 0 ELSE d
           S == Effects(Nullable)
           a == <<[cap |-> new], [limit |-> new]>>
           b == <<LongerTerm(m, t, days)>>
           e == <<[disabled |-> FALSE]>>
           r1 == [m EXCEPT !.limit = new]
<1>1. new \in Nullable /\ days \in Int /\ (new = None => gb = None \/ m.limit = None)
  BY ConstantsAre DEF Rows, Nullable
<1>2. Renew(m, t, gb, d) = (a \o When(d # None, b)) \o When(m.disabled, e)
  BY DEF Renew
<1> HIDE DEF new, days
<1>3. a \in Seq(S) /\ b \in Seq(S) /\ e \in Seq(S)
  <2>1. [cap |-> new] \in S /\ [limit |-> new] \in S /\ [disabled |-> FALSE] \in S
    BY <1>1, EffectsAre
  <2>2. LongerTerm(m, t, days) \in S
    BY <1>1, LongerTermIs
  <2> HIDE DEF S
  <2> QED BY <2>1, <2>2, Sequences
<1>4. m.disabled \in BOOLEAN /\ (d # None) \in BOOLEAN
  BY DEF Rows
<1>5. /\ r1 \in Rows /\ r1.known /\ r1.limit = new /\ r1.disabled = m.disabled
      /\ r1.monthly = m.monthly /\ r1.duration = m.duration /\ r1.activated = m.activated
      /\ r1.expiry = m.expiry
  BY <1>1 DEF Rows
<1>6. Runs(a, Sit(m, c), Sit(r1, new))
  <2>1. Exec([cap |-> new], Sit(m, c)) = Sit(m, new)
    BY ExecIs
  <2>2. Exec([limit |-> new], Sit(m, new)) = Sit(r1, new)
    BY ExecLimit
  <2> QED BY <2>1, <2>2, RunsTwo
<1> HIDE DEF r1, a
<1>7. PICK r2 \in Rows :
        /\ Exec(LongerTerm(m, t, days), Sit(r1, new)) = Sit(r2, new)
        /\ r2.known /\ r2.limit = r1.limit /\ r2.disabled = r1.disabled /\ r2.monthly = r1.monthly
        /\ IsPending(r2) => IsPending(r1) /\ r2.expiry = r1.expiry
  <2>1. Longer(LongerTerm(m, t, days), r1, new, t, days)
    BY <1>1, <1>5, LongerRuns
  <2> QED BY <2>1 DEF Longer
<1> DEFINE r3 == IF d # None THEN r2 ELSE r1
<1>8. Runs(When(d # None, b), Sit(r1, new), Sit(r3, new))
  <2>1. Runs(b, Sit(r1, new), Sit(r2, new))
    BY <1>7, RunsOne
  <2> HIDE DEF b
  <2> QED BY <1>4, <2>1, RunsWhen
<1>9. /\ r3 \in Rows /\ r3.known /\ r3.limit = new /\ r3.disabled = m.disabled
      /\ r3.monthly = m.monthly /\ (IsPending(r3) => r3.expiry = None)
  BY <1>5, <1>7 DEF Fits, IsPending
<1> HIDE DEF r3, b
<1> DEFINE r4 == [r3 EXCEPT !.disabled = FALSE]
           y == IF m.disabled THEN r4 ELSE r3
<1>10. Runs(When(m.disabled, e), Sit(r3, new), Sit(y, new))
  <2>1. Exec([disabled |-> FALSE], Sit(r3, new)) = Sit(r4, new)
    BY <1>9, ExecDisabled
  <2>2. Runs(e, Sit(r3, new), Sit(r4, new))
    BY <2>1, RunsOne
  <2> HIDE DEF e, r4
  <2> QED BY <1>4, <2>2, RunsWhen
<1>11. Fits(y, new, k)
  <2>1. /\ y \in Rows /\ y.known /\ y.limit = new /\ y.disabled = FALSE /\ y.monthly = m.monthly
        /\ y.duration = r3.duration /\ y.activated = r3.activated /\ y.expiry = r3.expiry
    BY <1>4, <1>9 DEF Rows
  <2> HIDE DEF y
  <2> QED BY <1>1, <1>9, <2>1 DEF Fits, IsPending
<1>12. y \in Rows
  BY <1>11 DEF Fits
<1> HIDE DEF S, e, y
<1>13. When(d # None, b) \in Seq(S) /\ When(m.disabled, e) \in Seq(S)
  BY <1>3, <1>4, Sequences
<1>14. a \o When(d # None, b) \in Seq(S) /\ (a \o When(d # None, b)) \o When(m.disabled, e) \in Seq(S)
  BY <1>3, <1>13, Sequences
<1>15. Runs(a \o When(d # None, b), Sit(m, c), Sit(r3, new))
  BY <1>3, <1>6, <1>8, <1>13, RunsThen
<1>16. Runs((a \o When(d # None, b)) \o When(m.disabled, e), Sit(m, c), Sit(y, new))
  BY <1>10, <1>13, <1>14, <1>15, RunsThen
<1> QED BY <1>1, <1>2, <1>11, <1>12, <1>14, <1>16 DEF Leads, S

LEMMA ExtendLeads ==
  ASSUME NEW m \in Rows, NEW c, NEW k, Fits(m, c, k), m.known, NEW t \in Nat, k.now = t, NEW d \in Int
  PROVE  Leads(Extend(m, t, d), Sit(m, c), k)
<1> DEFINE on == d > 0 /\ m.disabled
           S == Effects(Nullable)
           a == <<[cap |-> m.limit]>>
           b == <<LongerTerm(m, t, d)>>
           e == <<[disabled |-> FALSE]>>
           c1 == IF on THEN m.limit ELSE c
<1>1. /\ on \in BOOLEAN /\ m.limit \in Nullable /\ m.disabled \in BOOLEAN /\ c \in Nullable
      /\ c1 \in Nullable /\ (on => d > 0 /\ m.disabled) /\ (~on => d <= 0 \/ ~m.disabled)
  BY DEF Rows, Fits
<1>2. Extend(m, t, d) = (When(on, a) \o b) \o When(on, e)
  BY DEF Extend
<1>3. a \in Seq(S) /\ b \in Seq(S) /\ e \in Seq(S)
  <2>1. [cap |-> m.limit] \in S /\ [disabled |-> FALSE] \in S
    BY <1>1, EffectsAre
  <2>2. LongerTerm(m, t, d) \in S
    BY LongerTermIs
  <2> HIDE DEF S
  <2> QED BY <2>1, <2>2, Sequences
<1> HIDE DEF on
<1>4. Runs(When(on, a), Sit(m, c), Sit(m, c1))
  <2>1. Exec([cap |-> m.limit], Sit(m, c)) = Sit(m, m.limit)
    BY ExecIs
  <2>2. Runs(a, Sit(m, c), Sit(m, m.limit))
    BY <2>1, RunsOne
  <2> HIDE DEF a
  <2> QED BY <1>1, <2>2, RunsWhen
<1> HIDE DEF a, c1
<1>5. PICK y \in Rows :
        /\ Exec(LongerTerm(m, t, d), Sit(m, c1)) = Sit(y, c1)
        /\ y.known /\ y.limit = m.limit /\ y.disabled = m.disabled /\ y.monthly = m.monthly
        /\ IsPending(y) => IsPending(m) /\ y.expiry = m.expiry
        /\ ~IsPending(m) /\ d <= 0 /\ m.expiry # None /\ m.expiry <= t => y.expiry = t
  <2>1. Longer(LongerTerm(m, t, d), m, c1, t, d)
    BY LongerRuns
  <2> QED BY <2>1 DEF Longer
<1>6. Runs(b, Sit(m, c1), Sit(y, c1))
  BY <1>5, RunsOne
<1> DEFINE r == [y EXCEPT !.disabled = FALSE]
           z == IF on THEN r ELSE y
<1>7. Runs(When(on, e), Sit(y, c1), Sit(z, c1))
  <2>1. Exec([disabled |-> FALSE], Sit(y, c1)) = Sit(r, c1)
    BY <1>5, ExecDisabled
  <2>2. Runs(e, Sit(y, c1), Sit(r, c1))
    BY <2>1, RunsOne
  <2> HIDE DEF e, r
  <2> QED BY <1>1, <2>2, RunsWhen
<1>8. Fits(z, c1, k)
  <2>1. /\ z \in Rows /\ z.known /\ z.limit = m.limit /\ z.monthly = m.monthly
        /\ z.disabled = IF on THEN FALSE ELSE m.disabled
        /\ z.duration = y.duration /\ z.activated = y.activated /\ z.expiry = y.expiry
    BY <1>5 DEF Rows
  <2>2. c1 = IF z.disabled THEN 0 ELSE z.limit
    BY <1>1, <2>1 DEF c1, Fits
  <2>3. ASSUME ~k.asked, z.disabled PROVE z.expiry # None /\ z.expiry <= k.now
    <3>1. m.disabled /\ d <= 0 /\ m.expiry # None /\ m.expiry <= t /\ ~IsPending(m)
      BY <1>1, <2>1, <2>3 DEF Fits
    <3>2. y.expiry = t /\ t # None /\ t <= k.now
      BY <1>5, <3>1, ConstantsAre
    <3> QED BY <2>1, <3>2
  <2>4. IsPending(z) => z.expiry = None
    BY <1>5, <2>1 DEF Fits, IsPending
  <2> HIDE DEF z
  <2> QED BY <1>1, <2>1, <2>2, <2>3, <2>4 DEF Fits
<1>9. z \in Rows
  BY <1>8 DEF Fits
<1> HIDE DEF S, b, e, z
<1>10. When(on, a) \in Seq(S) /\ When(on, e) \in Seq(S)
  BY <1>1, <1>3, Sequences
<1>11. When(on, a) \o b \in Seq(S) /\ (When(on, a) \o b) \o When(on, e) \in Seq(S)
  BY <1>3, <1>10, Sequences
<1>12. Runs(When(on, a) \o b, Sit(m, c), Sit(y, c1))
  BY <1>3, <1>4, <1>6, <1>10, RunsThen
<1>13. Runs((When(on, a) \o b) \o When(on, e), Sit(m, c), Sit(z, c1))
  BY <1>7, <1>10, <1>11, <1>12, RunsThen
<1> QED BY <1>1, <1>2, <1>8, <1>9, <1>11, <1>13 DEF Leads, S

LEMMA SetLimitLeads ==
  ASSUME NEW m \in Rows, NEW c, NEW k, Fits(m, c, k), m.known, NEW v \in Nullable, v = None => k.waived
  PROVE  Leads(SetLimit(m, v), Sit(m, c), k)
<1> DEFINE on == ~m.disabled
           S == Effects(Nullable)
           a == <<[cap |-> v]>>
           b == <<[limit |-> v]>>
           c1 == IF on THEN v ELSE c
           y == [m EXCEPT !.limit = v]
<1>1. on \in BOOLEAN /\ m.disabled \in BOOLEAN /\ c1 \in Nullable
  BY DEF Rows, Fits
<1>2. SetLimit(m, v) = When(on, a) \o b
  BY DEF SetLimit
<1>3. a \in Seq(S) /\ b \in Seq(S)
  <2>1. [cap |-> v] \in S /\ [limit |-> v] \in S
    BY EffectsAre
  <2> HIDE DEF S
  <2> QED BY <2>1, Sequences
<1>4. Fits(y, c1, k)
  BY <1>1 DEF Fits, Rows, IsPending
<1>5. Runs(b, Sit(m, c1), Sit(y, c1))
  <2> HIDE DEF c1
  <2>1. Exec([limit |-> v], Sit(m, c1)) = Sit(y, c1)
    BY ExecLimit
  <2> QED BY <2>1, RunsOne
<1> HIDE DEF on, y
<1>6. Runs(When(on, a), Sit(m, c), Sit(m, c1))
  <2>1. Exec([cap |-> v], Sit(m, c)) = Sit(m, v)
    BY ExecIs
  <2>2. Runs(a, Sit(m, c), Sit(m, v))
    BY <2>1, RunsOne
  <2> HIDE DEF a
  <2> QED BY <1>1, <2>2, RunsWhen
<1>7. y \in Rows
  BY <1>4 DEF Fits
<1> HIDE DEF S, a, b, c1
<1>8. When(on, a) \in Seq(S)
  BY <1>1, <1>3, Sequences
<1>9. When(on, a) \o b \in Seq(S)
  BY <1>3, <1>8, Sequences
<1>10. Runs(When(on, a) \o b, Sit(m, c), Sit(y, c1))
  BY <1>3, <1>5, <1>6, <1>8, RunsThen
<1> QED BY <1>1, <1>2, <1>4, <1>7, <1>9, <1>10 DEF Leads, S

\* The allowance of a quota, once the usage is known.
LEMMA SeededLeads ==
  ASSUME NEW m \in Rows, NEW c, NEW k, Fits(m, c, k), m.known, NEW q \in Nat, NEW e \in Lasts,
         e = [disabled |-> FALSE] \/ ~m.disabled
  PROVE  Leads(Seeded(q, e), Sit(m, c), k)
<1> DEFINE S == Effects(Nullable)
           a == [cap |-> q]
           b == [limit |-> q]
           r == [m EXCEPT !.limit = q]
<1>1. a \in S /\ b \in S /\ e \in S /\ q \in Nullable
  BY ConstantsAre, EffectsAre, LastsAre
<1>2. Seeded(q, e) = <<a, b, e>>
  BY DEF Seeded
<1>3. /\ r \in Rows /\ r.known /\ r.limit = q /\ r.disabled = m.disabled /\ r.monthly = m.monthly
      /\ r.duration = m.duration /\ r.activated = m.activated /\ r.expiry = m.expiry
  BY <1>1 DEF Rows
<1>4. Exec(b, Exec(a, Sit(m, c))) = Sit(r, q)
  <2>1. Exec(a, Sit(m, c)) = Sit(m, q)
    BY ExecIs
  <2>2. Exec(b, Sit(m, q)) = Sit(r, q)
    BY ExecLimit
  <2> QED BY <2>1, <2>2
<1> HIDE DEF r
<1>5. \E y \in Rows : Exec(e, Sit(r, q)) = Sit(y, q) /\ Fits(y, q, k)
  <2>1. CASE e = [disabled |-> FALSE]
    <3> DEFINE y == [r EXCEPT !.disabled = FALSE]
    <3>1. Exec(e, Sit(r, q)) = Sit(y, q)
      BY <1>3, <2>1, ExecDisabled
    <3>2. /\ y \in Rows /\ y.known /\ y.limit = q /\ y.disabled = FALSE /\ y.monthly = m.monthly
          /\ y.duration = m.duration /\ y.activated = m.activated /\ y.expiry = m.expiry
      BY <1>3 DEF Rows
    <3> HIDE DEF y
    <3>3. Fits(y, q, k)
      BY <1>1, <3>2, ConstantsAre DEF Fits, IsPending
    <3> QED BY <3>1, <3>2, <3>3
  <2>2. CASE e # [disabled |-> FALSE] /\ ~m.disabled
    <3> DEFINE y == Applied(e, r)
    <3>1. e \in [monthly : Quotas \cup {None}, reset : Nullable]
      BY <2>2 DEF Lasts
    <3>2. /\ Exec(e, Sit(r, q)) = Sit(y, q) /\ y \in Rows
          /\ y.known = r.known /\ y.limit = r.limit /\ y.duration = r.duration
          /\ y.activated = r.activated /\ y.expiry = r.expiry /\ y.disabled = r.disabled
      BY <1>3, <3>1, ExecQuota
    <3>3. /\ y.known /\ y.limit = q /\ y.disabled = m.disabled
          /\ y.duration = m.duration /\ y.activated = m.activated /\ y.expiry = m.expiry
      BY <1>3, <3>2
    <3> HIDE DEF y
    <3>4. Fits(y, q, k)
      BY <1>1, <2>2, <3>2, <3>3, ConstantsAre DEF Fits, IsPending
    <3> QED BY <3>1, <3>2, <3>3, <3>4
  <2> QED BY <2>1, <2>2
<1>6. PICK y \in Rows : Exec(e, Sit(r, q)) = Sit(y, q) /\ Fits(y, q, k)
  BY <1>5
<1> HIDE DEF S, a, b
<1>7. Runs(<<a, b, e>>, Sit(m, c), Exec(e, Exec(b, Exec(a, Sit(m, c)))))
  BY RunsThree
<1>8. Runs(<<a, b, e>>, Sit(m, c), Sit(y, q))
  BY <1>4, <1>6, <1>7
<1>9. <<a, b, e>> \in Seq(S)
  BY <1>1, Sequences
<1> QED BY <1>1, <1>2, <1>6, <1>8, <1>9 DEF Leads, S

\* A plan of a single effect, and of none.
LEMMA OneLeads ==
  ASSUME NEW e \in Effects(Nullable), NEW s, NEW y \in Rows, NEW z \in Nullable, NEW k,
         Exec(e, s) = Sit(y, z), Fits(y, z, k)
  PROVE  Leads(<<e>>, s, k)
<1>1. Runs(<<e>>, s, Sit(y, z))
  BY RunsOne
<1> DEFINE S == Effects(Nullable)
<1>2. e \in S
  OBVIOUS
<1> HIDE DEF S
<1>3. <<e>> \in Seq(S)
  BY <1>2, Sequences
<1> QED BY <1>1, <1>3 DEF Leads, S

LEMMA NoneLeads ==
  ASSUME NEW m, NEW c, NEW k, Fits(m, c, k)
  PROVE  Leads(<<>>, Sit(m, c), k)
<1>1. Runs(<<>>, Sit(m, c), Sit(m, c)) /\ m \in Rows /\ c \in Nullable
  BY RunsNone DEF Fits
<1>2. <<>> \in Seq(Effects(Nullable))
  BY Sequences
<1> QED BY <1>1, <1>2 DEF Leads

\* A quota that is set or given up on paper alone.
LEMMA QuotaLeads ==
  ASSUME NEW m \in Rows, NEW c, NEW k, Fits(m, c, k), m.known,
         NEW u \in Quotas \cup {None}, NEW v \in Nullable,
         u # None => m.limit # None \/ k.waived
  PROVE  Leads(<<[monthly |-> u, reset |-> v]>>, Sit(m, c), k)
<1> DEFINE e == [monthly |-> u, reset |-> v]
           y == Applied(e, m)
<1>1. e \in [monthly : Quotas \cup {None}, reset : Nullable] /\ e.monthly = u
  OBVIOUS
<1>2. e \in Effects(Nullable)
  BY EffectsAre
<1> HIDE DEF e
<1>3. /\ Exec(e, Sit(m, c)) = Sit(y, c) /\ y \in Rows /\ y.monthly = u
      /\ y.known = m.known /\ y.limit = m.limit /\ y.duration = m.duration
      /\ y.activated = m.activated /\ y.expiry = m.expiry /\ y.disabled = m.disabled
  BY <1>1, ExecQuota
<1> HIDE DEF y
<1>4. Fits(y, c, k) /\ c \in Nullable
  BY <1>3 DEF Fits, IsPending
<1>5. Leads(<<e>>, Sit(m, c), k)
  BY <1>2, <1>3, <1>4, OneLeads
<1> QED BY <1>5 DEF e

LEMMA TwoLeads ==
  ASSUME NEW d \in Effects(Nullable), NEW e \in Effects(Nullable), NEW s, NEW y \in Rows,
         NEW z \in Nullable, NEW k, Exec(e, Exec(d, s)) = Sit(y, z), Fits(y, z, k)
  PROVE  Leads(<<d, e>>, s, k)
<1>1. Runs(<<d, e>>, s, Sit(y, z))
  BY RunsTwo
<1> DEFINE S == Effects(Nullable)
<1>2. d \in S /\ e \in S
  OBVIOUS
<1> HIDE DEF S
<1>3. <<d, e>> \in Seq(S)
  BY <1>2, Sequences
<1> QED BY <1>1, <1>3 DEF Leads, S

LEMMA SwitchOffLeads ==
  ASSUME NEW m \in Rows, NEW c, NEW k, Fits(m, c, k), m.known,
         k.asked \/ (m.expiry # None /\ m.expiry <= k.now)
  PROVE  Leads(SwitchOff, Sit(m, c), k)
<1> DEFINE y == [m EXCEPT !.disabled = TRUE]
           d == [cap |-> 0]
           e == [disabled |-> TRUE]
<1>1. d \in Effects(Nullable) /\ e \in Effects(Nullable) /\ 0 \in Nullable
  BY EffectsAre, ConstantsAre
<1>2. Exec(d, Sit(m, c)) = Sit(m, 0)
  BY ExecIs
<1>3. Exec(e, Sit(m, 0)) = Sit(y, 0)
  BY ExecDisabled
<1>4. SwitchOff = <<d, e>>
  BY DEF SwitchOff
<1>5. /\ y \in Rows /\ y.known /\ y.limit = m.limit /\ y.disabled = TRUE /\ y.monthly = m.monthly
      /\ y.duration = m.duration /\ y.activated = m.activated /\ y.expiry = m.expiry
  BY DEF Rows
<1> HIDE DEF y, d, e
<1>6. Fits(y, 0, k)
  BY <1>1, <1>5 DEF Fits, IsPending
<1>7. Leads(<<d, e>>, Sit(m, c), k)
  BY <1>1, <1>2, <1>3, <1>5, <1>6, TwoLeads
<1> QED BY <1>4, <1>7

\* A key that the panel does not know is switched on at Outline, where it was on.
LEMMA SwitchOnLeads ==
  ASSUME NEW m \in Rows, NEW c, NEW k, Fits(m, c, k)
  PROVE  Leads(SwitchOn(IF m.known THEN m ELSE Unseen), Sit(m, c), k)
<1> DEFINE n == IF m.known THEN m ELSE Unseen
           y == IF m.known THEN [m EXCEPT !.disabled = FALSE] ELSE m
           d == [cap |-> n.limit]
           e == [disabled |-> FALSE]
<1>1. /\ n.limit = m.limit /\ m.limit \in Nullable /\ m.known \in BOOLEAN
      /\ ~m.known => ~m.disabled
  <2>1. CASE m.known
    BY <2>1 DEF Rows
  <2>2. CASE ~m.known
    <3>1. m = [Unseen EXCEPT !.known = FALSE]
      BY <2>2 DEF Fits
    <3>2. m.limit = None /\ m.disabled = FALSE
      BY <3>1 DEF Unseen
    <3> QED BY <2>2, <3>2, UnseenIs DEF Rows
  <2> QED BY <2>1, <2>2
<1>2. d \in Effects(Nullable) /\ e \in Effects(Nullable)
  BY <1>1, EffectsAre
<1>3. Exec(d, Sit(m, c)) = Sit(m, n.limit)
  BY ExecIs
<1>4. Exec(e, Sit(m, n.limit)) = Sit(y, n.limit)
  <2>1. CASE m.known
    BY <2>1, ExecDisabled
  <2>2. CASE ~m.known
    <3>1. "cap" \notin DOMAIN e /\ "known" \notin DOMAIN e
      OBVIOUS
    <3> QED BY <2>2, <3>1, ExecIs
  <2> QED BY <2>1, <2>2
<1>5. SwitchOn(n) = <<d, e>>
  BY DEF SwitchOn
<1>6. /\ y \in Rows /\ y.limit = m.limit /\ y.disabled = FALSE /\ y.monthly = m.monthly
      /\ y.duration = m.duration /\ y.activated = m.activated /\ y.expiry = m.expiry
      /\ (~y.known => y = m /\ ~m.known)
  <2>1. CASE m.known
    BY <2>1 DEF Rows
  <2>2. CASE ~m.known
    BY <1>1, <2>2 DEF Rows
  <2> QED BY <2>1, <2>2
<1> HIDE DEF n, y, d, e
<1>7. Fits(y, n.limit, k)
  BY <1>1, <1>6 DEF Fits, IsPending
<1>8. Leads(<<d, e>>, Sit(m, c), k)
  BY <1>1, <1>2, <1>3, <1>4, <1>6, <1>7, TwoLeads
<1> QED BY <1>5, <1>8 DEF n

LEMMA ActivationLeads ==
  ASSUME NEW m \in Rows, NEW c, NEW k, Fits(m, c, k), m.known, IsPending(m),
         pass.clock \in Nat
  PROVE  Leads(Activation(m), Sit(m, c), k)
<1> DEFINE e == [activated |-> pass.clock, expiry |-> pass.clock + m.duration]
           y == Applied(e, m)
<1>1. Activation(m) = IF pass.usage > 0 THEN <<e>> ELSE <<>>
  BY DEF Activation, When
<1>2. m.duration \in Nat
  BY ConstantsAre DEF IsPending, Rows, Nullable
<1>3. pass.clock + m.duration \in Nat
  BY <1>2
<1>4. e \in [activated : Nat, expiry : Nat] /\ e \in Effects(Nullable) /\ e.activated \in Nat
  BY <1>3, EffectsAre
<1> HIDE DEF e
<1>5. /\ Exec(e, Sit(m, c)) = Sit(y, c) /\ y \in Rows /\ y.activated = e.activated
      /\ y.known = m.known /\ y.limit = m.limit /\ y.disabled = m.disabled /\ y.monthly = m.monthly
  BY <1>4, ExecTerm
<1> HIDE DEF y
<1>6. Fits(y, c, k) /\ c \in Nullable
  BY <1>4, <1>5, ConstantsAre DEF Fits, IsPending
<1>7. Leads(<<e>>, Sit(m, c), k)
  BY <1>4, <1>5, <1>6, OneLeads
<1>8. Leads(<<>>, Sit(m, c), k)
  BY NoneLeads
<1> QED BY <1>1, <1>7, <1>8

LEMMA QuotaResetLeads ==
  ASSUME NEW m \in Rows, NEW c, NEW k, Fits(m, c, k), m.known, QuotaDue(m),
         pass.clock \in Nat, pass.usage \in Nat
  PROVE  Leads(QuotaReset(m), Sit(m, c), k)
<1> DEFINE S == Effects(Nullable)
           q == pass.usage + m.monthly
           n == NextReset(m.reset)
           a == [cap |-> q]
           b == [limit |-> q]
           e == [reset |-> n]
           r == [m EXCEPT !.limit = q]
           y == [r EXCEPT !.reset = n]
<1>1. QuotaReset(m) = <<a, b, e>>
  BY DEF QuotaReset
<1>2. q \in Nat /\ q \in Nullable /\ ~m.disabled
  <2>1. m.monthly \in Nat
    BY ConstantsAre DEF QuotaDue, Rows
  <2> QED BY <2>1, ConstantsAre DEF QuotaDue
<1>3. n \in Nat /\ n \in Nullable
  <2>1. m.reset \in Nat /\ pass.clock >= m.reset
    BY ConstantsAre DEF QuotaDue, Rows, Nullable
  <2> QED BY <2>1, NextResetIs, ConstantsAre
<1> HIDE DEF q, n
<1>4. a \in S /\ b \in S /\ e \in S
  BY <1>2, <1>3, EffectsAre
<1>5. /\ r \in Rows /\ r.known /\ r.limit = q /\ r.disabled = m.disabled /\ r.monthly = m.monthly
      /\ r.duration = m.duration /\ r.activated = m.activated /\ r.expiry = m.expiry
  BY <1>2 DEF Rows
<1>6. Exec(b, Exec(a, Sit(m, c))) = Sit(r, q)
  <2>1. Exec(a, Sit(m, c)) = Sit(m, q)
    BY ExecIs
  <2>2. Exec(b, Sit(m, q)) = Sit(r, q)
    BY ExecLimit
  <2> QED BY <2>1, <2>2
<1> HIDE DEF r
<1>7. Exec(e, Sit(r, q)) = Sit(y, q)
  BY <1>5, ExecReset
<1>8. /\ y \in Rows /\ y.known /\ y.limit = q /\ y.disabled = m.disabled /\ y.monthly = m.monthly
      /\ y.duration = m.duration /\ y.activated = m.activated /\ y.expiry = m.expiry
  BY <1>3, <1>5 DEF Rows
<1> HIDE DEF S, a, b, e, y
<1>9. Fits(y, q, k)
  BY <1>2, <1>8, ConstantsAre DEF Fits, IsPending
<1>10. Runs(<<a, b, e>>, Sit(m, c), Exec(e, Exec(b, Exec(a, Sit(m, c)))))
  BY RunsThree
<1>11. Runs(<<a, b, e>>, Sit(m, c), Sit(y, q))
  BY <1>6, <1>7, <1>10
<1>12. <<a, b, e>> \in Seq(S)
  BY <1>4, Sequences
<1> QED BY <1>1, <1>2, <1>8, <1>9, <1>11, <1>12 DEF Leads, S

-----------------------------------------------------------------------------
(* Plans that settle *)

\* Once everything in a plan is done, the key fits, whatever the usage turns out to be.
Settles(plan, s, k) ==
  \/ plan = Remove
  \/ Leads(plan, s, k)
  \/ \E q \in Quotas, e \in Lasts :
       /\ plan = Metered(q, e)
       /\ \A u \in Nat : Leads(Seeded(q + u, e), s, k)
  \/ \E q \in Quotas, e \in Lasts :
       /\ plan = MeteredNew(q, e)
       /\ \A u \in Nat : Leads(Seeded(q + u, e), Exec(Unseen, s), k)

\* Time passes, and operators do what they do.
Later(k, l) == k.now <= l.now /\ (k.asked => l.asked) /\ (k.waived => l.waived)

LEMMA FitsLater ==
  ASSUME NEW r, NEW c, NEW k, NEW l, k.now \in Nat, l.now \in Nat, Later(k, l), Fits(r, c, k)
  PROVE  Fits(r, c, l)
<1>1. r.expiry # None => r.expiry \in Nat
  BY DEF Fits, Rows, Nullable
<1> QED BY <1>1 DEF Fits, Later

LEMMA LeadsLater ==
  ASSUME NEW plan, NEW s, NEW k, NEW l, k.now \in Nat, l.now \in Nat, Later(k, l), Leads(plan, s, k)
  PROVE  Leads(plan, s, l)
<1>1. PICK r \in Rows, c \in Nullable : Runs(plan, s, Sit(r, c)) /\ Fits(r, c, k)
  BY DEF Leads
<1>2. Fits(r, c, l)
  BY <1>1, FitsLater
<1> QED BY <1>1, <1>2 DEF Leads

LEMMA SettlesLater ==
  ASSUME NEW plan, NEW s, NEW k, NEW l, k.now \in Nat, l.now \in Nat, Later(k, l), Settles(plan, s, k)
  PROVE  Settles(plan, s, l)
<1>1. \A p, z : Leads(p, z, k) => Leads(p, z, l)
  BY LeadsLater
<1>2. CASE plan = Remove \/ Leads(plan, s, k)
  BY <1>1, <1>2 DEF Settles
<1>3. ASSUME NEW q \in Quotas, NEW e \in Lasts, plan = Metered(q, e),
             \A u \in Nat : Leads(Seeded(q + u, e), s, k)
      PROVE  Settles(plan, s, l)
  BY <1>1, <1>3 DEF Settles
<1>4. ASSUME NEW q \in Quotas, NEW e \in Lasts, plan = MeteredNew(q, e),
             \A u \in Nat : Leads(Seeded(q + u, e), Exec(Unseen, s), k)
      PROVE  Settles(plan, s, l)
  BY <1>1, <1>4 DEF Settles
<1> QED BY <1>2, <1>3, <1>4 DEF Settles

\* Nothing is left to do.
LEMMA Settled ==
  ASSUME NEW r \in Rows, NEW c \in Nullable, NEW k
  PROVE  Settles(<<>>, Sit(r, c), k) <=> Fits(r, c, k)
<1>1. ASSUME Settles(<<>>, Sit(r, c), k) PROVE Fits(r, c, k)
  <2>1. <<>> # Remove
    BY RemoveIs
  <2>2. \A q, e : <<>> # Metered(q, e) /\ <<>> # MeteredNew(q, e)
    BY DEF Metered, MeteredNew
  <2>3. PICK y \in Rows, z \in Nullable : Runs(<<>>, Sit(r, c), Sit(y, z)) /\ Fits(y, z, k)
    BY <1>1, <2>1, <2>2 DEF Settles, Leads
  <2>4. Sit(y, z) = Sit(r, c)
    BY <2>3, RunsNowhere
  <2>5. y = r /\ z = c
    BY <2>4, ExecIs
  <2> QED BY <2>3, <2>5
<1>2. ASSUME Fits(r, c, k) PROVE Settles(<<>>, Sit(r, c), k)
  BY <1>2, NoneLeads DEF Settles
<1> QED BY <1>1, <1>2

\* An effect is done.
LEMMA SettlesOn ==
  ASSUME NEW plan, NEW s, NEW k, Settles(plan, s, k), plan # <<>>, plan # Remove,
         Head(plan) # Measure
  PROVE  Settles(Tail(plan), Exec(Head(plan), s), k)
<1>1. CASE Leads(plan, s, k)
  <2> DEFINE S == Effects(Nullable)
  <2>1. PICK r \in Rows, c \in Nullable : Runs(plan, s, Sit(r, c)) /\ Fits(r, c, k)
    BY <1>1 DEF Leads
  <2>2. plan \in Seq(S)
    BY <1>1 DEF Leads
  <2> HIDE DEF S
  <2>3. Runs(Tail(plan), Exec(Head(plan), s), Sit(r, c))
    BY <2>1, <2>2, RunsOn
  <2>4. Tail(plan) \in Seq(S)
    BY <2>2, TailsAre
  <2>5. Leads(Tail(plan), Exec(Head(plan), s), k)
    BY <2>1, <2>3, <2>4 DEF Leads, S
  <2> QED BY <2>5 DEF Settles
<1>2. ASSUME NEW q \in Quotas, NEW e \in Lasts, plan = Metered(q, e) PROVE FALSE
  <2>1. Head(Metered(q, e)) = Measure
    BY DEF Metered
  <2> QED BY <1>2, <2>1
<1>3. ASSUME NEW q \in Quotas, NEW e \in Lasts, plan = MeteredNew(q, e),
             \A u \in Nat : Leads(Seeded(q + u, e), Exec(Unseen, s), k)
      PROVE  Settles(Tail(plan), Exec(Head(plan), s), k)
  <2>1. Head(MeteredNew(q, e)) = Unseen /\ Tail(MeteredNew(q, e)) = Metered(q, e)
    BY DEF MeteredNew, Metered
  <2>2. Head(plan) = Unseen /\ Tail(plan) = Metered(q, e)
    BY <1>3, <2>1
  <2> QED BY <1>3, <2>2 DEF Settles
<1> QED BY <1>1, <1>2, <1>3 DEF Settles

\* The usage is known.
LEMMA SettlesMeasured ==
  ASSUME NEW plan, NEW s, NEW k, Settles(plan, s, k), plan # <<>>, Head(plan) = Measure, NEW u \in Nat
  PROVE  Settles(Raised(Tail(plan), u), s, k)
<1>1. ~Leads(plan, s, k)
  <2> DEFINE S == Effects(Nullable)
  <2>1. \A e \in S : e # Measure
    BY EffectKinds
  <2> HIDE DEF S
  <2>2. plan \notin Seq(S)
    BY <2>1, TailsAre
  <2> QED BY <2>2 DEF Leads, S
<1>2. plan # Remove
  BY RemoveIs
<1>3. ASSUME NEW q \in Quotas, NEW e \in Lasts, plan = MeteredNew(q, e) PROVE FALSE
  <2>1. Head(MeteredNew(q, e)) = Unseen
    BY DEF MeteredNew
  <2> QED BY <1>3, <2>1, RemoveIs
<1>4. ASSUME NEW q \in Quotas, NEW e \in Lasts, plan = Metered(q, e),
             \A v \in Nat : Leads(Seeded(q + v, e), s, k)
      PROVE  Settles(Raised(Tail(plan), u), s, k)
  <2>1. Tail(Metered(q, e)) = Seeded(q, e)
    BY DEF Metered, Seeded
  <2>2. q \in Nat
    BY ConstantsAre
  <2>3. Raised(Tail(plan), u) = Seeded(q + u, e)
    BY <1>4, <2>1, <2>2, RaisedIs
  <2>4. Leads(Seeded(q + u, e), s, k)
    BY <1>4
  <2> QED BY <2>3, <2>4 DEF Settles
<1> QED BY <1>1, <1>2, <1>3, <1>4 DEF Settles

\* A quota's first allowance, or its next by hand.
LEMMA MeteredSettles ==
  ASSUME NEW m \in Rows, NEW c, NEW k, Fits(m, c, k), m.known, NEW q \in Quotas, NEW e \in Lasts,
         e = [disabled |-> FALSE] \/ ~m.disabled
  PROVE  Settles(Metered(q, e), Sit(m, c), k)
<1>1. ASSUME NEW u \in Nat PROVE Leads(Seeded(q + u, e), Sit(m, c), k)
  <2>1. q + u \in Nat
    BY ConstantsAre
  <2> QED BY <2>1, SeededLeads
<1> QED BY <1>1 DEF Settles

\* A key that has to be adopted is adopted first.
LEMMA AdoptionSettles ==
  ASSUME NEW r \in Rows, NEW c, NEW k, Fits(r, c, k), NEW m, m = IF r.known THEN r ELSE Unseen,
         NEW plan, Settles(plan, Sit(m, c), k), plan # Remove,
         \A q \in Quotas, e \in Lasts : plan # MeteredNew(q, e)
  PROVE  Settles(When(~r.known, <<Unseen>>) \o plan, Sit(r, c), k)
<1>1. CASE r.known
  <2>1. plan \in Seq(Effects(Nullable)) \/ \E q \in Quotas, e \in Lasts : plan = Metered(q, e)
    BY DEF Settles, Leads
  <2>2. <<>> \o plan = plan
    <3>1. CASE plan \in Seq(Effects(Nullable))
      BY <3>1, NothingFirst
    <3>2. ASSUME NEW q \in Quotas, NEW e \in Lasts, plan = Metered(q, e) PROVE <<>> \o plan = plan
      <4> DEFINE d == Measure
                 a == [cap |-> q]
                 b == [limit |-> q]
      <4>1. plan = <<d, a, b, e>>
        BY <3>2 DEF Metered
      <4> HIDE DEF d, a, b
      <4>2. plan \in Seq({d, a, b, e})
        BY <4>1
      <4> QED BY <4>2, NothingFirst
    <3> QED BY <2>1, <3>1, <3>2
  <2>3. When(~r.known, <<Unseen>>) \o plan = plan
    BY <1>1, <2>2 DEF When
  <2> QED BY <1>1, <2>3
<1>2. CASE ~r.known
  <2>1. When(~r.known, <<Unseen>>) = <<Unseen>> /\ m = Unseen
    BY <1>2 DEF When
  <2>2. Exec(Unseen, Sit(r, c)) = Sit(m, c)
    BY <2>1, ExecIs
  <2>3. CASE Leads(plan, Sit(m, c), k)
    <3> DEFINE S == Effects(Nullable)
    <3>1. PICK y \in Rows, z \in Nullable : Runs(plan, Sit(m, c), Sit(y, z)) /\ Fits(y, z, k)
      BY <2>3 DEF Leads
    <3>2. plan \in Seq(S) /\ Unseen \in S
      BY <2>3, EffectsAre DEF Leads
    <3> HIDE DEF S
    <3>3. <<Unseen>> \in Seq(S) /\ <<Unseen>> \o plan \in Seq(S)
      BY <3>2, Sequences
    <3>4. Runs(<<Unseen>>, Sit(r, c), Sit(m, c))
      BY <2>2, RunsOne
    <3>5. Runs(<<Unseen>> \o plan, Sit(r, c), Sit(y, z))
      BY <3>1, <3>2, <3>3, <3>4, RunsThen
    <3>6. Leads(<<Unseen>> \o plan, Sit(r, c), k)
      BY <3>1, <3>3, <3>5 DEF Leads, S
    <3> QED BY <2>1, <3>6 DEF Settles
  <2>4. ASSUME NEW q \in Quotas, NEW e \in Lasts, plan = Metered(q, e),
               \A u \in Nat : Leads(Seeded(q + u, e), Sit(m, c), k)
        PROVE  Settles(<<Unseen>> \o plan, Sit(r, c), k)
    <3> DEFINE d == Measure
               a == [cap |-> q]
               b == [limit |-> q]
    <3>1. <<Unseen>> \o <<d, a, b, e>> = <<Unseen, d, a, b, e>>
      <4> HIDE DEF d, a, b
      <4> QED BY Joins
    <3>2. <<Unseen>> \o plan = MeteredNew(q, e)
      BY <2>4, <3>1 DEF Metered, MeteredNew
    <3> QED BY <2>2, <2>4, <3>2 DEF Settles
  <2> QED BY <2>1, <2>3, <2>4 DEF Settles
<1>3. r.known \in BOOLEAN
  BY DEF Rows
<1> QED BY <1>1, <1>2, <1>3

LEMMA LeadsAre ==
  ASSUME NEW plan, NEW s, NEW k, Leads(plan, s, k)
  PROVE  plan # Remove /\ \A q \in Quotas, e \in Lasts : plan # MeteredNew(q, e)
<1> DEFINE S == Effects(Nullable)
<1>1. plan \in Seq(S)
  BY DEF Leads
<1>2. \A e \in S : e # Measure /\ e # Remove[1]
  BY EffectKinds
<1> HIDE DEF S
<1>3. plan # Remove
  <2>1. Head(Remove) = Remove[1]
    BY DEF Remove
  <2> QED BY <1>1, <1>2, <2>1, RemoveIs, TailsAre
<1>4. ASSUME NEW q \in Quotas, NEW e \in Lasts, plan = MeteredNew(q, e) PROVE FALSE
  <2>1. plan # <<>> /\ Tail(plan) # <<>> /\ Head(Tail(plan)) = Measure
    BY <1>4 DEF MeteredNew
  <2>2. Tail(plan) \in Seq(S)
    BY <1>1, <2>1, TailsAre
  <2> QED BY <1>2, <2>1, <2>2, TailsAre
<1> QED BY <1>3, <1>4

\* The row a route decides from fits as well as the row there is.
LEMMA AdoptedFits ==
  ASSUME NEW r \in Rows, NEW c, NEW k, Fits(r, c, k)
  PROVE  LET m == IF r.known THEN r ELSE Unseen
         IN  m \in Rows /\ m.known /\ Fits(m, c, k)
<1>1. CASE r.known
  BY <1>1
<1>2. CASE ~r.known
  <2>1. r = [Unseen EXCEPT !.known = FALSE]
    BY <1>2 DEF Fits
  <2>2. r.disabled = FALSE /\ r.limit = None
    BY <2>1, UnseenIs DEF Unseen
  <2>3. c = None /\ c \in Nullable
    BY <2>2 DEF Fits
  <2>4. ~IsPending(Unseen)
    BY UnseenIs DEF IsPending
  <2>5. Fits(Unseen, c, k)
    BY <2>3, <2>4, UnseenIs DEF Fits
  <2> QED BY <1>2, <2>5, UnseenIs
<1> QED BY <1>1, <1>2

LEMMA AdoptedLeads ==
  ASSUME NEW r \in Rows, NEW c, NEW k, Fits(r, c, k), NEW m, m = IF r.known THEN r ELSE Unseen,
         NEW plan, Leads(plan, Sit(m, c), k)
  PROVE  Settles(When(~r.known, <<Unseen>>) \o plan, Sit(r, c), k)
<1>1. Settles(plan, Sit(m, c), k)
  BY DEF Settles
<1> QED BY <1>1, LeadsAre, AdoptionSettles

LEMMA AdoptedMetered ==
  ASSUME NEW r \in Rows, NEW c, NEW k, Fits(r, c, k), NEW m, m = IF r.known THEN r ELSE Unseen,
         NEW q \in Quotas, NEW e \in Lasts, e = [disabled |-> FALSE] \/ ~m.disabled
  PROVE  Settles(When(~r.known, <<Unseen>>) \o Metered(q, e), Sit(r, c), k)
<1> DEFINE plan == Metered(q, e)
<1>1. m \in Rows /\ m.known /\ Fits(m, c, k)
  BY AdoptedFits
<1>2. Settles(plan, Sit(m, c), k)
  BY <1>1, MeteredSettles
<1>3. Head(plan) = Measure
  BY DEF Metered
<1>4. plan # Remove
  <2>1. Head(Remove) # Measure
    BY RemoveIs
  <2> QED BY <1>3, <2>1
<1>5. \A p \in Quotas, l \in Lasts : plan # MeteredNew(p, l)
  <2>1. \A p \in Quotas, l \in Lasts : Head(MeteredNew(p, l)) = Unseen
    BY DEF MeteredNew
  <2> QED BY <1>3, <2>1, RemoveIs
<1> HIDE DEF plan
<1>6. Settles(When(~r.known, <<Unseen>>) \o plan, Sit(r, c), k)
  BY <1>2, <1>4, <1>5, AdoptionSettles
<1> QED BY <1>6 DEF plan

-----------------------------------------------------------------------------
(* Order: at most one writer is half-way, and it leaves the key as it should be *)

\* What is known now, and where the key stands, as the panel sees it: it takes a key
\* whose limit it never read for one without.
Known == [now |-> now, asked |-> hist.asked, waived |-> hist.waived]
Believed == IF hist.inherited THEN None ELSE out.cap
Stands == Sit(row, Believed)

OneAtATime == \A v, w \in Writers : touched[v] /\ touched[w] => v = w

\* Whoever is half-way has something left, and it settles the key.
Begun == \A w \in Writers : touched[w] => todo[w] # <<>> /\ Settles(todo[w], Stands, Known)

\* If nobody is half-way the key is as it should be, whatever is planned settles it and
\* the pass works from the row there is.
Resting ==
  (\A w \in Writers : ~touched[w]) =>
     /\ Fits(row, Believed, Known)
     /\ \A w \in Writers : Settles(todo[w], Stands, Known)
     /\ pass.read # None => pass.read = row

Orderly == out.live /\ ~hist.disturbed => OneAtATime /\ Begun /\ Resting

LEMMA OrderTypes ==
  ASSUME KeyIInv
  PROVE  /\ todo \in [Writers -> Seq(Effects(Nullable) \cup {Measure, Remove[1], Remove[2]})]
         /\ touched \in [Writers -> BOOLEAN] /\ row \in Rows
         /\ out.cap \in Nullable /\ Believed \in Nullable /\ hist.inherited \in BOOLEAN
         /\ hist \in Hists /\ hist.disturbed \in BOOLEAN /\ now \in Nat /\ Known.now = now
         /\ out.used \in Nat /\ Pass \in Writers /\ Routes \subseteq Writers
<1>1. TypeOK
  BY DEF KeyIInv
<1>2. hist \in Hists /\ hist.disturbed \in BOOLEAN /\ hist.inherited \in BOOLEAN
  BY <1>1, TypesAre DEF Hists
<1>3. Believed \in Nullable
  BY <1>1, TypesAre, ConstantsAre DEF Believed
<1> QED BY <1>1, <1>2, <1>3, TypesAre, ConstantsAre DEF TypeOK, Known

\* A request begins.
LEMMA BeginOrders ==
  ASSUME KeyIInv, Orderly, NEW r \in Routes, NEW plan, Begin(r, plan), NEW F, Notes(F),
         "inherited" \notin F,
         Fits(row, Believed, Known') => Settles(plan, Stands, Known')
  PROVE  Orderly'
<1> SUFFICES ASSUME out'.live, ~hist'.disturbed PROVE (OneAtATime /\ Begun /\ Resting)'
  BY DEF Orderly
<1>1. row' = row /\ out' = out /\ now' = now /\ pass' = pass /\ todo[r] = <<>>
      /\ todo' = [todo EXCEPT ![r] = plan] /\ touched' = [touched EXCEPT ![r] = FALSE]
  BY DEF Begin
<1>2. r \in Writers
  BY OrderTypes
<1>3. todo'[r] = plan /\ touched'[r] = FALSE
      /\ \A w \in Writers : w # r => todo'[w] = todo[w] /\ touched'[w] = touched[w]
  BY <1>1, <1>2, OrderTypes
<1>4. ~hist.disturbed /\ Later(Known, Known') /\ Known.now \in Nat /\ Known'.now \in Nat
  <2>1. ~hist.disturbed /\ (hist.asked => hist'.asked) /\ (hist.waived => hist'.waived)
    BY OrderTypes, NotesIs
  <2> QED BY <1>1, <2>1, OrderTypes DEF Later, Known
<1>5. OneAtATime /\ Begun /\ Resting
  BY <1>1, <1>4 DEF Orderly
<1>6. Believed' = Believed /\ Stands' = Stands
  BY <1>1, OrderTypes, NotesIs DEF Stands, Believed
<1>7. ~touched[r]
  BY <1>1, <1>2, <1>5 DEF Begun
<1>8. OneAtATime'
  BY <1>3, <1>5 DEF OneAtATime
<1>9. Begun'
  <2> SUFFICES ASSUME NEW w \in Writers, touched'[w]
               PROVE  todo'[w] # <<>> /\ Settles(todo'[w], Stands', Known')
    BY DEF Begun
  <2>1. todo'[w] = todo[w] /\ touched[w]
    BY <1>3
  <2>2. todo[w] # <<>> /\ Settles(todo[w], Stands, Known)
    BY <1>5, <2>1 DEF Begun
  <2> QED BY <1>4, <1>6, <2>1, <2>2, SettlesLater
<1>10. Resting'
  <2> SUFFICES ASSUME \A w \in Writers : ~touched'[w]
               PROVE  /\ Fits(row', Believed', Known')
                      /\ \A w \in Writers : Settles(todo'[w], Stands', Known')
                      /\ pass'.read # None => pass'.read = row'
    BY DEF Resting
  <2>1. \A w \in Writers : ~touched[w]
    BY <1>3, <1>7
  <2>2. /\ Fits(row, Believed, Known) /\ (pass.read # None => pass.read = row)
        /\ \A w \in Writers : Settles(todo[w], Stands, Known)
    BY <1>5, <2>1 DEF Resting
  <2>3. Fits(row, Believed, Known')
    BY <1>4, <2>2, FitsLater
  <2>4. ASSUME NEW w \in Writers PROVE Settles(todo'[w], Stands', Known')
    <3>1. CASE w = r
      BY <1>3, <1>6, <2>3, <3>1
    <3>2. CASE w # r
      BY <1>3, <1>4, <1>6, <2>2, <3>2, SettlesLater
    <3> QED BY <3>1, <3>2
  <2> QED BY <1>1, <1>6, <2>2, <2>3, <2>4
<1> QED BY <1>8, <1>9, <1>10

\* The same with an adoption first.
LEMMA AdoptsOrders ==
  ASSUME KeyIInv, Orderly, NEW r \in Routes, NEW F, Notes(F), "inherited" \notin F,
         NEW plan, Begin(r, Adoption \o plan),
         Fits(Adopted, Believed, Known') =>
           \/ Leads(plan, Sit(Adopted, Believed), Known')
           \/ \E q \in Quotas, e \in Lasts :
                plan = Metered(q, e) /\ (e = [disabled |-> FALSE] \/ ~Adopted.disabled)
  PROVE  Orderly'
<1>1. ASSUME Fits(row, Believed, Known') PROVE Settles(Adoption \o plan, Stands, Known')
  <2>1. row \in Rows /\ Adopted = (IF row.known THEN row ELSE Unseen)
        /\ Adoption = When(~row.known, <<Unseen>>) /\ Stands = Sit(row, Believed)
    BY OrderTypes DEF Adopted, Adoption, Stands
  <2>2. Fits(Adopted, Believed, Known')
    BY <1>1, <2>1, AdoptedFits
  <2>3. CASE Leads(plan, Sit(Adopted, Believed), Known')
    BY <1>1, <2>1, <2>3, AdoptedLeads
  <2>4. ASSUME NEW q \in Quotas, NEW e \in Lasts, plan = Metered(q, e),
               e = [disabled |-> FALSE] \/ ~Adopted.disabled
        PROVE  Settles(Adoption \o plan, Stands, Known')
    BY <1>1, <2>1, <2>4, AdoptedMetered
  <2> QED BY <2>2, <2>3, <2>4
<1> QED BY <1>1, BeginOrders

LEMMA RouteOrders ==
  ASSUME KeyIInv, Orderly, NEW r \in Routes, Route(r)
  PROVE  Orderly'
<1> DEFINE a == Adopted
           k == Known'
<1>1. /\ a \in Rows /\ now \in Nat /\ row \in Rows /\ hist \in Hists
      /\ k.now = now' /\ k.asked = hist'.asked /\ k.waived = hist'.waived
  BY AdoptedIs, OrderTypes DEF Known
<1>2. a.known
  BY UnseenIs DEF Adopted
<1>3. CASE RenewKey(r)
  <2>1. PICK p \in Packages :
          /\ Begin(r, Adoption \o Renew(a, now, p.gb, p.days))
          /\ Notes({"topped"} \cup (IF p.gb = None THEN {"waived"} ELSE {}))
    BY <1>3 DEF RenewKey
  <2>2. p.gb \in Nullable /\ p.days \in Nullable
    BY ConstantsAssumption DEF Nullable
  <2>3. p.gb = None => k.waived
    BY <1>1, <2>1, NotesIs
  <2> HIDE DEF a, k
  <2>4. Fits(a, Believed, k) => Leads(Renew(a, now, p.gb, p.days), Sit(a, Believed), k)
    BY <1>1, <1>2, <2>2, <2>3, RenewLeads
  <2> QED BY <2>1, <2>4, AdoptsOrders DEF a, k
<1>4. CASE ExtendKey(r)
  <2>1. PICK d \in Days \cup {-x : x \in Days} : Begin(r, Adoption \o Extend(a, now, d))
    BY <1>4 DEF ExtendKey
  <2>2. d \in Int /\ Notes({})
    BY <1>4, ConstantsAssumption DEF ExtendKey
  <2>3. k.now = now
    BY <1>1, <2>1 DEF Begin
  <2> HIDE DEF a, k
  <2>4. Fits(a, Believed, k) => Leads(Extend(a, now, d), Sit(a, Believed), k)
    BY <1>1, <1>2, <2>2, <2>3, ExtendLeads
  <2> QED BY <2>1, <2>2, <2>4, AdoptsOrders DEF a, k
<1>5. CASE LimitKey(r)
  <2>1. PICK v \in Sizes :
          /\ Begin(r, Adoption \o SetLimit(a, v))
          /\ Notes({"topped"} \cup (IF v = None THEN {"waived"} ELSE {}))
    BY <1>5 DEF LimitKey
  <2>2. v \in Nullable
    BY ConstantsAssumption DEF Nullable
  <2>3. v = None => k.waived
    BY <1>1, <2>1, NotesIs
  <2> HIDE DEF a, k
  <2>4. Fits(a, Believed, k) => Leads(SetLimit(a, v), Sit(a, Believed), k)
    BY <1>1, <1>2, <2>2, <2>3, SetLimitLeads
  <2> QED BY <2>1, <2>4, AdoptsOrders DEF a, k
<1>6. CASE QuotaKey(r)
  <2> DEFINE F == IF row.disabled THEN {"waived"} ELSE {}
  <2>1. Notes(F) /\ "inherited" \notin F /\ (a.disabled => k.waived)
    <3>1. Notes(F) /\ "inherited" \notin F
      BY <1>6 DEF QuotaKey
    <3>2. row.disabled => k.waived
      BY <1>1, <3>1, NotesIs
    <3>3. a.disabled => row.disabled
      BY UnseenIs DEF Adopted
    <3> QED BY <3>1, <3>2, <3>3
  <2> HIDE DEF F
  <2>2. ASSUME NEW q \in Quotas, Begin(r, Adoption \o SetQuota(a, now, q)) PROVE Orderly'
    <3> HIDE DEF a, k
    <3>1. PICK e \in Lasts, v \in Nullable :
            /\ e = [monthly |-> q, reset |-> v]
            /\ SetQuota(a, now, q) = IF a.limit = None /\ ~a.disabled THEN Metered(q, e) ELSE <<e>>
      BY <1>1, SetQuotaIs
    <3>2. CASE a.limit = None /\ ~a.disabled
      <4>1. SetQuota(a, now, q) = Metered(q, e) /\ ~a.disabled
        BY <3>1, <3>2
      <4> QED BY <2>1, <2>2, <4>1, AdoptsOrders DEF a
    <3>3. CASE ~(a.limit = None /\ ~a.disabled)
      <4>1. SetQuota(a, now, q) = <<[monthly |-> q, reset |-> v]>>
        BY <3>1, <3>3
      <4>2. a.limit # None \/ k.waived
        BY <2>1, <3>3
      <4>3. Fits(a, Believed, k) =>
              Leads(<<[monthly |-> q, reset |-> v]>>, Sit(a, Believed), k)
        BY <1>1, <1>2, <4>2, QuotaLeads
      <4>4. Fits(a, Believed, k) => Leads(SetQuota(a, now, q), Sit(a, Believed), k)
        BY <4>1, <4>3
      <4> QED BY <2>1, <2>2, <4>4, AdoptsOrders DEF a, k
    <3> QED BY <3>2, <3>3
  <2>3. ASSUME Begin(r, Adoption \o NoQuota) PROVE Orderly'
    <3> HIDE DEF a, k
    <3>1. None \in Nullable
      BY ConstantsAre
    <3>2. Fits(a, Believed, k) =>
            Leads(<<[monthly |-> None, reset |-> None]>>, Sit(a, Believed), k)
      BY <1>1, <1>2, <3>1, QuotaLeads
    <3>3. Fits(a, Believed, k) => Leads(NoQuota, Sit(a, Believed), k)
      BY <3>2 DEF NoQuota
    <3> QED BY <2>1, <2>3, <3>3, AdoptsOrders DEF a, k
  <2> QED BY <1>6, <2>2, <2>3 DEF QuotaKey
<1>7. CASE ResetKey(r)
  <2> DEFINE plan == When(a.monthly # None, ResetUsage(a))
  <2>1. Begin(r, Adoption \o plan) /\ Notes({})
    BY <1>7 DEF ResetKey
  <2>2. Fits(a, Believed, k) =>
          \/ Leads(plan, Sit(a, Believed), k)
          \/ \E q \in Quotas, e \in Lasts :
               plan = Metered(q, e) /\ (e = [disabled |-> FALSE] \/ ~a.disabled)
    <3>1. CASE a.monthly = None
      <4>1. plan = <<>>
        BY <3>1 DEF When
      <4> HIDE DEF a, k, plan
      <4> QED BY <4>1, NoneLeads
    <3>2. CASE a.monthly # None
      <4> DEFINE e == [disabled |-> FALSE]
      <4>1. a.monthly \in Quotas /\ e \in Lasts
        BY <1>1, <3>2 DEF Rows, Lasts
      <4>2. plan = Metered(a.monthly, e)
        BY <3>2 DEF ResetUsage, Metered, When
      <4> HIDE DEF a, k, plan
      <4> QED BY <4>1, <4>2
    <3> QED BY <3>1, <3>2
  <2> HIDE DEF plan
  <2> QED BY <2>1, <2>2, AdoptsOrders
<1>8. CASE DisableKey(r)
  <2>1. Begin(r, Adoption \o SwitchOff) /\ Notes({"asked"})
    BY <1>8 DEF DisableKey
  <2>2. k.asked
    BY <1>1, <2>1, NotesIs
  <2> HIDE DEF a, k
  <2>3. Fits(a, Believed, k) => Leads(SwitchOff, Sit(a, Believed), k)
    BY <1>1, <1>2, <2>2, SwitchOffLeads
  <2> QED BY <2>1, <2>3, AdoptsOrders DEF a, k
<1>9. CASE EnableKey(r)
  <2>1. Begin(r, SwitchOn(Adopted)) /\ Notes({})
    BY <1>9 DEF EnableKey
  <2> HIDE DEF k
  <2>2. Fits(row, Believed, k) => Leads(SwitchOn(IF row.known THEN row ELSE Unseen), Sit(row, Believed), k)
    BY <1>1, SwitchOnLeads
  <2>3. Fits(row, Believed, k) => Settles(SwitchOn(Adopted), Stands, k)
    BY <2>2 DEF Adopted, Stands, Settles
  <2> QED BY <2>1, <2>3, BeginOrders DEF k
<1>10. CASE DeleteKey(r)
  <2>1. Begin(r, Remove) /\ Notes({})
    BY <1>10 DEF DeleteKey
  <2>2. Settles(Remove, Stands, Known')
    BY DEF Settles
  <2> QED BY <2>1, <2>2, BeginOrders
<1> QED BY <1>3, <1>4, <1>5, <1>6, <1>7, <1>8, <1>9, <1>10 DEF Route

LEMMA MoreLeft ==
  ASSUME NEW S, NEW s \in Seq(S), s # <<>>
  PROVE  Len(s) > 1 <=> Tail(s) # <<>>
<1> DEFINE t == Tail(s)
<1>1. t \in Seq(S) /\ Len(t) = Len(s) - 1 /\ Len(s) \in Nat /\ Len(s) # 0
  OBVIOUS
<1> HIDE DEF t
<1>2. t = <<>> <=> Len(t) = 0
  BY <1>1, EmptySeq
<1>3. Len(s) > 1 <=> t # <<>>
  BY <1>1, <1>2
<1> QED BY <1>3 DEF t

\* A writer has done the next thing in its plan, and nobody is in its way.
LEMMA TakesOrders ==
  ASSUME KeyIInv, Orderly, NEW w \in Writers, todo[w] # <<>>, Head(todo[w]) # Measure, Takes(w),
         hist'.disturbed = (hist.disturbed \/ Overlaps(w)), hist'.asked = hist.asked,
         hist'.waived = hist.waived, now' = now, pass' = pass,
         out'.live => out.live /\ todo[w] # Remove /\ Stands' = Exec(Head(todo[w]), Stands),
         row' \in Rows, Believed' \in Nullable
  PROVE  Orderly'
<1> SUFFICES ASSUME out'.live, ~hist'.disturbed PROVE (OneAtATime /\ Begun /\ Resting)'
  BY DEF Orderly
<1>1. ~hist.disturbed /\ ~Overlaps(w) /\ hist'.asked = hist.asked /\ hist'.waived = hist.waived
  BY OrderTypes
<1>2. Known' = Known
  BY <1>1 DEF Known
<1>3. OneAtATime /\ Begun /\ Resting
  BY <1>1 DEF Orderly
<1>4. \A v \in Writers : v # w => todo[v] = <<>> /\ ~(v = Pass /\ pass.read # None)
  BY <1>1 DEF Overlaps, Busy
<1>5. \A v \in Writers : v # w => ~touched[v]
  BY <1>3, <1>4 DEF Begun
<1>6. Settles(todo[w], Stands, Known)
  <2>1. CASE touched[w]
    BY <1>3, <2>1 DEF Begun
  <2>2. CASE ~touched[w]
    <3>1. \A v \in Writers : ~touched[v]
      BY <1>5, <2>2
    <3> QED BY <1>3, <3>1 DEF Resting
  <2> QED BY <2>1, <2>2
<1>7. Settles(Tail(todo[w]), Stands', Known')
  BY <1>2, <1>6, SettlesOn
<1>8. /\ todo'[w] = Tail(todo[w]) /\ touched'[w] = (Len(todo[w]) > 1)
      /\ \A v \in Writers : v # w => todo'[v] = todo[v] /\ touched'[v] = touched[v]
  BY OrderTypes DEF Takes
<1>9. Len(todo[w]) > 1 <=> Tail(todo[w]) # <<>>
  <2>1. todo[w] \in Seq(Effects(Nullable) \cup {Measure, Remove[1], Remove[2]})
    BY OrderTypes
  <2> QED BY <2>1, MoreLeft
<1>10. OneAtATime'
  BY <1>5, <1>8 DEF OneAtATime
<1>11. Begun'
  BY <1>5, <1>7, <1>8, <1>9 DEF Begun
<1>12. Resting'
  <2> SUFFICES ASSUME \A v \in Writers : ~touched'[v]
               PROVE  /\ Fits(row', Believed', Known')
                      /\ \A v \in Writers : Settles(todo'[v], Stands', Known')
                      /\ pass'.read # None => pass'.read = row'
    BY DEF Resting
  <2>1. \A v \in Writers : todo'[v] = <<>>
    BY <1>4, <1>8, <1>9
  <2>2. Settles(<<>>, Stands', Known')
    BY <1>7, <1>8, <2>1
  <2>3. Stands' = Sit(row', Believed')
    BY DEF Stands
  <2>4. Fits(row', Believed', Known')
    BY <2>2, <2>3, Settled
  <2>5. pass'.read = None
    <3>1. pass.read # None => w = Pass
      BY <1>4, OrderTypes
    <3>2. pass.read # None => todo[Pass] = <<>>
      BY DEF KeyIInv, PassKnows
    <3> QED BY <3>1, <3>2
  <2> QED BY <2>1, <2>2, <2>4, <2>5
<1> QED BY <1>10, <1>11, <1>12

LEMMA CallsOrders ==
  ASSUME KeyIInv, Orderly, NEW w \in Writers, Calls(w)
  PROVE  Orderly'
<1>1. /\ todo[w] # <<>> /\ Takes(w)
      /\ hist'.disturbed = (hist.disturbed \/ Overlaps(w)) /\ hist'.asked = hist.asked
      /\ hist'.waived = hist.waived
      /\ now' = now /\ pass' = pass /\ row' = row
  <2>1. /\ todo[w] # <<>> /\ Takes(w) /\ now' = now /\ pass' = pass /\ row' = row
    BY DEF Calls
  <2>2. hist \in Hists
    BY OrderTypes
  <2> QED BY <2>1, <2>2, CallNotes
<1>2. row \in Rows /\ Believed \in Nullable /\ out \in [live : BOOLEAN, cap : Nullable, used : 0..MaxUsed]
  BY OrderTypes, TypesAre DEF KeyIInv
<1>3. CASE \E c \in Allowed : Head(todo[w]) = [cap |-> c] /\ out' = [out EXCEPT !.cap = c]
  <2>1. PICK c \in Allowed : Head(todo[w]) = [cap |-> c] /\ out' = [out EXCEPT !.cap = c]
    BY <1>3
  <2>2. c \in Nullable
    BY DEF Allowed, Ceilings
  <2>3. out'.live = out.live /\ Believed' = c
    <3>1. "cap" \in DOMAIN Head(todo[w])
      BY <2>1
    <3>2. ~hist'.inherited
      BY <3>1, OrderTypes, CallNotes
    <3> QED BY <1>2, <2>1, <3>2 DEF Believed
  <2>4. Head(todo[w]) # Measure
    <3>1. "cap" \in DOMAIN Head(todo[w])
      BY <2>1
    <3> QED BY <3>1, RemoveIs
  <2>5. todo[w] # Remove
    <3>1. "cap" \in DOMAIN Head(todo[w])
      BY <2>1
    <3> QED BY <3>1, RemoveIs
  <2>6. Stands' = Exec(Head(todo[w]), Stands)
    <3>1. Exec([cap |-> c], Sit(row, Believed)) = Sit(row, c)
      BY <1>2, ExecIs
    <3> QED BY <1>1, <2>1, <2>3, <3>1 DEF Stands
  <2> QED BY <1>1, <1>2, <2>2, <2>3, <2>4, <2>5, <2>6, TakesOrders
<1>4. CASE todo[w] = Remove /\ out' = [out EXCEPT !.live = FALSE]
  <2>1. ~out'.live
    BY <1>2, <1>4
  <2> QED BY <2>1 DEF Orderly
<1> QED BY <1>3, <1>4, CallsIs

LEMMA WritesOrders ==
  ASSUME KeyIInv, Orderly, NEW w \in Writers, Writes(w)
  PROVE  Orderly'
<1> SUFFICES ASSUME out.live PROVE Orderly'
  BY DEF Orderly, Writes
<1> DEFINE F == IF Overlaps(w) THEN {"disturbed"} ELSE {}
<1>1. /\ todo[w] # <<>> /\ Takes(w) /\ Notes(F)
      /\ now' = now /\ pass' = pass /\ out' = out
      /\ DOMAIN Head(todo[w]) \subseteq DOMAIN row /\ row' = Written(Head(todo[w]))
  BY DEF Writes
<1>2. row \in Rows /\ Believed \in Nullable /\ row' \in Rows
  BY OrderTypes, WritesIs
<1>3. "cap" \notin DOMAIN Head(todo[w]) /\ "live" \notin DOMAIN Head(todo[w])
      /\ "measure" \notin DOMAIN Head(todo[w])
  <2>1. DOMAIN row = Columns
    BY <1>2 DEF Rows, Columns
  <2> QED BY <1>1, <2>1 DEF Columns
<1>4. Head(todo[w]) # Measure /\ todo[w] # Remove
  BY <1>3, RemoveIs
<1>a. /\ hist'.disturbed = (hist.disturbed \/ Overlaps(w)) /\ hist'.asked = hist.asked
      /\ hist'.waived = hist.waived /\ hist'.inherited = hist.inherited
  <2>1. "asked" \notin F /\ "waived" \notin F /\ "inherited" \notin F
        /\ ("disturbed" \in F <=> Overlaps(w))
    OBVIOUS
  <2>2. hist \in Hists /\ hist.asked \in BOOLEAN /\ hist.waived \in BOOLEAN
    BY OrderTypes DEF Hists
  <2>3. Overlaps(w) \in BOOLEAN
    BY DEF Overlaps
  <2> HIDE DEF F
  <2>4. /\ hist'.disturbed = (hist.disturbed \/ "disturbed" \in F)
        /\ hist'.asked = (hist.asked \/ "asked" \in F)
        /\ hist'.waived = (hist.waived \/ "waived" \in F)
        /\ hist'.inherited = hist.inherited
    BY <1>1, <2>1, <2>2, NotesIs
  <2> QED BY <2>1, <2>2, <2>3, <2>4
<1>b. Believed' = Believed
  BY <1>1, <1>a DEF Believed
<1>5. Stands' = Exec(Head(todo[w]), Stands)
  BY <1>1, <1>2, <1>3, <1>b, ExecIs DEF Stands, Exec, Written
<1> QED BY <1>1, <1>2, <1>4, <1>5, <1>a, <1>b, TakesOrders

LEMMA ReadsUsageOrders ==
  ASSUME KeyIInv, Orderly, NEW w \in Writers, ReadsUsage(w)
  PROVE  Orderly'
<1> SUFFICES ASSUME out'.live, ~hist'.disturbed PROVE (OneAtATime /\ Begun /\ Resting)'
  BY DEF Orderly
<1> DEFINE u == IF out.live THEN out.used ELSE 0
           plan == Raised(Tail(todo[w]), u)
<1>1. /\ todo[w] # <<>> /\ Head(todo[w]) = Measure /\ todo' = [todo EXCEPT ![w] = plan]
      /\ row' = row /\ out' = out /\ touched' = touched /\ pass' = pass /\ now' = now /\ hist' = hist
  BY DEF ReadsUsage
<1>2. u \in Nat
  BY OrderTypes
<1>3. OneAtATime /\ Begun /\ Resting
  BY <1>1 DEF Orderly
<1>4. plan # <<>>
  <2>1. Shaped(todo[w], Allowed, out.live)
    BY DEF KeyIInv
  <2>2. PICK q \in Quotas, e \in Lasts : Tail(todo[w]) = Seeded(q, e)
    BY <1>1, <2>1, MeasureStep
  <2>3. q \in Nat
    BY ConstantsAre
  <2> HIDE DEF u
  <2>4. plan = Seeded(q + u, e)
    BY <1>2, <2>2, <2>3, RaisedIs
  <2>5. Seeded(q + u, e) # <<>>
    BY DEF Seeded
  <2> QED BY <2>4, <2>5
<1> HIDE DEF u
<1>5. Settles(todo[w], Stands, Known) => Settles(plan, Stands, Known)
  BY <1>1, <1>2, SettlesMeasured
<1> HIDE DEF plan
<1>6. Believed' = Believed /\ Stands' = Stands /\ Known' = Known
  BY <1>1 DEF Stands, Known, Believed
<1>7. todo'[w] = plan /\ \A v \in Writers : v # w => todo'[v] = todo[v]
  BY <1>1, OrderTypes
<1>8. OneAtATime'
  BY <1>1, <1>3 DEF OneAtATime
<1>9. Begun'
  <2> SUFFICES ASSUME NEW v \in Writers, touched'[v]
               PROVE  todo'[v] # <<>> /\ Settles(todo'[v], Stands', Known')
    BY DEF Begun
  <2>1. todo[v] # <<>> /\ Settles(todo[v], Stands, Known)
    BY <1>1, <1>3 DEF Begun
  <2> QED BY <1>4, <1>5, <1>6, <1>7, <2>1
<1>10. Resting'
  BY <1>1, <1>3, <1>5, <1>6, <1>7 DEF Resting
<1> QED BY <1>8, <1>9, <1>10

\* A writer gives up: before its first effect that changes nothing.
LEMMA DropOrders ==
  ASSUME KeyIInv, Orderly, NEW w \in Writers, Drop(w), now' = now, row' = row, out' = out,
         pass' = pass \/ pass' = Idle
  PROVE  Orderly'
<1> SUFFICES ASSUME out'.live, ~hist'.disturbed PROVE (OneAtATime /\ Begun /\ Resting)'
  BY DEF Orderly
<1> DEFINE F == IF touched[w] THEN {"disturbed"} ELSE {}
<1>1. ~hist.disturbed /\ ~touched[w] /\ hist'.asked = hist.asked /\ hist'.waived = hist.waived
      /\ hist'.inherited = hist.inherited
  <2>1. hist \in Hists /\ Notes(F)
    BY OrderTypes DEF Drop
  <2>2. "asked" \notin F /\ "waived" \notin F /\ "inherited" \notin F /\ (touched[w] => "disturbed" \in F)
    OBVIOUS
  <2>3. hist.asked \in BOOLEAN /\ hist.waived \in BOOLEAN
    BY <2>1 DEF Hists
  <2> HIDE DEF F
  <2>4. /\ hist'.disturbed = (hist.disturbed \/ "disturbed" \in F)
        /\ hist'.asked = (hist.asked \/ "asked" \in F) /\ hist'.waived = (hist.waived \/ "waived" \in F)
        /\ "inherited" \notin F => hist'.inherited = hist.inherited
    BY <2>1, NotesIs
  <2> QED BY <2>2, <2>3, <2>4
<1>2. Believed' = Believed /\ Stands' = Stands /\ Known' = Known
  BY <1>1 DEF Stands, Known, Believed
<1>3. OneAtATime /\ Begun /\ Resting
  BY <1>1 DEF Orderly
<1>4. /\ todo'[w] = <<>> /\ ~touched'[w]
      /\ \A v \in Writers : v # w => todo'[v] = todo[v] /\ touched'[v] = touched[v]
  BY OrderTypes DEF Drop
<1>5. OneAtATime'
  BY <1>3, <1>4 DEF OneAtATime
<1>6. Begun'
  <2> SUFFICES ASSUME NEW v \in Writers, touched'[v]
               PROVE  todo'[v] # <<>> /\ Settles(todo'[v], Stands', Known')
    BY DEF Begun
  <2>1. v # w
    BY <1>4
  <2> QED BY <1>2, <1>3, <1>4, <2>1 DEF Begun
<1>7. Resting'
  <2> SUFFICES ASSUME \A v \in Writers : ~touched'[v]
               PROVE  /\ Fits(row', Believed', Known')
                      /\ \A v \in Writers : Settles(todo'[v], Stands', Known')
                      /\ pass'.read # None => pass'.read = row'
    BY DEF Resting
  <2>1. \A v \in Writers : ~touched[v]
    BY <1>1, <1>4
  <2>2. /\ Fits(row, Believed, Known) /\ (pass.read # None => pass.read = row)
        /\ \A v \in Writers : Settles(todo[v], Stands, Known)
    BY <1>3, <2>1 DEF Resting
  <2>3. Settles(<<>>, Stands, Known)
    BY <2>2, Settled, OrderTypes DEF Stands
  <2>4. \A v \in Writers : Settles(todo'[v], Stands', Known')
    BY <1>2, <1>4, <2>2, <2>3
  <2> QED BY <1>2, <2>2, <2>4 DEF Idle
<1> QED BY <1>5, <1>6, <1>7

\* The pass looks and remembers.
LEMMA LookOrders ==
  ASSUME KeyIInv, Orderly, UNCHANGED <<row, todo, touched, now, hist>>,
         out'.live => out.live, out'.cap = out.cap,
         pass'.read # None => pass'.read = row \/ pass'.read = pass.read
  PROVE  Orderly'
<1> SUFFICES ASSUME out'.live, ~hist'.disturbed PROVE (OneAtATime /\ Begun /\ Resting)'
  BY DEF Orderly
<1>1. OneAtATime /\ Begun /\ Resting
  BY DEF Orderly
<1>2. Believed' = Believed /\ Stands' = Stands /\ Known' = Known
  BY DEF Stands, Known, Believed
<1>3. OneAtATime' /\ Begun'
  BY <1>1, <1>2 DEF OneAtATime, Begun
<1>4. Resting'
  <2> SUFFICES ASSUME \A v \in Writers : ~touched'[v]
               PROVE  /\ Fits(row', Believed', Known')
                      /\ \A v \in Writers : Settles(todo'[v], Stands', Known')
                      /\ pass'.read # None => pass'.read = row'
    BY DEF Resting
  <2>1. /\ Fits(row, Believed, Known) /\ (pass.read # None => pass.read = row)
        /\ \A v \in Writers : Settles(todo[v], Stands, Known)
    BY <1>1 DEF Resting
  <2> QED BY <1>2, <2>1
<1> QED BY <1>3, <1>4

\* The pass knows what to do.
LEMMA PassPlansOrders ==
  ASSUME KeyIInv, Orderly, NEW plan, PassPlans(plan), todo[Pass] = <<>>, pass'.read = None,
         /\ Fits(row, Believed, Known)
         /\ pass.read # None => pass.read = row
         => Settles(plan, Stands, Known)
  PROVE  Orderly'
<1> SUFFICES ASSUME out'.live, ~hist'.disturbed PROVE (OneAtATime /\ Begun /\ Resting)'
  BY DEF Orderly
<1>1. /\ todo' = [todo EXCEPT ![Pass] = plan] /\ touched' = [touched EXCEPT ![Pass] = FALSE]
      /\ row' = row /\ out' = out /\ now' = now /\ hist' = hist
  BY DEF PassPlans
<1>2. OneAtATime /\ Begun /\ Resting
  BY <1>1 DEF Orderly
<1>3. Believed' = Believed /\ Stands' = Stands /\ Known' = Known
  BY <1>1 DEF Stands, Known, Believed
<1>4. /\ todo'[Pass] = plan /\ ~touched'[Pass] /\ Pass \in Writers
      /\ \A v \in Writers : v # Pass => todo'[v] = todo[v] /\ touched'[v] = touched[v]
  BY <1>1, OrderTypes
<1>5. ~touched[Pass]
  BY <1>2, OrderTypes DEF Begun
<1>6. OneAtATime'
  BY <1>2, <1>4 DEF OneAtATime
<1>7. Begun'
  <2> SUFFICES ASSUME NEW v \in Writers, touched'[v]
               PROVE  todo'[v] # <<>> /\ Settles(todo'[v], Stands', Known')
    BY DEF Begun
  <2>1. v # Pass
    BY <1>4
  <2> QED BY <1>2, <1>3, <1>4, <2>1 DEF Begun
<1>8. Resting'
  <2> SUFFICES ASSUME \A v \in Writers : ~touched'[v]
               PROVE  /\ Fits(row', Believed', Known')
                      /\ \A v \in Writers : Settles(todo'[v], Stands', Known')
                      /\ pass'.read # None => pass'.read = row'
    BY DEF Resting
  <2>1. \A v \in Writers : ~touched[v]
    BY <1>4, <1>5
  <2>2. /\ Fits(row, Believed, Known) /\ (pass.read # None => pass.read = row)
        /\ \A v \in Writers : Settles(todo[v], Stands, Known)
    BY <1>2, <2>1 DEF Resting
  <2>3. \A v \in Writers : Settles(todo'[v], Stands', Known')
    BY <1>3, <1>4, <2>2
  <2> QED BY <1>1, <1>3, <2>2, <2>3
<1> QED BY <1>6, <1>7, <1>8

LEMMA PassDecidesOrders ==
  ASSUME KeyIInv, Orderly, PassDecides
  PROVE  Orderly'
<1> DEFINE m == pass.read
           plan == IF pass.at = "pending" THEN Activation(m) ELSE QuotaReset(m)
<1>1. m # None /\ pass.usage # None /\ PassPlans(plan)
      /\ pass' = [pass EXCEPT !.read = None, !.at = After]
  BY DEF PassDecides
<1>2. /\ TypeOK /\ m \in Rows /\ pass.clock \in Nat /\ pass.usage \in Nat /\ todo[Pass] = <<>>
      /\ \/ pass.at = "pending" /\ IsPending(m)
         \/ pass.at = "quota" /\ QuotaDue(m)
  BY <1>1, TypesAre DEF KeyIInv, PassKnows, Nullable
<1>3. pass'.read = None
  BY <1>1, <1>2 DEF TypeOK
<1>4. ASSUME Fits(row, Believed, Known), pass.read = row PROVE Settles(plan, Stands, Known)
  <2> DEFINE k == Known
  <2>1. m = row /\ row \in Rows /\ Stands = Sit(m, Believed) /\ row.known \in BOOLEAN
    BY <1>4, OrderTypes DEF Stands, Rows
  <2>2. m.known
    <3>1. ASSUME ~row.known PROVE FALSE
      <4>1. row = [Unseen EXCEPT !.known = FALSE]
        BY <1>4, <3>1 DEF Fits
      <4>2. row.duration = None /\ row.monthly = None
        BY <4>1, UnseenIs DEF Unseen
      <4> QED BY <1>2, <2>1, <4>2 DEF IsPending, QuotaDue
    <3> QED BY <2>1, <3>1
  <2>3. CASE pass.at = "pending"
    <3>1. IsPending(m) /\ plan = Activation(m)
      BY <1>2, <2>3
    <3> HIDE DEF m, plan, k
    <3>2. Leads(Activation(m), Sit(m, Believed), k)
      BY <1>2, <1>4, <2>1, <2>2, <3>1, ActivationLeads DEF k
    <3> QED BY <2>1, <3>1, <3>2 DEF Settles, k
  <2>4. CASE pass.at # "pending"
    <3>1. QuotaDue(m) /\ plan = QuotaReset(m)
      BY <1>2, <2>4
    <3> HIDE DEF m, plan, k
    <3>2. Leads(QuotaReset(m), Sit(m, Believed), k)
      BY <1>2, <1>4, <2>1, <2>2, <3>1, QuotaResetLeads DEF k
    <3> QED BY <2>1, <3>1, <3>2 DEF Settles, k
  <2> QED BY <2>3, <2>4
<1>5. Fits(row, Believed, Known) /\ (pass.read # None => pass.read = row) => Settles(plan, Stands, Known)
  BY <1>1, <1>4
<1> HIDE DEF plan
<1> QED BY <1>1, <1>2, <1>3, <1>5, PassPlansOrders

LEMMA PassExpiresOrders ==
  ASSUME KeyIInv, Orderly, PassExpires
  PROVE  Orderly'
<1> DEFINE off == row.known /\ Expired(row)
           plan == When(off, SwitchOff)
<1>1. PassPlans(plan) /\ todo[Pass] = <<>> /\ pass'.read = None
  BY DEF PassExpires, PassIs, Idle
<1>2. ASSUME Fits(row, Believed, Known) PROVE Settles(plan, Stands, Known)
  <2>1. row \in Rows /\ Stands = Sit(row, Believed)
    BY OrderTypes DEF Stands
  <2>2. CASE ~off
    <3>1. plan = <<>>
      BY <2>2 DEF When
    <3> HIDE DEF plan
    <3> QED BY <1>2, <2>1, <3>1, NoneLeads DEF Settles
  <2>3. CASE off
    <3>1. plan = SwitchOff /\ row.known
      BY <2>3 DEF When
    <3>2. pass.clock \in 0..now /\ row.expiry # None /\ row.expiry <= pass.clock
      BY <2>3 DEF Expired, KeyIInv, TypeOK
    <3>3. row.expiry \in Nat
      BY <2>1, <3>2 DEF Rows, Nullable
    <3>4. row.expiry <= Known.now
      BY <3>2, <3>3, OrderTypes
    <3> HIDE DEF plan
    <3>5. Leads(SwitchOff, Sit(row, Believed), Known)
      BY <1>2, <2>1, <3>1, <3>2, <3>4, SwitchOffLeads
    <3> QED BY <2>1, <3>1, <3>5 DEF Settles
  <2> QED BY <2>2, <2>3
<1> HIDE DEF plan
<1> QED BY <1>1, <1>2, PassPlansOrders

LEMMA PassOrders ==
  ASSUME KeyIInv, Orderly, PassStep
  PROVE  Orderly'
<1>0. TypeOK
  BY DEF KeyIInv
<1>1. CASE PassStarts
  <2>1. UNCHANGED <<row, out, todo, touched, now, hist>> /\ pass'.read = None
    BY <1>1 DEF PassStarts, Idle
  <2> QED BY <2>1, LookOrders
<1>2. CASE PassReads
  <2>1. UNCHANGED <<row, out, todo, touched, now, hist>>
    BY <1>2 DEF PassReads
  <2>2. pass'.read = row \/ pass'.read = pass.read
    BY <1>0, <1>2 DEF PassReads, TypeOK
  <2> QED BY <2>1, <2>2, LookOrders
<1>3. CASE PassMeasures
  <2>1. UNCHANGED <<row, out, todo, touched, now, hist>>
    BY <1>3 DEF PassMeasures
  <2>2. pass'.read = pass.read
    BY <1>0, <1>3 DEF PassMeasures, TypeOK
  <2> QED BY <2>1, <2>2, LookOrders
<1> QED BY <1>1, <1>2, <1>3, PassDecidesOrders, PassExpiresOrders DEF PassStep

LEMMA TickOrders ==
  ASSUME KeyIInv, Orderly, Tick
  PROVE  Orderly'
<1> SUFFICES ASSUME out'.live, ~hist'.disturbed PROVE (OneAtATime /\ Begun /\ Resting)'
  BY DEF Orderly
<1>1. UNCHANGED <<row, out, todo, touched, pass, hist>> /\ now' = now + 1
  BY DEF Tick
<1>2. OneAtATime /\ Begun /\ Resting
  BY <1>1 DEF Orderly
<1>3. Later(Known, Known') /\ Known.now \in Nat /\ Known'.now \in Nat
      /\ Stands' = Stands /\ Believed' = Believed
  BY <1>1, OrderTypes DEF Later, Known, Stands, Believed
<1>4. \A plan : Settles(plan, Stands, Known) => Settles(plan, Stands', Known')
  BY <1>3, SettlesLater
<1>5. Fits(row, Believed, Known) => Fits(row, Believed, Known')
  BY <1>3, FitsLater
<1>6. OneAtATime'
  BY <1>1, <1>2 DEF OneAtATime
<1>7. Begun'
  BY <1>1, <1>2, <1>4 DEF Begun
<1>8. Resting'
  BY <1>1, <1>2, <1>3, <1>4, <1>5 DEF Resting
<1> QED BY <1>6, <1>7, <1>8

LEMMA NextOrders ==
  ASSUME KeyIInv, Orderly, [Next]_vars
  PROVE  Orderly'
<1>1. ASSUME NEW r \in Routes, Route(r) PROVE Orderly'
  BY <1>1, RouteOrders
<1>2. ASSUME NEW w \in Writers, Acts(w) \/ Stops(w) PROVE Orderly'
  <2>1. CASE ReadsUsage(w) \/ Calls(w) \/ Writes(w)
    BY <2>1, ReadsUsageOrders, CallsOrders, WritesOrders
  <2>2. CASE CallFails(w) \/ Stops(w)
    <3>1. Drop(w) /\ now' = now /\ row' = row /\ out' = out /\ (pass' = pass \/ pass' = Idle)
      BY <2>2 DEF CallFails, Stops
    <3> QED BY <3>1, DropOrders
  <2> QED BY <1>2, <2>1, <2>2 DEF Acts
<1>3. CASE PassStep
  BY <1>3, PassOrders
<1>4. CASE Traffic
  <2>1. UNCHANGED <<row, todo, touched, pass, now, hist>> /\ out' = [out EXCEPT !.used = @ + 1]
    BY <1>4 DEF Traffic
  <2>2. out'.live = out.live /\ out'.cap = out.cap
    BY <2>1, TypesAre DEF KeyIInv
  <2> QED BY <2>1, <2>2, LookOrders
<1>5. CASE Tick
  BY <1>5, TickOrders
<1>6. CASE UNCHANGED vars
  <2>1. UNCHANGED <<row, out, todo, touched, pass, now, hist>>
    BY <1>6 DEF vars
  <2> QED BY <2>1, LookOrders
<1> QED BY <1>1, <1>2, <1>3, <1>4, <1>5, <1>6 DEF Next

LEMMA InitOrders == Init => Orderly
<1> SUFFICES ASSUME Init PROVE OneAtATime /\ Begun /\ Resting
  BY DEF Orderly
<1>1. KeyIInv /\ row \in Rows /\ Believed \in Nullable
  BY InitHolds, OrderTypes
<1>2. Believed = row.limit /\ pass.read = None
      /\ \A w \in Writers : todo[w] = <<>> /\ touched[w] = FALSE
  <2>1. hist.inherited = (out.cap # row.limit)
    BY DEF Init, NoHistory
  <2>2. out.cap # row.limit => row.limit = None
    BY UnseenIs DEF Init, Unseen
  <2>3. pass.read = None /\ \A w \in Writers : todo[w] = <<>> /\ touched[w] = FALSE
    BY DEF Init, Idle
  <2> QED BY <2>1, <2>2, <2>3 DEF Believed
<1>3. Fits(row, Believed, Known)
  <2>1. CASE row = [Unseen EXCEPT !.known = FALSE]
    <3>1. /\ row.known = FALSE /\ row.disabled = FALSE /\ row.monthly = None /\ row.duration = None
          /\ row.limit = None
      BY <2>1, UnseenIs DEF Unseen
    <3> QED BY <1>1, <1>2, <2>1, <3>1 DEF Fits, IsPending
  <2>2. ASSUME NEW sale \in Sales, row = Made(sale) PROVE Fits(row, Believed, Known)
    <3>1. /\ row.known /\ row.disabled = FALSE /\ row.monthly = sale.monthly
          /\ row.limit = (IF sale.limit = None THEN sale.monthly ELSE sale.limit)
      BY <2>2, UnseenIs DEF Made, Unseen
    <3>2. IsPending(row) => row.expiry = None
      <4> DEFINE starts == sale.days # None /\ sale.startNow
      <4>1. /\ row.duration = sale.days /\ row.activated = (IF starts THEN now ELSE None)
            /\ row.expiry = (IF starts THEN now + sale.days ELSE None)
        BY <2>2 DEF Made, Unseen
      <4>2. now # None
        BY ConstantsAre DEF Init
      <4> QED BY <4>1, <4>2 DEF IsPending
    <3> QED BY <1>1, <1>2, <3>1, <3>2 DEF Fits
  <2> QED BY <2>1, <2>2 DEF Init
<1>4. \A w \in Writers : Settles(todo[w], Stands, Known)
  BY <1>1, <1>2, <1>3, Settled DEF Stands
<1> QED BY <1>2, <1>3, <1>4 DEF OneAtATime, Begun, Resting

-----------------------------------------------------------------------------
(* What follows from the order *)

\* As long as no two writers' effects overlap and none breaks off half-way, at most one
\* writer is half-way, what it has left settles the key, and in between the key is as it
\* should be: the limit the panel last set on Outline is the row's, 0 if it is off (an
\* adopted key's own limit, which the panel does not know, stays), a quota comes with a
\* ceiling, and only a term that is over, or an operator, has switched it off (every
\* route of keys.py and _check_once: Outline first, the database after).
THEOREM KeysStayOrderly == Spec => []Orderly
<1>1. Init => Orderly
  BY InitOrders
<1>2. KeyIInv /\ Orderly /\ [Next]_vars => Orderly'
  BY NextOrders
<1> QED BY <1>1, <1>2, KeyHolds, PTL DEF Spec

\* When everybody has finished, undisturbed, the key fits.
LEMMA QuietFits ==
  ASSUME KeyIInv, Orderly, Quiet, out.live, ~hist.disturbed
  PROVE  Fits(row, Believed, Known)
<1>1. Begun /\ Resting
  BY DEF Orderly
<1>2. \A w \in Writers : todo[w] = <<>>
  BY DEF Quiet, Busy
<1>3. \A w \in Writers : ~touched[w]
  BY <1>1, <1>2 DEF Begun
<1> QED BY <1>1, <1>3 DEF Resting

\* Outline enforces what the row says, after any sequence of operations in which no two
\* overlapped and none broke off (keys.py: Outline is told before the row is written,
\* and a limit set while a key is off is applied when it is switched on). Until the
\* panel sets one, an adopted key has the limit that Outline Manager gave it.
THEOREM RowsMatch == Spec => []RowMatchesOutline
<1>1. KeyIInv /\ Orderly => RowMatchesOutline
  <2> SUFFICES ASSUME KeyIInv, Orderly, Quiet, Here, ~hist.disturbed, ~hist.inherited
               PROVE  out.cap = IF row.disabled THEN 0 ELSE row.limit
    BY DEF RowMatchesOutline
  <2>1. Believed = out.cap /\ Fits(row, Believed, Known)
    BY QuietFits DEF Here, Believed
  <2> QED BY <2>1 DEF Fits
<1> QED BY <1>1, KeyHolds, KeysStayOrderly, PTL

\* A key with a quota that is on has a ceiling on Outline, unless an operator took it
\* away (set_key_limit, a renewal without volume) or set the quota while the key was off
\* (set_key_monthly).
THEOREM QuotasAreEnforced == Spec => []MeteredByQuota
<1>1. KeyIInv /\ Orderly => MeteredByQuota
  <2> SUFFICES ASSUME KeyIInv, Orderly, Quiet, Here, ~row.disabled, row.monthly # None,
                      ~hist.waived, ~hist.disturbed
               PROVE  out.cap # None
    BY DEF MeteredByQuota
  <2>1. Fits(row, Believed, Known) /\ ~Known.waived
    BY QuietFits DEF Here, Known
  <2>2. Believed # None
    BY <2>1 DEF Fits
  <2> QED BY <2>2 DEF Believed
<1> QED BY <1>1, KeyHolds, KeysStayOrderly, PTL

\* Every variable has its type, and a customer whom no operator cut off is cut off only
\* while the term is over, unless writers overlapped or one broke off: the pass switches
\* off expired keys (expired_active_keys), a longer term switches them on again
\* (_apply_package, extend_key).
THEOREM CutOffsAreDue == Spec => []KeyInv
<1>1. KeyIInv /\ Orderly => CutOnlyWhenExpired
  <2> SUFFICES ASSUME KeyIInv, Orderly, Quiet, Here, row.disabled, ~hist.asked, ~hist.disturbed
               PROVE  Over(row.expiry)
    BY DEF CutOnlyWhenExpired
  <2>1. Fits(row, Believed, Known) /\ ~Known.asked /\ Known.now = now
    BY QuietFits DEF Here, Known
  <2> QED BY <2>1 DEF Fits, Over
<1>2. KeyIInv /\ Orderly => KeyInv
  BY <1>1 DEF KeyIInv, KeyInv
<1> QED BY <1>2, KeyHolds, KeysStayOrderly, PTL
=============================================================================
