----------------------- MODULE TaskContinuationsProofs -----------------------
(***************************************************************************)
(* The projection of the continuation ledger agrees with itself after any  *)
(* sequence of operations and of crashes, for any number of sessions and   *)
(* tasks, and changes by what the user asked for only.                     *)
(*                                                                         *)
(* No argument follows the lines: a step takes the projection that it      *)
(* replays, p, and leaves p or the outcome of one action on p, whether the *)
(* line of that action was ended or not. So it is enough that an outcome   *)
(* agrees with itself when p does. Where aliases lead is computed along    *)
(* their chain, and told here by the least place at which it could differ. *)
(***************************************************************************)
EXTENDS TaskContinuations, TLAPS, FiniteSetTheorems, SequenceTheorems, WellFoundedInduction

-----------------------------------------------------------------------------
(* Naturals and sequences.                                                 *)

Below == {pair \in Nat \X Nat : pair[1] < pair[2]}

LEMMA BelowWellFounded == IsWellFoundedOn(Below, Nat)
<1>1. Below = OpToRel(<, Nat)
  BY DEF OpToRel, Below
<1> QED
  BY <1>1, NatLessThanWellFounded

LEMMA LeastNatural ==
    ASSUME NEW T, T \subseteq Nat, T # {}
    PROVE  \E x \in T : \A y \in T : x <= y
<1>1. PICK x \in T : \A y \in T : ~(<<y, x>> \in Below)
  BY BelowWellFounded, WFMin
<1>2. \A y \in T : ~(y < x)
  BY <1>1 DEF Below
<1>3. \A y \in T : x <= y
  BY <1>2
<1> QED
  BY <1>1, <1>3

LEMMA ToSetConcat ==
    ASSUME NEW S, NEW s \in Seq(S), NEW t \in Seq(S)
    PROVE  s \o t \in Seq(S) /\ ToSet(s \o t) = ToSet(s) \cup ToSet(t)
<1>1. s \o t \in Seq(S)
  BY ConcatProperties
<1>2. Range(s \o t) = Range(s) \cup Range(t)
  BY RangeConcatenation
<1>3. \A x : ToSet(x) = Range(x)
  BY DEF ToSet, Range
<1> QED
  BY <1>1, <1>2, <1>3

LEMMA InjectiveConcat ==
    ASSUME NEW S, NEW s \in Seq(S), NEW t \in Seq(S), IsInjective(s), IsInjective(t),
           ToSet(s) \cap ToSet(t) = {}
    PROVE  IsInjective(s \o t) /\ Len(s \o t) = Len(s) + Len(t)
<1> DEFINE u == s \o t
<1>1. Len(u) = Len(s) + Len(t) /\ Len(s) \in Nat /\ Len(t) \in Nat
      /\ DOMAIN u = 1 .. Len(s) + Len(t) /\ DOMAIN s = 1 .. Len(s) /\ DOMAIN t = 1 .. Len(t)
  BY ConcatProperties, LenProperties
<1>2. \A i \in 1 .. Len(s) : u[i] = s[i] /\ u[i] \in ToSet(s)
  BY <1>1, ConcatProperties DEF ToSet
<1>3. \A i \in (Len(s) + 1) .. (Len(s) + Len(t)) :
        /\ u[i] = t[i - Len(s)] /\ i - Len(s) \in 1 .. Len(t)
        /\ u[i] \in ToSet(t)
  BY <1>1, ConcatProperties DEF ToSet
<1> HIDE DEF u
<1>4. ASSUME NEW i \in DOMAIN u, NEW j \in DOMAIN u, u[i] = u[j] PROVE i = j
  <2>1. CASE i <= Len(s) /\ j <= Len(s)
    BY <1>1, <1>2, <1>4, <2>1 DEF IsInjective
  <2>2. CASE i > Len(s) /\ j > Len(s)
    <3>1. i - Len(s) = j - Len(s)
      BY <1>1, <1>3, <1>4, <2>2 DEF IsInjective
    <3> QED
      BY <1>1, <3>1
  <2>3. CASE ~(i <= Len(s) <=> j <= Len(s))
    BY <1>1, <1>2, <1>3, <1>4, <2>3
  <2> QED
    BY <1>1, <2>1, <2>2, <2>3
<1> QED
  BY <1>1, <1>4 DEF IsInjective, u

LEMMA RemovedFirst ==
    ASSUME NEW S, NEW s \in Seq(S), IsInjective(s), NEW e \in ToSet(s)
    PROVE  /\ RemoveFirst(s, e) \in Seq(S) /\ Len(RemoveFirst(s, e)) = Len(s) - 1
           /\ IsInjective(RemoveFirst(s, e))
           /\ ToSet(RemoveFirst(s, e)) = ToSet(s) \ {e}
<1> DEFINE places == {i \in 1 .. Len(s) : s[i] = e}
           k == SelectInSeq(s, LAMBDA v : v = e)
           r == RemoveFirst(s, e)
<1>1. Len(s) \in Nat /\ DOMAIN s = 1 .. Len(s) /\ \A i \in 1 .. Len(s) : s[i] \in S
  BY LenProperties, ElementOfSeq
<1>2. places # {} /\ places \subseteq Nat
  BY <1>1 DEF ToSet
<1>3. k = Min(places)
  BY <1>2 DEF SelectInSeq
<1>4. k \in places
  <2> HIDE DEF places
  <2>1. \E x \in places : \A y \in places : x <= y
    BY <1>2, LeastNatural
  <2> QED
    BY <1>3, <2>1 DEF Min
<1> DEFINE f == SubSeq(s, 1, k - 1)
           g == SubSeq(s, k + 1, Len(s))
<1>5. r = f \o g
  BY <1>2 DEF RemoveFirst, RemoveAt
<1> HIDE DEF k
<1>6. k \in 1 .. Len(s) /\ s[k] = e
  BY <1>4
<1>7. f \in Seq(S) /\ Len(f) = k - 1 /\ \A i \in 1 .. k - 1 : f[i] = s[i]
  BY <1>1, <1>6, SubSeqProperties
<1>8. g \in Seq(S) /\ Len(g) = Len(s) - k /\ \A i \in 1 .. Len(s) - k : g[i] = s[k + i]
  <2>1. k + 1 \in Int /\ Len(s) \in Int /\ \A i \in k + 1 .. Len(s) : s[i] \in S
    BY <1>1, <1>6
  <2>2. /\ g \in Seq(S) /\ Len(g) = IF k + 1 <= Len(s) THEN Len(s) - (k + 1) + 1 ELSE 0
        /\ \A i \in 1 .. Len(s) - (k + 1) + 1 : g[i] = s[(k + 1) + i - 1]
    BY <2>1, SubSeqProperties
  <2> HIDE DEF g
  <2>3. Len(s) - (k + 1) + 1 = Len(s) - k /\ (k + 1 > Len(s) => Len(s) - k = 0)
    <3>1. \A m, n \in Nat : m <= n => n - (m + 1) + 1 = n - m /\ (m + 1 > n => n - m = 0)
      OBVIOUS
    <3>2. Len(s) \in Nat
      BY <1>1
    <3>3. k \in Nat /\ k <= Len(s)
      BY <1>6, <3>2
    <3> QED
      BY <3>1, <3>2, <3>3
  <2>4. ASSUME NEW i \in 1 .. Len(s) - k PROVE g[i] = s[k + i]
    <3>1. (k + 1) + i - 1 = k + i
      BY <1>6
    <3> QED
      BY <2>2, <2>3, <3>1
  <2>5. k + 1 <= Len(s) \/ k + 1 > Len(s)
    BY <1>1, <1>6
  <2> QED
    BY <2>2, <2>3, <2>4, <2>5
<1> HIDE DEF f, g, r
<1>9. /\ r \in Seq(S) /\ Len(r) = Len(f) + Len(g)
      /\ \A i \in 1 .. Len(f) + Len(g) : r[i] = IF i <= Len(f) THEN f[i] ELSE g[i - Len(f)]
  BY <1>5, <1>7, <1>8, ConcatProperties
<1>10. Len(r) = Len(s) - 1 /\ \A i \in 1 .. Len(s) - 1 : r[i] = IF i < k THEN s[i] ELSE s[i + 1]
  <2>1. Len(f) + Len(g) = Len(s) - 1
    BY <1>1, <1>6, <1>7, <1>8
  <2>2. ASSUME NEW i \in 1 .. Len(s) - 1, i < k PROVE r[i] = s[i]
    <3>1. i <= Len(f) /\ i \in 1 .. k - 1 /\ i \in 1 .. Len(f) + Len(g)
      BY <1>1, <1>6, <1>7, <2>1, <2>2
    <3>2. r[i] = f[i]
      BY <1>9, <3>1
    <3> QED
      BY <1>7, <3>1, <3>2
  <2>3. ASSUME NEW i \in 1 .. Len(s) - 1, ~(i < k) PROVE r[i] = s[i + 1]
    <3>1. /\ i - Len(f) \in 1 .. Len(s) - k /\ k + (i - Len(f)) = i + 1
          /\ ~(i <= Len(f)) /\ i \in 1 .. Len(f) + Len(g)
      BY <1>1, <1>6, <1>7, <2>1, <2>3
    <3>2. r[i] = g[i - Len(f)]
      BY <1>9, <3>1
    <3> QED
      BY <1>8, <3>1, <3>2
  <2> QED
    BY <1>9, <2>1, <2>2, <2>3
<1>11. DOMAIN r = 1 .. Len(s) - 1
  BY <1>9, <1>10, LenProperties
<1>12. IsInjective(r)
  <2> SUFFICES ASSUME NEW i \in 1 .. Len(s) - 1, NEW j \in 1 .. Len(s) - 1, r[i] = r[j]
      PROVE  i = j
    BY <1>11 DEF IsInjective
  <2>1. PICK x \in 1 .. Len(s) : r[i] = s[x] /\ x = IF i < k THEN i ELSE i + 1
    BY <1>1, <1>6, <1>10
  <2>2. PICK y \in 1 .. Len(s) : r[j] = s[y] /\ y = IF j < k THEN j ELSE j + 1
    BY <1>1, <1>6, <1>10
  <2>3. x = y
    BY <1>1, <2>1, <2>2 DEF IsInjective
  <2> QED
    BY <1>1, <1>6, <2>1, <2>2, <2>3
<1>13. ToSet(r) = ToSet(s) \ {e}
  <2>1. ASSUME NEW x \in ToSet(r) PROVE x \in ToSet(s) \ {e}
    BY <1>1, <1>6, <1>10, <1>11, <2>1 DEF ToSet, IsInjective
  <2>2. ASSUME NEW x \in ToSet(s) \ {e} PROVE x \in ToSet(r)
    <3>1. PICK i \in 1 .. Len(s) : x = s[i]
      BY <1>1 DEF ToSet
    <3>2. CASE i < k
      <4>1. i \in DOMAIN r /\ r[i] = x
        BY <1>6, <1>10, <1>11, <3>1, <3>2
      <4> QED
        BY <4>1 DEF ToSet
    <3>3. CASE i > k
      <4>1. i - 1 \in DOMAIN r /\ r[i - 1] = x
        BY <1>6, <1>10, <1>11, <3>1, <3>3
      <4> QED
        BY <4>1 DEF ToSet
    <3> QED
      BY <1>6, <3>1, <3>2, <3>3
  <2> QED
    BY <2>1, <2>2
<1> QED
  BY <1>9, <1>10, <1>12, <1>13 DEF r

LEMMA PlacedTogether ==
    ASSUME NEW S, NEW old \in Seq(S), NEW new \in Seq(S), IsInjective(old), IsInjective(new),
           ToSet(old) \cap ToSet(new) = {}, NEW position
    PROVE  /\ Placed(position, old, new) \in {old \o new, new \o old}
           /\ Placed(position, old, new) \in Seq(S)
           /\ ToSet(Placed(position, old, new)) = ToSet(old) \cup ToSet(new)
           /\ IsInjective(Placed(position, old, new))
           /\ Len(Placed(position, old, new)) = Len(old) + Len(new)
<1>1. CASE position = "prepend"
  <2>1. Placed(position, old, new) = new \o old
    BY <1>1 DEF Placed
  <2>2. new \o old \in Seq(S) /\ ToSet(new \o old) = ToSet(old) \cup ToSet(new)
    BY ToSetConcat
  <2>3. IsInjective(new \o old) /\ Len(new \o old) = Len(new) + Len(old)
    BY InjectiveConcat
  <2>4. Len(new) + Len(old) = Len(old) + Len(new)
    BY LenProperties
  <2> QED
    BY <2>1, <2>2, <2>3, <2>4
<1>2. CASE position # "prepend"
  <2>1. Placed(position, old, new) = old \o new
    BY <1>2 DEF Placed
  <2>2. old \o new \in Seq(S) /\ ToSet(old \o new) = ToSet(old) \cup ToSet(new)
    BY ToSetConcat
  <2>3. IsInjective(old \o new) /\ Len(old \o new) = Len(old) + Len(new)
    BY InjectiveConcat
  <2> QED
    BY <2>1, <2>2, <2>3
<1> QED
  BY <1>1, <1>2

-----------------------------------------------------------------------------
(* A projection that agrees with itself.                                   *)

Shaped(p) ==
    p = [members |-> p.members, owner |-> p.owner, alias |-> p.alias, inactive |-> p.inactive]

MembersAgree(p) ==
    /\ DOMAIN p.members \subseteq Task
    /\ \A t \in DOMAIN p.members :
         p.members[t] \in Seq(Session) /\ Len(p.members[t]) >= 2 /\ IsInjective(p.members[t])

OwnersAgree(p) ==
    /\ DOMAIN p.owner \subseteq Session
    /\ \A s \in DOMAIN p.owner :
         p.owner[s] \in DOMAIN p.members /\ s \in ToSet(p.members[p.owner[s]])
    /\ \A t \in DOMAIN p.members : \A s \in ToSet(p.members[t]) :
         s \in DOMAIN p.owner /\ p.owner[s] = t

AliasesAgree(p) ==
    /\ IsFiniteSet(DOMAIN p.alias) /\ DOMAIN p.alias \subseteq p.inactive
    /\ p.inactive \subseteq Task /\ p.inactive \cap DOMAIN p.members = {}
    /\ \A t \in DOMAIN p.alias :
         p.alias[t] \in (DOMAIN p.members \cup p.inactive) \ DOMAIN p.alias

Agrees(p) == Shaped(p) /\ MembersAgree(p) /\ OwnersAgree(p) /\ AliasesAgree(p)

LEMMA NoTasksAgree == Agrees(NoTasks)
<1>1. /\ DOMAIN NoTasks.members = {} /\ DOMAIN NoTasks.owner = {} /\ DOMAIN NoTasks.alias = {}
      /\ NoTasks.inactive = {}
  BY DEF NoTasks
<1>2. Shaped(NoTasks)
  BY DEF NoTasks, Shaped
<1> QED
  BY <1>1, <1>2, FS_EmptySet DEF Agrees, MembersAgree, OwnersAgree, AliasesAgree

\* Following the aliases, from a task that has none or along the one it has.
LEMMA Resolved ==
    ASSUME NEW p, AliasesAgree(p), NEW t
    PROVE  Resolve(p, t) = IF t \in DOMAIN p.alias THEN p.alias[t] ELSE t
<1> DEFINE al == p.alias
           C == Cardinality(DOMAIN al)
           along[n \in 0 .. C] ==
               IF n = 0 THEN t
               ELSE IF along[n - 1] \in DOMAIN al THEN al[along[n - 1]]
               ELSE along[n - 1]
           end == IF t \in DOMAIN al THEN al[t] ELSE t
           f == [n \in 0 .. C |-> IF n = 0 THEN t ELSE end]
           Follows(g) ==
               g = [n \in 0 .. C |-> IF n = 0 THEN t
                                     ELSE IF g[n - 1] \in DOMAIN al THEN al[g[n - 1]]
                                     ELSE g[n - 1]]
<1>1. Resolve(p, t) = along[C]
  BY DEF Resolve
<1>2. C \in Nat /\ (C = 0 => t \notin DOMAIN al) /\ \A x \in DOMAIN al : al[x] \notin DOMAIN al
  BY FS_CardinalityType, FS_EmptySet DEF AliasesAgree
<1> HIDE DEF C, al
<1>3. Follows(f)
  BY <1>2
<1>4. Follows(along)
  <2>1. along = CHOOSE g : Follows(g)
    OBVIOUS
  <2> HIDE DEF along, Follows, f
  <2> QED
    BY <1>3, <2>1
<1>5. along[C] = end
  <2> HIDE DEF along
  <2> DEFINE differ == {n \in 0 .. C : along[n] # f[n]}
  <2>1. SUFFICES ASSUME differ # {} PROVE FALSE
    BY <1>2
  <2>2. differ \subseteq Nat
    BY <1>2
  <2>3. PICK x \in differ : \A y \in differ : x <= y
    <3> HIDE DEF differ
    <3> QED
      BY <2>1, <2>2, LeastNatural
  <2>4. x # 0
    BY <1>2, <1>4, <2>3
  <2>5. along[x - 1] = f[x - 1]
    BY <1>2, <2>3, <2>4
  <2> QED
    BY <1>2, <1>3, <1>4, <2>3, <2>4, <2>5
<1> QED
  BY <1>1, <1>5 DEF al

LEMMA ActiveTask ==
    ASSUME NEW p, Agrees(p), NEW t, Active(p, t)
    PROVE  /\ Resolve(p, t) \in DOMAIN p.members /\ Resolve(p, t) \in Task
           /\ Resolve(p, t) \notin DOMAIN p.alias /\ Resolve(p, t) \notin p.inactive
  BY DEF Active, Agrees, MembersAgree, AliasesAgree

LEMMA TaskItself ==
    ASSUME NEW p, Agrees(p), NEW t \in DOMAIN p.members
    PROVE  /\ Resolve(p, t) = t /\ t \in Task /\ t \notin DOMAIN p.alias /\ t \notin p.inactive
           /\ p.members[t] \in Seq(Session)
  BY Resolved DEF Agrees, MembersAgree, AliasesAgree

-----------------------------------------------------------------------------
(* What each action makes of a projection that agrees with itself: one that *)
(* agrees too, and differs from it as the type of the action says.         *)

Began(p, q) ==
    \E t \in Task \ (DOMAIN p.members \cup p.inactive) :
      /\ q.inactive = p.inactive /\ DOMAIN q.members = DOMAIN p.members \cup {t}
      /\ \A u \in DOMAIN p.members : q.members[u] = p.members[u]
      /\ Len(q.members[t]) >= 2 /\ IsInjective(q.members[t])
      /\ ToSet(q.members[t]) \subseteq Session \ DOMAIN p.owner

Joined(p, q) ==
    \E t \in DOMAIN p.members, s \in Session \ DOMAIN p.owner :
      /\ q.inactive = p.inactive /\ DOMAIN q.members = DOMAIN p.members
      /\ \A u \in DOMAIN p.members \ {t} : q.members[u] = p.members[u]
      /\ q.members[t] \in {p.members[t] \o <<s>>, <<s>> \o p.members[t]}

Absorbed(p, q) ==
    \E t, u \in DOMAIN p.members :
      /\ t # u
      /\ q.inactive = p.inactive \cup {u} /\ DOMAIN q.members = DOMAIN p.members \ {u}
      /\ \A v \in DOMAIN p.members \ {t, u} : q.members[v] = p.members[v]
      /\ q.members[t] \in {p.members[t] \o p.members[u], p.members[u] \o p.members[t]}

Left(p, q) ==
    \E t \in DOMAIN p.members, s \in Session :
      /\ s \in ToSet(p.members[t])
      /\ \A u \in DOMAIN p.members \ {t} : u \in DOMAIN q.members /\ q.members[u] = p.members[u]
      /\ \/ /\ q.inactive = p.inactive /\ DOMAIN q.members = DOMAIN p.members
            /\ Len(p.members[t]) > 2 /\ q.members[t] = RemoveFirst(p.members[t], s)
         \/ /\ q.inactive = p.inactive \cup {t} /\ DOMAIN q.members = DOMAIN p.members \ {t}
            /\ Len(p.members[t]) = 2

LEMMA CreatedAgrees ==
    ASSUME NEW p, Agrees(p), NEW t \in Task \ Known(p), NEW sessions \in Seq(Session),
           Len(sessions) >= 2, IsInjective(sessions), ToSet(sessions) \cap DOMAIN p.owner = {},
           NEW q, q = Created(p, Create(t, sessions))
    PROVE  Agrees(q) /\ Began(p, q)
<1> DEFINE new == ToSet(sessions)
<1>1. q = [members |-> With(p.members, {t}, sessions), owner |-> With(p.owner, new, t),
           alias |-> p.alias, inactive |-> p.inactive]
  BY DEF Created, Create, Agrees, Shaped
<1>2. Shaped(q) /\ q.alias = p.alias /\ q.inactive = p.inactive
  BY <1>1 DEF Shaped
<1>3. new \subseteq Session /\ t \notin DOMAIN p.members /\ t \notin DOMAIN p.alias /\ t \notin p.inactive
  BY LenProperties, ElementOfSeq DEF ToSet, Known
<1>4. /\ DOMAIN q.members = DOMAIN p.members \cup {t} /\ q.members[t] = sessions
      /\ \A u \in DOMAIN p.members : q.members[u] = p.members[u]
  BY <1>1, <1>3 DEF With
<1>5. /\ DOMAIN q.owner = DOMAIN p.owner \cup new
      /\ \A s \in new : q.owner[s] = t
      /\ \A s \in DOMAIN p.owner : q.owner[s] = p.owner[s]
  BY <1>1 DEF With
<1> HIDE DEF new
<1>6. MembersAgree(q)
  BY <1>4 DEF MembersAgree, Agrees
<1>7. OwnersAgree(q)
  <2>1. DOMAIN q.owner \subseteq Session
    BY <1>3, <1>5 DEF Agrees, OwnersAgree
  <2>2. ASSUME NEW s \in DOMAIN q.owner
        PROVE  q.owner[s] \in DOMAIN q.members /\ s \in ToSet(q.members[q.owner[s]])
    BY <1>4, <1>5 DEF Agrees, OwnersAgree, new
  <2>3. ASSUME NEW u \in DOMAIN q.members, NEW s \in ToSet(q.members[u])
        PROVE  s \in DOMAIN q.owner /\ q.owner[s] = u
    BY <1>4, <1>5 DEF Agrees, OwnersAgree, new
  <2> QED
    BY <2>1, <2>2, <2>3 DEF OwnersAgree
<1>8. AliasesAgree(q)
  BY <1>2, <1>3, <1>4 DEF Agrees, AliasesAgree
<1> QED
  BY <1>2, <1>3, <1>4, <1>6, <1>7, <1>8 DEF Agrees, Began, new

LEMMA ExtendedAgrees ==
    ASSUME NEW p, Agrees(p), NEW t \in DOMAIN p.members, NEW s \in Session \ DOMAIN p.owner,
           NEW position, NEW q, q = Extended(p, Link(t, s, position))
    PROVE  Agrees(q) /\ Joined(p, q)
<1> DEFINE grown == Placed(position, p.members[t], <<s>>)
<1>1. Resolve(p, t) = t /\ p.members[t] \in Seq(Session)
  BY TaskItself
<1>2. q = [members |-> [p.members EXCEPT ![t] = grown], owner |-> With(p.owner, {s}, t),
           alias |-> p.alias, inactive |-> p.inactive]
  BY <1>1 DEF Extended, Link, Agrees, Shaped
<1>3. Shaped(q) /\ q.alias = p.alias /\ q.inactive = p.inactive
  BY <1>2 DEF Shaped
<1>5. /\ <<s>> \in Seq(Session) /\ Len(<<s>>) = 1 /\ IsInjective(<<s>>) /\ ToSet(<<s>>) = {s}
  BY DEF IsInjective, ToSet
<1>6. s \notin ToSet(p.members[t]) /\ IsInjective(p.members[t]) /\ Len(p.members[t]) >= 2
      /\ Len(p.members[t]) \in Nat
  BY <1>1, LenProperties DEF Agrees, OwnersAgree, MembersAgree
<1>7. /\ grown \in {p.members[t] \o <<s>>, <<s>> \o p.members[t]}
      /\ grown \in Seq(Session) /\ ToSet(grown) = ToSet(p.members[t]) \cup {s}
      /\ IsInjective(grown) /\ Len(grown) = Len(p.members[t]) + 1
  <2> DEFINE old == p.members[t]
             one == <<s>>
  <2>1. /\ old \in Seq(Session) /\ one \in Seq(Session) /\ IsInjective(old) /\ IsInjective(one)
        /\ ToSet(old) \cap ToSet(one) = {}
    BY <1>1, <1>5, <1>6
  <2>5. ToSet(one) = {s} /\ Len(one) = 1
    BY <1>5
  <2> HIDE DEF old, one
  <2>2. /\ Placed(position, old, one) \in {old \o one, one \o old}
        /\ Placed(position, old, one) \in Seq(Session)
        /\ ToSet(Placed(position, old, one)) = ToSet(old) \cup ToSet(one)
        /\ IsInjective(Placed(position, old, one))
        /\ Len(Placed(position, old, one)) = Len(old) + Len(one)
    BY <2>1, PlacedTogether
  <2>3. grown = Placed(position, old, one)
    BY DEF old, one
  <2> HIDE DEF grown
  <2>4. ToSet(grown) = ToSet(old) \cup {s} /\ Len(grown) = Len(old) + 1
    BY <2>2, <2>3, <2>5
  <2> QED
    BY <2>2, <2>3, <2>4 DEF old, one
<1> HIDE DEF grown
<1>8. /\ DOMAIN q.members = DOMAIN p.members /\ q.members[t] = grown
      /\ \A u \in DOMAIN p.members \ {t} : q.members[u] = p.members[u]
  BY <1>2
<1>9. /\ DOMAIN q.owner = DOMAIN p.owner \cup {s} /\ q.owner[s] = t
      /\ \A r \in DOMAIN p.owner : q.owner[r] = p.owner[r]
  BY <1>2 DEF With
<1>10. MembersAgree(q)
  <2>1. Len(grown) >= 2
    BY <1>6, <1>7
  <2> QED
    BY <1>7, <1>8, <2>1 DEF MembersAgree, Agrees
<1>11. OwnersAgree(q)
  <2>1. DOMAIN q.owner \subseteq Session
    BY <1>9 DEF Agrees, OwnersAgree
  <2>2. ASSUME NEW r \in DOMAIN q.owner
        PROVE  q.owner[r] \in DOMAIN q.members /\ r \in ToSet(q.members[q.owner[r]])
    BY <1>7, <1>8, <1>9 DEF Agrees, OwnersAgree
  <2>3. ASSUME NEW u \in DOMAIN q.members, NEW r \in ToSet(q.members[u])
        PROVE  r \in DOMAIN q.owner /\ q.owner[r] = u
    BY <1>7, <1>8, <1>9 DEF Agrees, OwnersAgree
  <2> QED
    BY <2>1, <2>2, <2>3 DEF OwnersAgree
<1>12. AliasesAgree(q)
  BY <1>3, <1>8 DEF Agrees, AliasesAgree
<1>13. Joined(p, q)
  BY <1>3, <1>7, <1>8 DEF Joined
<1> QED
  BY <1>3, <1>10, <1>11, <1>12, <1>13 DEF Agrees

LEMMA PlacedMembers ==
    ASSUME NEW old \in Seq(Session), NEW new \in Seq(Session), IsInjective(old), IsInjective(new),
           ToSet(old) \cap ToSet(new) = {}, Len(old) >= 2, NEW position,
           NEW joined, joined = Placed(position, old, new)
    PROVE  /\ joined \in {old \o new, new \o old}
           /\ joined \in Seq(Session) /\ ToSet(joined) = ToSet(old) \cup ToSet(new)
           /\ IsInjective(joined) /\ Len(joined) >= 2
<1>1. Len(joined) = Len(old) + Len(new)
  BY PlacedTogether
<1>2. Len(old) \in Nat /\ Len(new) \in Nat
  BY LenProperties
<1>3. Len(joined) >= 2
  BY <1>1, <1>2
<1>4. joined \in {old \o new, new \o old} /\ joined \in Seq(Session)
  BY PlacedTogether
<1>5. ToSet(joined) = ToSet(old) \cup ToSet(new) /\ IsInjective(joined)
  BY PlacedTogether
<1> QED
  BY <1>3, <1>4, <1>5

LEMMA MergedAgrees ==
    ASSUME NEW p, Agrees(p), NEW t \in DOMAIN p.members, NEW u \in DOMAIN p.members, t # u,
           NEW position, NEW q, q = Merged(p, Merge(t, u, position))
    PROVE  Agrees(q) /\ Absorbed(p, q)
<1> DEFINE joined == Placed(position, p.members[t], p.members[u])
           turned == [x \in DOMAIN p.alias |-> IF p.alias[x] = u THEN t ELSE p.alias[x]]
<1>1. /\ Resolve(p, t) = t /\ p.members[t] \in Seq(Session)
      /\ Resolve(p, u) = u /\ p.members[u] \in Seq(Session)
      /\ u \in Task /\ u \notin p.inactive /\ u \notin DOMAIN p.alias /\ t \notin DOMAIN p.alias
      /\ t \notin p.inactive
  BY TaskItself
<1>2. q = [members |-> Without([p.members EXCEPT ![t] = joined], {u}),
           owner |-> [s \in DOMAIN p.owner |-> IF p.owner[s] = u THEN t ELSE p.owner[s]],
           alias |-> With(turned, {u}, t), inactive |-> p.inactive \cup {u}]
  BY <1>1 DEF Merged, Merge, Agrees, Shaped
<1>3. Shaped(q) /\ q.inactive = p.inactive \cup {u}
  BY <1>2 DEF Shaped
<1>5. /\ IsInjective(p.members[t]) /\ Len(p.members[t]) >= 2 /\ Len(p.members[t]) \in Nat
      /\ IsInjective(p.members[u]) /\ Len(p.members[u]) >= 2 /\ Len(p.members[u]) \in Nat
      /\ ToSet(p.members[t]) \cap ToSet(p.members[u]) = {}
  <2>1. Len(p.members[t]) \in Nat /\ Len(p.members[u]) \in Nat
    BY <1>1, LenProperties
  <2>2. \A s \in ToSet(p.members[t]) : p.owner[s] = t
    BY DEF Agrees, OwnersAgree
  <2>3. \A s \in ToSet(p.members[u]) : p.owner[s] = u
    BY DEF Agrees, OwnersAgree
  <2> QED
    BY <2>1, <2>2, <2>3 DEF Agrees, MembersAgree
<1>6. /\ joined \in {p.members[t] \o p.members[u], p.members[u] \o p.members[t]}
      /\ joined \in Seq(Session) /\ ToSet(joined) = ToSet(p.members[t]) \cup ToSet(p.members[u])
      /\ IsInjective(joined) /\ Len(joined) >= 2
  <2> HIDE DEF joined
  <2>1. joined = Placed(position, p.members[t], p.members[u])
    BY DEF joined
  <2> QED
    BY <1>1, <1>5, <2>1, PlacedMembers
<1> HIDE DEF joined
<1>7. /\ DOMAIN q.members = DOMAIN p.members \ {u} /\ q.members[t] = joined
      /\ \A v \in DOMAIN p.members \ {t, u} : q.members[v] = p.members[v]
  BY <1>2 DEF Without, Restrict
<1>8. /\ DOMAIN q.owner = DOMAIN p.owner
      /\ \A s \in DOMAIN p.owner : q.owner[s] = IF p.owner[s] = u THEN t ELSE p.owner[s]
  BY <1>2
<1>9. /\ DOMAIN q.alias = DOMAIN p.alias \cup {u} /\ q.alias[u] = t
      /\ \A x \in DOMAIN p.alias : q.alias[x] = IF p.alias[x] = u THEN t ELSE p.alias[x]
  BY <1>1, <1>2 DEF With
<1>10. MembersAgree(q)
  BY <1>6, <1>7 DEF MembersAgree, Agrees
<1>11. OwnersAgree(q)
  <2>1. DOMAIN q.owner \subseteq Session
    BY <1>8 DEF Agrees, OwnersAgree
  <2>2. ASSUME NEW s \in DOMAIN q.owner
        PROVE  q.owner[s] \in DOMAIN q.members /\ s \in ToSet(q.members[q.owner[s]])
    BY <1>6, <1>7, <1>8 DEF Agrees, OwnersAgree
  <2>3. ASSUME NEW v \in DOMAIN q.members, NEW s \in ToSet(q.members[v])
        PROVE  s \in DOMAIN q.owner /\ q.owner[s] = v
    BY <1>6, <1>7, <1>8 DEF Agrees, OwnersAgree
  <2> QED
    BY <2>1, <2>2, <2>3 DEF OwnersAgree
<1>12. AliasesAgree(q)
  BY <1>1, <1>3, <1>7, <1>9, FS_AddElement DEF Agrees, AliasesAgree
<1>13. Absorbed(p, q)
  BY <1>3, <1>6, <1>7 DEF Absorbed
<1> QED
  BY <1>3, <1>10, <1>11, <1>12, <1>13 DEF Agrees

LEMMA UnlinkedAgrees ==
    ASSUME NEW p, Agrees(p), NEW t \in DOMAIN p.members, NEW s \in DOMAIN p.owner, p.owner[s] = t,
           NEW q, q = Unlinked(p, Unlink(t, s))
    PROVE  Agrees(q) /\ Left(p, q)
<1> DEFINE rest == RemoveFirst(p.members[t], s)
<1>1. /\ Resolve(p, t) = t /\ p.members[t] \in Seq(Session)
      /\ t \in Task /\ t \notin p.inactive /\ t \notin DOMAIN p.alias
  BY TaskItself
<1>2. /\ s \in ToSet(p.members[t]) /\ IsInjective(p.members[t])
      /\ Len(p.members[t]) >= 2 /\ Len(p.members[t]) \in Nat
  BY <1>1, LenProperties DEF Agrees, OwnersAgree, MembersAgree
<1>3. /\ rest \in Seq(Session) /\ Len(rest) = Len(p.members[t]) - 1 /\ IsInjective(rest)
      /\ ToSet(rest) = ToSet(p.members[t]) \ {s}
  BY <1>1, <1>2, RemovedFirst
<1>6. s \in Session
  BY DEF Agrees, OwnersAgree
<1>4. CASE Len(rest) >= 2
  <2>1. q = [members |-> [p.members EXCEPT ![t] = rest], owner |-> Without(p.owner, {s}),
             alias |-> p.alias, inactive |-> p.inactive]
    BY <1>1, <1>4 DEF Unlinked, Unlink, Agrees, Shaped
  <2> HIDE DEF rest
  <2>2. Shaped(q) /\ q.alias = p.alias /\ q.inactive = p.inactive
    BY <2>1 DEF Shaped
  <2>3. /\ DOMAIN q.members = DOMAIN p.members /\ q.members[t] = rest
        /\ \A u \in DOMAIN p.members \ {t} : q.members[u] = p.members[u]
    BY <2>1
  <2>4. /\ DOMAIN q.owner = DOMAIN p.owner \ {s}
        /\ \A r \in DOMAIN p.owner \ {s} : q.owner[r] = p.owner[r]
    BY <2>1 DEF Without, Restrict
  <2>5. MembersAgree(q)
    BY <1>3, <1>4, <2>3 DEF MembersAgree, Agrees
  <2>6. OwnersAgree(q)
    <3>1. ASSUME NEW r \in DOMAIN q.owner
          PROVE  q.owner[r] \in DOMAIN q.members /\ r \in ToSet(q.members[q.owner[r]])
      BY <1>3, <2>3, <2>4 DEF Agrees, OwnersAgree
    <3>2. ASSUME NEW u \in DOMAIN q.members, NEW r \in ToSet(q.members[u])
          PROVE  r \in DOMAIN q.owner /\ q.owner[r] = u
      BY <1>3, <2>3, <2>4 DEF Agrees, OwnersAgree
    <3> QED
      BY <2>4, <3>1, <3>2 DEF Agrees, OwnersAgree
  <2>7. AliasesAgree(q)
    BY <2>2, <2>3 DEF Agrees, AliasesAgree
  <2>8. Len(p.members[t]) > 2
    <3>1. \A n \in Nat : n - 1 >= 2 => n > 2
      OBVIOUS
    <3> QED
      BY <1>2, <1>3, <1>4, <3>1
  <2>9. Left(p, q)
    BY <1>2, <1>6, <2>2, <2>3, <2>8 DEF Left, rest
  <2> QED
    BY <2>2, <2>5, <2>6, <2>7, <2>9 DEF Agrees
<1>5. CASE ~(Len(rest) >= 2)
  <2>1. q = [members |-> Without(p.members, {t}), owner |-> Without(p.owner, ToSet(p.members[t])),
             alias |-> p.alias, inactive |-> p.inactive \cup {t}]
    BY <1>1, <1>5 DEF Unlinked, Unlink, Agrees, Shaped
  <2> HIDE DEF rest
  <2>2. Shaped(q) /\ q.alias = p.alias /\ q.inactive = p.inactive \cup {t}
    BY <2>1 DEF Shaped
  <2>3. /\ DOMAIN q.members = DOMAIN p.members \ {t}
        /\ \A u \in DOMAIN p.members \ {t} : q.members[u] = p.members[u]
    BY <2>1 DEF Without, Restrict
  <2>4. /\ DOMAIN q.owner = DOMAIN p.owner \ ToSet(p.members[t])
        /\ \A r \in DOMAIN p.owner \ ToSet(p.members[t]) : q.owner[r] = p.owner[r]
    BY <2>1 DEF Without, Restrict
  <2>5. MembersAgree(q)
    BY <2>3 DEF MembersAgree, Agrees
  <2>6. OwnersAgree(q)
    <3>1. ASSUME NEW r \in DOMAIN q.owner
          PROVE  q.owner[r] \in DOMAIN q.members /\ r \in ToSet(q.members[q.owner[r]])
      BY <2>3, <2>4 DEF Agrees, OwnersAgree
    <3>2. ASSUME NEW u \in DOMAIN q.members, NEW r \in ToSet(q.members[u])
          PROVE  r \in DOMAIN q.owner /\ q.owner[r] = u
      BY <2>3, <2>4 DEF Agrees, OwnersAgree
    <3> QED
      BY <2>4, <3>1, <3>2 DEF Agrees, OwnersAgree
  <2>7. AliasesAgree(q)
    BY <1>1, <2>2, <2>3 DEF Agrees, AliasesAgree
  <2>8. Len(p.members[t]) = 2
    <3>1. \A n \in Nat : n >= 2 /\ ~(n - 1 >= 2) => n = 2
      OBVIOUS
    <3> QED
      BY <1>2, <1>3, <1>5, <3>1
  <2>9. Left(p, q)
    BY <1>2, <1>6, <2>2, <2>3, <2>8 DEF Left
  <2> QED
    BY <2>2, <2>5, <2>6, <2>7, <2>9 DEF Agrees
<1> QED
  BY <1>4, <1>5

-----------------------------------------------------------------------------
(* What an operation appends, and what that makes of what it has replayed. *)

Positions == {"append", "prepend"}

Requested(p, a) ==
    \/ \E t \in Task \ Known(p), sessions \in Seq(Session) :
         Len(sessions) >= 2 /\ IsInjective(sessions) /\ a = Create(t, sessions)
    \/ \E t \in DOMAIN p.members, s \in Session, position \in Positions : a = Link(t, s, position)
    \/ \E t, u \in DOMAIN p.members, position \in Positions : a = Merge(t, u, position)
    \/ \E t \in DOMAIN p.members, s \in Session : a = Unlink(t, s)
    \/ \E t \in DOMAIN p.members : a = Rename(t)

Moved(p, q) == q = p \/ Began(p, q) \/ Joined(p, q) \/ Absorbed(p, q) \/ Left(p, q)

LEMMA OutcomeOfCreate ==
    ASSUME NEW p, NEW a, a.do = "create" PROVE Outcome(p, a) = Created(p, a)
  BY Zenon DEF Outcome

LEMMA OutcomeOfLink ==
    ASSUME NEW p, NEW a, a.do = "link" PROVE Outcome(p, a) = Extended(p, a)
  BY Zenon DEF Outcome

LEMMA OutcomeOfMerge ==
    ASSUME NEW p, NEW a, a.do = "merge" PROVE Outcome(p, a) = Merged(p, a)
  BY Zenon DEF Outcome

LEMMA OutcomeOfUnlink ==
    ASSUME NEW p, NEW a, a.do = "unlink" PROVE Outcome(p, a) = Unlinked(p, a)
  BY Zenon DEF Outcome

LEMMA OutcomeOfRename ==
    ASSUME NEW p, NEW a, a.do = "rename" PROVE Outcome(p, a) = p
  BY Zenon DEF Outcome

\* A permitted action that was requested keeps the projection in agreement, and
\* moves it as the action says.
LEMMA OutcomeAgrees ==
    ASSUME NEW p, Agrees(p), NEW a, Requested(p, a), Permitted(p, a), NEW q, q = Outcome(p, a)
    PROVE  Agrees(q) /\ Moved(p, q)
<1>1. ASSUME NEW t \in Task \ Known(p), NEW sessions \in Seq(Session),
             Len(sessions) >= 2, IsInjective(sessions), a = Create(t, sessions)
      PROVE  Agrees(q) /\ Moved(p, q)
  <2>1. a.do = "create" /\ a.sessions = sessions
    BY <1>1 DEF Create
  <2>2. q = Created(p, Create(t, sessions))
    BY <1>1, <2>1, OutcomeOfCreate
  <2>3. ToSet(sessions) \cap DOMAIN p.owner = {}
    BY <2>1 DEF Permitted
  <2>4. Agrees(q) /\ Began(p, q)
    BY <1>1, <2>2, <2>3, CreatedAgrees
  <2> QED
    BY <2>4 DEF Moved
<1>2. ASSUME NEW t \in DOMAIN p.members, NEW s \in Session, NEW position \in Positions,
             a = Link(t, s, position)
      PROVE  Agrees(q) /\ Moved(p, q)
  <2>1. a.do = "link" /\ a.session = s
    BY <1>2 DEF Link
  <2>2. q = Extended(p, Link(t, s, position))
    BY <1>2, <2>1, OutcomeOfLink
  <2>3. s \in Session \ DOMAIN p.owner
    BY <2>1 DEF Permitted
  <2>4. Agrees(q) /\ Joined(p, q)
    BY <2>2, <2>3, ExtendedAgrees
  <2> QED
    BY <2>4 DEF Moved
<1>3. ASSUME NEW t \in DOMAIN p.members, NEW u \in DOMAIN p.members, NEW position \in Positions,
             a = Merge(t, u, position)
      PROVE  Agrees(q) /\ Moved(p, q)
  <2>1. a.do = "merge" /\ a.task = t /\ a.source = u
    BY <1>3 DEF Merge
  <2>2. q = Merged(p, Merge(t, u, position))
    BY <1>3, <2>1, OutcomeOfMerge
  <2>3. t # u
    BY <2>1, TaskItself DEF Permitted
  <2>4. Agrees(q) /\ Absorbed(p, q)
    BY <2>2, <2>3, MergedAgrees
  <2> QED
    BY <2>4 DEF Moved
<1>4. ASSUME NEW t \in DOMAIN p.members, NEW s \in Session, a = Unlink(t, s)
      PROVE  Agrees(q) /\ Moved(p, q)
  <2>1. a.do = "unlink" /\ a.session = s /\ a.task = t
    BY <1>4 DEF Unlink
  <2>2. q = Unlinked(p, Unlink(t, s))
    BY <1>4, <2>1, OutcomeOfUnlink
  <2>3. s \in DOMAIN p.owner /\ p.owner[s] = t
    BY <2>1, TaskItself DEF Permitted
  <2>4. Agrees(q) /\ Left(p, q)
    BY <2>2, <2>3, UnlinkedAgrees
  <2> QED
    BY <2>4 DEF Moved
<1>5. ASSUME NEW t \in DOMAIN p.members, a = Rename(t)
      PROVE  Agrees(q) /\ Moved(p, q)
  <2>1. a.do = "rename"
    BY <1>5 DEF Rename
  <2> QED
    BY <2>1, OutcomeOfRename DEF Moved
<1> QED
  BY <1>1, <1>2, <1>3, <1>4, <1>5 DEF Requested

-----------------------------------------------------------------------------
(* The invariant: both what is settled and what is replayed agree.         *)

TailTypes == {"create", "link", "merge", "unlink", "rename", "torn"}

TaskInv ==
    /\ Agrees(settled)
    /\ Agrees(TaskProjection)
    /\ tail # None => tail.do \in TailTypes

\* Every operation commits one action, of its own replay.
LEMMA OperationCommits ==
    ASSUME NEW p, Agrees(p), p = TaskProjection, TaskNext
    PROVE  \E a : Requested(p, a) /\ Commit(p, a)
<1>1. ASSUME NEW t, Active(p, t) PROVE Resolve(p, t) \in DOMAIN p.members
  BY <1>1, ActiveTask
<1>2. ASSUME NEW s \in DOMAIN p.owner PROVE Resolve(p, p.owner[s]) \in DOMAIN p.members
  BY TaskItself DEF Agrees, OwnersAgree
<1>3. NewTask(p) \subseteq Task \ Known(p)
  BY DEF NewTask
<1>4. ASSUME NEW n \in 2 .. MaxTogether, NEW sessions \in [1 .. n -> Session], CreateTask(p, sessions)
      PROVE  \E a : Requested(p, a) /\ Commit(p, a)
  <2>1. sessions \in Seq(Session) /\ Len(sessions) >= 2 /\ IsInjective(sessions)
    <3>1. n \in Nat
      BY TaskAssumption
    <3> QED
      BY <1>4, <3>1 DEF CreateTask
  <2>2. PICK t \in NewTask(p) : Commit(p, Create(t, sessions))
    BY <1>4 DEF CreateTask
  <2>3. Requested(p, Create(t, sessions))
    BY <1>3, <2>1, <2>2 DEF Requested
  <2> QED
    BY <2>2, <2>3
<1>5. ASSUME NEW s1 \in Session, NEW s2 \in Session, LinkSessions(p, s1, s2)
      PROVE  \E a : Requested(p, a) /\ Commit(p, a)
  <2>1. CASE s1 \in DOMAIN p.owner /\ s2 \in DOMAIN p.owner
    <3> DEFINE a == Merge(Resolve(p, p.owner[s1]), Resolve(p, p.owner[s2]), "append")
    <3>1. Commit(p, a)
      BY <1>5, <2>1 DEF LinkSessions
    <3>2. Requested(p, a)
      BY <1>2, <2>1 DEF Requested, Positions
    <3> QED
      BY <3>1, <3>2
  <2>2. CASE s1 \in DOMAIN p.owner /\ s2 \notin DOMAIN p.owner
    <3> DEFINE a == Link(Resolve(p, p.owner[s1]), s2, "append")
    <3>1. Commit(p, a)
      BY <1>5, <2>2 DEF LinkSessions
    <3>2. Requested(p, a)
      BY <1>2, <2>2 DEF Requested, Positions
    <3> QED
      BY <3>1, <3>2
  <2>3. CASE s1 \notin DOMAIN p.owner /\ s2 \in DOMAIN p.owner
    <3> DEFINE a == Link(Resolve(p, p.owner[s2]), s1, "prepend")
    <3>1. Commit(p, a)
      BY <1>5, <2>3 DEF LinkSessions
    <3>2. Requested(p, a)
      BY <1>2, <2>3 DEF Requested, Positions
    <3> QED
      BY <3>1, <3>2
  <2>4. CASE s1 \notin DOMAIN p.owner /\ s2 \notin DOMAIN p.owner
    <3>1. PICK t \in NewTask(p) : Commit(p, Create(t, <<s1, s2>>))
      BY <1>5, <2>4 DEF LinkSessions
    <3>2. <<s1, s2>> \in Seq(Session) /\ Len(<<s1, s2>>) >= 2 /\ IsInjective(<<s1, s2>>)
      BY <1>5 DEF LinkSessions, IsInjective
    <3>3. Requested(p, Create(t, <<s1, s2>>))
      BY <1>3, <3>1, <3>2 DEF Requested
    <3> QED
      BY <3>1, <3>3
  <2> QED
    BY <2>1, <2>2, <2>3, <2>4
<1>6. ASSUME NEW t \in Task, NEW s \in Session, NEW position \in Positions, LinkSession(p, t, s, position)
      PROVE  \E a : Requested(p, a) /\ Commit(p, a)
  <2>1. Commit(p, Link(Resolve(p, t), s, position))
    BY <1>6 DEF LinkSession
  <2>2. Requested(p, Link(Resolve(p, t), s, position))
    BY <1>1, <1>6 DEF Requested, LinkSession
  <2> QED
    BY <2>1, <2>2
<1>7. ASSUME NEW t \in Task, NEW u \in Task, NEW position \in Positions, MergeTasks(p, t, u, position)
      PROVE  \E a : Requested(p, a) /\ Commit(p, a)
  <2>1. Commit(p, Merge(Resolve(p, t), Resolve(p, u), position))
    BY <1>7 DEF MergeTasks
  <2>2. Requested(p, Merge(Resolve(p, t), Resolve(p, u), position))
    BY <1>1, <1>7 DEF Requested, MergeTasks
  <2> QED
    BY <2>1, <2>2
<1>8. ASSUME NEW t \in Task, NEW s \in Session, UnlinkSession(p, t, s)
      PROVE  \E a : Requested(p, a) /\ Commit(p, a)
  <2>1. Commit(p, Unlink(Resolve(p, t), s))
    BY <1>8 DEF UnlinkSession
  <2>2. Requested(p, Unlink(Resolve(p, t), s))
    BY <1>1, <1>8 DEF Requested, UnlinkSession
  <2> QED
    BY <2>1, <2>2
<1>9. ASSUME NEW t \in Task, RenameTask(p, t)
      PROVE  \E a : Requested(p, a) /\ Commit(p, a)
  <2>1. Commit(p, Rename(Resolve(p, t)))
    BY <1>9 DEF RenameTask
  <2>2. Requested(p, Rename(Resolve(p, t)))
    BY <1>1, <1>9 DEF Requested, RenameTask
  <2> QED
    BY <2>1, <2>2
<1> QED
  BY <1>4, <1>5, <1>6, <1>7, <1>8, <1>9 DEF TaskNext, Positions

\* Cut off or not, an append leaves a file that replays to p or to the outcome.
LEMMA CommitReplays ==
    ASSUME NEW p, NEW a, Requested(p, a), Commit(p, a)
    PROVE  /\ Permitted(p, a) /\ settled' \in {p, Outcome(p, a)}
           /\ TaskProjection' \in {p, Outcome(p, a)}
           /\ tail' # None => tail'.do \in TailTypes
<1>1. a.do \in TailTypes
  BY DEF Requested, Create, Link, Merge, Unlink, Rename, TailTypes
<1>2. ~Permitted(p, Torn)
  BY DEF Permitted, Torn
<1>3. Permitted(p, a)
  BY DEF Commit
<1>4. CASE settled' = Written(p, a) /\ tail' = None
  BY <1>3, <1>4 DEF Written, TaskProjection
<1>5. CASE settled' = p /\ tail' \in {None, Torn, a}
  <2>1. tail' = Torn => tail'.do \in TailTypes
    BY DEF Torn, TailTypes
  <2>2. TaskProjection' = IF tail' # None /\ Permitted(p, tail') THEN Outcome(p, tail') ELSE p
    BY <1>5 DEF TaskProjection
  <2>3. TaskProjection' \in {p, Outcome(p, a)}
    BY <1>2, <1>5, <2>2
  <2> QED
    BY <1>1, <1>3, <1>5, <2>1, <2>3
<1> QED
  BY <1>4, <1>5 DEF Commit

LEMMA TaskStep ==
    ASSUME TaskInv, [TaskNext]_taskVars
    PROVE  TaskInv' /\ Moved(TaskProjection, TaskProjection')
<1>1. CASE TaskNext
  <2> DEFINE p == TaskProjection
  <2>1. Agrees(p)
    BY DEF TaskInv
  <2>2. PICK a : Requested(p, a) /\ Commit(p, a)
    BY <1>1, <2>1, OperationCommits
  <2> HIDE DEF p
  <2>3. /\ Permitted(p, a) /\ settled' \in {p, Outcome(p, a)}
        /\ TaskProjection' \in {p, Outcome(p, a)}
        /\ tail' # None => tail'.do \in TailTypes
    BY <2>2, CommitReplays
  <2>4. Agrees(Outcome(p, a)) /\ Moved(p, Outcome(p, a))
    BY <2>1, <2>2, <2>3, OutcomeAgrees
  <2>5. Moved(p, p)
    BY DEF Moved
  <2>6. Agrees(settled')
    BY <2>1, <2>3, <2>4
  <2>7. Agrees(TaskProjection') /\ Moved(p, TaskProjection')
    BY <2>1, <2>3, <2>4, <2>5
  <2>8. TaskInv'
    BY <2>3, <2>6, <2>7 DEF TaskInv, Agrees, Shaped, MembersAgree, OwnersAgree, AliasesAgree
  <2> QED
    BY <2>7, <2>8 DEF p
<1>2. CASE UNCHANGED taskVars
  <2>1. TaskProjection' = TaskProjection /\ settled' = settled /\ tail' = tail
    BY <1>2 DEF taskVars, TaskProjection
  <2> QED
    BY <2>1 DEF TaskInv, Moved, Agrees, Shaped, MembersAgree, OwnersAgree, AliasesAgree
<1> QED
  BY <1>1, <1>2

LEMMA TaskInvariant == TaskSpec => []TaskInv
<1>1. TaskInit => TaskInv
  <2> SUFFICES ASSUME TaskInit PROVE TaskInv
    OBVIOUS
  <2>1. TaskProjection = NoTasks
    BY DEF TaskInit, TaskProjection
  <2> QED
    BY <2>1, NoTasksAgree DEF TaskInit, TaskInv
<1>2. TaskInv /\ [TaskNext]_taskVars => TaskInv'
  BY TaskStep
<1> QED
  BY <1>1, <1>2, PTL DEF TaskSpec

-----------------------------------------------------------------------------
(* What follows from it.                                                   *)

\* The projection names tasks and sessions only, and a last line that is not
\* ended is one of the actions or part of one.
THEOREM TaskTypes == TaskSpec => []TaskTypeOK
<1>1. TaskInv => TaskTypeOK
  BY DEF TaskInv, TaskTypeOK, TailTypes, Agrees, MembersAgree, OwnersAgree, AliasesAgree
<1> QED
  BY <1>1, TaskInvariant, PTL

\* However operations and crashes follow each other: a session is in one task at
\* most and the index of owners (_ProjectionState.owner_by_session) knows which;
\* no task has fewer than two sessions or one twice; an alias leads in one step
\* to its end; a task that is gone is not active.
THEOREM IndexAgreesHolds == TaskSpec => []IndexAgrees
<1>1. ASSUME NEW p, Agrees(p)
      PROVE  /\ \A s \in Session : {t \in DOMAIN p.members : s \in ToSet(p.members[t])} =
                                      IF s \in DOMAIN p.owner THEN {p.owner[s]} ELSE {}
             /\ \A t \in DOMAIN p.members : Len(p.members[t]) >= 2 /\ IsInjective(p.members[t])
             /\ \A t \in DOMAIN p.alias : p.alias[t] \in (DOMAIN p.members \cup p.inactive) \ DOMAIN p.alias
             /\ DOMAIN p.alias \subseteq p.inactive
             /\ p.inactive \cap DOMAIN p.members = {}
  <2>1. ASSUME NEW s \in Session
        PROVE  {t \in DOMAIN p.members : s \in ToSet(p.members[t])} =
                   IF s \in DOMAIN p.owner THEN {p.owner[s]} ELSE {}
    <3>1. CASE s \in DOMAIN p.owner
      BY <1>1, <3>1 DEF Agrees, OwnersAgree
    <3>2. CASE s \notin DOMAIN p.owner
      BY <1>1, <3>2 DEF Agrees, OwnersAgree
    <3> QED
      BY <3>1, <3>2
  <2> QED
    BY <1>1, <2>1 DEF Agrees, MembersAgree, AliasesAgree
<1>2. TaskInv => IndexAgrees
  BY <1>1 DEF TaskInv, IndexAgrees
<1> QED
  BY <1>2, TaskInvariant, PTL

\* The abstract module has the operators on sequences from the same library.
LEMMA SameOperators ==
    /\ \A s : Groups!ToSet(s) = ToSet(s)
    /\ \A s : Groups!IsInjective(s) <=> IsInjective(s)
    /\ \A s, e : Groups!RemoveFirst(s, e) = RemoveFirst(s, e)
<1>1. \A s : Groups!ToSet(s) = ToSet(s)
  BY DEF ToSet, Groups!ToSet
<1>2. \A s : Groups!IsInjective(s) <=> IsInjective(s)
  BY DEF IsInjective, Groups!IsInjective
<1>3. \A s, i : Groups!RemoveAt(s, i) = RemoveAt(s, i)
  BY DEF RemoveAt, Groups!RemoveAt
<1>4. \A S : Groups!Min(S) = Min(S)
  BY DEF Min, Groups!Min
<1>5. \A s, e : Groups!RemoveFirst(s, e) = RemoveFirst(s, e)
  BY <1>3, <1>4 DEF RemoveFirst, Groups!RemoveFirst, SelectInSeq, Groups!SelectInSeq
<1> QED
  BY <1>1, <1>2, <1>5

LEMMA GroupedSessions ==
    ASSUME NEW p, Agrees(p)
    PROVE  Groups!Grouped(p.members) = DOMAIN p.owner
<1>1. ASSUME NEW s \in Groups!Grouped(p.members) PROVE s \in DOMAIN p.owner
  BY <1>1 DEF Groups!Grouped, Groups!ToSet, ToSet, Agrees, OwnersAgree
<1>2. ASSUME NEW s \in DOMAIN p.owner PROVE s \in Groups!Grouped(p.members)
  BY <1>2 DEF Groups!Grouped, Groups!ToSet, ToSet, Agrees, OwnersAgree
<1> QED
  BY <1>1, <1>2

\* A move of the projection is a step of the abstract groups, or none.
LEMMA MoveIsAStep ==
    ASSUME NEW p, p = TaskProjection, NEW q, q = TaskProjection', Agrees(p), Agrees(q), Moved(p, q)
    PROVE  [Groups!GroupsNext]_(Groups!groupVars)
<1> DEFINE g == p.members
           h == q.members
<1>1. Groups!Grouped(g) = DOMAIN p.owner
  BY GroupedSessions
<1>2. TaskProjection.members = g /\ TaskProjection'.members = h
      /\ TaskProjection.inactive = p.inactive /\ TaskProjection'.inactive = q.inactive
  OBVIOUS
<1>3. SUFFICES ASSUME h # g PROVE Groups!GroupsNext
  <2>1. CASE h = g
    <3>1. p.inactive = q.inactive
      <4>1. ~Began(p, q)
        BY <2>1 DEF Began
      <4>2. ~Absorbed(p, q)
        BY <2>1 DEF Absorbed
      <4>3. Joined(p, q) => p.inactive = q.inactive
        BY DEF Joined
      <4>4. Left(p, q) => p.inactive = q.inactive
        BY <2>1 DEF Left
      <4> QED
        BY <4>1, <4>2, <4>3, <4>4 DEF Moved
    <3> QED
      BY <1>2, <2>1, <3>1 DEF Groups!groupVars
  <2> QED
    BY <1>3, <2>1
<1>4. CASE Began(p, q)
  <2>1. PICK t \in Task \ (DOMAIN g \cup p.inactive) :
          /\ q.inactive = p.inactive /\ DOMAIN h = DOMAIN g \cup {t}
          /\ \A u \in DOMAIN g : h[u] = g[u]
          /\ Len(h[t]) >= 2 /\ IsInjective(h[t])
          /\ ToSet(h[t]) \subseteq Session \ DOMAIN p.owner
    BY <1>4 DEF Began
  <2>2. Groups!Begin(g, h, t)
    <3> HIDE DEF g, h
    <3> QED
      BY <1>1, <1>2, <2>1, SameOperators DEF Groups!Begin, Groups!SameBut
  <2> QED
    BY <1>2, <1>3, <2>1, <2>2 DEF Groups!GroupsNext
<1>5. CASE Joined(p, q)
  <2>1. PICK t \in DOMAIN g, s \in Session \ DOMAIN p.owner :
          /\ q.inactive = p.inactive /\ DOMAIN h = DOMAIN g
          /\ \A u \in DOMAIN g \ {t} : h[u] = g[u]
          /\ h[t] \in {g[t] \o <<s>>, <<s>> \o g[t]}
    BY <1>5 DEF Joined
  <2>2. Groups!Join(g, h, t, s)
    <3> HIDE DEF g, h
    <3> QED
      BY <1>1, <1>2, <2>1 DEF Groups!Join, Groups!SameBut
  <2> QED
    BY <1>2, <1>3, <2>1, <2>2 DEF Groups!GroupsNext
<1>6. CASE Absorbed(p, q)
  <2>1. PICK t \in DOMAIN g, u \in DOMAIN g :
          /\ t # u
          /\ q.inactive = p.inactive \cup {u} /\ DOMAIN h = DOMAIN g \ {u}
          /\ \A v \in DOMAIN g \ {t, u} : h[v] = g[v]
          /\ h[t] \in {g[t] \o g[u], g[u] \o g[t]}
    BY <1>6 DEF Absorbed
  <2>2. Groups!Absorb(g, h, t, u)
    <3> HIDE DEF g, h
    <3> QED
      BY <1>2, <2>1 DEF Groups!Absorb, Groups!SameBut
  <2> QED
    BY <1>2, <1>3, <2>2 DEF Groups!GroupsNext
<1>7. CASE Left(p, q)
  <2>1. PICK t \in DOMAIN g, s \in Session :
          /\ s \in ToSet(g[t])
          /\ \A u \in DOMAIN g \ {t} : u \in DOMAIN h /\ h[u] = g[u]
          /\ \/ /\ q.inactive = p.inactive /\ DOMAIN h = DOMAIN g
                /\ Len(g[t]) > 2 /\ h[t] = RemoveFirst(g[t], s)
             \/ /\ q.inactive = p.inactive \cup {t} /\ DOMAIN h = DOMAIN g \ {t}
                /\ Len(g[t]) = 2
    BY <1>7 DEF Left
  <2>2. Groups!Leave(g, h, t, s)
    <3> HIDE DEF g, h
    <3> QED
      BY <1>2, <2>1, SameOperators DEF Groups!Leave, Groups!SameBut
  <2> QED
    BY <1>2, <1>3, <2>2 DEF Groups!GroupsNext
<1> QED
  BY <1>3, <1>4, <1>5, <1>6, <1>7 DEF Moved

\* With crashes in the middle of an append and replays of what they leave, the
\* grouping still changes as TaskGroups says: by one whole operation, from the
\* tasks as they were, and never to a task that is gone.
THEOREM GroupsImplemented == TaskSpec => ImplementsGroups
<1>1. TaskInit => Groups!GroupsInit
  BY DEF TaskInit, TaskProjection, NoTasks, Groups!GroupsInit
<1>2. TaskInv /\ [TaskNext]_taskVars => [Groups!GroupsNext]_(Groups!groupVars)
  <2> SUFFICES ASSUME TaskInv, [TaskNext]_taskVars
               PROVE  [Groups!GroupsNext]_(Groups!groupVars)
    OBVIOUS
  <2>1. TaskInv' /\ Moved(TaskProjection, TaskProjection')
    BY TaskStep
  <2>2. Agrees(TaskProjection) /\ Agrees(TaskProjection')
    BY <2>1 DEF TaskInv, Agrees, Shaped, MembersAgree, OwnersAgree, AliasesAgree
  <2> QED
    BY <2>1, <2>2, MoveIsAStep
<1> QED
  BY <1>1, <1>2, TaskInvariant, PTL DEF TaskSpec, ImplementsGroups, Groups!GroupsSpec
=============================================================================
