-------------------------- MODULE ControlLogProofs --------------------------
(***************************************************************************)
(* The action log is a history, for any operations and any length: torn    *)
(* lines and repetitions neither lose an event nor apply one twice.        *)
(***************************************************************************)
EXTENDS ControlLog, FiniteSetTheorems, TLAPS

-----------------------------------------------------------------------------
(* The replay is defined by recursion on the lines. Instead of an induction, *)
(* the least line at which a claim fails is shown not to exist.             *)

LEMMA LeastFailure ==
    ASSUME NEW S \in SUBSET Nat, S # {}
    PROVE  \E m \in S : \A k \in 0 .. m - 1 : k \notin S
<1> DEFINE R == StrictSubsetOrdering(Nat)
           T == {0 .. k : k \in S}
<1>1. T \subseteq FiniteSubsetsOf(Nat)
  <2>1. \A k \in S : k \in Int /\ 0 .. k \in SUBSET Nat
    OBVIOUS
  <2>2. \A k \in S : IsFiniteSet(0 .. k)
    BY <2>1, FS_Interval
  <2> QED
    BY <2>1, <2>2 DEF FiniteSubsetsOf
<1>2. T # {}
  OBVIOUS
<1>3. IsWellFoundedOn(R, FiniteSubsetsOf(Nat))
  BY FS_StrictSubsetOrderingWellFounded
<1> HIDE DEF R
<1>4. PICK I \in T : \A J \in T : ~ (<<J, I>> \in R)
  <2> HIDE DEF T
  <2> QED
    BY <1>1, <1>2, <1>3, WFMin
<1>5. PICK m \in S : I = 0 .. m
  BY <1>4
<1>6. ASSUME NEW k \in 0 .. m - 1, k \in S PROVE FALSE
  <2>1. 0 .. k \in T
    BY <1>6
  <2>2. m \in 0 .. m /\ m \notin 0 .. k /\ 0 .. k \subseteq 0 .. m /\ 0 .. m \in SUBSET Nat
    OBVIOUS
  <2>3. <<0 .. k, 0 .. m>> \in R
    BY <2>2 DEF R, StrictSubsetOrdering
  <2> QED
    BY <1>4, <1>5, <2>1, <2>3
<1> QED
  BY <1>6

Replays(file, n, f) ==
    f = [i \in 0 .. n |-> IF i = 0 THEN <<>> ELSE Taken(f[i - 1], file, i)]

LEMMA ReplayExists ==
    ASSUME NEW file, NEW n \in Nat
    PROVE  \E f : Replays(file, n, f)
<1> DEFINE Bad == {k \in Nat : ~ \E f : Replays(file, k, f)}
<1> SUFFICES Bad = {}
  OBVIOUS
<1> SUFFICES ASSUME Bad # {} PROVE FALSE
  OBVIOUS
<1>1. PICK m \in Bad : \A k \in 0 .. m - 1 : k \notin Bad
  BY LeastFailure
<1>2. m \in Nat
  OBVIOUS
<1>3. CASE m = 0
  <2> DEFINE g == [i \in 0 .. 0 |-> <<>>]
  <2>1. Replays(file, 0, g)
    BY DEF Replays
  <2> QED
    BY <1>3, <2>1
<1>4. CASE m > 0
  <2>1. m - 1 \in Nat /\ m - 1 \in 0 .. m - 1
    BY <1>2, <1>4
  <2>2. PICK f : Replays(file, m - 1, f)
    BY <1>1, <2>1
  <2> DEFINE g == [i \in 0 .. m |-> IF i = m THEN Taken(f[m - 1], file, m) ELSE f[i]]
  <2>3. \A i \in 0 .. m : i # 0 => g[i - 1] = f[i - 1]
    BY <1>2, <1>4
  <2>4. \A i \in 0 .. m - 1 : f[i] = IF i = 0 THEN <<>> ELSE Taken(f[i - 1], file, i)
    BY <2>2 DEF Replays
  <2>5. \A i \in 0 .. m : g[i] = IF i = 0 THEN <<>> ELSE Taken(g[i - 1], file, i)
    BY <1>2, <1>4, <2>3, <2>4
  <2>6. Replays(file, m, g)
    BY <2>5 DEF Replays
  <2> QED
    BY <2>6
<1> QED
  BY <1>2, <1>3, <1>4

\* What the recursive definition gives: nothing before the first line, and line
\* after line what Taken says.
LEMMA UpToUnfolds ==
    ASSUME NEW file, Len(file) \in Nat
    PROVE  /\ UpTo(file)[0] = <<>>
           /\ \A i \in 1 .. Len(file) : UpTo(file)[i] = Taken(UpTo(file)[i - 1], file, i)
<1>1. \E f : Replays(file, Len(file), f)
  BY ReplayExists
<1>2. Replays(file, Len(file), UpTo(file))
  BY <1>1 DEF UpTo, Replays
<1> DEFINE g == UpTo(file)
<1>3. g = [i \in 0 .. Len(file) |-> IF i = 0 THEN <<>> ELSE Taken(g[i - 1], file, i)]
  BY <1>2 DEF Replays
<1> HIDE DEF g
<1>4. /\ g[0] = <<>>
      /\ \A i \in 1 .. Len(file) : g[i] = Taken(g[i - 1], file, i)
  BY <1>3
<1> QED
  BY <1>4 DEF g

LEMMA SameReplay ==
    ASSUME NEW file, NEW next, Len(file) \in Nat, Len(next) \in Nat, Len(file) <= Len(next),
           \A i \in 1 .. Len(file) :
               /\ Readable(next, i) <=> Readable(file, i)
               /\ Readable(file, i) => next[i].op = file[i].op
    PROVE  UpTo(next)[Len(file)] = UpTo(file)[Len(file)]
<1> DEFINE Bad == {k \in 0 .. Len(file) : UpTo(next)[k] # UpTo(file)[k]}
<1> SUFFICES ASSUME Bad # {} PROVE FALSE
  OBVIOUS
<1>1. PICK m \in Bad : \A k \in 0 .. m - 1 : k \notin Bad
  <2>1. Bad \in SUBSET Nat
    OBVIOUS
  <2> HIDE DEF Bad
  <2> QED
    BY <2>1, LeastFailure
<1>2. m # 0
  BY UpToUnfolds
<1>3. m \in 1 .. Len(file) /\ m - 1 \in 0 .. Len(file) /\ m - 1 \in 0 .. m - 1 /\ m \in 1 .. Len(next)
  BY <1>2
<1>4. UpTo(next)[m - 1] = UpTo(file)[m - 1]
  BY <1>1, <1>3
<1>5. /\ UpTo(next)[m] = Taken(UpTo(next)[m - 1], next, m)
      /\ UpTo(file)[m] = Taken(UpTo(file)[m - 1], file, m)
  BY <1>3, UpToUnfolds
<1>6. Taken(UpTo(file)[m - 1], next, m) = Taken(UpTo(file)[m - 1], file, m)
  BY <1>3 DEF Taken
<1> QED
  BY <1>4, <1>5, <1>6

-----------------------------------------------------------------------------
(* The invariant. Only the last line may lack its newline, so that no line  *)
(* runs into another, and all events that are complete have taken effect.   *)

FileLine == [form : {"whole", "unended", "torn", "ended"}, op : Operation \cup {None}]

Complete(file) == {i \in DOMAIN file : file[i].form \in {"whole", "unended"}}

OnlyLastOpen(file) == \A i \in 1 .. Len(file) - 1 : ~Open(file[i])

LogInv ==
    /\ actions \in Seq(FileLine)
    /\ OnlyLastOpen(actions)
    /\ Events \in Seq(Operation)
    /\ Len(Events) = Cardinality(Complete(actions))

\* Ending the last line changes nothing that is read.
LEMMA TerminatedReads ==
    ASSUME NEW file \in Seq(FileLine), OnlyLastOpen(file)
    PROVE  /\ Terminated(file) \in Seq(FileLine)
           /\ Len(Terminated(file)) = Len(file)
           /\ \A i \in 1 .. Len(file) : ~Open(Terminated(file)[i])
           /\ Complete(Terminated(file)) = Complete(file)
           /\ \A i \in 1 .. Len(file) :
                 /\ Readable(file, i) <=> i \in Complete(file)
                 /\ Terminated(file)[i].op = file[i].op
<1>1. \A i \in 1 .. Len(file) : file[i] \in FileLine
  OBVIOUS
<1>2. \A i \in 1 .. Len(file) : Readable(file, i) <=> i \in Complete(file)
  <2> SUFFICES ASSUME NEW i \in 1 .. Len(file)
               PROVE  Readable(file, i) <=> file[i].form \in {"whole", "unended"}
    BY DEF Complete
  <2>1. i > 1 => ~Open(file[i - 1])
    BY DEF OnlyLastOpen
  <2>2. i < Len(file) => ~Open(file[i])
    BY DEF OnlyLastOpen
  <2> QED
    BY <2>1, <2>2 DEF Readable
<1>3. CASE file # <<>> /\ Open(file[Len(file)])
  <2> DEFINE n == Len(file)
             form == IF file[n].form = "unended" THEN "whole" ELSE "ended"
             last == [file[n] EXCEPT !.form = form]
  <2>1. n \in 1 .. Len(file)
    BY <1>3
  <2>2. /\ last \in FileLine /\ last.op = file[n].op /\ ~Open(last)
        /\ last.form \in {"whole", "unended"} <=> file[n].form \in {"whole", "unended"}
    BY <1>1, <1>3, <2>1 DEF FileLine, Open
  <2>3. Terminated(file) = [file EXCEPT ![n] = last]
    BY <1>3 DEF Terminated
  <2> HIDE DEF last
  <2>4. /\ Terminated(file) \in Seq(FileLine)
        /\ Len(Terminated(file)) = Len(file)
        /\ \A i \in 1 .. Len(file) : Terminated(file)[i] = IF i = n THEN last ELSE file[i]
    BY <2>1, <2>2, <2>3
  <2>5. \A i \in 1 .. Len(file) : i # n => ~Open(file[i])
    BY DEF OnlyLastOpen
  <2>6. Complete(Terminated(file)) = Complete(file)
    BY <2>2, <2>4 DEF Complete
  <2> QED
    BY <1>2, <2>2, <2>4, <2>5, <2>6
<1>4. CASE ~(file # <<>> /\ Open(file[Len(file)]))
  <2>1. Terminated(file) = file
    BY <1>4 DEF Terminated
  <2>2. \A i \in 1 .. Len(file) : ~Open(file[i])
    BY <1>4 DEF OnlyLastOpen
  <2> QED
    BY <1>2, <2>1, <2>2
<1> QED
  BY <1>3, <1>4

After(file) == UpTo(file)[Len(file)]

LEMMA TerminatedEvents ==
    ASSUME NEW file \in Seq(FileLine), OnlyLastOpen(file)
    PROVE  /\ OnlyLastOpen(Terminated(file))
           /\ After(Terminated(file)) = After(file)
<1> DEFINE next == Terminated(file)
<1>1. /\ next \in Seq(FileLine) /\ Len(next) = Len(file)
      /\ \A i \in 1 .. Len(file) : ~Open(next[i])
      /\ Complete(next) = Complete(file)
      /\ \A i \in 1 .. Len(file) :
            /\ Readable(file, i) <=> i \in Complete(file)
            /\ next[i].op = file[i].op
  BY TerminatedReads
<1> HIDE DEF next
<1>2. OnlyLastOpen(next)
  BY <1>1 DEF OnlyLastOpen
<1>3. \A i \in 1 .. Len(next) : Readable(next, i) <=> i \in Complete(next)
  BY <1>1, <1>2, TerminatedReads
<1>4. UpTo(next)[Len(file)] = UpTo(file)[Len(file)]
  BY <1>1, <1>3, SameReplay
<1> QED
  BY <1>1, <1>2, <1>4 DEF After, next

\* What a write adds, torn or not, is behind everything that was read before.
LEMMA AppendedEvents ==
    ASSUME NEW file \in Seq(FileLine), OnlyLastOpen(file), NEW l \in FileLine
    PROVE  LET next == Append(Terminated(file), l)
               whole == l.form \in {"whole", "unended"}
           IN  /\ next \in Seq(FileLine)
               /\ OnlyLastOpen(next)
               /\ Complete(next) = Complete(file) \cup (IF whole THEN {Len(file) + 1} ELSE {})
               /\ After(next) = IF whole /\ Accepts(After(file), l.op)
                                THEN Append(After(file), l.op) ELSE After(file)
<1> DEFINE mid == Terminated(file)
           next == Append(mid, l)
           n == Len(file)
<1>1. /\ mid \in Seq(FileLine) /\ Len(mid) = n
      /\ \A i \in 1 .. n : ~Open(mid[i])
      /\ Complete(mid) = Complete(file)
  BY TerminatedReads
<1>2. OnlyLastOpen(mid) /\ After(mid) = After(file)
  BY TerminatedEvents
<1>3. \A i \in 1 .. n : Readable(mid, i) <=> i \in Complete(mid)
  BY <1>1, <1>2, TerminatedReads
<1> HIDE DEF mid
<1>4. /\ next \in Seq(FileLine) /\ Len(next) = n + 1
      /\ \A i \in 1 .. n : next[i] = mid[i]
      /\ next[n + 1] = l
  BY <1>1
<1> HIDE DEF next
<1>5. OnlyLastOpen(next)
  BY <1>1, <1>4 DEF OnlyLastOpen
<1>6. \A i \in 1 .. n + 1 : Readable(next, i) <=> i \in Complete(next)
  BY <1>4, <1>5, TerminatedReads
<1>7. \A i \in 1 .. n : i \in Complete(next) <=> i \in Complete(mid)
  BY <1>1, <1>4 DEF Complete
<1>8. n + 1 \in Complete(next) <=> l.form \in {"whole", "unended"}
  BY <1>4 DEF Complete
<1>9. Complete(next) \subseteq 1 .. n + 1 /\ Complete(mid) \subseteq 1 .. n
  BY <1>1, <1>4 DEF Complete
<1>10. UpTo(next)[n] = After(mid)
  <2>1. \A i \in 1 .. n : (Readable(next, i) <=> Readable(mid, i)) /\ next[i].op = mid[i].op
    BY <1>3, <1>4, <1>6, <1>7
  <2> QED
    BY <1>1, <1>4, <2>1, SameReplay DEF After
<1>11. After(next) = Taken(UpTo(next)[n], next, n + 1)
  BY <1>4, UpToUnfolds DEF After
<1>12. After(next) = IF l.form \in {"whole", "unended"} /\ Accepts(After(file), l.op)
                     THEN Append(After(file), l.op) ELSE After(file)
  BY <1>2, <1>4, <1>6, <1>8, <1>10, <1>11 DEF Taken
<1>13. Complete(next) = Complete(file)
          \cup (IF l.form \in {"whole", "unended"} THEN {n + 1} ELSE {})
  BY <1>1, <1>7, <1>8, <1>9
<1> QED
  BY <1>4, <1>5, <1>12, <1>13 DEF next, mid

-----------------------------------------------------------------------------
(* The steps.                                                              *)

LEMMA CompleteIsFinite ==
    ASSUME NEW file \in Seq(FileLine)
    PROVE  IsFiniteSet(Complete(file)) /\ Len(file) + 1 \notin Complete(file)
<1>1. Complete(file) \in SUBSET (1 .. Len(file))
  BY DEF Complete
<1>2. IsFiniteSet(1 .. Len(file))
  BY FS_Interval
<1> QED
  BY <1>1, <1>2, FS_Subset

\* The log after a write that leaves a complete line of an accepted operation.
LEMMA WriteKept ==
    ASSUME LogInv, NEW op \in Operation, Accepts(Events, op),
           NEW form \in {"whole", "unended"},
           actions' = Append(Terminated(actions), Line(form, op))
    PROVE  LogInv' /\ Events' = Append(Events, op)
<1>1. Line(form, op) \in FileLine /\ Line(form, op).form = form /\ Line(form, op).op = op
  BY DEF Line, FileLine
<1>2. /\ actions' \in Seq(FileLine)
      /\ OnlyLastOpen(actions')
      /\ Complete(actions') = Complete(actions) \cup {Len(actions) + 1}
      /\ After(actions') = Append(After(actions), op)
  BY <1>1, AppendedEvents DEF LogInv, Events, After
<1>3. Events' = Append(Events, op)
  BY <1>2 DEF Events, After
<1>4. Cardinality(Complete(actions')) = Cardinality(Complete(actions)) + 1
  BY <1>2, CompleteIsFinite, FS_AddElement DEF LogInv
<1>5. Append(Events, op) \in Seq(Operation) /\ Len(Append(Events, op)) = Len(Events) + 1
  BY DEF LogInv
<1> QED
  BY <1>2, <1>3, <1>4, <1>5 DEF LogInv, OnlyLastOpen

\* The log after a write that was cut off within the line or before it.
LEMMA TornKept ==
    ASSUME LogInv,
           \/ actions' = Terminated(actions)
           \/ actions' = Append(Terminated(actions), Line("torn", None))
    PROVE  LogInv' /\ Events' = Events
<1>1. Line("torn", None) \in FileLine /\ Line("torn", None).form \notin {"whole", "unended"}
  BY DEF Line, FileLine
<1>2. /\ actions' \in Seq(FileLine)
      /\ OnlyLastOpen(actions')
      /\ Complete(actions') = Complete(actions)
      /\ After(actions') = After(actions)
  <2>1. actions \in Seq(FileLine) /\ OnlyLastOpen(actions)
    BY DEF LogInv
  <2>2. CASE actions' = Terminated(actions)
    BY <2>1, <2>2, TerminatedEvents, TerminatedReads
  <2>3. CASE actions' = Append(Terminated(actions), Line("torn", None))
    <3> DEFINE l == Line("torn", None)
    <3> HIDE DEF l
    <3>1. l \in FileLine /\ l.form \notin {"whole", "unended"}
      BY <1>1 DEF l
    <3>2. actions' = Append(Terminated(actions), l)
      BY <2>3 DEF l
    <3> QED
      BY <2>1, <3>1, <3>2, AppendedEvents
  <2> QED
    BY <2>2, <2>3
<1>3. Events' = Events
  BY <1>2 DEF Events, After
<1> QED
  BY <1>2, <1>3 DEF LogInv, OnlyLastOpen

LEMMA QuietKept ==
    ASSUME LogInv, UNCHANGED actions
    PROVE  LogInv' /\ Events' = Events
BY DEF LogInv, Events, OnlyLastOpen, Open, Complete

-----------------------------------------------------------------------------
LEMMA InitHolds == LogInit => LogInv /\ Events = <<>>
<1> SUFFICES ASSUME LogInit PROVE LogInv /\ Events = <<>>
  OBVIOUS
<1>1. actions = <<>> /\ Len(actions) = 0
  BY DEF LogInit
<1>2. Events = <<>>
  BY <1>1, UpToUnfolds DEF Events
<1>3. Complete(actions) = {} /\ OnlyLastOpen(actions) /\ actions \in Seq(FileLine)
  BY <1>1 DEF Complete, OnlyLastOpen
<1> QED
  BY <1>1, <1>2, <1>3, FS_EmptySet DEF LogInv

LEMMA SameCount == ASSUME NEW S PROVE History!Cardinality(S) = Cardinality(S)
BY DEF Cardinality, History!Cardinality

\* Every step keeps the invariant and is a step of the history, or none.
LEMMA StepHolds ==
    LogInv /\ [LogNext]_logVars =>
        /\ LogInv'
        /\ [\E op \in Operation : History!Commit(op) \/ History!Answer(op)]_(History!historyVars)
<1> SUFFICES ASSUME LogInv, [LogNext]_logVars
             PROVE  /\ LogInv'
                    /\ \/ \E op \in Operation : History!Commit(op) \/ History!Answer(op)
                       \/ UNCHANGED <<Events, answered>>
  BY DEF History!historyVars
<1>1. CASE UNCHANGED logVars
  BY <1>1, QuietKept DEF logVars
<1>2. ASSUME NEW op \in Operation, Repeat(op)
      PROVE  LogInv' /\ History!Answer(op)
  BY <1>2, QuietKept DEF Repeat, History!Answer
<1>3. ASSUME NEW op \in Operation, Mutate(op)
      PROVE  LogInv' /\ History!Commit(op)
  <2>1. LogInv' /\ Events' = Append(Events, op)
    BY <1>3, WriteKept DEF Mutate
  <2> QED
    BY <1>3, <2>1, SameCount DEF Mutate, Accepts, History!Commit, History!RevisionOf
<1>4. ASSUME NEW op \in Operation, MutateCut(op)
      PROVE  LogInv' /\ (History!Commit(op) \/ UNCHANGED <<Events, answered>>)
  <2>1. Accepts(Events, op) /\ UNCHANGED answered
    BY <1>4 DEF MutateCut
  <2>2. CASE \/ actions' = Terminated(actions)
             \/ actions' = Append(Terminated(actions), Line("torn", None))
    BY <2>1, <2>2, TornKept
  <2>3. ASSUME NEW form \in {"whole", "unended"},
               actions' = Append(Terminated(actions), Line(form, op))
        PROVE  LogInv' /\ History!Commit(op)
    <3>1. LogInv' /\ Events' = Append(Events, op)
      BY <2>1, <2>3, WriteKept
    <3> QED
      BY <2>1, <3>1, SameCount DEF Accepts, History!Commit, History!RevisionOf
  <2> QED
    BY <1>4, <2>2, <2>3 DEF MutateCut
<1> QED
  BY <1>1, <1>2, <1>3, <1>4 DEF LogNext

THEOREM LogInvariant == LogSpec => []LogInv
BY InitHolds, StepHolds, PTL DEF LogSpec

\* No event that was ever written completely is ignored by a replay: no later
\* write runs into it, and none has the wrong revision or a key that was used.
THEOREM CompleteCounts == LogSpec => []OnlyTornIgnored
<1>1. LogInv => OnlyTornIgnored
  BY DEF LogInv, OnlyTornIgnored, Complete
<1> QED
  BY <1>1, LogInvariant, PTL

\* The log refines a history: events that were read stay where they are, a key
\* takes effect once, and what was answered has taken effect.
THEOREM HistoryImplemented == LogSpec => ImplementsHistory
<1>1. LogInit => History!HistoryInit
  BY InitHolds DEF LogInit, History!HistoryInit
<1> QED
  BY <1>1, InitHolds, StepHolds, LogInvariant, PTL DEF LogSpec, ImplementsHistory, History!HistorySpec
=============================================================================
