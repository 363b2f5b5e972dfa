----------------------------- MODULE TaskGroups -----------------------------
(***************************************************************************)
(* What the ledger of continuation tasks promises: tasks of two sessions or *)
(* more, a session in one of them at most, that change by what the user     *)
(* asks for only, and ids that are not used again.                         *)
(***************************************************************************)
EXTENDS Naturals, SequencesExt

CONSTANTS Session, Task

VARIABLES
    groups,     \* the tasks, each with its sessions in order
    retired     \* the ids of tasks that are gone

groupVars == <<groups, retired>>

\* The steps are stated of the groups before, g, and after, h.
Grouped(g) == UNION {ToSet(g[t]) : t \in DOMAIN g}
SameBut(g, h, T) == \A t \in DOMAIN g \ T : t \in DOMAIN h /\ h[t] = g[t]

Begin(g, h, t) ==
    /\ t \notin retired
    /\ DOMAIN h = DOMAIN g \cup {t} /\ SameBut(g, h, {})
    /\ Len(h[t]) >= 2 /\ IsInjective(h[t])
    /\ ToSet(h[t]) \subseteq Session \ Grouped(g)
    /\ UNCHANGED retired

Join(g, h, t, s) ==
    /\ s \notin Grouped(g)
    /\ DOMAIN h = DOMAIN g /\ SameBut(g, h, {t})
    /\ h[t] \in {g[t] \o <<s>>, <<s>> \o g[t]}
    /\ UNCHANGED retired

Absorb(g, h, t, u) ==
    /\ t # u
    /\ DOMAIN h = DOMAIN g \ {u} /\ SameBut(g, h, {t, u})
    /\ h[t] \in {g[t] \o g[u], g[u] \o g[t]}
    /\ retired' = retired \cup {u}

Leave(g, h, t, s) ==
    /\ s \in ToSet(g[t])
    /\ SameBut(g, h, {t})
    /\ \/ /\ DOMAIN h = DOMAIN g /\ Len(g[t]) > 2
          /\ h[t] = RemoveFirst(g[t], s)
          /\ UNCHANGED retired
       \/ /\ DOMAIN h = DOMAIN g \ {t} /\ Len(g[t]) = 2
          /\ retired' = retired \cup {t}

GroupsInit == groups = <<>> /\ retired = {}

GroupsNext ==
    \E g \in {groups}, h \in {groups'} \ {groups} :
        \/ \E t \in Task \ DOMAIN g : Begin(g, h, t)
        \/ \E t \in DOMAIN g, s \in Session : Join(g, h, t, s) \/ Leave(g, h, t, s)
        \/ \E t, u \in DOMAIN g : Absorb(g, h, t, u)

GroupsSpec == GroupsInit /\ [][GroupsNext]_groupVars
=============================================================================
