----------------------------- MODULE Presenters -----------------------------
(***************************************************************************)
(* How the page groups the hops of a trace under the hop that triggered    *)
(* them: groupHopsByParent and flattenSupportHops of                       *)
(* frontend/src/lib/presenters.ts.  Hops are named by their position in    *)
(* the trace, because two of them may have the same index.  The order in   *)
(* which the hops of a group are listed is left out.                       *)
(***************************************************************************)
EXTENDS Integers, Sequences

CONSTANT NoParent     \* parent_index is null

(* A hop nobody shown triggered starts a group.                            *)
Parents(hops) ==
  {i \in DOMAIN hops :
     \/ hops[i].parent = NoParent
     \/ \A j \in DOMAIN hops : hops[j].index # hops[i].parent}

(* childrenByParent, looked up with the index of a hop.                    *)
Children(hops, i) == {j \in DOMAIN hops : hops[j].parent = hops[i].index}

(* The hops that flattenSupportHops lists at each depth, down to a depth   *)
(* that a recursion without end reaches and no other.                      *)
AtDepth(hops) ==
  LET hopsAt[d \in 0 .. Len(hops) + 1] ==
        IF d = 0 THEN Parents(hops) ELSE UNION {Children(hops, i) : i \in hopsAt[d - 1]}
  IN  hopsAt

(* flattenSupportHops returns.                                             *)
GroupingEnds(hops) == AtDepth(hops)[Len(hops) + 1] = {}

Shown(hops) == UNION {AtDepth(hops)[d] : d \in 0 .. Len(hops)}

=============================================================================
