------------------------------ MODULE RowIndex -------------------------------
(***************************************************************************)
(* What a secondary index promises: a set of (key, row locator) entries to *)
(* which entries are added one at a time and from which they are removed.  *)
(***************************************************************************)
CONSTANTS Keys, Locs

VARIABLE entries

Init == entries = {}

Insert(k, l) == entries' = entries \cup {<<k, l>>}

Delete(k, l) == entries' = entries \ {<<k, l>>}

Reset == entries' = {}

Next ==
    \/ \E k \in Keys, l \in Locs : Insert(k, l) \/ Delete(k, l)
    \/ Reset

Spec == Init /\ [][Next]_entries
=============================================================================
