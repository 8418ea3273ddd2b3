--------------------------- MODULE ServedSnapshot ---------------------------
(***************************************************************************)
(* What the serving tables of a domain promise those who read them         *)
(* (load_gold_to_warehouse in src/warehouse/load_gold.py, warehouse_frames *)
(* in src/quality/warehouse.py and load_metric_series in                   *)
(* src/quality/anomaly_sources.py): they have one content, which a load    *)
(* replaces at once and never while somebody works on it, and a            *)
(* transaction looks at it once, however many tables it reads.             *)
(*                                                                         *)
(* A content is the set of the versions the tables are of, 0 for none.     *)
(***************************************************************************)
CONSTANTS Gate, Metrics

VARIABLES content, \* what is served
          base,    \* per gate: the content its transaction began with, {} outside of one
          view     \* per reader: what it has seen, {} for nothing yet
vars == <<content, base, view>>

Reader == Gate \cup Metrics
IsOne(versions) == \E v \in versions : versions = {v}
Empty == {0}

Init ==
    /\ IsOne(content)
    /\ base = [g \in Gate |-> {}] /\ view = [r \in Reader |-> {}]

\* A load is committed when no transaction has seen what it replaces.
Replace ==
    /\ \A r \in Reader : view[r] = {}
    /\ IsOne(content')
    /\ UNCHANGED <<base, view>>

Begin(g) ==
    /\ base[g] = {} /\ view[g] = {}
    /\ base' = [base EXCEPT ![g] = content]
    /\ UNCHANGED <<content, view>>

\* What is served now; a gate that began before finds the tables emptied.
Seen(r) == IF r \in Gate /\ base[r] # content THEN Empty ELSE content

See(r) ==
    /\ view[r] = {} /\ content # Empty
    /\ r \in Gate => base[r] \notin {{}, Empty}
    /\ view' = [view EXCEPT ![r] = Seen(r)]
    /\ UNCHANGED <<content, base>>

Leave(r) ==
    /\ view' = [view EXCEPT ![r] = {}]
    /\ base' = [g \in Gate |-> IF g = r THEN {} ELSE base[g]]
    /\ UNCHANGED content

Next ==
    \/ Replace
    \/ \E g \in Gate : Begin(g)
    \/ \E r \in Reader : See(r) \/ Leave(r)

Spec == Init /\ [][Next]_vars

\* Nobody works on what has been replaced: until a transaction ends, what it has seen
\* is what is served, but for a gate that came too late and has seen empty tables.
ViewIsCurrent ==
    \A r \in Reader : view[r] \in {{}, content} \/ (r \in Gate /\ view[r] = Empty)
=============================================================================
