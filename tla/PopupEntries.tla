----------------------------- MODULE PopupEntries -----------------------------
(***************************************************************************)
(* The registry document of state.Store (internal/state/state.go) and what  *)
(* each Store operation makes of the document it read.                      *)
(***************************************************************************)
CONSTANTS
  Keys,        \* scope keys, the keys of the "popups" object
  Panes        \* Herdr pane ids

\* state.Entry, as far as the operations look at it; a nil Hidden is FALSE.
Entry == [pane : Panes, hidden : BOOLEAN]

\* decodeRegistry's valid documents: the popups map, whatever keys it has.
Registries == UNION {[ks -> Entry] : ks \in SUBSET Keys}

\* defaultRegistry
Empty == [k \in {} |-> k]

Requests ==
  [op : {"get", "delete"}, key : Keys]
    \cup [op : {"set"}, key : Keys, pane : Panes]
    \cup [op : {"setHidden"}, key : Keys, hidden : BOOLEAN]
    \cup [op : {"deleteByPane", "deleteVisibleByPane"}, pane : Panes]

Without(reg, ks) == [k \in DOMAIN reg \ ks |-> reg[k]]
With(reg, k, e) == [j \in DOMAIN reg \cup {k} |-> IF j = k THEN e ELSE reg[j]]
OfPane(reg, w) == {k \in DOMAIN reg : reg[k].pane = w}

\* Set, SetHidden, Delete, DeleteByPaneID and DeleteVisibleByPaneID, from the
\* registry read to the registry written; Get leaves it alone.
Apply(r, reg) ==
  CASE r.op = "get" -> reg
    [] r.op = "set" -> With(reg, r.key, [pane |-> r.pane, hidden |-> FALSE])
    [] r.op = "setHidden" ->
         IF r.key \in DOMAIN reg THEN [reg EXCEPT ![r.key].hidden = r.hidden] ELSE reg
    [] r.op = "delete" -> Without(reg, {r.key})
    [] r.op = "deleteByPane" -> Without(reg, OfPane(reg, r.pane))
    [] r.op = "deleteVisibleByPane" ->
         Without(reg, {k \in OfPane(reg, r.pane) : ~reg[k].hidden})

\* The operations that return after the read: Get, and SetHidden of a key the
\* registry does not have.
Writes(r, reg) ==
  r.op # "get" /\ (r.op = "setHidden" => r.key \in DOMAIN reg)
===============================================================================
