----------------------------- MODULE MCStoreRegistry -----------------------------
(* Instances of StoreRegistry for TLC. *)
EXTENDS StoreRegistry, TLC

CONSTANTS r1, r2, r3, k1, k2, s1, s2, s3, w1, w2, v1, v2

Blank == [f \in Fields |-> None]
Owner == [role |-> "owner", scope |-> StoreIds]
Admin == [role |-> "admin", scope |-> {s1}]
Outsider == [role |-> "admin", scope |-> {}]

Create(k, by, w) == [op |-> "create", key |-> k, by |-> by, store |-> None,
                     body |-> [key |-> w, identity |-> [Blank EXCEPT !["name"] = v1]]]
Update(k, by, s, patch) ==
  [op |-> "update", key |-> k, by |-> by, store |-> s, body |-> patch]
Note(k, by, s) == [op |-> "note", key |-> k, by |-> by, store |-> s, body |-> None]

Rename(v) == [f \in {"name"} |-> v]
Retime(v) == [f \in {"timezone"} |-> v]
Manage(v) == [f \in {"managed_from", "name"} |-> v]
NoField == [f \in {} |-> v1]

\* Registrations of one Walmart store and of another, patches of a store that is
\* there and of one that may come to be, notes, the empty patch, callers whose
\* role or scope does not allow what they ask.
MixedCalls ==
  {Create(k, Owner, w) : k \in Keys, w \in WalmartKeys}
  \cup {Update(k, Owner, s1, p) : k \in Keys, p \in {Rename(v1), Retime(v1)}}
  \cup {Update(k1, Owner, s1, Manage(v2)), Update(k1, Owner, s2, Rename(v2)), Note(k2, Admin, s1),
        Update(k1, Owner, s1, NoField), Update(k2, Admin, s1, Manage(v1)),
        Create(k1, Admin, w2), Update(k2, Outsider, s1, Rename(v2))}
NoScope == {{}, {s1}}

Symmetry == Permutations(Requests)
================================================================================
