----------------------------- MODULE MCQueryPlan -----------------------------
(***************************************************************************)
(* TLC's instance of QueryPlan: what clients ask of the small shop, who    *)
(* may, and how its stitched services are related.                         *)
(***************************************************************************)
EXTENDS QueryPlan, MCSchemaMerge

(* A merge and changes of the tables, or two merges.                       *)
MCBounds == (0..1) \X (0..2) \union {<<2, 0>>}

(* Selections are written as trees here, and turned into their places.     *)
N(name, sel) == [node |-> Leaf(name), sel |-> sel]
A(key, name, sel) == [N(name, sel) EXCEPT !.node.key = key]
On(type, sel) == [node |-> [kind |-> "fragment", name |-> type, key |-> type], sel |-> sel]
L(name) == N(name, {})
id == L("id")
name == L("name")

RECURSIVE PlacesIn(_)
PlacesIn(sel) ==
  UNION {{<<n.node>>} \union {<<n.node>> \o p : p \in PlacesIn(n.sel)} : n \in sel}

Query(sel) == [type |-> "Query", sel |-> PlacesIn(sel)]

MCDocuments ==
  { << Query({N("user", {id, name, L(TypeName), On("User", {L("org")})})}) >>,
    << Query({N("orders", {id, N("user", {name})}), N("me", {name})}) >>,
    << Query({N("orders", {N("user", {id})}), On("Query", {N("user", {id})})}),
       Query({N("user", {name}), N("reviews", {N("user", {name, N("reviews", {L("body")})})})}) >>,
    << Query({A("a", "orders", {N("user", {A("uid", "id", {}), name})}),
              A("b", "orders", {N("user", {name, On("User", {name})})})}) >>,
    << [type |-> "Mutation", sel |-> PlacesIn({N("place", {N("user", {name})})})] >>,
    << Query({N("posts", {N("user", {id, name})})}) >>,
    << Query({N("items", {L("state"), N("vendor", {name})}), N("vendors", {name})}) >> }

MCRules ==
  { [role |-> "public", service |-> "", type |-> "User", field |-> Every],
    [role |-> "public", service |-> "", type |-> "User", field |-> "name"],
    [role |-> "public", service |-> "users", type |-> "User", field |-> "name"] }

MCLinks ==
  { [name |-> "made by", service |-> "items", type |-> "Item", field |-> "vendor"],
    [name |-> "made by", service |-> "vendors", type |-> "Item", field |-> "vendor"] }
=============================================================================
