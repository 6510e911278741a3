---------------------------- MODULE MCSchemaMerge ----------------------------
(***************************************************************************)
(* TLC's instance of SchemaMerge: the services of a small shop.  users     *)
(* owns User; orders and reviews extend it, orders with nothing of its     *)
(* own; posts repeats it without `extend`; items and vendors are stitched; *)
(* an SDL does not parse, and another refers to a type nobody defines.     *)
(***************************************************************************)
EXTENDS SchemaMerge

CONSTANT none

MCServices == {"users", "orders", "reviews", "posts", "items", "vendors", "broken"}

F(name, of) == [name |-> name, of |-> of, external |-> FALSE]
X(name, of) == [name |-> name, of |-> of, external |-> TRUE]
Object(type, fields) ==
  [type |-> type, kind |-> "object", extends |-> FALSE, keys |-> <<>>, fields |-> fields]
Entity(type, key, fields) == [Object(type, fields) EXCEPT !.keys = <<key>>]
Extend(d) == [d EXCEPT !.extends = TRUE]

MCDefinitions ==
  [s \in MCServices |->
   CASE s = "users" ->
          << Object("Query", {F("user", "User"), F("me", "User")}),
             Entity("User", {"id", "org"}, {F("id", "ID"), F("org", "ID"), F("name", "String")}) >>
     [] s = "orders" ->
          << Object("Query", {F("orders", "Order")}),
             Object("Mutation", {F("place", "Order")}),
             Object("Order", {F("id", "ID"), F("user", "User")}),
             Extend(Entity("User", {"id", "org"}, {X("id", "ID"), X("org", "ID")})) >>
     [] s = "reviews" ->
          << Object("Query", {F("reviews", "Review"), F("me", "User")}),
             Object("Review", {F("body", "String"), F("user", "User")}),
             Object("_Service", {F("body", "String")}),
             Extend(Entity("User", {"id", "org"}, {X("id", "ID"), X("org", "ID"),
                                                  F("reviews", "Review")})) >>
     [] s = "posts" ->
          << Object("Query", {F("posts", "Post")}),
             Object("Post", {F("body", "String"), F("user", "User")}),
             Entity("User", {"id", "org"}, {X("id", "ID"), X("org", "ID")}) >>
     [] s = "items" ->
          << Object("Query", {F("items", "Item")}),
             [Object("State", {}) EXCEPT !.kind = "enum"],
             Object("Item", {F("id", "ID"), F("state", "State"), F("vendor", "Vendor")}) >>
     [] s = "vendors" ->
          << Object("Query", {F("vendors", "Vendor")}),
             Object("Vendor", {F("id", "ID"), F("name", "String")}) >>
     [] OTHER -> << >>]

MCDeployments ==
  { {"users", "orders", "reviews"}, {"users", "posts"}, {"items", "vendors"},
    {"orders"}, {"users", "broken"} }

MCTypeNames ==
  {"Query", "Mutation", "Subscription", "User", "Order", "Review", "Post", "Item",
   "Vendor", "State", "ID", "String", "_Service"}
MCFieldNames ==
  {"user", "me", "orders", "place", "reviews", "posts", "items", "vendors", "vendor",
   "id", "org", "name", "body", "state", "__typename"}
=============================================================================
