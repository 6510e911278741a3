----------------------------- MODULE MCGateway -----------------------------
(***************************************************************************)
(* TLC's instance of Gateway: a plain query, one over a limit that only    *)
(* the newer schema has, a mutation and one that asks for __typename; a    *)
(* public role and a clerk, whose tokens one secret signs.                 *)
(***************************************************************************)
EXTENDS Gateway, TLC

CONSTANTS none, r1, r2

MCTokens ==
  { [signer |-> "secret", role |-> "clerk", allowed |-> {}],
    [signer |-> "secret", role |-> none, allowed |-> {"clerk"}] }

F(path) == [kind |-> "field", path |-> path, renamed |-> FALSE, directives |-> 0]
Doc(operation, nodes) ==
  [operation |-> operation, nodes |-> nodes, directives |-> 0,
   meta |-> FALSE, word |-> operation = "mutation"]

MCDocuments ==
  [q \in {"plain", "wide", "change", "meta"} |->
   CASE q = "plain" -> Doc("query", {F(<<"me">>), F(<<"me", "id">>)})
     [] q = "wide" ->
          Doc("query", {F(<<"me">>), [F(<<"me", "a">>) EXCEPT !.renamed = TRUE],
                        [F(<<"me", "b">>) EXCEPT !.renamed = TRUE]})
     [] q = "change" -> Doc("mutation", {F(<<"place">>), F(<<"place", "id">>)})
     [] q = "meta" -> [Doc("query", {F(<<"__typename">>)}) EXCEPT !.meta = TRUE]]

MCSchemas == { {"plain", "change", "meta"}, {"wide", "meta"} }

MCConfigs ==
  { [batch |-> TRUE, persistedOnly |-> FALSE, rateLimit |-> TRUE,
     limits |-> [m \in Measures |-> IF m = "aliases" THEN 1 ELSE IF m = "depth" THEN 3 ELSE 0]],
    [batch |-> FALSE, persistedOnly |-> TRUE, rateLimit |-> FALSE,
     limits |-> [m \in Measures |-> 0]] }

MCEndpoints ==
  << [method |-> "GET", path |-> <<"api", ":">>, query |-> "plain"],
     [method |-> "GET", path |-> <<"api", "wide">>, query |-> "wide"] >>
MCCalls == { [method |-> "GET", path |-> <<"api", "wide">>], [method |-> "PUT", path |-> <<"api">>] }

Swap == Permutations({r1, r2})
=============================================================================
