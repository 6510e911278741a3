----------------------------- MODULE QueryPlan -----------------------------
(***************************************************************************)
(* The plan of a query: Planner.Plan and the walk that splits its          *)
(* selections by owning service (internal/planner/planner.go, sdl.go),     *)
(* over the schema SchemaMerge publishes, the permissions it asks          *)
(* (internal/auth/checker.go) and the relationships it looks up            *)
(* (internal/metadata/permission_repo.go, relationship_repo.go, changed    *)
(* through internal/metaapi/actions.go).                                   *)
(*                                                                         *)
(* A document is a sequence of operations, an operation the set of its     *)
(* places: a place is the way down to a field or fragment, itself the last *)
(* node.  A selection is thus a set of places, and what a step asks of its *)
(* service is one; arguments, variables and the query's text are left out. *)
(*                                                                         *)
(* The walk is recursive; what is on its stack are the visits still to     *)
(* make.  A turn of its loop is one step, or two where it is to a field:   *)
(* the permission first, then the rest, which may look up a relationship.  *)
(* The metadata can change between any two steps; the schema is read once. *)
(***************************************************************************)
EXTENDS SchemaMerge, SequencesExt

CONSTANTS
  Federated,   (* the services of type federation; others are stitched     *)
  Documents,   (* the documents clients send                               *)
  Aliases,     (* names clients give to fields                             *)
  Roles, Public,
  Rules,       (* the rows permissions may have: role, service, type and   *)
               (* field, Every for every field                             *)
  Links,       (* the rows relationships may have                          *)
  Bounds       (* bound: how many merges and how many changes of the two   *)
               (* tables there are together                                *)

Every == ""
TypeName == "__typename"

Node ==
  [kind : {"field"}, name : FieldNames, key : FieldNames \union Aliases]
  \union [kind : {"fragment"}, name : TypeNames, key : TypeNames]
Place == Seq(Node)
Operation == [type : RootTypes, sel : SUBSET Place]

ASSUME PlanAssumption ==
  /\ Federated \subseteq Services
  /\ Public \in Roles
  /\ "String" \in Scalars
  /\ <<0, 0>> \in Bounds /\ Bounds \subseteq Nat \X Nat
  /\ None \notin {"allow", "deny", "invalid", "denied", "failed"}
  /\ None \notin [doc : Documents, role : Roles]
  /\ \A r \in Rules : r.role \in Roles /\ r.type # Every
  /\ \A l \in Links : l.service \in Services /\ l.field \in FieldNames

(* What is selected below a node is a place only if the node is.           *)
ASSUME DocumentsAreTrees ==
  \A doc \in Documents :
    /\ doc \in Seq(Operation)
    /\ \A i \in DOMAIN doc : \A p \in doc[i].sel :
         p # <<>> /\ (Len(p) > 1 => Front(p) \in doc[i].sel)

VARIABLES
  permissions,  (* permissions table: whether a rule allows, None if absent *)
  links,        (* relationships table: the rows it has                    *)
  edits,        (* how often the two have changed                          *)
  request,      (* the document being planned and its role, or None        *)
  schema,       (* the schema Plan read                                    *)
  visits,       (* the turns of the walk's loop still to take              *)
  checked,      (* the one whose field has been found to be allowed, if any *)
  asked,        (* the places each root step asks its service for          *)
  steps,        (* the dependent steps                                     *)
  error,        (* why there is no plan, None while there is no reason     *)
  inForce,      (* history: the tables since the plan was begun            *)
  unlinked      (* history: the visits whose lookup of a relationship failed *)

tables == [permissions |-> permissions, links |-> links]
walkVars == <<request, schema, visits, checked, asked, steps, error, unlinked>>
tableVars == <<permissions, links, edits>>
planVars == <<tableVars, inForce, walkVars>>
vars == <<mergeVars, planVars>>

-----------------------------------------------------------------------------
Leaf(name) == [kind |-> "field", name |-> name, key |-> name]
IsField(n) == n.kind = "field"

(* What is selected below place p.                                         *)
Below(sel, p) == {q \in sel : IsStrictPrefix(p, q)}
Children(sel, p) == {q \in Below(sel, p) : Len(q) = Len(p) + 1}
Asks(sel, p, name) == \E q \in Children(sel, p) : IsField(Last(q)) /\ Last(q).name = name

(* The type of a field of the merged schema, None where there is none.     *)
FieldType(m, t, name) ==
  IF name = TypeName THEN "String"
  ELSE IF t \in RootTypes
  THEN IF m.roots[t][name] = None THEN None ELSE m.roots[t][name].of
  ELSE IF t = None \/ m.types[t] = None \/ name \notin NamesIn(m.types[t].fields) THEN None
  ELSE (CHOOSE f \in m.types[t].fields : f.name = name).of

NodeType(m, t, n) == IF IsField(n) THEN FieldType(m, t, n.name) ELSE n.name

(* The type of what is at place p of a selection on type t.                *)
TypeAt(m, t, p) ==
  LET T[i \in 0..Len(p)] == IF i = 0 THEN t ELSE NodeType(m, T[i - 1], p[i])
  IN  T[Len(p)]

IsScalarOrEnum(m, t) ==
  t \in Scalars \/ (m.types[t] # None /\ m.types[t].kind \in {"scalar", "enum"})

OwnerOf(m, t) == IF t \in Scalars \/ m.types[t] = None THEN None ELSE m.types[t].owner

(* The validation of LoadQuery: fields and types exist, and the fields     *)
(* with a selection are those that need one.                               *)
Validates(m, op) ==
  \A p \in op.sel :
    LET of == TypeAt(m, op.type, p) IN
    IF IsField(Last(p))
    THEN of # None /\ (Below(op.sel, p) = {} <=> IsScalarOrEnum(m, of))
    ELSE of \in RootTypes \/ m.types[of] # None

-----------------------------------------------------------------------------
(* Checker.CanAccess: of the rows that match, the one for the field itself *)
(* comes before the one for all the type's; without a row only the public  *)
(* role may.  The column service is not asked for, so several rows can be  *)
(* first: which of them SQLite returns is open, and so is the answer.      *)

Matching(role, t, name) ==
  {r \in Rules : permissions[r] # None /\ r.role = role
                 /\ r.type \in {t, Every} /\ r.field \in {name, Every}}

(* No order on the fields: any row that matches.                           *)
RankByType(r, t, name) == IF r.type = t THEN 0 ELSE 1

Rank(r, t, name) == (IF r.type = t THEN 0 ELSE 2) + (IF r.field = name THEN 0 ELSE 1)

First(role, t, name) ==
  LET rows == Matching(role, t, name) IN
  {r \in rows : \A q \in rows : Rank(r, t, name) <= Rank(q, t, name)}

CanAccess(role, t, name) ==
  IF name = TypeName THEN {TRUE}
  ELSE IF Matching(role, t, name) = {} THEN {role = Public}
  ELSE {permissions[r] = "allow" : r \in First(role, t, name)}

-----------------------------------------------------------------------------
(* The operators of the walk.                                              *)

(* entityKeyFields: the owner's, or any service's, whichever the iteration *)
(* of a map comes to.                                                      *)
KeyChoices(m, t) ==
  LET known == {s \in Services : m.keys[t][s] # {}}
      owner == OwnerOf(m, t) IN
  IF owner \in known THEN {m.keys[t][owner]} ELSE {m.keys[t][s] : s \in known}

(* The places of the keys put below p, only if it selects none of them.    *)
InjectUnlessSome(sel, p, keys) ==
  {Append(p, Leaf(k)) : k \in {x \in keys : ~\E y \in keys : Asks(sel, p, y)}}

InjectKeyFields(sel, p, keys) == {Append(p, Leaf(k)) : k \in {x \in keys : ~Asks(sel, p, x)}}

(* Nested selections left out of what the owner is asked.                  *)
OnlyLeaves(sel, p, keys) ==
  {q \in Children(sel, p) : ~(IsField(Last(q)) /\ Last(q).name \in keys)}

OnlyNonKeyFields(sel, p, keys) ==
  {q \in Below(sel, p) : ~(IsField(q[Len(p) + 1]) /\ q[Len(p) + 1].name \in keys)}

(* Fields that stay with service s: its own types and those of nobody.     *)
StaysLocal(m, s, t) == OwnerOf(m, t) \in {None, s}

(* A relationship looked up by its type and field alone.                   *)
FindAnyRelationship(s, t, name) == {l \in links : l.type = t /\ l.field = name}

FindRelationship(s, t, name) ==
  {l \in links : l.service = s /\ l.type = t /\ l.field = name}

IsEntity(m, s, t) == {s, OwnerOf(m, t)} \intersect Federated # {}

Names(p) == [i \in DOMAIN p |-> p[i].name]
Keys(p) == [i \in DOMAIN p |-> p[i].key]

-----------------------------------------------------------------------------
(* A visit is one turn of the loop for the service svc: to a field or      *)
(* fragment of operation op, selected on type def.                         *)
Visit == [op : Nat, svc : Services, place : Place, def : TypeNames]

(* A dependent step of the root step of op for service from.  Its          *)
(* MergePath is names, and what it asks service svc are the places sel.    *)
Step ==
  [kind : {"entity", "join"}, op : Nat, from : Services, place : Place, svc : Services,
   keys : SUBSET FieldNames, names : Seq(FieldNames \union TypeNames), sel : SUBSET Place]

TypeOK ==
  /\ MergeTypeOK
  /\ permissions \in [Rules -> {"allow", "deny", None}]
  /\ links \in SUBSET Links
  /\ edits \in Nat
  /\ request \in {None} \union [doc : Documents, role : Roles]
  /\ request # None => schema \in Schema
  /\ visits \subseteq Visit /\ checked \subseteq Visit
  /\ asked \subseteq [op : Nat, svc : Services, place : Place]
  /\ steps \subseteq Step
  /\ error \in {None, "invalid", "denied", "failed"}
  /\ unlinked \subseteq Visit

Init ==
  /\ MergeInit
  /\ permissions = [r \in Rules |-> None]
  /\ links = {} /\ edits = 0
  /\ request = None /\ schema = None /\ visits = {} /\ checked = {} /\ asked = {} /\ steps = {}
  /\ error = None /\ unlinked = {} /\ inForce = {}

Free == request = None

Selection(v) == request.doc[v.op].sel
FieldOf(v) == Last(v.place).name
TypeOf(v) == FieldType(schema, v.def, FieldOf(v))

(* currentType: "Query" for the root fields of every operation.            *)
CurrentType(v) == IF Len(v.place) = 1 THEN "Query" ELSE v.def

(* Operations come one after the other, and the walk goes down before it   *)
(* goes on; the fields of one level come in any order.                     *)
Turn(v) ==
  checked = {} /\ \A w \in visits : v.op < w.op \/ (v.op = w.op /\ Len(w.place) <= Len(v.place))

Allow(v) ==
  /\ Turn(v) /\ IsField(Last(v.place))
  /\ TRUE \in CanAccess(request.role, CurrentType(v), FieldOf(v))
  /\ checked' = {v}
  /\ UNCHANGED <<request, schema, visits, asked, steps, error, unlinked, inForce, tableVars, mergeVars>>

Allowed(v) == v \in checked

(* The turn ends: places are asked of the service walked for, steps are    *)
(* made, and more turns follow.                                            *)
Ends(v, places, made, more) ==
  /\ visits' = (visits \ {v}) \union more /\ checked' = {}
  /\ asked' = asked \union {[op |-> v.op, svc |-> v.svc, place |-> p] : p \in places}
  /\ steps' = steps \union made
  /\ UNCHANGED <<request, schema, error, inForce, tableVars, mergeVars>>

(* The node with all that is selected below it.                            *)
Whole(v) == {v.place} \union Below(Selection(v), v.place)
Keeps(v) == Ends(v, Whole(v), {}, {}) /\ UNCHANGED unlinked

(* Only the fragment itself is put down.                                   *)
KeepFragmentBare(v) ==
  /\ Turn(v) /\ ~IsField(Last(v.place))
  /\ Ends(v, {v.place}, {}, {}) /\ UNCHANGED unlinked

(* Fragments are taken as they are, and nobody is asked about them.        *)
KeepFragment(v) ==
  /\ Turn(v) /\ ~IsField(Last(v.place))
  /\ Keeps(v)

KeepLeaf(v) ==
  /\ Allowed(v) /\ IsScalarOrEnum(schema, TypeOf(v))
  /\ Keeps(v)

Composed(v) == Allowed(v) /\ ~IsScalarOrEnum(schema, TypeOf(v))

(* The recursion.                                                          *)
Descend(v) ==
  /\ Composed(v) /\ StaysLocal(schema, v.svc, TypeOf(v))
  /\ Ends(v, {v.place}, {},
          {[op |-> v.op, svc |-> v.svc, place |-> p, def |-> TypeOf(v)] :
             p \in Children(Selection(v), v.place)})
  /\ UNCHANGED unlinked

(* A field whose type another service owns: an _entities step where one of *)
(* the two is federated and a key is known, a join where a relationship    *)
(* is, or else the field as it is.                                         *)
Crosses(v) == Composed(v) /\ ~StaysLocal(schema, v.svc, TypeOf(v))
Joins(v) == Crosses(v) /\ ~IsEntity(schema, v.svc, TypeOf(v))

(* A step sent to the owner its type has by now.                           *)
StepToLatest(v, kind, keys, sel) ==
  [kind |-> kind, op |-> v.op, from |-> v.svc, place |-> v.place,
   svc |-> OwnerOf(merged.schema, TypeOf(v)), keys |-> keys, names |-> Names(v.place), sel |-> sel]

StepFrom(v, kind, keys, sel) ==
  [kind |-> kind, op |-> v.op, from |-> v.svc, place |-> v.place,
   svc |-> OwnerOf(schema, TypeOf(v)), keys |-> keys, names |-> Names(v.place), sel |-> sel]

AskEntity(v, keys) ==
  LET sel == OnlyNonKeyFields(Selection(v), v.place, keys) IN
  /\ Crosses(v) /\ IsEntity(schema, v.svc, TypeOf(v))
  /\ keys \in KeyChoices(schema, TypeOf(v))
  /\ Ends(v, Whole(v) \union InjectKeyFields(Selection(v), v.place, keys),
          IF sel = {} THEN {} ELSE {StepFrom(v, "entity", keys, sel)}, {})
  /\ UNCHANGED unlinked

KeepUnkeyed(v) ==
  /\ Crosses(v) /\ IsEntity(schema, v.svc, TypeOf(v))
  /\ KeyChoices(schema, TypeOf(v)) = {}
  /\ Keeps(v)

AskJoin(v, l) ==
  /\ Joins(v)
  /\ l \in FindRelationship(v.svc, CurrentType(v), FieldOf(v))
  /\ Ends(v, Whole(v) \union InjectKeyFields(Selection(v), v.place, {l.field}),
          {StepFrom(v, "join", {l.field}, Below(Selection(v), v.place))}, {})
  /\ UNCHANGED unlinked

KeepUnlinked(v) ==
  /\ Joins(v)
  /\ FindRelationship(v.svc, CurrentType(v), FieldOf(v)) = {}
  /\ Keeps(v)

(* A lookup that fails is taken for one that finds nothing.                *)
LookupFails(v) ==
  /\ Joins(v)
  /\ Ends(v, Whole(v), {}, {})
  /\ unlinked' = unlinked \union {v}

(* A permission that is missing, or not to be found out, ends it all.      *)
Fails(why) ==
  /\ error' = why
  /\ visits' = {} /\ checked' = {} /\ asked' = {} /\ steps' = {}
  /\ UNCHANGED <<request, schema, inForce, unlinked, tableVars, mergeVars>>

Deny(v) ==
  /\ Turn(v) /\ IsField(Last(v.place))
  /\ FALSE \in CanAccess(request.role, CurrentType(v), FieldOf(v))
  /\ Fails("denied")

CheckFails(v) ==
  /\ Turn(v) /\ IsField(Last(v.place)) /\ FieldOf(v) # TypeName
  /\ Fails("failed")

TakeTurn(v) ==
  \/ Allow(v) \/ KeepFragment(v) \/ KeepLeaf(v) \/ Descend(v)
  \/ KeepUnkeyed(v) \/ KeepUnlinked(v) \/ LookupFails(v)
  \/ Crosses(v) /\ \E keys \in KeyChoices(schema, TypeOf(v)) : AskEntity(v, keys)
  \/ \E l \in links : AskJoin(v, l)
  \/ Deny(v) \/ CheckFails(v)

(* planOperation: the root fields grouped by owner; fragments are skipped, *)
(* and a field nobody owns is an error.                                    *)
RootFields(op) == {p \in op.sel : Len(p) = 1 /\ IsField(p[1])}
Owned(m, op) ==
  \A p \in RootFields(op) : p[1].name # TypeName /\ m.roots[op.type][p[1].name] # None
RootOwner(m, op, p) == m.roots[op.type][p[1].name].owner

Plannable(m, doc) == \A i \in DOMAIN doc : Validates(m, doc[i]) /\ Owned(m, doc[i])

RootVisits(m, doc) ==
  UNION {{[op |-> i, svc |-> RootOwner(m, doc[i], p), place |-> p, def |-> doc[i].type] :
            p \in RootFields(doc[i])} : i \in DOMAIN doc}

(* A request is planned with the schema of the moment.  That a later       *)
(* operation has a field nobody owns is found out here, not after the      *)
(* walks of those before it.                                               *)
Plan(doc, role) ==
  /\ Free /\ merged # None
  /\ request' = [doc |-> doc, role |-> role]
  /\ schema' = merged.schema
  /\ IF Plannable(merged.schema, doc)
     THEN visits' = RootVisits(merged.schema, doc) /\ error' = None
     ELSE visits' = {} /\ error' = "invalid"
  /\ checked' = {} /\ asked' = {} /\ steps' = {} /\ unlinked' = {}
  /\ inForce' = {tables}
  /\ UNCHANGED <<mergeVars, tableVars>>

(* The plan, or the error, is handed over.                                 *)
Finish ==
  /\ ~Free /\ visits = {}
  /\ request' = None /\ schema' = None /\ checked' = {} /\ asked' = {} /\ steps' = {}
  /\ error' = None /\ unlinked' = {} /\ inForce' = {}
  /\ UNCHANGED <<mergeVars, tableVars, visits>>

-----------------------------------------------------------------------------
Metadata ==
  /\ edits' = edits + 1 /\ <<changes, edits'>> \in Bounds
  /\ inForce' = IF Free THEN {} ELSE inForce \union {tables'}
  /\ UNCHANGED <<mergeVars, walkVars>>

UpsertPermission(r, allow) ==
  /\ permissions' = [permissions EXCEPT ![r] = allow]
  /\ UNCHANGED links
  /\ Metadata

DeletePermission(r) ==
  /\ permissions[r] # None
  /\ permissions' = [permissions EXCEPT ![r] = None]
  /\ UNCHANGED links
  /\ Metadata

UpsertRelationship(l) ==
  /\ links' = {k \in links : k.name # l.name} \union {l}
  /\ UNCHANGED permissions
  /\ Metadata

DeleteRelationship(l) ==
  /\ l \in links
  /\ links' = links \ {l}
  /\ UNCHANGED permissions
  /\ Metadata

Next ==
  \/ MergeNext /\ <<changes', edits>> \in Bounds /\ UNCHANGED planVars
  \/ \E r \in Rules : DeletePermission(r) \/ \E a \in {"allow", "deny"} : UpsertPermission(r, a)
  \/ \E l \in Links : UpsertRelationship(l) \/ DeleteRelationship(l)
  \/ \E doc \in Documents, role \in Roles : Plan(doc, role)
  \/ \E v \in visits : TakeTurn(v)
  \/ Finish

Spec == Init /\ [][Next]_vars

-----------------------------------------------------------------------------
(* Properties: the plan against the query, place by place.  Chains are the *)
(* places of the fields outside fragments.                                 *)

Chains(op) == {p \in op.sel : \A i \in DOMAIN p : IsField(p[i])}

(* The fields the walk of their root's owner comes to.                     *)
Reached(m, op) ==
  {c \in Chains(op) : \A p \in op.sel :
     IsStrictPrefix(p, c) => StaysLocal(m, RootOwner(m, op, c), TypeAt(m, op.type, p))}

(* Those of them whose type is another service's.                          *)
Leaving(m, op) ==
  {c \in Reached(m, op) :
     LET t == TypeAt(m, op.type, c) IN
     ~IsScalarOrEnum(m, t) /\ ~StaysLocal(m, RootOwner(m, op, c), t)}

(* The type the tables know a field under.                                 *)
TypeAbove(m, op, c) == IF Len(c) = 1 THEN "Query" ELSE TypeAt(m, op.type, Front(c))

Planned == request # None /\ error = None /\ visits = {}
IsAsked(i, s, p) == [op |-> i, svc |-> s, place |-> p] \in asked

(* What stands in a fragment at the root of an operation is lost: the plan *)
(* asks nobody for it, and the query is answered without it and without an *)
(* error (planner.go:211-215, "skip for now").  Nothing else is: every     *)
(* other place of the query, a field or a fragment, in a nested fragment   *)
(* or not, is asked of the service that is to resolve it, of its root's    *)
(* owner and of no other root step; or where a field above it leaves that  *)
(* service, and it is no key nor below one, by the dependent step.         *)
BelowKey(d, c) == LET n == c[Len(d.place) + 1] IN IsField(n) /\ n.name \in d.keys

Covered(i, c) ==
  LET s == RootOwner(schema, request.doc[i], c)
      above == {d \in steps : d.op = i /\ IsStrictPrefix(d.place, c)} IN
  IF above = {} THEN IsAsked(i, s, c)
  ELSE \E d \in above : c \in d.sel \/ (BelowKey(d, c) /\ IsAsked(i, s, c))

OnlyRootFragmentsAreLost ==
  Planned => \A i \in DOMAIN request.doc : \A c \in request.doc[i].sel :
    LET asking == {a.svc : a \in {b \in asked : b.op = i /\ b.place = c}} IN
    IF IsField(c[1])
    THEN Covered(i, c) /\ asking \subseteq {RootOwner(schema, request.doc[i], c)}
    ELSE asking = {} /\ \A d \in steps : d.op = i => c \notin d.sel

(* A field whose type another service owns gets at most one dependent      *)
(* step, sent to that service, and gets one if there are keys to find the  *)
(* objects by and something else to ask, or a relationship; no other field *)
(* gets one.                                                               *)
Linked(rows, s, t, name) == \E l \in rows : l.service = s /\ l.type = t /\ l.field = name

OnlyAsks(sel, p, keys) == \A q \in Children(sel, p) : IsField(Last(q)) /\ Last(q).name \in keys

StepFits(i, c) ==
  LET m == schema
      op == request.doc[i]
      s == RootOwner(m, op, c)
      t == TypeAt(m, op.type, c)
      made == {d \in steps : d.op = i /\ d.place = c}
      linked(x) == Linked(x.links, s, TypeAbove(m, op, c), Last(c).name) IN
  /\ \A d, e \in made : d = e
  /\ \A d \in made : d.from = s /\ d.svc = OwnerOf(m, t)
  /\ IF IsEntity(m, s, t)
     THEN IF made = {}
          THEN KeyChoices(m, t) = {} \/ \E keys \in KeyChoices(m, t) : OnlyAsks(op.sel, c, keys)
          ELSE \A d \in made : d.keys \in KeyChoices(m, t) /\ ~OnlyAsks(op.sel, c, d.keys)
     ELSE IF made = {}
          THEN \/ \E x \in inForce : ~linked(x)
               \/ \E v \in unlinked : v.op = i /\ v.place = c
          ELSE \E x \in inForce : linked(x)

OneStepPerCrossing ==
  Planned => \A i \in DOMAIN request.doc :
    LET leaving == Leaving(schema, request.doc[i]) IN
    /\ \A d \in steps : d.op = i => d.place \in leaving
    /\ \A c \in leaving : StepFits(i, c)

(* The answer of a root step holds what its dependents look their objects  *)
(* up by, at the path they look it up at, as long as the client renames    *)
(* neither the path nor the key.                                           *)
KeyIsAsked(d, k) ==
  LET renamed == \E c \in Children(request.doc[d.op].sel, d.place) :
                   IsField(Last(c)) /\ Last(c).name = k /\ Last(c).key # k IN
  (Keys(d.place) = d.names /\ ~renamed)
  => \E a \in asked : a.op = d.op /\ a.svc = d.from /\ Keys(a.place) = Append(d.names, k)

KeysAreAsked == Planned => \A d \in steps : \A k \in d.keys : KeyIsAsked(d, k)

(* What permissions say of a field: the rows for the field itself, or      *)
(* those for its type, or the default of the role.                         *)
Verdicts(rows, role, t, name) ==
  LET about(f) == {rows[r] : r \in {x \in Rules : x.role = role /\ x.type = t
                                                  /\ x.field = f}} \ {None} IN
  IF name = TypeName THEN {"allow"}
  ELSE IF about(name) # {} THEN about(name)
  ELSE IF about(Every) # {} THEN about(Every)
  ELSE {IF role = Public THEN "allow" ELSE "deny"}

(* What was said of a field since the plan was begun.                      *)
Said(i, c) ==
  UNION {Verdicts(x.permissions, request.role, TypeAbove(schema, request.doc[i], c), Last(c).name) :
           x \in inForce}

(* A query is planned only if it is valid and every field the walk comes   *)
(* to was allowed; a valid one is refused only if one of them was denied,  *)
(* or could not be looked up.  The most specific rule decides; where rules *)
(* of two services contradict each other, or change during the walk,       *)
(* either of them may.  Of two kinds of fields nothing is said, for they   *)
(* are sent without a check: those in fragments (planner.go:301-305) and   *)
(* those below a field whose type another service owns (:352-438).         *)
(* Without any rule a role other than the public one may do nothing        *)
(* (checker.go:25, :50), where the page that lists the rules says "All     *)
(* roles have full access" (web/src/admin/PermissionsTab.tsx:43).          *)
WalkIsAllowed ==
  request # None =>
    /\ error = "invalid" <=> ~Plannable(schema, request.doc)
    /\ Planned => \A i \in DOMAIN request.doc : \A c \in Reached(schema, request.doc[i]) :
         "allow" \in Said(i, c)
    /\ error = "denied" =>
         \E i \in DOMAIN request.doc : \E c \in Reached(schema, request.doc[i]) :
           "deny" \in Said(i, c)
    /\ error = "failed" =>
         \E i \in DOMAIN request.doc : \E c \in Reached(schema, request.doc[i]) :
           Last(c).name # TypeName

IsDefinedBy(s, t, name) ==
  name = TypeName \/ \E d \in About(s, t) : name \in NamesIn(d.fields)

(* The selection a root step sends holds only fields its service defines.  *)
AsksOnlyWhatIsDefined ==
  Planned => \A a \in asked :
    (\A j \in DOMAIN a.place : IsField(a.place[j])) =>
      IsDefinedBy(a.svc, TypeAt(schema, request.doc[a.op].type, Front(a.place)), Last(a.place).name)
=============================================================================
