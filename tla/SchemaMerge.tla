---------------------------- MODULE SchemaMerge ----------------------------
(***************************************************************************)
(* The merge of the services' SDLs into the one schema the gateway serves: *)
(* Planner.Update and the merger (internal/planner/planner.go, merger.go,  *)
(* sdl.go).                                                                *)
(*                                                                         *)
(* An SDL is a sequence of definitions, `extend` ones last, as Merge goes  *)
(* through them.  A definition is its name, its kind, whether it extends,  *)
(* the field sets of its @key directives, and its fields: name, named type *)
(* and whether it is @external.  Arguments, descriptions, enum values and  *)
(* the text of the merged SDL are left out.  Entries come from a Go map,   *)
(* so the services are merged in any order; which they are when, and two   *)
(* Updates at once, is the matter of ServiceRegistry.                      *)
(***************************************************************************)
EXTENDS Naturals, Sequences, FiniteSets

CONSTANTS
  Services,    (* service names                                            *)
  Definitions, (* the SDL of a service: a sequence of definitions          *)
  Malformed,   (* the services whose SDL does not parse                    *)
  Deployments, (* the sets of services the registry comes to hold          *)
  TypeNames, FieldNames,
  Scalars,     (* type names every schema has: String, ID, ...             *)
  Internal,    (* federation's own types, never merged                     *)
  None,
  MaxChanges   (* bound: changes of the metadata                           *)

RootTypes == {"Query", "Mutation", "Subscription"}
Composite == {"object", "interface", "input"}
Kinds == Composite \union {"union", "enum", "scalar"}

FieldDef == [name : FieldNames, of : TypeNames, external : BOOLEAN]
Definition ==
  [type : TypeNames, kind : Kinds, extends : BOOLEAN,
   keys : Seq(SUBSET FieldNames), fields : SUBSET FieldDef]

ASSUME MergeAssumption ==
  /\ Malformed \subseteq Services
  /\ \A s \in Services : Definitions[s] \in Seq(Definition)
  /\ Deployments \subseteq SUBSET Services /\ {} \notin Deployments
  /\ RootTypes \union Scalars \union Internal \subseteq TypeNames
  /\ RootTypes \intersect Internal = {}
  /\ None \notin Services
  /\ MaxChanges \in Nat

(* A definition names a field once, as GraphQL has it of the running       *)
(* services the SDLs come from.                                            *)
ASSUME FieldsAreNamedOnce ==
  \A s \in Services : \A i \in DOMAIN Definitions[s] :
    \A f, g \in Definitions[s][i].fields : f.name = g.name => f = g

VARIABLES
  snap,        (* the ones the Update under way merges, {} when none is    *)
  todo,        (* those of them not yet looked at                          *)
  current,     (* the one whose definitions are being processed            *)
  rest,        (* its definitions still to process                         *)
  building,    (* the schema under construction                            *)
  merged,      (* Planner.merged: a schema and the services it is from     *)
  changes

mergeVars == <<snap, todo, current, rest, building, merged, changes>>

-----------------------------------------------------------------------------
(* A merged schema: the owner and type of a root field; the owner, kind    *)
(* and fields of another type; the key fields a service has for a type,   *)
(* {} without a @key.                                                      *)

RootField == [owner : Services, of : TypeNames]
Plain == [name : FieldNames, of : TypeNames]
TypeDef == [owner : Services, kind : Kinds, fields : SUBSET Plain]

ASSUME NoneIsNoDefinition == None \notin RootField \union TypeDef

Schema ==
  [roots : [RootTypes -> [FieldNames -> {None} \union RootField]],
   types : [TypeNames -> {None} \union TypeDef],
   keys  : [TypeNames -> [Services -> SUBSET FieldNames]]]

Blank ==
  [roots |-> [o \in RootTypes |-> [f \in FieldNames |-> None]],
   types |-> [t \in TypeNames |-> None],
   keys  |-> [t \in TypeNames |-> [s \in Services |-> {}]]]

NamesIn(fields) == {f.name : f \in fields}
(* Federation's marks left on the fields.                                 *)
KeepMarks(fields) == fields

Own(d) == {f \in d.fields : ~f.external}
Strip(fields) == {[name |-> f.name, of |-> f.of] : f \in fields}

(* Nothing taken for a stub.                                               *)
NoStub(d) == FALSE

(* isStubOnly: an extension that only refers to a type.                    *)
IsStub(d) == d.extends /\ Own(d) = {}

(* The first service to define a root field owns it.                       *)
AddRoot(m, s, d) ==
  [m EXCEPT !.roots[d.type] =
     [n \in FieldNames |->
        IF @[n] = None /\ n \in NamesIn(d.fields)
        THEN [owner |-> s, of |-> (CHOOSE f \in d.fields : f.name = n).of]
        ELSE @[n]]]

(* The @key directives of a definition; the last one is kept.              *)
RecordKeys(m, s, d) ==
  IF d.keys = <<>> THEN m ELSE [m EXCEPT !.keys[d.type][s] = d.keys[Len(d.keys)]]

(* Extensions of a type someone has defined ignored.                       *)
AddTypeOnce(m, s, d) ==
  IF m.types[d.type] = None
  THEN [m EXCEPT !.types[d.type] = [owner |-> s, kind |-> d.kind, fields |-> Strip(Own(d))]]
  ELSE m

(* The first definition that is no stub gives the type its owner, later    *)
(* ones add the fields it does not have yet.                               *)
AddType(m, s, d) ==
  LET known == m.types[d.type] IN
  IF known # None
  THEN [m EXCEPT !.types[d.type].fields =
          @ \union Strip({f \in Own(d) : f.name \notin NamesIn(@)})]
  ELSE IF IsStub(d) THEN m
  ELSE [m EXCEPT !.types[d.type] = [owner |-> s, kind |-> d.kind, fields |-> Strip(Own(d))]]

Process(m, s, d) ==
  IF d.type \in Internal THEN m
  ELSE IF d.type \in RootTypes THEN AddRoot(m, s, d)
  ELSE AddType(RecordKeys(m, s, d), s, d)

(* LoadSchema accepts the merged SDL: a type with fields has one, and      *)
(* every type a field refers to is defined.                                *)
Known(m, t) == t \in Scalars \/ m.types[t] # None
Loadable(m) ==
  /\ \A o \in RootTypes, n \in FieldNames :
       m.roots[o][n] # None => Known(m, m.roots[o][n].of)
  /\ \A t \in TypeNames : m.types[t] # None =>
       /\ m.types[t].kind \in Composite => m.types[t].fields # {}
       /\ \A f \in m.types[t].fields : Known(m, f.of)

-----------------------------------------------------------------------------
MergeTypeOK ==
  /\ snap \in SUBSET Services /\ todo \in SUBSET snap
  /\ current \in {None} \union Services
  /\ rest \in Seq(Definition)
  /\ building \in Schema
  /\ merged \in {None} \union [from : SUBSET Services, schema : Schema]
  /\ changes \in 0..MaxChanges

MergeInit ==
  /\ snap = {} /\ todo = {} /\ current = None /\ rest = <<>>
  /\ building = Blank
  /\ merged = None
  /\ changes = 0

(* refreshPlanner: List, and Update if there is any entry.                 *)
Update(loaded) ==
  /\ snap = {} /\ changes < MaxChanges
  /\ changes' = changes + 1
  /\ snap' = loaded /\ todo' = loaded
  /\ UNCHANGED <<current, rest, building, merged>>

(* The next entry whose SDL parses.                                        *)
MergeEntry(s) ==
  /\ rest = <<>>
  /\ s \in todo \ Malformed
  /\ todo' = todo \ {s}
  /\ current' = s
  /\ rest' = Definitions[s]
  /\ UNCHANGED <<snap, building, merged, changes>>

ProcessDefinition ==
  /\ rest # <<>>
  /\ building' = Process(building, current, Head(rest))
  /\ rest' = Tail(rest)
  /\ UNCHANGED <<snap, todo, current, merged, changes>>

Returns ==
  /\ snap' = {} /\ todo' = {} /\ current' = None /\ rest' = <<>>
  /\ building' = Blank
  /\ UNCHANGED changes

(* One SDL does not parse: Merge fails, and the planner keeps its schema.  *)
MergeFails(s) ==
  /\ rest = <<>>
  /\ s \in todo \intersect Malformed
  /\ Returns
  /\ UNCHANGED merged

Publish ==
  /\ snap # {} /\ todo = {} /\ rest = <<>>
  /\ Loadable(building)
  /\ merged' = [from |-> snap, schema |-> building]
  /\ Returns

(* LoadSchema rejects the merged SDL: the planner keeps its schema.        *)
LoadFails ==
  /\ snap # {} /\ todo = {} /\ rest = <<>>
  /\ ~Loadable(building)
  /\ Returns
  /\ UNCHANGED merged

MergeNext ==
  \/ \E loaded \in Deployments : Update(loaded)
  \/ ProcessDefinition \/ Publish \/ LoadFails
  \/ \E s \in Services : MergeEntry(s) \/ MergeFails(s)

MergeSpec == MergeInit /\ [][MergeNext]_mergeVars

-----------------------------------------------------------------------------
(* Properties.                                                             *)

DefinitionsOf(s) == {Definitions[s][i] : i \in DOMAIN Definitions[s]}
About(s, t) == {d \in DefinitionsOf(s) : d.type = t}

(* The schema published is the union of what its services define, whatever *)
(* order Merge went through them in: each root field and each field that   *)
(* someone resolves, none that is only @external, and only types someone   *)
(* defines.  It is never the merge of some of the services.                *)
SchemaIsUnion ==
  merged # None =>
    LET m == merged.schema
        all(t) == UNION {About(s, t) : s \in merged.from} IN
    /\ merged.from \intersect Malformed = {}
    /\ \A o \in RootTypes :
         {n \in FieldNames : m.roots[o][n] # None} = NamesIn(UNION {d.fields : d \in all(o)})
    /\ \A t \in TypeNames \ (RootTypes \union Internal) :
         IF \A d \in all(t) : d.extends /\ Own(d) = {} THEN m.types[t] = None
         ELSE NamesIn(m.types[t].fields) = NamesIn(UNION {Own(d) : d \in all(t)})

(* The owner a query is sent to can answer it: the owner of a root field   *)
(* defines it with the type published, and the owner of a type defines the *)
(* type or adds to it, it does not merely refer to it by an extension of   *)
(* @external fields.  Every field published has one type.                  *)
OwnersAnswer ==
  merged # None =>
    LET m == merged.schema IN
    /\ \A o \in RootTypes, n \in FieldNames : m.roots[o][n] # None =>
         \E d \in About(m.roots[o][n].owner, o) : \E f \in d.fields :
           f.name = n /\ f.of = m.roots[o][n].of
    /\ \A t \in TypeNames : m.types[t] # None =>
         /\ m.types[t].owner \in merged.from
         /\ \E d \in About(m.types[t].owner, t) :
              d.kind = m.types[t].kind /\ (d.extends => Own(d) # {})
         /\ \A f, g \in m.types[t].fields : f.name = g.name => f = g

(* The primary owner is the first (non-extension) definition that has      *)
(* non-@external fields: where there is such a definition, one is.         *)
PrimaryOwns ==
  merged # None =>
    LET primary(s, t) == \E d \in About(s, t) : ~d.extends /\ Own(d) # {} IN
    \A t \in TypeNames :
      (merged.schema.types[t] # None /\ \E s \in merged.from : primary(s, t))
      => primary(merged.schema.types[t].owner, t)
=============================================================================
