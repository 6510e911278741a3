-------------------------- MODULE FederationProofs --------------------------
(***************************************************************************)
(* What holds of the merged schema for any services, definitions and       *)
(* orders of the services (SchemaMerge): at every point of a merge the     *)
(* schema under construction is the union of the definitions processed so  *)
(* far.  And of the plans made over it for any documents, permissions and  *)
(* relationships (QueryPlan): at every point of a walk the plan is what it *)
(* should be for all that no turn still to take stands above.              *)
(***************************************************************************)
EXTENDS QueryPlan, WellFoundedInduction, TLAPS

(* How many definitions of a service have been processed, and which        *)
(* services' definitions have.                                             *)
Position(s) == IF s = current THEN Len(Definitions[s]) - Len(rest) ELSE Len(Definitions[s])
Processed ==
  UNION {{<<s, Definitions[s][i]>> : i \in 1..Position(s)} : s \in snap \ todo}

(* The definitions still to process are the last ones of the current       *)
(* service; nothing is processed of an SDL that does not parse.            *)
Underway ==
  /\ current = None => rest = <<>> /\ snap = todo
  /\ current # None =>
       /\ current \in snap \ todo
       /\ Len(rest) <= Len(Definitions[current])
       /\ \A i \in 1..Len(rest) : rest[i] = Definitions[current][Position(current) + i]
  /\ (snap \ todo) \intersect Malformed = {}

(* A schema m and the pairs P of services and definitions it is made of.   *)
Defines(d, n) == \E f \in d.fields : f.name = n
Resolves(d, n) == \E f \in Own(d) : f.name = n
RootsFrom(m, P) ==
  \A o \in RootTypes, n \in FieldNames :
    m.roots[o][n] # None <=> \E p \in P : p[2].type = o /\ Defines(p[2], n)
RootsOwned(m, P) ==
  \A o \in RootTypes, n \in FieldNames : m.roots[o][n] # None =>
    \E p \in P : /\ p[1] = m.roots[o][n].owner /\ p[2].type = o
                 /\ \E f \in p[2].fields : f.name = n /\ f.of = m.roots[o][n].of
TypesFrom(m, P) ==
  \A t \in TypeNames \ (RootTypes \union Internal) :
    /\ m.types[t] = None <=> \A p \in P : p[2].type = t => IsStub(p[2])
    /\ m.types[t] # None =>
         \A n \in FieldNames :
           (\E f \in m.types[t].fields : f.name = n)
           <=> \E p \in P : p[2].type = t /\ Resolves(p[2], n)
TypesOwned(m, P) ==
  \A t \in TypeNames : m.types[t] # None =>
    /\ \E p \in P : /\ p[1] = m.types[t].owner /\ p[2].type = t
                    /\ p[2].kind = m.types[t].kind /\ ~IsStub(p[2])
    /\ \A f, g \in m.types[t].fields : f.name = g.name => f = g
MadeOf(m, P) == RootsFrom(m, P) /\ RootsOwned(m, P) /\ TypesFrom(m, P) /\ TypesOwned(m, P)

(* The inductive invariant of the merge.                                   *)
MergeInv ==
  /\ MergeTypeOK /\ Underway /\ MadeOf(building, Processed)
  /\ SchemaIsUnion /\ OwnersAnswer

-----------------------------------------------------------------------------
(* What one definition adds to a schema.                                   *)

(* A root field nobody owned yet; nothing else moves.                      *)
LEMMA AddRootAdds ==
  ASSUME NEW m \in Schema, NEW s \in Services, NEW d \in Definition, d.type \in RootTypes,
         NEW k, k = AddRoot(m, s, d)
  PROVE  /\ k \in Schema /\ k.types = m.types
         /\ \A o \in RootTypes, n \in FieldNames :
              IF o = d.type /\ m.roots[o][n] = None /\ Defines(d, n)
              THEN /\ k.roots[o][n] # None /\ k.roots[o][n].owner = s
                   /\ \E f \in d.fields : f.name = n /\ f.of = k.roots[o][n].of
              ELSE k.roots[o][n] = m.roots[o][n]
<1> DEFINE first(n) == CHOOSE f \in d.fields : f.name = n
           old == m.roots[d.type]
           new == [n \in FieldNames |->
                     IF old[n] = None /\ n \in NamesIn(d.fields)
                     THEN [owner |-> s, of |-> first(n).of]
                     ELSE old[n]]
<1>1. \A n \in FieldNames : n \in NamesIn(d.fields) <=> Defines(d, n) BY DEF NamesIn, Defines
<1>2. ASSUME NEW n \in FieldNames, Defines(d, n)
      PROVE  first(n) \in d.fields /\ first(n).name = n /\ first(n).of \in TypeNames
  <2>1. first(n) \in d.fields /\ first(n).name = n BY <1>2 DEF Defines
  <2>2. d.fields \subseteq FieldDef BY DEF Definition
  <2>q. QED BY <2>1, <2>2 DEF FieldDef
<1>3. old \in [FieldNames -> {None} \union RootField] BY DEF Schema
<1> HIDE DEF first, old
<1>4. new \in [FieldNames -> {None} \union RootField]
  BY <1>1, <1>2, <1>3 DEF RootField
<1>5. k = [m EXCEPT !.roots[d.type] = new] BY DEF AddRoot, first, old
<1>6. \A n \in FieldNames :
        IF old[n] = None /\ Defines(d, n)
        THEN /\ new[n] # None /\ new[n].owner = s
             /\ \E f \in d.fields : f.name = n /\ f.of = new[n].of
        ELSE new[n] = old[n]
  <2>1. ASSUME NEW n \in FieldNames, old[n] = None, Defines(d, n)
        PROVE  /\ new[n] # None /\ new[n].owner = s
               /\ \E f \in d.fields : f.name = n /\ f.of = new[n].of
    <3>1. new[n] = [owner |-> s, of |-> first(n).of] BY <1>1, <2>1
    <3>2. new[n] \in RootField BY <1>2, <2>1, <3>1 DEF RootField
    <3>q. QED BY <1>2, <2>1, <3>1, <3>2, NoneIsNoDefinition
  <2>2. ASSUME NEW n \in FieldNames, ~(old[n] = None /\ Defines(d, n)) PROVE new[n] = old[n]
    BY <1>1, <2>2
  <2>q. QED BY <2>1, <2>2
<1> HIDE DEF new
<1>7. /\ k \in Schema /\ k.types = m.types /\ k.roots[d.type] = new
      /\ \A o \in RootTypes \ {d.type} : k.roots[o] = m.roots[o]
  BY <1>4, <1>5 DEF Schema
<1>q. QED BY <1>6, <1>7 DEF old

(* The names of fields stripped of federation's marks.                     *)
LEMMA Stripped ==
  ASSUME NEW F \in SUBSET FieldDef
  PROVE  /\ Strip(F) \in SUBSET Plain
         /\ \A n : (\E g \in Strip(F) : g.name = n) <=> \E f \in F : f.name = n
         /\ (\A f, g \in F : f.name = g.name => f = g)
            => \A f, g \in Strip(F) : f.name = g.name => f = g
<1> DEFINE plain(f) == [name |-> f.name, of |-> f.of]
<1>1. \A g : g \in Strip(F) <=> \E f \in F : g = plain(f) BY DEF Strip
<1>2. \A f \in F : plain(f) \in Plain /\ plain(f).name = f.name BY DEF Plain, FieldDef
<1> HIDE DEF plain
<1>3. Strip(F) \in SUBSET Plain BY <1>1, <1>2
<1>4. ASSUME NEW n PROVE (\E g \in Strip(F) : g.name = n) <=> \E f \in F : f.name = n
  BY <1>1, <1>2
<1>5. ASSUME \A f, g \in F : f.name = g.name => f = g, NEW f \in Strip(F), NEW g \in Strip(F),
             f.name = g.name
      PROVE  f = g
  <2>1. PICK a \in F, b \in F : f = plain(a) /\ g = plain(b) BY <1>1
  <2>q. QED BY <1>2, <1>5, <2>1
<1>q. QED BY <1>3, <1>4, <1>5

(* The keys of a definition are no part of roots and types.                *)
LEMMA RecordKeysKeeps ==
  ASSUME NEW m \in Schema, NEW s \in Services, NEW d \in Definition
  PROVE  /\ RecordKeys(m, s, d) \in Schema
         /\ RecordKeys(m, s, d).roots = m.roots /\ RecordKeys(m, s, d).types = m.types
<1>1. CASE d.keys = <<>> BY <1>1 DEF RecordKeys
<1>2. CASE d.keys # <<>>
  <2>1. d.keys \in Seq(SUBSET FieldNames) /\ d.type \in TypeNames BY DEF Definition
  <2>2. d.keys[Len(d.keys)] \in SUBSET FieldNames BY <1>2, <2>1
  <2>q. QED BY <1>2, <2>1, <2>2 DEF RecordKeys, Schema
<1>q. QED BY <1>1, <1>2

(* What definition d of service s makes of its type in m: nothing, its     *)
(* first definition that is no stub, or the fields it lacked.              *)
TypeAdded(k, m, s, d) ==
  /\ k.roots = m.roots
  /\ \A t \in TypeNames \ {d.type} : k.types[t] = m.types[t]
  /\ m.types[d.type] = None /\ IsStub(d) => k.types[d.type] = None
  /\ m.types[d.type] = None /\ ~IsStub(d) =>
       /\ k.types[d.type] # None
       /\ k.types[d.type].owner = s /\ k.types[d.type].kind = d.kind
       /\ \A n : (\E g \in k.types[d.type].fields : g.name = n) <=> Resolves(d, n)
       /\ \A f, g \in k.types[d.type].fields : f.name = g.name => f = g
  /\ m.types[d.type] # None =>
       /\ k.types[d.type] # None
       /\ k.types[d.type].owner = m.types[d.type].owner
       /\ k.types[d.type].kind = m.types[d.type].kind
       /\ \A n : (\E g \in k.types[d.type].fields : g.name = n)
                <=> (\E g \in m.types[d.type].fields : g.name = n) \/ Resolves(d, n)
       /\ (\A f, g \in m.types[d.type].fields : f.name = g.name => f = g)
          => \A f, g \in k.types[d.type].fields : f.name = g.name => f = g

(* AddType does that.                                                      *)
LEMMA AddTypeAdds ==
  ASSUME NEW m \in Schema, NEW s \in Services, NEW d \in Definition,
         \A f, g \in d.fields : f.name = g.name => f = g,
         NEW k, k = AddType(m, s, d)
  PROVE  k \in Schema /\ TypeAdded(k, m, s, d)
<1> DEFINE t == d.type
           known == m.types[t]
<1>0. /\ t \in TypeNames /\ d.kind \in Kinds /\ Own(d) \in SUBSET FieldDef
      /\ known \in {None} \union TypeDef
      /\ \A f, g \in Own(d) : f.name = g.name => f = g
  BY DEF Definition, Schema, Own
<1>1. CASE known = None /\ IsStub(d)
  <2>1. k = m BY <1>1 DEF AddType
  <2>q. QED BY <1>1, <2>1 DEF TypeAdded
<1>2. CASE known = None /\ ~IsStub(d)
  <2> DEFINE new == [owner |-> s, kind |-> d.kind, fields |-> Strip(Own(d))]
  <2>1. k = [m EXCEPT !.types[t] = new] BY <1>2 DEF AddType
  <2>2. /\ Strip(Own(d)) \in SUBSET Plain
        /\ \A n : (\E g \in Strip(Own(d)) : g.name = n) <=> Resolves(d, n)
        /\ \A f, g \in Strip(Own(d)) : f.name = g.name => f = g
    BY <1>0, Stripped DEF Resolves
  <2>3. new \in TypeDef /\ new # None BY <1>0, <2>2, NoneIsNoDefinition DEF TypeDef
  <2>4. /\ k \in Schema /\ k.roots = m.roots /\ k.types[t] = new
        /\ \A u \in TypeNames \ {t} : k.types[u] = m.types[u]
    BY <1>0, <2>1, <2>3 DEF Schema
  <2>q. QED BY <1>2, <2>2, <2>3, <2>4 DEF TypeAdded
<1>3. CASE known # None
  <2> DEFINE had == known.fields
             more == {f \in Own(d) : f.name \notin NamesIn(had)}
             new == [known EXCEPT !.fields = had \union Strip(more)]
  <2>0. known \in TypeDef /\ had \in SUBSET Plain BY <1>0, <1>3 DEF TypeDef
  <2>1. k = [m EXCEPT !.types[t] = new]
    <3>1. k = [m EXCEPT !.types[t].fields = had \union Strip(more)] BY <1>3 DEF AddType
    <3>q. QED BY <3>1
  <2>2. /\ Strip(more) \in SUBSET Plain
        /\ \A n : (\E g \in Strip(more) : g.name = n) <=> \E f \in more : f.name = n
        /\ \A f, g \in Strip(more) : f.name = g.name => f = g
    <3>1. more \in SUBSET FieldDef /\ \A f, g \in more : f.name = g.name => f = g BY <1>0
    <3>q. QED BY <3>1, Stripped
  <2>3. \A n : (\E g \in had \union Strip(more) : g.name = n)
              <=> (\E g \in had : g.name = n) \/ Resolves(d, n)
    <3>1. ASSUME NEW n
          PROVE  (\E g \in had \union Strip(more) : g.name = n)
                 <=> (\E g \in had : g.name = n) \/ Resolves(d, n)
      <4>1. (\E g \in had \union Strip(more) : g.name = n)
            <=> (\E g \in had : g.name = n) \/ \E g \in Strip(more) : g.name = n
        OBVIOUS
      <4>2. (\E g \in Strip(more) : g.name = n) <=> \E f \in more : f.name = n BY <2>2
      <4>3. (\E f \in more : f.name = n) => Resolves(d, n) BY DEF Resolves
      <4>4. Resolves(d, n) => (\E g \in had : g.name = n) \/ \E f \in more : f.name = n
        BY DEF Resolves, NamesIn
      <4>q. QED BY <4>1, <4>2, <4>3, <4>4
    <3>q. QED BY <3>1
  <2>4. ASSUME NEW f \in had, NEW g \in Strip(more) PROVE f.name # g.name
    <3>1. PICK e \in more : e.name = g.name BY <2>2
    <3>2. e.name \notin NamesIn(had) OBVIOUS
    <3>q. QED BY <3>1, <3>2 DEF NamesIn
  <2>5. (\A f, g \in had : f.name = g.name => f = g)
        => \A f, g \in had \union Strip(more) : f.name = g.name => f = g
    BY <2>2, <2>4
  <2> HIDE DEF more
  <2>6. /\ new \in TypeDef /\ new.owner = known.owner /\ new.kind = known.kind
        /\ new.fields = had \union Strip(more)
    BY <2>0, <2>2 DEF TypeDef
  <2> HIDE DEF new
  <2>7. /\ k \in Schema /\ k.roots = m.roots /\ k.types[t] = new
        /\ \A u \in TypeNames \ {t} : k.types[u] = m.types[u]
    BY <1>0, <2>1, <2>6 DEF Schema
  <2>8. new # None BY <2>6, NoneIsNoDefinition
  <2>q. QED BY <1>3, <2>3, <2>5, <2>6, <2>7, <2>8 DEF TypeAdded
<1>q. QED BY <1>1, <1>2, <1>3

-----------------------------------------------------------------------------
(* Merging one more definition keeps the schema the union of what it is    *)
(* made of.                                                                *)
LEMMA ProcessMakes ==
  ASSUME NEW m \in Schema, NEW P, MadeOf(m, P), NEW s \in Services, NEW d \in Definition,
         \A f, g \in d.fields : f.name = g.name => f = g
  PROVE  Process(m, s, d) \in Schema /\ MadeOf(Process(m, s, d), P \union {<<s, d>>})
<1> DEFINE k == Process(m, s, d)
           Q == P \union {<<s, d>>}
<1>0. d.type \in TypeNames /\ RootTypes \intersect Internal = {}
  BY MergeAssumption DEF Definition
<1>q1. \A p \in P : p \in Q OBVIOUS
<1>q2. <<s, d>> \in Q /\ <<s, d>>[1] = s /\ <<s, d>>[2] = d OBVIOUS
<1>q3. \A p \in Q : p \in P \/ (p[1] = s /\ p[2] = d) OBVIOUS
<1> HIDE DEF Q
(* A type or an owner that stays as it was.                                *)
<1>t. ASSUME NEW t \in TypeNames, k.types[t] = m.types[t],
             t \in RootTypes \union Internal \/ d.type # t
      PROVE  /\ t \notin RootTypes \union Internal =>
                  /\ k.types[t] = None <=> \A p \in Q : p[2].type = t => IsStub(p[2])
                  /\ k.types[t] # None =>
                       \A n \in FieldNames :
                         (\E f \in k.types[t].fields : f.name = n)
                         <=> \E p \in Q : p[2].type = t /\ Resolves(p[2], n)
             /\ k.types[t] # None =>
                  /\ \E p \in Q : /\ p[1] = k.types[t].owner /\ p[2].type = t
                                  /\ p[2].kind = k.types[t].kind /\ ~IsStub(p[2])
                  /\ \A f, g \in k.types[t].fields : f.name = g.name => f = g
  <2>1. t \notin RootTypes \union Internal =>
          \A p \in Q : p[2].type = t => p \in P
    BY <1>q3, <1>t
  <2>2. t \notin RootTypes \union Internal =>
          k.types[t] = None <=> \A p \in Q : p[2].type = t => IsStub(p[2])
    BY <1>q1, <1>t, <2>1 DEF MadeOf, TypesFrom
  <2>3. t \notin RootTypes \union Internal /\ k.types[t] # None =>
          \A n \in FieldNames :
            (\E f \in k.types[t].fields : f.name = n)
            <=> \E p \in Q : p[2].type = t /\ Resolves(p[2], n)
    BY <1>q1, <1>t, <2>1 DEF MadeOf, TypesFrom
  <2>4. k.types[t] # None =>
          /\ \E p \in Q : /\ p[1] = k.types[t].owner /\ p[2].type = t
                          /\ p[2].kind = k.types[t].kind /\ ~IsStub(p[2])
          /\ \A f, g \in k.types[t].fields : f.name = g.name => f = g
    BY <1>q1, <1>t DEF MadeOf, TypesOwned
  <2>q. QED BY <2>2, <2>3, <2>4
<1>r. ASSUME k.roots = m.roots, d.type \notin RootTypes
      PROVE  RootsFrom(k, Q) /\ RootsOwned(k, Q)
  <2>1. RootsFrom(k, Q) BY <1>q1, <1>q3, <1>r DEF MadeOf, RootsFrom
  <2>2. RootsOwned(k, Q) BY <1>q1, <1>r DEF MadeOf, RootsOwned
  <2>q. QED BY <2>1, <2>2
<1>1. CASE d.type \in Internal
  <2>1. k = m /\ d.type \notin RootTypes BY <1>0, <1>1 DEF Process
  <2>2. \A t \in TypeNames \ (RootTypes \union Internal) : d.type # t BY <1>1
  <2>3. RootsFrom(k, Q) /\ RootsOwned(k, Q) BY <1>r, <2>1
  <2> HIDE DEF k
  <2>4. TypesFrom(k, Q) /\ TypesOwned(k, Q) BY <1>t, <2>1, <2>2 DEF TypesFrom, TypesOwned
  <2>q. QED BY <2>1, <2>3, <2>4 DEF MadeOf, k, Q
<1>2. CASE d.type \in RootTypes
  <2>1. k = AddRoot(m, s, d) BY <1>0, <1>2 DEF Process
  <2>2. /\ k \in Schema /\ k.types = m.types
        /\ \A o \in RootTypes, n \in FieldNames :
              IF o = d.type /\ m.roots[o][n] = None /\ Defines(d, n)
              THEN /\ k.roots[o][n] # None /\ k.roots[o][n].owner = s
                   /\ \E f \in d.fields : f.name = n /\ f.of = k.roots[o][n].of
              ELSE k.roots[o][n] = m.roots[o][n]
    BY <1>2, <2>1, AddRootAdds
  <2>3. \A t \in TypeNames \ (RootTypes \union Internal) : d.type # t BY <1>2
  <2> HIDE DEF k
  <2>4. TypesFrom(k, Q) /\ TypesOwned(k, Q) BY <1>t, <2>2, <2>3 DEF TypesFrom, TypesOwned
  <2>5. RootsFrom(k, Q)
    <3>1. ASSUME NEW o \in RootTypes, NEW n \in FieldNames
          PROVE  k.roots[o][n] # None <=> \E p \in Q : p[2].type = o /\ Defines(p[2], n)
      <4>1. m.roots[o][n] # None <=> \E p \in P : p[2].type = o /\ Defines(p[2], n)
        BY DEF MadeOf, RootsFrom
      <4>2. (\E p \in Q : p[2].type = o /\ Defines(p[2], n))
            <=> (\E p \in P : p[2].type = o /\ Defines(p[2], n)) \/ (d.type = o /\ Defines(d, n))
        BY <1>q1, <1>q2, <1>q3
      <4>q. QED BY <2>2, <4>1, <4>2
    <3>q. QED BY <3>1 DEF RootsFrom
  <2>6. RootsOwned(k, Q)
    <3>1. ASSUME NEW o \in RootTypes, NEW n \in FieldNames, k.roots[o][n] # None
          PROVE  \E p \in Q : /\ p[1] = k.roots[o][n].owner /\ p[2].type = o
                              /\ \E f \in p[2].fields : f.name = n /\ f.of = k.roots[o][n].of
      <4>1. CASE o = d.type /\ m.roots[o][n] = None /\ Defines(d, n)
        BY <1>q2, <2>2, <4>1
      <4>2. CASE ~(o = d.type /\ m.roots[o][n] = None /\ Defines(d, n))
        <5>1. k.roots[o][n] = m.roots[o][n] BY <2>2, <4>2
        <5>q. QED BY <1>q1, <3>1, <5>1 DEF MadeOf, RootsOwned
      <4>q. QED BY <4>1, <4>2
    <3>q. QED BY <3>1 DEF RootsOwned
  <2>q. QED BY <2>2, <2>4, <2>5, <2>6 DEF MadeOf, k, Q
<1>3. CASE d.type \notin RootTypes \union Internal
  <2> DEFINE r == RecordKeys(m, s, d)
  <2>1. k = AddType(r, s, d) BY <1>3 DEF Process
  <2>2. r \in Schema /\ r.roots = m.roots /\ r.types = m.types BY RecordKeysKeeps
  <2> HIDE DEF k, r
  <2> DEFINE t == d.type
  <2>3. k \in Schema /\ TypeAdded(k, m, s, d)
    <3>1. k \in Schema /\ TypeAdded(k, r, s, d) BY <2>1, <2>2, AddTypeAdds
    <3>q. QED BY <2>2, <3>1 DEF TypeAdded
  <2>4. RootsFrom(k, Q) /\ RootsOwned(k, Q) BY <1>3, <1>r, <2>3 DEF k, TypeAdded
  <2>5. /\ m.types[t] = None <=> \A p \in P : p[2].type = t => IsStub(p[2])
        /\ m.types[t] # None =>
             \A n \in FieldNames :
               (\E f \in m.types[t].fields : f.name = n)
               <=> \E p \in P : p[2].type = t /\ Resolves(p[2], n)
    BY <1>0, <1>3 DEF MadeOf, TypesFrom
  <2>6. (\A p \in Q : p[2].type = t => IsStub(p[2]))
        <=> (\A p \in P : p[2].type = t => IsStub(p[2])) /\ IsStub(d)
    BY <1>q1, <1>q2, <1>q3
  <2>7. k.types[t] = None <=> \A p \in Q : p[2].type = t => IsStub(p[2])
    BY <2>3, <2>5, <2>6 DEF TypeAdded
  <2>8. ASSUME k.types[t] # None, NEW n \in FieldNames
        PROVE  (\E f \in k.types[t].fields : f.name = n)
               <=> \E p \in Q : p[2].type = t /\ Resolves(p[2], n)
    <3>1. (\E p \in Q : p[2].type = t /\ Resolves(p[2], n))
          <=> (\E p \in P : p[2].type = t /\ Resolves(p[2], n)) \/ Resolves(d, n)
      BY <1>q1, <1>q2, <1>q3
    <3>2. CASE m.types[t] # None BY <2>3, <2>5, <3>1, <3>2 DEF TypeAdded
    <3>3. CASE m.types[t] = None
      <4>1. (\E f \in k.types[t].fields : f.name = n) <=> Resolves(d, n) BY <2>3, <2>8, <3>3 DEF TypeAdded
      <4>2. \A p \in P : p[2].type = t => ~Resolves(p[2], n)
        BY <2>5, <3>3 DEF IsStub, Resolves
      <4>q. QED BY <3>1, <4>1, <4>2
    <3>q. QED BY <3>2, <3>3
  <2>9. TypesFrom(k, Q)
    <3>1. \A u \in TypeNames \ (RootTypes \union Internal \union {t}) :
            k.types[u] = m.types[u] /\ d.type # u
      BY <2>3 DEF TypeAdded
    <3>2. ASSUME NEW u \in TypeNames \ (RootTypes \union Internal)
          PROVE  /\ k.types[u] = None <=> \A p \in Q : p[2].type = u => IsStub(p[2])
                 /\ k.types[u] # None =>
                      \A n \in FieldNames :
                        (\E f \in k.types[u].fields : f.name = n)
                        <=> \E p \in Q : p[2].type = u /\ Resolves(p[2], n)
      <4>1. CASE u = t BY <2>7, <2>8, <4>1
      <4>2. CASE u # t BY <1>t, <3>1, <4>2 DEF k
      <4>q. QED BY <4>1, <4>2
    <3>q. QED BY <3>2 DEF TypesFrom
  <2>10. TypesOwned(k, Q)
    <3>1. ASSUME NEW u \in TypeNames, k.types[u] # None
          PROVE  /\ \E p \in Q : /\ p[1] = k.types[u].owner /\ p[2].type = u
                                  /\ p[2].kind = k.types[u].kind /\ ~IsStub(p[2])
                 /\ \A f, g \in k.types[u].fields : f.name = g.name => f = g
      <4>1. CASE u # t
        <5>1. k.types[u] = m.types[u] BY <2>3, <4>1 DEF TypeAdded
        <5>q. QED BY <1>q1, <3>1, <5>1 DEF MadeOf, TypesOwned
      <4>2. CASE u = t /\ m.types[t] = None
        <5>1. ~IsStub(d) /\ k.types[t].owner = s /\ k.types[t].kind = d.kind
              /\ \A f, g \in k.types[t].fields : f.name = g.name => f = g
          BY <2>3, <3>1, <4>2 DEF TypeAdded
        <5>q. QED BY <1>q2, <4>2, <5>1
      <4>3. CASE u = t /\ m.types[t] # None
        <5>1. /\ \E p \in P : /\ p[1] = m.types[t].owner /\ p[2].type = t
                              /\ p[2].kind = m.types[t].kind /\ ~IsStub(p[2])
              /\ \A f, g \in m.types[t].fields : f.name = g.name => f = g
          BY <1>0, <4>3 DEF MadeOf, TypesOwned
        <5>2. /\ k.types[t].owner = m.types[t].owner /\ k.types[t].kind = m.types[t].kind
              /\ \A f, g \in k.types[t].fields : f.name = g.name => f = g
          BY <2>3, <4>3, <5>1 DEF TypeAdded
        <5>q. QED BY <1>q1, <4>3, <5>1, <5>2
      <4>q. QED BY <4>1, <4>2, <4>3
    <3>q. QED BY <3>1 DEF TypesOwned
  <2>q. QED BY <2>3, <2>4, <2>9, <2>10 DEF MadeOf, k, Q
<1>q. QED BY <1>1, <1>2, <1>3

-----------------------------------------------------------------------------
(* The steps of a merge.                                                   *)

(* The pairs processed so far.                                             *)
LEMMA InProcessed ==
  \A p : p \in Processed <=>
    \E s \in snap \ todo : \E i \in 1..Position(s) : p = <<s, Definitions[s][i]>>
BY DEF Processed

(* An SDL is a sequence of definitions.                                    *)
LEMMA SDLType ==
  ASSUME NEW s \in Services
  PROVE  /\ Definitions[s] \in Seq(Definition) /\ Len(Definitions[s]) \in Nat
         /\ DOMAIN Definitions[s] = 1..Len(Definitions[s])
         /\ \A i \in 1..Len(Definitions[s]) : Definitions[s][i] \in Definition
BY MergeAssumption

(* An empty schema is made of nothing.                                     *)
LEMMA BlankMade == Blank \in Schema /\ MadeOf(Blank, {})
<1>1. Blank \in Schema BY DEF Blank, Schema
<1>2. /\ \A o \in RootTypes, n \in FieldNames : Blank.roots[o][n] = None
      /\ \A t \in TypeNames : Blank.types[t] = None
  BY DEF Blank
<1>3. MadeOf(Blank, {})
  BY <1>2 DEF MadeOf, RootsFrom, RootsOwned, TypesFrom, TypesOwned
<1>q. QED BY <1>1, <1>3

(* Nothing is under way of a merge that has begun or ended just now.       *)
LEMMA NothingUnderway ==
  ASSUME MergeTypeOK, Underway, snap = {}
  PROVE  current = None /\ rest = <<>> /\ todo = {} /\ Processed = {}
BY DEF MergeTypeOK, Underway, Processed

(* One entry more is looked at; nothing of it is processed yet.            *)
LEMMA EntryInv ==
  ASSUME MergeTypeOK, Underway, MadeOf(building, Processed), NEW s \in Services, MergeEntry(s)
  PROVE  MergeTypeOK' /\ Underway' /\ MadeOf(building, Processed)'
<1>0. /\ rest = <<>> /\ s \in todo /\ s \notin Malformed /\ todo \subseteq snap
      /\ todo' = todo \ {s} /\ current' = s /\ rest' = Definitions[s]
      /\ UNCHANGED <<snap, building, merged, changes>> /\ snap \subseteq Services
  BY DEF MergeEntry, MergeTypeOK
<1>1. MergeTypeOK' BY <1>0, SDLType DEF MergeTypeOK
<1>2. snap' \ todo' = (snap \ todo) \union {s} BY <1>0
<1>3. Position(s)' = 0 BY <1>0, SDLType DEF Position
<1>4. ASSUME NEW x \in snap \ todo PROVE Position(x)' = Position(x)
  <2>1. x # s /\ Len(Definitions[x]) \in Nat BY <1>0, SDLType
  <2>2. Len(rest) = 0 BY <1>0
  <2>q. QED BY <1>0, <2>1, <2>2 DEF Position
<1>5. Underway'
  <2>1. \A i \in 1..Len(rest') : rest'[i] = Definitions[s][Position(s)' + i]
    BY <1>0, <1>3, SDLType
  <2>2. Len(rest') <= Len(Definitions[s]) BY <1>0, SDLType
  <2>3. (snap' \ todo') \intersect Malformed = {} BY <1>0, <1>2 DEF Underway
  <2>4. s # None BY MergeAssumption
  <2>q. QED BY <1>0, <1>2, <2>1, <2>2, <2>3, <2>4 DEF Underway
<1>6. Processed' = Processed
  <2>1. Processed = UNION {{<<x, Definitions[x][i]>> : i \in 1..Position(x)} : x \in snap \ todo}
    BY DEF Processed
  <2>2. Processed' =
          UNION {{<<x, Definitions[x][i]>> : i \in 1..Position(x)'} : x \in snap' \ todo'}
    BY DEF Processed
  <2>3. {<<s, Definitions[s][i]>> : i \in 1..Position(s)'} = {} BY <1>3
  <2>q. QED BY <1>2, <1>4, <2>1, <2>2, <2>3
<1>q. QED BY <1>0, <1>1, <1>5, <1>6

(* The next definition is merged.                                          *)
LEMMA DefinitionInv ==
  ASSUME MergeTypeOK, Underway, MadeOf(building, Processed), ProcessDefinition
  PROVE  MergeTypeOK' /\ Underway' /\ MadeOf(building, Processed)'
<1> DEFINE c == current
           d == Head(rest)
           n == Position(c)
<1>0. /\ rest # <<>> /\ rest \in Seq(Definition) /\ rest' = Tail(rest)
      /\ building' = Process(building, c, d)
      /\ UNCHANGED <<snap, todo, current, merged, changes>>
      /\ snap \subseteq Services /\ building \in Schema
  BY DEF ProcessDefinition, MergeTypeOK
<1>1. /\ c \in snap \ todo /\ c # None /\ c \in Services
      /\ Len(rest) <= Len(Definitions[c])
      /\ \A i \in 1..Len(rest) : rest[i] = Definitions[c][n + i]
  BY <1>0 DEF Underway
<1>2. /\ Len(rest) \in Nat /\ Len(rest) > 0 /\ Len(rest') = Len(rest) - 1
      /\ rest' \in Seq(Definition) /\ d = rest[1] /\ d \in Definition
      /\ \A i \in 1..Len(rest') : rest'[i] = rest[i + 1]
  BY <1>0
<1>3. n = Len(Definitions[c]) - Len(rest) /\ n \in Nat /\ n < Len(Definitions[c])
  BY <1>1, <1>2, SDLType DEF Position
<1>4. n' = n + 1 /\ \A x \in snap \ todo : x # c => Position(x)' = Position(x)
  BY <1>0, <1>2, <1>3 DEF Position
<1>5. d = Definitions[c][n + 1]
  <2>1. 1 \in 1..Len(rest) BY <1>2
  <2>q. QED BY <1>1, <1>2, <2>1
<1>6. \A f, g \in d.fields : f.name = g.name => f = g
  <2>1. n + 1 \in DOMAIN Definitions[c] BY <1>1, <1>3, SDLType
  <2>q. QED BY <1>1, <1>5, <2>1, FieldsAreNamedOnce
<1>7. Process(building, c, d) \in Schema
      /\ MadeOf(Process(building, c, d), Processed \union {<<c, d>>})
  BY <1>0, <1>1, <1>2, <1>6, ProcessMakes
<1>8. Processed' = Processed \union {<<c, d>>}
  <2>1. Processed = UNION {{<<x, Definitions[x][i]>> : i \in 1..Position(x)} : x \in snap \ todo}
    BY DEF Processed
  <2>2. Processed' =
          UNION {{<<x, Definitions[x][i]>> : i \in 1..Position(x)'} : x \in snap \ todo}
    BY <1>0 DEF Processed
  <2>3. 1..(n + 1) = (1..n) \union {n + 1} BY <1>3
  <2>4. {<<c, Definitions[c][i]>> : i \in 1..n'}
        = {<<c, Definitions[c][i]>> : i \in 1..n} \union {<<c, d>>}
    <3>1. {<<c, Definitions[c][i]>> : i \in 1..n'} = {<<c, Definitions[c][i]>> : i \in (1..n) \union {n + 1}}
      BY <1>4, <2>3
    <3> HIDE DEF n, d, c
    <3>q. QED BY <1>5, <3>1
  <2> DEFINE before(x) == {<<x, Definitions[x][i]>> : i \in 1..Position(x)}
             after(x) == {<<x, Definitions[x][i]>> : i \in 1..Position(x)'}
             S == snap \ todo
  <2>5. Processed = UNION {before(x) : x \in S} /\ Processed' = UNION {after(x) : x \in S}
    BY <2>1, <2>2
  <2>6. after(c) = before(c) \union {<<c, d>>} BY <2>4
  <2>7. \A x \in S : x # c => after(x) = before(x) BY <1>4
  <2>8. c \in S BY <1>1
  <2> HIDE DEF before, after, S, c, d
  <2>9. \A p : p \in Processed' <=> p \in Processed \union {<<c, d>>}
    BY <2>5, <2>6, <2>7, <2>8
  <2>q. QED BY <2>9
<1>9. MergeTypeOK' BY <1>0, <1>2, <1>7 DEF MergeTypeOK
<1>10. Underway'
  <2>1. ASSUME NEW i \in 1..Len(rest') PROVE rest'[i] = Definitions[c][n' + i]
    <3>1. /\ i \in Nat /\ i + 1 \in 1..Len(rest)
          /\ rest'[i] = rest[i + 1] /\ rest[i + 1] = Definitions[c][n + (i + 1)]
      BY <1>1, <1>2
    <3>2. n' = n + 1 /\ n \in Nat BY <1>3, <1>4
    <3> HIDE DEF n, d, c
    <3>q. QED BY <3>1, <3>2
  <2>2. Len(rest') <= Len(Definitions[c]) BY <1>1, <1>2, SDLType
  <2>q. QED BY <1>0, <1>1, <2>1, <2>2 DEF Underway
<1>q. QED BY <1>0, <1>7, <1>8, <1>9, <1>10

(* When the last entry is done, everything its services define has been    *)
(* processed.                                                              *)
LEMMA AllProcessed ==
  ASSUME MergeTypeOK, todo = {}, rest = <<>>, NEW s, NEW d
  PROVE  <<s, d>> \in Processed <=> s \in snap /\ d \in DefinitionsOf(s)
<1>1. \A x \in snap : x \in Services /\ Position(x) = Len(Definitions[x])
  BY SDLType DEF Position, MergeTypeOK
<1>2. \A x \in snap : \A e : e \in DefinitionsOf(x)
         <=> \E i \in 1..Len(Definitions[x]) : e = Definitions[x][i]
  BY <1>1, SDLType DEF DefinitionsOf
<1>3. <<s, d>> \in Processed
      <=> \E x \in snap : \E i \in 1..Len(Definitions[x]) : <<s, d>> = <<x, Definitions[x][i]>>
  BY <1>1, InProcessed
<1>q. QED BY <1>2, <1>3

(* So the schema published is the union of its services' definitions.      *)
LEMMA PublishInv ==
  ASSUME MergeTypeOK, Underway, MadeOf(building, Processed), Publish
  PROVE  SchemaIsUnion' /\ OwnersAnswer'
<1> DEFINE m == building
           all(t) == UNION {About(s, t) : s \in snap}
<1>0. /\ todo = {} /\ rest = <<>> /\ merged'.schema = m /\ merged'.from = snap
      /\ m \in Schema /\ snap \subseteq Services
  BY DEF Publish, MergeTypeOK
<1>1. /\ RootsFrom(m, Processed) /\ RootsOwned(m, Processed)
      /\ TypesFrom(m, Processed) /\ TypesOwned(m, Processed)
  BY DEF MadeOf
<1>p. \A s, d : <<s, d>> \in Processed <=> s \in snap /\ d \in DefinitionsOf(s)
  BY <1>0, AllProcessed
<1>s. \A p \in Processed : p = <<p[1], p[2]>> BY InProcessed
<1>2. \A t, d : d \in all(t) <=> \E p \in Processed : p[2] = d /\ d.type = t
  <2>1. ASSUME NEW t, NEW d, d \in all(t) PROVE \E p \in Processed : p[2] = d /\ d.type = t
    <3>1. PICK s \in snap : d \in DefinitionsOf(s) /\ d.type = t BY <2>1 DEF About
    <3>2. <<s, d>> \in Processed /\ <<s, d>>[2] = d BY <1>p, <3>1
    <3>q. QED BY <3>1, <3>2
  <2>2. ASSUME NEW t, NEW p \in Processed, p[2].type = t PROVE p[2] \in all(t)
    <3>1. p[1] \in snap /\ p[2] \in DefinitionsOf(p[1]) BY <1>p, <1>s
    <3>q. QED BY <2>2, <3>1 DEF About
  <2>q. QED BY <2>1, <2>2
<1>3. \A p \in Processed : p[1] \in snap /\ p[2] \in About(p[1], p[2].type)
  BY <1>p, <1>s DEF About
<1>4. \A s, d : d \in DefinitionsOf(s) /\ s \in snap => d \in Definition
  BY <1>0, SDLType DEF DefinitionsOf
<1>5. \A p \in Processed : p[2] \in Definition BY <1>3, <1>4 DEF About
<1> HIDE DEF all
<1>6. ASSUME NEW o \in RootTypes
      PROVE  {n \in FieldNames : m.roots[o][n] # None} = NamesIn(UNION {d.fields : d \in all(o)})
  <2>1. ASSUME NEW n, n \in NamesIn(UNION {d.fields : d \in all(o)})
        PROVE  n \in FieldNames /\ m.roots[o][n] # None
    <3>0. PICK f \in UNION {d.fields : d \in all(o)} : f.name = n BY <2>1 DEF NamesIn
    <3>1. PICK d \in all(o) : \E g \in d.fields : g.name = n BY <3>0
    <3>2. PICK p \in Processed : p[2] = d /\ d.type = o BY <1>2
    <3>3. n \in FieldNames BY <1>5, <3>1, <3>2 DEF Definition, FieldDef
    <3>q. QED BY <1>1, <3>1, <3>2, <3>3 DEF RootsFrom, Defines
  <2>2. ASSUME NEW n \in FieldNames, m.roots[o][n] # None
        PROVE  n \in NamesIn(UNION {d.fields : d \in all(o)})
    <3>1. PICK p \in Processed : p[2].type = o /\ Defines(p[2], n)
      BY <1>1, <2>2 DEF RootsFrom
    <3>2. p[2] \in all(o) BY <1>2, <3>1
    <3>q. QED BY <3>1, <3>2 DEF Defines, NamesIn
  <2>q. QED BY <2>1, <2>2
<1>7. ASSUME NEW t \in TypeNames \ (RootTypes \union Internal)
      PROVE  IF \A d \in all(t) : d.extends /\ Own(d) = {} THEN m.types[t] = None
             ELSE NamesIn(m.types[t].fields) = NamesIn(UNION {Own(d) : d \in all(t)})
  <2>1. (\A d \in all(t) : d.extends /\ Own(d) = {}) <=> m.types[t] = None
    <3>1. (\A d \in all(t) : IsStub(d)) <=> \A p \in Processed : p[2].type = t => IsStub(p[2])
      BY <1>2
    <3>2. m.types[t] = None <=> \A p \in Processed : p[2].type = t => IsStub(p[2])
      BY <1>1 DEF TypesFrom
    <3>q. QED BY <3>1, <3>2 DEF IsStub
  <2>2. ASSUME m.types[t] # None
        PROVE  NamesIn(m.types[t].fields) = NamesIn(UNION {Own(d) : d \in all(t)})
    <3>1. \A n \in FieldNames : (\E f \in m.types[t].fields : f.name = n)
                               <=> \E p \in Processed : p[2].type = t /\ Resolves(p[2], n)
      BY <1>1, <2>2 DEF TypesFrom
    <3>2. \A f \in m.types[t].fields : f.name \in FieldNames
      BY <1>0, <2>2 DEF Schema, TypeDef, Plain
    <3>3. \A p \in Processed : \A n : Resolves(p[2], n) => n \in FieldNames
      BY <1>5 DEF Resolves, Own, Definition, FieldDef
    <3>4. ASSUME NEW n
          PROVE  n \in NamesIn(UNION {Own(d) : d \in all(t)})
                 <=> \E p \in Processed : p[2].type = t /\ Resolves(p[2], n)
      <4>1. n \in NamesIn(UNION {Own(d) : d \in all(t)}) <=> \E d \in all(t) : Resolves(d, n)
        BY DEF NamesIn, Resolves
      <4>q. QED BY <1>2, <4>1
    <3>5. \A n : n \in NamesIn(m.types[t].fields) <=> \E f \in m.types[t].fields : f.name = n
      BY DEF NamesIn
    <3>6. \A n : n \in NamesIn(m.types[t].fields) <=> n \in NamesIn(UNION {Own(d) : d \in all(t)})
      BY <3>1, <3>2, <3>3, <3>4, <3>5
    <3>q. QED BY <3>6
  <2>q. QED BY <2>1, <2>2
<1>8. snap \intersect Malformed = {} BY <1>0 DEF Underway
<1>9. SchemaIsUnion' BY <1>0, <1>6, <1>7, <1>8 DEF SchemaIsUnion, all
<1>10. OwnersAnswer'
  <2>1. ASSUME NEW o \in RootTypes, NEW n \in FieldNames, m.roots[o][n] # None
        PROVE  \E d \in About(m.roots[o][n].owner, o) : \E f \in d.fields :
                 f.name = n /\ f.of = m.roots[o][n].of
    BY <1>1, <1>3, <2>1 DEF RootsOwned
  <2>2. ASSUME NEW t \in TypeNames, m.types[t] # None
        PROVE  /\ m.types[t].owner \in snap
               /\ \E d \in About(m.types[t].owner, t) :
                    d.kind = m.types[t].kind /\ (d.extends => Own(d) # {})
               /\ \A f, g \in m.types[t].fields : f.name = g.name => f = g
    BY <1>1, <1>3, <2>2 DEF TypesOwned, IsStub
  <2>q. QED BY <1>0, <2>1, <2>2 DEF OwnersAnswer
<1>q. QED BY <1>9, <1>10

(* Nothing is merged at first.                                             *)
LEMMA MergeInitInv == MergeInit => MergeInv
<1> SUFFICES ASSUME MergeInit PROVE MergeInv OBVIOUS
<1>1. MergeTypeOK BY BlankMade, MergeAssumption DEF MergeInit, MergeTypeOK
<1>2. Underway BY DEF MergeInit, Underway
<1>3. Processed = {} BY <1>1, <1>2, NothingUnderway DEF MergeInit
<1>q. QED
  BY <1>1, <1>2, <1>3, BlankMade DEF MergeInit, MergeInv, SchemaIsUnion, OwnersAnswer

(* Update returns, with or without a new schema.                           *)
LEMMA ReturnsInv ==
  ASSUME MergeTypeOK, Returns, merged' \in {None} \union [from : SUBSET Services, schema : Schema]
  PROVE  MergeTypeOK' /\ Underway' /\ MadeOf(building, Processed)'
<1>1. MergeTypeOK' BY BlankMade DEF Returns, MergeTypeOK
<1>2. Underway' BY DEF Returns, Underway
<1>3. Processed' = {} BY DEF Returns, Processed
<1>q. QED BY <1>1, <1>2, <1>3, BlankMade DEF Returns

(* No step breaks the invariant.                                           *)
LEMMA MergeNextInv == MergeInv /\ [MergeNext]_mergeVars => MergeInv'
<1> SUFFICES ASSUME MergeInv, [MergeNext]_mergeVars PROVE MergeInv' OBVIOUS
<1>0. MergeTypeOK /\ Underway /\ MadeOf(building, Processed) /\ SchemaIsUnion /\ OwnersAnswer
  BY DEF MergeInv
<1>m. merged' = merged => SchemaIsUnion' /\ OwnersAnswer' BY <1>0 DEF SchemaIsUnion, OwnersAnswer
<1>1. ASSUME NEW loaded \in Deployments, Update(loaded) PROVE MergeInv'
  <2>1. current = None /\ rest = <<>> /\ todo = {} /\ Processed = {}
    BY <1>0, <1>1, NothingUnderway DEF Update
  <2>2. changes' \in 0..MaxChanges BY <1>0, <1>1, MergeAssumption DEF Update, MergeTypeOK
  <2>3. MergeTypeOK' BY <1>0, <1>1, <2>2, MergeAssumption DEF Update, MergeTypeOK
  <2>4. Underway' BY <1>1, <2>1 DEF Update, Underway
  <2>5. Processed' = {} BY <1>1 DEF Update, Processed
  <2>q. QED BY <1>0, <1>1, <1>m, <2>1, <2>3, <2>4, <2>5 DEF Update, MergeInv
<1>2. CASE ProcessDefinition
  BY <1>0, <1>2, <1>m, DefinitionInv DEF ProcessDefinition, MergeInv
<1>3. CASE Publish
  <2>1. merged' \in [from : SUBSET Services, schema : Schema]
    BY <1>0, <1>3 DEF Publish, MergeTypeOK
  <2>q. QED BY <1>0, <1>3, <2>1, PublishInv, ReturnsInv DEF Publish, MergeInv
<1>4. ASSUME Returns, UNCHANGED merged PROVE MergeInv'
  BY <1>0, <1>4, <1>m, ReturnsInv DEF MergeInv, MergeTypeOK
<1>5. CASE LoadFails BY <1>4, <1>5 DEF LoadFails
<1>6. ASSUME NEW s \in Services, MergeEntry(s) PROVE MergeInv'
  BY <1>0, <1>6, <1>m, EntryInv DEF MergeEntry, MergeInv
<1>7. ASSUME NEW s \in Services, MergeFails(s) PROVE MergeInv' BY <1>4, <1>7 DEF MergeFails
<1>8. CASE UNCHANGED mergeVars
  <2>1. MergeTypeOK' /\ Underway' /\ Processed' = Processed
    BY <1>0, <1>8 DEF mergeVars, MergeTypeOK, Underway, Processed, Position
  <2>q. QED BY <1>0, <1>8, <1>m, <2>1 DEF mergeVars, MergeInv
<1>q. QED BY <1>1, <1>2, <1>3, <1>5, <1>6, <1>7, <1>8 DEF MergeNext

-----------------------------------------------------------------------------
(* The invariant holds in every state of every run: whatever the order in  *)
(* which the services come out of the Go map, the schema under             *)
(* construction is the union of what was processed.                        *)
THEOREM MergeInductive == MergeSpec => []MergeInv
<1>q. QED BY MergeInitInv, MergeNextInv, PTL DEF MergeSpec

(* Every variable keeps its type.                                          *)
THEOREM MergeTypeCorrect == MergeSpec => []MergeTypeOK
<1>1. MergeInv => MergeTypeOK BY DEF MergeInv
<1>q. QED BY MergeInductive, <1>1, PTL

(* The schema the planner takes over is the union of all services' types   *)
(* and root fields, never the merge of some of them (Merge, merger.go).    *)
THEOREM SchemaAlwaysUnion == MergeSpec => []SchemaIsUnion
<1>1. MergeInv => SchemaIsUnion BY DEF MergeInv
<1>q. QED BY MergeInductive, <1>1, PTL

(* The owner of a root field or a type can answer for it, and a field has  *)
(* one type (processDefinition, merger.go).                                *)
THEOREM OwnersAlwaysAnswer == MergeSpec => []OwnersAnswer
<1>1. MergeInv => OwnersAnswer BY DEF MergeInv
<1>q. QED BY MergeInductive, <1>1, PTL

-----------------------------------------------------------------------------
(* The least number of a set of them, from the library's well-founded      *)
(* order of the naturals.                                                  *)
LEMMA LeastNat ==
  ASSUME NEW T, T \subseteq Nat, T # {}
  PROVE  \E x \in T : \A y \in T : x <= y
<1> DEFINE R == {ss \in Nat \X Nat : ss[1] < ss[2]}
<1>1. IsWellFoundedOn(R, Nat) BY NatLessThanWellFounded DEF OpToRel
<1>2. \A i, j \in Nat : i < j => <<i, j>> \in R OBVIOUS
<1> HIDE DEF R
<1>3. PICK x \in T : \A y \in T : ~(<<y, x>> \in R) BY <1>1, WFMin
<1>4. ASSUME NEW y \in T PROVE x <= y
  <2>1. y \in Nat /\ x \in Nat /\ ~(y < x) BY <1>2, <1>3
  <2>q. QED BY <2>1
<1>q. QED BY <1>4

(* Induction, for a set of numbers in place of a predicate.                *)
LEMMA Induction ==
  ASSUME NEW S, 0 \in S, \A n \in Nat : n \in S => n + 1 \in S
  PROVE  Nat \subseteq S
<1> DEFINE T == Nat \ S
<1> SUFFICES ASSUME T # {} PROVE FALSE OBVIOUS
<1>1. PICK x \in T : \A y \in T : x <= y
  <2>1. T \subseteq Nat OBVIOUS
  <2> HIDE DEF T
  <2>q. QED BY <2>1, LeastNat
<1>2. x # 0 /\ x - 1 \in Nat /\ x - 1 \notin T BY <1>1
<1>q. QED BY <1>1, <1>2

-----------------------------------------------------------------------------
(* A prefix, node by node.                                                 *)
LEMMA PrefixIs ==
  ASSUME NEW p \in Place, NEW q \in Place
  PROVE  IsPrefix(p, q) <=> Len(p) <= Len(q) /\ \A j \in 1..Len(p) : p[j] = q[j]
  BY DEF IsPrefix, Place

(* Prefixes are partially ordered, and those of one place are in line.     *)
LEMMA PrefixOrder ==
  ASSUME NEW p \in Place, NEW q \in Place
  PROVE  /\ IsPrefix(p, p)
         /\ IsPrefix(p, q) /\ Len(q) <= Len(p) => p = q
         /\ \A r \in Place : IsPrefix(p, q) /\ IsPrefix(q, r) => IsPrefix(p, r)
         /\ \A r \in Place : IsPrefix(p, r) /\ IsPrefix(q, r) => IsPrefix(p, q) \/ IsPrefix(q, p)
<1>1. IsPrefix(p, p) BY PrefixIs DEF Place
<1>2. ASSUME IsPrefix(p, q), Len(q) <= Len(p) PROVE p = q BY <1>2, PrefixIs DEF Place
<1>3. ASSUME NEW r \in Place, IsPrefix(p, q), IsPrefix(q, r) PROVE IsPrefix(p, r)
  <2>1. /\ Len(p) <= Len(q) /\ \A j \in 1..Len(p) : p[j] = q[j]
        /\ Len(q) <= Len(r) /\ \A j \in 1..Len(q) : q[j] = r[j]
    BY <1>3, PrefixIs
  <2>2. Len(p) <= Len(r) /\ \A j \in 1..Len(p) : p[j] = r[j] BY <2>1 DEF Place
  <2>q. QED BY <2>2, PrefixIs
<1>4. ASSUME NEW r \in Place, IsPrefix(p, r), IsPrefix(q, r)
      PROVE  IsPrefix(p, q) \/ IsPrefix(q, p)
  <2>1. /\ Len(p) <= Len(r) /\ \A j \in 1..Len(p) : p[j] = r[j]
        /\ Len(q) <= Len(r) /\ \A j \in 1..Len(q) : q[j] = r[j]
    BY <1>4, PrefixIs
  <2>2. CASE Len(p) <= Len(q)
    <3>1. \A j \in 1..Len(p) : p[j] = q[j] BY <2>1, <2>2 DEF Place
    <3>q. QED BY <2>2, <3>1, PrefixIs
  <2>3. CASE Len(q) <= Len(p)
    <3>1. \A j \in 1..Len(q) : q[j] = p[j] BY <2>1, <2>3 DEF Place
    <3>q. QED BY <2>3, <3>1, PrefixIs
  <2>q. QED BY <2>2, <2>3 DEF Place
<1>q. QED BY <1>1, <1>2, <1>3, <1>4

(* A place is the one its last node is selected below, and that node.      *)
LEMMA Splits ==
  ASSUME NEW p \in Place, p # <<>>
  PROVE  /\ Front(p) \in Place /\ Last(p) \in Node /\ Len(Front(p)) = Len(p) - 1
         /\ Last(p) = p[Len(p)] /\ \A j \in 1..(Len(p) - 1) : Front(p)[j] = p[j]
         /\ p = Append(Front(p), Last(p)) /\ Len(p) \in Nat /\ Len(p) >= 1
<1>0. p \in Seq(Node) /\ Len(p) \in Nat /\ Len(p) >= 1 BY DEF Place
<1>1. Front(p) \in Seq(Node) /\ Len(Front(p)) = Len(p) - 1
  <2>1. Len(p) - 1 \in Nat /\ Len(p) - 1 <= Len(p) BY <1>0
  <2>2. Len(Front(p)) = Len(p) - 1
    <3> DEFINE n == Len(p) - 1
    <3>1. n \in 0..Len(p) BY <1>0
    <3> HIDE DEF n
    <3>2. Len(SubSeq(p, 1, n)) = n BY <1>0, <3>1
    <3>q. QED BY <3>2 DEF Front, n
  <2>3. Front(p) \in Seq(Node) BY <1>0, <2>1 DEF Front
  <2>q. QED BY <2>2, <2>3
<1>2. Last(p) = p[Len(p)] /\ Last(p) \in Node BY <1>0 DEF Last
<1>3. \A j \in 1..(Len(p) - 1) : Front(p)[j] = p[j] BY <1>0 DEF Front
<1>4. p = Append(Front(p), Last(p)) BY <1>0 DEF Front, Last
<1>q. QED BY <1>0, <1>1, <1>2, <1>3, <1>4 DEF Place

(* What is above a place is at or above the one it is selected below.      *)
LEMMA PrefixOfFront ==
  ASSUME NEW p \in Place, p # <<>>, NEW q \in Place
  PROVE  IsPrefix(q, Front(p)) <=> IsStrictPrefix(q, p)
<1>0. /\ Front(p) \in Place /\ Len(Front(p)) = Len(p) - 1 /\ Len(p) \in Nat /\ Len(q) \in Nat
      /\ \A j \in 1..(Len(p) - 1) : Front(p)[j] = p[j]
  BY Splits DEF Place
<1>1. ASSUME IsPrefix(q, Front(p)) PROVE IsStrictPrefix(q, p)
  <2>1. Len(q) <= Len(p) - 1 /\ \A j \in 1..Len(q) : q[j] = Front(p)[j] BY <1>0, <1>1, PrefixIs
  <2>2. Len(q) <= Len(p) /\ \A j \in 1..Len(q) : q[j] = p[j] BY <1>0, <2>1
  <2>3. q # p BY <1>0, <2>1
  <2>q. QED BY <2>2, <2>3, PrefixIs DEF IsStrictPrefix
<1>2. ASSUME IsStrictPrefix(q, p) PROVE IsPrefix(q, Front(p))
  <2>1. Len(q) <= Len(p) /\ \A j \in 1..Len(q) : q[j] = p[j] BY <1>2, PrefixIs DEF IsStrictPrefix
  <2>2. Len(q) < Len(p) BY <1>0, <1>2, <2>1, PrefixOrder DEF IsStrictPrefix
  <2>3. Len(q) <= Len(Front(p)) /\ \A j \in 1..Len(q) : q[j] = Front(p)[j] BY <1>0, <2>1, <2>2
  <2>q. QED BY <1>0, <2>3, PrefixIs
<1>q. QED BY <1>1, <1>2

(* A place with one more node.                                             *)
LEMMA OneLonger ==
  ASSUME NEW p \in Place, NEW n \in Node
  PROVE  /\ Append(p, n) \in Place /\ Len(Append(p, n)) = Len(p) + 1
         /\ Append(p, n)[Len(p) + 1] = n /\ \A j \in 1..Len(p) : Append(p, n)[j] = p[j]
         /\ Front(Append(p, n)) = p /\ Last(Append(p, n)) = n
         /\ IsStrictPrefix(p, Append(p, n))
<1>1. /\ Append(p, n) \in Place /\ Len(Append(p, n)) = Len(p) + 1 /\ Len(p) \in Nat
      /\ Append(p, n)[Len(p) + 1] = n /\ \A j \in 1..Len(p) : Append(p, n)[j] = p[j]
  BY DEF Place
<1>2. Last(Append(p, n)) = n BY <1>1 DEF Last
<1>3. Front(Append(p, n)) = p BY DEF Front, Place
<1>4. IsPrefix(p, Append(p, n))
  <2>1. Len(p) <= Len(Append(p, n)) BY <1>1
  <2>q. QED BY <1>1, <2>1, PrefixIs
<1>5. p # Append(p, n) BY <1>1
<1>q. QED BY <1>1, <1>2, <1>3, <1>4, <1>5 DEF IsStrictPrefix

(* The first node on the way from a place down to another.                 *)
LEMMA Onward ==
  ASSUME NEW p \in Place, NEW q \in Place, IsStrictPrefix(p, q)
  PROVE  /\ Len(p) \in Nat /\ Len(q) \in Nat
         /\ Len(p) < Len(q) /\ Len(p) + 1 \in 1..Len(q) /\ q[Len(p) + 1] \in Node
         /\ IsPrefix(Append(p, q[Len(p) + 1]), q)
<1>0. Len(p) \in Nat /\ Len(q) \in Nat BY DEF Place
<1>1. Len(p) <= Len(q) /\ \A j \in 1..Len(p) : p[j] = q[j] BY PrefixIs DEF IsStrictPrefix
<1>2. Len(p) < Len(q) BY <1>0, <1>1, PrefixOrder DEF IsStrictPrefix
<1>3. Len(p) + 1 \in 1..Len(q) /\ q[Len(p) + 1] \in Node BY <1>0, <1>2 DEF Place
<1>4. IsPrefix(Append(p, q[Len(p) + 1]), q)
  <2> DEFINE r == Append(p, q[Len(p) + 1])
  <2>1. /\ r \in Place /\ Len(r) = Len(p) + 1 /\ r[Len(p) + 1] = q[Len(p) + 1]
        /\ \A j \in 1..Len(p) : r[j] = p[j]
    BY <1>3, OneLonger
  <2> HIDE DEF r
  <2>2. Len(r) <= Len(q) /\ \A j \in 1..Len(r) : r[j] = q[j] BY <1>0, <1>1, <1>2, <2>1
  <2>q. QED BY <2>1, <2>2, PrefixIs DEF r
<1>q. QED BY <1>0, <1>2, <1>3, <1>4

(* What DocumentsAreTrees says of one operation.                           *)
LEMMA Places ==
  ASSUME NEW doc \in Documents, NEW i \in DOMAIN doc
  PROVE  /\ doc \in Seq(Operation) /\ doc[i] \in Operation /\ i \in Nat /\ doc[i].type \in RootTypes
         /\ \A p \in doc[i].sel : p \in Place /\ p # <<>> /\ (Len(p) > 1 => Front(p) \in doc[i].sel)
<1>1. doc \in Seq(Operation) BY DocumentsAreTrees
<1>2. doc[i] \in Operation /\ i \in Nat BY <1>1
<1>3. doc[i].type \in RootTypes /\ doc[i].sel \in SUBSET Place BY <1>2 DEF Operation
<1>4. \A p \in doc[i].sel : p # <<>> /\ (Len(p) > 1 => Front(p) \in doc[i].sel) BY DocumentsAreTrees
<1>q. QED BY <1>1, <1>2, <1>3, <1>4

(* All that is on the way to a place of a document is one, by induction on *)
(* how far above it is.                                                    *)
LEMMA PlacesAbove ==
  ASSUME NEW doc \in Documents, NEW i \in DOMAIN doc, NEW c \in doc[i].sel,
         NEW p \in Place, p # <<>>, IsPrefix(p, c)
  PROVE  p \in doc[i].sel
<1> DEFINE S == {n \in Nat : \A k \in 1..Len(c) : k + n = Len(c) => SubSeq(c, 1, k) \in doc[i].sel}
<1>0. c \in Seq(Node) /\ Len(c) \in Nat BY Places DEF Place
<1>1. 0 \in S
  <2>1. SubSeq(c, 1, Len(c)) = c BY <1>0
  <2>2. ASSUME NEW k \in 1..Len(c), k + 0 = Len(c) PROVE SubSeq(c, 1, k) \in doc[i].sel
    <3>1. k = Len(c) BY <1>0, <2>2
    <3>q. QED BY <2>1, <3>1
  <2>q. QED BY <2>2
<1>2. ASSUME NEW n \in Nat, n \in S PROVE n + 1 \in S
  <2>1. ASSUME NEW k \in 1..Len(c), k + (n + 1) = Len(c) PROVE SubSeq(c, 1, k) \in doc[i].sel
    <3> DEFINE d == SubSeq(c, 1, k + 1)
    <3>0. k + 1 \in 1..Len(c) /\ (k + 1) + n = Len(c) BY <1>0, <2>1
    <3>1. d \in doc[i].sel BY <1>2, <3>0
    <3>2. Len(d) = k + 1 /\ SubSeq(d, 1, Len(d) - 1) = SubSeq(c, 1, k) BY <1>0, <3>0
    <3>3. Len(d) > 1 => Front(d) \in doc[i].sel BY <3>1, Places
    <3> HIDE DEF d
    <3>4. Front(d) = SubSeq(c, 1, k) BY <3>2 DEF Front
    <3>q. QED BY <3>0, <3>2, <3>3, <3>4
  <2>q. QED BY <2>1
<1> HIDE DEF S
<1>3. Nat \subseteq S BY <1>1, <1>2, Induction
<1>4. Len(c) - Len(p) \in Nat /\ Len(p) \in 1..Len(c) /\ p = SubSeq(c, 1, Len(p))
      /\ Len(p) + (Len(c) - Len(p)) = Len(c)
  BY <1>0 DEF IsPrefix, Place
<1>5. Len(c) - Len(p) \in S BY <1>3, <1>4
<1>q. QED BY <1>4, <1>5 DEF S

Typing(f, n, m, t, p) == f = [i \in 0..n |-> IF i = 0 THEN t ELSE NodeType(m, f[i - 1], p[i])]

(* There are types of all the places on a way down, by induction on its    *)
(* length ...                                                              *)
LEMMA TypingExists ==
  ASSUME NEW m, NEW t, NEW p
  PROVE  \A n \in Nat : \E f : Typing(f, n, m, t, p)
<1> DEFINE S == {n \in Nat : \E f : Typing(f, n, m, t, p)}
<1>1. 0 \in S
  <2>1. Typing([i \in 0..0 |-> IF i = 0 THEN t ELSE NodeType(m, [j \in 0..0 |-> t][i - 1], p[i])], 0, m, t, p)
    BY DEF Typing
  <2>q. QED BY <2>1
<1>2. ASSUME NEW n \in Nat, n \in S PROVE n + 1 \in S
  <2>1. PICK f : Typing(f, n, m, t, p) BY <1>2
  <2> DEFINE g == [i \in 0..(n + 1) |-> IF i = n + 1 THEN NodeType(m, f[n], p[n + 1]) ELSE f[i]]
  <2>2. \A i \in 0..(n + 1) : g[i] = IF i = 0 THEN t ELSE NodeType(m, g[i - 1], p[i])
    BY <2>1 DEF Typing
  <2>3. Typing(g, n + 1, m, t, p) BY <2>2, Zenon DEF Typing
  <2>q. QED BY <2>3
<1> HIDE DEF S
<1>3. Nat \subseteq S BY <1>1, <1>2, Induction
<1>q. QED BY <1>3 DEF S

(* ... and only the ones, by induction on the length.                      *)
LEMMA TypingUnique ==
  ASSUME NEW m, NEW t, NEW p, NEW q, NEW n \in Nat, NEW k \in Nat, n <= k,
         \A i \in 1..n : p[i] = q[i],
         NEW f, NEW g, Typing(f, n, m, t, p), Typing(g, k, m, t, q)
  PROVE  f[n] = g[n]
<1> DEFINE S == {i \in Nat : i <= n => f[i] = g[i]}
<1>1. 0 \in S BY DEF Typing
<1>2. ASSUME NEW i \in Nat, i \in S PROVE i + 1 \in S BY <1>2 DEF Typing
<1> HIDE DEF S
<1>3. Nat \subseteq S BY <1>1, <1>2, Induction
<1>q. QED BY <1>3 DEF S

(* So the recursive function of TypeAt is what its equation says ...       *)
LEMMA TypeAtIs ==
  ASSUME NEW m, NEW t, NEW p \in Place
  PROVE  \E f : Typing(f, Len(p), m, t, p) /\ TypeAt(m, t, p) = f[Len(p)]
<1> DEFINE T == CHOOSE f : Typing(f, Len(p), m, t, p)
<1>1. Typing(T, Len(p), m, t, p) BY TypingExists DEF Place
<1>2. T = CHOOSE f : f = [i \in 0..Len(p) |-> IF i = 0 THEN t ELSE NodeType(m, f[i - 1], p[i])]
  BY DEF Typing
<1>3. TypeAt(m, t, p) = T[Len(p)] BY <1>2, Zenon DEF TypeAt
<1>q. QED BY <1>1, <1>3

(* ... and the type at a place is that of its last node, on the type above *)
(* it.                                                                     *)
LEMMA TypeBelow ==
  ASSUME NEW m, NEW t, NEW p \in Place
  PROVE  /\ p = <<>> => TypeAt(m, t, p) = t
         /\ p # <<>> => TypeAt(m, t, p) = NodeType(m, TypeAt(m, t, Front(p)), Last(p))
<1>1. PICK f : Typing(f, Len(p), m, t, p) /\ TypeAt(m, t, p) = f[Len(p)] BY TypeAtIs
<1>2. CASE p = <<>> BY <1>1, <1>2 DEF Typing
<1>3. CASE p # <<>>
  <2>1. PICK g : Typing(g, Len(Front(p)), m, t, Front(p)) /\ TypeAt(m, t, Front(p)) = g[Len(Front(p))]
    BY <1>3, TypeAtIs, Splits
  <2>2. g[Len(Front(p))] = f[Len(Front(p))]
    <3>1. /\ Len(Front(p)) \in Nat /\ Len(p) \in Nat /\ Len(Front(p)) <= Len(p)
          /\ \A i \in 1..Len(Front(p)) : Front(p)[i] = p[i]
      BY <1>3, Splits DEF Place
    <3>q. QED BY <3>1, <1>1, <2>1, TypingUnique
  <2>3. f[Len(p)] = NodeType(m, f[Len(p) - 1], p[Len(p)])
    <3>1. Len(p) \in 0..Len(p) /\ Len(p) # 0 BY <1>3, Splits
    <3>q. QED BY <1>1, <3>1 DEF Typing
  <2>q. QED BY <1>1, <1>3, <2>1, <2>2, <2>3, Splits
<1>q. QED BY <1>2, <1>3

(* The type of a field is one of the schema's, or none.                    *)
LEMMA FieldTypes ==
  ASSUME NEW m \in Schema, NEW t \in TypeNames, NEW name \in FieldNames
  PROVE  FieldType(m, t, name) \in TypeNames \union {None}
<1>1. CASE name = TypeName
  BY <1>1, PlanAssumption, MergeAssumption DEF FieldType
<1>2. CASE name # TypeName /\ t \in RootTypes
  <2>1. m.roots[t][name] \in {None} \union RootField BY <1>2 DEF Schema
  <2>q. QED BY <1>2, <2>1 DEF FieldType, RootField
<1>3. CASE name # TypeName /\ t \notin RootTypes
  <2>1. CASE t = None \/ m.types[t] = None \/ name \notin NamesIn(m.types[t].fields)
    BY <1>3, <2>1 DEF FieldType
  <2>2. CASE ~(t = None \/ m.types[t] = None \/ name \notin NamesIn(m.types[t].fields))
    <3>1. m.types[t].fields \subseteq Plain BY <2>2 DEF Schema, TypeDef
    <3>2. \E f \in m.types[t].fields : f.name = name BY <2>2 DEF NamesIn
    <3>3. (CHOOSE f \in m.types[t].fields : f.name = name) \in Plain BY <3>1, <3>2
    <3>q. QED BY <1>3, <2>2, <3>3 DEF FieldType, Plain
  <2>q. QED BY <2>1, <2>2
<1>q. QED BY <1>1, <1>2, <1>3

(* So is its owner.                                                        *)
LEMMA Owners ==
  ASSUME NEW m \in Schema, NEW t \in TypeNames
  PROVE  OwnerOf(m, t) \in Services \union {None}
<1>1. m.types[t] \in {None} \union TypeDef BY DEF Schema
<1>q. QED BY <1>1 DEF OwnerOf, TypeDef

(* Keys are names of fields.                                               *)
LEMMA KeysKnown ==
  ASSUME NEW m \in Schema, NEW t \in TypeNames, NEW keys \in KeyChoices(m, t)
  PROVE  keys \subseteq FieldNames
<1>1. m.keys[t] \in [Services -> SUBSET FieldNames] BY DEF Schema
<1>q. QED BY <1>1 DEF KeyChoices

(* CanAccess, with its order on the rows that match, answers what the most *)
(* specific rules say.                                                     *)
LEMMA AccessAgrees ==
  ASSUME permissions \in [Rules -> {"allow", "deny", None}], NEW role, NEW t, NEW name
  PROVE  /\ TRUE \in CanAccess(role, t, name) => "allow" \in Verdicts(permissions, role, t, name)
         /\ FALSE \in CanAccess(role, t, name) => "deny" \in Verdicts(permissions, role, t, name)
<1> DEFINE about(f) == {permissions[r] : r \in {x \in Rules : x.role = role /\ x.type = t
                                                              /\ x.field = f}} \ {None}
           rows == Matching(role, t, name)
<1>1. CASE name = TypeName BY <1>1 DEF CanAccess, Verdicts
<1>2. CASE name # TypeName /\ rows = {}
  <2>1. about(name) = {} /\ about(Every) = {} BY <1>2 DEF Matching
  <2>2. Verdicts(permissions, role, t, name) = {IF role = Public THEN "allow" ELSE "deny"}
    BY <1>2, <2>1 DEF Verdicts
  <2>3. CanAccess(role, t, name) = {role = Public} BY <1>2 DEF CanAccess
  <2>4. TRUE \in CanAccess(role, t, name) => role = Public BY <2>3, Zenon
  <2>5. FALSE \in CanAccess(role, t, name) => role # Public BY <2>3, Zenon
  <2>q. QED BY <2>2, <2>4, <2>5
<1>3. CASE name # TypeName /\ rows # {}
  <2>1. CanAccess(role, t, name) = {permissions[r] = "allow" : r \in First(role, t, name)}
    BY <1>3 DEF CanAccess
  <2>2. ASSUME NEW r \in First(role, t, name)
        PROVE  permissions[r] \in Verdicts(permissions, role, t, name) /\ permissions[r] \in {"allow", "deny"}
    <3>1. /\ r \in Rules /\ permissions[r] # None /\ r.role = role /\ r.type = t
          /\ r.field \in {name, Every} /\ r \in rows
      BY PlanAssumption DEF First, Matching
    <3>2. permissions[r] \in {"allow", "deny"} BY <3>1
    <3>3. CASE r.field = name BY <1>3, <3>1, <3>2, <3>3 DEF Verdicts
    <3>4. CASE r.field # name
      <4>1. Rank(r, t, name) = 1 BY <3>1, <3>4 DEF Rank
      <4>2. \A q \in rows : q.field # name
        <5>1. SUFFICES ASSUME NEW q \in rows, q.field = name PROVE FALSE OBVIOUS
        <5>2. q.type = t BY PlanAssumption DEF Matching
        <5>3. Rank(q, t, name) = 0 BY <5>1, <5>2 DEF Rank
        <5>4. Rank(r, t, name) <= Rank(q, t, name) BY DEF First
        <5>q. QED BY <4>1, <5>3, <5>4
      <4>3. about(name) = {} BY <4>2 DEF Matching
      <4>4. permissions[r] \in about(Every) BY <3>1, <3>4
      <4>q. QED BY <1>3, <3>2, <4>3, <4>4 DEF Verdicts
    <3>q. QED BY <3>3, <3>4
  <2>3. TRUE \in CanAccess(role, t, name) => \E r \in First(role, t, name) : permissions[r] = "allow"
    BY <2>1, Zenon
  <2>4. FALSE \in CanAccess(role, t, name) => \E r \in First(role, t, name) : permissions[r] # "allow"
    BY <2>1, Zenon
  <2>q. QED BY <2>2, <2>3, <2>4
<1>q. QED BY <1>1, <1>2, <1>3

-----------------------------------------------------------------------------
(* The invariant of a plan.                                                *)

(* Place c is at or below the place of a visit still to make.              *)
Pending(i, c) == \E v \in visits : v.op = i /\ IsPrefix(v.place, c)
Walking == request # None /\ error = None

(* A visit is to a place below fields that stay with the root's owner.     *)
VisitFits(m, doc, v) ==
  /\ v.op \in DOMAIN doc /\ v.place \in doc[v.op].sel
  /\ \A j \in 1..(Len(v.place) - 1) : IsField(v.place[j])
  /\ IsField(v.place[1])
  /\ v.svc = RootOwner(m, doc[v.op], v.place)
  /\ v.def = TypeAt(m, doc[v.op].type, Front(v.place))
  /\ \A p \in doc[v.op].sel :
       IsStrictPrefix(p, v.place) => StaysLocal(m, v.svc, TypeAt(m, doc[v.op].type, p))
VisitsFit == \A v \in visits : VisitFits(schema, request.doc, v)
(* No place is come to twice.                                              *)
VisitsApart == \A v, w \in visits : v.op = w.op /\ IsPrefix(v.place, w.place) => v = w

(* A dependent step is for a field that leaves the service walked for, and *)
(* no turn still to take is at that field or above it.                     *)
StepsLeave ==
  \A d \in steps : d.op \in DOMAIN request.doc /\ d.place \in Leaving(schema, request.doc[d.op])
StepsBehind == \A d \in steps, v \in visits : d.op = v.op => ~IsPrefix(v.place, d.place)
(* Root steps ask their own service for what is below its own root fields, *)
(* and dependent steps too ask for nothing in a fragment at the root.      *)
AskedFits ==
  /\ \A a \in asked :
       /\ a.op \in DOMAIN request.doc /\ a.svc = RootOwner(schema, request.doc[a.op], a.place)
       /\ IsField(a.place[1])
  /\ \A d \in steps : \A c \in d.sel : IsField(c[1])

(* A field in the middle of its turn has been allowed.                     *)
CheckedFits ==
  \A v \in checked : v \in visits /\ IsField(Last(v.place)) /\ "allow" \in Said(v.op, v.place)

(* What the properties say of a complete plan, of all that is not pending. *)
CoveredSoFar ==
  \A i \in DOMAIN request.doc : \A c \in request.doc[i].sel :
    IsField(c[1]) => Pending(i, c) \/ Covered(i, c)
SteppedSoFar ==
  \A i \in DOMAIN request.doc : \A c \in Leaving(schema, request.doc[i]) :
    Pending(i, c) \/ StepFits(i, c)
AllowedSoFar ==
  \A i \in DOMAIN request.doc : \A c \in Reached(schema, request.doc[i]) :
    Pending(i, c) \/ "allow" \in Said(i, c)
KeyedSoFar == \A d \in steps : \A k \in d.keys : KeyIsAsked(d, k)

(* A plan being made.                                                      *)
Sound ==
  /\ Plannable(schema, request.doc)
  /\ VisitsFit /\ VisitsApart /\ StepsLeave /\ StepsBehind /\ AskedFits /\ CheckedFits
  /\ CoveredSoFar /\ SteppedSoFar /\ AllowedSoFar /\ KeyedSoFar

(* A request without a plan has nothing left to walk, and a reason.        *)
Refused ==
  /\ request = None \/ error # None => visits = {}
  /\ request # None => tables \in inForce
  /\ request # None => (error = "invalid" <=> ~Plannable(schema, request.doc))
  /\ request # None /\ error = "denied" =>
       \E i \in DOMAIN request.doc : \E c \in Reached(schema, request.doc[i]) :
         "deny" \in Said(i, c)
  /\ request # None /\ error = "failed" =>
       \E i \in DOMAIN request.doc : \E c \in Reached(schema, request.doc[i]) :
         Last(c).name # TypeName

(* The inductive invariant.                                                *)
PlanInv == TypeOK /\ Refused /\ (Walking => Sound)

-----------------------------------------------------------------------------
(* A place and one above it have one root field.                           *)
LEMMA SameRoot ==
  ASSUME NEW p \in Place, NEW q \in Place, p # <<>>, IsPrefix(p, q)
  PROVE  q[1] = p[1] /\ q # <<>>
<1>1. Len(p) >= 1 /\ Len(p) \in Nat /\ Len(q) \in Nat BY Splits DEF Place
<1>2. Len(p) <= Len(q) /\ \A j \in 1..Len(p) : p[j] = q[j] BY PrefixIs
<1>q. QED BY <1>1, <1>2

(* What a visit is to.                                                     *)
LEMMA VisitIs ==
  ASSUME TypeOK, Walking, Sound, NEW v \in visits
  PROVE  /\ v \in Visit /\ request.doc \in Documents /\ schema \in Schema
         /\ v.op \in DOMAIN request.doc /\ v.op \in Nat
         /\ v.place \in Selection(v) /\ v.place \in Place /\ v.place # <<>>
         /\ \A q \in Selection(v) : q \in Place /\ q # <<>>
         /\ CurrentType(v) = TypeAbove(schema, request.doc[v.op], v.place)
<1>1. v \in Visit /\ request.doc \in Documents /\ schema \in Schema
  BY DEF TypeOK, Walking
<1>2. VisitFits(schema, request.doc, v) BY DEF Sound, VisitsFit
<1>3. /\ v.op \in DOMAIN request.doc /\ v.place \in Selection(v)
      /\ v.def = TypeAt(schema, request.doc[v.op].type, Front(v.place))
  BY <1>2 DEF VisitFits, Selection
<1>4. CurrentType(v) = TypeAbove(schema, request.doc[v.op], v.place)
  BY <1>3 DEF CurrentType, TypeAbove
<1>5. /\ v.op \in Nat /\ \A q \in Selection(v) : q \in Place /\ q # <<>>
  BY <1>1, <1>3, Places DEF Selection
<1>q. QED BY <1>1, <1>3, <1>4, <1>5

(* A visit to a field knows its type as the schema has it, and comes to a  *)
(* field the properties call reached.                                      *)
LEMMA FieldVisited ==
  ASSUME TypeOK, Walking, Sound, NEW v \in visits, IsField(Last(v.place))
  PROVE  /\ TypeOf(v) = TypeAt(schema, request.doc[v.op].type, v.place)
         /\ TypeOf(v) \in TypeNames /\ FieldOf(v) \in FieldNames
         /\ Below(Selection(v), v.place) = {} <=> IsScalarOrEnum(schema, TypeOf(v))
         /\ v.place \in Reached(schema, request.doc[v.op])
<1> DEFINE op == request.doc[v.op]
<1>0. VisitFits(schema, request.doc, v) BY DEF Sound, VisitsFit
<1>1. /\ v \in Visit /\ request.doc \in Documents /\ schema \in Schema
      /\ v.op \in DOMAIN request.doc
      /\ v.place \in op.sel /\ v.place \in Place /\ v.place # <<>>
  BY VisitIs DEF Selection
<1>2. Last(v.place) \in Node /\ Last(v.place).name = FieldOf(v) /\ Len(v.place) \in Nat
      /\ Len(v.place) >= 1 /\ Last(v.place) = v.place[Len(v.place)]
  BY <1>1, Splits DEF FieldOf
<1>3. FieldOf(v) \in FieldNames BY <1>2 DEF Node, IsField
<1>4. TypeOf(v) = TypeAt(schema, op.type, v.place)
  <2>1. TypeAt(schema, op.type, v.place)
        = NodeType(schema, TypeAt(schema, op.type, Front(v.place)), Last(v.place))
    BY <1>1, TypeBelow
  <2>2. v.def = TypeAt(schema, op.type, Front(v.place)) BY <1>0 DEF VisitFits
  <2>q. QED BY <2>1, <2>2 DEF NodeType, TypeOf, FieldOf
<1>5. Validates(schema, op) BY <1>1 DEF Sound, Plannable
<1>6. /\ TypeOf(v) # None
      /\ Below(op.sel, v.place) = {} <=> IsScalarOrEnum(schema, TypeOf(v))
  BY <1>1, <1>4, <1>5 DEF Validates
<1>7. TypeOf(v) \in TypeNames BY <1>1, <1>3, <1>6, FieldTypes DEF TypeOf, Visit
<1>8. v.place \in Chains(op)
  <2>1. ASSUME NEW j \in DOMAIN v.place PROVE IsField(v.place[j])
    <3>1. j \in 1..(Len(v.place) - 1) \/ j = Len(v.place) BY <1>1, <1>2 DEF Place
    <3>q. QED BY <1>0, <1>2, <3>1 DEF VisitFits
  <2>q. QED BY <1>1, <2>1 DEF Chains
<1>9. v.place \in Reached(schema, op) BY <1>0, <1>8 DEF Reached, VisitFits
<1>q. QED BY <1>3, <1>4, <1>6, <1>7, <1>9 DEF Selection

(* What is at or below a visit has its root's owner; below it, a child     *)
(* leads there, and a field is reached only if the visited field stays.    *)
LEMMA BelowVisit ==
  ASSUME TypeOK, Walking, Sound, NEW v \in visits,
         NEW c \in request.doc[v.op].sel, IsPrefix(v.place, c)
  PROVE  /\ c \in Place /\ c \in Selection(v) /\ c[1] = v.place[1]
         /\ c \in Chains(request.doc[v.op]) => IsField(Last(v.place))
         /\ RootOwner(schema, request.doc[v.op], c) = v.svc
         /\ c # v.place =>
              /\ IsStrictPrefix(v.place, c)
              /\ c \in Below(Selection(v), v.place)
              /\ Append(v.place, c[Len(v.place) + 1]) \in Children(Selection(v), v.place)
              /\ c \in Reached(schema, request.doc[v.op]) => StaysLocal(schema, v.svc, TypeOf(v))
<1> DEFINE op == request.doc[v.op]
           p == v.place
<1>0. VisitFits(schema, request.doc, v) BY DEF Sound, VisitsFit
<1>1. /\ request.doc \in Documents /\ v.op \in DOMAIN request.doc
      /\ p \in op.sel /\ p \in Place /\ p # <<>> /\ Selection(v) = op.sel
  BY VisitIs DEF Selection
<1>2. c \in op.sel /\ c \in Place /\ c # <<>> BY <1>1, Places
<1>3. /\ Len(p) \in Nat /\ Len(p) >= 1 /\ Len(p) <= Len(c) /\ Len(c) \in Nat
      /\ Last(p) = p[Len(p)] /\ p[Len(p)] = c[Len(p)]
  <2>1. Len(p) \in Nat /\ Len(p) >= 1 /\ Last(p) = p[Len(p)] BY <1>1, Splits
  <2>2. Len(p) <= Len(c) /\ \A j \in 1..Len(p) : p[j] = c[j] BY <1>1, <1>2, PrefixIs
  <2>3. Len(c) \in Nat BY <1>2 DEF Place
  <2>q. QED BY <2>1, <2>2, <2>3
<1>4. c \in Chains(op) => IsField(Last(p))
  <2>1. Len(p) \in DOMAIN c BY <1>2, <1>3 DEF Place
  <2>q. QED BY <1>3, <2>1 DEF Chains
<1>5. RootOwner(schema, op, c) = v.svc /\ c[1] = p[1]
  BY <1>0, <1>1, <1>2, SameRoot DEF RootOwner, VisitFits
<1>6. ASSUME c # p
      PROVE  /\ IsStrictPrefix(p, c) /\ c \in Below(op.sel, p)
             /\ Append(p, c[Len(p) + 1]) \in Children(op.sel, p)
             /\ c \in Reached(schema, op) => StaysLocal(schema, v.svc, TypeOf(v))
  <2> DEFINE q == Append(p, c[Len(p) + 1])
  <2>1. IsStrictPrefix(p, c) BY <1>6 DEF IsStrictPrefix
  <2>2. c \in Below(op.sel, p) BY <1>2, <2>1 DEF Below
  <2>3. c[Len(p) + 1] \in Node /\ IsPrefix(q, c) BY <1>1, <1>2, <2>1, Onward
  <2>4. q \in Place /\ Len(q) = Len(p) + 1 /\ IsStrictPrefix(p, q) BY <1>1, <2>3, OneLonger
  <2> HIDE DEF q
  <2>5. q \in op.sel
    <3>1. q # <<>> BY <1>3, <2>4
    <3>q. QED BY <1>1, <1>2, <2>3, <2>4, <3>1, PlacesAbove
  <2>6. q \in Children(op.sel, p) BY <2>4, <2>5 DEF Children, Below
  <2>7. c \in Reached(schema, op) => StaysLocal(schema, v.svc, TypeOf(v))
    BY <1>1, <1>4, <1>5, <2>1, FieldVisited DEF Reached
  <2>q. QED BY <2>1, <2>2, <2>6, <2>7 DEF q
<1>q. QED BY <1>1, <1>2, <1>4, <1>5, <1>6

(* No step has been made at, above or below the place of a visit.          *)
LEMMA NoStepAround ==
  ASSUME TypeOK, Walking, Sound, NEW v \in visits, NEW d \in steps, d.op = v.op
  PROVE  d.place \in Place /\ ~IsPrefix(v.place, d.place) /\ ~IsPrefix(d.place, v.place)
<1> DEFINE op == request.doc[v.op]
<1>0. VisitFits(schema, request.doc, v) BY DEF Sound, VisitsFit
<1>1. /\ request.doc \in Documents /\ v.op \in DOMAIN request.doc
      /\ v.place \in Place /\ v.place # <<>>
  BY VisitIs
<1>2. ~IsPrefix(v.place, d.place) BY DEF Sound, StepsBehind
<1>3. d.place \in Leaving(schema, op) BY DEF Sound, StepsLeave
<1>4. d.place \in op.sel /\ ~StaysLocal(schema, RootOwner(schema, op, d.place), TypeAt(schema, op.type, d.place))
  BY <1>3 DEF Leaving, Reached, Chains
<1>5. d.place \in Place /\ d.place # <<>> BY <1>1, <1>4, Places
<1>6. ASSUME IsPrefix(d.place, v.place) PROVE FALSE
  <2>1. IsStrictPrefix(d.place, v.place) BY <1>1, <1>2, <1>6, PrefixOrder DEF IsStrictPrefix
  <2>2. RootOwner(schema, op, d.place) = v.svc
    BY <1>0, <1>1, <1>5, <1>6, SameRoot DEF RootOwner, VisitFits
  <2>q. QED BY <1>0, <1>4, <2>1, <2>2 DEF VisitFits
<1>q. QED BY <1>2, <1>5, <1>6

-----------------------------------------------------------------------------
(* What was said of a field since the plan was begun is never unsaid.      *)
LEMMA SaidStays ==
  ASSUME NEW i, NEW c, schema' = schema, request' = request, inForce \subseteq inForce'
  PROVE  Said(i, c) \subseteq Said(i, c)'
  BY DEF Said

(* A field has the steps it should get as long as none is added or taken   *)
(* from it.                                                                *)
LEMMA StepFitsStays ==
  ASSUME NEW i, NEW c, schema' = schema, request' = request, inForce \subseteq inForce',
         unlinked \subseteq unlinked',
         {d \in steps' : d.op = i /\ d.place = c} = {d \in steps : d.op = i /\ d.place = c},
         StepFits(i, c)
  PROVE  StepFits(i, c)'
<1>1. \A x \in inForce : x \in inForce' OBVIOUS
<1>2. \A v \in unlinked : v \in unlinked' OBVIOUS
<1>q. QED BY <1>1, <1>2 DEF StepFits

(* A turn concerns what is at or below its place, and nothing else.        *)
LEMMA Undisturbed ==
  ASSUME NEW v \in visits, NEW places, NEW made, NEW more, Ends(v, places, made, more),
         unlinked \subseteq unlinked',
         \A d \in made : d.op = v.op /\ d.place = v.place,
         NEW i, NEW c \in Place, ~(i = v.op /\ IsPrefix(v.place, c))
  PROVE  /\ Pending(i, c) => Pending(i, c)'
         /\ Covered(i, c) => Covered(i, c)'
         /\ StepFits(i, c) => StepFits(i, c)'
         /\ "allow" \in Said(i, c) => "allow" \in Said(i, c)'
<1>0. /\ schema' = schema /\ request' = request /\ inForce' = inForce
      /\ visits' = (visits \ {v}) \union more
      /\ asked \subseteq asked' /\ steps' = steps \union made
  BY DEF Ends
<1>1. Pending(i, c) => Pending(i, c)'
  <2>1. SUFFICES ASSUME NEW w \in visits, w.op = i, IsPrefix(w.place, c) PROVE Pending(i, c)'
    BY DEF Pending
  <2>2. w \in visits' BY <1>0, <2>1
  <2>q. QED BY <2>1, <2>2 DEF Pending
<1>2. Covered(i, c) => Covered(i, c)'
  <2> DEFINE above == {d \in steps : d.op = i /\ IsStrictPrefix(d.place, c)}
  <2>1. \A d \in made : ~(d.op = i /\ IsStrictPrefix(d.place, c)) BY DEF IsStrictPrefix
  <2>2. above' = above BY <1>0, <2>1
  <2> DEFINE root == RootOwner(schema, request.doc[i], c)
             ask == [op |-> i, svc |-> root, place |-> c]
             sent(d) == c \in d.sel \/ (BelowKey(d, c) /\ ask \in asked)
             sentNow(d) == c \in d.sel \/ (BelowKey(d, c) /\ ask \in asked')
  <2>3. Covered(i, c) <=> IF above = {} THEN ask \in asked ELSE \E d \in above : sent(d)
    BY DEF Covered, IsAsked
  <2>4. Covered(i, c)' <=> IF above' = {} THEN ask \in asked' ELSE \E d \in above' : sentNow(d)
    BY <1>0 DEF Covered, IsAsked
  <2>5. ask \in asked => ask \in asked' BY <1>0
  <2>6. \A d : sent(d) => sentNow(d) BY <2>5
  <2> HIDE DEF above, ask, sent, sentNow
  <2>q. QED BY <2>2, <2>3, <2>4, <2>5, <2>6
<1>3. StepFits(i, c) => StepFits(i, c)'
  <2>1. \A d \in made : ~(d.op = i /\ d.place = c)
    <3>1. IsPrefix(c, c) BY PrefixOrder
    <3>q. QED BY <3>1
  <2>2. {d \in steps' : d.op = i /\ d.place = c} = {d \in steps : d.op = i /\ d.place = c}
    BY <1>0, <2>1
  <2>q. QED BY <1>0, <2>2, StepFitsStays
<1>4. "allow" \in Said(i, c) => "allow" \in Said(i, c)' BY <1>0, SaidStays
<1>q. QED BY <1>1, <1>2, <1>3, <1>4

(* The places of fields.                                                   *)
LEMMA ChainIs ==
  ASSUME TypeOK, Walking, NEW i \in DOMAIN request.doc, NEW c \in Chains(request.doc[i])
  PROVE  c \in Place /\ c # <<>>
<1>1. request.doc \in Documents BY DEF TypeOK, Walking
<1>q. QED BY <1>1, Places DEF Chains

(* A turn that asks for all that is at or below its place, goes no further *)
(* down and makes one step at most, for what lies below.                   *)
LEMMA TurnEnds ==
  ASSUME TypeOK, Walking, Sound, NEW v \in visits, NEW places, NEW made,
         Ends(v, places, made, {}), unlinked \subseteq unlinked', unlinked' \subseteq unlinked \union {v},
         Whole(v) \subseteq places,
         \A q \in places : q \in Place /\ q[1] = v.place[1],
         made \subseteq Step, \A d, e \in made : d = e,
         \A d \in made : d.op = v.op /\ d.place = v.place,
         made # {} => v.place \in Leaving(schema, request.doc[v.op]),
         \A d \in made : \A c \in Below(Selection(v), v.place) : c \in d.sel \/ BelowKey(d, c),
         \A d \in made : d.sel \subseteq Below(Selection(v), v.place),
         \A d \in made : \A k \in d.keys : KeyIsAsked(d, k)',
         v.place \in Leaving(schema, request.doc[v.op]) => StepFits(v.op, v.place)',
         IsField(Last(v.place)) =>
           /\ "allow" \in Said(v.op, v.place)
           /\ IsScalarOrEnum(schema, TypeOf(v)) \/ ~StaysLocal(schema, v.svc, TypeOf(v))
  PROVE  TypeOK' /\ Sound'
<1>0. /\ schema' = schema /\ request' = request /\ error' = error /\ inForce' = inForce
      /\ visits' = visits \ {v} /\ checked' = {} /\ steps' = steps \union made
      /\ asked' = asked \union {[op |-> v.op, svc |-> v.svc, place |-> p] : p \in places}
      /\ UNCHANGED <<tableVars, mergeVars>>
  BY DEF Ends
<1>1. /\ v \in Visit /\ request.doc \in Documents /\ v.op \in DOMAIN request.doc /\ v.op \in Nat
      /\ v.place \in Place /\ v.place # <<>>
  BY VisitIs
<1>2. v.svc \in Services /\ v.svc = RootOwner(schema, request.doc[v.op], v.place)
  BY <1>1 DEF Sound, VisitsFit, VisitFits, Visit
<1>3. TypeOK'
  <2>1. MergeTypeOK' BY <1>0 DEF TypeOK, MergeTypeOK, mergeVars
  <2>2. /\ permissions' = permissions /\ links' = links /\ edits' = edits BY <1>0 DEF tableVars
  <2>3. asked' \subseteq [op : Nat, svc : Services, place : Place] BY <1>0, <1>1, <1>2 DEF TypeOK
  <2>4. visits' \subseteq Visit /\ unlinked' \subseteq Visit BY <1>0, <1>1 DEF TypeOK
  <2>q. QED BY <1>0, <2>1, <2>2, <2>3, <2>4 DEF TypeOK
<1>4. Plannable(schema, request.doc)' BY <1>0 DEF Sound
<1>5. VisitsFit' BY <1>0 DEF Sound, VisitsFit
<1>6. VisitsApart' BY <1>0 DEF Sound, VisitsApart
<1>7. StepsLeave' BY <1>0, <1>1 DEF Sound, StepsLeave
<1>8. StepsBehind'
  <2>1. ASSUME NEW d \in made, NEW w \in visits \ {v}, d.op = w.op PROVE ~IsPrefix(w.place, d.place)
    BY <2>1 DEF Sound, VisitsApart
  <2>q. QED BY <1>0, <2>1 DEF Sound, StepsBehind
<1>9. AskedFits'
  <2>1. ASSUME NEW p \in places PROVE v.svc = RootOwner(schema, request.doc[v.op], p)
    BY <1>2 DEF RootOwner
  <2>2. IsField(v.place[1]) BY DEF Sound, VisitsFit, VisitFits
  <2>3. ASSUME NEW d \in made, NEW c \in d.sel PROVE IsField(c[1])
    <3>1. c \in request.doc[v.op].sel /\ IsPrefix(v.place, c) BY DEF Below, Selection, IsStrictPrefix
    <3>q. QED BY <2>2, <3>1, BelowVisit
  <2>4. \A p \in places : IsField(p[1]) BY <2>2
  <2>q. QED BY <1>0, <1>1, <2>1, <2>3, <2>4 DEF Sound, AskedFits
<1>a. ASSUME NEW p \in Whole(v) PROVE [op |-> v.op, svc |-> v.svc, place |-> p] \in asked'
  BY <1>0
<1>b. ASSUME NEW c \in request.doc[v.op].sel, IsPrefix(v.place, c)
      PROVE  /\ c \in Place /\ c \in Whole(v) /\ RootOwner(schema, request.doc[v.op], c) = v.svc
             /\ c # v.place => c \notin Reached(schema, request.doc[v.op])
  <2>1. /\ c \in Place /\ c \in Chains(request.doc[v.op]) => IsField(Last(v.place))
        /\ RootOwner(schema, request.doc[v.op], c) = v.svc
        /\ c # v.place => /\ c \in Below(Selection(v), v.place)
                          /\ c \in Reached(schema, request.doc[v.op])
                             => StaysLocal(schema, v.svc, TypeOf(v))
    BY <1>b, BelowVisit
  <2>2. c # v.place /\ IsField(Last(v.place)) => ~IsScalarOrEnum(schema, TypeOf(v))
    BY <2>1, FieldVisited
  <2>q. QED BY <2>1, <2>2 DEF Whole, Reached
<1>c. CoveredSoFar'
  <2>1. SUFFICES ASSUME NEW i \in DOMAIN request.doc, NEW c \in request.doc[i].sel, IsField(c[1])
                 PROVE  Pending(i, c)' \/ Covered(i, c)'
    BY <1>0 DEF CoveredSoFar
  <2>2. c \in Place BY <1>1, Places
  <2>3. CASE ~(i = v.op /\ IsPrefix(v.place, c))
    <3>1. Pending(i, c) \/ Covered(i, c) BY <2>1 DEF Sound, CoveredSoFar
    <3>q. QED BY <2>2, <2>3, <3>1, Undisturbed
  <2>4. CASE i = v.op /\ IsPrefix(v.place, c)
    <3> DEFINE above == {d \in steps' : d.op = i /\ IsStrictPrefix(d.place, c)}
               ask == [op |-> i, svc |-> RootOwner(schema, request.doc[i], c), place |-> c]
    <3>1. ask \in asked' BY <1>a, <1>b, <2>4
    <3>2. CASE above = {} BY <1>0, <3>1, <3>2 DEF Covered, IsAsked
    <3>3. CASE above # {}
      <4>1. PICK d \in above : TRUE BY <3>3
      <4>2. d \in made
        <5>1. SUFFICES ASSUME d \in steps PROVE FALSE BY <1>0
        <5>2. d.place \in Place /\ ~IsPrefix(v.place, d.place) /\ ~IsPrefix(d.place, v.place)
          BY <2>4, <5>1, NoStepAround
        <5>3. IsPrefix(d.place, c) BY DEF IsStrictPrefix
        <5>q. QED BY <1>1, <2>2, <2>4, <5>2, <5>3, PrefixOrder
      <4>3. c # v.place BY <4>2 DEF IsStrictPrefix
      <4>4. c \in Below(Selection(v), v.place) BY <2>4, <4>3, BelowVisit
      <4>5. c \in d.sel \/ BelowKey(d, c) BY <4>2, <4>4
      <4>q. QED BY <1>0, <3>1, <3>3, <4>5 DEF Covered, IsAsked
    <3>q. QED BY <3>2, <3>3
  <2>q. QED BY <2>3, <2>4
<1>d. SteppedSoFar'
  <2>1. SUFFICES ASSUME NEW i \in DOMAIN request.doc, NEW c \in Leaving(schema, request.doc[i])
                 PROVE  Pending(i, c)' \/ StepFits(i, c)'
    BY <1>0 DEF SteppedSoFar
  <2>2. c \in Reached(schema, request.doc[i]) /\ c \in Chains(request.doc[i]) /\ c \in request.doc[i].sel
    BY DEF Leaving, Reached, Chains
  <2>3. c \in Place BY <2>2, ChainIs
  <2>4. CASE ~(i = v.op /\ IsPrefix(v.place, c))
    <3>1. Pending(i, c) \/ StepFits(i, c) BY DEF Sound, SteppedSoFar
    <3>q. QED BY <2>3, <2>4, <3>1, Undisturbed
  <2>5. CASE i = v.op /\ IsPrefix(v.place, c)
    <3>1. c = v.place BY <1>b, <2>2, <2>5
    <3>q. QED BY <2>5, <3>1
  <2>q. QED BY <2>4, <2>5
<1>e. AllowedSoFar'
  <2>1. SUFFICES ASSUME NEW i \in DOMAIN request.doc, NEW c \in Reached(schema, request.doc[i])
                 PROVE  Pending(i, c)' \/ "allow" \in Said(i, c)'
    BY <1>0 DEF AllowedSoFar
  <2>2. c \in Chains(request.doc[i]) /\ c \in request.doc[i].sel BY DEF Reached, Chains
  <2>3. c \in Place BY <2>2, ChainIs
  <2>4. CASE ~(i = v.op /\ IsPrefix(v.place, c))
    <3>1. Pending(i, c) \/ "allow" \in Said(i, c) BY DEF Sound, AllowedSoFar
    <3>q. QED BY <2>3, <2>4, <3>1, Undisturbed
  <2>5. CASE i = v.op /\ IsPrefix(v.place, c)
    <3>1. c = v.place BY <1>b, <2>2, <2>5
    <3>2. IsField(Last(v.place)) BY <2>2, <2>5, BelowVisit
    <3>3. "allow" \in Said(i, c) BY <2>5, <3>1, <3>2
    <3>q. QED BY <1>0, <3>3, SaidStays
  <2>q. QED BY <2>4, <2>5
<1>f. KeyedSoFar'
  <2>1. ASSUME NEW d \in steps, NEW k \in d.keys PROVE KeyIsAsked(d, k)'
    <3>1. KeyIsAsked(d, k) BY DEF Sound, KeyedSoFar
    <3>q. QED BY <1>0, <3>1 DEF KeyIsAsked
  <2>q. QED BY <1>0, <2>1 DEF KeyedSoFar
<1>g. CheckedFits' BY <1>0 DEF CheckedFits
<1>q. QED BY <1>3, <1>4, <1>5, <1>6, <1>7, <1>8, <1>9, <1>c, <1>d, <1>e, <1>f, <1>g DEF Sound

-----------------------------------------------------------------------------
(* What a turn finds in the tables has been said of its field.             *)
LEMMA TablesSay ==
  ASSUME TypeOK, Walking, Sound, tables \in inForce, NEW v \in visits, IsField(Last(v.place))
  PROVE  /\ TRUE \in CanAccess(request.role, CurrentType(v), FieldOf(v)) => "allow" \in Said(v.op, v.place)
         /\ FALSE \in CanAccess(request.role, CurrentType(v), FieldOf(v)) => "deny" \in Said(v.op, v.place)
<1> DEFINE t == TypeAbove(schema, request.doc[v.op], v.place)
<1>1. CurrentType(v) = t /\ FieldOf(v) = Last(v.place).name BY VisitIs DEF FieldOf
<1>2. permissions \in [Rules -> {"allow", "deny", None}] BY DEF TypeOK
<1>3. tables.permissions = permissions BY DEF tables
<1> HIDE DEF t
<1>4. /\ TRUE \in CanAccess(request.role, t, FieldOf(v))
         => "allow" \in Verdicts(permissions, request.role, t, FieldOf(v))
      /\ FALSE \in CanAccess(request.role, t, FieldOf(v))
         => "deny" \in Verdicts(permissions, request.role, t, FieldOf(v))
  BY <1>2, AccessAgrees
<1>5. Verdicts(permissions, request.role, t, FieldOf(v)) \subseteq Said(v.op, v.place)
  BY <1>1, <1>3 DEF Said, t
<1>q. QED BY <1>1, <1>4, <1>5

(* What is found allowed in a turn was said to be so since the plan began. *)
LEMMA AllowedIs ==
  ASSUME Sound, NEW v, Allowed(v)
  PROVE  v \in visits /\ IsField(Last(v.place)) /\ "allow" \in Said(v.op, v.place)
  BY DEF Sound, CheckedFits, Allowed

(* The same, where no step is made.                                        *)
LEMMA TurnKeeps ==
  ASSUME TypeOK, Walking, Sound, tables \in inForce, NEW v \in visits,
         Ends(v, Whole(v), {}, {}), unlinked \subseteq unlinked', unlinked' \subseteq unlinked \union {v},
         v.place \in Leaving(schema, request.doc[v.op]) => StepFits(v.op, v.place)',
         IsField(Last(v.place)) =>
           Allowed(v) /\ (IsScalarOrEnum(schema, TypeOf(v)) \/ ~StaysLocal(schema, v.svc, TypeOf(v)))
  PROVE  TypeOK' /\ Sound'
<1>1. /\ v.place \in Place /\ v.place # <<>> /\ \A q \in Selection(v) : q \in Place /\ q # <<>>
  BY VisitIs
<1>2. \A q \in Whole(v) : q \in Place /\ q[1] = v.place[1]
  BY <1>1, SameRoot DEF Whole, Below, IsStrictPrefix
<1>3. IsField(Last(v.place)) => "allow" \in Said(v.op, v.place) BY AllowedIs
<1>q. QED BY <1>2, <1>3, TurnEnds

(* The turns of the walk's loop, one by one: a fragment, of which nobody   *)
(* is asked;                                                               *)
LEMMA KeepFragmentSound ==
  ASSUME TypeOK, Walking, Sound, tables \in inForce, NEW v \in visits, KeepFragment(v)
  PROVE  TypeOK' /\ Sound'
<1>1. Ends(v, Whole(v), {}, {}) /\ unlinked' = unlinked /\ ~IsField(Last(v.place))
  BY DEF KeepFragment, Keeps
<1>2. v.place \notin Leaving(schema, request.doc[v.op])
  <2>1. v.place \in Place BY VisitIs
  <2>2. IsPrefix(v.place, v.place) /\ v.place \in request.doc[v.op].sel
    BY <2>1, PrefixOrder, VisitIs DEF Selection
  <2>q. QED BY <1>1, <2>2, BelowVisit DEF Leaving, Reached
<1>q. QED BY <1>1, <1>2, TurnKeeps

(* a scalar field, below which nothing is selected;                        *)
LEMMA KeepLeafSound ==
  ASSUME TypeOK, Walking, Sound, tables \in inForce, NEW v \in visits, KeepLeaf(v)
  PROVE  TypeOK' /\ Sound'
<1>1. /\ Ends(v, Whole(v), {}, {}) /\ unlinked' = unlinked /\ Allowed(v)
      /\ IsScalarOrEnum(schema, TypeOf(v)) /\ IsField(Last(v.place))
  BY AllowedIs DEF KeepLeaf, Keeps
<1>2. v.place \notin Leaving(schema, request.doc[v.op]) BY <1>1, FieldVisited DEF Leaving
<1>q. QED BY <1>1, <1>2, TurnKeeps

(* What a field is whose type is another service's.                        *)
LEMMA CrossingIs ==
  ASSUME TypeOK, Walking, Sound, NEW v \in visits, Crosses(v)
  PROVE  /\ Allowed(v) /\ IsField(Last(v.place)) /\ ~IsScalarOrEnum(schema, TypeOf(v))
         /\ ~StaysLocal(schema, v.svc, TypeOf(v)) /\ OwnerOf(schema, TypeOf(v)) \in Services
         /\ v.place \in Leaving(schema, request.doc[v.op])
         /\ {d \in steps : d.op = v.op /\ d.place = v.place} = {}
         /\ Below(Selection(v), v.place) # {}
<1>1. /\ Allowed(v) /\ IsField(Last(v.place)) /\ ~IsScalarOrEnum(schema, TypeOf(v))
      /\ ~StaysLocal(schema, v.svc, TypeOf(v))
  BY AllowedIs DEF Crosses, Composed
<1>2. /\ TypeOf(v) = TypeAt(schema, request.doc[v.op].type, v.place) /\ TypeOf(v) \in TypeNames
      /\ v.place \in Reached(schema, request.doc[v.op])
      /\ v.svc = RootOwner(schema, request.doc[v.op], v.place)
      /\ Below(Selection(v), v.place) # {}
  BY <1>1, FieldVisited DEF Sound, VisitsFit, VisitFits
<1>3. v.place \in Leaving(schema, request.doc[v.op]) BY <1>1, <1>2 DEF Leaving
<1>4. OwnerOf(schema, TypeOf(v)) \in Services BY <1>1, <1>2, VisitIs, Owners DEF StaysLocal
<1>5. \A d \in steps : ~(d.op = v.op /\ d.place = v.place)
  <2>1. ASSUME NEW d \in steps, d.op = v.op, d.place = v.place PROVE FALSE
    BY <2>1, NoStepAround, PrefixOrder
  <2>q. QED BY <2>1
<1>q. QED BY <1>1, <1>2, <1>3, <1>4, <1>5

(* The step of such a field is the one it should get.                      *)
LEMMA FitsAt ==
  ASSUME TypeOK, Walking, Sound, tables \in inForce, NEW v \in visits, Crosses(v),
         NEW places, NEW made, NEW more, Ends(v, places, made, more),
         \A d, e \in made : d = e,
         \A d \in made : /\ d.op = v.op /\ d.place = v.place
                        /\ d.from = v.svc /\ d.svc = OwnerOf(schema, TypeOf(v)),
         IF IsEntity(schema, v.svc, TypeOf(v))
         THEN IF made = {}
              THEN \/ KeyChoices(schema, TypeOf(v)) = {}
                   \/ \E keys \in KeyChoices(schema, TypeOf(v)) : OnlyAsks(Selection(v), v.place, keys)
              ELSE \A d \in made : /\ d.keys \in KeyChoices(schema, TypeOf(v))
                                  /\ ~OnlyAsks(Selection(v), v.place, d.keys)
         ELSE IF made = {}
              THEN ~Linked(links, v.svc, CurrentType(v), FieldOf(v)) \/ v \in unlinked'
              ELSE Linked(links, v.svc, CurrentType(v), FieldOf(v))
  PROVE  StepFits(v.op, v.place)'
<1> DEFINE op == request.doc[v.op]
           now == {d \in steps' : d.op = v.op /\ d.place = v.place}
<1>1. schema' = schema /\ request' = request /\ inForce' = inForce /\ steps' = steps \union made
  BY DEF Ends
<1>2. now = made BY <1>1, CrossingIs
<1>3. /\ TypeOf(v) = TypeAt(schema, op.type, v.place) /\ v.svc = RootOwner(schema, op, v.place)
      /\ Selection(v) = op.sel /\ FieldOf(v) = Last(v.place).name
      /\ CurrentType(v) = TypeAbove(schema, op, v.place)
  BY CrossingIs, FieldVisited, VisitIs DEF Sound, VisitsFit, VisitFits, Selection, FieldOf
<1>4. tables.links = links BY DEF tables
<1> HIDE DEF now
<1>5. now = {d \in steps' : d.op = v.op /\ d.place = v.place} BY DEF now
<1>6. CASE IsEntity(schema, v.svc, TypeOf(v))
  BY <1>1, <1>2, <1>3, <1>5, <1>6 DEF StepFits
<1>7. CASE ~IsEntity(schema, v.svc, TypeOf(v))
  <2>1. CASE made = {} BY <1>1, <1>2, <1>3, <1>4, <1>5, <1>7, <2>1 DEF StepFits
  <2>2. CASE made # {} BY <1>1, <1>2, <1>3, <1>4, <1>5, <1>7, <2>2 DEF StepFits
  <2>q. QED BY <2>1, <2>2
<1>q. QED BY <1>6, <1>7

(* an entity nobody knows a key of;                                        *)
LEMMA KeepUnkeyedSound ==
  ASSUME TypeOK, Walking, Sound, tables \in inForce, NEW v \in visits, KeepUnkeyed(v)
  PROVE  TypeOK' /\ Sound'
<1>1. /\ Ends(v, Whole(v), {}, {}) /\ unlinked' = unlinked /\ Crosses(v)
      /\ IsEntity(schema, v.svc, TypeOf(v)) /\ KeyChoices(schema, TypeOf(v)) = {}
  BY DEF KeepUnkeyed, Keeps
<1>2. StepFits(v.op, v.place)' BY <1>1, FitsAt
<1>q. QED BY <1>1, <1>2, CrossingIs, TurnKeeps

(* a field no relationship is known for;                                   *)
LEMMA KeepUnlinkedSound ==
  ASSUME TypeOK, Walking, Sound, tables \in inForce, NEW v \in visits, KeepUnlinked(v)
  PROVE  TypeOK' /\ Sound'
<1>1. /\ Ends(v, Whole(v), {}, {}) /\ unlinked' = unlinked /\ Crosses(v)
      /\ ~IsEntity(schema, v.svc, TypeOf(v))
      /\ FindRelationship(v.svc, CurrentType(v), FieldOf(v)) = {}
  BY DEF KeepUnlinked, Keeps, Joins
<1>2. ~Linked(links, v.svc, CurrentType(v), FieldOf(v)) BY <1>1 DEF FindRelationship, Linked
<1>3. StepFits(v.op, v.place)' BY <1>1, <1>2, FitsAt
<1>q. QED BY <1>1, <1>3, CrossingIs, TurnKeeps

(* one for which the lookup failed;                                        *)
LEMMA LookupFailsSound ==
  ASSUME TypeOK, Walking, Sound, tables \in inForce, NEW v \in visits, LookupFails(v)
  PROVE  TypeOK' /\ Sound'
<1>1. /\ Ends(v, Whole(v), {}, {}) /\ unlinked' = unlinked \union {v} /\ Crosses(v)
      /\ ~IsEntity(schema, v.svc, TypeOf(v))
  BY DEF LookupFails, Joins
<1>2. StepFits(v.op, v.place)' BY <1>1, FitsAt
<1>q. QED BY <1>1, <1>2, CrossingIs, TurnKeeps

(* The way down to a place begins with a child.                            *)
LEMMA ChildAbove ==
  ASSUME NEW doc \in Documents, NEW i \in DOMAIN doc, NEW p \in Place, NEW q \in Below(doc[i].sel, p)
  PROVE  LET child == Append(p, q[Len(p) + 1]) IN
         /\ child \in Children(doc[i].sel, p) /\ Last(child) = q[Len(p) + 1]
         /\ IsPrefix(child, q)
<1> DEFINE c == Append(p, q[Len(p) + 1])
<1>1. q \in doc[i].sel /\ q \in Place /\ IsStrictPrefix(p, q) BY Places DEF Below
<1>2. q[Len(p) + 1] \in Node /\ IsPrefix(c, q) /\ Len(p) \in Nat BY <1>1, Onward
<1>3. /\ c \in Place /\ Len(c) = Len(p) + 1 /\ IsStrictPrefix(p, c)
      /\ Last(c) = q[Len(p) + 1]
  BY <1>2, OneLonger
<1> HIDE DEF c
<1>4. c # <<>> BY <1>2, <1>3
<1>5. c \in doc[i].sel BY <1>1, <1>2, <1>3, <1>4, PlacesAbove
<1>q. QED BY <1>2, <1>3, <1>5 DEF Children, Below, c

(* A child is the place it is selected below and one node.                 *)
LEMMA ChildIs ==
  ASSUME NEW p \in Place, NEW q \in Place, IsStrictPrefix(p, q), Len(q) = Len(p) + 1
  PROVE  Last(q) = q[Len(p) + 1] /\ Front(q) = p
<1>1. q # <<>> /\ Len(p) \in Nat BY DEF Place
<1>2. /\ Front(q) \in Place /\ Len(Front(q)) = Len(q) - 1 /\ Last(q) = q[Len(q)] BY <1>1, Splits
<1>3. IsPrefix(p, Front(q)) BY <1>1, PrefixOfFront
<1>q. QED BY <1>1, <1>2, <1>3, PrefixOrder

(* The owner is asked for nothing only if the keys are all that is         *)
(* selected.                                                               *)
LEMMA NothingElse ==
  ASSUME NEW doc \in Documents, NEW i \in DOMAIN doc, NEW p \in Place, NEW keys
  PROVE  OnlyNonKeyFields(doc[i].sel, p, keys) = {} <=> OnlyAsks(doc[i].sel, p, keys)
<1>1. ASSUME OnlyNonKeyFields(doc[i].sel, p, keys) = {}, NEW q \in Children(doc[i].sel, p)
      PROVE  IsField(Last(q)) /\ Last(q).name \in keys
  <2>1. q \in Below(doc[i].sel, p) /\ Len(q) = Len(p) + 1 BY DEF Children
  <2>2. q \in Place /\ IsStrictPrefix(p, q) BY <2>1, Places DEF Below
  <2>3. Last(q) = q[Len(p) + 1] BY <2>1, <2>2, ChildIs
  <2>q. QED BY <1>1, <2>1, <2>3 DEF OnlyNonKeyFields
<1>2. ASSUME OnlyAsks(doc[i].sel, p, keys), NEW q \in Below(doc[i].sel, p)
      PROVE  IsField(q[Len(p) + 1]) /\ q[Len(p) + 1].name \in keys
  BY <1>2, ChildAbove DEF OnlyAsks
<1>q. QED BY <1>1, <1>2 DEF OnlyNonKeyFields, OnlyAsks

(* The names and the response keys along a place.                          *)
LEMMA Paths ==
  ASSUME NEW p \in Place
  PROVE  /\ Names(p) \in Seq(FieldNames \union TypeNames)
         /\ Keys(p) \in Seq(FieldNames \union TypeNames \union Aliases) /\ Len(Keys(p)) = Len(p)
         /\ \A n \in Node : Keys(Append(p, n)) = Append(Keys(p), n.key)
<1>1. DOMAIN p = 1..Len(p) /\ Len(p) \in Nat /\ \A j \in 1..Len(p) : p[j] \in Node BY DEF Place
<1>2. \A n \in Node : /\ n.name \in FieldNames \union TypeNames
                      /\ n.key \in FieldNames \union TypeNames \union Aliases
  BY DEF Node
<1>3. Names(p) \in Seq(FieldNames \union TypeNames)
  <2>1. Names(p) \in [1..Len(p) -> FieldNames \union TypeNames] BY <1>1, <1>2 DEF Names
  <2>q. QED BY <1>1, <2>1
<1>4. Keys(p) \in Seq(FieldNames \union TypeNames \union Aliases) /\ Len(Keys(p)) = Len(p)
  <2>1. Keys(p) \in [1..Len(p) -> FieldNames \union TypeNames \union Aliases] BY <1>1, <1>2 DEF Keys
  <2>q. QED BY <1>1, <2>1
<1>5. ASSUME NEW n \in Node PROVE Keys(Append(p, n)) = Append(Keys(p), n.key)
  <2> DEFINE q == Append(p, n)
  <2>1. /\ q \in Place /\ Len(q) = Len(p) + 1 /\ q[Len(p) + 1] = n /\ \A j \in 1..Len(p) : q[j] = p[j]
    BY OneLonger
  <2> HIDE DEF q
  <2>2. DOMAIN q = 1..(Len(p) + 1) BY <2>1 DEF Place
  <2>3. /\ DOMAIN Keys(q) = 1..(Len(p) + 1) /\ Keys(q)[Len(p) + 1] = n.key
        /\ \A j \in 1..Len(p) : Keys(q)[j] = p[j].key
    BY <1>1, <2>1, <2>2 DEF Keys
  <2>4. \A j \in 1..Len(p) : Keys(p)[j] = p[j].key BY <1>1 DEF Keys
  <2>5. Keys(q) = [j \in 1..(Len(p) + 1) |-> Keys(q)[j]] BY <2>2 DEF Keys
  <2>6. Append(Keys(p), n.key) = [j \in 1..(Len(p) + 1) |-> IF j = Len(p) + 1 THEN n.key ELSE Keys(p)[j]]
    BY <1>4, <1>1
  <2>7. \A j \in 1..(Len(p) + 1) : Keys(q)[j] = IF j = Len(p) + 1 THEN n.key ELSE Keys(p)[j]
    BY <1>1, <2>3, <2>4
  <2>q. QED BY <2>5, <2>6, <2>7 DEF q
<1>q. QED BY <1>3, <1>4, <1>5

(* The keys asked for in addition lie below the place.                     *)
LEMMA Injected ==
  ASSUME NEW p \in Place, p # <<>>, NEW sel, NEW keys, keys \subseteq FieldNames
  PROVE  \A q \in InjectKeyFields(sel, p, keys) : q \in Place /\ q[1] = p[1]
<1>1. ASSUME NEW k \in keys PROVE Append(p, Leaf(k)) \in Place /\ Append(p, Leaf(k))[1] = p[1]
  <2>1. Leaf(k) \in Node BY DEF Leaf, Node
  <2>2. Len(p) >= 1 /\ Len(p) \in Nat BY Splits
  <2>q. QED BY <2>1, <2>2, OneLonger
<1>2. ASSUME NEW q \in InjectKeyFields(sel, p, keys) PROVE q \in Place /\ q[1] = p[1]
  <2>1. PICK k \in keys : q = Append(p, Leaf(k)) BY DEF InjectKeyFields
  <2>q. QED BY <1>1, <2>1
<1>q. QED BY <1>2

(* The key of a step is asked for below its place, by its own name.        *)
LEMMA KeyHeld ==
  ASSUME TypeOK, Walking, Sound, NEW v \in visits, NEW keys, keys \subseteq FieldNames, NEW made, NEW more,
         Ends(v, Whole(v) \union InjectKeyFields(Selection(v), v.place, keys), made, more),
         NEW d, d.op = v.op, d.place = v.place, d.from = v.svc, d.names = Names(v.place), NEW k \in keys
  PROVE  KeyIsAsked(d, k)'
<1> DEFINE p == v.place
<1>1. /\ request' = request
      /\ \A q \in Whole(v) \union InjectKeyFields(Selection(v), p, keys) :
           [op |-> v.op, svc |-> v.svc, place |-> q] \in asked'
  BY DEF Ends
<1>2. p \in Place /\ \A q \in Selection(v) : q \in Place BY VisitIs
<1>3. SUFFICES ASSUME Keys(p) = d.names,
                      \A c \in Children(Selection(v), p) :
                        IsField(Last(c)) /\ Last(c).name = k => Last(c).key = k
               PROVE  \E q \in Whole(v) \union InjectKeyFields(Selection(v), p, keys) :
                        Keys(q) = Append(Keys(p), k)
  <2>1. ASSUME Keys(p) = d.names,
               NEW q \in Whole(v) \union InjectKeyFields(Selection(v), p, keys), Keys(q) = Append(Keys(p), k)
        PROVE  \E a \in asked' : a.op = d.op /\ a.svc = d.from /\ Keys(a.place) = Append(d.names, k)
    <3> DEFINE a == [op |-> v.op, svc |-> v.svc, place |-> q]
    <3>1. a \in asked' BY <1>1
    <3>2. a.op = d.op /\ a.svc = d.from /\ Keys(a.place) = Append(d.names, k) BY <2>1
    <3>q. QED BY <3>1, <3>2
  <2>q. QED BY <1>1, <2>1 DEF KeyIsAsked, Selection
<1>4. CASE Asks(Selection(v), p, k)
  <2>1. PICK q \in Children(Selection(v), p) : IsField(Last(q)) /\ Last(q).name = k BY <1>4 DEF Asks
  <2>2. /\ q \in Place /\ IsStrictPrefix(p, q) /\ Len(q) = Len(p) + 1 /\ q \in Whole(v)
    BY <1>2 DEF Children, Below, Whole
  <2>3. q # <<>> /\ Front(q) = p BY <1>2, <2>2, ChildIs DEF Place
  <2>4. q = Append(p, Last(q)) /\ Last(q) \in Node BY <2>2, <2>3, Splits
  <2>5. Keys(q) = Append(Keys(p), k) BY <1>2, <1>3, <2>1, <2>4, Paths
  <2>q. QED BY <2>2, <2>5
<1>5. CASE ~Asks(Selection(v), p, k)
  <2>1. Append(p, Leaf(k)) \in InjectKeyFields(Selection(v), p, keys) BY <1>5 DEF InjectKeyFields
  <2>2. Leaf(k) \in Node /\ Leaf(k).key = k BY DEF Leaf, Node
  <2>3. Keys(Append(p, Leaf(k))) = Append(Keys(p), k) BY <1>2, <2>2, Paths
  <2>q. QED BY <2>1, <2>3
<1>q. QED BY <1>4, <1>5

-----------------------------------------------------------------------------
(* A step of a field whose type another service owns.                      *)
LEMMA TurnSteps ==
  ASSUME TypeOK, Walking, Sound, tables \in inForce, NEW v \in visits, Crosses(v),
         NEW kind \in {"entity", "join"}, NEW keys, keys \subseteq FieldNames,
         NEW sel, sel \subseteq Below(Selection(v), v.place), NEW made,
         made \subseteq {StepFrom(v, kind, keys, sel)},
         Ends(v, Whole(v) \union InjectKeyFields(Selection(v), v.place, keys), made, {}),
         UNCHANGED unlinked,
         \A c \in Below(Selection(v), v.place) :
           c \in sel \/ (IsField(c[Len(v.place) + 1]) /\ c[Len(v.place) + 1].name \in keys),
         StepFits(v.op, v.place)'
  PROVE  TypeOK' /\ Sound'
<1> DEFINE places == Whole(v) \union InjectKeyFields(Selection(v), v.place, keys)
           d == StepFrom(v, kind, keys, sel)
<1>1. /\ v \in Visit /\ v.op \in Nat /\ v.place \in Place /\ v.place # <<>>
      /\ \A q \in Selection(v) : q \in Place /\ q # <<>>
  BY VisitIs
<1>2. \A q \in places : q \in Place /\ q[1] = v.place[1]
  BY <1>1, SameRoot, Injected DEF Whole, Below, IsStrictPrefix
<1>3. /\ d.op = v.op /\ d.place = v.place /\ d.from = v.svc /\ d.names = Names(v.place)
      /\ d.keys = keys /\ d.sel = sel
  BY DEF StepFrom
<1>4. d \in Step
  <2>1. sel \in SUBSET Place BY <1>1 DEF Below
  <2>2. OwnerOf(schema, TypeOf(v)) \in Services BY CrossingIs
  <2>3. Names(v.place) \in Seq(FieldNames \union TypeNames) BY <1>1, Paths
  <2>q. QED BY <1>1, <2>1, <2>2, <2>3 DEF StepFrom, Step, Visit, d
<1> HIDE DEF d
<1>5. ASSUME NEW e, e = d, NEW k \in keys PROVE KeyIsAsked(e, k)'
  <2>1. e.op = v.op /\ e.place = v.place /\ e.from = v.svc /\ e.names = Names(v.place) BY <1>3, <1>5
  <2>q. QED BY <2>1, KeyHeld
<1>6. /\ Allowed(v) /\ ~StaysLocal(schema, v.svc, TypeOf(v))
      /\ IsField(Last(v.place)) /\ v.place \in Leaving(schema, request.doc[v.op])
  BY CrossingIs
<1>7. "allow" \in Said(v.op, v.place) BY <1>6, AllowedIs
<1>8. \A e \in made : e = d BY DEF d
<1>9. \A e \in made : /\ e \in Step /\ e.op = v.op /\ e.place = v.place
                      /\ \A c \in Below(Selection(v), v.place) : c \in e.sel \/ BelowKey(e, c)
                      /\ e.sel \subseteq Below(Selection(v), v.place)
                      /\ \A k \in e.keys : KeyIsAsked(e, k)'
  <2>1. ASSUME NEW e \in made PROVE \A k \in e.keys : KeyIsAsked(e, k)' BY <1>3, <1>5, <1>8
  <2>q. QED BY <1>3, <1>4, <1>8, <2>1 DEF BelowKey
<1> HIDE DEF places
<1>10. Ends(v, places, made, {}) /\ Whole(v) \subseteq places BY DEF places
<1>q. QED BY <1>2, <1>6, <1>7, <1>8, <1>9, <1>10, TurnEnds

(* an entity, asked of its owner for all but the keys;                     *)
LEMMA AskEntitySound ==
  ASSUME TypeOK, Walking, Sound, tables \in inForce, NEW v \in visits, NEW keys, AskEntity(v, keys)
  PROVE  TypeOK' /\ Sound'
<1> DEFINE sel == OnlyNonKeyFields(Selection(v), v.place, keys)
           made == IF sel = {} THEN {} ELSE {StepFrom(v, "entity", keys, sel)}
<1>1. /\ Crosses(v) /\ IsEntity(schema, v.svc, TypeOf(v)) /\ keys \in KeyChoices(schema, TypeOf(v))
      /\ Ends(v, Whole(v) \union InjectKeyFields(Selection(v), v.place, keys), made, {})
      /\ UNCHANGED unlinked
  BY DEF AskEntity
<1>2. keys \subseteq FieldNames
  <2>1. TypeOf(v) \in TypeNames BY <1>1, CrossingIs, FieldVisited
  <2>q. QED BY <1>1, <2>1, VisitIs, KeysKnown
<1>3. sel = {} <=> OnlyAsks(Selection(v), v.place, keys) BY VisitIs, NothingElse DEF Selection
<1>4. \A c \in Below(Selection(v), v.place) :
        c \in sel \/ (IsField(c[Len(v.place) + 1]) /\ c[Len(v.place) + 1].name \in keys)
  BY DEF OnlyNonKeyFields
<1>5. sel \subseteq Below(Selection(v), v.place) BY DEF OnlyNonKeyFields
<1> HIDE DEF sel
<1>6. \A d \in made : d = StepFrom(v, "entity", keys, sel) OBVIOUS
<1>7. made = {} <=> sel = {} OBVIOUS
<1> HIDE DEF made
<1>8. StepFits(v.op, v.place)'
  <2>1. \A d \in made : /\ d.op = v.op /\ d.place = v.place /\ d.from = v.svc /\ d.keys = keys
                        /\ d.svc = OwnerOf(schema, TypeOf(v))
    BY <1>6 DEF StepFrom
  <2>2. CASE made = {} BY <1>1, <1>3, <1>7, <2>2, FitsAt
  <2>3. CASE made # {} BY <1>1, <1>3, <1>6, <1>7, <2>1, <2>3, FitsAt
  <2>q. QED BY <2>2, <2>3
<1>q. QED BY <1>1, <1>2, <1>4, <1>5, <1>6, <1>8, TurnSteps

(* a field joined by a relationship.                                       *)
LEMMA AskJoinSound ==
  ASSUME TypeOK, Walking, Sound, tables \in inForce, NEW v \in visits, NEW l \in links, AskJoin(v, l)
  PROVE  TypeOK' /\ Sound'
<1> DEFINE sel == Below(Selection(v), v.place)
           made == {StepFrom(v, "join", {l.field}, sel)}
<1>1. /\ Crosses(v) /\ ~IsEntity(schema, v.svc, TypeOf(v))
      /\ l \in FindRelationship(v.svc, CurrentType(v), FieldOf(v))
      /\ Ends(v, Whole(v) \union InjectKeyFields(Selection(v), v.place, {l.field}), made, {})
      /\ UNCHANGED unlinked
  BY DEF AskJoin, Joins
<1>2. {l.field} \subseteq FieldNames BY PlanAssumption DEF TypeOK
<1>3. Linked(links, v.svc, CurrentType(v), FieldOf(v)) BY <1>1 DEF Linked, FindRelationship
<1>4. StepFits(v.op, v.place)'
  <2>1. \A d \in made : /\ d.op = v.op /\ d.place = v.place /\ d.from = v.svc
                        /\ d.svc = OwnerOf(schema, TypeOf(v))
    BY DEF StepFrom
  <2>2. made # {} /\ \A d, e \in made : d = e OBVIOUS
  <2> HIDE DEF made
  <2>q. QED BY <1>1, <1>3, <2>1, <2>2, FitsAt
<1> HIDE DEF sel
<1>5. sel \subseteq Below(Selection(v), v.place) /\ Below(Selection(v), v.place) \subseteq sel BY DEF sel
<1>6. made \subseteq {StepFrom(v, "join", {l.field}, sel)} OBVIOUS
<1> HIDE DEF made
<1>q. QED BY <1>1, <1>2, <1>4, <1>5, <1>6, TurnSteps

-----------------------------------------------------------------------------
(* The recursion: the visits to the children take the place of the one.    *)
LEMMA DescendSound ==
  ASSUME TypeOK, Walking, Sound, tables \in inForce, NEW v \in visits, Descend(v)
  PROVE  TypeOK' /\ Sound'
<1> DEFINE p == v.place
           op == request.doc[v.op]
           visit(q) == [op |-> v.op, svc |-> v.svc, place |-> q, def |-> TypeOf(v)]
           more == {visit(q) : q \in Children(Selection(v), p)}
<1>1. /\ Allowed(v) /\ IsField(Last(p)) /\ ~IsScalarOrEnum(schema, TypeOf(v))
      /\ StaysLocal(schema, v.svc, TypeOf(v))
      /\ Ends(v, {p}, {}, more) /\ unlinked' = unlinked
  BY AllowedIs DEF Descend, Composed
<1>2. /\ v \in Visit /\ request.doc \in Documents /\ v.op \in DOMAIN request.doc /\ v.op \in Nat
      /\ p \in Place /\ p # <<>> /\ Selection(v) = op.sel /\ p \in op.sel
      /\ \A q \in op.sel : q \in Place /\ q # <<>>
  BY VisitIs DEF Selection
<1>3. VisitFits(schema, request.doc, v) BY DEF Sound, VisitsFit
<1>4. TypeOf(v) = TypeAt(schema, op.type, p) /\ TypeOf(v) \in TypeNames BY <1>1, FieldVisited
<1>5. \A q \in Children(op.sel, p) :
        /\ q \in op.sel /\ q \in Place /\ q # <<>> /\ IsStrictPrefix(p, q) /\ Len(q) = Len(p) + 1
        /\ Front(q) = p
  BY <1>2, ChildIs DEF Children, Below
<1>6. \A w \in more : w.op = v.op /\ w.place \in Children(op.sel, p) /\ w = visit(w.place)
  BY <1>2
<1>7. \A q \in Children(op.sel, p) : visit(q) \in more /\ visit(q).place = q /\ visit(q).op = v.op
  BY <1>2
<1> HIDE DEF more
<1>8. /\ schema' = schema /\ request' = request /\ error' = error /\ inForce' = inForce
      /\ visits' = (visits \ {v}) \union more /\ steps' = steps
      /\ asked' = asked \union {[op |-> v.op, svc |-> v.svc, place |-> p]}
      /\ checked' = {} /\ UNCHANGED <<tableVars, mergeVars>>
  BY <1>1 DEF Ends
<1>9. TypeOK'
  <2>1. MergeTypeOK' BY <1>8 DEF TypeOK, MergeTypeOK, mergeVars
  <2>2. permissions' = permissions /\ links' = links /\ edits' = edits BY <1>8 DEF tableVars
  <2>3. asked' \subseteq [op : Nat, svc : Services, place : Place] BY <1>2, <1>8 DEF TypeOK, Visit
  <2>4. \A q \in Children(op.sel, p) : visit(q) \in Visit BY <1>2, <1>4, <1>5 DEF Visit
  <2>5. visits' \subseteq Visit BY <1>6, <1>8, <2>4 DEF TypeOK
  <2>q. QED BY <1>1, <1>8, <2>1, <2>2, <2>3, <2>5 DEF TypeOK
<1>10. VisitsFit'
  <2>1. ASSUME NEW q \in Children(op.sel, p) PROVE VisitFits(schema, request.doc, visit(q))
    <3>0. /\ q \in op.sel /\ q \in Place /\ q # <<>> /\ IsStrictPrefix(p, q) /\ Len(q) = Len(p) + 1
          /\ Front(q) = p
      BY <1>5
    <3>1. Len(p) \in Nat /\ Len(p) >= 1 /\ Last(p) = p[Len(p)] BY <1>2, Splits
    <3>2. IsPrefix(p, q) /\ \A j \in 1..Len(p) : p[j] = q[j]
      BY <1>2, <3>0, PrefixIs DEF IsStrictPrefix
    <3>3. \A j \in 1..(Len(q) - 1) : IsField(q[j])
      <4>1. ASSUME NEW j \in 1..(Len(q) - 1) PROVE IsField(q[j])
        <5>1. j \in 1..(Len(p) - 1) \/ j = Len(p) BY <3>0, <3>1
        <5>2. j \in 1..Len(p) BY <3>0, <3>1
        <5>q. QED BY <1>1, <1>3, <3>1, <3>2, <5>1, <5>2 DEF VisitFits
      <4>q. QED BY <4>1
    <3>4. q[1] = p[1] BY <3>1, <3>2
    <3>5. v.svc = RootOwner(schema, op, q) BY <1>3, <3>4 DEF VisitFits, RootOwner
    <3>6. ASSUME NEW r \in op.sel, IsStrictPrefix(r, q)
          PROVE  StaysLocal(schema, v.svc, TypeAt(schema, op.type, r))
      <4>1. r \in Place /\ IsPrefix(r, p) BY <1>2, <3>0, <3>6, PrefixOfFront
      <4>2. CASE r = p BY <1>1, <1>4, <4>2
      <4>3. CASE r # p BY <1>3, <4>1, <4>3 DEF VisitFits, IsStrictPrefix
      <4>q. QED BY <4>2, <4>3
    <3>q. QED BY <1>2, <1>3, <1>4, <3>0, <3>3, <3>4, <3>5, <3>6 DEF VisitFits
  <2>2. \A w \in more : VisitFits(schema, request.doc, w) BY <1>6, <2>1
  <2>q. QED BY <1>8, <2>2 DEF Sound, VisitsFit
<1>11. VisitsApart'
  <2>1. \A w \in visits : w.place \in Place BY DEF TypeOK, Visit
  <2>2. ASSUME NEW w \in visits \ {v}, NEW x \in more, w.op = x.op,
               IsPrefix(w.place, x.place) \/ IsPrefix(x.place, w.place)
        PROVE  FALSE
    <3>1. x.op = v.op /\ x.place \in Place /\ IsPrefix(p, x.place) BY <1>5, <1>6 DEF IsStrictPrefix
    <3>2. IsPrefix(w.place, p) \/ IsPrefix(p, w.place) BY <1>2, <2>1, <2>2, <3>1, PrefixOrder
    <3>q. QED BY <2>2, <3>1, <3>2 DEF Sound, VisitsApart
  <2>3. ASSUME NEW w \in more, NEW x \in more, IsPrefix(w.place, x.place) PROVE w = x
    <3>1. w.place = x.place
      <4>1. /\ w.place \in Place /\ x.place \in Place /\ Len(p) \in Nat
            /\ Len(w.place) = Len(p) + 1 /\ Len(x.place) = Len(p) + 1
        BY <1>2, <1>5, <1>6 DEF Place
      <4>q. QED BY <2>3, <4>1, PrefixOrder
    <3>q. QED BY <1>6, <3>1
  <2>q. QED BY <1>8, <2>2, <2>3 DEF Sound, VisitsApart
<1>12. StepsBehind'
  <2>1. ASSUME NEW d \in steps, NEW w \in more, d.op = w.op, IsPrefix(w.place, d.place) PROVE FALSE
    <3>1. d.place \in Place /\ ~IsPrefix(p, d.place) BY <1>6, <2>1, NoStepAround
    <3>2. w.place \in Place /\ IsPrefix(p, w.place) BY <1>5, <1>6 DEF IsStrictPrefix
    <3>q. QED BY <1>2, <2>1, <3>1, <3>2, PrefixOrder
  <2>q. QED BY <1>8, <2>1 DEF Sound, StepsBehind
<1>13. StepsLeave' BY <1>8 DEF Sound, StepsLeave
<1>14. AskedFits'
  <2>1. v.svc = RootOwner(schema, op, p) /\ IsField(p[1]) BY <1>3 DEF VisitFits
  <2>q. QED BY <1>2, <1>8, <2>1 DEF Sound, AskedFits
<1>15. Plannable(schema, request.doc)' /\ KeyedSoFar'
  <2>1. ASSUME NEW d \in steps, NEW k \in d.keys PROVE KeyIsAsked(d, k)'
    <3>1. KeyIsAsked(d, k) BY DEF Sound, KeyedSoFar
    <3>q. QED BY <1>8, <3>1 DEF KeyIsAsked
  <2>q. QED BY <1>8, <2>1 DEF Sound, KeyedSoFar
<1>b. ASSUME NEW c \in op.sel, IsPrefix(p, c), c # p PROVE Pending(v.op, c)'
  <2> DEFINE q == Append(p, c[Len(p) + 1])
  <2>1. c \in Below(op.sel, p) BY <1>2, <1>b, BelowVisit
  <2>2. q \in Children(op.sel, p) /\ IsPrefix(q, c) BY <1>2, <2>1, ChildAbove
  <2> HIDE DEF q
  <2>3. visit(q) \in visits' /\ visit(q).op = v.op /\ visit(q).place = q BY <1>7, <1>8, <2>2
  <2>q. QED BY <2>2, <2>3 DEF Pending
<1>c. CoveredSoFar'
  <2>1. SUFFICES ASSUME NEW i \in DOMAIN request.doc, NEW c \in request.doc[i].sel, IsField(c[1])
                 PROVE  Pending(i, c)' \/ Covered(i, c)'
    BY <1>8 DEF CoveredSoFar
  <2>2. c \in Place BY <1>2, Places
  <2>3. CASE ~(i = v.op /\ IsPrefix(p, c))
    <3>1. Pending(i, c) \/ Covered(i, c) BY <2>1 DEF Sound, CoveredSoFar
    <3>q. QED BY <1>1, <2>2, <2>3, <3>1, Undisturbed
  <2>4. CASE i = v.op /\ c = p
    <3>1. {d \in steps' : d.op = i /\ IsStrictPrefix(d.place, c)} = {}
      BY <1>8, <2>4, NoStepAround DEF IsStrictPrefix
    <3>2. [op |-> i, svc |-> RootOwner(schema, request.doc[i], c), place |-> c] \in asked'
      BY <1>3, <1>8, <2>4 DEF VisitFits
    <3>q. QED BY <1>8, <3>1, <3>2 DEF Covered, IsAsked
  <2>q. QED BY <1>b, <2>3, <2>4
<1>d. SteppedSoFar'
  <2>1. SUFFICES ASSUME NEW i \in DOMAIN request.doc, NEW c \in Leaving(schema, request.doc[i])
                 PROVE  Pending(i, c)' \/ StepFits(i, c)'
    BY <1>8 DEF SteppedSoFar
  <2>2. c \in request.doc[i].sel BY DEF Leaving, Reached, Chains
  <2>3. c \in Place BY <1>2, <2>2, Places
  <2>4. CASE ~(i = v.op /\ IsPrefix(p, c))
    <3>1. Pending(i, c) \/ StepFits(i, c) BY DEF Sound, SteppedSoFar
    <3>q. QED BY <1>1, <2>3, <2>4, <3>1, Undisturbed
  <2>5. ~(i = v.op /\ c = p) BY <1>1, <1>3, <1>4 DEF Leaving, VisitFits
  <2>q. QED BY <1>b, <2>2, <2>4, <2>5
<1>e. AllowedSoFar'
  <2>1. SUFFICES ASSUME NEW i \in DOMAIN request.doc, NEW c \in Reached(schema, request.doc[i])
                 PROVE  Pending(i, c)' \/ "allow" \in Said(i, c)'
    BY <1>8 DEF AllowedSoFar
  <2>2. c \in request.doc[i].sel BY DEF Reached, Chains
  <2>3. c \in Place BY <1>2, <2>2, Places
  <2>4. CASE ~(i = v.op /\ IsPrefix(p, c))
    <3>1. Pending(i, c) \/ "allow" \in Said(i, c) BY DEF Sound, AllowedSoFar
    <3>q. QED BY <1>1, <2>3, <2>4, <3>1, Undisturbed
  <2>5. CASE i = v.op /\ c = p
    <3>1. "allow" \in Said(i, c) BY <1>1, <2>5, AllowedIs
    <3>q. QED BY <1>8, <3>1, SaidStays
  <2>q. QED BY <1>b, <2>2, <2>4, <2>5
<1>f. CheckedFits' BY <1>1 DEF CheckedFits, Ends
<1>q. QED BY <1>9, <1>10, <1>11, <1>12, <1>13, <1>14, <1>15, <1>c, <1>d, <1>e, <1>f DEF Sound

-----------------------------------------------------------------------------
(* The tables are no part of the plan, only what they said of it is.       *)
LEMMA TablesChange ==
  ASSUME Sound, UNCHANGED <<request, schema, visits, asked, steps, unlinked>>, inForce \subseteq inForce',
         checked' = checked \/ CheckedFits'
  PROVE  Sound'
<1>0. /\ request' = request /\ schema' = schema /\ visits' = visits /\ asked' = asked
      /\ steps' = steps /\ unlinked' = unlinked
  OBVIOUS
<1>1. Plannable(schema, request.doc)' BY <1>0 DEF Sound
<1>2. VisitsFit' /\ VisitsApart' BY <1>0 DEF Sound, VisitsFit, VisitsApart
<1>3. StepsLeave' /\ StepsBehind' /\ AskedFits'
  BY <1>0 DEF Sound, StepsLeave, StepsBehind, AskedFits
<1>4. \A i, c : Pending(i, c)' <=> Pending(i, c) BY <1>0 DEF Pending
<1>5. \A i, c : Covered(i, c)' <=> Covered(i, c) BY <1>0 DEF Covered, IsAsked
<1>6. CoveredSoFar' BY <1>0, <1>4, <1>5 DEF Sound, CoveredSoFar
<1>7. SteppedSoFar'
  <2>1. \A i, c : StepFits(i, c) => StepFits(i, c)' BY <1>0, StepFitsStays
  <2>q. QED BY <1>0, <1>4, <2>1 DEF Sound, SteppedSoFar
<1>8. AllowedSoFar'
  <2>1. \A i, c : Said(i, c) \subseteq Said(i, c)' BY <1>0, SaidStays
  <2>q. QED BY <1>0, <1>4, <2>1 DEF Sound, AllowedSoFar
<1>9. KeyedSoFar'
  <2>1. \A d, k : KeyIsAsked(d, k)' <=> KeyIsAsked(d, k) BY <1>0 DEF KeyIsAsked
  <2>q. QED BY <1>0, <2>1 DEF Sound, KeyedSoFar
<1>10. CheckedFits'
  <2>1. \A i, c : Said(i, c) \subseteq Said(i, c)' BY <1>0, SaidStays
  <2>2. CASE checked' = checked BY <1>0, <2>1, <2>2 DEF Sound, CheckedFits
  <2>q. QED BY <2>2
<1>q. QED BY <1>1, <1>2, <1>3, <1>6, <1>7, <1>8, <1>9, <1>10 DEF Sound

(* The first half of a turn: what a rule in force allows has been allowed. *)
LEMMA AllowSound ==
  ASSUME TypeOK, Walking, Sound, tables \in inForce, NEW v \in visits, Allow(v)
  PROVE  TypeOK' /\ Sound'
<1>1. /\ IsField(Last(v.place)) /\ TRUE \in CanAccess(request.role, CurrentType(v), FieldOf(v))
      /\ checked' = {v}
      /\ UNCHANGED <<request, schema, visits, asked, steps, error, unlinked, inForce, tableVars, mergeVars>>
  BY DEF Allow
<1>2. TypeOK' BY <1>1 DEF TypeOK, MergeTypeOK, mergeVars, tableVars
<1>3. "allow" \in Said(v.op, v.place)'
  <2>1. "allow" \in Said(v.op, v.place) BY <1>1, TablesSay
  <2>q. QED BY <1>1, <2>1, SaidStays
<1>4. CheckedFits' BY <1>1, <1>3 DEF CheckedFits
<1>q. QED BY <1>1, <1>2, <1>4, TablesChange

(* A turn that does not end it all leaves a sound plan.                    *)
LEMMA TurnSound ==
  ASSUME PlanInv, NEW v \in visits, TakeTurn(v), Walking'
  PROVE  TypeOK' /\ Sound'
<1>1. TypeOK /\ Walking /\ Sound /\ tables \in inForce BY DEF PlanInv, Refused, Walking
<1>2. ~Deny(v) /\ ~CheckFails(v)
  BY PlanAssumption DEF Walking, Deny, CheckFails, Fails
<1>q. QED
  BY <1>1, <1>2, KeepFragmentSound, KeepLeafSound, DescendSound, KeepUnkeyedSound,
     KeepUnlinkedSound, LookupFailsSound, AskEntitySound, AskJoinSound, AllowSound
  DEF TakeTurn

(* A turn that refuses the query leaves nothing of the plan.               *)
LEMMA TurnRefuses ==
  ASSUME PlanInv, NEW v \in visits, TakeTurn(v)
  PROVE  TypeOK' /\ Refused'
<1>1. TypeOK /\ Walking /\ Sound /\ tables \in inForce BY DEF PlanInv, Refused, Walking
<1>2. CASE Deny(v)
  <2>1. /\ IsField(Last(v.place)) /\ FALSE \in CanAccess(request.role, CurrentType(v), FieldOf(v))
        /\ error' = "denied" /\ visits' = {} /\ checked' = {} /\ asked' = {} /\ steps' = {}
        /\ UNCHANGED <<request, schema, inForce, unlinked, tableVars, mergeVars>>
    BY <1>2 DEF Deny, Fails
  <2>2. /\ v.op \in DOMAIN request.doc /\ v.place \in Reached(schema, request.doc[v.op])
        /\ "deny" \in Said(v.op, v.place)
    BY <1>1, <2>1, VisitIs, FieldVisited, TablesSay
  <2>3. "deny" \in Said(v.op, v.place)' BY <2>1, <2>2, SaidStays
  <2>4. TypeOK' BY <1>1, <2>1 DEF TypeOK, MergeTypeOK, mergeVars, tableVars
  <2>5. tables' \in inForce' BY <1>1, <2>1 DEF tables, tableVars
  <2>6. Plannable(schema, request.doc)' BY <1>1, <2>1 DEF Sound
  <2>q. QED BY <2>1, <2>2, <2>3, <2>4, <2>5, <2>6, PlanAssumption DEF Refused
<1>3. CASE CheckFails(v)
  <2>1. /\ error' = "failed" /\ visits' = {} /\ checked' = {} /\ asked' = {} /\ steps' = {}
        /\ UNCHANGED <<request, schema, inForce, unlinked, tableVars, mergeVars>>
    BY <1>3 DEF CheckFails, Fails
  <2>2. TypeOK' BY <1>1, <2>1 DEF TypeOK, MergeTypeOK, mergeVars, tableVars
  <2>3. tables' \in inForce' BY <1>1, <2>1 DEF tables, tableVars
  <2>4. /\ v.op \in DOMAIN request.doc /\ v.place \in Reached(schema, request.doc[v.op])
        /\ Last(v.place).name # TypeName
    BY <1>1, <1>3, VisitIs, FieldVisited DEF CheckFails, FieldOf
  <2>5. Plannable(schema, request.doc)' BY <1>1, <2>1 DEF Sound
  <2>q. QED BY <2>1, <2>2, <2>3, <2>4, <2>5 DEF Refused
<1>4. CASE ~Deny(v) /\ ~CheckFails(v)
  <2>1. request' = request /\ error' = error /\ inForce' = inForce /\ UNCHANGED tableVars
    BY <1>4 DEF TakeTurn, Allow, KeepFragment, KeepLeaf, KeepUnkeyed, KeepUnlinked, LookupFails, AskEntity,
               AskJoin, Descend, Keeps, Ends
  <2>2. TypeOK' BY <1>1, <2>1, TurnSound DEF Walking
  <2>3. tables' \in inForce' BY <1>1, <2>1 DEF tables, tableVars
  <2>4. request' # None /\ error' = None /\ (Walking' => Plannable(schema, request.doc)')
    BY <1>1, <2>1, TurnSound DEF Walking, Sound
  <2>q. QED BY <2>2, <2>3, <2>4, PlanAssumption DEF Refused, Walking
<1>q. QED BY <1>2, <1>3, <1>4

(* A refusal keeps its reason.                                             *)
LEMMA StillRefused ==
  ASSUME Refused, UNCHANGED walkVars, inForce \subseteq inForce', request # None => tables' \in inForce'
  PROVE  Refused'
<1>0. request' = request /\ schema' = schema /\ visits' = visits /\ error' = error BY DEF walkVars
<1>1. ASSUME request # None, error = "denied"
      PROVE  \E i \in DOMAIN request.doc : \E c \in Reached(schema, request.doc[i]) : "deny" \in Said(i, c)'
  <2>0. PICK i \in DOMAIN request.doc : \E c \in Reached(schema, request.doc[i]) : "deny" \in Said(i, c)
    BY <1>1 DEF Refused
  <2>1. PICK c \in Reached(schema, request.doc[i]) : "deny" \in Said(i, c) BY <2>0
  <2>2. "deny" \in Said(i, c)' BY <1>0, <2>1, SaidStays
  <2>q. QED BY <2>2
<1>2. request' = None \/ error' # None => visits' = {} BY <1>0 DEF Refused
<1>3. /\ request' # None => (error' = "invalid" <=> ~Plannable(schema, request.doc)')
      /\ request' # None /\ error' = "failed" =>
           \E i \in DOMAIN request.doc : \E c \in Reached(schema, request.doc[i]) : Last(c).name # TypeName
  BY <1>0 DEF Refused
<1>q. QED BY <1>0, <1>1, <1>2, <1>3 DEF Refused

-----------------------------------------------------------------------------
(* Permissions and relationships change in the middle of a walk.           *)
LEMMA MetadataInv ==
  ASSUME PlanInv, Metadata, permissions' \in [Rules -> {"allow", "deny", None}], links' \subseteq Links
  PROVE  PlanInv'
<1>1. /\ edits' = edits + 1 /\ UNCHANGED <<mergeVars, walkVars>>
      /\ inForce' = IF request = None THEN {} ELSE inForce \union {tables'}
  BY DEF Metadata, Free
<1>2. TypeOK'
  <2>1. MergeTypeOK' BY <1>1 DEF PlanInv, TypeOK, MergeTypeOK, mergeVars
  <2>2. edits' \in Nat BY <1>1 DEF PlanInv, TypeOK
  <2>q. QED BY <1>1, <2>1, <2>2 DEF PlanInv, TypeOK, walkVars
<1>3. CASE request = None
  BY <1>1, <1>2, <1>3 DEF PlanInv, Refused, Walking, walkVars
<1>4. CASE request # None
  <2>1. inForce \subseteq inForce' /\ tables' \in inForce' BY <1>1, <1>4
  <2>2. Refused' BY <1>1, <2>1, StillRefused DEF PlanInv
  <2>3. Walking' => Sound' BY <1>1, <2>1, TablesChange DEF PlanInv, Walking, walkVars
  <2>q. QED BY <1>2, <2>2, <2>3 DEF PlanInv
<1>q. QED BY <1>3, <1>4

(* So does the schema, which the walk has read already.                    *)
LEMMA MergeStepInv ==
  ASSUME PlanInv, MergeTypeOK', UNCHANGED planVars
  PROVE  PlanInv'
<1>1. UNCHANGED <<tableVars, inForce, walkVars>> BY DEF planVars
<1>2. TypeOK' BY <1>1 DEF PlanInv, TypeOK, walkVars, tableVars
<1>3. tables' = tables BY <1>1 DEF tables, tableVars
<1>4. Refused' BY <1>1, <1>3, StillRefused DEF PlanInv, Refused
<1>5. Walking' => Sound' BY <1>1, TablesChange DEF PlanInv, Walking, walkVars
<1>q. QED BY <1>2, <1>4, <1>5 DEF PlanInv

(* The walk begins at the root fields.                                     *)
LEMMA RootsSound ==
  ASSUME NEW doc \in Documents, NEW m \in Schema, Plannable(m, doc),
         request'.doc = doc, schema' = m, visits' = RootVisits(m, doc), checked' = {}, asked' = {},
         steps' = {}
  PROVE  visits' \subseteq Visit /\ Sound'
<1>1. ASSUME NEW i \in DOMAIN doc, NEW p \in RootFields(doc[i])
      PROVE  /\ i \in Nat /\ p \in doc[i].sel /\ p \in Place /\ p # <<>> /\ Len(p) = 1 /\ IsField(p[1])
             /\ RootOwner(m, doc[i], p) \in Services /\ doc[i].type \in TypeNames
  <2>1. p \in doc[i].sel /\ Len(p) = 1 /\ IsField(p[1]) BY DEF RootFields
  <2>2. /\ i \in Nat /\ doc[i].type \in RootTypes /\ p \in Place /\ p # <<>> BY <2>1, Places
  <2>3. doc[i].type \in TypeNames BY <2>2, MergeAssumption
  <2>4. p[1].name \in FieldNames
    <3>1. p[1] \in Node BY <2>1, <2>2 DEF Place
    <3>q. QED BY <2>1, <3>1 DEF Node, IsField
  <2>5. m.roots[doc[i].type][p[1].name] # None BY DEF Plannable, Owned
  <2>6. m.roots[doc[i].type][p[1].name] \in RootField BY <2>2, <2>4, <2>5 DEF Schema
  <2>q. QED BY <2>1, <2>2, <2>3, <2>6 DEF RootOwner, RootField
<1> DEFINE visit(i, p) == [op |-> i, svc |-> RootOwner(m, doc[i], p), place |-> p, def |-> doc[i].type]
<1>2. \A v \in visits' : /\ v.op \in DOMAIN doc /\ v.place \in RootFields(doc[v.op])
                         /\ v = visit(v.op, v.place)
  <2>1. ASSUME NEW v \in visits'
        PROVE  v.op \in DOMAIN doc /\ v.place \in RootFields(doc[v.op]) /\ v = visit(v.op, v.place)
    <3>1. PICK i \in DOMAIN doc : v \in {visit(i, p) : p \in RootFields(doc[i])} BY DEF RootVisits
    <3>2. PICK p \in RootFields(doc[i]) : v = visit(i, p) BY <3>1
    <3>q. QED BY <3>2
  <2>q. QED BY <2>1
<1>3. \A i \in DOMAIN doc : \A p \in RootFields(doc[i]) : visit(i, p) \in visits' BY DEF RootVisits
<1>4. ASSUME NEW i \in DOMAIN doc, NEW p \in RootFields(doc[i])
      PROVE  visit(i, p) \in Visit /\ VisitFits(m, doc, visit(i, p))
  <2>1. /\ i \in Nat /\ p \in doc[i].sel /\ p \in Place /\ p # <<>> /\ Len(p) = 1 /\ IsField(p[1])
        /\ RootOwner(m, doc[i], p) \in Services /\ doc[i].type \in TypeNames
    BY <1>1
  <2>2. visit(i, p) \in Visit BY <2>1 DEF Visit
  <2>3. doc[i].type = TypeAt(m, doc[i].type, Front(p))
    <3>1. Front(p) \in Place /\ Len(Front(p)) = 0 BY <2>1, Splits
    <3>2. Front(p) = <<>> BY <3>1 DEF Place
    <3>q. QED BY <3>1, <3>2, TypeBelow
  <2>4. \A q \in doc[i].sel : ~IsStrictPrefix(q, p)
    <3>1. ASSUME NEW q \in doc[i].sel, IsStrictPrefix(q, p) PROVE FALSE
      <4>1. q \in Place /\ q # <<>> BY Places
      <4>2. Len(q) >= 1 /\ Len(q) < Len(p) BY <2>1, <3>1, <4>1, Splits, Onward
      <4>q. QED BY <2>1, <4>1, <4>2 DEF Place
    <3>q. QED BY <3>1
  <2> DEFINE w == visit(i, p)
  <2>5. w.op = i /\ w.place = p /\ w.svc = RootOwner(m, doc[i], p) /\ w.def = doc[i].type OBVIOUS
  <2> HIDE DEF w
  <2>6. \A j \in 1..(Len(p) - 1) : IsField(p[j]) BY <2>1
  <2>7. VisitFits(m, doc, w) BY <2>1, <2>3, <2>4, <2>5, <2>6 DEF VisitFits
  <2>q. QED BY <2>2, <2>7 DEF w
<1> HIDE DEF visit
<1>5. visits' \subseteq Visit BY <1>2, <1>4
<1>6. VisitsFit' BY <1>2, <1>4 DEF VisitsFit
<1>7. VisitsApart'
  <2>1. ASSUME NEW v \in visits', NEW w \in visits', v.op = w.op, IsPrefix(v.place, w.place)
        PROVE  v = w
    <3>1. /\ v.place \in Place /\ w.place \in Place /\ Len(v.place) = 1 /\ Len(w.place) = 1
      BY <1>1, <1>2
    <3>2. v.place = w.place BY <2>1, <3>1, PrefixOrder
    <3>q. QED BY <1>2, <2>1, <3>2
  <2>q. QED BY <2>1 DEF VisitsApart
<1>8. ASSUME NEW i \in DOMAIN doc, NEW c \in doc[i].sel, IsField(c[1]) PROVE Pending(i, c)'
  <2>1. c \in doc[i].sel /\ c \in Place /\ c # <<>> BY Places
  <2>2. Len(c) \in Nat /\ Len(c) >= 1 /\ 1 \in DOMAIN c BY <2>1, Splits DEF Place
  <2>3. c[1] \in Node /\ IsField(c[1]) BY <1>8, <2>1, <2>2 DEF Place
  <2> DEFINE r == <<c[1]>>
  <2>4. r \in Place /\ r # <<>> /\ Len(r) = 1 /\ r[1] = c[1] BY <2>3 DEF Place
  <2> HIDE DEF r
  <2>5. IsPrefix(r, c)
    <3>1. Len(r) <= Len(c) /\ \A j \in 1..Len(r) : r[j] = c[j] BY <2>2, <2>4
    <3>q. QED BY <2>1, <2>4, <3>1, PrefixIs
  <2>6. r \in RootFields(doc[i]) BY <2>1, <2>3, <2>4, <2>5, PlacesAbove DEF RootFields
  <2>7. visit(i, r) \in visits' /\ visit(i, r).op = i /\ visit(i, r).place = r
    BY <1>3, <2>6 DEF visit
  <2>q. QED BY <2>5, <2>7 DEF Pending
<1>9. CoveredSoFar' /\ SteppedSoFar' /\ AllowedSoFar'
  <2>1. ASSUME NEW i \in DOMAIN doc, NEW c \in Chains(doc[i]) PROVE Pending(i, c)'
    <3>1. c \in doc[i].sel /\ c \in Place /\ c # <<>> BY Places DEF Chains
    <3>2. IsField(c[1])
      <4>1. Len(c) \in Nat /\ Len(c) >= 1 /\ 1 \in DOMAIN c BY <3>1, Splits DEF Place
      <4>q. QED BY <4>1 DEF Chains
    <3>q. QED BY <1>8, <3>1, <3>2
  <2>q. QED BY <1>8, <2>1 DEF CoveredSoFar, SteppedSoFar, AllowedSoFar, Leaving, Reached
<1>10. StepsLeave' /\ StepsBehind' /\ AskedFits' /\ KeyedSoFar' /\ CheckedFits'
  BY DEF StepsLeave, StepsBehind, AskedFits, KeyedSoFar, CheckedFits
<1>q. QED BY <1>5, <1>6, <1>7, <1>9, <1>10 DEF Sound

(* A valid query starts a walk, another is refused.                        *)
LEMMA PlanBegins ==
  ASSUME PlanInv, NEW doc \in Documents, NEW role \in Roles, Plan(doc, role)
  PROVE  PlanInv'
<1>0. /\ merged # None /\ request' = [doc |-> doc, role |-> role] /\ schema' = merged.schema
      /\ checked' = {} /\ asked' = {} /\ steps' = {} /\ unlinked' = {} /\ inForce' = {tables}
      /\ UNCHANGED <<mergeVars, tableVars>>
  BY DEF Plan
<1>1. /\ request' # None /\ request' \in [doc : Documents, role : Roles] /\ request'.doc = doc
      /\ tables' \in inForce'
  BY <1>0, PlanAssumption DEF tables, tableVars
<1>2. merged.schema \in Schema BY <1>0 DEF PlanInv, TypeOK, MergeTypeOK
<1>3. /\ MergeTypeOK' /\ UNCHANGED <<permissions, links, edits>>
  BY <1>0 DEF PlanInv, TypeOK, MergeTypeOK, mergeVars, tableVars
<1>4. CASE Plannable(merged.schema, doc)
  <2>1. visits' = RootVisits(merged.schema, doc) /\ error' = None BY <1>4 DEF Plan
  <2>2. visits' \subseteq Visit /\ Sound' BY <1>0, <1>1, <1>2, <1>4, <2>1, RootsSound
  <2>3. TypeOK' BY <1>0, <1>1, <1>2, <1>3, <2>1, <2>2 DEF PlanInv, TypeOK
  <2>4. Plannable(schema, request.doc)' BY <2>2 DEF Sound
  <2>q. QED BY <1>1, <2>1, <2>2, <2>3, <2>4, PlanAssumption DEF PlanInv, Refused
<1>5. CASE ~Plannable(merged.schema, doc)
  <2>1. visits' = {} /\ error' = "invalid" BY <1>5 DEF Plan
  <2>2. TypeOK' BY <1>0, <1>1, <1>2, <1>3, <2>1 DEF PlanInv, TypeOK
  <2>3. ~Plannable(schema, request.doc)' BY <1>0, <1>1, <1>5
  <2>q. QED BY <1>1, <2>1, <2>2, <2>3, PlanAssumption DEF PlanInv, Refused, Walking
<1>q. QED BY <1>4, <1>5

(* The plan is handed over, or the error.                                  *)
LEMMA PlanEnds ==
  ASSUME PlanInv, Finish
  PROVE  PlanInv'
<1>1. /\ request' = None /\ visits' = {} /\ checked' = {} /\ asked' = {} /\ steps' = {} /\ error' = None
      /\ unlinked' = {}
      /\ UNCHANGED <<mergeVars, tableVars>>
  BY DEF Finish
<1>2. MergeTypeOK' /\ UNCHANGED <<permissions, links, edits>>
  BY <1>1 DEF PlanInv, TypeOK, MergeTypeOK, mergeVars, tableVars
<1>3. TypeOK' BY <1>1, <1>2 DEF PlanInv, TypeOK
<1>q. QED BY <1>1, <1>3 DEF PlanInv, Refused, Walking

(* Nothing is planned at first.                                            *)
LEMMA PlanInit == Init /\ MergeTypeOK => PlanInv
<1> SUFFICES ASSUME Init, MergeTypeOK PROVE PlanInv OBVIOUS
<1>1. TypeOK BY PlanAssumption DEF Init, TypeOK
<1>q. QED BY <1>1 DEF Init, PlanInv, Refused, Walking

(* No step breaks the invariant.                                           *)
LEMMA PlanNext == PlanInv /\ MergeTypeOK' /\ [Next]_vars => PlanInv'
<1> SUFFICES ASSUME PlanInv, MergeTypeOK', [Next]_vars PROVE PlanInv' OBVIOUS
<1>0. permissions \in [Rules -> {"allow", "deny", None}] /\ links \subseteq Links
  BY DEF PlanInv, TypeOK
<1>1. CASE MergeNext /\ UNCHANGED planVars BY <1>1, MergeStepInv
<1>2. ASSUME NEW r \in Rules, NEW a \in {"allow", "deny"}, UpsertPermission(r, a) PROVE PlanInv'
  <2>1. permissions' \in [Rules -> {"allow", "deny", None}] /\ links' \subseteq Links /\ Metadata
    BY <1>0, <1>2 DEF UpsertPermission
  <2>q. QED BY <2>1, MetadataInv
<1>3. ASSUME NEW r \in Rules, DeletePermission(r) PROVE PlanInv'
  <2>1. permissions' \in [Rules -> {"allow", "deny", None}] /\ links' \subseteq Links /\ Metadata
    BY <1>0, <1>3 DEF DeletePermission
  <2>q. QED BY <2>1, MetadataInv
<1>4. ASSUME NEW l \in Links, UpsertRelationship(l) \/ DeleteRelationship(l) PROVE PlanInv'
  <2>1. permissions' \in [Rules -> {"allow", "deny", None}] /\ links' \subseteq Links /\ Metadata
    BY <1>0, <1>4 DEF UpsertRelationship, DeleteRelationship
  <2>q. QED BY <2>1, MetadataInv
<1>5. ASSUME NEW doc \in Documents, NEW role \in Roles, Plan(doc, role) PROVE PlanInv'
  BY <1>5, PlanBegins
<1>6. ASSUME NEW v \in visits, TakeTurn(v) PROVE PlanInv' BY <1>6, TurnSound, TurnRefuses DEF PlanInv
<1>7. CASE Finish BY <1>7, PlanEnds
<1>8. CASE UNCHANGED vars BY <1>8, MergeStepInv DEF vars
<1>q. QED BY <1>1, <1>2, <1>3, <1>4, <1>5, <1>6, <1>7, <1>8 DEF Next

-----------------------------------------------------------------------------
(* The planner takes no part in a merge: to the merge, a plan is a         *)
(* stutter. So what is proved of MergeSpec holds of the whole.             *)
THEOREM PlansLeaveMerge == Spec => MergeSpec
<1>1. Init => MergeInit BY DEF Init
<1>2. [Next]_vars => [MergeNext]_mergeVars
  <2> SUFFICES ASSUME [Next]_vars PROVE [MergeNext]_mergeVars OBVIOUS
  <2>1. ASSUME Metadata PROVE UNCHANGED mergeVars BY <2>1 DEF Metadata
  <2>2. ASSUME NEW r \in Rules, NEW a \in {"allow", "deny"}, UpsertPermission(r, a) \/ DeletePermission(r)
        PROVE  UNCHANGED mergeVars
    BY <2>1, <2>2 DEF UpsertPermission, DeletePermission
  <2>3. ASSUME NEW l \in Links, UpsertRelationship(l) \/ DeleteRelationship(l) PROVE UNCHANGED mergeVars
    BY <2>1, <2>3 DEF UpsertRelationship, DeleteRelationship
  <2>4. ASSUME NEW doc \in Documents, NEW role \in Roles, Plan(doc, role) PROVE UNCHANGED mergeVars
    BY <2>4 DEF Plan
  <2>5. ASSUME NEW v \in visits, TakeTurn(v) PROVE UNCHANGED mergeVars
    BY <2>5 DEF TakeTurn, Allow, KeepFragment, KeepLeaf, KeepUnkeyed, KeepUnlinked, LookupFails, AskEntity,
                AskJoin, Descend, Keeps, Ends, Deny, CheckFails, Fails
  <2>6. CASE Finish BY <2>6 DEF Finish
  <2>7. CASE UNCHANGED vars BY <2>7 DEF vars
  <2>q. QED BY <2>2, <2>3, <2>4, <2>5, <2>6, <2>7 DEF Next
<1>q. QED BY <1>1, <1>2, PTL DEF Spec, MergeSpec

(* The invariant holds in every state of every run, whatever the document, *)
(* whatever the tables and however they change meanwhile.                  *)
THEOREM PlanInductive == Spec => []PlanInv
<1>1. MergeSpec => []MergeTypeOK BY MergeTypeCorrect
<1>2. Spec => []MergeTypeOK BY <1>1, PlansLeaveMerge, PTL
<1>3. Init /\ MergeTypeOK => PlanInv BY PlanInit
<1>4. PlanInv /\ MergeTypeOK' /\ [Next]_vars => PlanInv' BY PlanNext
<1>q. QED BY <1>2, <1>3, <1>4, PTL DEF Spec

(* Every variable of the planner keeps its type; what a step asks for are  *)
(* places, of an operation there is, sent to a service there is.           *)
THEOREM TypeCorrect == Spec => []TypeOK
<1>1. PlanInv => TypeOK BY DEF PlanInv
<1>q. QED BY PlanInductive, <1>1, PTL

(* A plan is complete when no turn is left to take.                        *)
LEMMA NothingPending == Planned /\ PlanInv => Walking /\ Sound /\ \A i, c : ~Pending(i, c)
  BY DEF Planned, PlanInv, Walking, Pending

(* Every place of a query, nested fragments and what they hold included,   *)
(* is asked of its root's owner, or, where a field above it leaves that    *)
(* service, of the owner of that field's type; but what stands in a        *)
(* fragment at the root of an operation is asked of nobody (planOperation, *)
(* walkSelections, injectKeyFields, onlyNonKeyFields, planner.go).         *)
THEOREM RootFragmentsAloneAreLost == Spec => []OnlyRootFragmentsAreLost
<1>1. PlanInv => OnlyRootFragmentsAreLost
  <2>1. SUFFICES ASSUME PlanInv, Planned,
                        NEW i \in DOMAIN request.doc, NEW c \in request.doc[i].sel
                 PROVE  LET asking == {a.svc : a \in {b \in asked : b.op = i /\ b.place = c}} IN
                        IF IsField(c[1])
                        THEN Covered(i, c) /\ asking \subseteq {RootOwner(schema, request.doc[i], c)}
                        ELSE asking = {} /\ \A d \in steps : d.op = i => c \notin d.sel
    BY DEF OnlyRootFragmentsAreLost
  <2>2. Sound /\ \A j, p : ~Pending(j, p) BY <2>1, NothingPending
  <2>3. IsField(c[1]) => Covered(i, c) BY <2>2 DEF Sound, CoveredSoFar
  <2>4. \A b \in asked : b.op = i /\ b.place = c =>
          b.svc = RootOwner(schema, request.doc[i], c) /\ IsField(c[1])
    BY <2>2 DEF Sound, AskedFits
  <2>5. \A d \in steps : c \in d.sel => IsField(c[1]) BY <2>2 DEF Sound, AskedFits
  <2>q. QED BY <2>3, <2>4, <2>5
<1>q. QED BY PlanInductive, <1>1, PTL

(* A field whose type another service owns gets one dependent step for     *)
(* that service, where there are keys or a relationship, and no other      *)
(* field gets one (walkSelections, planner.go).                            *)
THEOREM AlwaysOneStepPerCrossing == Spec => []OneStepPerCrossing
<1>1. PlanInv => OneStepPerCrossing
  BY NothingPending DEF OneStepPerCrossing, Sound, SteppedSoFar, StepsLeave
<1>q. QED BY PlanInductive, <1>1, PTL

(* A root step asks for the keys its dependents need, where they look for  *)
(* them (injectKeyFields, planner.go).                                     *)
THEOREM KeysAlwaysAsked == Spec => []KeysAreAsked
<1>1. PlanInv => KeysAreAsked BY NothingPending DEF KeysAreAsked, Sound, KeyedSoFar
<1>q. QED BY PlanInductive, <1>1, PTL

(* A query is planned only if it is valid and every field the walk comes   *)
(* to was allowed, those in fragments and below a field of another service *)
(* not among them; a valid one is refused only where one was denied, or    *)
(* could not be looked up (Plan, walkSelections, planner.go; CanAccess,    *)
(* checker.go).                                                            *)
THEOREM WalkAlwaysAllowed == Spec => []WalkIsAllowed
<1>1. PlanInv => WalkIsAllowed
  BY NothingPending DEF WalkIsAllowed, Sound, AllowedSoFar, PlanInv, Refused
<1>q. QED BY PlanInductive, <1>1, PTL
=============================================================================
