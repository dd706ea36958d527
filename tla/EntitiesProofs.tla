---------------------------- MODULE EntitiesProofs ----------------------------
(***************************************************************************)
(* Proofs for any inventory, any number of requests and any spellings:     *)
(* links are to entities whose name the extraction has had, what the       *)
(* schema promises holds, and an undisturbed auto-link leaves nothing      *)
(* unlinked.  What happens to the extractions meanwhile (Publishing)       *)
(* matters only in what it does to their rows, so no step of it is         *)
(* expanded; that it keeps their types is a theorem of PublishingProofs.   *)
(***************************************************************************)
EXTENDS Entities, PublishingProofs

\* Functions and records are what they are used as.
Shapes ==
  /\ entity \in [Entities -> [name : Names \cup {"none"}, variants : SUBSET Names]]
  /\ named \in [Entities -> SUBSET Vals]
  /\ link \in [Sources -> [EntityFields -> Entities \cup {"none"}]]
  /\ said = [p \in Pairs |-> said[p]]
  /\ linker = [t \in Tasks |-> linker[t]]
  /\ \A t \in Tasks :
       /\ {"pc", "dry", "raw", "seen", "found"} \subseteq DOMAIN linker[t]
       /\ linker[t].seen \in [Entities -> SUBSET Vals]

\* What an entity is called now, or was when a request read it, it has been
\* called; what an extraction says, it has said.
Remembered ==
  /\ \A e \in Entities : NamesOf(entity[e]) \subseteq named[e]
  /\ \A t \in Tasks, e \in Entities : linker[t].seen[e] \subseteq named[e]
  /\ \A p \in Pairs : Of(row, p).val \in Vals => Of(row, p).val \in said[p]

\* What a request has found but not committed is as true as a link, unless the
\* row is gone.
FoundByName ==
  \A t \in Tasks, p \in Pairs :
    p \in DOMAIN linker[t].found /\ linker[t].found[p] # "gone" =>
      /\ linker[t].found[p] \in Entities
      /\ said[p] \cap named[linker[t].found[p]] # {}

LinkInv == Shapes /\ Remembered /\ FoundByName /\ LinkedByName

LEMMA NamesAreTexts ==
  ASSUME NEW r \in [name : Names \cup {"none"}, variants : SUBSET Names]
  PROVE  NamesOf(r) \subseteq Vals
BY EntitiesAssumption DEF NamesOf, SpelledBy

LEMMA InitLinks == Init => LinkInv
<1> SUFFICES ASSUME Init PROVE LinkInv
  OBVIOUS
<1>1. entity \in [Entities -> [name : Names \cup {"none"}, variants : SUBSET Names]]
  BY DEF Init, InitInventory, NoEntity
<1>2. Shapes
  BY <1>1, NamesAreTexts DEF Init, InitInventory, Shapes, NoLinker
<1>3. Remembered
  BY <1>1 DEF Init, InitInventory, Remembered, NoLinker
<1>4. FoundByName
  BY DEF Init, InitInventory, FoundByName, NoLinker
<1>5. LinkedByName
  BY DEF Init, InitInventory, LinkedByName, Of, Pairs
<1>6. QED BY <1>2, <1>3, <1>4, <1>5 DEF LinkInv

-----------------------------------------------------------------------------
\* An entity may be renamed: what it was called is remembered.
LEMMA StoreEntityLinks ==
  ASSUME LinkInv, NEW e \in Entities,
         NEW r \in [name : Names \cup {"none"}, variants : SUBSET Names], StoreEntity(e, r)
  PROVE  LinkInv'
<1> USE DEF LinkInv
<1>1. /\ UNCHANGED <<row, link, linker, said>>
      /\ entity' = [entity EXCEPT ![e] = r]
      /\ named' = [named EXCEPT ![e] = named[e] \cup NamesOf(r)]
  BY DEF StoreEntity, tables
<1>2. NamesOf(r) \subseteq Vals
  BY NamesAreTexts
<1>3. Shapes'
  BY <1>1, <1>2 DEF Shapes
<1>4. \A d \in Entities : named[d] \subseteq named'[d]
  BY <1>1 DEF Shapes
<1>5. Remembered'
  <2>1. \A d \in Entities : NamesOf(entity[d])' \subseteq named'[d]
    BY <1>1 DEF Shapes, Remembered, NamesOf, SpelledBy
  <2>2. QED BY <1>1, <1>4, <2>1 DEF Remembered, Of
<1>6. FoundByName'
  BY <1>1, <1>4 DEF FoundByName
<1>7. LinkedByName'
  <2>1. \A p \in Pairs : Of(link, p) \in Entities \cup {"none"}
    BY DEF Shapes, Of, Pairs
  <2>2. QED BY <1>1, <1>4, <2>1 DEF LinkedByName, Of
<1>8. QED BY <1>3, <1>5, <1>6, <1>7

\* The edits of the inventory are of that kind.
LEMMA InventoryLinks ==
  ASSUME LinkInv, NEW e \in Entities, NEW n \in Names,
         CreateEntity(e, n) \/ UpdateEntity(e, n) \/ AddVariant(e, n) \/ DeleteVariant(e, n)
  PROVE  LinkInv'
<1> USE DEF LinkInv, Shapes
<1> DEFINE Record == [name : Names \cup {"none"}, variants : SUBSET Names]
<1>1. CASE CreateEntity(e, n)
  BY <1>1, [name |-> n, variants |-> {}] \in Record, StoreEntityLinks DEF CreateEntity
<1>2. CASE UpdateEntity(e, n)
  BY <1>2, [entity[e] EXCEPT !.name = n] \in Record, StoreEntityLinks DEF UpdateEntity
<1>3. CASE AddVariant(e, n)
  BY <1>3, [entity[e] EXCEPT !.variants = entity[e].variants \cup {n}] \in Record,
     StoreEntityLinks DEF AddVariant
<1>4. CASE DeleteVariant(e, n)
  BY <1>4, [entity[e] EXCEPT !.variants = entity[e].variants \ {n}] \in Record,
     StoreEntityLinks DEF DeleteVariant
<1>5. QED BY <1>1, <1>2, <1>3, <1>4

\* A request that begins reads the names of now.
LEMMA BeginLinkLinks ==
  ASSUME LinkInv, NEW t \in Tasks, NEW dry \in BOOLEAN, NEW raw \in BOOLEAN,
         BeginLink(t, dry, raw)
  PROVE  LinkInv'
<1> USE DEF LinkInv
<1> DEFINE seen == [e \in Entities |-> NamesOf(entity[e])]
<1>1. /\ UNCHANGED <<row, entity, link, named, said>>
      /\ linker[t].found = <<>>
      /\ linker'[t].found = <<>> /\ linker'[t].seen = seen
      /\ {"pc", "dry", "raw", "seen", "found"} \subseteq DOMAIN linker'[t]
      /\ \A u \in Tasks : u # t => linker'[u] = linker[u]
      /\ linker' = [u \in Tasks |-> linker'[u]]
  <2> DEFINE rec == [NoLinker EXCEPT !.pc = "rows", !.dry = dry, !.raw = raw, !.seen = seen]
  <2>1. /\ UNCHANGED <<row, entity, link, named, said>>
        /\ linker[t] = NoLinker
        /\ linker' = [linker EXCEPT ![t] = rec]
    BY DEF BeginLink, tables
  <2>2. /\ rec.found = <<>> /\ rec.seen = seen
        /\ DOMAIN rec = {"pc", "dry", "raw", "seen", "found"}
        /\ NoLinker.found = <<>>
    BY DEF NoLinker
  <2> HIDE DEF rec
  <2>3. QED BY <2>1, <2>2 DEF Shapes
<1>2. seen \in [Entities -> SUBSET Vals] /\ \A e \in Entities : seen[e] \subseteq named[e]
  BY NamesAreTexts DEF Shapes, Remembered
<1> HIDE DEF seen
<1>3. Shapes'
  BY <1>1, <1>2 DEF Shapes
<1>4. Remembered'
  <2>1. \A u \in Tasks, e \in Entities : linker'[u].seen[e] \subseteq named[e]
    BY <1>1, <1>2 DEF Remembered
  <2>2. QED BY <1>1, <2>1 DEF Remembered, Of, NamesOf, SpelledBy
<1>5. FoundByName'
  BY <1>1 DEF FoundByName
<1>6. LinkedByName'
  BY <1>1 DEF LinkedByName, Of
<1>7. QED BY <1>3, <1>4, <1>5, <1>6

\* What is found is a name that was read and a text the extraction has.
LEMMA LoadRowsLinks ==
  ASSUME LinkInv, NEW t \in Tasks, LoadRows(t)
  PROVE  LinkInv'
<1> USE DEF LinkInv
<1> DEFINE match == [p \in Pairs |->
                      IF Of(link, p) # "none" THEN {}
                      ELSE Matches(TextOf(Of(row, p), linker[t].raw), linker[t].seen)]
           hits == {p \in Pairs : match[p] # {}}
<1>1. PICK found \in [hits -> Entities] :
        /\ \A p \in hits : found[p] \in match[p]
        /\ linker' = [linker EXCEPT ![t].pc = "commit", ![t].found = found]
  BY DEF LoadRows
<1>2. UNCHANGED <<row, entity, link, named, said>>
  BY DEF LoadRows, pvars, tables
<1>3. ASSUME NEW p \in Pairs, p \in DOMAIN found
      PROVE  found[p] \in Entities /\ said[p] \cap named[found[p]] # {}
  <2>1. p \in hits /\ found[p] \in Entities /\ found[p] \in match[p]
    BY <1>1, <1>3
  <2> DEFINE text == TextOf(Of(row, p), linker[t].raw)
  <2>2. text \in linker[t].seen[found[p]]
    BY <2>1 DEF Matches
  <2>3. text \in Vals /\ text \in named[found[p]]
    BY <2>1, <2>2 DEF Shapes, Remembered
  <2>4. text = Of(row, p).val
    BY <2>3 DEF TextOf, Vals
  <2>5. text \in said[p]
    BY <2>3, <2>4 DEF Remembered
  <2>6. QED BY <2>1, <2>3, <2>5
<1> HIDE DEF match, hits
<1>4. /\ linker' = [u \in Tasks |-> linker'[u]]
      /\ \A u \in Tasks : u # t => linker'[u] = linker[u]
      /\ linker'[t].found = found /\ linker'[t].seen = linker[t].seen
      /\ DOMAIN linker'[t] = DOMAIN linker[t]
  <2> DEFINE rec == [linker[t] EXCEPT !.pc = "commit", !.found = found]
  <2>1. /\ rec.found = found /\ rec.seen = linker[t].seen
        /\ DOMAIN rec = DOMAIN linker[t]
    BY DEF Shapes
  <2>2. linker' = [linker EXCEPT ![t] = rec]
    BY <1>1 DEF Shapes
  <2> HIDE DEF rec
  <2>3. QED BY <2>1, <2>2 DEF Shapes
<1>5. Shapes'
  BY <1>2, <1>4 DEF Shapes
<1>6. Remembered'
  <2>1. \A u \in Tasks, e \in Entities : linker'[u].seen[e] \subseteq named[e]
    BY <1>4 DEF Remembered
  <2>2. QED BY <1>2, <2>1 DEF Remembered, Of, NamesOf, SpelledBy
<1>7. FoundByName'
  BY <1>2, <1>3, <1>4 DEF FoundByName
<1>8. LinkedByName'
  BY <1>2 DEF LinkedByName, Of
<1>9. QED BY <1>5, <1>6, <1>7, <1>8

\* A commit makes links of what was found, or of nothing.
LEMMA CommitLinksLinks ==
  ASSUME LinkInv, NEW t \in Tasks, CommitLinks(t)
  PROVE  LinkInv'
<1> USE DEF LinkInv
<1>1. /\ UNCHANGED <<row, entity, named, said>>
      /\ linker' = [linker EXCEPT ![t] = NoLinker]
  BY DEF CommitLinks, pvars, tables
<1>2. ASSUME NEW s \in Sources, NEW f \in EntityFields
      PROVE  \/ link'[s][f] = link[s][f]
             \/ /\ link'[s][f] \in Entities
                /\ said[<<s, f>>] \cap named[link'[s][f]] # {}
  <2>1. CASE linker[t].dry \/ Gone(t)
    BY <2>1 DEF CommitLinks
  <2>2. CASE ~(linker[t].dry \/ Gone(t))
    <3>1. link'[s][f] = IF <<s, f>> \in DOMAIN linker[t].found
                        THEN linker[t].found[<<s, f>>] ELSE link[s][f]
      BY <2>2 DEF CommitLinks
    <3>2. <<s, f>> \in Pairs
      BY DEF Pairs
    <3>3. <<s, f>> \in DOMAIN linker[t].found => linker[t].found[<<s, f>>] # "gone"
      BY <2>2 DEF Gone
    <3>4. QED BY <3>1, <3>2, <3>3 DEF FoundByName
  <2>3. QED BY <2>1, <2>2
<1>3. link' \in [Sources -> [EntityFields -> Entities \cup {"none"}]]
  BY <1>2 DEF Shapes, CommitLinks
<1>4. Shapes'
  BY <1>1, <1>3, EntitiesAssumption DEF Shapes, NoLinker
<1>5. Remembered'
  BY <1>1 DEF Remembered, Of, NamesOf, SpelledBy, NoLinker, Shapes
<1>6. FoundByName'
  BY <1>1 DEF FoundByName, NoLinker, Shapes
<1>7. LinkedByName'
  <2>1. ASSUME NEW p \in Pairs PROVE p[1] \in Sources /\ p[2] \in EntityFields
                                    /\ p = <<p[1], p[2]>>
    BY DEF Pairs
  <2>2. QED BY <1>1, <1>2, <2>1 DEF LinkedByName, Of
<1>8. QED BY <1>4, <1>5, <1>6, <1>7

\* Whatever is done to the extractions: a link goes with its row, and what a
\* row says is remembered as long as it is there.
LEMMA ChangeLinks ==
  ASSUME LinkInv, ChangeExtractions
  PROVE  LinkInv'
<1> USE DEF LinkInv
<1>1. /\ UNCHANGED <<entity, named>>
      /\ link' = [s \in Sources |-> [f \in EntityFields |->
                    IF row'[s][f] = NoRow THEN "none" ELSE link[s][f]]]
      /\ linker' = [t \in Tasks |-> [linker[t] EXCEPT !.found = Held(linker[t].found)]]
      /\ said' = [p \in Pairs |-> IF Of(row', p) = NoRow THEN {}
                                  ELSE said[p] \cup {Of(row', p).val}]
  BY DEF ChangeExtractions
<1>2. Shapes'
  BY <1>1 DEF Shapes
<1>3. Remembered'
  <2>1. \A p \in Pairs : Of(row', p).val \in Vals => Of(row', p).val \in said'[p]
    BY <1>1 DEF NoRow, Vals
  <2>2. \A t \in Tasks : linker'[t].seen = linker[t].seen
    BY <1>1 DEF Shapes
  <2>3. QED BY <1>1, <2>1, <2>2 DEF Remembered, Of, NamesOf, SpelledBy
<1>4. FoundByName'
  <2> SUFFICES ASSUME NEW t \in Tasks, NEW p \in Pairs, p \in DOMAIN linker'[t].found,
                      linker'[t].found[p] # "gone"
               PROVE  /\ linker'[t].found[p] \in Entities
                      /\ said'[p] \cap named'[linker'[t].found[p]] # {}
    BY DEF FoundByName
  <2>1. linker'[t].found = Held(linker[t].found)
    BY <1>1 DEF Shapes
  <2>2. /\ p \in DOMAIN linker[t].found /\ Of(row', p) # NoRow
        /\ linker'[t].found[p] = linker[t].found[p]
    BY <2>1 DEF Held
  <2>3. QED BY <1>1, <2>2 DEF FoundByName
<1>5. LinkedByName'
  <2> SUFFICES ASSUME NEW p \in Pairs, Of(link', p) # "none"
               PROVE  said'[p] \cap named'[Of(link', p)] # {}
    BY DEF LinkedByName, Of
  <2>1. p[1] \in Sources /\ p[2] \in EntityFields
    BY DEF Pairs
  <2>2. Of(row', p) # NoRow /\ Of(link', p) = Of(link, p)
    BY <1>1, <2>1 DEF Of
  <2>3. QED BY <1>1, <2>2 DEF LinkedByName
<1>6. QED BY <1>2, <1>3, <1>4, <1>5

LEMMA NextLinks == LinkInv /\ [Next]_vars => LinkInv'
<1> SUFFICES ASSUME LinkInv, [Next]_vars PROVE LinkInv'
  OBVIOUS
<1>1. ASSUME NEW e \in Entities, DeleteEntity(e) PROVE LinkInv'
  BY <1>1 DEF DeleteEntity, tables, inventory, LinkInv, Shapes, Remembered, FoundByName,
     LinkedByName, Of, NamesOf, SpelledBy
<1>2. CASE UNCHANGED vars
  BY <1>2 DEF vars, pvars, tables, inventory, LinkInv, Shapes, Remembered, FoundByName,
     LinkedByName, Of, NamesOf, SpelledBy
<1>3. QED BY <1>1, <1>2, InventoryLinks, BeginLinkLinks, LoadRowsLinks, CommitLinksLinks,
             ChangeLinks DEF Next

\* Every link is to an entity that has had a name which the extraction, this
\* very row, has had as its text: for any inventory and spellings, any number
\* of auto-links, and whatever is renamed, corrected or replaced meanwhile.
THEOREM LinksAreTrue == Spec => []LinkedByName
BY InitLinks, NextLinks, PTL DEF Spec, LinkInv

-----------------------------------------------------------------------------
(***************************************************************************)
(* What the schema promises                                                *)
(***************************************************************************)
NamesInv ==
  /\ \A e \in Entities : entity[e].name = "none" => entity[e] = NoEntity
  /\ \A d, e \in There : d # e =>
       entity[d].name # entity[e].name /\ entity[d].variants \cap entity[e].variants = {}

\* Links, and what a request will link, are to entities that are there, from
\* rows that are there.
LiveLinks ==
  /\ \A p \in Pairs : Of(link, p) # "none" => Of(link, p) \in There /\ Of(row, p) # NoRow
  /\ \A t \in Tasks :
       /\ \A e \in Entities : linker[t].seen[e] # {} => e \in There
       /\ DOMAIN linker[t].found \subseteq Pairs
       /\ \A p \in DOMAIN linker[t].found : linker[t].found[p] # "gone" =>
            linker[t].found[p] \in There /\ Of(row, p) # NoRow
  /\ latest \in Tasks \cup {"none", "done"}

LEMMA PairFacts ==
  /\ \A s \in Sources, f \in EntityFields : <<s, f>> \in Pairs
  /\ \A p \in Pairs : p[1] \in Sources /\ p[2] \in EntityFields /\ p = <<p[1], p[2]>>
BY DEF Pairs

LEMMA NoNames == NamesOf(NoEntity) = {}
BY DEF NamesOf, NoEntity, SpelledBy

\* Nothing but PNext changes what Publishing keeps, except that requests count.
LEMMA NextEntityTypes == TypesInv /\ [Next]_vars => TypesInv'
<1> SUFFICES ASSUME TypesInv, [Next]_vars PROVE TypesInv'
  OBVIOUS
<1>1. CASE ChangeExtractions \/ UNCHANGED pvars
  BY <1>1, NextTypes DEF ChangeExtractions
<1>2. ASSUME UNCHANGED <<queue, tables, task, ghosts>>, NEW op, Begin(op) PROVE TypesInv'
  <2>1. CountersInv'
    BY <1>2, PublishingAssumption DEF Begin, TypesInv, CountersInv
  <2>2. QED BY <1>2, <2>1, SameTypes
<1>3. ASSUME NEW e \in Entities, NEW n \in Names,
             CreateEntity(e, n) \/ UpdateEntity(e, n) \/ AddVariant(e, n) \/ DeleteVariant(e, n)
      PROVE  TypesInv'
  <2>1. UNCHANGED <<queue, tables, task, ghosts>>
    BY <1>3 DEF CreateEntity, UpdateEntity, AddVariant, DeleteVariant, StoreEntity
  <2>2. \E op : Begin(op)
    BY <1>3 DEF CreateEntity, UpdateEntity, AddVariant, DeleteVariant
  <2>3. QED BY <1>2, <2>1, <2>2
<1>4. ASSUME NEW e \in Entities, DeleteEntity(e) PROVE TypesInv'
  BY <1>2, <1>4 DEF DeleteEntity
<1>5. ASSUME NEW t \in Tasks, NEW dry \in BOOLEAN, NEW raw \in BOOLEAN, BeginLink(t, dry, raw)
      PROVE  TypesInv'
  BY <1>2, <1>5 DEF BeginLink
<1>6. ASSUME NEW t \in Tasks, LoadRows(t) \/ CommitLinks(t) PROVE TypesInv'
  BY <1>1, <1>6 DEF LoadRows, CommitLinks
<1>7. QED BY <1>1, <1>3, <1>4, <1>5, <1>6 DEF Next, vars

LEMMA InitSchema == Init => NamesInv /\ LiveLinks
<1> SUFFICES ASSUME Init PROVE NamesInv /\ LiveLinks
  OBVIOUS
<1>1. /\ entity \in [Entities -> {NoEntity} \cup [name : Names, variants : {{}}]]
      /\ \A d, e \in There : d # e => entity[d].name # entity[e].name
      /\ link = [s \in Sources |-> [f \in EntityFields |-> "none"]]
      /\ linker = [t \in Tasks |-> NoLinker] /\ latest = "none"
  BY DEF Init, InitInventory
<1>2. ASSUME NEW e \in Entities
      PROVE  /\ entity[e].name = "none" => entity[e] = NoEntity
             /\ entity[e].variants = {}
  <2>1. CASE entity[e] = NoEntity
    BY <2>1 DEF NoEntity
  <2>2. CASE entity[e] \in [name : Names, variants : {{}}]
    BY <2>2, EntitiesAssumption
  <2>3. QED BY <1>1, <2>1, <2>2
<1>3. NamesInv
  BY <1>1, <1>2 DEF NamesInv, There
<1>4. LiveLinks
  BY <1>1, PairFacts DEF LiveLinks, Of, NoLinker
<1>5. QED BY <1>3, <1>4

\* A row of the inventory is stored under a name, one that is free.
LEMMA StoreEntitySchema ==
  ASSUME LinkInv, NamesInv, LiveLinks, NEW e \in Entities,
         NEW r \in [name : Names \cup {"none"}, variants : SUBSET Names], StoreEntity(e, r),
         r.name # "none",
         \A d \in There : d # e =>
           r.name # entity[d].name /\ r.variants \cap entity[d].variants = {}
  PROVE  NamesInv' /\ LiveLinks'
<1>1. /\ UNCHANGED <<row, link, linker>> /\ latest' = "none"
      /\ entity' = [entity EXCEPT ![e] = r]
      /\ entity \in [Entities -> [name : Names \cup {"none"}, variants : SUBSET Names]]
  BY DEF StoreEntity, tables, LinkInv, Shapes
<1>2. entity'[e] = r /\ \A d \in Entities : d # e => entity'[d] = entity[d]
  BY <1>1
<1>3. There' = There \cup {e}
  BY <1>2 DEF There, NoEntity
<1>4. NamesInv'
  <2>1. \A d \in Entities : entity'[d].name = "none" => entity'[d] = NoEntity
    BY <1>2 DEF NamesInv
  <2>2. ASSUME NEW c \in There', NEW d \in There', c # d
        PROVE  entity'[c].name # entity'[d].name
               /\ entity'[c].variants \cap entity'[d].variants = {}
    <3>1. CASE c = e
      BY <1>2, <1>3, <2>2, <3>1 DEF There
    <3>2. CASE d = e
      BY <1>2, <1>3, <2>2, <3>2 DEF There
    <3>3. CASE c # e /\ d # e
      BY <1>2, <1>3, <2>2, <3>3 DEF NamesInv, There
    <3>4. QED BY <3>1, <3>2, <3>3
  <2>3. QED BY <2>1, <2>2 DEF NamesInv
<1>5. LiveLinks'
  <2>1. There \subseteq There'
    BY <1>3
  <2>2. QED BY <1>1, <2>1 DEF LiveLinks, Of
<1>6. QED BY <1>4, <1>5

LEMMA InventorySchema ==
  ASSUME LinkInv, NamesInv, LiveLinks, NEW e \in Entities, NEW n \in Names,
         CreateEntity(e, n) \/ UpdateEntity(e, n) \/ AddVariant(e, n) \/ DeleteVariant(e, n)
  PROVE  NamesInv' /\ LiveLinks'
<1> DEFINE Record == [name : Names \cup {"none"}, variants : SUBSET Names]
<1>1. entity[e] \in Record /\ n # "none" /\ (e \in There => entity[e].name # "none")
  BY EntitiesAssumption DEF LinkInv, Shapes, NamesInv, There
<1>2. ASSUME NEW r \in Record, StoreEntity(e, r), r.name # "none",
             \A d \in There : d # e =>
               r.name # entity[d].name /\ r.variants \cap entity[d].variants = {}
      PROVE  NamesInv' /\ LiveLinks'
  BY <1>2, StoreEntitySchema
<1>3. CASE CreateEntity(e, n)
  <2> DEFINE r == [name |-> n, variants |-> {}]
  <2>1. r \in Record /\ StoreEntity(e, r) /\ r.name # "none"
    BY <1>1, <1>3 DEF CreateEntity
  <2>2. \A d \in There : d # e => r.name # entity[d].name /\ r.variants \cap entity[d].variants = {}
    BY <1>3 DEF CreateEntity, FreeName
  <2> HIDE DEF r
  <2>3. QED BY <1>2, <2>1, <2>2
<1>4. CASE UpdateEntity(e, n)
  <2> DEFINE r == [entity[e] EXCEPT !.name = n]
  <2>1. /\ r \in Record /\ StoreEntity(e, r) /\ e \in There
        /\ r.name = n /\ r.variants = entity[e].variants
    BY <1>1, <1>4 DEF UpdateEntity
  <2> HIDE DEF r
  <2>2. \A d \in There : d # e => r.name # entity[d].name /\ r.variants \cap entity[d].variants = {}
    BY <1>4, <2>1 DEF UpdateEntity, FreeName, NamesInv
  <2>3. QED BY <1>1, <1>2, <2>1, <2>2
<1>5. CASE AddVariant(e, n)
  <2> DEFINE r == [entity[e] EXCEPT !.variants = entity[e].variants \cup {n}]
  <2>1. /\ r \in Record /\ StoreEntity(e, r) /\ e \in There
        /\ r.name = entity[e].name /\ r.variants = entity[e].variants \cup {n}
    BY <1>1, <1>5 DEF AddVariant
  <2> HIDE DEF r
  <2>2. \A d \in There : d # e => r.name # entity[d].name /\ r.variants \cap entity[d].variants = {}
    BY <1>5, <2>1 DEF AddVariant, NamesInv
  <2>3. QED BY <1>1, <1>2, <2>1, <2>2
<1>6. CASE DeleteVariant(e, n)
  <2> DEFINE r == [entity[e] EXCEPT !.variants = entity[e].variants \ {n}]
  <2>1. /\ r \in Record /\ StoreEntity(e, r) /\ e \in There
        /\ r.name = entity[e].name /\ r.variants = entity[e].variants \ {n}
    BY <1>1, <1>6 DEF DeleteVariant
  <2> HIDE DEF r
  <2>2. \A d \in There : d # e => r.name # entity[d].name /\ r.variants \cap entity[d].variants = {}
    BY <2>1 DEF NamesInv
  <2>3. QED BY <1>1, <1>2, <2>1, <2>2
<1>7. QED BY <1>3, <1>4, <1>5, <1>6

-----------------------------------------------------------------------------
(***************************************************************************)
(* auto_link_entities()                                                    *)
(***************************************************************************)
\* Who began last, and nothing was changed since, knows the names of now and
\* has found an entity for every extraction that has one.
FreshInv ==
  /\ \A t \in Tasks : latest = t =>
       /\ linker[t].pc \in {"rows", "commit"} /\ ~linker[t].dry /\ linker[t].raw
       /\ \A e \in Entities : linker[t].seen[e] = NamesOf(entity[e])
       /\ ~Gone(t)
       /\ linker[t].pc = "commit" =>
            \A p \in Pairs, e \in Entities :
              Of(row, p).val \in NamesOf(entity[e])
                => Of(link, p) # "none" \/ p \in DOMAIN linker[t].found
  /\ UndisturbedLinksAll

LinkerInv == LinkInv /\ NamesInv /\ LiveLinks /\ FreshInv

LEMMA BeginLinkStep ==
  ASSUME LinkerInv, NEW t \in Tasks, NEW dry \in BOOLEAN, NEW raw \in BOOLEAN,
         BeginLink(t, dry, raw)
  PROVE  /\ UNCHANGED <<row, entity, link>>
         /\ linker[t].pc = "idle"
         /\ linker'[t].pc = "rows" /\ linker'[t].dry = dry /\ linker'[t].raw = raw
         /\ \A e \in Entities : linker'[t].seen[e] = NamesOf(entity[e])
         /\ DOMAIN linker'[t].found = {}
         /\ \A u \in Tasks : u # t => linker'[u] = linker[u]
         /\ latest' = IF dry \/ ~raw THEN latest ELSE t
<1> DEFINE seen == [e \in Entities |-> NamesOf(entity[e])]
           rec == [NoLinker EXCEPT !.pc = "rows", !.dry = dry, !.raw = raw, !.seen = seen]
<1>1. /\ UNCHANGED <<row, entity, link>> /\ linker[t] = NoLinker
      /\ linker' = [linker EXCEPT ![t] = rec]
      /\ latest' = IF dry \/ ~raw THEN latest ELSE t
  BY DEF BeginLink, tables
<1>2. /\ rec.pc = "rows" /\ rec.dry = dry /\ rec.raw = raw /\ rec.seen = seen
      /\ DOMAIN rec.found = {} /\ NoLinker.pc = "idle"
  BY DEF NoLinker
<1>3. \A e \in Entities : seen[e] = NamesOf(entity[e])
  OBVIOUS
<1> HIDE DEF rec, seen
<1>4. QED BY <1>1, <1>2, <1>3 DEF LinkerInv, LinkInv, Shapes

LEMMA BeginLinkFresh ==
  ASSUME LinkerInv, NEW t \in Tasks, NEW dry \in BOOLEAN, NEW raw \in BOOLEAN,
         BeginLink(t, dry, raw)
  PROVE  LiveLinks' /\ FreshInv'
<1>1. /\ UNCHANGED <<row, entity, link>>
      /\ linker[t].pc = "idle"
      /\ linker'[t].pc = "rows" /\ linker'[t].dry = dry /\ linker'[t].raw = raw
      /\ \A e \in Entities : linker'[t].seen[e] = NamesOf(entity[e])
      /\ DOMAIN linker'[t].found = {}
      /\ \A u \in Tasks : u # t => linker'[u] = linker[u]
      /\ latest' = IF dry \/ ~raw THEN latest ELSE t
  BY BeginLinkStep
<1>2. There' = There
  BY <1>1 DEF There
<1>3. \A e \in Entities : NamesOf(entity[e]) # {} => e \in There
  BY NoNames DEF There
<1>4. LiveLinks'
  BY <1>1, <1>2, <1>3 DEF LinkerInv, LiveLinks, Of
<1>5. \A u \in Tasks : latest' = u => (u = t /\ ~dry /\ raw) \/ (u # t /\ latest = u)
  BY <1>1 DEF LinkerInv, FreshInv
<1>6. UndisturbedLinksAll'
  BY <1>1, <1>2, EntitiesAssumption
     DEF LinkerInv, FreshInv, UndisturbedLinksAll, Of, NamesOf, SpelledBy
<1>7. FreshInv'
  BY <1>1, <1>5, <1>6 DEF LinkerInv, FreshInv, Gone, Of, NamesOf, SpelledBy
<1>8. QED BY <1>4, <1>7

LEMMA LoadRowsStep ==
  ASSUME LinkerInv, NEW t \in Tasks, LoadRows(t)
  PROVE  /\ UNCHANGED <<row, entity, link, latest>>
         /\ linker[t].pc = "rows"
         /\ linker'[t].pc = "commit" /\ linker'[t].dry = linker[t].dry
         /\ linker'[t].raw = linker[t].raw /\ linker'[t].seen = linker[t].seen
         /\ DOMAIN linker'[t].found \subseteq Pairs
         /\ \A p \in DOMAIN linker'[t].found :
              /\ linker'[t].found[p] \in Entities /\ linker[t].seen[linker'[t].found[p]] # {}
              /\ Of(row, p).val # "none"
         /\ \A p \in Pairs, e \in Entities :
              Of(row, p).val \in linker[t].seen[e] /\ linker[t].raw /\ Of(link, p) = "none"
                => p \in DOMAIN linker'[t].found
         /\ \A u \in Tasks : u # t => linker'[u] = linker[u]
<1> DEFINE match == [p \in Pairs |->
                      IF Of(link, p) # "none" THEN {}
                      ELSE Matches(TextOf(Of(row, p), linker[t].raw), linker[t].seen)]
           hits == {p \in Pairs : match[p] # {}}
<1>1. PICK found \in [hits -> Entities] :
        /\ \A p \in hits : found[p] \in match[p]
        /\ linker' = [linker EXCEPT ![t].pc = "commit", ![t].found = found]
  BY DEF LoadRows
<1>2. UNCHANGED <<row, entity, link, latest>> /\ linker[t].pc = "rows"
  BY DEF LoadRows, pvars, tables
<1>3. ASSUME NEW p \in hits
      PROVE  /\ found[p] \in Entities /\ linker[t].seen[found[p]] # {}
             /\ Of(row, p).val # "none"
  <2>1. /\ found[p] \in Entities
        /\ TextOf(Of(row, p), linker[t].raw) \in linker[t].seen[found[p]]
    BY <1>1 DEF Matches
  <2>2. TextOf(Of(row, p), linker[t].raw) \in Vals
    BY <2>1 DEF LinkerInv, LinkInv, Shapes
  <2>3. QED BY <2>1, <2>2 DEF TextOf, Vals
<1>4. ASSUME NEW p \in Pairs, NEW e \in Entities, Of(row, p).val \in linker[t].seen[e],
             linker[t].raw, Of(link, p) = "none"
      PROVE  p \in hits
  BY <1>4 DEF Matches, TextOf
<1>5. DOMAIN found = hits /\ hits \subseteq Pairs
  BY <1>1
<1> HIDE DEF match, hits
<1> DEFINE rec == [linker[t] EXCEPT !.pc = "commit", !.found = found]
<1>6. /\ rec.pc = "commit" /\ rec.found = found /\ rec.seen = linker[t].seen
      /\ rec.dry = linker[t].dry /\ rec.raw = linker[t].raw
  BY DEF LinkerInv, LinkInv, Shapes
<1>7. linker' = [linker EXCEPT ![t] = rec]
  BY <1>1 DEF LinkerInv, LinkInv, Shapes
<1> HIDE DEF rec
<1>8. linker'[t] = rec /\ \A u \in Tasks : u # t => linker'[u] = linker[u]
  BY <1>7 DEF LinkerInv, LinkInv, Shapes
<1>9. QED BY <1>2, <1>3, <1>4, <1>5, <1>6, <1>8

LEMMA LoadRowsFresh ==
  ASSUME LinkerInv, NEW t \in Tasks, LoadRows(t)
  PROVE  LiveLinks' /\ FreshInv'
<1>1. /\ UNCHANGED <<row, entity, link, latest>>
      /\ linker[t].pc = "rows"
      /\ linker'[t].pc = "commit" /\ linker'[t].dry = linker[t].dry
      /\ linker'[t].raw = linker[t].raw /\ linker'[t].seen = linker[t].seen
      /\ DOMAIN linker'[t].found \subseteq Pairs
      /\ \A p \in DOMAIN linker'[t].found :
           /\ linker'[t].found[p] \in Entities /\ linker[t].seen[linker'[t].found[p]] # {}
           /\ Of(row, p).val # "none"
      /\ \A p \in Pairs, e \in Entities :
           Of(row, p).val \in linker[t].seen[e] /\ linker[t].raw /\ Of(link, p) = "none"
             => p \in DOMAIN linker'[t].found
      /\ \A u \in Tasks : u # t => linker'[u] = linker[u]
  BY LoadRowsStep
<1>2. There' = There
  BY <1>1 DEF There
<1>3. \A p \in DOMAIN linker'[t].found : linker'[t].found[p] \in There /\ Of(row, p) # NoRow
  BY <1>1 DEF LinkerInv, LiveLinks, NoRow
<1>4. LiveLinks'
  BY <1>1, <1>2, <1>3 DEF LinkerInv, LiveLinks, Of
<1>5. UndisturbedLinksAll'
  BY <1>1, <1>2 DEF LinkerInv, FreshInv, UndisturbedLinksAll, Of, NamesOf, SpelledBy
<1>6. ~Gone(t)'
  BY <1>1, EntitiesAssumption DEF Gone
<1>7. FreshInv'
  <2>1. ASSUME NEW u \in Tasks, latest' = u
        PROVE  /\ linker'[u].pc \in {"rows", "commit"} /\ ~linker'[u].dry /\ linker'[u].raw
               /\ \A e \in Entities : linker'[u].seen[e] = NamesOf(entity[e])
               /\ ~Gone(u)'
               /\ linker'[u].pc = "commit" =>
                    \A p \in Pairs, e \in Entities :
                      Of(row, p).val \in NamesOf(entity[e])
                        => Of(link, p) # "none" \/ p \in DOMAIN linker'[u].found
    <3>1. CASE u = t
      BY <1>1, <1>6, <2>1, <3>1 DEF LinkerInv, FreshInv
    <3>2. CASE u # t
      BY <1>1, <2>1, <3>2 DEF LinkerInv, FreshInv, Gone
    <3>3. QED BY <3>1, <3>2
  <2>2. QED BY <1>1, <1>5, <2>1 DEF FreshInv, Of, NamesOf, SpelledBy
<1>8. QED BY <1>4, <1>7

LEMMA CommitLinksFresh ==
  ASSUME LinkerInv, NEW t \in Tasks, CommitLinks(t)
  PROVE  LiveLinks' /\ FreshInv'
<1>1. /\ UNCHANGED <<row, entity>> /\ linker[t].pc = "commit"
      /\ linker' = [linker EXCEPT ![t] = NoLinker]
      /\ latest' = IF latest = t THEN "done" ELSE latest
  BY DEF CommitLinks, pvars, tables
<1>2. /\ linker'[t] = NoLinker /\ \A u \in Tasks : u # t => linker'[u] = linker[u]
      /\ There' = There
  BY <1>1 DEF LinkerInv, LinkInv, Shapes, There
<1>3. ASSUME NEW p \in Pairs
      PROVE  \/ Of(link', p) = Of(link, p)
             \/ p \in DOMAIN linker[t].found /\ ~linker[t].dry /\ ~Gone(t)
                /\ Of(link', p) = linker[t].found[p]
  <2>1. CASE linker[t].dry \/ Gone(t)
    BY <2>1 DEF CommitLinks, Of
  <2>2. CASE ~(linker[t].dry \/ Gone(t))
    <3>1. link' = [s \in Sources |-> [f \in EntityFields |->
                     IF <<s, f>> \in DOMAIN linker[t].found
                     THEN linker[t].found[<<s, f>>] ELSE link[s][f]]]
      BY <2>2 DEF CommitLinks
    <3>2. Of(link', p) = IF p \in DOMAIN linker[t].found THEN linker[t].found[p] ELSE Of(link, p)
      BY <3>1, PairFacts DEF Of
    <3>3. QED BY <2>2, <3>2
  <2>3. QED BY <2>1, <2>2
<1>4. \A p \in DOMAIN linker[t].found : ~Gone(t) =>
        /\ linker[t].found[p] \in There /\ linker[t].found[p] # "none" /\ Of(row, p) # NoRow
  BY EntitiesAssumption DEF Gone, LinkerInv, LiveLinks, There
<1>5. \A p \in Pairs : Of(link, p) # "none" => Of(link', p) # "none"
  BY <1>3, <1>4
<1>6. LiveLinks'
  <2>1. \A p \in Pairs : Of(link', p) # "none" => Of(link', p) \in There /\ Of(row, p) # NoRow
    BY <1>3, <1>4 DEF LinkerInv, LiveLinks
  <2>2. DOMAIN NoLinker.found = {} /\ \A e \in Entities : NoLinker.seen[e] = {}
    BY DEF NoLinker
  <2>3. QED BY <1>1, <1>2, <2>1, <2>2 DEF LinkerInv, LiveLinks, Of
<1>7. UndisturbedLinksAll'
  <2> SUFFICES ASSUME latest' = "done", NEW p \in Pairs, NEW e \in There,
                      Of(row, p).val \in NamesOf(entity[e])
               PROVE  Of(link', p) # "none"
    BY <1>1, <1>2 DEF UndisturbedLinksAll, Of, NamesOf, SpelledBy
  <2>1. CASE latest = t
    <3>1. /\ ~linker[t].dry /\ ~Gone(t)
          /\ Of(link, p) # "none" \/ p \in DOMAIN linker[t].found
      BY <1>1, <2>1 DEF LinkerInv, FreshInv, There
    <3>2. CASE Of(link, p) # "none"
      BY <1>5, <3>2
    <3>3. CASE p \in DOMAIN linker[t].found
      <4>1. link' = [s \in Sources |-> [f \in EntityFields |->
                       IF <<s, f>> \in DOMAIN linker[t].found
                       THEN linker[t].found[<<s, f>>] ELSE link[s][f]]]
        BY <3>1 DEF CommitLinks
      <4>2. Of(link', p) = linker[t].found[p]
        BY <3>3, <4>1, PairFacts DEF Of
      <4>3. QED BY <1>4, <3>1, <3>3, <4>2
    <3>4. QED BY <3>1, <3>2, <3>3
  <2>2. CASE latest # t
    BY <1>1, <1>5, <2>2 DEF LinkerInv, FreshInv, UndisturbedLinksAll
  <2>3. QED BY <2>1, <2>2
<1>8. FreshInv'
  <2>1. \A u \in Tasks : latest' = u => u # t /\ latest = u
    BY <1>1, EntitiesAssumption
  <2>2. QED BY <1>1, <1>2, <1>5, <1>7, <2>1 DEF LinkerInv, FreshInv, Gone, Of, NamesOf, SpelledBy
<1>9. QED BY <1>6, <1>8

\* A row that goes takes its link along, and nobody believes in it any more.
LEMMA ChangeFresh ==
  ASSUME LinkerInv, ChangeExtractions
  PROVE  LiveLinks' /\ FreshInv'
<1>1. /\ UNCHANGED <<entity, named>>
      /\ link' = [s \in Sources |-> [f \in EntityFields |->
                    IF row'[s][f] = NoRow THEN "none" ELSE link[s][f]]]
      /\ linker' = [t \in Tasks |-> [linker[t] EXCEPT !.found = Held(linker[t].found)]]
      /\ latest' = IF row' = row THEN latest ELSE "none"
  BY DEF ChangeExtractions
<1>2. ASSUME NEW t \in Tasks
      PROVE  /\ linker'[t].pc = linker[t].pc /\ linker'[t].dry = linker[t].dry
             /\ linker'[t].raw = linker[t].raw /\ linker'[t].seen = linker[t].seen
             /\ DOMAIN linker'[t].found = DOMAIN linker[t].found
             /\ \A p \in DOMAIN linker[t].found :
                  linker'[t].found[p] = IF Of(row', p) = NoRow THEN "gone" ELSE linker[t].found[p]
  <2> DEFINE held == Held(linker[t].found)
  <2>1. linker'[t] = [linker[t] EXCEPT !.found = held]
    BY <1>1
  <2>2. DOMAIN held = DOMAIN linker[t].found
        /\ \A p \in DOMAIN linker[t].found :
             held[p] = IF Of(row', p) = NoRow THEN "gone" ELSE linker[t].found[p]
    BY DEF Held
  <2> HIDE DEF held
  <2>3. QED BY <2>1, <2>2 DEF LinkerInv, LinkInv, Shapes
<1>3. \A p \in Pairs : Of(link', p) = IF Of(row', p) = NoRow THEN "none" ELSE Of(link, p)
  BY <1>1, PairFacts DEF Of
<1>4. There' = There
  BY <1>1 DEF There
<1>5. LiveLinks'
  <2>1. \A p \in Pairs : Of(link', p) # "none" => Of(link', p) \in There /\ Of(row', p) # NoRow
    BY <1>3 DEF LinkerInv, LiveLinks
  <2>2. \A t \in Tasks :
          /\ \A e \in Entities : linker'[t].seen[e] # {} => e \in There
          /\ DOMAIN linker'[t].found \subseteq Pairs
          /\ \A p \in DOMAIN linker'[t].found : linker'[t].found[p] # "gone" =>
               linker'[t].found[p] \in There /\ Of(row', p) # NoRow
    BY <1>2 DEF LinkerInv, LiveLinks
  <2>3. latest' \in Tasks \cup {"none", "done"}
    BY <1>1 DEF LinkerInv, LiveLinks
  <2>4. QED BY <1>4, <2>1, <2>2, <2>3 DEF LiveLinks, Of
<1>6. FreshInv'
  <2>1. CASE row' = row
    <3>1. \A p \in Pairs : Of(link', p) = Of(link, p)
      BY <1>3, <2>1 DEF LinkerInv, LiveLinks
    <3>2. \A t \in Tasks : Gone(t)' => Gone(t)
      <4>1. ASSUME NEW t \in Tasks, NEW p \in DOMAIN linker'[t].found, linker'[t].found[p] = "gone"
            PROVE  p \in DOMAIN linker[t].found /\ linker[t].found[p] = "gone"
        BY <1>2, <2>1, <4>1 DEF LinkerInv, LiveLinks
      <4>2. QED BY <4>1 DEF Gone
    <3>3. UndisturbedLinksAll'
      BY <1>1, <1>4, <2>1, <3>1 DEF LinkerInv, FreshInv, UndisturbedLinksAll, Of, NamesOf, SpelledBy
    <3>4. latest' = latest
      BY <1>1, <2>1
    <3>5. ASSUME NEW t \in Tasks, latest' = t
          PROVE  /\ linker'[t].pc \in {"rows", "commit"} /\ ~linker'[t].dry /\ linker'[t].raw
                 /\ \A e \in Entities : linker'[t].seen[e] = NamesOf(entity'[e])
                 /\ ~Gone(t)'
                 /\ linker'[t].pc = "commit" =>
                      \A p \in Pairs, e \in Entities :
                        Of(row', p).val \in NamesOf(entity'[e])
                          => Of(link', p) # "none" \/ p \in DOMAIN linker'[t].found
      BY <1>1, <1>2, <2>1, <3>1, <3>2, <3>4, <3>5 DEF LinkerInv, FreshInv
    <3>6. QED BY <3>3, <3>5 DEF FreshInv, Of, NamesOf, SpelledBy
  <2>2. CASE row' # row
    <3>1. latest' = "none"
      BY <1>1, <2>2
    <3>2. QED BY <3>1, EntitiesAssumption DEF FreshInv, UndisturbedLinksAll
  <2>3. QED BY <2>1, <2>2
<1>7. QED BY <1>5, <1>6

LEMMA NextLinker == LinkerInv /\ [Next]_vars => LinkerInv'
<1> SUFFICES ASSUME LinkerInv, [Next]_vars PROVE LinkerInv'
  OBVIOUS
<1>1. LinkInv'
  BY NextLinks DEF LinkerInv
<1>2. UNCHANGED entity => NamesInv'
  BY DEF LinkerInv, NamesInv, There
<1>3. ASSUME UNCHANGED <<row, inventory>> PROVE LinkerInv'
  <2>1. UNCHANGED <<row, entity, link, linker, latest>>
    BY <1>3 DEF inventory
  <2>2. LiveLinks'
    BY <2>1 DEF LinkerInv, LiveLinks, There, Of
  <2>3. FreshInv'
    BY <2>1 DEF LinkerInv, FreshInv, UndisturbedLinksAll, There, Gone, Of, NamesOf, SpelledBy
  <2>4. QED BY <1>1, <1>2, <2>1, <2>2, <2>3 DEF LinkerInv
<1>4. ASSUME NEW e \in Entities, NEW n \in Names,
             CreateEntity(e, n) \/ UpdateEntity(e, n) \/ AddVariant(e, n) \/ DeleteVariant(e, n)
      PROVE  LinkerInv'
  <2>1. NamesInv' /\ LiveLinks'
    BY <1>4, InventorySchema DEF LinkerInv
  <2>2. latest' = "none"
    BY <1>4 DEF CreateEntity, UpdateEntity, AddVariant, DeleteVariant, StoreEntity
  <2>3. FreshInv'
    BY <2>2, EntitiesAssumption DEF FreshInv, UndisturbedLinksAll
  <2>4. QED BY <1>1, <2>1, <2>3 DEF LinkerInv
<1>5. ASSUME NEW t \in Tasks, NEW dry \in BOOLEAN, NEW raw \in BOOLEAN, BeginLink(t, dry, raw)
      PROVE  LinkerInv'
  <2>1. UNCHANGED entity
    BY <1>5 DEF BeginLink
  <2>2. QED BY <1>1, <1>2, <1>5, <2>1, BeginLinkFresh DEF LinkerInv
<1>6. ASSUME NEW t \in Tasks, LoadRows(t) \/ CommitLinks(t) PROVE LinkerInv'
  <2>1. UNCHANGED entity
    BY <1>6 DEF LoadRows, CommitLinks
  <2>2. QED BY <1>1, <1>2, <1>6, <2>1, LoadRowsFresh, CommitLinksFresh DEF LinkerInv
<1>7. CASE ChangeExtractions
  BY <1>1, <1>2, <1>7, ChangeFresh DEF ChangeExtractions, LinkerInv
<1>8. ASSUME NEW e \in Entities, DeleteEntity(e) PROVE LinkerInv'
  BY <1>3, <1>8 DEF DeleteEntity, tables
<1>9. CASE UNCHANGED vars
  BY <1>3, <1>9 DEF vars, pvars, tables
<1>10. QED BY <1>4, <1>5, <1>6, <1>7, <1>8, <1>9 DEF Next

LEMMA InitLinker == Init => LinkerInv
<1> SUFFICES ASSUME Init PROVE LinkerInv
  OBVIOUS
<1>1. latest = "none"
  BY DEF Init, InitInventory
<1>2. FreshInv
  BY <1>1, EntitiesAssumption DEF FreshInv, UndisturbedLinksAll
<1>3. QED BY <1>2, InitLinks, InitSchema DEF LinkerInv

\* For any inventory, spellings and number of auto-links at the same time: an
\* auto-link during which neither the inventory nor an extraction changed leaves
\* no extraction without a link that has one to get, even if the commit of
\* another one came in between.
THEOREM UndisturbedLinkingLinksAll == Spec => []UndisturbedLinksAll
<1>1. LinkerInv => UndisturbedLinksAll
  BY DEF LinkerInv, FreshInv
<1>2. QED BY <1>1, InitLinker, NextLinker, PTL DEF Spec

\* What the schema promises, for any inventory: names and variants of one entity
\* each, links to entities that are there from rows that are there.
THEOREM EntityTypeCorrect == Spec => []EntityTypeOK
<1>1. Init => TypesInv
  BY InitTypesInv DEF Init
<1>2. TypesInv /\ LinkerInv => EntityTypeOK
  <2> SUFFICES ASSUME TypesInv, LinkerInv PROVE EntityTypeOK
    OBVIOUS
  <2>1. TypeOK
    BY TypesAreTypes
  <2>2. link \in [Sources -> [EntityFields -> There \cup {"none"}]]
    <3>1. \A s \in Sources, f \in EntityFields : link[s][f] \in There \cup {"none"}
      BY PairFacts DEF LinkerInv, LiveLinks, Of
    <3>2. QED BY <3>1 DEF LinkerInv, LinkInv, Shapes
  <2>3. QED BY <2>1, <2>2 DEF EntityTypeOK, LinkerInv, LinkInv, Shapes, NamesInv, LiveLinks
<1>3. QED BY <1>1, <1>2, NextEntityTypes, InitLinker, NextLinker, PTL DEF Spec
=============================================================================
