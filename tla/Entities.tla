------------------------------ MODULE Entities ------------------------------
(***************************************************************************)
(* The inventory of institutions (entities and their variants) and the     *)
(* extractions that are linked to it by auto_link_entities(), while the    *)
(* inventory is edited and extractions are corrected, validated again or   *)
(* replaced (Publishing).                                                  *)
(*                                                                         *)
(* One entity type; names are compared in lower case and stripped, but     *)
(* stored, and unique, as they are written.  The normalizer and its review *)
(* queue are not here: nothing calls the one or writes the other.          *)
(***************************************************************************)
EXTENDS Publishing

CONSTANTS
  Entities,      \* rows there can be
  Names,         \* spellings of names
  Lower,         \* the text, among those of extractions, a spelling stands for
  EntityFields   \* prompts with this entity_type

ASSUME EntitiesAssumption ==
  /\ EntityFields \subseteq Fields
  /\ Lower \in [Names -> Vals]
  /\ "none" \notin Names /\ {"none", "gone"} \cap Entities = {}
  /\ {"none", "done"} \cap Tasks = {}

VARIABLES
  entity,   \* entities, each with its variants
  link,     \* linked_entity_id of the extractions
  linker,   \* auto_link_entities() requests under way
  named,    \* every text that has been a name of an entity
  said,     \* every text that an extraction has had since it was stored
  latest    \* the auto-link since whose start nothing was changed

inventory == <<entity, link, linker, named, said, latest>>
vars == <<pvars, inventory>>

NoEntity == [name |-> "none", variants |-> {}]
There == {e \in Entities : entity[e] # NoEntity}
SpelledBy(r) == r.variants \cup (IF r.name = "none" THEN {} ELSE {r.name})
NamesOf(r) == {Lower[n] : n \in SpelledBy(r)}

Pairs == Sources \X EntityFields
Of(fn, p) == fn[p[1]][p[2]]

NoLinker == [pc |-> "idle", dry |-> FALSE, raw |-> TRUE, seen |-> [e \in Entities |-> {}],
             found |-> <<>>]

\* What the schema promises: a name for one entity, a variant for one entity,
\* a link only to what is there, from an extraction that is there.
EntityTypeOK ==
  /\ TypeOK
  /\ entity \in [Entities -> [name : Names \cup {"none"}, variants : SUBSET Names]]
  /\ \A e \in Entities : entity[e].name = "none" => entity[e] = NoEntity
  /\ \A d, e \in There : d # e =>
       entity[d].name # entity[e].name /\ entity[d].variants \cap entity[e].variants = {}
  /\ link \in [Sources -> [EntityFields -> There \cup {"none"}]]
  /\ \A p \in Pairs : Of(link, p) # "none" => Of(row, p) # NoRow
  /\ latest \in Tasks \cup {"none", "done"}

InitInventory ==
  /\ entity \in [Entities -> {NoEntity} \cup [name : Names, variants : {{}}]]
  /\ \A d, e \in There : d # e => entity[d].name # entity[e].name
  /\ link = [s \in Sources |-> [f \in EntityFields |-> "none"]]
  /\ linker = [t \in Tasks |-> NoLinker]
  /\ named = [e \in Entities |-> NamesOf(entity[e])]
  /\ said = [p \in Pairs |-> {Of(row, p).val}]
  /\ latest = "none"

-----------------------------------------------------------------------------
(***************************************************************************)
(* The inventory                                                           *)
(***************************************************************************)
StoreEntity(e, r) ==
  /\ entity' = [entity EXCEPT ![e] = r]
  /\ named' = [named EXCEPT ![e] = @ \cup NamesOf(r)]
  /\ latest' = "none"
  /\ UNCHANGED <<queue, tables, task, ghosts, link, linker, said>>

\* mutant: the constraint is on the variants alone
MutFreeName(e, n) == \A d \in There \ {e} : n \notin entity[d].variants
\* The unique constraint: otherwise the request fails.
FreeName(e, n) == \A d \in There \ {e} : entity[d].name # n

CreateEntity(e, n) ==
  /\ Begin("create_entity")
  /\ e \notin There /\ FreeName(e, n)
  /\ StoreEntity(e, [name |-> n, variants |-> {}])

UpdateEntity(e, n) ==
  /\ Begin("update_entity")
  /\ e \in There /\ FreeName(e, n)
  /\ StoreEntity(e, [entity[e] EXCEPT !.name = n])

\* A variant of any entity is refused, also one that a concurrent request
\* stores after the lookup; the canonical name of another entity is not.
AddVariant(e, n) ==
  /\ Begin("add_variant")
  /\ e \in There
  /\ \A d \in There : n \notin entity[d].variants
  /\ StoreEntity(e, [entity[e] EXCEPT !.variants = @ \cup {n}])

DeleteVariant(e, n) ==
  /\ Begin("delete_variant")
  /\ e \in There /\ n \in entity[e].variants
  /\ StoreEntity(e, [entity[e] EXCEPT !.variants = @ \ {n}])

\* delete_entity() reads entity.variants, which were not loaded and cannot be
\* loaded there (MissingGreenlet): it fails before it changes anything.
DeleteEntity(e) ==
  /\ Begin("delete_entity")
  /\ e \in There
  /\ UNCHANGED <<queue, tables, task, ghosts, inventory>>

-----------------------------------------------------------------------------
(***************************************************************************)
(* auto_link_entities(): the names, then the extractions without a link    *)
(* are read; one commit writes what was found.                             *)
(***************************************************************************)
BeginLink(t, dry, raw) ==
  /\ Begin("auto_link")
  /\ linker[t] = NoLinker
  /\ There # {}
  /\ linker' = [linker EXCEPT ![t] =
       [NoLinker EXCEPT !.pc = "rows", !.dry = dry, !.raw = raw,
                        !.seen = [e \in Entities |-> NamesOf(entity[e])]]]
  /\ latest' = IF dry \/ ~raw THEN latest ELSE t
  /\ UNCHANGED <<queue, tables, task, ghosts, entity, link, named, said>>

\* mutant: without a validated_result there is nothing to compare
MutTextOf(r, raw) == IF r.val = "raw" THEN "none" ELSE r.val
\* validated_result, or raw_result where that is empty and may be used.
TextOf(r, raw) == IF r.val = "raw" /\ ~raw THEN "none" ELSE r.val

\* Several entities may be spelled alike in lower case: the one the database
\* returns last is taken.
Matches(text, seen) == {e \in Entities : text \in seen[e]}

LoadRows(t) ==
  /\ linker[t].pc = "rows"
  /\ LET match == [p \in Pairs |->
                     IF Of(link, p) # "none" THEN {}
                     ELSE Matches(TextOf(Of(row, p), linker[t].raw), linker[t].seen)]
         hits == {p \in Pairs : match[p] # {}}
     IN \E found \in [hits -> Entities] :
          /\ \A p \in hits : found[p] \in match[p]
          /\ linker' = [linker EXCEPT ![t].pc = "commit", ![t].found = found]
  /\ UNCHANGED <<pvars, entity, link, named, said, latest>>

\* The UPDATE of a row that is gone matches nothing and undoes the others.
Gone(t) == \E p \in DOMAIN linker[t].found : linker[t].found[p] = "gone"

CommitLinks(t) ==
  /\ linker[t].pc = "commit"
  /\ link' = IF linker[t].dry \/ Gone(t) THEN link
             ELSE [s \in Sources |-> [f \in EntityFields |->
                     IF <<s, f>> \in DOMAIN linker[t].found
                     THEN linker[t].found[<<s, f>>] ELSE link[s][f]]]
  /\ linker' = [linker EXCEPT ![t] = NoLinker]
  /\ latest' = IF latest = t THEN "done" ELSE latest
  /\ UNCHANGED <<pvars, entity, named, said>>

-----------------------------------------------------------------------------
(***************************************************************************)
(* What happens to the extractions.  The link is a column of the row: it   *)
(* goes with the row and stays when the value is changed.                  *)
(***************************************************************************)
\* mutant: a row is found again by its source and prompt
MutHeld(found) == found
\* A request holds the rows it loaded, not those stored in their place.
Held(found) ==
  [p \in DOMAIN found |-> IF Of(row', p) = NoRow THEN "gone" ELSE found[p]]

ChangeExtractions ==
  /\ PNext
  /\ link' = [s \in Sources |-> [f \in EntityFields |->
                IF row'[s][f] = NoRow THEN "none" ELSE link[s][f]]]
  /\ linker' = [t \in Tasks |-> [linker[t] EXCEPT !.found = Held(@)]]
  /\ said' = [p \in Pairs |-> IF Of(row', p) = NoRow THEN {}
                              ELSE said[p] \cup {Of(row', p).val}]
  /\ latest' = IF row' = row THEN latest ELSE "none"
  /\ UNCHANGED <<entity, named>>

Init == PInit /\ InitInventory
Next ==
  \/ ChangeExtractions
  \/ \E e \in Entities, n \in Names :
       CreateEntity(e, n) \/ UpdateEntity(e, n) \/ AddVariant(e, n) \/ DeleteVariant(e, n)
  \/ \E e \in Entities : DeleteEntity(e)
  \/ \E t \in Tasks :
       \/ \E dry, raw \in BOOLEAN : BeginLink(t, dry, raw)
       \/ LoadRows(t) \/ CommitLinks(t)
Spec == Init /\ [][Next]_vars

-----------------------------------------------------------------------------
(***************************************************************************)
(* Properties                                                              *)
(***************************************************************************)
\* A link says what it claims, an exact match (entity_confidence = 1.0): the
\* extraction, this very row, has had a text that was a name of the entity,
\* whatever was renamed, corrected or extracted anew while the request ran.
LinkedByName ==
  \A p \in Pairs : Of(link, p) # "none" => said[p] \cap named[Of(link, p)] # {}

\* After an auto-link during which nothing was changed, no extraction is left
\* without a link although its text, or its raw text, is a name in the
\* inventory, even if another auto-link ran beside it.
UndisturbedLinksAll ==
  latest = "done" =>
    \A p \in Pairs, e \in There :
      Of(row, p).val \in NamesOf(entity[e]) => Of(link, p) # "none"
=============================================================================
