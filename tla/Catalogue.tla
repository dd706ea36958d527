------------------------------ MODULE Catalogue ------------------------------
(***************************************************************************)
(* What is to be extracted: prompts, the prompts they depend on, the       *)
(* categories they are assigned to, and the category of a source.          *)
(* Administrators edit the catalogue while workers extract by it, and can  *)
(* load it again from the YAML files (app/api/admin.py, app/seed.py).      *)
(*                                                                         *)
(* The texts of a prompt or a category are one value each: the text of the *)
(* file, or what somebody made of it.  Names, display order and the        *)
(* settings for translation and entities are left out.                     *)
(***************************************************************************)
EXTENDS Naturals, FiniteSets

CONSTANTS
  Prompts,      \* names of prompts
  Categories,   \* names of categories
  File,         \* File[c]: the prompts in the YAML file of a category
  MaxRetries,   \* the values of max_retries in use, within 1..10
  Default,      \* the max_retries of a prompt that does not set it
  MaxOps        \* bound: requests that change the catalogue

ASSUME CatalogueAssumption ==
  /\ DOMAIN File \subseteq Categories
  /\ \A c \in DOMAIN File : File[c] \subseteq Prompts
  /\ MaxRetries \subseteq 1..10
  /\ Default \in MaxRetries
  /\ MaxOps \in Nat

VARIABLES
  prompt,     \* prompts
  depends,    \* prompt_dependencies: pairs of a prompt and one it needs
  category,   \* categories
  assigned,   \* category_prompts
  home,       \* category_id of the source, which may be "gone"
  ops

catalogue == <<prompt, depends, category, assigned, home>>

Texts == {"file", "edited"}
NoPrompt == [there |-> FALSE, active |-> FALSE, text |-> "file", tries |-> Default]
NoCategory == [there |-> FALSE, active |-> FALSE, text |-> "file"]

PromptsThere == {p \in Prompts : prompt[p].there}
CategoriesThere == {c \in Categories : category[c].there}

\* get_by_category(active_only=True)
ToExtract(c) == {p \in Prompts : <<c, p>> \in assigned /\ prompt[p].active}

\* Foreign keys hold and nothing remains of a row that is gone.
CatalogueTypeOK ==
  /\ prompt \in [Prompts -> [there : BOOLEAN, active : BOOLEAN,
                             text : Texts, tries : MaxRetries]]
  /\ \A p \in Prompts : prompt[p].there \/ prompt[p] = NoPrompt
  /\ category \in [Categories -> [there : BOOLEAN, active : BOOLEAN, text : Texts]]
  /\ \A c \in Categories : category[c].there \/ category[c] = NoCategory
  /\ depends \subseteq PromptsThere \X PromptsThere
  /\ assigned \subseteq CategoriesThere \X PromptsThere
  /\ home \in CategoriesThere \cup {"none", "gone"}
  /\ ops \in 0..MaxOps

-----------------------------------------------------------------------------
Request == ops < MaxOps /\ ops' = ops + 1

CreatePrompt(p) ==
  /\ Request
  /\ ~prompt[p].there
  /\ \E n \in MaxRetries, on \in BOOLEAN :
       prompt' = [prompt EXCEPT ![p] =
                    [there |-> TRUE, active |-> on, text |-> "edited", tries |-> n]]
  /\ UNCHANGED <<depends, category, assigned, home>>

UpdatePrompt(p) ==
  /\ Request
  /\ prompt[p].there
  /\ \E n \in MaxRetries, on \in BOOLEAN :
       prompt' = [prompt EXCEPT ![p] =
                    [there |-> TRUE, active |-> on, text |-> "edited", tries |-> n]]
  /\ UNCHANGED <<depends, category, assigned, home>>

\* delete_prompt() after its check.  The ORM detaches the prompts that depend
\* on it by writing NULL, which their column refuses: the request fails.
Detachable(p) == \A q \in Prompts \ {p} : <<q, p>> \notin depends

\* mutant: the rows that refer to the prompt are left behind
MutDropPrompt(p) ==
  /\ prompt' = [prompt EXCEPT ![p] = NoPrompt]
  /\ depends' = {d \in depends : d[1] # p}
  /\ UNCHANGED <<category, assigned, home>>

DropPrompt(p) ==
  /\ prompt' = [prompt EXCEPT ![p] = NoPrompt]
  /\ depends' = {d \in depends : d[1] # p}
  /\ assigned' = {a \in assigned : a[2] # p}
  /\ UNCHANGED <<category, home>>

\* Nothing keeps a dependency from closing a cycle.
AddDependency(p, q) ==
  /\ Request
  /\ {p, q} \subseteq PromptsThere
  /\ depends' = depends \cup {<<p, q>>}
  /\ UNCHANGED <<prompt, category, assigned, home>>

RemoveDependency(d) ==
  /\ Request
  /\ d \in depends
  /\ depends' = depends \ {d}
  /\ UNCHANGED <<prompt, category, assigned, home>>

CreateCategory(c) ==
  /\ Request
  /\ ~category[c].there
  /\ category' = [category EXCEPT ![c] =
                    [there |-> TRUE, active |-> TRUE, text |-> "edited"]]
  /\ UNCHANGED <<prompt, depends, assigned, home>>

UpdateCategory(c) ==
  /\ Request
  /\ category[c].there
  /\ \E on \in BOOLEAN :
       category' = [category EXCEPT ![c].active = on, ![c].text = "edited"]
  /\ UNCHANGED <<prompt, depends, assigned, home>>

\* A category with sources is deactivated; with force it is deleted and the
\* source has no category any more.
DeleteCategory(c, force) ==
  /\ Request
  /\ category[c].there
  /\ IF home = c /\ ~force
     THEN /\ category' = [category EXCEPT ![c].active = FALSE]
          /\ UNCHANGED <<assigned, home>>
     ELSE /\ category' = [category EXCEPT ![c] = NoCategory]
          /\ assigned' = {a \in assigned : a[1] # c}
          /\ home' = IF home = c THEN "none" ELSE home
  /\ UNCHANGED <<prompt, depends>>

AssignPrompt(c, p) ==
  /\ Request
  /\ category[c].there /\ prompt[p].there
  /\ assigned' = assigned \cup {<<c, p>>}
  /\ UNCHANGED <<prompt, depends, category, home>>

RemovePrompt(c, p) ==
  /\ Request
  /\ assigned' = assigned \ {<<c, p>>}
  /\ UNCHANGED <<prompt, depends, category, home>>

UpdateSource(c) ==
  /\ Request
  /\ category[c].there /\ home # "gone"
  /\ home' = c
  /\ UNCHANGED <<prompt, depends, category, assigned>>

-----------------------------------------------------------------------------
(***************************************************************************)
(* seed.py: the categories of the files and their prompts are created, or, *)
(* by force, written over.  A missing assignment is made in either case;   *)
(* with force all others of the category go.  One commit for everything.   *)
(***************************************************************************)
Seeded(p, force) ==
  IF prompt[p].there
  THEN IF force THEN [prompt[p] EXCEPT !.active = TRUE, !.text = "file"] ELSE prompt[p]
  ELSE [there |-> TRUE, active |-> TRUE, text |-> "file", tries |-> Default]

Synced(force) ==
  /\ prompt' = [p \in Prompts |->
       IF \E c \in DOMAIN File : p \in File[c] THEN Seeded(p, force) ELSE prompt[p]]
  /\ category' = [c \in Categories |->
       IF c \in DOMAIN File /\ (force \/ ~category[c].there)
       THEN [there |-> TRUE, active |-> TRUE, text |-> "file"] ELSE category[c]]
  /\ assigned' = {a \in assigned : ~force \/ a[1] \notin DOMAIN File}
                 \cup {a \in Categories \X Prompts :
                         a[1] \in DOMAIN File /\ a[2] \in File[a[1]]}
  /\ UNCHANGED <<depends, home>>

\* seed/run, config/reload and reload-categories; and, if there is no category,
\* the start of a process (init_db(), run_seed_if_empty()).
LoadCategories(force) == Request /\ Synced(force)

\* The tables after a factory reset.
Emptied ==
  /\ prompt' = [p \in Prompts |-> NoPrompt]
  /\ category' = [c \in Categories |-> NoCategory]
  /\ depends' = {} /\ assigned' = {} /\ home' = "gone"

ChangeCatalogue ==
  \/ \E p \in Prompts : CreatePrompt(p) \/ UpdatePrompt(p)
  \/ \E p, q \in Prompts : AddDependency(p, q)
  \/ \E d \in depends : RemoveDependency(d)
  \/ \E c \in Categories : \/ CreateCategory(c) \/ UpdateCategory(c) \/ UpdateSource(c)
                           \/ \E force \in BOOLEAN : DeleteCategory(c, force)
                           \/ \E p \in Prompts : AssignPrompt(c, p) \/ RemovePrompt(c, p)
  \/ \E force \in BOOLEAN : LoadCategories(force)
=============================================================================
