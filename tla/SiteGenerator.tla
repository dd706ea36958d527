--------------------------- MODULE SiteGenerator ---------------------------
(***************************************************************************)
(* StaticSiteGenerator writes the public site from the published profiles  *)
(* into a directory: a full run empties it first, a run for the English    *)
(* tree alone does not.  Runs come from the admin API (in the background), *)
(* the command line and the English endpoint, and nothing keeps two of     *)
(* them apart; meanwhile profiles are published and withdrawn, sources     *)
(* move to other categories and categories are switched off and deleted.   *)
(***************************************************************************)
EXTENDS Publishing

CONSTANTS
  Categories,
  Runs,        \* generations that can be under way
  PageLimit    \* get_published() returns at most 100

ASSUME SiteAssumption ==
  /\ PageLimit \in Nat \ {0}
  /\ "none" \notin Categories   \* stands for no category

VARIABLES
  category,  \* sources.category_id
  active,    \* categories with is_active; one that is deleted is in it no more
  top,       \* what the output directory holds at its top level
  site,      \* the profiles each part of the site shows
  run,       \* where each generation is
  exact,     \* the last run to start was a full one, alone, and has ended well
  touched,   \* sources that were published, withdrawn or moved since then, or
             \* whose category was switched
  spoiled    \* a run was cut off while it cleared, ran beside another, or
             \* wrote the English tree into a directory without the marker

dir == <<top, site>>
cats == <<category, active>>
siteVars == <<cats, dir, run, exact, touched, spoiled>>
vars == <<pvars, siteVars>>

\* The marker, files of somebody else in a directory of theirs, files that
\* somebody put into a marked directory, the pages that are always written
\* (homepage, categories, search, sitemap, imprint, assets), and two trees.
Items == {"marker", "foreign", "stray", "front", "details", "en"}

\* The category pages, details/, the search index and sitemap.xml; then the
\* details and the search index of the English tree.
GermanParts == {"linked", "details", "indexed", "listed"}
EnglishParts == {"enDetails", "enIndexed"}
Parts == GermanParts \cup EnglishParts

\* Where a part is stored.
Home(part) == CASE part = "details" -> "details"
                [] part \in EnglishParts -> "en"
                [] OTHER -> "front"

NoPages == [part \in Parts |-> {}]
NoRun == [kind |-> "none", pc |-> "idle", todo |-> {}, cats |-> {}, pages |-> NoPages,
          lone |-> FALSE]

SiteTypeOK ==
  /\ TypeOK
  /\ category \in [Sources -> Categories \cup {"none"}]
  /\ active \subseteq Categories
  /\ top \subseteq Items
  /\ site \in [Parts -> SUBSET Sources]
  /\ \A part \in Parts : site[part] # {} => Home(part) \in top
  /\ exact \in BOOLEAN /\ spoiled \in BOOLEAN
  /\ touched \subseteq Sources
  /\ \A g \in Runs : (run[g] = NoRun) = (run[g].pc = "idle")

\* The directory is new, somebody else's, or of an earlier run, with or
\* without files that somebody put there since.
SiteInit ==
  /\ category \in [Sources -> Categories \cup {"none"}]
  /\ active \in SUBSET Categories
  /\ top \in {{}, {"foreign"}, {"marker", "front", "details"},
              {"marker", "front", "details", "stray"}}
  /\ site = [part \in Parts |->
       IF part \in GermanParts /\ "details" \in top THEN Sources ELSE {}]
  /\ run = [g \in Runs |-> NoRun]
  /\ exact = FALSE
  /\ touched = {}
  /\ spoiled = FALSE

Published == {s \in Sources : profile[s].published}
Translated == {s \in Sources : english[s].there}

\* No ORDER BY: beyond the limit any of them may be missing.
PublishedPages ==
  IF Cardinality(Published) <= PageLimit THEN {Published}
  ELSE {p \in SUBSET Published : Cardinality(p) = PageLimit}

\* What each part takes of the profiles p: the page of a category that was
\* among cs is written, and a profile without a category is not indexed.  Either
\* way no error is counted.
\* mutant: an inactive category has a page too
MutEntries(part, p, cs) ==
  IF part \in {"linked", "indexed"} THEN {s \in p : category[s] # "none"} ELSE p
Entries(part, p, cs) ==
  CASE part = "linked"  -> {s \in p : category[s] \in cs}
    [] part = "indexed" -> {s \in p : category[s] # "none"}
    [] OTHER -> p

-----------------------------------------------------------------------------
Running(g) == run[g] # NoRun
Is(g, pc) == run[g].pc = pc
Proceed(g, pc) == run' = [run EXCEPT ![g].pc = pc]
Finish(g) == run' = [run EXCEPT ![g] = NoRun]

\* A run that starts disturbs those under way and is disturbed by them.
Start(g, r) ==
  /\ ~Running(g)
  /\ run' = [h \in Runs |->
       IF h = g THEN [r EXCEPT !.lone = \A x \in Runs : ~Running(x)]
       ELSE IF Running(h) THEN [run[h] EXCEPT !.lone = FALSE] ELSE NoRun]
  /\ exact' = FALSE
  /\ touched' = {}
  /\ spoiled' = \/ spoiled
                \/ \E x \in Runs : Running(x)
                \/ r.kind = "english" /\ "marker" \notin top

\* mutant: any directory may be cleared
MutMayClear == TRUE
\* _prepare_output_dir(): not empty and without the marker is refused.
MayClear == top = {} \/ "marker" \in top

\* mutant: the English tree is kept
MutToClear == top \ {"en"}
ToClear == top

StartFull(g) ==
  /\ Begin("generate_site")
  /\ IF MayClear
     THEN Start(g, [NoRun EXCEPT !.kind = "full", !.pc = "clear", !.todo = ToClear])
     ELSE UNCHANGED <<run, exact, touched, spoiled>>
  /\ UNCHANGED <<queue, tables, task, ghosts, cats, dir>>

\* Item by item, in the order the directory lists them, the marker too.
ClearItem(g, i) ==
  /\ Is(g, "clear")
  /\ i \in run[g].todo /\ i \in top
  /\ top' = top \ {i}
  /\ site' = [part \in Parts |-> IF Home(part) = i THEN {} ELSE site[part]]
  /\ run' = [run EXCEPT ![g].todo = @ \ {i}]
  /\ UNCHANGED <<exact, touched, spoiled, cats, pvars>>

\* Another run removed it first: the error ends this run.
ClearFails(g) ==
  /\ Is(g, "clear")
  /\ run[g].todo \ top # {}
  /\ Finish(g)
  /\ UNCHANGED <<dir, exact, touched, spoiled, cats, pvars>>

\* mutant: the marker is left out
MutMark(g) ==
  /\ Is(g, "clear")
  /\ run[g].todo = {}
  /\ top' = top \cup {"front", "details"}
  /\ Proceed(g, "load")
  /\ UNCHANGED <<site, exact, touched, spoiled, cats, pvars>>

\* The marker, the subdirectories and the assets.
Mark(g) ==
  /\ Is(g, "clear")
  /\ run[g].todo = {}
  /\ top' = top \cup {"marker", "front", "details"}
  /\ Proceed(g, "load")
  /\ UNCHANGED <<site, exact, touched, spoiled, cats, pvars>>

\* The active categories are read first, then the profiles with theirs.
LoadCategories(g) ==
  /\ Is(g, "load")
  /\ run' = [run EXCEPT ![g].pc = "select", ![g].cats = active]
  /\ UNCHANGED <<dir, exact, touched, spoiled, cats, pvars>>

LoadPublished(g) ==
  /\ Is(g, "select")
  /\ \E p \in PublishedPages :
       run' = [run EXCEPT ![g].pc = "front", ![g].pages =
                 [part \in Parts |-> IF part \in GermanParts
                                     THEN Entries(part, p, run[g].cats) ELSE {}]]
  /\ UNCHANGED <<dir, exact, touched, spoiled, cats, pvars>>

\* A part is written anew with the profiles that were loaded for it, into a
\* directory that is created if it is missing.
Rewrite(g, part) ==
  /\ site' = [site EXCEPT ![part] = run[g].pages[part]]
  /\ top' = top \cup {Home(part)}

Rest == <<exact, touched, spoiled, cats, pvars>>

\* Homepage and the pages of the active categories.
WriteFront(g) ==
  /\ Is(g, "front")
  /\ Rewrite(g, "linked")
  /\ run' = [run EXCEPT ![g].pc = "details", ![g].todo = run[g].pages["details"]]
  /\ UNCHANGED Rest

\* mutant: the directory is not created when it is missing
MutWriteDetail(g, s) ==
  /\ Is(g, "details")
  /\ s \in run[g].todo
  /\ site' = [site EXCEPT !["details"] = @ \cup {s}]
  /\ run' = [run EXCEPT ![g].todo = @ \ {s}]
  /\ UNCHANGED <<top, Rest>>

WriteDetail(g, s) ==
  /\ Is(g, "details")
  /\ s \in run[g].todo
  /\ site' = [site EXCEPT !["details"] = @ \cup {s}]
  /\ top' = top \cup {"details"}
  /\ run' = [run EXCEPT ![g].todo = @ \ {s}]
  /\ UNCHANGED Rest

\* Search page and search index.
WriteIndex(g) ==
  /\ Is(g, "details")
  /\ run[g].todo = {}
  /\ Rewrite(g, "indexed")
  /\ Proceed(g, "sitemap")
  /\ UNCHANGED Rest

\* Sitemap and static pages.
WriteSitemap(g) ==
  /\ Is(g, "sitemap")
  /\ Rewrite(g, "listed")
  /\ Proceed(g, "english")
  /\ UNCHANGED Rest

-----------------------------------------------------------------------------
(***************************************************************************)
(* generate_english_site(): the last part of a full run, or a run of its   *)
(* own that neither asks for the marker nor writes one nor clears.  It     *)
(* replaces the assets, the search index with them, and stops there when   *)
(* nothing is translated.  A profile without a category is an error of the *)
(* whole English index.                                                    *)
(***************************************************************************)
StartEnglish(g) ==
  /\ Begin("generate_english_site")
  /\ Start(g, [NoRun EXCEPT !.kind = "english", !.pc = "english"])
  /\ UNCHANGED <<queue, tables, task, ghosts, cats, dir>>

\* mutant: every published profile counts as translated
MutEnglishPages == PublishedPages
EnglishPages == {p \cap Translated : p \in PublishedPages}

\* The session of a full run keeps what it has loaded of a profile before.
Indexable(g, s) == IF s \in run[g].pages["details"] THEN s \in run[g].pages["indexed"]
                                                    ELSE category[s] # "none"

LoadTranslated(g) ==
  /\ Is(g, "english")
  /\ top' = top \cup {"en"}
  /\ site' = [site EXCEPT !["enIndexed"] = {}]
  /\ \E p \in EnglishPages :
       run' = [run EXCEPT ![g].pc = "en", ![g].todo = p,
                          ![g].pages = [NoPages EXCEPT
                            !["enDetails"] = p,
                            !["enIndexed"] = {s \in p : Indexable(g, s)}]]
  /\ UNCHANGED Rest

WriteEnglish(g, s) ==
  /\ Is(g, "en")
  /\ s \in run[g].todo
  /\ site' = [site EXCEPT !["enDetails"] = @ \cup {s}]
  /\ top' = top \cup {"en"}
  /\ run' = [run EXCEPT ![g].todo = @ \ {s}]
  /\ UNCHANGED Rest

AllIndexable(g) == run[g].pages["enIndexed"] = run[g].pages["enDetails"]

EndRun(g) ==
  /\ Is(g, "en")
  /\ run[g].todo = {}
  /\ IF run[g].pages["enDetails"] # {} /\ AllIndexable(g)
     THEN Rewrite(g, "enIndexed") ELSE UNCHANGED dir
  /\ exact' = (run[g].kind = "full" /\ run[g].lone /\ AllIndexable(g))
  /\ Finish(g)
  /\ UNCHANGED <<touched, spoiled, cats, pvars>>

\* The error of one part is counted, and the others are written all the same;
\* the sitemap lists a page that could not be written.
PartFails(g) ==
  /\ Fault
  /\ \/ Is(g, "front")
        /\ run' = [run EXCEPT ![g].pc = "details", ![g].todo = run[g].pages["details"],
                              ![g].lone = FALSE]
     \/ Is(g, "details") /\ run[g].todo = {}
        /\ run' = [run EXCEPT ![g].pc = "sitemap", ![g].lone = FALSE]
     \/ Is(g, "sitemap")
        /\ run' = [run EXCEPT ![g].pc = "english", ![g].lone = FALSE]
     \/ Is(g, "en") /\ run[g].todo = {} /\ Finish(g)
  /\ UNCHANGED <<queue, tables, task, ghosts, cats, dir, exact, touched, spoiled>>

\* So is that of one page; an entry of the search index that raises is left
\* out and not counted.
PageFails(g, s) ==
  /\ Fault
  /\ \/ /\ Is(g, "details") \/ Is(g, "en")
        /\ s \in run[g].todo
        /\ run' = [run EXCEPT ![g].todo = @ \ {s}, ![g].lone = FALSE]
     \/ /\ Is(g, "details")
        /\ s \in run[g].pages["indexed"]
        /\ run' = [run EXCEPT ![g].pages["indexed"] = @ \ {s}, ![g].lone = FALSE]
  /\ UNCHANGED <<queue, tables, task, ghosts, cats, dir, exact, touched, spoiled>>

\* The process stops; nothing is taken back.
RunCrash(g) ==
  /\ Running(g)
  /\ Fault
  /\ Finish(g)
  /\ spoiled' = (spoiled \/ Is(g, "clear"))
  /\ UNCHANGED <<queue, tables, task, ghosts, cats, dir, exact, touched>>

SiteStep(g) ==
  \/ StartFull(g) \/ StartEnglish(g)
  \/ \E i \in Items : ClearItem(g, i)
  \/ ClearFails(g) \/ Mark(g)
  \/ LoadCategories(g) \/ LoadPublished(g) \/ WriteFront(g)
  \/ \E s \in Sources : WriteDetail(g, s) \/ PageFails(g, s) \/ WriteEnglish(g, s)
  \/ WriteIndex(g) \/ WriteSitemap(g) \/ LoadTranslated(g) \/ EndRun(g)
  \/ PartFails(g) \/ RunCrash(g)

-----------------------------------------------------------------------------
(***************************************************************************)
(* Meanwhile: publication, and the categories.  A category that is deleted *)
(* is like one that is inactive and empty, a new one like one switched on. *)
(***************************************************************************)
Placing(s) == <<profile[s].published, category[s], category[s] \in active>>
Touch == touched' = touched \cup {s \in Sources : Placing(s)' # Placing(s)}

\* change_source_category() moves the source it extracts anew.
Publication ==
  /\ \/ PNext /\ category' = category
     \/ \E s \in Sources, c \in Categories :
          ReExtract(s) /\ category' = [category EXCEPT ![s] = c]
  /\ active' = active
  /\ Touch
  /\ UNCHANGED <<dir, run, exact, spoiled>>

\* update_source(), also with NULL; change_source_category() without extraction.
UpdateSource(s, c) ==
  /\ Begin("update_source")
  /\ category' = [category EXCEPT ![s] = c]
  /\ active' = active

UpdateCategory(c) ==
  /\ Begin("update_category")
  /\ category' = category
  /\ active' \in {active \cup {c}, active \ {c}}

\* delete_category(): one with sources is switched off, or with force its
\* sources lose it.
DeleteCategory(c, force) ==
  /\ Begin("delete_category")
  /\ category' = [s \in Sources |-> IF force /\ category[s] = c THEN "none" ELSE category[s]]
  /\ active' = active \ {c}

Categorise ==
  /\ UNCHANGED <<queue, tables, task, ghosts, dir, run, exact, spoiled>>
  /\ \E c \in Categories :
       \/ \E s \in Sources : UpdateSource(s, c) \/ UpdateSource(s, "none")
       \/ UpdateCategory(c)
       \/ \E force \in BOOLEAN : DeleteCategory(c, force)
  /\ Touch

Init == PInit /\ SiteInit
Next == Publication \/ Categorise \/ \E g \in Runs : SiteStep(g)
Spec == Init /\ [][Next]_vars

-----------------------------------------------------------------------------
(***************************************************************************)
(* Properties                                                              *)
(***************************************************************************)
\* The files of a directory that carries no marker are never deleted, whatever
\* runs came before.  Files somebody put into a marked directory are not
\* meant: the code deletes them (_prepare_output_dir()).
ForeignKept == [][/\ "foreign" \in top
                  /\ "marker" \notin top
                  => "foreign" \in top']_vars

\* The next run may clear what the last one wrote, even when that was cut
\* off after it had written the marker (_prepare_output_dir()).
OwnOutputClearable ==
  /\ ~spoiled
  /\ \A g \in Runs : ~Is(g, "clear")
  /\ "foreign" \notin top
  => top = {} \/ "marker" \in top

\* What a part of the German site has to show.
Owed(part) ==
  {s \in Published : /\ part = "linked" => category[s] \in active
                     /\ part = "indexed" => category[s] # "none"}

\* A full run that nothing disturbed, and in which nothing failed, counted or
\* not, leaves the site of what is published:
\* each public profile has its page and its place in the sitemap, and is on a
\* category page just when its category is active and in the search index just
\* when it has one; a profile that was unpublished all the time is nowhere, in
\* either language, one whose category was off all the time is on no category
\* page, and only what is translated is in the English tree
\* (generate_full_site(), generate_english_site()).
FullRunIsExact ==
  exact =>
    /\ \A part \in GermanParts : site[part] \ touched \subseteq Owed(part)
    /\ \A part \in EnglishParts : site[part] \ touched \subseteq Published \cap Translated
    /\ touched = {} /\ Cardinality(Published) <= PageLimit =>
         \A part \in GermanParts : site[part] = Owed(part)
=============================================================================
