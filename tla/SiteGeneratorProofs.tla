------------------------- MODULE SiteGeneratorProofs -------------------------
(***************************************************************************)
(* Proofs about the static site, for any profiles, any number of runs at   *)
(* the same time and any limit on the pages: files of others are kept,     *)
(* what a run wrote may be cleared by the next, and a full run that        *)
(* nothing disturbed leaves exactly what is published.                     *)
(***************************************************************************)
EXTENDS SiteGenerator, PublishingProofs

Pcs == {"idle", "clear", "load", "select", "front", "details", "sitemap", "english", "en"}
Contents == [Parts -> SUBSET Sources]
Generations ==
  [kind : {"none", "full", "english"}, pc : Pcs, todo : SUBSET (Items \cup Sources),
   cats : SUBSET Categories, pages : Contents, lone : BOOLEAN]

\* Only a full run clears and writes the German parts; what a run has still
\* to write is of the pages it loaded.
RunOK(r) ==
  /\ r \in Generations
  /\ r.pc = "idle" <=> r = NoRun
  /\ r.pc \in Pcs \ {"idle", "english", "en"} => r.kind = "full"
  /\ r.pc = "details" => r.todo \subseteq r.pages["details"]
  /\ r.pc = "en" => r.todo \subseteq r.pages["enDetails"]

RunsInv == run = [g \in Runs |-> run[g]] /\ \A g \in Runs : RunOK(run[g])

DirInv ==
  /\ category \in [Sources -> Categories \cup {"none"}]
  /\ active \subseteq Categories
  /\ top \subseteq Items
  /\ site \in Contents
  /\ \A part \in Parts : site[part] # {} => Home(part) \in top
  /\ exact \in BOOLEAN /\ spoiled \in BOOLEAN
  /\ touched \subseteq Sources

-----------------------------------------------------------------------------
(***************************************************************************)
(* How a step moves the runs                                               *)
(***************************************************************************)
LEMMA NoPagesFacts == NoPages \in Contents
BY DEF NoPages, Contents

LEMMA NoRunFacts ==
  /\ NoRun \in Generations /\ RunOK(NoRun) /\ NoRun.pc = "idle"
  /\ NoRun.kind = "none" /\ NoRun.lone = FALSE
BY NoPagesFacts DEF NoRun, Generations, RunOK, Pcs

\* What a run starts with.
IsFresh(r, kind, todo) ==
  /\ r \in Generations
  /\ r.kind = kind /\ r.pc = IF kind = "full" THEN "clear" ELSE "english"
  /\ r.todo = todo

LEMMA FreshFull ==
  ASSUME NEW d \in SUBSET Items
  PROVE  IsFresh([NoRun EXCEPT !.kind = "full", !.pc = "clear", !.todo = d], "full", d)
<1> DEFINE r == [NoRun EXCEPT !.kind = "full", !.pc = "clear", !.todo = d]
<1>1. NoRun \in Generations
  BY NoRunFacts
<1>2. r \in Generations
  BY <1>1 DEF Generations, Pcs
<1>3. r.kind = "full" /\ r.pc = "clear" /\ r.todo = d
  BY <1>1 DEF Generations
<1>4. QED BY <1>2, <1>3 DEF IsFresh

LEMMA FreshEnglish ==
  IsFresh([NoRun EXCEPT !.kind = "english", !.pc = "english"], "english", {})
<1> DEFINE r == [NoRun EXCEPT !.kind = "english", !.pc = "english"]
<1>1. NoRun \in Generations /\ NoRun.todo = {}
  BY NoRunFacts DEF NoRun
<1>2. r \in Generations
  BY <1>1 DEF Generations, Pcs
<1>3. r.kind = "english" /\ r.pc = "english" /\ r.todo = {}
  BY <1>1 DEF Generations
<1>4. QED BY <1>2, <1>3 DEF IsFresh

\* What the others keep of themselves when a run starts.
Disturbed(r) == IF r # NoRun THEN [r EXCEPT !.lone = FALSE] ELSE NoRun

LEMMA DisturbedRun ==
  ASSUME NEW r, RunOK(r)
  PROVE  /\ RunOK(Disturbed(r)) /\ Disturbed(r).lone = FALSE
         /\ Disturbed(r).kind = r.kind /\ Disturbed(r).pc = r.pc
         /\ Disturbed(r).todo = r.todo /\ Disturbed(r).pages = r.pages
         /\ Disturbed(r) = NoRun <=> r = NoRun
<1>1. CASE r = NoRun
  BY <1>1, NoRunFacts DEF Disturbed
<1>2. CASE r # NoRun
  <2> DEFINE k == [r EXCEPT !.lone = FALSE]
  <2>1. /\ k \in Generations /\ k.lone = FALSE /\ k.kind = r.kind /\ k.pc = r.pc
        /\ k.todo = r.todo /\ k.pages = r.pages
    BY DEF RunOK, Generations
  <2>2. k.pc # "idle"
    BY <1>2, <2>1 DEF RunOK
  <2>3. k # NoRun
    BY <2>2, NoRunFacts
  <2>4. RunOK(k)
    BY <2>1, <2>2, <2>3 DEF RunOK
  <2>5. QED BY <1>2, <2>1, <2>3, <2>4 DEF Disturbed
<1>3. QED BY <1>1, <1>2

LEMMA Starts ==
  ASSUME RunsInv, NEW g \in Runs, NEW kind \in {"full", "english"},
         NEW todo \in SUBSET Items, NEW r, IsFresh(r, kind, todo), Start(g, r)
  PROVE  /\ RunsInv'
         /\ run[g] = NoRun
         /\ IsFresh(run'[g], kind, todo)
         /\ run'[g].lone = \A h \in Runs : run[h] = NoRun
         /\ \A h \in Runs \ {g} : run'[h] = Disturbed(run[h])
<1> DEFINE alone == \A x \in Runs : ~Running(x)
           new == [r EXCEPT !.lone = alone]
<1>1. alone \in BOOLEAN /\ alone = (\A h \in Runs : run[h] = NoRun)
  BY DEF Running
<1>2. run' = [h \in Runs |-> IF h = g THEN new ELSE Disturbed(run[h])]
  BY DEF Start, Running, Disturbed
<1>3. run[g] = NoRun
  BY DEF Start, Running
<1>4. new \in Generations /\ new.lone = alone /\ IsFresh(new, kind, todo)
  <2>1. new \in Generations /\ new.lone = alone
    BY <1>1 DEF IsFresh, Generations
  <2>2. new.kind = r.kind /\ new.pc = r.pc /\ new.todo = r.todo
    BY DEF IsFresh, Generations
  <2>3. QED BY <2>1, <2>2 DEF IsFresh
<1> HIDE DEF new, alone
<1>5. RunOK(new)
  <2>1. new.pc # "idle" /\ new # NoRun
    BY <1>4, NoRunFacts DEF IsFresh
  <2>2. QED BY <1>4, <2>1 DEF RunOK, IsFresh
<1>6. \A h \in Runs : RunOK(run'[h])
  BY <1>2, <1>5, DisturbedRun DEF RunsInv
<1>7. QED BY <1>1, <1>2, <1>3, <1>4, <1>6 DEF RunsInv

\* A run goes on as another record of the same kind.
Becomes(g, pc, todo, pages, lone) ==
  /\ run' = [run EXCEPT ![g] = run'[g]]
  /\ run'[g] \in Generations
  /\ run'[g].kind = run[g].kind /\ run'[g].pc = pc /\ run'[g].todo = todo
  /\ run'[g].pages = pages /\ run'[g].lone = lone

LEMMA RunGoesOn ==
  ASSUME RunsInv, NEW g \in Runs, NEW pc \in Pcs \ {"idle"}, NEW todo, NEW pages, NEW lone,
         run[g].pc # "idle", Becomes(g, pc, todo, pages, lone),
         pc \notin {"english", "en"} => run[g].kind = "full",
         pc = "details" => todo \subseteq pages["details"],
         pc = "en" => todo \subseteq pages["enDetails"]
  PROVE  /\ RunsInv' /\ \A h \in Runs \ {g} : run'[h] = run[h]
         /\ run'[g].kind = run[g].kind /\ run'[g].pc = pc /\ run'[g].lone = lone
<1>1. run = [h \in Runs |-> run[h]] /\ \A h \in Runs : RunOK(run[h])
  BY DEF RunsInv
<1>2. run' = [h \in Runs |-> IF h = g THEN run'[g] ELSE run[h]]
  BY <1>1 DEF Becomes
<1>3. run'[g] # NoRun
  BY NoRunFacts DEF Becomes
<1>4. RunOK(run'[g])
  BY <1>3 DEF RunOK, Becomes
<1>5. QED BY <1>1, <1>2, <1>4 DEF RunsInv, Becomes

LEMMA RunEnds ==
  ASSUME RunsInv, NEW g \in Runs, Finish(g)
  PROVE  RunsInv' /\ run'[g] = NoRun /\ \A h \in Runs \ {g} : run'[h] = run[h]
BY NoRunFacts DEF RunsInv, Finish

LEMMA LoadedPages ==
  ASSUME NEW p \in PublishedPages
  PROVE  /\ p \subseteq Published /\ p \in SUBSET Sources
         /\ Cardinality(Published) <= PageLimit => p = Published
BY DEF PublishedPages, Published

\* What a run has loaded, part by part.
Loaded(p, cs) ==
  [part \in Parts |-> IF part \in GermanParts THEN Entries(part, p, cs) ELSE {}]
Translations(g, p) ==
  [NoPages EXCEPT !["enDetails"] = p, !["enIndexed"] = {s \in p : Indexable(g, s)}]

LEMMA LoadedParts ==
  ASSUME NEW p \in SUBSET Sources, NEW cs, NEW g
  PROVE  /\ Loaded(p, cs) \in Contents /\ Translations(g, p) \in Contents
         /\ Loaded(p, cs)["details"] = p
         /\ Translations(g, p)["enDetails"] = p
         /\ Translations(g, p)["enIndexed"] \subseteq p
<1>1. \A part \in GermanParts : Entries(part, p, cs) \in SUBSET Sources
  BY DEF Entries
<1>2. Loaded(p, cs) \in Contents
  BY <1>1 DEF Loaded, Contents
<1>3. Loaded(p, cs)["details"] = p
  BY DEF Loaded, Entries, Parts, GermanParts
<1>4. /\ Translations(g, p) \in Contents /\ Translations(g, p)["enDetails"] = p
      /\ Translations(g, p)["enIndexed"] \subseteq p
  BY NoPagesFacts DEF Translations, Contents, Parts, EnglishParts
<1>5. QED BY <1>2, <1>3, <1>4

\* Where each step takes the run it belongs to.
LEMMA ClearingMoves ==
  ASSUME RunsInv, NEW g \in Runs
  PROVE  /\ \A i \in Items : ClearItem(g, i) =>
              Becomes(g, "clear", run[g].todo \ {i}, run[g].pages, run[g].lone)
         /\ Mark(g) => Becomes(g, "load", {}, run[g].pages, run[g].lone)
<1>1. run[g] \in Generations /\ run = [h \in Runs |-> run[h]]
  BY DEF RunsInv, RunOK
<1>2. ASSUME NEW i \in Items, ClearItem(g, i)
      PROVE  Becomes(g, "clear", run[g].todo \ {i}, run[g].pages, run[g].lone)
  BY <1>1, <1>2 DEF ClearItem, Becomes, Generations, Is
<1>3. ASSUME Mark(g) PROVE Becomes(g, "load", {}, run[g].pages, run[g].lone)
  BY <1>1, <1>3 DEF Mark, Becomes, Proceed, Generations, Is, Pcs
<1>4. QED BY <1>2, <1>3

LEMMA LoadMoves ==
  ASSUME RunsInv, DirInv, NEW g \in Runs
  PROVE  /\ LoadCategories(g) =>
              /\ Becomes(g, "select", run[g].todo, run[g].pages, run[g].lone)
              /\ run'[g].cats = active
         /\ LoadPublished(g) => \E p \in PublishedPages :
              Becomes(g, "front", run[g].todo, Loaded(p, run[g].cats), run[g].lone)
         /\ LoadTranslated(g) => \E p \in EnglishPages :
              Becomes(g, "en", p, Translations(g, p), run[g].lone)
<1>1. run[g] \in Generations /\ run = [h \in Runs |-> run[h]] /\ active \subseteq Categories
  BY DEF RunsInv, RunOK, DirInv
<1>2. ASSUME LoadCategories(g)
      PROVE  /\ Becomes(g, "select", run[g].todo, run[g].pages, run[g].lone)
             /\ run'[g].cats = active
  BY <1>1, <1>2 DEF LoadCategories, Becomes, Generations, Pcs
<1>3. ASSUME LoadPublished(g)
      PROVE  \E p \in PublishedPages :
               Becomes(g, "front", run[g].todo, Loaded(p, run[g].cats), run[g].lone)
  <2>1. PICK p \in PublishedPages :
          run' = [run EXCEPT ![g].pc = "front", ![g].pages = Loaded(p, run[g].cats)]
    BY <1>3 DEF LoadPublished, Loaded
  <2>2. Loaded(p, run[g].cats) \in Contents
    BY LoadedPages, LoadedParts
  <2>3. Becomes(g, "front", run[g].todo, Loaded(p, run[g].cats), run[g].lone)
    BY <1>1, <2>1, <2>2 DEF Becomes, Generations, Pcs
  <2>4. QED BY <2>3
<1>4. ASSUME LoadTranslated(g)
      PROVE  \E p \in EnglishPages : Becomes(g, "en", p, Translations(g, p), run[g].lone)
  <2>1. PICK p \in EnglishPages :
          run' = [run EXCEPT ![g].pc = "en", ![g].todo = p, ![g].pages = Translations(g, p)]
    BY <1>4 DEF LoadTranslated, Translations
  <2>2. p \in SUBSET Sources
    BY LoadedPages DEF EnglishPages
  <2>3. Translations(g, p) \in Contents
    BY <2>2, LoadedParts
  <2>4. Becomes(g, "en", p, Translations(g, p), run[g].lone)
    BY <1>1, <2>1, <2>2, <2>3 DEF Becomes, Generations, Pcs
  <2>5. QED BY <2>4
<1>5. QED BY <1>2, <1>3, <1>4

LEMMA WriteMoves ==
  ASSUME RunsInv, NEW g \in Runs
  PROVE  /\ WriteFront(g) =>
              Becomes(g, "details", run[g].pages["details"], run[g].pages, run[g].lone)
         /\ \A s \in Sources : WriteDetail(g, s) \/ WriteEnglish(g, s) =>
              Becomes(g, run[g].pc, run[g].todo \ {s}, run[g].pages, run[g].lone)
         /\ WriteIndex(g) => Becomes(g, "sitemap", run[g].todo, run[g].pages, run[g].lone)
         /\ WriteSitemap(g) => Becomes(g, "english", run[g].todo, run[g].pages, run[g].lone)
<1>1. run[g] \in Generations /\ run = [h \in Runs |-> run[h]]
  BY DEF RunsInv, RunOK
<1>2. ASSUME WriteFront(g)
      PROVE  Becomes(g, "details", run[g].pages["details"], run[g].pages, run[g].lone)
  BY <1>1, <1>2 DEF WriteFront, Becomes, Generations, Contents, Parts, GermanParts, Pcs
<1>3. ASSUME NEW s \in Sources, WriteDetail(g, s) \/ WriteEnglish(g, s)
      PROVE  Becomes(g, run[g].pc, run[g].todo \ {s}, run[g].pages, run[g].lone)
  BY <1>1, <1>3 DEF WriteDetail, WriteEnglish, Becomes, Generations
<1>4. ASSUME WriteIndex(g)
      PROVE  Becomes(g, "sitemap", run[g].todo, run[g].pages, run[g].lone)
  BY <1>1, <1>4 DEF WriteIndex, Proceed, Becomes, Generations, Pcs
<1>5. ASSUME WriteSitemap(g)
      PROVE  Becomes(g, "english", run[g].todo, run[g].pages, run[g].lone)
  BY <1>1, <1>5 DEF WriteSitemap, Proceed, Becomes, Generations, Pcs
<1>6. QED BY <1>2, <1>3, <1>4, <1>5

\* An entry of the index is left out.
Without(g, s) == [run[g].pages EXCEPT !["indexed"] = @ \ {s}]

LEMMA FailMoves ==
  ASSUME RunsInv, NEW g \in Runs
  PROVE  /\ PartFails(g) =>
              \/ /\ Is(g, "front")
                 /\ Becomes(g, "details", run[g].pages["details"], run[g].pages, FALSE)
              \/ /\ Is(g, "details") /\ run[g].todo = {}
                 /\ Becomes(g, "sitemap", run[g].todo, run[g].pages, FALSE)
              \/ Is(g, "sitemap") /\ Becomes(g, "english", run[g].todo, run[g].pages, FALSE)
              \/ Is(g, "en") /\ Finish(g)
         /\ \A s \in Sources : PageFails(g, s) =>
              \/ Becomes(g, run[g].pc, run[g].todo \ {s}, run[g].pages, FALSE)
              \/ /\ Is(g, "details")
                 /\ Becomes(g, "details", run[g].todo, Without(g, s), FALSE)
<1>1. run[g] \in Generations /\ run = [h \in Runs |-> run[h]]
  BY DEF RunsInv, RunOK
<1>2. ASSUME Is(g, "front"),
             run' = [run EXCEPT ![g].pc = "details", ![g].todo = run[g].pages["details"],
                                ![g].lone = FALSE]
      PROVE  Becomes(g, "details", run[g].pages["details"], run[g].pages, FALSE)
  BY <1>1, <1>2 DEF Becomes, Generations, Contents, Parts, GermanParts, Pcs
<1>3. ASSUME run' = [run EXCEPT ![g].pc = "sitemap", ![g].lone = FALSE]
      PROVE  Becomes(g, "sitemap", run[g].todo, run[g].pages, FALSE)
  BY <1>1, <1>3 DEF Becomes, Generations, Pcs
<1>4. ASSUME run' = [run EXCEPT ![g].pc = "english", ![g].lone = FALSE]
      PROVE  Becomes(g, "english", run[g].todo, run[g].pages, FALSE)
  BY <1>1, <1>4 DEF Becomes, Generations, Pcs
<1>5. ASSUME NEW s \in Sources,
             run' = [run EXCEPT ![g].todo = @ \ {s}, ![g].lone = FALSE]
      PROVE  Becomes(g, run[g].pc, run[g].todo \ {s}, run[g].pages, FALSE)
  BY <1>1, <1>5 DEF Becomes, Generations
<1>6. ASSUME NEW s \in Sources, Is(g, "details"),
             run' = [run EXCEPT ![g].pages["indexed"] = @ \ {s}, ![g].lone = FALSE]
      PROVE  Becomes(g, "details", run[g].todo, Without(g, s), FALSE)
  <2>1. Without(g, s) \in Contents
    BY <1>1 DEF Without, Generations, Contents
  <2>2. run' = [run EXCEPT ![g] = [run[g] EXCEPT !.pages = Without(g, s), !.lone = FALSE]]
    BY <1>1, <1>6 DEF Without
  <2> DEFINE r == [run[g] EXCEPT !.pages = Without(g, s), !.lone = FALSE]
  <2>3. /\ r \in Generations /\ r.kind = run[g].kind /\ r.pc = run[g].pc
        /\ r.todo = run[g].todo /\ r.pages = Without(g, s) /\ r.lone = FALSE
    BY <1>1, <2>1 DEF Generations
  <2>4. run' = [run EXCEPT ![g] = r] /\ run'[g] = r
    BY <1>1, <2>2
  <2> HIDE DEF r
  <2>5. QED BY <1>6, <2>3, <2>4 DEF Becomes, Is
<1>7. ASSUME NEW s \in Sources, PageFails(g, s)
      PROVE  \/ Becomes(g, run[g].pc, run[g].todo \ {s}, run[g].pages, FALSE)
             \/ /\ Is(g, "details")
                /\ Becomes(g, "details", run[g].todo, Without(g, s), FALSE)
  BY <1>5, <1>6, <1>7 DEF PageFails
<1>8. QED BY <1>2, <1>3, <1>4, <1>7 DEF PartFails

LEMMA FullStarts ==
  ASSUME RunsInv, DirInv, NEW g \in Runs, StartFull(g), MayClear
  PROVE  /\ RunsInv'
         /\ run[g] = NoRun
         /\ IsFresh(run'[g], "full", top)
         /\ run'[g].lone = \A h \in Runs : run[h] = NoRun
         /\ \A h \in Runs \ {g} : run'[h] = Disturbed(run[h])
BY FreshFull, Starts DEF StartFull, ToClear, DirInv

LEMMA EnglishStarts ==
  ASSUME RunsInv, NEW g \in Runs, StartEnglish(g)
  PROVE  /\ RunsInv'
         /\ run[g] = NoRun
         /\ IsFresh(run'[g], "english", {})
         /\ run'[g].lone = \A h \in Runs : run[h] = NoRun
         /\ \A h \in Runs \ {g} : run'[h] = Disturbed(run[h])
BY FreshEnglish, Starts DEF StartEnglish

Starting(g) == (StartFull(g) /\ MayClear) \/ StartEnglish(g)

\* Only a run that starts touches another one.
LEMMA RunsMove ==
  ASSUME RunsInv, DirInv, NEW g \in Runs, SiteStep(g)
  PROVE  /\ RunsInv'
         /\ \/ Starting(g)
            \/ /\ \A h \in Runs \ {g} : run'[h] = run[h]
               /\ run'[g].lone => run[g].lone
               /\ run'[g].kind \in {run[g].kind, "none"}
               /\ run'[g].pc = "clear" => run[g].pc = "clear"
<1>1. run[g] \in Generations /\ RunOK(run[g]) /\ run = [h \in Runs |-> run[h]]
  BY DEF RunsInv, RunOK
<1> DEFINE Done == /\ RunsInv' /\ \A h \in Runs \ {g} : run'[h] = run[h]
                   /\ run'[g].lone => run[g].lone
                   /\ run'[g].kind \in {run[g].kind, "none"}
                   /\ run'[g].pc = "clear" => run[g].pc = "clear"
           Goes(pc) == /\ RunsInv' /\ \A h \in Runs \ {g} : run'[h] = run[h]
                       /\ run'[g].kind = run[g].kind /\ run'[g].pc = pc
                       /\ run'[g].lone = run[g].lone
<1>2. ASSUME Starting(g) PROVE RunsInv'
  BY <1>2, FullStarts, EnglishStarts DEF Starting
<1>3. ASSUME StartFull(g), ~MayClear PROVE Done
  BY <1>1, <1>3 DEF StartFull, RunsInv
<1>4. ASSUME NEW i \in Items, ClearItem(g, i) PROVE Done
  <2>1. Becomes(g, "clear", run[g].todo \ {i}, run[g].pages, run[g].lone)
    BY <1>4, ClearingMoves
  <2>2. run[g].pc = "clear" /\ run[g].kind = "full"
    BY <1>1, <1>4 DEF ClearItem, Is, RunOK, Pcs
  <2>3. Goes("clear")
    BY <2>1, <2>2, RunGoesOn DEF Pcs
  <2>4. QED BY <2>2, <2>3
<1>5. ASSUME Finish(g) PROVE Done
  BY <1>5, RunEnds, NoRunFacts
<1>6. ASSUME Mark(g) PROVE Done
  <2>1. Becomes(g, "load", {}, run[g].pages, run[g].lone)
    BY <1>6, ClearingMoves
  <2>2. run[g].pc = "clear" /\ run[g].kind = "full"
    BY <1>1, <1>6 DEF Mark, Is, RunOK, Pcs
  <2>3. Goes("load")
    BY <2>1, <2>2, RunGoesOn DEF Pcs
  <2>4. QED BY <2>2, <2>3
<1>7. ASSUME LoadCategories(g) \/ LoadPublished(g) PROVE Done
  <2>1. run[g].pc \in {"load", "select"} /\ run[g].kind = "full"
    BY <1>1, <1>7 DEF LoadCategories, LoadPublished, Is, RunOK, Pcs
  <2>2. CASE LoadCategories(g)
    <3>1. Becomes(g, "select", run[g].todo, run[g].pages, run[g].lone)
      BY <2>2, LoadMoves
    <3>2. Goes("select")
      BY <2>1, <3>1, RunGoesOn DEF Pcs
    <3>3. QED BY <3>2
  <2>3. CASE LoadPublished(g)
    <3>1. PICK p \in PublishedPages :
            Becomes(g, "front", run[g].todo, Loaded(p, run[g].cats), run[g].lone)
      BY <2>3, LoadMoves
    <3>2. Goes("front")
      BY <2>1, <3>1, RunGoesOn DEF Pcs
    <3>3. QED BY <3>2
  <2>4. QED BY <1>7, <2>2, <2>3
<1>8. ASSUME WriteFront(g) PROVE Done
  <2>1. Becomes(g, "details", run[g].pages["details"], run[g].pages, run[g].lone)
    BY <1>8, WriteMoves
  <2>2. run[g].pc = "front" /\ run[g].kind = "full"
    BY <1>1, <1>8 DEF WriteFront, Is, RunOK, Pcs
  <2>3. Goes("details")
    BY <2>1, <2>2, RunGoesOn DEF Pcs
  <2>4. QED BY <2>2, <2>3
<1>9. ASSUME NEW s \in Sources, NEW lone \in BOOLEAN, lone => run[g].lone,
             run[g].pc \in {"details", "en"},
             Becomes(g, run[g].pc, run[g].todo \ {s}, run[g].pages, lone)
      PROVE  Done
  <2>1. /\ run[g].pc = "details" =>
             run[g].kind = "full" /\ run[g].todo \subseteq run[g].pages["details"]
        /\ run[g].pc = "en" => run[g].todo \subseteq run[g].pages["enDetails"]
    BY <1>1, <1>9 DEF RunOK, Pcs
  <2> DEFINE pc == run[g].pc
             todo == run[g].todo \ {s}
             pages == run[g].pages
  <2>2. /\ pc \in Pcs \ {"idle"} /\ run[g].pc # "idle" /\ pc # "clear"
        /\ pc \notin {"english", "en"} => run[g].kind = "full"
        /\ pc = "details" => todo \subseteq pages["details"]
        /\ pc = "en" => todo \subseteq pages["enDetails"]
    BY <1>9, <2>1 DEF Pcs
  <2>3. Becomes(g, pc, todo, pages, lone)
    BY <1>9
  <2>4. run'[g].pc # "clear" /\ run'[g].kind = run[g].kind /\ run'[g].lone = lone
    BY <2>2, <2>3 DEF Becomes
  <2> HIDE DEF pc, todo, pages
  <2>5. RunsInv' /\ \A h \in Runs \ {g} : run'[h] = run[h]
    BY <2>2, <2>3, RunGoesOn
  <2>6. QED BY <1>9, <2>4, <2>5
<1>10. ASSUME NEW s \in Sources, WriteDetail(g, s) \/ WriteEnglish(g, s) PROVE Done
  <2>1. Becomes(g, run[g].pc, run[g].todo \ {s}, run[g].pages, run[g].lone)
    BY <1>10, WriteMoves
  <2>2. run[g].pc \in {"details", "en"}
    BY <1>10 DEF WriteDetail, WriteEnglish, Is
  <2>3. run[g].lone \in BOOLEAN
    BY <1>1 DEF Generations
  <2>4. QED BY <1>9, <2>1, <2>2, <2>3
<1>11. ASSUME NEW s \in Sources, PageFails(g, s) PROVE Done
  <2>1. run[g].pc \in {"details", "en"}
    BY <1>11 DEF PageFails, Is
  <2>2. CASE Becomes(g, run[g].pc, run[g].todo \ {s}, run[g].pages, FALSE)
    <3>1. \A lone \in BOOLEAN :
            (lone => run[g].lone) /\ Becomes(g, run[g].pc, run[g].todo \ {s}, run[g].pages, lone)
            => Done
      BY <1>9, <2>1
    <3>2. QED BY <2>2, <3>1
  <2>3. CASE /\ Is(g, "details")
             /\ Becomes(g, "details", run[g].todo, Without(g, s), FALSE)
    <3>1. run[g].kind = "full" /\ run[g].todo \subseteq run[g].pages["details"]
      BY <1>1, <2>3 DEF Is, RunOK, Pcs
    <3>2. run[g].todo \subseteq Without(g, s)["details"]
      BY <1>1, <3>1 DEF Without, Generations, Contents, Parts, GermanParts
    <3>3. RunsInv' /\ \A h \in Runs \ {g} : run'[h] = run[h]
      BY <2>1, <2>3, <3>1, <3>2, RunGoesOn DEF Is, Pcs
    <3>4. QED BY <2>3, <3>3 DEF Becomes
  <2>4. QED BY <1>11, <2>2, <2>3, FailMoves
<1>12. ASSUME WriteIndex(g) PROVE Done
  <2>1. Becomes(g, "sitemap", run[g].todo, run[g].pages, run[g].lone)
    BY <1>12, WriteMoves
  <2>2. run[g].pc = "details" /\ run[g].kind = "full"
    BY <1>1, <1>12 DEF WriteIndex, Is, RunOK, Pcs
  <2>3. Goes("sitemap")
    BY <2>1, <2>2, RunGoesOn DEF Pcs
  <2>4. QED BY <2>3
<1>13. ASSUME WriteSitemap(g) PROVE Done
  <2>1. Becomes(g, "english", run[g].todo, run[g].pages, run[g].lone)
    BY <1>13, WriteMoves
  <2>2. run[g].pc = "sitemap"
    BY <1>13 DEF WriteSitemap, Is
  <2>3. Goes("english")
    BY <2>1, <2>2, RunGoesOn DEF Pcs
  <2>4. QED BY <2>3
<1>14. ASSUME LoadTranslated(g) PROVE Done
  <2>1. PICK p \in EnglishPages : Becomes(g, "en", p, Translations(g, p), run[g].lone)
    BY <1>14, LoadMoves
  <2>2. run[g].pc = "english"
    BY <1>14 DEF LoadTranslated, Is
  <2>3. p \in SUBSET Sources
    BY LoadedPages DEF EnglishPages
  <2>4. Translations(g, p)["enDetails"] = p
    BY <2>3, LoadedParts
  <2>5. QED BY <2>1, <2>2, <2>4, RunGoesOn DEF Pcs
<1>15. ASSUME PartFails(g) PROVE Done
  <2>1. run[g].pc \in {"front", "details", "sitemap"} => run[g].kind = "full"
    BY <1>1 DEF RunOK, Pcs
  <2>2. CASE Is(g, "front") /\ Becomes(g, "details", run[g].pages["details"], run[g].pages, FALSE)
    BY <2>1, <2>2, RunGoesOn DEF Pcs, Is
  <2>3. CASE Is(g, "details") /\ Becomes(g, "sitemap", run[g].todo, run[g].pages, FALSE)
    BY <2>1, <2>3, RunGoesOn DEF Pcs, Is
  <2>4. CASE Is(g, "sitemap") /\ Becomes(g, "english", run[g].todo, run[g].pages, FALSE)
    BY <2>1, <2>4, RunGoesOn DEF Pcs, Is
  <2>5. QED BY <1>5, <1>15, <2>2, <2>3, <2>4, FailMoves
<1>16. ASSUME ClearFails(g) \/ EndRun(g) \/ RunCrash(g) PROVE Done
  BY <1>5, <1>16 DEF ClearFails, EndRun, RunCrash
<1> HIDE DEF Done
<1>17. Starting(g) \/ Done
  BY <1>3, <1>4, <1>6, <1>7, <1>8, <1>10, <1>11, <1>12, <1>13, <1>14, <1>15, <1>16
     DEF SiteStep, Starting
<1>18. QED BY <1>2, <1>17 DEF Done

-----------------------------------------------------------------------------
(***************************************************************************)
(* Types, and what is on disk is where it belongs                          *)
(***************************************************************************)
LEMMA SiteInits == SiteInit => RunsInv /\ DirInv
<1> SUFFICES ASSUME SiteInit PROVE RunsInv /\ DirInv
  OBVIOUS
<1>1. RunsInv
  BY NoRunFacts DEF SiteInit, RunsInv
<1>2. DirInv
  BY DEF SiteInit, DirInv, Contents, Items, Parts, GermanParts, EnglishParts, Home
<1>3. QED BY <1>1, <1>2

\* A part that is written is where it belongs.
LEMMA Rewritten ==
  ASSUME RunsInv, DirInv, NEW g \in Runs, NEW part \in Parts, Rewrite(g, part),
         UNCHANGED <<exact, spoiled, touched, cats>>
  PROVE  DirInv'
<1>1. run[g].pages[part] \in SUBSET Sources
  BY DEF RunsInv, RunOK, Generations, Contents
<1>2. Home(part) \in Items
  BY DEF Home, Items, EnglishParts, GermanParts, Parts
<1>3. site' \in Contents /\ top' \subseteq Items
  BY <1>1, <1>2 DEF DirInv, Rewrite, Contents
<1>4. \A p \in Parts : site'[p] # {} => Home(p) \in top'
  BY DEF DirInv, Rewrite, Contents
<1>5. QED BY <1>3, <1>4 DEF DirInv, cats

LEMMA DirStep ==
  ASSUME RunsInv, DirInv, NEW g \in Runs, SiteStep(g)
  PROVE  DirInv'
<1> USE DEF Items, Rest, Contents, cats
<1>1. CASE Starting(g) \/ StartFull(g) \/ PartFails(g) \/ \E s \in Sources : PageFails(g, s)
  BY <1>1 DEF Starting, StartFull, StartEnglish, Start, PartFails, PageFails, DirInv, dir
<1>2. CASE ClearFails(g) \/ LoadCategories(g) \/ LoadPublished(g) \/ RunCrash(g)
  BY <1>2 DEF ClearFails, LoadCategories, LoadPublished, RunCrash, DirInv, dir
<1>3. ASSUME NEW i \in Items, ClearItem(g, i) PROVE DirInv'
  BY <1>3 DEF ClearItem, DirInv
<1>4. CASE Mark(g)
  BY <1>4 DEF Mark, DirInv
<1>5. CASE WriteFront(g) \/ WriteIndex(g) \/ WriteSitemap(g)
  BY <1>5, Rewritten DEF WriteFront, WriteIndex, WriteSitemap, Parts, GermanParts
<1>6. ASSUME NEW s \in Sources, WriteDetail(g, s) \/ WriteEnglish(g, s) PROVE DirInv'
  BY <1>6 DEF WriteDetail, WriteEnglish, DirInv, Home, Parts, GermanParts, EnglishParts
<1>7. CASE LoadTranslated(g)
  BY <1>7 DEF LoadTranslated, DirInv
<1>8. CASE EndRun(g)
  <2>1. exact' \in BOOLEAN /\ UNCHANGED <<touched, spoiled, cats>>
    <3>1. run[g].lone \in BOOLEAN
      BY DEF RunsInv, RunOK, Generations
    <3>2. QED BY <1>8, <3>1 DEF EndRun
  <2>2. CASE UNCHANGED dir
    BY <2>1, <2>2 DEF DirInv, dir
  <2>3. CASE Rewrite(g, "enIndexed")
    <3>1. "enIndexed" \in Parts /\ Home("enIndexed") = "en"
      BY DEF Parts, EnglishParts, Home
    <3>2. run[g].pages["enIndexed"] \in SUBSET Sources
      BY <3>1 DEF RunsInv, RunOK, Generations
    <3>3. site' \in Contents /\ top' \subseteq Items
      BY <2>3, <3>1, <3>2 DEF DirInv, Rewrite
    <3>4. \A p \in Parts : site'[p] # {} => Home(p) \in top'
      BY <2>3, <3>1 DEF DirInv, Rewrite
    <3>5. QED BY <2>1, <3>3, <3>4 DEF DirInv
  <2>4. QED BY <1>8, <2>2, <2>3 DEF EndRun
<1>9. QED BY <1>1, <1>2, <1>3, <1>4, <1>5, <1>6, <1>7, <1>8 DEF SiteStep, Starting

-----------------------------------------------------------------------------
(***************************************************************************)
(* Files of somebody else                                                  *)
(***************************************************************************)
\* Nobody marks a directory that holds files of others: only a full run does,
\* and none starts there.
ForeignInv ==
  "foreign" \in top => "marker" \notin top /\ \A g \in Runs : run[g].kind # "full"

LEMMA TopMoves ==
  ASSUME RunsInv, NEW g \in Runs, SiteStep(g)
  PROVE  /\ "foreign" \in top' => "foreign" \in top
         /\ "foreign" \in top \ top' => run[g].pc = "clear"
         /\ "marker" \in top' \ top => run[g].pc = "clear"
         /\ "marker" \in top \ top' => run[g].pc = "clear"
<1> USE DEF Rest, Items, Is
<1>1. CASE \/ Starting(g) \/ StartFull(g) \/ StartEnglish(g) \/ PartFails(g)
           \/ \E s \in Sources : PageFails(g, s)
  BY <1>1 DEF Starting, StartFull, StartEnglish, PartFails, PageFails, dir
<1>2. CASE ClearFails(g) \/ LoadCategories(g) \/ LoadPublished(g) \/ RunCrash(g)
  BY <1>2 DEF ClearFails, LoadCategories, LoadPublished, RunCrash, dir
<1>3. CASE Mark(g) \/ \E i \in Items : ClearItem(g, i)
  BY <1>3 DEF Mark, ClearItem
<1>4. \A part \in Parts : Home(part) \in {"front", "details", "en"}
  BY DEF Home, EnglishParts, GermanParts, Parts
<1>5. CASE WriteFront(g) \/ WriteIndex(g) \/ WriteSitemap(g) \/ EndRun(g)
  BY <1>4, <1>5 DEF WriteFront, WriteIndex, WriteSitemap, EndRun, Rewrite, Parts, GermanParts,
     EnglishParts, dir
<1>6. CASE LoadTranslated(g) \/ \E s \in Sources : WriteDetail(g, s) \/ WriteEnglish(g, s)
  BY <1>6 DEF LoadTranslated, WriteDetail, WriteEnglish
<1>7. QED BY <1>1, <1>2, <1>3, <1>5, <1>6 DEF SiteStep

LEMMA ForeignStep ==
  ASSUME RunsInv, DirInv, ForeignInv, NEW g \in Runs, SiteStep(g)
  PROVE  ForeignInv' /\ ("foreign" \in top => "foreign" \in top')
<1>1. RunOK(run[g])
  BY DEF RunsInv
<1>2. run[g].pc = "clear" => run[g].kind = "full"
  BY <1>1 DEF RunOK, Pcs
<1>3. "foreign" \in top => "foreign" \in top'
  BY <1>2, TopMoves DEF ForeignInv
<1>4. ASSUME "foreign" \in top' PROVE ~MayClear /\ "marker" \notin top'
  BY <1>2, <1>4, TopMoves DEF ForeignInv, MayClear
<1>5. ASSUME "foreign" \in top', NEW h \in Runs PROVE run'[h].kind # "full"
  <2>1. run[h].kind # "full" /\ run[g].kind # "full"
    BY <1>5, TopMoves DEF ForeignInv
  <2>2. CASE StartEnglish(g)
    <3>1. run'[g].kind = "english"
      BY <2>2, EnglishStarts DEF IsFresh
    <3>2. h # g => run'[h] = Disturbed(run[h]) /\ RunOK(run[h])
      BY <2>2, EnglishStarts DEF RunsInv
    <3>3. QED BY <2>1, <3>1, <3>2, DisturbedRun
  <2>3. QED BY <1>4, <1>5, <2>1, <2>2, RunsMove DEF Starting
<1>6. QED BY <1>3, <1>4, <1>5 DEF ForeignInv

-----------------------------------------------------------------------------
(***************************************************************************)
(* What a run wrote may be cleared by the next                             *)
(***************************************************************************)
\* Until something is spoiled there is one run at a time; what it has still to
\* clear is all there is, and what it writes is written beside the marker.
ClearInv ==
  ~spoiled =>
    /\ \A g, h \in Runs : Running(g) /\ Running(h) => g = h
    /\ \A g \in Runs :
         /\ Is(g, "clear") => run[g].todo = top
         /\ Running(g) /\ ~Is(g, "clear") => "marker" \in top
    /\ \/ top \subseteq {"foreign"} \/ "marker" \in top
       \/ \E g \in Runs : Is(g, "clear")

LEMMA SpoiledStays ==
  ASSUME NEW g \in Runs, SiteStep(g), spoiled
  PROVE  spoiled'
BY DEF SiteStep, StartFull, StartEnglish, Start, ClearItem, ClearFails, Mark, LoadCategories,
   LoadPublished,
   WriteFront, WriteDetail, WriteIndex, WriteSitemap, LoadTranslated, WriteEnglish, EndRun,
   PartFails, PageFails, RunCrash, Rest

LEMMA ClearingStep ==
  ASSUME RunsInv, DirInv, ClearInv, NEW g \in Runs,
         SiteStep(g), ~Starting(g), run[g].pc = "clear", ~spoiled'
  PROVE  \/ Is(g, "clear")' /\ run'[g].todo = top'
         \/ ~Is(g, "clear")' /\ "marker" \in top'
<1>1. ~spoiled /\ run[g].todo = top /\ run[g] # NoRun /\ top \subseteq Items
  BY SpoiledStays, NoRunFacts DEF ClearInv, Is, DirInv
<1>2. CASE \E i \in Items : ClearItem(g, i)
  <2>1. PICK i \in Items : ClearItem(g, i)
    BY <1>2
  <2>2. run'[g].pc = "clear" /\ run'[g].todo = run[g].todo \ {i}
    BY <2>1, ClearingMoves DEF Becomes
  <2>3. QED BY <1>1, <2>1, <2>2 DEF ClearItem, Is
<1>3. CASE Mark(g)
  <2>1. run'[g].pc = "load"
    BY <1>3, ClearingMoves DEF Becomes
  <2>2. QED BY <1>3, <2>1 DEF Mark, Is
<1>4. ~ClearFails(g)
  BY <1>1 DEF ClearFails
<1>5. CASE RunCrash(g)
  BY <1>5 DEF RunCrash, Is
<1>6. CASE StartFull(g) /\ ~MayClear
  BY <1>1, <1>6 DEF StartFull, dir, Is
<1>7. QED BY <1>2, <1>3, <1>4, <1>5, <1>6 DEF SiteStep, Starting, LoadCategories,
         LoadPublished, WriteFront,
         WriteDetail, WriteIndex, WriteSitemap, LoadTranslated, WriteEnglish, EndRun, PartFails,
         PageFails, Is
LEMMA ClearStep ==
  ASSUME RunsInv, DirInv, ClearInv, NEW g \in Runs, SiteStep(g)
  PROVE  ClearInv'
<1> SUFFICES ASSUME ~spoiled' PROVE ClearInv'
  BY DEF ClearInv
<1>1. ~spoiled /\ \A h \in Runs : RunOK(run[h]) /\ (run[h] = NoRun <=> run[h].pc = "idle")
  BY SpoiledStays DEF RunsInv, RunOK
<1>2. RunsInv' /\ \A h \in Runs : (run'[h] = NoRun <=> run'[h].pc = "idle")
  BY RunsMove DEF RunsInv, RunOK
<1>3. CASE Starting(g)
  <2>1. \A h \in Runs : run[h] = NoRun
    BY <1>1, <1>3 DEF Starting, StartFull, StartEnglish, Start, Running
  <2>2. \A h \in Runs \ {g} : run'[h] = NoRun
    BY <1>3, <2>1, FullStarts, EnglishStarts DEF Starting, Disturbed
  <2>3. UNCHANGED top
    BY <1>3 DEF Starting, StartFull, StartEnglish, dir
  <2>4. CASE StartFull(g) /\ MayClear
    <3>1. run'[g].pc = "clear" /\ run'[g].todo = top
      BY <2>4, FullStarts DEF IsFresh
    <3>2. QED BY <2>2, <2>3, <3>1, NoRunFacts DEF ClearInv, Is, Running
  <2>5. CASE StartEnglish(g)
    <3>1. run'[g].pc = "english"
      BY <2>5, EnglishStarts DEF IsFresh
    <3>2. "marker" \in top
      BY <1>1, <2>5, NoRunFacts DEF StartEnglish, Start, NoRun
    <3>3. QED BY <2>2, <2>3, <3>1, <3>2, NoRunFacts DEF ClearInv, Is, Running
  <2>6. QED BY <1>3, <2>4, <2>5 DEF Starting
<1>4. CASE ~Starting(g) /\ run[g].pc = "idle"
  <2>1. StartFull(g) /\ ~MayClear
    BY <1>4 DEF SiteStep, Starting, ClearItem, ClearFails, Mark, LoadCategories,
       LoadPublished, WriteFront,
       WriteDetail, WriteIndex, WriteSitemap, LoadTranslated, WriteEnglish, EndRun, PartFails,
       PageFails, RunCrash, Is, Running, RunOK, RunsInv
  <2>2. UNCHANGED <<top, run, spoiled>>
    BY <2>1 DEF StartFull, dir
  <2>3. QED BY <2>2 DEF ClearInv, Is, Running
<1>5. CASE ~Starting(g) /\ run[g].pc # "idle"
  <2>1. \A h \in Runs \ {g} : run[h] = NoRun /\ run'[h] = NoRun
    BY <1>1, <1>5, RunsMove DEF ClearInv, Running
  <2>2. CASE run[g].pc = "clear"
    BY <1>1, <1>2, <1>5, <2>1, <2>2, ClearingStep, NoRunFacts DEF ClearInv, Is, Running
  <2>3. CASE run[g].pc # "clear"
    <3>1. "marker" \in top /\ "marker" \in top' /\ run'[g].pc # "clear"
      BY <1>1, <1>5, <2>3, RunsMove, TopMoves DEF ClearInv, Running, Is
    <3>2. QED BY <2>1, <3>1, NoRunFacts DEF ClearInv, Is, Running
  <2>4. QED BY <2>2, <2>3
<1>6. QED BY <1>3, <1>4, <1>5

-----------------------------------------------------------------------------
(***************************************************************************)
(* What an undisturbed full run leaves                                     *)
(***************************************************************************)
\* What a part shows of the sources that were left alone is what it owes.
Exactly(part, P) ==
  /\ P \ touched \subseteq Owed(part)
  /\ touched = {} /\ Cardinality(Published) <= PageLimit => P = Owed(part)

OnlyTranslated(P) == P \ touched \subseteq Published \cap Translated

Blank(parts) == \A part \in parts : site[part] = {}
Ready(pages) == \A part \in GermanParts : Exactly(part, pages[part])
Written(parts, pages) == \A part \in parts : site[part] = pages[part]

\* The categories that were read are right about every source left alone.
CatsHold(cs) == \A s \in Sources \ touched : category[s] \in cs <=> category[s] \in active

\* What a full run has made of the site, phase by phase.
Progress(r) ==
  /\ r.pc = "clear" => r.todo = top
  /\ r.pc \in {"load", "select", "front"} => Blank(Parts)
  /\ r.pc = "select" => CatsHold(r.cats)
  /\ r.pc \in {"front", "details", "sitemap"} => Ready(r.pages)
  /\ r.pc = "details" =>
       Written({"linked"}, r.pages) /\ site["details"] = r.pages["details"] \ r.todo
  /\ r.pc = "sitemap" => Written({"linked", "details", "indexed"}, r.pages)
  /\ r.pc \in {"details", "sitemap", "english"} => Blank(EnglishParts)
  /\ r.pc \in {"english", "en"} => Ready(site)
  /\ r.pc = "en" =>
       /\ OnlyTranslated(r.pages["enDetails"]) /\ OnlyTranslated(r.pages["enIndexed"])
       /\ OnlyTranslated(site["enDetails"])
       /\ site["enIndexed"] = {}

ExactInv ==
  /\ \A g, h \in Runs : run[g].lone /\ Running(h) => g = h
  /\ \A g \in Runs : run[g].lone /\ run[g].kind = "full" => Progress(run[g])
  /\ exact =>
       /\ \A g \in Runs : ~Running(g)
       /\ Ready(site)
       /\ \A part \in EnglishParts : OnlyTranslated(site[part])

\* What the site is measured by.
Measure == <<profile, english, category, active, touched>>

LEMMA SameMeasure ==
  ASSUME UNCHANGED Measure
  PROVE  /\ \A part, P : Exactly(part, P)' <=> Exactly(part, P)
         /\ \A pages : Ready(pages)' <=> Ready(pages)
         /\ \A P : OnlyTranslated(P)' <=> OnlyTranslated(P)
         /\ \A cs : CatsHold(cs)' <=> CatsHold(cs)
<1>1. UNCHANGED <<touched, Published, Translated, category, active>>
  BY DEF Measure, Published, Translated
<1>2. \A part : Owed(part)' = Owed(part)
  BY <1>1 DEF Owed
<1>3. \A part, P : Exactly(part, P)' <=> Exactly(part, P)
  BY <1>1, <1>2 DEF Exactly
<1>4. QED BY <1>1, <1>3 DEF Ready, OnlyTranslated, CatsHold

\* A run changes none of that.
LEMMA StepMeasure ==
  ASSUME NEW g \in Runs, SiteStep(g), ~(StartFull(g) /\ MayClear), ~StartEnglish(g)
  PROVE  UNCHANGED Measure
BY DEF SiteStep, StartFull, ClearItem, ClearFails, Mark, LoadCategories,
   LoadPublished,
   WriteFront, WriteDetail, WriteIndex, WriteSitemap, LoadTranslated, WriteEnglish, EndRun,
   PartFails, PageFails, RunCrash, Rest, Measure, pvars, tables, cats

LEMMA ClearProgress ==
  ASSUME RunsInv, DirInv, NEW g \in Runs, Progress(run[g]),
         Mark(g) \/ \E i \in Items : ClearItem(g, i)
  PROVE  Progress(run[g])'
<1>1. run[g].pc = "clear" /\ run[g].todo = top
  BY DEF Progress, Mark, ClearItem, Is
<1>2. CASE Mark(g)
  <2>1. run'[g].pc = "load"
    BY <1>2, ClearingMoves DEF Becomes
  <2>2. top = {} /\ UNCHANGED site
    BY <1>1, <1>2 DEF Mark
  <2>3. Blank(Parts)'
    BY <2>2 DEF Blank, DirInv
  <2>4. QED BY <2>1, <2>3 DEF Progress
<1>3. ASSUME NEW i \in Items, ClearItem(g, i) PROVE Progress(run[g])'
  <2>1. run'[g].pc = "clear" /\ run'[g].todo = run[g].todo \ {i}
    BY <1>3, ClearingMoves DEF Becomes
  <2>2. top' = top \ {i}
    BY <1>3 DEF ClearItem
  <2>3. QED BY <1>1, <2>1, <2>2 DEF Progress
<1>4. QED BY <1>2, <1>3

\* What is loaded with the right categories is what the parts owe.
LEMMA LoadedReady ==
  ASSUME NEW p \in PublishedPages, NEW cs \in SUBSET Categories, CatsHold(cs), DirInv
  PROVE  Ready(Loaded(p, cs))
<1>1. /\ p \subseteq Published /\ p \subseteq Sources /\ Published \subseteq Sources
      /\ Cardinality(Published) <= PageLimit => p = Published
  BY LoadedPages DEF Published
<1>2. SUFFICES ASSUME NEW part \in GermanParts PROVE Exactly(part, Entries(part, p, cs))
  <2>1. \A part \in GermanParts : Loaded(p, cs)[part] = Entries(part, p, cs)
    BY DEF Loaded, Parts
  <2>2. QED BY <1>2, <2>1 DEF Ready
<1>3. CASE part = "linked"
  BY <1>1, <1>3 DEF Exactly, Entries, Owed, CatsHold
<1>4. CASE part = "indexed"
  BY <1>1, <1>4 DEF Exactly, Entries, Owed
<1>5. CASE part \in {"details", "listed"}
  BY <1>1, <1>5 DEF Exactly, Entries, Owed
<1>6. QED BY <1>3, <1>4, <1>5 DEF GermanParts

LEMMA LoadProgress ==
  ASSUME RunsInv, DirInv, NEW g \in Runs, Progress(run[g]), run[g].kind = "full", SiteStep(g),
         LoadCategories(g) \/ LoadPublished(g) \/ LoadTranslated(g)
  PROVE  Progress(run[g])'
<1>1. UNCHANGED Measure
  BY DEF LoadCategories, LoadPublished, LoadTranslated, Rest, Measure, pvars, tables, cats
<1>2. ASSUME LoadCategories(g) PROVE Progress(run[g])'
  <2>1. run'[g].pc = "select" /\ run'[g].cats = active
    BY <1>2, LoadMoves DEF Becomes
  <2>2. run[g].pc = "load" /\ UNCHANGED site
    BY <1>2 DEF LoadCategories, Is, dir
  <2>3. CatsHold(active)
    BY DEF CatsHold
  <2>4. CatsHold(run[g].cats)'
    BY <1>1, <2>1 DEF CatsHold, Measure
  <2>5. QED BY <2>1, <2>2, <2>4 DEF Progress, Blank
<1>3. ASSUME LoadPublished(g) PROVE Progress(run[g])'
  <2>1. PICK p \in PublishedPages :
          Becomes(g, "front", run[g].todo, Loaded(p, run[g].cats), run[g].lone)
    BY <1>3, LoadMoves
  <2>2. run'[g].pc = "front" /\ run'[g].pages = Loaded(p, run[g].cats)
    BY <2>1 DEF Becomes
  <2>3. run[g].pc = "select" /\ UNCHANGED site
    BY <1>3 DEF LoadPublished, Is, dir
  <2>4. run[g].cats \in SUBSET Categories
    BY DEF RunsInv, RunOK, Generations
  <2>5. Ready(Loaded(p, run[g].cats))
    BY <2>3, <2>4, LoadedReady DEF Progress
  <2> DEFINE pages == Loaded(p, run[g].cats)
  <2> HIDE DEF pages
  <2>6. Ready(run[g].pages)'
    <3>1. \A x : Ready(x)' <=> Ready(x)
      BY <1>1, SameMeasure
    <3>2. \A part \in GermanParts : Exactly(part, pages[part]) /\ run'[g].pages = pages
      BY <2>2, <2>5 DEF Ready, pages
    <3>3. \A part \in GermanParts : \A P : Exactly(part, P)' <=> Exactly(part, P)
      BY <1>1, SameMeasure
    <3>4. QED BY <3>2, <3>3 DEF Ready
  <2>7. QED BY <2>2, <2>3, <2>6 DEF Progress, Blank
<1>4. ASSUME LoadTranslated(g) PROVE Progress(run[g])'
  <2>1. PICK p \in EnglishPages : Becomes(g, "en", p, Translations(g, p), run[g].lone)
    BY <1>4, LoadMoves
  <2>2. run'[g].pc = "en" /\ run'[g].pages = Translations(g, p)
    BY <2>1 DEF Becomes
  <2>3. run[g].pc = "english" /\ site' = [site EXCEPT !["enIndexed"] = {}]
    BY <1>4 DEF LoadTranslated, Is
  <2>4. site' = [part \in Parts |-> IF part = "enIndexed" THEN {} ELSE site[part]]
    BY <2>3 DEF DirInv, Contents
  <2>5. p \subseteq Published \cap Translated /\ p \in SUBSET Sources
    BY LoadedPages DEF EnglishPages
  <2>6. run'[g].pages["enDetails"] = p /\ run'[g].pages["enIndexed"] \subseteq p
    BY <2>2, <2>5, LoadedParts
  <2>7. site'["enDetails"] = {} /\ site'["enIndexed"] = {}
    BY <2>3, <2>4 DEF Progress, Blank, EnglishParts, Parts
  <2>8. \A part \in GermanParts : site'[part] = site[part]
    BY <2>4 DEF GermanParts, EnglishParts, Parts
  <2>9. Ready(site)'
    BY <1>1, <2>3, <2>8, SameMeasure DEF Progress, Ready
  <2>10. UNCHANGED <<touched, Published, Translated>>
    BY <1>1 DEF Measure, Published, Translated
  <2>11. QED BY <2>2, <2>5, <2>6, <2>7, <2>9, <2>10 DEF Progress, OnlyTranslated
<1>5. QED BY <1>2, <1>3, <1>4

LEMMA GermanProgress ==
  ASSUME RunsInv, DirInv, NEW g \in Runs, Progress(run[g]),
         \/ WriteFront(g) \/ WriteIndex(g) \/ WriteSitemap(g)
         \/ \E s \in Sources : WriteDetail(g, s)
  PROVE  Progress(run[g])'
<1>1. UNCHANGED Measure
  BY DEF WriteFront, WriteIndex, WriteSitemap, WriteDetail, Rest, Measure, pvars, tables, cats
<1>2. RunOK(run[g]) /\ site = [part \in Parts |-> site[part]]
  BY DEF RunsInv, DirInv, Contents
<1>3. ASSUME run'[g].pages = run[g].pages, Ready(run[g].pages) PROVE Ready(run[g].pages)'
  BY <1>1, <1>3, SameMeasure DEF Ready
<1> USE DEF GermanParts, EnglishParts, Parts
<1>4. ASSUME WriteFront(g) PROVE Progress(run[g])'
  <2>1. /\ run'[g].pc = "details" /\ run'[g].pages = run[g].pages
        /\ run'[g].todo = run[g].pages["details"]
    BY <1>4, WriteMoves DEF Becomes
  <2>2. run[g].pc = "front" /\ site' = [site EXCEPT !["linked"] = run[g].pages["linked"]]
    BY <1>4 DEF WriteFront, Is, Rewrite
  <2>3. /\ site'["linked"] = run[g].pages["linked"] /\ site'["details"] = {}
        /\ Blank(EnglishParts)'
    BY <1>2, <2>2 DEF Progress, Blank
  <2>4. Ready(run[g].pages)'
    BY <1>3, <2>1, <2>2 DEF Progress
  <2>5. QED BY <2>1, <2>3, <2>4 DEF Progress, Written
<1>5. ASSUME NEW s \in Sources, WriteDetail(g, s) PROVE Progress(run[g])'
  <2>1. /\ run'[g].pc = run[g].pc /\ run'[g].pages = run[g].pages
        /\ run'[g].todo = run[g].todo \ {s}
    BY <1>5, WriteMoves DEF Becomes
  <2>2. /\ run[g].pc = "details" /\ s \in run[g].todo
        /\ run[g].todo \subseteq run[g].pages["details"]
        /\ site' = [site EXCEPT !["details"] = site["details"] \cup {s}]
    BY <1>2, <1>5 DEF WriteDetail, Is, RunOK
  <2>3. /\ site'["linked"] = run[g].pages["linked"]
        /\ site'["details"] = run[g].pages["details"] \ run'[g].todo
        /\ Blank(EnglishParts)'
    BY <1>2, <2>1, <2>2 DEF Progress, Blank, Written
  <2>4. Ready(run[g].pages)'
    BY <1>3, <2>1, <2>2 DEF Progress
  <2>5. QED BY <2>1, <2>2, <2>3, <2>4 DEF Progress, Written
<1>6. ASSUME WriteIndex(g) PROVE Progress(run[g])'
  <2>1. run'[g].pc = "sitemap" /\ run'[g].pages = run[g].pages
    BY <1>6, WriteMoves DEF Becomes
  <2>2. /\ run[g].pc = "details" /\ run[g].todo = {}
        /\ site' = [site EXCEPT !["indexed"] = run[g].pages["indexed"]]
    BY <1>6 DEF WriteIndex, Is, Rewrite
  <2>3. /\ \A part \in {"linked", "details", "indexed"} : site'[part] = run[g].pages[part]
        /\ Blank(EnglishParts)'
    BY <1>2, <2>2 DEF Progress, Blank, Written
  <2>4. Ready(run[g].pages)'
    BY <1>3, <2>1, <2>2 DEF Progress
  <2>5. QED BY <2>1, <2>3, <2>4 DEF Progress, Written
<1>7. ASSUME WriteSitemap(g) PROVE Progress(run[g])'
  <2>1. run'[g].pc = "english" /\ run'[g].pages = run[g].pages
    BY <1>7, WriteMoves DEF Becomes
  <2>2. run[g].pc = "sitemap" /\ site' = [site EXCEPT !["listed"] = run[g].pages["listed"]]
    BY <1>7 DEF WriteSitemap, Is, Rewrite
  <2>3. (\A part \in GermanParts : site'[part] = run[g].pages[part]) /\ Blank(EnglishParts)'
    BY <1>2, <2>2 DEF Progress, Blank, Written
  <2>4. Ready(run[g].pages)'
    BY <1>3, <2>1, <2>2 DEF Progress
  <2>5. Ready(site)'
    BY <2>1, <2>3, <2>4 DEF Ready
  <2>6. QED BY <2>1, <2>3, <2>5 DEF Progress
<1>8. QED BY <1>4, <1>5, <1>6, <1>7

LEMMA EnglishProgress ==
  ASSUME RunsInv, DirInv, NEW g \in Runs, Progress(run[g]),
         NEW s \in Sources, WriteEnglish(g, s)
  PROVE  Progress(run[g])'
<1>1. UNCHANGED Measure /\ UNCHANGED <<touched, Published, Translated>>
  BY DEF WriteEnglish, Rest, pvars, tables, cats, Measure, Published, Translated
<1>2. RunOK(run[g]) /\ site = [part \in Parts |-> site[part]]
  BY DEF RunsInv, DirInv, Contents
<1>3. run'[g].pc = "en" /\ run'[g].pages = run[g].pages /\ run[g].pc = "en"
  BY WriteMoves DEF Becomes, WriteEnglish, Is
<1>4. /\ s \in run[g].pages["enDetails"]
      /\ site' = [site EXCEPT !["enDetails"] = site["enDetails"] \cup {s}]
  BY <1>2, <1>3 DEF WriteEnglish, RunOK
<1>5. /\ OnlyTranslated(run[g].pages["enDetails"])' /\ OnlyTranslated(run[g].pages["enIndexed"])'
      /\ OnlyTranslated(site["enDetails"])'
  BY <1>1, <1>2, <1>3, <1>4 DEF Progress, OnlyTranslated, Parts, EnglishParts
<1>6. /\ \A part \in GermanParts : site'[part] = site[part]
      /\ site'["enIndexed"] = site["enIndexed"]
  BY <1>2, <1>4 DEF Parts, GermanParts, EnglishParts
<1>7. Ready(site)'
  BY <1>1, <1>3, <1>6, SameMeasure DEF Progress, Ready
<1>8. QED BY <1>3, <1>5, <1>6, <1>7 DEF Progress

\* A step that fails or ends a run makes no lone run of it.
LEMMA LoneProgress ==
  ASSUME RunsInv, DirInv, NEW g \in Runs, SiteStep(g), ~Starting(g), ~StartFull(g),
         run[g].lone /\ run[g].kind = "full" => Progress(run[g]),
         run'[g].lone, run'[g].kind = "full"
  PROVE  Progress(run[g])'
<1>1. /\ run[g].lone /\ run[g].kind = "full" /\ Progress(run[g])
      /\ run[g] # NoRun /\ run'[g] # NoRun
  BY NoRunFacts, RunsMove
<1>2. ~Finish(g)
  BY <1>1, RunEnds
<1>3. ~PartFails(g) /\ \A s \in Sources : ~PageFails(g, s)
  BY <1>2, FailMoves DEF Becomes
<1>4. QED BY <1>1, <1>2, <1>3, ClearProgress, LoadProgress, GermanProgress, EnglishProgress
         DEF SiteStep, Starting, ClearFails, EndRun, RunCrash

LEMMA EndsExact ==
  ASSUME RunsInv, DirInv, ExactInv, NEW g \in Runs, EndRun(g), exact'
  PROVE  /\ Ready(site)'
         /\ \A part \in EnglishParts : OnlyTranslated(site[part])'
         /\ run[g].lone
<1>1. run[g].kind = "full" /\ run[g].lone /\ run[g].pc = "en" /\ Progress(run[g])
  BY DEF EndRun, ExactInv, Is
<1>2. UNCHANGED Measure /\ UNCHANGED <<touched, Published, Translated>>
  BY DEF EndRun, pvars, tables, cats, Measure, Published, Translated
<1>3. site = [part \in Parts |-> site[part]]
  BY DEF DirInv, Contents
<1>4. /\ \A part \in Parts \ {"enIndexed"} : site'[part] = site[part]
      /\ site'["enIndexed"] \in {site["enIndexed"], run[g].pages["enIndexed"]}
  BY <1>1, <1>3 DEF EndRun, Rewrite, dir, Parts, EnglishParts
<1>5. \A part \in GermanParts : site'[part] = site[part]
  BY <1>4 DEF Parts, GermanParts
<1>6. Ready(site)'
  BY <1>1, <1>2, <1>5, SameMeasure DEF Progress, Ready
<1>7. /\ OnlyTranslated(site["enDetails"]) /\ OnlyTranslated(run[g].pages["enIndexed"])
      /\ OnlyTranslated(site["enIndexed"])
  BY <1>1 DEF Progress, OnlyTranslated
<1>8. \A part \in EnglishParts : OnlyTranslated(site[part])'
  BY <1>2, <1>4, <1>7 DEF OnlyTranslated, Parts, EnglishParts
<1>9. QED BY <1>1, <1>6, <1>8

LEMMA SameExact ==
  ASSUME ExactInv, UNCHANGED <<top, site, run, exact, Measure>>
  PROVE  ExactInv'
<1>1. UNCHANGED <<top, site, run, exact>> /\ UNCHANGED Measure
  OBVIOUS
<1>2. Ready(site)' <=> Ready(site)
  BY <1>1, SameMeasure DEF Ready
<1>3. \A part : OnlyTranslated(site[part])' <=> OnlyTranslated(site[part])
  BY <1>1, SameMeasure DEF OnlyTranslated, Measure, Published, Translated
<1>4. ASSUME NEW g \in Runs, Progress(run[g]) PROVE Progress(run[g])'
  <2>1. Ready(run[g].pages)' <=> Ready(run[g].pages)
    BY <1>1, SameMeasure DEF Ready
  <2>2. /\ OnlyTranslated(run[g].pages["enDetails"])' <=> OnlyTranslated(run[g].pages["enDetails"])
        /\ OnlyTranslated(run[g].pages["enIndexed"])' <=> OnlyTranslated(run[g].pages["enIndexed"])
    BY <1>1 DEF OnlyTranslated, Measure, Published, Translated
  <2>3. CatsHold(run[g].cats)' <=> CatsHold(run[g].cats)
    BY <1>1 DEF CatsHold, Measure
  <2>4. QED BY <1>1, <1>2, <1>3, <1>4, <2>1, <2>2, <2>3 DEF Progress, Blank, Written
<1>5. QED BY <1>1, <1>2, <1>3, <1>4 DEF ExactInv, Running

LEMMA ExactStep ==
  ASSUME RunsInv, DirInv, ExactInv, NEW g \in Runs, SiteStep(g)
  PROVE  ExactInv'
<1>1. /\ \A h \in Runs : RunOK(run[h])
      /\ RunsInv'
  BY RunsMove DEF RunsInv
<1>2. CASE Starting(g)
  <2>1. ASSUME NEW h \in Runs \ {g}
        PROVE  run'[h] = Disturbed(run[h]) /\ run'[h].lone = FALSE
    <3>1. run'[h] = Disturbed(run[h])
      BY <1>2, FullStarts, EnglishStarts DEF Starting
    <3>2. Disturbed(run[h]).lone = FALSE
      BY <1>1, DisturbedRun
    <3>3. QED BY <3>1, <3>2
  <2>2. run'[g].lone = \A h \in Runs : run[h] = NoRun
    BY <1>2, FullStarts, EnglishStarts DEF Starting
  <2>3. exact' = FALSE /\ top' = top
    BY <1>2 DEF Starting, StartFull, StartEnglish, Start, dir
  <2>4. ASSUME NEW h \in Runs, NEW k \in Runs, run'[h].lone, Running(k)' PROVE h = k
    <3>1. h = g /\ \A x \in Runs : run[x] = NoRun
      BY <2>1, <2>2, <2>4
    <3>2. QED BY <2>1, <2>4, <3>1 DEF Running, Disturbed
  <2>5. ASSUME NEW h \in Runs, run'[h].lone, run'[h].kind = "full" PROVE Progress(run[h])'
    <3>1. h = g
      BY <2>1, <2>5
    <3>2. run'[g].pc = "clear" /\ run'[g].todo = top
      BY <1>2, <2>5, <3>1, FullStarts, EnglishStarts DEF Starting, IsFresh
    <3>3. QED BY <2>3, <3>1, <3>2 DEF Progress
  <2>6. QED BY <2>3, <2>4, <2>5 DEF ExactInv
<1>3. CASE ~Starting(g) /\ StartFull(g)
  <2>1. UNCHANGED <<top, site, run, exact, Measure>>
    BY <1>3 DEF Starting, StartFull, tables, dir, cats, Measure
  <2>2. QED BY <2>1, SameExact
<1>4. CASE ~Starting(g) /\ ~StartFull(g)
  <2>1. Running(g)
    BY <1>1, <1>4, NoRunFacts DEF SiteStep, Starting, ClearItem, ClearFails, Mark, LoadCategories,
       LoadPublished,
       WriteFront, WriteDetail, WriteIndex, WriteSitemap, LoadTranslated, WriteEnglish, EndRun,
       PartFails, PageFails, RunCrash, Is, Running
  <2>2. \A h \in Runs \ {g} : run'[h] = run[h]
    BY <1>4, RunsMove
  <2>3. run'[g].lone => run[g].lone
    BY <1>4, RunsMove
  <2>4. ASSUME NEW h \in Runs, NEW k \in Runs, run'[h].lone, Running(k)' PROVE h = k
    <3>1. run[h].lone
      BY <2>2, <2>3, <2>4
    <3>2. Running(k)
      BY <2>1, <2>2, <2>4 DEF Running
    <3>3. QED BY <3>1, <3>2 DEF ExactInv
  <2>5. ASSUME NEW h \in Runs, run'[h].lone, run'[h].kind = "full" PROVE Progress(run[h])'
    <3>1. h = g
      BY <2>1, <2>2, <2>5 DEF ExactInv
    <3>2. QED BY <1>4, <2>5, <3>1, LoneProgress DEF ExactInv
  <2>6. ~exact
    BY <2>1 DEF ExactInv
  <2>7. ASSUME exact'
        PROVE  /\ \A h \in Runs : ~Running(h)'
               /\ Ready(site)' /\ \A part \in EnglishParts : OnlyTranslated(site[part])'
    <3>1. EndRun(g)
      BY <1>4, <2>6, <2>7 DEF SiteStep, Starting, ClearItem, ClearFails, Mark, LoadCategories,
         LoadPublished,
         WriteFront, WriteDetail, WriteIndex, WriteSitemap, LoadTranslated, WriteEnglish,
         PartFails, PageFails, RunCrash, Rest
    <3>2. /\ Ready(site)' /\ \A part \in EnglishParts : OnlyTranslated(site[part])'
          /\ run[g].lone
      BY <2>7, <3>1, EndsExact
    <3>3. run'[g] = NoRun /\ \A h \in Runs \ {g} : run[h] = NoRun
      BY <3>1, <3>2, RunEnds DEF EndRun, ExactInv, Running
    <3>4. QED BY <2>2, <3>2, <3>3 DEF Running
  <2>8. QED BY <2>4, <2>5, <2>7 DEF ExactInv
<1>5. QED BY <1>2, <1>3, <1>4

\* A translation stays as long as its profile is public.
LEMMA TranslationsStay ==
  ASSUME TypesInv, [PNext]_pvars, NEW s \in Sources, english[s].there,
         profile[s].published, profile'[s].published
  PROVE  english'[s].there
<1>1. profile = [r \in Sources |-> profile[r]] /\ english = [r \in Sources |-> english[r]]
  BY DEF TypesInv, PublicInv, IdsInv, EnglishInv
<1>2. NoProfile.published = FALSE
  BY DEF NoProfile
<1>3. ASSUME UNCHANGED english PROVE english'[s].there
  BY <1>3
<1>4. ASSUME NEW r \in Sources, ReExtract(r) \/ DeleteProfile(r) PROVE english'[s].there
  BY <1>1, <1>2, <1>4 DEF ReExtract, DeleteProfile
<1>5. ASSUME NEW t \in Tasks, CommitRegeneration(t) PROVE english'[s].there
  BY <1>2, <1>5 DEF CommitRegeneration
<1>6. ASSUME NEW t \in Tasks, EndEnglish(t) PROVE english'[s].there
  BY <1>6 DEF EndEnglish, EnglishOf
<1>7. CASE Request
  BY <1>3, <1>4, <1>7 DEF Request, WriteProfile, Publish, Unpublish, PublishAll,
     EditExtraction, TranslateSource, TranslatePending, QueueTranslations, tables
<1>8. ASSUME NEW t \in Tasks, StartTask(t) PROVE english'[s].there
  BY <1>3, <1>8 DEF StartTask, TakeJob, BeginRevalidate, Regenerate, GenerateAll,
     RegenerateAll, BeginEnglish, tables
<1>9. ASSUME NEW t \in Tasks, Step(t) PROVE english'[s].there
  BY <1>3, <1>5, <1>6, <1>9 DEF Step, Load, Find, Save, GenerateFails, GenerateNext,
     EndGenerateAll, QueueRegeneration, QueueRegenerationFails, TranslateRaises,
     TranslateNothing, EndRevalidate, Crash, tables
<1>10. CASE Store \/ UNCHANGED pvars
  BY <1>3, <1>10 DEF Store, StoreExtraction, pvars, tables
<1>11. QED BY <1>7, <1>8, <1>9, <1>10 DEF PNext

\* What happens to a source meanwhile shows in `touched'.
Meanwhile == Publication \/ Categorise

LEMMA MeanwhileTouches ==
  ASSUME TypesInv, Meanwhile
  PROVE  /\ touched \subseteq touched'
         /\ \A s \in Sources \ touched' : Placing(s)' = Placing(s)
         /\ \A s \in Sources \ touched' : english[s].there /\ profile[s].published
                                          => english'[s].there
         /\ UNCHANGED <<top, site, run, exact, spoiled>>
<1>1. Touch /\ UNCHANGED <<top, site, run, exact, spoiled>>
  BY DEF Meanwhile, Publication, Categorise, dir
<1>2. /\ touched \subseteq touched'
      /\ \A s \in Sources \ touched' : Placing(s)' = Placing(s)
  BY <1>1 DEF Touch
<1>3. \A s \in Sources \ touched' : profile'[s].published = profile[s].published
  BY <1>2 DEF Placing
<1>4. ASSUME [PNext]_pvars
      PROVE  \A s \in Sources \ touched' : english[s].there /\ profile[s].published
                                          => english'[s].there
  BY <1>3, <1>4, TranslationsStay
<1>5. CASE Categorise
  BY <1>1, <1>2, <1>5 DEF Categorise, tables
<1>6. CASE Publication
  <2>1. PNext
    BY <1>6 DEF Publication, PNext, Request
  <2>2. QED BY <1>1, <1>2, <1>4, <2>1
<1>7. QED BY <1>5, <1>6 DEF Meanwhile

LEMMA MeanwhileKeeps ==
  ASSUME TypesInv, Meanwhile
  PROVE  /\ \A part \in GermanParts : \A P : Exactly(part, P) => Exactly(part, P)'
         /\ \A P \in SUBSET Sources : OnlyTranslated(P) => OnlyTranslated(P)'
         /\ \A cs : CatsHold(cs) => CatsHold(cs)'
<1>1. /\ touched \subseteq touched'
      /\ \A s \in Sources \ touched' :
           /\ profile'[s].published = profile[s].published
           /\ category'[s] = category[s]
           /\ category'[s] \in active' <=> category[s] \in active
           /\ english[s].there /\ profile[s].published => english'[s].there
  BY MeanwhileTouches DEF Placing
<1>2. ASSUME NEW part, NEW s \in Sources \ touched' PROVE s \in Owed(part)' <=> s \in Owed(part)
  BY <1>1 DEF Owed, Published
<1>3. touched' = {} => touched = {} /\ Published' = Published
  BY <1>1 DEF Published
<1>4. \A part : Owed(part) \subseteq Sources /\ Owed(part)' \subseteq Sources
  BY DEF Owed, Published
<1>5. ASSUME NEW part \in GermanParts, NEW P, Exactly(part, P) PROVE Exactly(part, P)'
  <2>1. P \ touched' \subseteq Owed(part)'
    BY <1>1, <1>2, <1>4, <1>5 DEF Exactly
  <2>2. touched' = {} => Owed(part)' = Owed(part)
    BY <1>2, <1>4
  <2>3. QED BY <1>3, <1>5, <2>1, <2>2 DEF Exactly
<1>6. ASSUME NEW P \in SUBSET Sources, OnlyTranslated(P) PROVE OnlyTranslated(P)'
  BY <1>1, <1>6 DEF OnlyTranslated, Published, Translated
<1>7. ASSUME NEW cs, CatsHold(cs) PROVE CatsHold(cs)'
  BY <1>1, <1>7 DEF CatsHold
<1>8. QED BY <1>5, <1>6, <1>7

LEMMA ExactMeanwhile ==
  ASSUME TypesInv, RunsInv, DirInv, ExactInv, Meanwhile
  PROVE  ExactInv'
<1>1. UNCHANGED <<top, site, run, exact>>
  BY MeanwhileTouches
<1>2. \A part \in Parts : site[part] \in SUBSET Sources
  BY DEF DirInv, Contents
<1>3. Ready(site) => Ready(site)'
  BY <1>1, MeanwhileKeeps DEF Ready
<1>4. \A part \in Parts : OnlyTranslated(site[part]) => OnlyTranslated(site[part])'
  <2>1. ASSUME NEW part \in Parts PROVE OnlyTranslated(site[part]) => OnlyTranslated(site[part])'
    <3> DEFINE P == site[part]
    <3>1. P \in SUBSET Sources
      BY <1>2
    <3> HIDE DEF P
    <3>2. OnlyTranslated(P) => P \ touched' \subseteq Published' \cap Translated'
      BY <3>1, MeanwhileKeeps DEF OnlyTranslated
    <3>3. QED BY <1>1, <3>2 DEF OnlyTranslated, P
  <2>2. QED BY <2>1
<1>5. ASSUME NEW g \in Runs, Progress(run[g]) PROVE Progress(run[g])'
  <2>1. \A part \in EnglishParts : run[g].pages[part] \in SUBSET Sources
    BY DEF RunsInv, RunOK, Generations, Contents, Parts
  <2>2. Ready(run[g].pages) => Ready(run[g].pages)'
    BY <1>1, MeanwhileKeeps DEF Ready
  <2>3. CatsHold(run[g].cats) => CatsHold(run[g].cats)'
    BY <1>1, MeanwhileKeeps DEF CatsHold
  <2>4. \A part \in EnglishParts :
          OnlyTranslated(run[g].pages[part]) => OnlyTranslated(run[g].pages[part])'
    <3>1. ASSUME NEW part \in EnglishParts
          PROVE  OnlyTranslated(run[g].pages[part]) => OnlyTranslated(run[g].pages[part])'
      <4> DEFINE P == run[g].pages[part]
      <4>1. P \in SUBSET Sources
        BY <2>1
      <4> HIDE DEF P
      <4>2. OnlyTranslated(P) => P \ touched' \subseteq Published' \cap Translated'
        BY <4>1, MeanwhileKeeps DEF OnlyTranslated
      <4>3. QED BY <1>1, <4>2 DEF OnlyTranslated, P
    <3>2. QED BY <3>1
  <2>5. QED BY <1>1, <1>3, <1>4, <1>5, <2>2, <2>3, <2>4
           DEF Progress, Blank, Written, Parts, EnglishParts
<1>6. QED BY <1>1, <1>3, <1>4, <1>5 DEF ExactInv, Running, Parts

-----------------------------------------------------------------------------
(***************************************************************************)
(* Results                                                                 *)
(***************************************************************************)
SiteInv == TypesInv /\ RunsInv /\ DirInv /\ ForeignInv /\ ClearInv /\ ExactInv

LEMMA InitSite == Init => SiteInv
<1> SUFFICES ASSUME Init PROVE SiteInv
  OBVIOUS
<1>1. TypesInv /\ RunsInv /\ DirInv
  BY InitTypesInv, SiteInits DEF Init
<1>2. \A g \in Runs : run[g] = NoRun
  BY DEF Init, SiteInit
<1>3. ForeignInv /\ ClearInv /\ ExactInv
  BY <1>2, NoRunFacts DEF Init, SiteInit, ForeignInv, ClearInv, ExactInv, Running, Is
<1>4. QED BY <1>1, <1>3 DEF SiteInv

\* Requests that write nothing into the tables of Publishing.
LEMMA OtherRequest ==
  ASSUME TypesInv, UNCHANGED <<queue, tables, task, ghosts>>,
         Fault \/ \E op \in AdminOps : Begin(op)
  PROVE  TypesInv'
<1>1. CountersInv'
  BY PublishingAssumption DEF Begin, Fault, TypesInv, CountersInv
<1>2. QED BY <1>1, SameTypes

\* A run writes nothing into the database.
LEMMA SiteTypes ==
  ASSUME TypesInv, NEW g \in Runs, SiteStep(g)
  PROVE  TypesInv'
<1>1. CASE UNCHANGED pvars
  BY <1>1, NextTypes
<1>2. ASSUME UNCHANGED <<queue, tables, task, ghosts>>,
             Fault \/ \E op \in AdminOps : Begin(op)
      PROVE  TypesInv'
  BY <1>2, OtherRequest
<1>3. CASE StartFull(g) \/ StartEnglish(g)
  BY <1>2, <1>3 DEF StartFull, StartEnglish, Begin
<1>4. CASE PartFails(g) \/ RunCrash(g) \/ \E s \in Sources : PageFails(g, s)
  BY <1>2, <1>4 DEF PartFails, RunCrash, PageFails
<1>5. QED BY <1>1, <1>3, <1>4 DEF SiteStep, ClearItem, ClearFails, Mark, LoadCategories,
         LoadPublished, WriteFront,
         WriteDetail, WriteIndex, WriteSitemap, LoadTranslated, WriteEnglish, EndRun, Rest

LEMMA NextSite == SiteInv /\ [Next]_vars => SiteInv'
<1> SUFFICES ASSUME SiteInv, [Next]_vars PROVE SiteInv'
  OBVIOUS
<1> USE DEF SiteInv
<1>1. ASSUME NEW g \in Runs, SiteStep(g) PROVE SiteInv'
  BY <1>1, SiteTypes, RunsMove, DirStep, ForeignStep, ClearStep, ExactStep
<1>2. CASE Meanwhile
  <2>1. TypesInv'
    <3>1. CASE Publication
      <4>1. PNext
        BY <3>1 DEF Publication, PNext, Request
      <4>2. QED BY <4>1, NextTypes
    <3>2. CASE Categorise
      <4>1. \E op \in AdminOps : Begin(op)
        BY <3>2 DEF Categorise, UpdateSource, UpdateCategory, DeleteCategory, Begin
      <4>2. QED BY <3>2, <4>1, OtherRequest DEF Categorise
    <3>3. QED BY <1>2, <3>1, <3>2 DEF Meanwhile
  <2>2. UNCHANGED <<top, site, run, exact, spoiled>>
    BY <1>2, MeanwhileTouches
  <2>3. category' \in [Sources -> Categories \cup {"none"}] /\ active' \subseteq Categories
    BY <1>2 DEF Meanwhile, Publication, Categorise, UpdateSource, UpdateCategory, DeleteCategory,
       DirInv
  <2>4. touched' \subseteq Sources
    BY <1>2 DEF Meanwhile, Publication, Categorise, Touch, DirInv
  <2>5. RunsInv' /\ DirInv' /\ ForeignInv' /\ ClearInv'
    BY <2>2, <2>3, <2>4 DEF RunsInv, DirInv, ForeignInv, ClearInv, Running, Is
  <2>6. QED BY <1>2, <2>1, <2>5, ExactMeanwhile
<1>3. CASE UNCHANGED vars
  <2>1. TypesInv'
    BY <1>3, NextTypes DEF vars
  <2>2. UNCHANGED <<top, site, run, exact, touched, spoiled, category, active, Measure>>
    BY <1>3 DEF vars, siteVars, dir, cats, pvars, tables, Measure
  <2>3. RunsInv' /\ DirInv' /\ ForeignInv' /\ ClearInv'
    BY <2>2 DEF RunsInv, DirInv, ForeignInv, ClearInv, Running, Is
  <2>4. ExactInv'
    BY <2>2, SameExact
  <2>5. QED BY <2>1, <2>3, <2>4
<1>4. QED BY <1>1, <1>2, <1>3 DEF Next, Meanwhile

\* For any profiles, jobs and runs: the parts of the site are sets of sources
\* and lie where the directory says, and a run is idle exactly when there is none.
THEOREM SiteTypeCorrect == Spec => []SiteTypeOK
<1>1. SiteInv => SiteTypeOK
  BY TypesAreTypes DEF SiteInv, DirInv, Contents, RunsInv, RunOK, SiteTypeOK
<1>2. QED BY <1>1, InitSite, NextSite, PTL DEF Spec

\* For any number of runs, of whatever kind, that overlap, fail or are cut
\* off: the files of a directory that carries no marker stay.  It says nothing of
\* files somebody put into a marked directory, which the next full run deletes.
THEOREM ForeignFilesAreKept == Spec => ForeignKept
<1>1. SiteInv /\ [Next]_vars
        => [/\ "foreign" \in top
            /\ "marker" \notin top
            => "foreign" \in top']_vars
  <2> SUFFICES ASSUME SiteInv, Next PROVE "foreign" \in top => "foreign" \in top'
    BY DEF vars
  <2>1. CASE Publication \/ Categorise
    BY <2>1 DEF Publication, Categorise, dir
  <2>2. ASSUME NEW g \in Runs, SiteStep(g) PROVE "foreign" \in top => "foreign" \in top'
    BY <2>2, ForeignStep DEF SiteInv
  <2>3. QED BY <2>1, <2>2 DEF Next
<1>2. QED BY <1>1, InitSite, NextSite, PTL DEF Spec, ForeignKept

\* For any number of runs: unless a run was cut off while it cleared, ran
\* beside another or wrote the English tree into an unmarked directory, the
\* next full run finds a directory it may clear.
THEOREM OwnOutputMayBeCleared == Spec => []OwnOutputClearable
<1>1. SiteInv => OwnOutputClearable
  BY DEF SiteInv, ClearInv, OwnOutputClearable
<1>2. QED BY <1>1, InitSite, NextSite, PTL DEF Spec

\* For any profiles, categories and limit, and whatever is published, translated
\* and moved meanwhile: a full run that no other run disturbed and no error struck
\* leaves the site of what is published and translated, but for what changed since
\* it began; on category pages are the profiles whose category is active, in the
\* index those that have one.
THEOREM UndisturbedRunIsExact == Spec => []FullRunIsExact
<1>1. SiteInv => FullRunIsExact
  BY DEF SiteInv, ExactInv, Ready, Exactly, OnlyTranslated, FullRunIsExact, Parts
<1>2. QED BY <1>1, InitSite, NextSite, PTL DEF Spec
=============================================================================
