------------------------------ MODULE LogicRuns ------------------------------
(***************************************************************************)
(* Generating control logic for one project: generate of                   *)
(* services/control_logic_service.py with the stores it writes through.    *)
(* A generation reads the entities of the plant, discovers its control     *)
(* loops and stores them, replaces the *.st files, has them validated, and *)
(* records a run with its rules; main.st is then replaced by the bundle of *)
(* all files.  Detecting the control loops is a request of its own too.    *)
(*                                                                         *)
(* Every statement commits on its own and every file is written on its     *)
(* own; whatever raises, the request ends where it is.  Nothing keeps two  *)
(* requests apart.                                                         *)
(*                                                                         *)
(* What the logic says is left out: files, loops and rules are those of a  *)
(* design.  The IO mapping, the readiness check and the automatic commit   *)
(* at the end are other components.  Runs are listed by the time of their  *)
(* INSERT, which is taken just before it.                                  *)
(***************************************************************************)
EXTENDS Integers, Sequences, FiniteSets, PythonNone

CONSTANTS
    Generators, \* request threads
    Designs,    \* what a parse can leave of the plant: entities and graph
    Modules,    \* *.st files beside main.st
    FilesOf,    \* FilesOf[d]: the files that are rendered for a design
    LoopTags,
    LoopsOf,    \* LoopsOf[d]: the control loops that are discovered in a design
    MaxRuns     \* bound: runs that are recorded

ASSUME LogicAssumption ==
    /\ FilesOf \in [Designs -> SUBSET Modules]
    /\ LoopsOf \in [Designs -> SUBSET LoopTags]
    /\ IsFiniteSet(LoopTags)
    /\ MaxRuns \in Nat
    /\ None \notin Designs
    /\ "main" \notin Modules

VARIABLES
    plant,   \* the design readers are given
    loops,   \* control_loops: tag -> the design it was discovered in, None without a row
    st,      \* control_logic: file -> the design it is of, None when it is not there
    bundled, \* main.st holds the bundle of all files
    runs,    \* logic_runs, in the order of created_at: their number, design, status and rules
    gen,     \* what each request is doing
    torn     \* the last generation to begin is not known to have gone through alone
             \* (history)

logicVars == <<plant, loops, st, bundled, runs, gen, torn>>

Files == Modules \cup {"main"}

\* of, found: the designs whose entities and whose loops it has read; todo: what the step
\* has still to store; run: the row it inserted.
GenIdle ==
    [step |-> "idle", detect |-> FALSE, of |-> None, found |-> {}, todo |-> {},
     refused |-> FALSE, number |-> 0, run |-> 0, alone |-> FALSE]

LogicInit ==
    /\ plant \in Designs
    /\ loops = [t \in LoopTags |-> None]
    /\ st = [f \in Files |-> None]
    /\ bundled = FALSE
    /\ runs = <<>>
    /\ gen = [g \in Generators |-> GenIdle]
    /\ torn = TRUE

AtStep(g, step) == gen[g].step = step
GoTo(g, step) == gen' = [gen EXCEPT ![g].step = step]
GoWith(g, step, todo) == gen' = [gen EXCEPT ![g].step = step, ![g].todo = todo]
Busy == {g \in Generators : ~AtStep(g, "idle")}

\* One more of what is to be stored is.
Done(g, x) == gen' = [gen EXCEPT ![g].todo = @ \ {x}]

\* A parse leaves another plant.
Reparse(d) ==
    /\ plant' = d
    /\ gen' = [g \in Generators |-> [gen[g] EXCEPT !.alone = FALSE]]
    /\ UNCHANGED <<loops, st, bundled, runs, torn>>

\* A request begins.  A generation reads the entities and has them validated: a design
\* that is refused goes straight to an empty run.
BeginLogic(g, detect, refused) ==
    /\ AtStep(g, "idle")
    /\ detect => ~refused
    /\ gen' = [h \in Generators |->
            IF h # g THEN [gen[h] EXCEPT !.alone = FALSE]
            ELSE [GenIdle EXCEPT
                    !.step = IF refused THEN "number" ELSE "discover",
                    !.detect = detect, !.of = plant, !.refused = refused, !.alone = Busy = {}]]
    /\ torn' = TRUE
    /\ UNCHANGED <<plant, loops, st, bundled, runs>>

\* control_loop_engine.discover and upsert_project_loops: the rows of other loops are
\* deleted, then each loop is inserted or overwritten.
DiscoverLoops(g) ==
    /\ AtStep(g, "discover")
    /\ loops' = [t \in LoopTags |-> IF t \in LoopsOf[plant] THEN loops[t] ELSE None]
    /\ gen' = [gen EXCEPT ![g] =
            [@ EXCEPT !.step = "store loops", !.of = IF gen[g].detect THEN plant ELSE gen[g].of,
                      !.found = LoopsOf[plant], !.todo = LoopsOf[plant]]]
    /\ UNCHANGED <<plant, st, bundled, runs, torn>>

StoreLoop(g) ==
    /\ AtStep(g, "store loops")
    /\ \E t \in gen[g].todo : loops' = [loops EXCEPT ![t] = gen[g].of] /\ Done(g, t)
    /\ UNCHANGED <<plant, st, bundled, runs, torn>>

LoopsStored(g) ==
    /\ AtStep(g, "store loops")
    /\ gen[g].todo = {}
    /\ IF gen[g].detect THEN gen' = [gen EXCEPT ![g] = GenIdle] ELSE GoTo(g, "render")
    /\ UNCHANGED <<plant, loops, st, bundled, runs, torn>>

\* Mutant: old files stay.
RemoveNothing(g) ==
    /\ AtStep(g, "render")
    /\ GoWith(g, "write", FilesOf[gen[g].of] \cup {"main"})
    /\ UNCHANGED <<plant, loops, st, bundled, runs, torn>>

\* st_generator.generate removes every old file before it renders the new ones.
RemoveFiles(g) ==
    /\ AtStep(g, "render")
    /\ st' = [f \in Files |-> None]
    /\ bundled' = FALSE
    /\ GoWith(g, "write", FilesOf[gen[g].of] \cup {"main"})
    /\ UNCHANGED <<plant, loops, runs, torn>>

WriteSt(g) ==
    /\ AtStep(g, "write")
    /\ \E f \in gen[g].todo :
        /\ st' = [st EXCEPT ![f] = gen[g].of]
        /\ bundled' = (bundled /\ f # "main")
        /\ Done(g, f)
    /\ UNCHANGED <<plant, loops, runs, torn>>

\* The files are validated, and again with the IO mapping; those that are refused stay.
JudgeSt(g, refused) ==
    /\ AtStep(g, "write")
    /\ gen[g].todo = {}
    /\ gen' = [gen EXCEPT ![g] = [@ EXCEPT !.step = "number", !.refused = refused]]
    /\ UNCHANGED <<plant, loops, st, bundled, runs, torn>>

\* _next_project_version.
Numbers == {runs[i].number : i \in DOMAIN runs}
NextNumber == IF runs = <<>> THEN 1 ELSE 1 + CHOOSE n \in Numbers : \A m \in Numbers : m <= n

NumberRun(g) ==
    /\ AtStep(g, "number")
    /\ gen' = [gen EXCEPT ![g] = [@ EXCEPT !.step = "insert", !.number = NextNumber]]
    /\ UNCHANGED <<plant, loops, st, bundled, runs, torn>>

\* _store_rules and _store_empty_run insert the run first, complete as it says.
InsertRun(g) ==
    /\ AtStep(g, "insert")
    /\ Len(runs) < MaxRuns
    /\ runs' = Append(runs,
            [number |-> gen[g].number, of |-> gen[g].of,
             status |-> IF gen[g].refused THEN "no_input" ELSE "completed", rules |-> {}])
    /\ gen' = [gen EXCEPT ![g] =
            IF gen[g].refused THEN GenIdle
            ELSE [GenIdle EXCEPT !.step = "rules", !.of = gen[g].of, !.todo = gen[g].found,
                                 !.run = Len(runs) + 1, !.alone = gen[g].alone]]
    /\ UNCHANGED <<plant, loops, st, bundled, torn>>

StoreRule(g) ==
    /\ AtStep(g, "rules")
    /\ \E t \in gen[g].todo :
        /\ runs' = [runs EXCEPT ![gen[g].run].rules = @ \cup {t}]
        /\ Done(g, t)
    /\ UNCHANGED <<plant, loops, st, bundled, torn>>

\* main.st is replaced by the bundle.
WriteBundle(g) ==
    /\ AtStep(g, "rules")
    /\ gen[g].todo = {}
    /\ st' = [st EXCEPT !["main"] = gen[g].of]
    /\ bundled' = TRUE
    /\ gen' = [gen EXCEPT ![g] = GenIdle]
    /\ torn' = (torn /\ ~gen[g].alone)
    /\ UNCHANGED <<plant, loops, runs>>

\* Rendering, a statement or a write raises, or the process ends.
LogicRaises(g) ==
    /\ ~AtStep(g, "idle")
    /\ gen' = [gen EXCEPT ![g] = GenIdle]
    /\ UNCHANGED <<plant, loops, st, bundled, runs, torn>>

LogicNext ==
    \/ \E d \in Designs : Reparse(d)
    \/ \E g \in Generators :
        \/ \E detect, refused \in BOOLEAN : BeginLogic(g, detect, refused)
        \/ DiscoverLoops(g) \/ StoreLoop(g) \/ LoopsStored(g)
        \/ RemoveFiles(g) \/ WriteSt(g)
        \/ \E refused \in BOOLEAN : JudgeSt(g, refused)
        \/ NumberRun(g) \/ InsertRun(g) \/ StoreRule(g) \/ WriteBundle(g)
        \/ LogicRaises(g)

LogicSpec == LogicInit /\ [][LogicNext]_logicVars

-----------------------------------------------------------------------------
Newest == runs[Len(runs)]

\* Once a generation has gone through with no other request and no new plant beside it,
\* the run that is listed, its rules, the loops and the files a deployment takes are all
\* of one design, and its number is above every other - whatever generations that failed,
\* were refused or overlapped have left behind.
NewestRunIsWhole ==
    ~torn =>
        /\ runs # <<>>
        /\ Newest.status = "completed"
        /\ Newest.rules = LoopsOf[Newest.of]
        /\ \A i \in 1..(Len(runs) - 1) : runs[i].number < Newest.number
        /\ loops = [t \in LoopTags |-> IF t \in LoopsOf[Newest.of] THEN Newest.of ELSE None]
        /\ st = [f \in Files |->
                    IF f = "main" \/ f \in FilesOf[Newest.of] THEN Newest.of ELSE None]
        /\ bundled
===============================================================================
