----------------------------- MODULE SignalState -----------------------------
(***************************************************************************)
(* The signal values of the runtime engine: input forces, the evaluation   *)
(* cycle, the tag catalog a deploy brings, the trace every change ends     *)
(* with, and what the behaviour layer is shown of the values.  Each method *)
(* of RuntimeSignalState holds its lock; a request calls several of them   *)
(* and holds nothing in between.                                           *)
(*                                                                         *)
(* A tag is a kind and the thing it belongs to: a level (LIT, FIT, PIT     *)
(* alike) and its alarm tags, a command with its _STATUS, _RUNNING and     *)
(* _FAULT, and PLANT_FAULT_ACTIVE.  A value says whether it is on; a level *)
(* is on when it is beyond a threshold, as 0.0 is.                         *)
(***************************************************************************)
EXTENDS Naturals

CONSTANTS
    Projects, Requests,
    Tags,
    Inputs,     \* the tags with is_input
    Mappings,   \* the tag sets an IO mapping may have
    Programs,   \* the tag sets an ST program may declare or depend on
    PlantFault, \* PLANT_FAULT_ACTIVE
    None,       \* no project, no catalog, no value, no request
    Polls       \* the monitoring summary is polled

Switch == {"on", "off"}
Kinds == {"level", "alarm", "cmd", "status", "running", "fault", "plant"}
Of(kind, t) == [t EXCEPT !.kind = kind]

ASSUME TagAssumption ==
    /\ \A t \in Tags : t.kind \in Kinds /\ t = [kind |-> t.kind, of |-> t.of]
    /\ \A t \in Tags : t.kind = "level" => Of("alarm", t) \in Tags
    /\ \A t \in Tags : t.kind = "alarm" => Of("level", t) \in Tags
    /\ \A t \in Tags : t.kind \in {"status", "running"} => Of("cmd", t) \in Tags
    /\ \A t \in Tags : t.kind = "plant" <=> t = PlantFault
    /\ PlantFault \in Tags
ASSUME SetAssumption == Inputs \subseteq Tags /\ Mappings \cup Programs \subseteq SUBSET Tags
ASSUME NoneAssumption ==
    None \notin Projects \cup Requests \cup Switch /\ (\A tags \in SUBSET Tags : tags # None)
ASSUME PollsAssumption == Polls \in BOOLEAN

VARIABLES
    mapping,  \* the tags of the latest IO mapping of a project
    active,   \* RuntimeManager._active_project_id
    catalog,  \* _tag_defs: the catalog of a project, once there is one
    value,    \* _current_values
    forced,   \* _forced_values
    cycle,    \* _last_cycle: the levels whose alarm it found active
    rowsOf,   \* the project whose rows the behaviour layer has
    loaded,   \* BehaviorLoaderPatch._active_project_id
    shown,    \* the values the behaviour layer was given since it has these rows
    astray,   \* values of another project were put into the rows, a poll put old values over
              \* newer ones, or two loads crossed, and nothing has put it right (history)
    tracer,   \* who holds the lock of the simulation service
    req       \* every API thread

layer == <<rowsOf, loaded, shown, astray>>
vars == <<mapping, active, catalog, value, forced, cycle, layer, tracer, req>>

Maybe(S) == {None} \cup S
Values == [Tags -> Maybe(Switch)]
Blank == [t \in Tags |-> None]

Pc == {"idle", "baseline", "change", "snapshot", "apply", "record", "push", "pushing", "trace",
       "traced", "tracing", "report", "reporting", "sync", "activate", "again", "load"}
RequestType ==
    [pc: Pc, op: {"none", "force", "clear", "cycle"},
     proj: Maybe(Projects), tag: Tags, to: Switch,
     base: Values,     \* the values before the change
     work: Values,     \* the snapshot evaluated, the changes to push, or the sample
     rows: SUBSET Tags]
Idle == [pc |-> "idle", op |-> "none", proj |-> None, tag |-> PlantFault, to |-> "off",
         base |-> Blank, work |-> Blank, rows |-> {}]

TypeOK ==
    /\ mapping \in [Projects -> SUBSET Tags]
    /\ active \in Maybe(Projects)
    /\ rowsOf \in Maybe(Projects) /\ loaded \in Maybe(Projects) /\ astray \in BOOLEAN
    /\ catalog \in [Projects -> Maybe(SUBSET Tags)]
    /\ value \in [Projects -> Values] /\ forced \in [Projects -> Values]
    /\ cycle \in [Projects -> Maybe(SUBSET Tags)]
    /\ shown \in Values
    /\ tracer \in Maybe(Requests)
    /\ req \in [Requests -> RequestType]

Init ==
    /\ mapping \in [Projects -> Mappings]
    /\ active = None
    /\ rowsOf = None /\ loaded = None /\ astray = FALSE
    /\ catalog = [p \in Projects |-> None]
    /\ value = [p \in Projects |-> Blank] /\ forced = [p \in Projects |-> Blank]
    /\ cycle = [p \in Projects |-> None]
    /\ shown = Blank
    /\ tracer = None
    /\ req = [r \in Requests |-> Idle]

-----------------------------------------------------------------------------
At(r, pc) == req[r].pc = pc
Goto(r, pc) == req' = [req EXCEPT ![r].pc = pc]
Finish(r) == req' = [req EXCEPT ![r] = Idle]

\* _default_value: a level starts at 0.0, beyond its low threshold.
Default(t) == IF t.kind = "level" THEN "on" ELSE "off"

\* A dict updated by another: the keys of new win.
Over(new, old) == [t \in Tags |-> IF new[t] = None THEN old[t] ELSE new[t]]

\* _recompute_derived_tags: unless forced, a status follows its command and the plant
\* fault the faults of the catalog.
AnyFault(v, tags) == IF \E t \in tags : t.kind = "fault" /\ v[t] = "on" THEN "on" ELSE "off"

Recomputed(v, f, tags) ==
    [t \in Tags |->
        CASE t.kind = "status" /\ v[t] # None /\ f[t] = None ->
                IF v[Of("cmd", t)] = None THEN v[t] ELSE v[Of("cmd", t)]
          [] t = PlantFault /\ v[t] # None /\ f[t] = None -> AnyFault(v, tags)
          [] OTHER -> v[t]]

\* The evaluator's blocks: command links, alarms of the levels, their sum.
ActiveLevels(v) == {t \in Tags : t.kind = "level" /\ v[t] = "on"}

Evaluated(v) ==
    [t \in Tags |->
        CASE t.kind \in {"status", "running"} /\ v[t] # None ->
                IF v[Of("cmd", t)] = None THEN v[t] ELSE v[Of("cmd", t)]
          [] t.kind = "alarm" /\ v[Of("level", t)] # None -> v[Of("level", t)]
          [] t = PlantFault /\ (\E l \in Tags : l.kind = "level" /\ v[l] # None) ->
                IF ActiveLevels(v) = {} THEN "off" ELSE "on"
          [] OTHER -> v[t]]

-----------------------------------------------------------------------------
\* ensure_project: the first one to ask brings the rows; nobody replaces them.
Catalog(p, rows) == IF catalog[p] = None THEN rows ELSE catalog[p]
Ensured(p, rows) ==
    IF catalog[p] # None THEN value[p]
                         ELSE [t \in Tags |-> IF t \in rows THEN Default(t) ELSE None]
Ensure(p, rows) == catalog' = [catalog EXCEPT ![p] = Catalog(p, rows)]

SetSignals(p, v, f) ==
    /\ value' = [value EXCEPT ![p] = Recomputed(v, f, catalog[p])]
    /\ forced' = [forced EXCEPT ![p] = f]

\* push_runtime_updates tests under a lock whether the project is the active one, and updates
\* the rows after it has released the lock, whosever rows they are by then.
Test(r, some, next, skipped) ==
    req' = [req EXCEPT ![r] =
        IF some /\ loaded = req[r].proj THEN [req[r] EXCEPT !.pc = next] ELSE skipped]

Update(p, updates, wrong) ==
    /\ shown' = Over(updates, shown)
    /\ astray' = IF rowsOf = p /\ loaded = p THEN wrong ELSE TRUE
    /\ UNCHANGED <<rowsOf, loaded>>

-----------------------------------------------------------------------------
(***************************************************************************)
(* POST force-input, clear-force and run-evaluation-cycle.                 *)
(***************************************************************************)
\* _runtime_project_guard, which looks once.
Enter(r, q) ==
    /\ At(r, "idle")
    /\ active \in {None, q.proj}
    /\ req' = [req EXCEPT ![r] = q]

Guard(r, p) ==
    /\ \/ \E t \in Tags, to \in Switch :
            Enter(r, [Idle EXCEPT !.pc = "baseline", !.op = "force", !.proj = p, !.tag = t,
                                  !.to = to])
       \/ \E t \in Tags :
            Enter(r, [Idle EXCEPT !.pc = "baseline", !.op = "clear", !.proj = p, !.tag = t])
       \/ Enter(r, [Idle EXCEPT !.pc = "snapshot", !.op = "cycle", !.proj = p])
    /\ UNCHANGED <<mapping, active, catalog, value, forced, cycle, layer, tracer>>

Baseline(r) ==
    LET p == req[r].proj
        v == Ensured(p, mapping[p]) IN
    /\ At(r, "baseline")
    /\ Ensure(p, mapping[p])
    /\ value' = [value EXCEPT ![p] = v]
    /\ req' = [req EXCEPT ![r].pc = "change", ![r].base = v]
    /\ UNCHANGED <<mapping, active, forced, cycle, layer, tracer>>

\* What was changed is not read again, the baseline is.
Changed(r) ==
    req' = [req EXCEPT ![r] = [Idle EXCEPT !.pc = "snapshot", !.proj = req[r].proj,
                                           !.base = req[r].base]]

ApplyForce(r) ==
    LET p == req[r].proj
        t == req[r].tag IN
    /\ At(r, "change") /\ req[r].op = "force"
    /\ IF t \in catalog[p] /\ t \in Inputs
       THEN /\ SetSignals(p, [value[p] EXCEPT ![t] = req[r].to],
                             [forced[p] EXCEPT ![t] = req[r].to])
            /\ Changed(r)
       ELSE UNCHANGED <<value, forced>> /\ Finish(r)
    /\ UNCHANGED <<mapping, active, catalog, cycle, layer, tracer>>

\* Mutant: nothing is recomputed after a clear.
ClearRaw(r) ==
    LET p == req[r].proj
        t == req[r].tag IN
    /\ At(r, "change") /\ req[r].op = "clear"
    /\ IF t \in catalog[p]
       THEN /\ value' = [value EXCEPT ![p][t] = Default(t)]
            /\ forced' = [forced EXCEPT ![p][t] = None]
            /\ Changed(r)
       ELSE UNCHANGED <<value, forced>> /\ Finish(r)
    /\ UNCHANGED <<mapping, active, catalog, cycle, layer, tracer>>

\* Mutant: a clear is not followed by a cycle.
ClearWithoutCycle(r) ==
    LET p == req[r].proj
        t == req[r].tag IN
    /\ At(r, "change") /\ req[r].op = "clear"
    /\ IF t \in catalog[p]
       THEN SetSignals(p, [value[p] EXCEPT ![t] = Default(t)], [forced[p] EXCEPT ![t] = None])
       ELSE UNCHANGED <<value, forced>>
    /\ Finish(r)
    /\ UNCHANGED <<mapping, active, catalog, cycle, layer, tracer>>

\* A clear asks only that the tag is known, forced or not, input or not.
ClearForce(r) ==
    LET p == req[r].proj
        t == req[r].tag IN
    /\ At(r, "change") /\ req[r].op = "clear"
    /\ IF t \in catalog[p]
       THEN /\ SetSignals(p, [value[p] EXCEPT ![t] = Default(t)],
                             [forced[p] EXCEPT ![t] = None])
            /\ Changed(r)
       ELSE UNCHANGED <<value, forced>> /\ Finish(r)
    /\ UNCHANGED <<mapping, active, catalog, cycle, layer, tracer>>

-----------------------------------------------------------------------------
(***************************************************************************)
(* run_cycle: a snapshot is evaluated and written back whole.              *)
(***************************************************************************)
\* Mutant: the cycle of a force evaluates the values of before the force.
SnapshotBaseline(r) ==
    LET p == req[r].proj
        v == IF req[r].op = "cycle" THEN Ensured(p, mapping[p]) ELSE req[r].base IN
    /\ At(r, "snapshot")
    /\ Ensure(p, mapping[p])
    /\ value' = [value EXCEPT ![p] = Ensured(p, mapping[p])]
    /\ req' = [req EXCEPT ![r].pc = "apply", ![r].op = "none", ![r].work = Evaluated(v),
                          ![r].base = IF req[r].op = "cycle" THEN v ELSE @]
    /\ UNCHANGED <<mapping, active, forced, cycle, layer, tracer>>

\* Mutant: only what the evaluation changed is written back.
SnapshotChanges(r) ==
    LET p == req[r].proj
        v == Ensured(p, mapping[p])
        e == Evaluated(v) IN
    /\ At(r, "snapshot")
    /\ Ensure(p, mapping[p])
    /\ value' = [value EXCEPT ![p] = v]
    /\ req' = [req EXCEPT ![r].pc = "apply", ![r].op = "none",
                          ![r].work = [t \in Tags |-> IF e[t] = v[t] THEN None ELSE e[t]],
                          ![r].base = IF req[r].op = "cycle" THEN v ELSE @]
    /\ UNCHANGED <<mapping, active, forced, cycle, layer, tracer>>

Snapshot(r) ==
    LET p == req[r].proj
        v == Ensured(p, mapping[p]) IN
    /\ At(r, "snapshot")
    /\ Ensure(p, mapping[p])
    /\ value' = [value EXCEPT ![p] = v]
    /\ req' = [req EXCEPT ![r].pc = "apply", ![r].op = "none", ![r].work = Evaluated(v),
                          ![r].base = IF req[r].op = "cycle" THEN v ELSE @]
    /\ UNCHANGED <<mapping, active, forced, cycle, layer, tracer>>

ApplyCycle(r) ==
    LET p == req[r].proj
        v == Over(req[r].work, value[p])
        after == Recomputed(v, forced[p], catalog[p])
        changed == [t \in Tags |-> IF after[t] = req[r].base[t] THEN None ELSE after[t]] IN
    /\ At(r, "apply")
    /\ SetSignals(p, v, forced[p])
    /\ req' = [req EXCEPT ![r].pc = "record", ![r].base = changed]
    /\ UNCHANGED <<mapping, active, catalog, cycle, layer, tracer>>

\* The cycle is kept for the diagnostics ...
RecordCycle(r) ==
    /\ At(r, "record")
    /\ cycle' = [cycle EXCEPT ![req[r].proj] = ActiveLevels(req[r].work)]
    /\ req' = [req EXCEPT ![r].pc = "push", ![r].work = Blank]
    /\ UNCHANGED <<mapping, active, catalog, value, forced, layer, tracer>>

\* ... and what changed since the baseline is pushed.
TestChanges(r) ==
    /\ At(r, "push")
    /\ Test(r, req[r].base # Blank, "pushing", [Idle EXCEPT !.pc = "trace", !.proj = req[r].proj])
    /\ UNCHANGED <<mapping, active, catalog, value, forced, cycle, layer, tracer>>

PushChanges(r) ==
    /\ At(r, "pushing")
    /\ Update(req[r].proj, req[r].base, astray)
    /\ req' = [req EXCEPT ![r] = [Idle EXCEPT !.pc = "trace", !.proj = req[r].proj]]
    /\ UNCHANGED <<mapping, active, catalog, value, forced, cycle, tracer>>

-----------------------------------------------------------------------------
(***************************************************************************)
(* capture_trace, which ends each of these requests and is a simulation    *)
(* run of its own: sample, save and push under the lock of the service.    *)
(***************************************************************************)
Simulate(r, p) ==
    /\ At(r, "idle")
    /\ req' = [req EXCEPT ![r] = [Idle EXCEPT !.pc = "trace", !.proj = p]]
    /\ UNCHANGED <<mapping, active, catalog, value, forced, cycle, layer, tracer>>

\* Mutant: a trace is taken without the lock.
SampleUnlocked(r) ==
    LET p == req[r].proj
        v == Ensured(p, mapping[p]) IN
    /\ At(r, "trace")
    /\ tracer' = r
    /\ Ensure(p, mapping[p])
    /\ value' = [value EXCEPT ![p] = v]
    /\ req' = [req EXCEPT ![r].pc = "traced", ![r].work = v]
    /\ UNCHANGED <<mapping, active, forced, cycle, layer>>

\* Only the last sample of a tag is pushed.
Sample(r) ==
    LET p == req[r].proj
        v == Ensured(p, mapping[p]) IN
    /\ At(r, "trace") /\ tracer = None
    /\ tracer' = r
    /\ Ensure(p, mapping[p])
    /\ value' = [value EXCEPT ![p] = v]
    /\ req' = [req EXCEPT ![r].pc = "traced", ![r].work = v]
    /\ UNCHANGED <<mapping, active, forced, cycle, layer>>

TestTrace(r) ==
    /\ At(r, "traced")
    /\ Test(r, TRUE, "tracing", Idle)
    /\ tracer' = IF loaded = req[r].proj THEN tracer ELSE None
    /\ UNCHANGED <<mapping, active, catalog, value, forced, cycle, layer>>

\* All values go out: whatever went astray before is put right.
PushTrace(r) ==
    /\ At(r, "tracing")
    /\ Update(req[r].proj, req[r].work, FALSE)
    /\ tracer' = None
    /\ Finish(r)
    /\ UNCHANGED <<mapping, active, catalog, value, forced, cycle>>

-----------------------------------------------------------------------------
\* The monitoring summary reads the values and pushes them, under no lock.
Summary(r, p) ==
    LET v == Ensured(p, mapping[p]) IN
    /\ Polls
    /\ At(r, "idle")
    /\ Ensure(p, mapping[p])
    /\ value' = [value EXCEPT ![p] = v]
    /\ req' = [req EXCEPT ![r] = [Idle EXCEPT !.pc = "report", !.proj = p, !.work = v]]
    /\ UNCHANGED <<mapping, active, forced, cycle, layer, tracer>>

TestReport(r) ==
    /\ At(r, "report")
    /\ Test(r, req[r].work # Blank, "reporting", Idle)
    /\ UNCHANGED <<mapping, active, catalog, value, forced, cycle, layer, tracer>>

Report(r) ==
    /\ At(r, "reporting")
    /\ Update(req[r].proj, req[r].work, req[r].work # value[req[r].proj])
    /\ Finish(r)
    /\ UNCHANGED <<mapping, active, catalog, value, forced, cycle, tracer>>

-----------------------------------------------------------------------------
(***************************************************************************)
(* What a deploy does to the signals; its other steps are RuntimeControl's. *)
(***************************************************************************)
Deploy(r, p) ==
    /\ At(r, "idle")
    /\ \E program \in Programs :
          req' = [req EXCEPT ![r] = [Idle EXCEPT !.pc = "sync", !.proj = p,
                                                !.rows = mapping[p] \cup program]]
    /\ UNCHANGED <<mapping, active, catalog, value, forced, cycle, layer, tracer>>

\* sync_project with the rows of the deploy, which may then fail before it is active ...
Sync(r) ==
    LET p == req[r].proj
        tags == Catalog(p, req[r].rows) IN
    /\ At(r, "sync")
    /\ Ensure(p, req[r].rows)
    /\ value' = [value EXCEPT ![p] = Recomputed(Ensured(p, req[r].rows), forced[p], tags)]
    /\ Goto(r, "activate") \/ Finish(r)
    /\ UNCHANGED <<mapping, active, forced, cycle, layer, tracer>>

\* ... or after ...
Activate(r) ==
    /\ At(r, "activate")
    /\ active' = req[r].proj
    /\ Goto(r, "again") \/ Finish(r)
    /\ UNCHANGED <<mapping, catalog, value, forced, cycle, layer, tracer>>

\* ... or passes and syncs again.
SyncAgain(r) ==
    LET p == req[r].proj IN
    /\ At(r, "again")
    /\ SetSignals(p, value[p], forced[p])
    /\ Finish(r)
    /\ UNCHANGED <<mapping, active, catalog, cycle, layer, tracer>>

\* A new IO mapping is saved.
MapIo(p) ==
    /\ mapping' \in {[mapping EXCEPT ![p] = m] : m \in Mappings}
    /\ UNCHANGED <<active, catalog, value, forced, cycle, layer, tracer, req>>

\* load_from_project replaces the rows ...
LoadRows(r, p) ==
    /\ At(r, "idle")
    /\ rowsOf' = p /\ shown' = Blank /\ astray' = FALSE
    /\ req' = [req EXCEPT ![r] = [Idle EXCEPT !.pc = "load", !.proj = p]]
    /\ UNCHANGED <<mapping, active, catalog, value, forced, cycle, loaded, tracer>>

\* ... and then makes the project the active one, whosever rows are there by then.
LoadActive(r) ==
    /\ At(r, "load")
    /\ loaded' = req[r].proj
    /\ astray' = (astray \/ rowsOf # req[r].proj)
    /\ Finish(r)
    /\ UNCHANGED <<mapping, active, catalog, value, forced, cycle, rowsOf, shown, tracer>>

Serve(r) ==
    \/ Baseline(r) \/ ApplyForce(r) \/ ClearForce(r) \/ Snapshot(r) \/ ApplyCycle(r)
    \/ RecordCycle(r) \/ TestChanges(r) \/ PushChanges(r)
    \/ Sample(r) \/ TestTrace(r) \/ PushTrace(r) \/ TestReport(r) \/ Report(r)
    \/ Sync(r) \/ Activate(r) \/ SyncAgain(r) \/ LoadActive(r)

Next ==
    \/ \E r \in Requests :
        \/ \E p \in Projects :
            Guard(r, p) \/ Simulate(r, p) \/ Summary(r, p) \/ Deploy(r, p) \/ LoadRows(r, p)
        \/ Serve(r)
    \/ \E p \in Projects : MapIo(p)

Spec == Init /\ [][Next]_vars

-----------------------------------------------------------------------------
Quiet == \A r \in Requests : At(r, "idle")

\* Whatever interleaves, a status that is not forced is its command's value, and the
\* plant fault, if not forced, says whether a fault of the catalog is on.
DerivedTagsAgree ==
    \A p \in Projects : \A t \in Tags :
        value[p][t] # None /\ forced[p][t] = None =>
            /\ t.kind = "status" /\ value[p][Of("cmd", t)] # None =>
                    value[p][t] = value[p][Of("cmd", t)]
            /\ t = PlantFault => value[p][t] = AnyFault(value[p], catalog[p])

\* However requests interleave, when none is at work the alarm tags of a project that
\* was evaluated are those of its levels and its running tags those of its commands: no
\* cycle leaves results of values that another one has replaced.
EvaluatedTagsAgree ==
    Quiet => \A p \in Projects : cycle[p] # None =>
        \A t \in Tags :
            /\ t.kind = "level" /\ value[p][t] # None => value[p][Of("alarm", t)] = value[p][t]
            /\ t.kind = "running" /\ value[p][t] # None /\ value[p][Of("cmd", t)] # None =>
                    value[p][t] = value[p][Of("cmd", t)]

\* With requests one at a time the diagnostics list the levels that are in alarm.
DiagnosticsTellAlarms ==
    Quiet => \A p \in Projects : cycle[p] # None => cycle[p] = ActiveLevels(value[p])

\* However requests, polls and loads interleave, when none is at work the behaviour layer has
\* the rows of the active project and was given nothing that is not the current value: the
\* trace each request ends with repairs what older pushes left.  The exception is what a trace
\* or a load has not come to since: values pushed into rows that were replaced meanwhile, old
\* values of a poll, and the rows of one load under the name of another.
BehaviourCatchesUp ==
    Quiet /\ ~astray =>
        /\ rowsOf = loaded
        /\ loaded # None => \A t \in Tags :
            shown[t] # None /\ value[loaded][t] # None => shown[t] = value[loaded][t]

\* With requests one at a time a forced input that nothing is derived into keeps the
\* value it was forced to, until it is cleared.
InputForcesHold ==
    Quiet => \A p \in Projects : \A t \in Tags :
        t.kind \in {"level", "cmd", "fault"} /\ forced[p][t] # None =>
            value[p][t] = forced[p][t]
=============================================================================
