------------------------------ MODULE Plugins ------------------------------
(***************************************************************************)
(* Installed plugins and the action catalog made of them: the archives in  *)
(* the actions directory (libs/pexe), the catalog the driver builds from   *)
(* them and swaps in (pexe_catalog.rs, driver.rs), and an action that is   *)
(* checked, proved and recorded while a plugin is being replaced.          *)
(*                                                                         *)
(* An archive is a record: the plugin name of its manifest and whether it  *)
(* passes validate_plugin_name, the module its script compiles to, and     *)
(* whether the manifest states that module's hash and its classes.  A      *)
(* module is named by its hash; Modules gives its actions, each with the   *)
(* bare classes it consumes and produces.  An action of kind Rekey is one  *)
(* more action of the module.                                              *)
(***************************************************************************)
EXTENDS Naturals, Sequences, FiniteSets

CONSTANTS
    Archives,    \* archive id -> [name, valid, script, hashOK, classesOK]
    Preinstalled, Uploads, \* the archives on disk at first; those that get uploaded
    Modules,     \* script -> sequence of [name, ins, outs, hidden]
    Clients,     \* concurrent POST /actions/install requests
    Runners,     \* concurrent action runs
    Objects,     \* object files, numbered in the order of their names
    MaxInstalls, \* bound: install requests
    MaxBuilds,   \* bound: pexe build --install
    MaxKills     \* bound: the daemon is killed, at any point

VARIABLES
    disk,     \* file -> an archive id, "none", or "torn"
    up,       \* the daemon runs
    catalog,  \* the archives the running catalog was built from
    inst,     \* client -> its install_plugin call
    build,    \* the archive pexe build is writing, or "none"
    objs,     \* object -> its file; by is the module that consumed it
    runs,     \* runner -> its call of Driver::prove
    installs, builds, kills
vars == <<disk, up, catalog, inst, build, objs, runs, installs, builds, kills>>

Names == {Archives[a].name : a \in DOMAIN Archives}
Dest(n) == <<n, "pexe">>
Backup(n) == <<n, "bak">>
Files == {Dest(n) : n \in Names} \cup {Backup(n) : n \in Names}

NoRun == [pc |-> "idle", cat |-> {}, action |-> <<>>, ins |-> <<>>]
NoInstall == [pc |-> "idle", a |-> "none", backup |-> FALSE, loaded |-> {},
              was |-> "none", cat |-> {}]
-----------------------------------------------------------------------------
(* The catalog: PexeCatalog::from_plugins and its lookups.                  *)

ModuleOf(a) == Archives[a].script
ActionsOf(a) == Modules[ModuleOf(a)]

\* The name is checked first; then the manifest against the compiled module.
ValidName(a) == Archives[a].valid
ManifestMatches(a) == Archives[a].classesOK /\ Archives[a].hashOK
Loadable(a) == ValidName(a) /\ ManifestMatches(a)

\* unpack: a file of which a part was written is no archive.
Unpacks(content) == content # "torn"

\* discover_plugins: every file that ends in .pexe, and one bad file fails all.
Scanned(d) == {d[Dest(n)] : n \in {m \in Names : d[Dest(m)] # "none"}}
Loads(d) == \A a \in Scanned(d) : Unpacks(a) /\ Loadable(a)

ClassRef(a, c) == [class |-> <<Archives[a].name, c>>, hash |-> <<ModuleOf(a), c>>]
RefsOf(a, cs) == [i \in DOMAIN cs |-> ClassRef(a, cs[i])]
Ranged(s) == {s[i] : i \in DOMAIN s}

ClassRows(cat) ==
    UNION {{ClassRef(a, c) : c \in UNION {Ranged(x.ins) \cup Ranged(x.outs) : x \in Ranged(ActionsOf(a))}}
           : a \in cat}

\* Hidden actions are routed but not listed.
ActionRows(cat) ==
    UNION {{[action |-> <<Archives[a].name, x.name>>, ins |-> RefsOf(a, x.ins), outs |-> RefsOf(a, x.outs)]
            : x \in {y \in Ranged(ActionsOf(a)) : ~y.hidden}} : a \in cat}

\* action_plugin_idx and execute_action: the archive that runs an action.
Routes(cat, q) == {a \in cat : q[1] = Archives[a].name /\ \E x \in Ranged(ActionsOf(a)) : x.name = q[2]}

\* classes_by_hash keeps one class of a hash.
ClassByHash(cat, h) == CHOOSE r \in ClassRows(cat) : r.hash = h
-----------------------------------------------------------------------------
(* Starting and stopping.                                                   *)

Init ==
    /\ disk = [f \in Files |->
           IF \E a \in Preinstalled : f = Dest(Archives[a].name)
           THEN CHOOSE a \in Preinstalled : f = Dest(Archives[a].name) ELSE "none"]
    /\ up = FALSE /\ catalog = {}
    /\ inst = [c \in Clients |-> NoInstall]
    /\ build = "none"
    /\ objs = [o \in Objects |-> [st |-> "free", class |-> <<>>, type |-> <<>>, by |-> "none"]]
    /\ runs = [r \in Runners |-> NoRun]
    /\ installs = 0 /\ builds = 0 /\ kills = 0

\* Driver::open_default: a catalog that does not load stops the daemon.
Start ==
    /\ ~up
    /\ Loads(disk)
    /\ up' = TRUE /\ catalog' = Scanned(disk)
    /\ UNCHANGED <<disk, inst, build, objs, runs, installs, builds, kills>>

\* Holds live in memory.
Released == [o \in Objects |-> IF objs[o].st = "held" THEN [objs[o] EXCEPT !.st = "live"] ELSE objs[o]]

Down ==
    /\ up' = FALSE /\ catalog' = {}
    /\ inst' = [c \in Clients |-> NoInstall]
    /\ runs' = [r \in Runners |-> NoRun]
    /\ objs' = Released
    /\ UNCHANGED <<disk, build, installs, builds>>

Stop == up /\ (\A c \in Clients : inst[c].pc = "idle") /\ Down /\ UNCHANGED kills

Kill == up /\ kills < MaxKills /\ Down /\ kills' = kills + 1
-----------------------------------------------------------------------------
(* Driver::install_plugin, on a blocking thread of its own and under no     *)
(* lock.                                                                    *)

At(c, pc) == up /\ inst[c].pc = pc
Name(c) == Archives[inst[c].a].name
Go(c, pc) == inst' = [inst EXCEPT ![c].pc = pc]
InstallOnly == UNCHANGED <<up, build, objs, runs, installs, builds, kills>>

\* The archive unpacks and its name is valid; then whether there is one to
\* move aside.
Install(c, a) ==
    /\ At(c, "idle") /\ installs < MaxInstalls
    /\ ValidName(a)
    /\ LET n == Archives[a].name
           aside == disk[Dest(n)] # "none"
       IN  inst' = [inst EXCEPT ![c] =
               [pc |-> IF aside THEN "aside" ELSE "write", a |-> a, backup |-> aside, loaded |-> {},
                was |-> disk[Dest(n)], cat |-> catalog]]
    /\ installs' = installs + 1
    /\ UNCHANGED <<disk, up, catalog, build, objs, runs, builds, kills>>

\* A rename of a file that is gone fails the call.
MoveAside(c) ==
    /\ At(c, "aside")
    /\ LET n == Name(c) IN
       IF disk[Dest(n)] = "none"
       THEN inst' = [inst EXCEPT ![c] = NoInstall] /\ UNCHANGED disk
       ELSE disk' = [disk EXCEPT ![Backup(n)] = disk[Dest(n)], ![Dest(n)] = "none"] /\ Go(c, "write")
    /\ UNCHANGED catalog /\ InstallOnly

\* pexe::install: fs::write truncates the file, then fills it.
Truncate(c) ==
    /\ At(c, "write")
    /\ disk' = [disk EXCEPT ![Dest(Name(c))] = "torn"] /\ Go(c, "fill")
    /\ UNCHANGED catalog /\ InstallOnly
Fill(c) ==
    /\ At(c, "fill")
    /\ disk' = [disk EXCEPT ![Dest(Name(c))] = inst[c].a] /\ Go(c, "reload")
    /\ UNCHANGED catalog /\ InstallOnly

\* reload_catalog loads first and swaps after.
Reload(c) ==
    /\ At(c, "reload")
    /\ inst' = [inst EXCEPT ![c].pc = IF Loads(disk) THEN "swap" ELSE "undo",
                            ![c].loaded = IF Loads(disk) THEN Scanned(disk) ELSE {}]
    /\ UNCHANGED <<disk, catalog>> /\ InstallOnly
Swap(c) ==
    /\ At(c, "swap")
    /\ catalog' = inst[c].loaded /\ Go(c, "done")
    /\ UNCHANGED disk /\ InstallOnly

DropBackup(c) ==
    /\ At(c, "done")
    /\ disk' = IF inst[c].backup THEN [disk EXCEPT ![Backup(Name(c))] = "none"] ELSE disk
    /\ inst' = [inst EXCEPT ![c] = NoInstall]
    /\ UNCHANGED catalog /\ InstallOnly

\* The error of either file operation is ignored.
Undo(c) ==
    /\ At(c, "undo")
    /\ disk' = [disk EXCEPT ![Dest(Name(c))] = "none"] /\ Go(c, "restore")
    /\ UNCHANGED catalog /\ InstallOnly
Restore(c) ==
    /\ At(c, "restore")
    /\ LET n == Name(c) IN
       disk' = IF inst[c].backup /\ disk[Backup(n)] # "none"
               THEN [disk EXCEPT ![Dest(n)] = disk[Backup(n)], ![Backup(n)] = "none"] ELSE disk
    /\ inst' = [inst EXCEPT ![c] = NoInstall]
    /\ UNCHANGED catalog /\ InstallOnly

\* pexe build --install, a process of its own: it compiles the script and
\* restates the module hash, and looks at neither the name nor the classes.
BuildBegin(a) ==
    /\ build = "none" /\ builds < MaxBuilds
    /\ Archives[a].hashOK
    /\ build' = a /\ builds' = builds + 1
    /\ disk' = [disk EXCEPT ![Dest(Archives[a].name)] = "torn"]
    /\ UNCHANGED <<up, catalog, inst, objs, runs, installs, kills>>
BuildEnd ==
    /\ build # "none"
    /\ disk' = [disk EXCEPT ![Dest(Archives[build].name)] = build]
    /\ build' = "none"
    /\ UNCHANGED <<up, catalog, inst, objs, runs, installs, builds, kills>>
-----------------------------------------------------------------------------
(* An action: Driver::check_action, prove, and the recorded outputs.        *)

Matches(o, ref) == objs[o].class = ref.class /\ objs[o].type = ref.hash

\* check_action takes, for each input in turn, the first live object that is
\* not taken yet.
Candidates(ins) ==
    LET pick[i \in 0..Len(ins)] ==
            IF i = 0 THEN <<>>
            ELSE LET free == {o \in Objects : objs[o].st = "live" /\ Matches(o, ins[i])}
                                 \ Ranged(pick[i - 1])
                 IN  IF free = {} THEN pick[i - 1]
                     ELSE Append(pick[i - 1], CHOOSE o \in free : \A p \in free : o <= p)
    IN  pick[Len(ins)]
Feasible(row) == Len(Candidates(row.ins)) = Len(row.ins)

\* validate_execute_request, resolve_inputs and the holds, for a request that
\* names the files os.
Accepted(row, os) ==
    /\ Len(os) = Len(row.ins)
    /\ \A i, j \in DOMAIN os : i # j => os[i] # os[j]
    /\ \A i \in DOMAIN os : objs[os[i]].st = "live" /\ Matches(os[i], row.ins[i])

\* prove takes one catalog for the lookup and the execution.
Prove(r, row, os) ==
    /\ up /\ runs[r].pc = "idle"
    /\ row \in ActionRows(catalog) /\ Accepted(row, os)
    /\ runs' = [runs EXCEPT ![r] = [pc |-> "proving", cat |-> catalog, action |-> row.action, ins |-> os]]
    /\ objs' = [o \in Objects |-> IF o \in Ranged(os) THEN [objs[o] EXCEPT !.st = "held"] ELSE objs[o]]
    /\ UNCHANGED <<disk, up, catalog, inst, build, installs, builds, kills>>

\* Mutant: the catalog of the moment.
ExecutingCatalog_current(r) == catalog
ExecutingCatalog(r) == runs[r].cat

\* The transaction runs its course: the inputs are spent, the outputs get the
\* class the catalog row names and the type the executed module gives them.
Finish(r) ==
    /\ up /\ runs[r].pc = "proving"
    /\ \E row \in {x \in ActionRows(runs[r].cat) : x.action = runs[r].action} :
       \E a \in Routes(ExecutingCatalog(r), runs[r].action) :
       \E x \in {y \in Ranged(ActionsOf(a)) : y.name = row.action[2]} :
       \E new \in {s \in [DOMAIN row.outs -> {o \in Objects : objs[o].st = "free"}] :
                    \A i, j \in DOMAIN s : i < j => s[i] < s[j]} :
         /\ Len(x.outs) = Len(row.outs)
         /\ objs' = [o \in Objects |->
                CASE o \in Ranged(runs[r].ins) -> [objs[o] EXCEPT !.st = "spent", !.by = ModuleOf(a)]
                  [] o \in Ranged(new) ->
                       LET i == CHOOSE j \in DOMAIN new : new[j] = o
                       IN  [st |-> "live", class |-> row.outs[i].class, type |-> <<ModuleOf(a), x.outs[i]>>,
                            by |-> "none"]
                  [] OTHER -> objs[o]]
    /\ runs' = [runs EXCEPT ![r] = NoRun]
    /\ UNCHANGED <<disk, up, catalog, inst, build, installs, builds, kills>>

\* Any failure drops the holds.
Abandon(r) ==
    /\ up /\ runs[r].pc = "proving"
    /\ runs' = [runs EXCEPT ![r] = NoRun]
    /\ objs' = [o \in Objects |-> IF o \in Ranged(runs[r].ins) THEN [objs[o] EXCEPT !.st = "live"] ELSE objs[o]]
    /\ UNCHANGED <<disk, up, catalog, inst, build, installs, builds, kills>>

Requests(row) == [1..Len(row.ins) -> Objects]

Next ==
    \/ Start \/ Stop \/ Kill
    \/ \E c \in Clients : \/ \E a \in Uploads : Install(c, a)
                          \/ MoveAside(c) \/ Truncate(c) \/ Fill(c) \/ Reload(c) \/ Swap(c)
                          \/ DropBackup(c) \/ Undo(c) \/ Restore(c)
    \/ \E a \in DOMAIN Archives : BuildBegin(a)
    \/ BuildEnd
    \/ \E r \in Runners : \/ \E row \in ActionRows(catalog) : \E os \in Requests(row) : Prove(r, row, os)
                          \/ Finish(r) \/ Abandon(r)

Spec == Init /\ [][Next]_vars
-----------------------------------------------------------------------------
Contents == DOMAIN Archives \cup {"none", "torn"}

\* Every variable has its type.
TypeOK ==
    /\ disk \in [Files -> Contents] /\ up \in BOOLEAN
    /\ catalog \subseteq DOMAIN Archives /\ build \in Contents \ {"torn"}
    /\ \A c \in Clients : inst[c].a \in Contents \ {"torn"} /\ inst[c].loaded \subseteq DOMAIN Archives
    /\ \A o \in Objects : objs[o].st \in {"free", "live", "held", "spent"}
    /\ \A r \in Runners : Ranged(runs[r].ins) \subseteq Objects

Quiet == build = "none" /\ \A c \in Clients : inst[c].pc = "idle"

\* With no install under way the running catalog is the one a restart would
\* load, so an installed plugin is usable without one (install_plugin).
CatalogIsDisk == up /\ Quiet => Loads(disk) /\ catalog = Scanned(disk)

\* With no install under way the actions directory loads: neither a failed
\* install nor a killed one keeps the daemon from starting again.
NextStartup == Quiet => Loads(disk)

\* An install that fails to load ends with the previous archive of that name,
\* or none, in its place, and with the catalog it found.
RestoresOnFailure ==
    \A c \in Clients :
        inst[c].pc = "restore" /\ inst'[c].pc = "idle" /\ up' =>
            disk'[Dest(Name(c))] = inst[c].was /\ catalog' = inst[c].cat
\* A plugin the catalog holds is replaced only by an archive of the same name
\* that loads: it does not vanish from the running catalog.
KeepsPlugins ==
    up /\ up' => {Archives[a].name : a \in catalog} \subseteq {Archives[a].name : a \in catalog'}
\* An object is consumed only by an action of the module that defines its
\* type, however the catalog changed while the proof was being made.
SpentByItsModule == \A o \in Objects : objs[o].st = "spent" => objs[o].by = objs[o].type[1]

\* An object's class label and its type come from one archive: what the action
\* row announced is what the executed module made.
LabelsTrue ==
    \A o \in Objects : objs[o].st # "free" =>
        \E a \in DOMAIN Archives : \E r \in ClassRows({a}) : r.class = objs[o].class /\ r.hash = objs[o].type

\* check_action and prove agree: the candidates of a feasible report are
\* accepted, and when the report is not feasible no choice of files is.
FeasibleIsAccepted ==
    \A row \in ActionRows(catalog) :
        /\ Feasible(row) => Accepted(row, Candidates(row.ins))
        /\ (\E os \in Requests(row) : Accepted(row, os)) => Feasible(row)

\* The hash of a class leads back to that class (get_class_by_hash): classes
\* of two plugins stay distinct.
HashNamesClass == \A r \in ClassRows(catalog) : ClassByHash(catalog, r.hash) = r
=============================================================================
