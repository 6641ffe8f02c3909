------------------------------ MODULE VaultHome ------------------------------
(***************************************************************************)
(* The home directory of a ContinuityDB vault and the commands that make   *)
(* and change it: init, setup, projects add, opencode ensure, the opening  *)
(* of a vault, and link-project (src/project-registry.js, the setup and    *)
(* init commands of src/cli.js, the constructor and the project links of   *)
(* src/store.js).                                                          *)
(*                                                                         *)
(* The home holds config.json with the registered projects, the records    *)
(* and index directories, the database, and the file of project links,     *)
(* which the database mirrors.  The commands run in processes of their     *)
(* own; each may be killed between any two of its steps, and the           *)
(* initialization lock, which most of them hold, falls free then.          *)
(*                                                                         *)
(* A rename is one step; a file written in place is two, the empty file    *)
(* first.  Setup's client configurations are the subject of                *)
(* ConfigTransaction, and downloaded models are left out.                  *)
(***************************************************************************)
EXTENDS Naturals, Sequences

CONSTANTS
  Processes,
  Roots,        \* The directories of projects.
  Ids,          \* The project identifiers.
  Candidates,   \* Of a root: the identifier made of its name, then those
                \* with ever more of its digest.
  Links,        \* The project links a user makes.
  NoHolder      \* Of a lock.

ASSUME CandidatesAssumption == Candidates \in [Roots -> Seq(Ids)]
ASSUME NoHolderAssumption == NoHolder \notin Processes

\* The registered project of a config.
Project(id, root) == [id |-> id, root |-> root]

VARIABLES
  home,         \* Whether the directory exists.
  config,       \* config.json: missing, empty (cut off), or its projects.
  dirs,         \* Which of records and index exist.
  db,           \* The database: missing, blank, or its memories.
  links,        \* The file of links.
  table,        \* The links in the database.
  lock,         \* The holder of the initialization lock.
  proc          \* What each process is at.

vars == <<home, config, dirs, db, links, table, lock, proc>>

Missing == [there |-> FALSE]
Empty == [there |-> TRUE, whole |-> FALSE]
Config(projects) == [there |-> TRUE, whole |-> TRUE, projects |-> projects]

NoDatabase == [there |-> FALSE]
Blank == [there |-> TRUE, tables |-> FALSE]
Database(memories) == [there |-> TRUE, tables |-> TRUE, memories |-> memories]
Stored(d) == IF d.there /\ d.tables THEN d.memories ELSE {}

New == [pc |-> "new"]
Ended(why) == [pc |-> "ended", why |-> why]

Commands ==
  {[op |-> "add", project |-> Project(i, r)] : i \in Ids, r \in Roots}
    \union {[op |-> "setup", project |-> Project(i, r)] : i \in Ids, r \in Roots}
    \union {[op |-> "ensure", root |-> r] : r \in Roots}
    \union {[op |-> "link", link |-> l] : l \in Links}
    \union {[op |-> "init"], [op |-> "open"]}

-----------------------------------------------------------------------------
(* The registry.                                                           *)

\* readConfig: no file registers nothing; a cut-off file is refused.
Readable == config.there => config.whole
Registered == IF config.there /\ config.whole THEN config.projects ELSE {}

\* registerProject refuses an identifier of another root and a root of
\* another identifier.
Conflicts(project, projects) ==
  \E p \in projects : (p.id = project.id) # (p.root = project.root)

RootTaken(root, projects) == \E p \in projects : p.root = root

\* The positions of the candidates that no project has.
Free(root, projects) ==
  {n \in DOMAIN Candidates[root] : \A p \in projects : p.id # Candidates[root][n]}

\* projectIdForRegisteredRoot, where there is one.
DerivedId(root, projects) ==
  IF RootTaken(root, projects)
  THEN (CHOOSE p \in projects : p.root = root).id
  ELSE Candidates[root][CHOOSE n \in Free(root, projects) :
                          \A k \in Free(root, projects) : n <= k]

-----------------------------------------------------------------------------
(* Steps of every command.                                                 *)

Begin(p, command) ==
  /\ proc[p] = New
  /\ proc' = [proc EXCEPT ![p] = [pc |-> "lock", command |-> command]]
  /\ UNCHANGED <<home, config, dirs, db, links, table, lock>>

\* A mutant of MayEnter, below: the lock is not taken.
MayAlwaysEnter(p) == TRUE

\* acquireVaultInitializationLock
MayEnter(p) == lock = NoHolder

Acquire(p) ==
  /\ proc[p].pc = "lock"
  /\ MayEnter(p)
  /\ lock' = p
  /\ proc' = [proc EXCEPT ![p].pc = "run"]
  /\ UNCHANGED <<home, config, dirs, db, links, table>>

\* The lock stays held for fifteen seconds.
TimeOut(p) ==
  /\ proc[p].pc = "lock"
  /\ lock # NoHolder
  /\ proc' = [proc EXCEPT ![p] = Ended("timeout")]
  /\ UNCHANGED <<home, config, dirs, db, links, table, lock>>

Unlocked(p) == IF lock = p THEN NoHolder ELSE lock

\* A command stops with an error, or is done.
End(p, why) ==
  /\ lock' = Unlocked(p)
  /\ proc' = [proc EXCEPT ![p] = Ended(why)]

\* What a kill leaves undone that others can notice.
Killed(pc) ==
  CASE pc = "fill"     -> "killed in the config"
    [] pc = "database" -> "killed before the tables"
    [] pc = "load"     -> "killed before the load"
    [] OTHER           -> "killed"

Kill(p) ==
  /\ proc[p].pc \notin {"new", "ended"}
  /\ End(p, Killed(proc[p].pc))
  /\ UNCHANGED <<home, config, dirs, db, links, table>>

At(p, op, pc) == proc[p].pc = pc /\ proc[p].command.op = op

-----------------------------------------------------------------------------
(* projects add and opencode ensure.                                       *)

\* What the command registers among these projects.
Wanted(p, projects) ==
  IF proc[p].command.op = "ensure"
  THEN Project(DerivedId(proc[p].command.root, projects), proc[p].command.root)
  ELSE proc[p].command.project

\* Why there is nothing to write.
Settled(p) ==
  CASE ~Readable -> {"unreadable"}
    [] Readable /\ At(p, "ensure", "run") ->
         LET root == proc[p].command.root
         IN  IF RootTaken(root, Registered) THEN {"done"}
             ELSE IF Free(root, Registered) = {} THEN {"no identifier"} ELSE {}
    [] Readable /\ At(p, "add", "run") ->
         IF Conflicts(proc[p].command.project, Registered) THEN {"conflict"}
         ELSE IF proc[p].command.project \in Registered THEN {"done"} ELSE {}

ReadRegistry(p) ==
  /\ At(p, "add", "run") \/ At(p, "ensure", "run")
  /\ \/ \E why \in Settled(p) : End(p, why)
     \/ /\ Settled(p) = {}
        /\ proc' = [proc EXCEPT ![p] = [pc |-> "write", command |-> proc[p].command,
                                        projects |-> Registered \union {Wanted(p, Registered)}]]
        /\ UNCHANGED lock
  /\ UNCHANGED <<home, config, dirs, db, links, table>>

\* mkdirSync and writeConfig, by a rename.
WriteRegistry(p) ==
  /\ At(p, "add", "write") \/ At(p, "ensure", "write")
  /\ home' = TRUE
  /\ config' = Config(proc[p].projects)
  /\ End(p, "done")
  /\ UNCHANGED <<dirs, db, links, table>>

-----------------------------------------------------------------------------
(* init and the opening of a vault.                                        *)

\* init: the directory and, unless there is one, a config written in place.
MakeHome(p) ==
  /\ At(p, "init", "run")
  /\ home' = TRUE
  /\ config' = IF config.there THEN config ELSE Empty
  /\ proc' = [proc EXCEPT ![p].pc = IF config.there THEN "vault" ELSE "fill"]
  /\ UNCHANGED <<dirs, db, links, table, lock>>

FillConfig(p) ==
  /\ At(p, "init", "fill")
  /\ config' = Config({})
  /\ proc' = [proc EXCEPT ![p].pc = "vault"]
  /\ UNCHANGED <<home, dirs, db, links, table, lock>>

\* The constructor: directories, the file of the database, and its tables
\* with the links loaded.
MakeDirs(p) ==
  /\ At(p, "init", "vault") \/ At(p, "open", "run") \/ At(p, "link", "run")
  /\ home' = TRUE
  /\ dirs' = {"records", "index"}
  /\ proc' = [proc EXCEPT ![p].pc = "create"]
  /\ UNCHANGED <<config, db, links, table, lock>>

CreateDatabase(p) ==
  /\ proc[p].pc = "create"
  /\ db' = IF db.there THEN db ELSE Blank
  /\ proc' = [proc EXCEPT ![p].pc = "database"]
  /\ UNCHANGED <<home, config, dirs, links, table, lock>>

OpenDatabase(p) ==
  /\ proc[p].pc = "database"
  /\ db' = Database(Stored(db))
  /\ table' = links
  /\ lock' = Unlocked(p)
  /\ proc' = [proc EXCEPT ![p] =
                IF proc[p].command.op = "init" THEN Ended("done") ELSE [proc[p] EXCEPT !.pc = "opened"]]
  /\ UNCHANGED <<home, config, dirs, links>>

\* The open vault stores a memory; each process has one of its own.
Store(p) ==
  /\ At(p, "open", "opened")
  /\ db' = Database(db.memories \union {p})
  /\ End(p, "done")
  /\ UNCHANGED <<home, config, dirs, links, table>>

-----------------------------------------------------------------------------
(* linkProjects: nothing is locked but the load.                           *)

ReadLinks(p) ==
  /\ At(p, "link", "opened")
  /\ proc' = [proc EXCEPT ![p] = [pc |-> "rename", command |-> proc[p].command,
                                  links |-> links \union {proc[p].command.link}]]
  /\ UNCHANGED <<home, config, dirs, db, links, table, lock>>

WriteLinks(p) ==
  /\ At(p, "link", "rename")
  /\ links' = proc[p].links
  /\ proc' = [proc EXCEPT ![p].pc = "load"]
  /\ UNCHANGED <<home, config, dirs, db, table, lock>>

\* A mutant of Loaded, below: the links the process wrote.
LoadedOwn(p) == proc[p].links

\* loadProjectLinks reads the file again, inside its transaction.
Loaded(p) == links

LoadLinks(p) ==
  /\ At(p, "link", "load")
  /\ table' = Loaded(p)
  /\ End(p, "done")
  /\ UNCHANGED <<home, config, dirs, db, links>>

-----------------------------------------------------------------------------
(* setup.                                                                  *)

\* A mutant of FirstPart, below: the registration goes first.
ConfigFirst == IF home THEN "config" ELSE "promote"

\* What promotePreparedSetup will move first.
FirstPart == IF home THEN "records" ELSE "promote"

\* prepareSetupHome: what exists, and the staged registration.  A database
\* without tables has no statistics to read.
Prepare(p) ==
  /\ At(p, "setup", "run")
  /\ LET project == proc[p].command.project
     IN  IF ~Readable \/ db = Blank \/ Conflicts(project, Registered)
         THEN End(p, IF db = Blank THEN "no tables" ELSE IF ~Readable THEN "unreadable" ELSE "conflict")
         ELSE /\ proc' = [proc EXCEPT ![p] =
                   [pc |-> FirstPart, command |-> proc[p].command,
                    dirs |-> dirs, database |-> db.there, before |-> config,
                    projects |-> Registered \union {project}]]
              /\ UNCHANGED lock
  /\ UNCHANGED <<home, config, dirs, db, links, table>>

\* Before the promotion, the clients' configurations: they may fail.
Abandon(p) ==
  /\ At(p, "setup", "records") \/ At(p, "setup", "promote")
  /\ End(p, "failed")
  /\ UNCHANGED <<home, config, dirs, db, links, table>>

\* promotePreparedSetup of a new home: the staging directory becomes it.
PromoteHome(p) ==
  /\ At(p, "setup", "promote")
  /\ IF home
     THEN /\ End(p, "appeared")
          /\ UNCHANGED <<home, config, dirs, db>>
     ELSE /\ home' = TRUE
          /\ config' = Config(proc[p].projects)
          /\ dirs' = {"records", "index"}
          /\ db' = Database({})
          /\ End(p, "done")
  /\ UNCHANGED <<links, table>>

\* promoteMissingSetupPath refuses a target that was missing and is no more.
Appeared(p, dir) == dir \notin proc[p].dirs /\ dir \in dirs

\* The directory records.
PromoteRecords(p) ==
  /\ At(p, "setup", "records")
  /\ IF Appeared(p, "records")
     THEN End(p, "appeared") /\ UNCHANGED dirs
     ELSE /\ dirs' = dirs \union {"records"}
          /\ proc' = [proc EXCEPT ![p].pc = "index"]
          /\ UNCHANGED lock
  /\ UNCHANGED <<home, config, db, links, table>>

\* A mutant of Promotes, below: the staged database replaces any.
PromotesAlways(p) == TRUE

\* The staged database is promoted, with its directory if need be, where
\* there was none.
Promotes(p) == ~proc[p].database

PromoteIndex(p) ==
  /\ At(p, "setup", "index")
  /\ dirs' = dirs \union {"index"}
  /\ db' = IF Promotes(p) THEN Database({}) ELSE db
  /\ proc' = [proc EXCEPT ![p].pc = "config"]
  /\ UNCHANGED <<home, config, links, table, lock>>

\* promoteSetupConfig, the commit point; not when nothing is to register.
PromoteConfig(p) ==
  /\ At(p, "setup", "config")
  /\ LET changed == proc[p].command.project \notin Registered
     IN  /\ config' = IF changed /\ config = proc[p].before THEN Config(proc[p].projects) ELSE config
         /\ End(p, IF changed /\ config # proc[p].before THEN "appeared" ELSE "done")
  /\ UNCHANGED <<home, dirs, db, links, table>>

-----------------------------------------------------------------------------

Init ==
  /\ home = FALSE
  /\ config = Missing
  /\ dirs = {}
  /\ db = NoDatabase
  /\ links = {}
  /\ table = {}
  /\ lock = NoHolder
  /\ proc = [p \in Processes |-> New]

Step(p) ==
  \/ Acquire(p)
  \/ TimeOut(p)
  \/ ReadRegistry(p)
  \/ WriteRegistry(p)
  \/ MakeHome(p)
  \/ FillConfig(p)
  \/ MakeDirs(p)
  \/ CreateDatabase(p)
  \/ OpenDatabase(p)
  \/ Store(p)
  \/ ReadLinks(p)
  \/ WriteLinks(p)
  \/ LoadLinks(p)
  \/ Prepare(p)
  \/ Abandon(p)
  \/ PromoteHome(p)
  \/ PromoteRecords(p)
  \/ PromoteIndex(p)
  \/ PromoteConfig(p)

Next ==
  \E p \in Processes :
    \/ \E command \in Commands : Begin(p, command)
    \/ Step(p)
    \/ Kill(p)

Spec == Init /\ [][Next]_vars

-----------------------------------------------------------------------------
(* Properties.                                                             *)

\* The shape of the state; whoever is between taking and giving up the lock
\* holds it.
TypeOK ==
  /\ home \in BOOLEAN
  /\ config \in {Missing, Empty} \union {Config(s) : s \in SUBSET [id : Ids, root : Roots]}
  /\ dirs \subseteq {"records", "index"}
  /\ db \in {NoDatabase, Blank} \union {Database(s) : s \in SUBSET Processes}
  /\ links \subseteq Links /\ table \subseteq Links
  /\ lock \in Processes \union {NoHolder}
  /\ DOMAIN proc = Processes
  /\ \A p \in Processes :
       proc[p].pc \in {"run", "write", "fill", "vault", "create", "database", "records", "index", "config", "promote"}
         => lock = p

\* Whichever commands register at once and wherever one is killed, a project
\* registered once stays registered.
RegistrationsKept == [][Registered \subseteq Registered']_vars

\* No two projects share an identifier or a root, neither those a user names
\* nor those ensure derives.
UniqueProjects ==
  \A p, q \in Registered : p.id = q.id \/ p.root = q.root => p = q

\* No setup puts its staged, empty database in the place of one that memories
\* were stored in.
MemoriesKept ==
  [][Stored(db) \subseteq Stored(db)']_vars

\* Config is setup's commit point: a project is registered by setup only in a
\* home that is complete, wherever the setup was killed.
CommittedIsUsable ==
  [][\A p \in Processes :
       proc[p].pc \in {"promote", "config"} /\ proc'[p] # proc[p] /\ Registered' # Registered
         => home' /\ dirs' = {"records", "index"} /\ db'.there /\ db'.tables]_vars

\* The lock keeps a command from meeting what another is in the middle of.
\* Only a kill leaves that: of an init that was writing the config, which
\* nothing mends, or of whoever was creating the database, whose missing
\* tables stop setup until an opening of the vault makes them.
Restartable ==
  \A p \in Processes :
    proc[p].pc = "ended" =>
      /\ proc[p].why # "appeared"
      /\ proc[p].why = "unreadable" =>
           config = Empty /\ \E q \in Processes : proc[q] = Ended("killed in the config")
      /\ proc[p].why = "no tables" =>
           \E q \in Processes : proc[q] = Ended("killed before the tables")

\* The database's links are the file's, unless a process is about to load
\* them or was killed before it did.
TableFollowsFile ==
  (db.there /\ db.tables) /\ table # links =>
    \E p \in Processes : proc[p].pc = "load" \/ proc[p] = Ended("killed before the load")
=============================================================================
