---------------------------- MODULE SetupProofs -----------------------------
(***************************************************************************)
(* What the commands keep of a home directory, whichever of them run at    *)
(* once and wherever one is killed; and, in the second part, what connect  *)
(* and disconnect keep of the clients' files.                              *)
(*                                                                         *)
(* A command that holds the initialization lock has read what it goes on   *)
(* with: HeldOK says what of it is still so.  Only the holder changes the  *)
(* home, the config and the directories, so that a step of one process     *)
(* can disturb nobody else's part of the invariant.                        *)
(***************************************************************************)
EXTENDS VaultHome, AgentAdapters, WellFoundedInduction, TLAPS

AllProjects == [id : Ids, root : Roots]

SetupPCs == {"promote", "records", "index", "config"}
HeldPCs == {"run", "write", "fill", "vault", "create", "database"} \union SetupPCs
PCs == HeldPCs \union {"new", "lock", "opened", "rename", "load", "ended"}

Unique(projects) == \A p, q \in projects : p.id = q.id \/ p.root = q.root => p = q

\* The record of what a process is at.
Shape(w) ==
  /\ "pc" \in DOMAIN w /\ w.pc \in PCs
  /\ w.pc \notin {"new", "ended"} => "command" \in DOMAIN w /\ w.command \in Commands
  /\ w.pc \in {"rename", "load"} => "links" \in DOMAIN w /\ w.links \subseteq Links
  /\ w.pc \in SetupPCs \union {"write"} =>
       "projects" \in DOMAIN w /\ w.projects \subseteq AllProjects /\ Unique(w.projects)
  /\ w.pc \in SetupPCs =>
       w.command.op = "setup" /\ {"dirs", "database", "before"} \subseteq DOMAIN w
  /\ w.pc = "ended" => w.why # "appeared"

\* What a holder of the lock has read or made, and still finds.
HeldOK(w) ==
  /\ w.pc = "fill" => config = Empty
  /\ w.pc \in SetupPCs \union {"write"} => Readable /\ Registered \subseteq w.projects
  /\ w.pc \in SetupPCs => w.before = config /\ db # Blank
  /\ w.pc = "promote" => ~home
  /\ w.pc \in {"fill", "vault", "create", "database"} => home
  /\ w.pc \in {"records", "index"} => home /\ w.database = db.there
  /\ w.pc = "records" => w.dirs = dirs
  /\ w.pc = "index" => "records" \in dirs
  /\ w.pc = "config" => home /\ dirs = {"records", "index"} /\ db.there

\* An open vault has its tables.
OpenOK(w) == w.pc = "opened" => db.there /\ db.tables

Unreadable == \E p \in Processes : proc[p].pc = "ended" /\ proc[p].why = "unreadable"

World ==
  /\ ~home => config = Missing /\ db = NoDatabase
  /\ Unique(Registered)

\* Nobody writes the config that a command found cut off.
Cut == Unreadable => config = Empty /\ \A p \in Processes : proc[p].pc # "fill"

IInv ==
  /\ TypeOK
  /\ \A p \in Processes : Shape(proc[p])
  /\ \A p \in Processes : HeldOK(proc[p])
  /\ \A p \in Processes : OpenOK(proc[p])
  /\ World
  /\ Cut

USE CandidatesAssumption, NoHolderAssumption

-----------------------------------------------------------------------------
(* What the config and the commands are.                                   *)

Facts ==
  /\ config \in {Missing, Empty} \union {Config(s) : s \in SUBSET AllProjects} =>
       \/ config = Missing /\ Readable /\ Registered = {}
       \/ config = Empty /\ ~Readable /\ Registered = {}
       \/ /\ config.there /\ config.whole /\ Readable
          /\ Registered \subseteq AllProjects /\ config = Config(Registered)
  /\ \A s : config = Config(s) => Readable /\ Registered = s

LEMMA ConfigFacts == Facts /\ Facts'
<1>1. Facts
  BY DEF Facts, Missing, Empty, Config, Readable, Registered
<1>2. Facts'
  BY DEF Facts, Missing, Empty, Config, Readable, Registered
<1> QED
  BY <1>1, <1>2

LEMMA CommandFacts ==
  ASSUME NEW c \in Commands
  PROVE  /\ c.op \in {"add", "setup"} => c.project \in AllProjects
         /\ c.op = "ensure" => c.root \in Roots
         /\ c.op = "link" => c.link \in Links
<1>1. CASE c \in {[op |-> "add", project |-> Project(i, r)] : i \in Ids, r \in Roots}
  BY <1>1 DEF Project, AllProjects
<1>2. CASE c \in {[op |-> "setup", project |-> Project(i, r)] : i \in Ids, r \in Roots}
  BY <1>2 DEF Project, AllProjects
<1>3. CASE c \in {[op |-> "ensure", root |-> r] : r \in Roots}
  BY <1>3
<1>4. CASE c \in {[op |-> "link", link |-> l] : l \in Links}
  BY <1>4
<1>5. CASE c \in {[op |-> "init"], [op |-> "open"]}
  BY <1>5
<1> QED
  BY <1>1, <1>2, <1>3, <1>4, <1>5 DEF Commands

\* The first free candidate of a root is one of its candidates, and free.
LEMMA FreeCandidate ==
  ASSUME NEW root \in Roots, NEW projects, Free(root, projects) # {}, ~RootTaken(root, projects)
  PROVE  /\ DerivedId(root, projects) \in Ids
         /\ \A p \in projects : p.id # DerivedId(root, projects)
<1> DEFINE F == Free(root, projects)
           n == CHOOSE n \in F : \A k \in F : n <= k
<1>1. F \subseteq Nat /\ F \subseteq DOMAIN Candidates[root]
  BY DEF Free
<1>2. \E x \in F : \A y \in F : ~(<<y, x>> \in OpToRel(<, Nat))
  BY <1>1, NatLessThanWellFounded, WFMin
<1>3. \E x \in F : \A y \in F : x <= y
  <2>1. PICK x \in F : \A y \in F : ~(<<y, x>> \in OpToRel(<, Nat))
    BY <1>2
  <2>2. ASSUME NEW y \in F PROVE x <= y
    <3>1. x \in Nat /\ y \in Nat
      BY <1>1
    <3>2. y < x => <<y, x>> \in {ss \in Nat \X Nat : ss[1] < ss[2]}
      BY <3>1
    <3>3. ~(y < x)
      BY <2>1, <3>2 DEF OpToRel
    <3> QED
      BY <3>1, <3>3
  <2> QED
    BY <2>2
<1>4. n \in F
  BY <1>3
<1>5. DerivedId(root, projects) = Candidates[root][n]
  BY DEF DerivedId
<1>6. Candidates[root][n] \in Ids
  BY <1>1, <1>4
<1>7. \A p \in projects : p.id # Candidates[root][n]
  BY <1>4 DEF Free
<1> QED
  BY <1>5, <1>6, <1>7

\* Registering a project without a conflict, or a new one, keeps identifiers
\* and roots apart.
LEMMA UniqueAfterAdd ==
  ASSUME NEW projects \in SUBSET AllProjects, Unique(projects),
         NEW project \in AllProjects, ~Conflicts(project, projects)
  PROVE  Unique(projects \union {project})
<1>1. ASSUME NEW p \in AllProjects, NEW q \in AllProjects, p.id = q.id, p.root = q.root PROVE p = q
  <2>1. p = [id |-> p.id, root |-> p.root] /\ q = [id |-> q.id, root |-> q.root]
    BY DEF AllProjects
  <2> QED
    BY <1>1, <2>1
<1>2. ASSUME NEW p \in projects PROVE p.id = project.id <=> p.root = project.root
  <2>1. ~((p.id = project.id) # (p.root = project.root))
    BY DEF Conflicts
  <2>2. CASE p.id = project.id
    BY <2>1, <2>2, Zenon
  <2>3. CASE p.id # project.id
    BY <2>1, <2>3, Zenon
  <2> QED
    BY <2>2, <2>3
<1>3. SUFFICES ASSUME NEW p \in projects \union {project}, NEW q \in projects \union {project},
                      p.id = q.id \/ p.root = q.root
               PROVE  p = q
  BY DEF Unique
<1>4. CASE p \in projects /\ q \in projects
  BY <1>3, <1>4 DEF Unique
<1>5. CASE p = project \/ q = project
  BY <1>1, <1>2, <1>3, <1>5
<1> QED
  BY <1>4, <1>5

-----------------------------------------------------------------------------
(* What a step of one process does to the others.                          *)

Typed ==
  /\ home \in BOOLEAN
  /\ config \in {Missing, Empty} \union {Config(s) : s \in SUBSET AllProjects}
  /\ dirs \subseteq {"records", "index"}
  /\ db \in {NoDatabase, Blank} \union {Database(s) : s \in SUBSET Processes}
  /\ links \subseteq Links /\ table \subseteq Links
  /\ lock \in Processes \union {NoHolder}

Holding == DOMAIN proc = Processes /\ \A p \in Processes : proc[p].pc \in HeldPCs => lock = p

LEMMA TypeParts == (TypeOK <=> Typed /\ Holding) /\ (TypeOK <=> Typed /\ Holding)'
BY DEF TypeOK, Typed, Holding, HeldPCs, SetupPCs, AllProjects

\* What the database is.
DatabaseKinds ==
  \/ db = NoDatabase /\ db.there = FALSE
  \/ db = Blank /\ db.there = TRUE /\ db.tables = FALSE
  \/ /\ db.there = TRUE /\ db.tables = TRUE /\ db # Blank /\ db # NoDatabase
     /\ db.memories \subseteq Processes /\ db = Database(db.memories)

LEMMA DatabaseFacts == (Typed => DatabaseKinds) /\ (Typed => DatabaseKinds)'
<1>1. Typed => DatabaseKinds
  BY DEF Typed, DatabaseKinds, NoDatabase, Blank, Database
<1>2. (Typed => DatabaseKinds)'
  BY DEF Typed, DatabaseKinds, NoDatabase, Blank, Database
<1> QED
  BY <1>1, <1>2

\* A step of the holder of the lock: nobody else relies on what it changes,
\* except for a database that is open.
LEMMA HolderSteps ==
  ASSUME IInv, NEW p \in Processes, proc[p].pc \in HeldPCs,
         NEW w, proc' = [proc EXCEPT ![p] = w], Shape(w),
         lock' = lock \/ (lock' = NoHolder /\ w.pc \notin HeldPCs),
         Typed', HeldOK(w)', OpenOK(w)', World',
         db.there /\ db.tables => db'.there /\ db'.tables,
         Unreadable => config' = Empty /\ w.pc # "fill",
         w.pc = "ended" /\ w.why = "unreadable" => config' = Empty
  PROVE  IInv'
<1>1. lock = p /\ DOMAIN proc = Processes
  BY TypeParts DEF IInv, Holding
<1>2. \A q \in Processes : q # p => proc[q].pc \notin HeldPCs /\ proc'[q] = proc[q]
  BY <1>1, TypeParts DEF IInv, Holding
<1>3. proc'[p] = w
  BY <1>1
<1>4. Holding'
  BY <1>1, <1>2, <1>3 DEF Holding
<1>5. ASSUME NEW q \in Processes PROVE Shape(proc'[q])
  BY <1>2, <1>3 DEF IInv
<1>6. (\A q \in Processes : Shape(proc[q]))'
  BY <1>5
<1>7. ASSUME NEW q \in Processes PROVE HeldOK(proc[q])'
  <2>1. CASE q = p
    BY <1>3, <2>1 DEF HeldOK
  <2>2. CASE q # p
    BY <1>2, <2>2 DEF HeldOK, HeldPCs, SetupPCs
  <2> QED
    BY <2>1, <2>2
<1>8. ASSUME NEW q \in Processes PROVE OpenOK(proc[q])'
  <2>1. CASE q = p
    BY <1>3, <2>1 DEF OpenOK
  <2>2. CASE q # p
    BY <1>2, <2>2 DEF IInv, OpenOK
  <2> QED
    BY <2>1, <2>2
<1>9. Cut'
  <2>1. Unreadable' => Unreadable \/ (w.pc = "ended" /\ w.why = "unreadable")
    BY <1>2, <1>3 DEF Unreadable
  <2>2. \A q \in Processes : q # p => proc'[q].pc # "fill"
    BY <1>2 DEF HeldPCs
  <2> QED
    BY <1>3, <2>1, <2>2 DEF Cut
<1> QED
  BY <1>4, <1>6, <1>7, <1>8, <1>9, TypeParts DEF IInv

\* A step that leaves the home, the config and the directories alone.
LEMMA OtherSteps ==
  ASSUME IInv, NEW p \in Processes, NEW w, proc' = [proc EXCEPT ![p] = w], Shape(w),
         home' = home, config' = config, dirs' = dirs,
         db' = db \/ (db.there /\ db.tables /\ db'.there /\ db'.tables),
         \/ lock' = lock /\ w.pc \notin HeldPCs
         \/ lock = p /\ lock' = NoHolder /\ w.pc \notin HeldPCs
         \/ lock = NoHolder /\ lock' = p /\ w.pc = "run",
         Typed', OpenOK(w)',
         w.pc = "ended" => w.why # "unreadable"
  PROVE  IInv'
<1>1. DOMAIN proc = Processes /\ \A q \in Processes : proc[q].pc \in HeldPCs => lock = q
  BY TypeParts DEF IInv, Holding
<1>2. proc'[p] = w /\ \A q \in Processes : q # p => proc'[q] = proc[q]
  BY <1>1
<1>3. Holding'
  BY <1>1, <1>2 DEF Holding
<1>4. ASSUME NEW q \in Processes PROVE Shape(proc'[q])
  BY <1>2 DEF IInv
<1>5. (\A q \in Processes : Shape(proc[q]))'
  BY <1>4
<1>6. db.there = db'.there /\ (db # Blank => db' # Blank) /\ (db.there => db.tables = db'.tables)
  <2>1. DatabaseKinds /\ DatabaseKinds'
    BY DatabaseFacts, TypeParts DEF IInv
  <2> QED
    BY <2>1 DEF DatabaseKinds, NoDatabase, Blank
<1>7. ASSUME NEW q \in Processes PROVE HeldOK(proc[q])'
  <2>1. CASE q = p
    BY <1>2, <2>1 DEF HeldOK, HeldPCs, SetupPCs
  <2>2. CASE q # p
    <3>1. HeldOK(proc[q]) /\ proc'[q] = proc[q]
      BY <1>2, <2>2 DEF IInv
    <3>2. (Readable <=> Readable') /\ Registered' = Registered
      BY DEF Readable, Registered
    <3> QED
      BY <1>6, <3>1, <3>2 DEF HeldOK
  <2> QED
    BY <2>1, <2>2
<1>8. ASSUME NEW q \in Processes PROVE OpenOK(proc[q])'
  BY <1>2, <1>6 DEF IInv, OpenOK
<1>9. World'
  <2>1. Registered' = Registered
    BY DEF Registered
  <2>2. db.there => db # NoDatabase
    BY DEF NoDatabase
  <2> QED
    BY <2>1, <2>2 DEF IInv, World
<1>10. Cut'
  <2>1. Unreadable' => Unreadable
    BY <1>2 DEF Unreadable
  <2>2. w.pc # "fill"
    BY DEF HeldPCs
  <2>3. \A q \in Processes : proc'[q].pc = "fill" => proc[q].pc = "fill"
    BY <1>2, <2>2
  <2> QED
    BY <2>1, <2>3 DEF Cut, IInv
<1> QED
  BY <1>3, <1>5, <1>7, <1>8, <1>9, <1>10, TypeParts DEF IInv

-----------------------------------------------------------------------------
(* The actions of every command.                                           *)

\* What a step knows of its process.
LEMMA Known ==
  ASSUME IInv, NEW p \in Processes
  PROVE  /\ Typed /\ Holding /\ World /\ DatabaseKinds /\ DOMAIN proc = Processes
         /\ Shape(proc[p]) /\ HeldOK(proc[p]) /\ OpenOK(proc[p])
         /\ Unreadable => config = Empty /\ proc[p].pc # "fill"
BY TypeParts, DatabaseFacts DEF IInv, Holding, Cut

\* A process that only gets on.
LEMMA MoveShape ==
  ASSUME NEW v, Shape(v), v.pc \notin {"new", "ended"},
         NEW pc \in PCs \ {"new", "ended", "rename", "write", "promote", "records"},
         pc \in {"load"} => v.pc = "rename",
         pc \in {"index", "config"} => v.pc \in SetupPCs,
         NEW w, w = [v EXCEPT !.pc = pc]
  PROVE  /\ Shape(w) /\ w.pc = pc /\ w.command = v.command
         /\ pc \in SetupPCs => /\ w.projects = v.projects /\ w.before = v.before
                              /\ w.dirs = v.dirs /\ w.database = v.database
<1>1. "pc" \in DOMAIN v /\ "command" \in DOMAIN v
  BY DEF Shape
<1>2. DOMAIN w = DOMAIN v /\ w.pc = pc /\ \A x \in DOMAIN v : x # "pc" => w[x] = v[x]
  BY <1>1
<1>3. w.command = v.command
  BY <1>1, <1>2
<1>4. CASE pc \in SetupPCs
  <2>1. v.pc \in SetupPCs
    BY <1>4 DEF SetupPCs
  <2>2. {"projects", "dirs", "database", "before"} \subseteq DOMAIN v
    BY <2>1 DEF Shape
  <2>3. w.projects = v.projects /\ w.before = v.before /\ w.dirs = v.dirs /\ w.database = v.database
    BY <1>2, <2>2
  <2>4. Shape(w)
    BY <1>1, <1>2, <1>3, <1>4, <2>1, <2>2, <2>3 DEF Shape, SetupPCs
  <2> QED
    BY <1>2, <1>3, <2>3, <2>4
<1>5. CASE pc = "load"
  <2>1. "links" \in DOMAIN v
    BY <1>5 DEF Shape
  <2> QED
    BY <1>1, <1>2, <1>3, <1>5, <2>1 DEF Shape, SetupPCs
<1>6. CASE pc \notin SetupPCs /\ pc # "load"
  BY <1>1, <1>2, <1>3, <1>6 DEF Shape, SetupPCs
<1> QED
  BY <1>4, <1>5, <1>6

LEMMA EndedShape ==
  ASSUME NEW why, why # "appeared"
  PROVE  Shape(Ended(why)) /\ Ended(why).pc = "ended" /\ Ended(why).why = why
BY DEF Shape, Ended, PCs, SetupPCs

\* A command that ends and leaves the home and the config alone.
LEMMA EndKeeps ==
  ASSUME IInv, NEW p \in Processes, NEW why, why \notin {"appeared", "unreadable"},
         End(p, why), home' = home, config' = config, dirs' = dirs,
         db' = db \/ (db.there /\ db.tables /\ db'.there /\ db'.tables),
         db' \in {NoDatabase, Blank} \union {Database(s) : s \in SUBSET Processes},
         links' \subseteq Links, table' \subseteq Links
  PROVE  IInv'
<1>1. PICK w : w = Ended(why)
  OBVIOUS
<1>2. Shape(w) /\ w.pc = "ended" /\ w.why = why
  BY <1>1, EndedShape
<1>3. proc' = [proc EXCEPT ![p] = w]
  BY <1>1 DEF End
<1>4. Typed' /\ OpenOK(w)'
  BY <1>2, Known DEF Typed, OpenOK, End, Unlocked
<1>5. lock' = lock \/ (lock = p /\ lock' = NoHolder)
  BY DEF End, Unlocked
<1>6. w.pc \notin HeldPCs
  BY <1>2 DEF HeldPCs, SetupPCs
<1> QED
  BY <1>2, <1>3, <1>4, <1>5, <1>6, OtherSteps

LEMMA BeginKeeps ==
  ASSUME IInv, NEW p \in Processes, NEW command \in Commands, Begin(p, command)
  PROVE  IInv'
<1>1. PICK w : w = [pc |-> "lock", command |-> command]
  OBVIOUS
<1>2. Shape(w) /\ w.pc = "lock"
  BY <1>1 DEF Shape, PCs, SetupPCs
<1>3. proc' = [proc EXCEPT ![p] = w]
  BY <1>1 DEF Begin
<1>4. Typed' /\ OpenOK(w)' /\ w.pc \notin HeldPCs
  BY <1>2, Known DEF Typed, OpenOK, Begin, HeldPCs, SetupPCs
<1> QED
  BY <1>2, <1>3, <1>4, OtherSteps DEF Begin

LEMMA AcquireKeeps ==
  ASSUME IInv, NEW p \in Processes, Acquire(p)
  PROVE  IInv'
<1>1. PICK w : w = [proc[p] EXCEPT !.pc = "run"]
  OBVIOUS
<1>2. Shape(w) /\ w.pc = "run"
  <2>1. Shape(proc[p]) /\ proc[p].pc = "lock"
    BY Known DEF Acquire
  <2>2. "run" \in PCs
    BY DEF PCs, HeldPCs
  <2> QED
    BY <1>1, <2>1, <2>2, MoveShape
<1>3. proc' = [proc EXCEPT ![p] = w]
  BY <1>1, Known DEF Acquire
<1>4. Typed' /\ OpenOK(w)'
  BY <1>2, Known DEF Typed, OpenOK, Acquire
<1> QED
  BY <1>2, <1>3, <1>4, OtherSteps DEF Acquire, MayEnter

LEMMA TimeOutKeeps ==
  ASSUME IInv, NEW p \in Processes, TimeOut(p)
  PROVE  IInv'
<1>1. PICK w : w = Ended("timeout")
  OBVIOUS
<1>2. Shape(w) /\ w.pc = "ended" /\ w.why = "timeout"
  BY <1>1, EndedShape
<1>3. proc' = [proc EXCEPT ![p] = w]
  BY <1>1 DEF TimeOut
<1>4. Typed' /\ OpenOK(w)' /\ w.pc \notin HeldPCs
  BY <1>2, Known DEF Typed, OpenOK, TimeOut, HeldPCs, SetupPCs
<1> QED
  BY <1>2, <1>3, <1>4, OtherSteps DEF TimeOut

LEMMA KillKeeps ==
  ASSUME IInv, NEW p \in Processes, Kill(p)
  PROVE  IInv'
<1>1. Typed
  BY Known
<1>2. PICK why : why = Killed(proc[p].pc)
  OBVIOUS
<1>3. why \notin {"appeared", "unreadable"}
  BY <1>2 DEF Killed
<1>4. End(p, why)
  BY <1>2 DEF Kill
<1> QED
  BY <1>1, <1>3, <1>4, EndKeeps DEF Kill, Typed

-----------------------------------------------------------------------------
(* projects add and opencode ensure.                                       *)

\* What a command is about to register brings no identifier or root in twice.
LEMMA WantedIsNew ==
  ASSUME IInv, NEW p \in Processes, At(p, "add", "run") \/ At(p, "ensure", "run"), Settled(p) = {}
  PROVE  /\ Readable
         /\ Registered \union {Wanted(p, Registered)} \in SUBSET AllProjects
         /\ Unique(Registered \union {Wanted(p, Registered)})
<1> DEFINE c == proc[p].command
           project == Wanted(p, Registered)
<1>1. /\ c \in Commands /\ c.op \in {"add", "ensure"} /\ proc[p].pc = "run"
      /\ Unique(Registered) /\ Registered \subseteq AllProjects
  <2>1. Shape(proc[p]) /\ World /\ Typed
    BY Known
  <2> QED
    BY <2>1, ConfigFacts DEF Shape, World, Typed, Facts, At
<1>2. Readable
  BY DEF Settled
<1>3. CASE c.op = "add"
  <2>1. c.project \in AllProjects /\ project = c.project
    BY <1>1, <1>3, CommandFacts DEF Wanted
  <2>2. Settled(p) = IF Conflicts(c.project, Registered) THEN {"conflict"}
                     ELSE IF c.project \in Registered THEN {"done"} ELSE {}
    BY <1>1, <1>2, <1>3 DEF Settled, At
  <2>3. ~Conflicts(project, Registered)
    BY <2>1, <2>2
  <2> QED
    BY <1>1, <1>2, <2>1, <2>3, UniqueAfterAdd
<1>4. CASE c.op = "ensure"
  <2>1. c.root \in Roots
    BY <1>1, <1>4, CommandFacts
  <2>2. Settled(p) = IF RootTaken(c.root, Registered) THEN {"done"}
                     ELSE IF Free(c.root, Registered) = {} THEN {"no identifier"} ELSE {}
    BY <1>1, <1>2, <1>4 DEF Settled, At
  <2>3. ~RootTaken(c.root, Registered) /\ Free(c.root, Registered) # {}
    BY <2>2
  <2>4. /\ DerivedId(c.root, Registered) \in Ids
        /\ \A q \in Registered : q.id # DerivedId(c.root, Registered)
    BY <2>1, <2>3, FreeCandidate
  <2>5. project = [id |-> DerivedId(c.root, Registered), root |-> c.root] /\ project \in AllProjects
    BY <1>4, <2>1, <2>4 DEF Wanted, Project, AllProjects
  <2>6. \A q \in Registered : q.id # project.id /\ q.root # project.root
    BY <2>3, <2>4, <2>5 DEF RootTaken
  <2>7. ~Conflicts(project, Registered)
    <3>1. ASSUME NEW q \in Registered PROVE ~((q.id = project.id) # (q.root = project.root))
      <4>1. (q.id = project.id) = FALSE /\ (q.root = project.root) = FALSE
        BY <2>6
      <4> QED
        BY <4>1, Zenon
    <3> QED
      BY <3>1, Zenon DEF Conflicts
  <2> QED
    BY <1>1, <1>2, <2>5, <2>7, UniqueAfterAdd
<1> QED
  BY <1>1, <1>3, <1>4

LEMMA ReadRegistryKeeps ==
  ASSUME IInv, NEW p \in Processes, ReadRegistry(p)
  PROVE  IInv'
<1>1. /\ At(p, "add", "run") \/ At(p, "ensure", "run")
      /\ proc[p].pc = "run" /\ proc[p].pc \in HeldPCs
      /\ Typed /\ Holding /\ World /\ Shape(proc[p]) /\ lock = p
      /\ UNCHANGED <<home, config, dirs, db, links, table>>
  BY Known DEF ReadRegistry, At, HeldPCs, Holding
<1>2. ASSUME NEW why \in Settled(p), End(p, why) PROVE IInv'
  <2>1. CASE ~Readable
    <3>1. why = "unreadable" /\ config = Empty
      BY <1>1, <1>2, <2>1, ConfigFacts DEF Settled, Facts, Typed
    <3>2. PICK w : w = Ended(why)
      OBVIOUS
    <3>3. Shape(w) /\ w.pc = "ended" /\ w.why = why
      BY <3>1, <3>2, EndedShape
    <3>4. proc' = [proc EXCEPT ![p] = w] /\ lock' = NoHolder /\ w.pc \notin HeldPCs
      BY <1>1, <1>2, <3>2, <3>3 DEF End, Unlocked, HeldPCs, SetupPCs
    <3>5. Typed' /\ OpenOK(w)' /\ HeldOK(w)' /\ World'
      BY <1>1, <3>3, <3>4 DEF Typed, OpenOK, HeldOK, SetupPCs, World, Registered, Unique
    <3> QED
      BY <1>1, <3>1, <3>3, <3>4, <3>5, HolderSteps
  <2>2. CASE Readable
    <3>1. why \notin {"appeared", "unreadable"}
      BY <1>1, <1>2, <2>2 DEF Settled, At
    <3> QED
      BY <1>1, <1>2, <3>1, EndKeeps DEF Typed
  <2> QED
    BY <2>1, <2>2
<1>3. ASSUME Settled(p) = {}, lock' = lock,
             proc' = [proc EXCEPT ![p] = [pc |-> "write", command |-> proc[p].command,
                                          projects |-> Registered \union {Wanted(p, Registered)}]]
      PROVE  IInv'
  <2>1. PICK w : w = [pc |-> "write", command |-> proc[p].command,
                      projects |-> Registered \union {Wanted(p, Registered)}]
    OBVIOUS
  <2>2. /\ Readable /\ w.projects \in SUBSET AllProjects /\ Unique(w.projects)
    BY <1>1, <1>3, <2>1, WantedIsNew
  <2>3. w.pc = "write" /\ w.command \in Commands /\ Registered \subseteq w.projects
    BY <1>1, <2>1 DEF Shape
  <2>4. Shape(w)
    BY <2>1, <2>2, <2>3 DEF Shape, PCs, HeldPCs, SetupPCs
  <2>5. Typed' /\ OpenOK(w)' /\ HeldOK(w)' /\ World'
    BY <1>1, <1>3, <2>2, <2>3 DEF Typed, OpenOK, HeldOK, SetupPCs, World, Registered, Unique, Readable
  <2>6. Unreadable => config' = Empty
    BY <1>1, Known
  <2> QED
    BY <1>1, <1>3, <2>1, <2>3, <2>4, <2>5, <2>6, HolderSteps
<1> QED
  BY <1>2, <1>3 DEF ReadRegistry

LEMMA WriteRegistryKeeps ==
  ASSUME IInv, NEW p \in Processes, WriteRegistry(p)
  PROVE  IInv'
<1>1. /\ proc[p].pc = "write" /\ proc[p].pc \in HeldPCs
      /\ Typed /\ Holding /\ World /\ Shape(proc[p]) /\ HeldOK(proc[p]) /\ lock = p
      /\ Unreadable => config = Empty
  BY Known DEF WriteRegistry, At, HeldPCs, Holding
<1>2. /\ proc[p].projects \subseteq AllProjects /\ Unique(proc[p].projects) /\ Readable
  BY <1>1 DEF Shape, HeldOK
<1>3. config' = Config(proc[p].projects) /\ Registered' = proc[p].projects /\ home'
  BY ConfigFacts DEF WriteRegistry, Facts, Config, Registered
<1>4. PICK w : w = Ended("done")
  OBVIOUS
<1>5. Shape(w) /\ w.pc = "ended" /\ w.why = "done"
  BY <1>4, EndedShape
<1>6. proc' = [proc EXCEPT ![p] = w] /\ lock' = NoHolder /\ w.pc \notin HeldPCs
  BY <1>1, <1>4, <1>5 DEF WriteRegistry, End, Unlocked, HeldPCs, SetupPCs
<1>7. Typed' /\ OpenOK(w)' /\ HeldOK(w)' /\ World'
  BY <1>1, <1>2, <1>3, <1>5, <1>6 DEF WriteRegistry, Typed, OpenOK, HeldOK, SetupPCs, World, Unique
<1>8. ~Unreadable
  BY <1>1, <1>2 DEF Readable, Empty
<1> QED
  BY <1>1, <1>5, <1>6, <1>7, <1>8, HolderSteps DEF WriteRegistry

-----------------------------------------------------------------------------
(* init, the opening of a vault, and link-project.                         *)

LEMMA MakeHomeKeeps ==
  ASSUME IInv, NEW p \in Processes, MakeHome(p)
  PROVE  IInv'
<1>1. /\ proc[p].pc = "run" /\ proc[p].pc \in HeldPCs
      /\ Typed /\ World /\ Shape(proc[p]) /\ DOMAIN proc = Processes
      /\ Unreadable => config = Empty
  BY Known DEF MakeHome, At, HeldPCs
<1> DEFINE next == IF config.there THEN "vault" ELSE "fill"
<1>2. PICK w : w = [proc[p] EXCEPT !.pc = next]
  OBVIOUS
<1>3. Shape(w) /\ w.pc = next
  <2>1. next \in PCs /\ next \in {"vault", "fill"}
    BY DEF PCs, HeldPCs
  <2>2. Shape(proc[p]) /\ proc[p].pc \notin {"new", "ended", "write"}
    BY <1>1
  <2>3. next \in PCs \ {"new", "ended", "rename", "write", "promote", "records"}
    BY <2>1
  <2>4. next \notin {"load", "index", "config"}
    BY <2>1
  <2> HIDE DEF next
  <2> QED
    BY <1>2, <2>2, <2>3, <2>4, MoveShape
<1>4. proc' = [proc EXCEPT ![p] = w]
  BY <1>1, <1>2 DEF MakeHome
<1>5. config' \in {config, Empty} /\ (next = "fill" => config' = Empty) /\ home'
  BY DEF MakeHome
<1>6. Registered' = Registered \/ Registered' = {}
  BY <1>5 DEF Registered, Empty
<1>7. Typed' /\ World'
  BY <1>1, <1>5, <1>6 DEF MakeHome, Typed, World, Unique
<1>8. OpenOK(w)' /\ HeldOK(w)'
  BY <1>3, <1>5 DEF OpenOK, HeldOK, SetupPCs
<1>9. Unreadable => config' = Empty /\ w.pc # "fill"
  BY <1>1, <1>3, <1>5 DEF MakeHome, Empty
<1> QED
  BY <1>1, <1>3, <1>4, <1>7, <1>8, <1>9, HolderSteps DEF MakeHome

LEMMA FillConfigKeeps ==
  ASSUME IInv, NEW p \in Processes, FillConfig(p)
  PROVE  IInv'
<1>1. /\ proc[p].pc = "fill" /\ proc[p].pc \in HeldPCs
      /\ Typed /\ World /\ Shape(proc[p]) /\ HeldOK(proc[p]) /\ DOMAIN proc = Processes
      /\ ~Unreadable
  BY Known DEF FillConfig, At, HeldPCs
<1>2. PICK w : w = [proc[p] EXCEPT !.pc = "vault"]
  OBVIOUS
<1>3. Shape(w) /\ w.pc = "vault"
  <2>1. "vault" \in PCs
    BY DEF PCs, HeldPCs
  <2>2. Shape(proc[p]) /\ proc[p].pc \notin {"new", "ended", "write"}
    BY <1>1
  <2> QED
    BY <1>2, <2>1, <2>2, MoveShape
<1>4. proc' = [proc EXCEPT ![p] = w]
  BY <1>1, <1>2 DEF FillConfig
<1>5. config' = Config({}) /\ Registered' = {} /\ home' = home /\ home
  BY <1>1, ConfigFacts DEF FillConfig, Facts, HeldOK, Config, Registered
<1>6. Typed' /\ World' /\ OpenOK(w)' /\ HeldOK(w)'
  BY <1>1, <1>3, <1>5 DEF FillConfig, Typed, World, Unique, OpenOK, HeldOK, SetupPCs
<1> QED
  BY <1>1, <1>3, <1>4, <1>6, HolderSteps DEF FillConfig

LEMMA MakeDirsKeeps ==
  ASSUME IInv, NEW p \in Processes, MakeDirs(p)
  PROVE  IInv'
<1>1. /\ proc[p].pc \in {"vault", "run"} /\ proc[p].pc \in HeldPCs
      /\ Typed /\ World /\ Shape(proc[p]) /\ DOMAIN proc = Processes
      /\ Unreadable => config = Empty
  BY Known DEF MakeDirs, At, HeldPCs
<1>2. PICK w : w = [proc[p] EXCEPT !.pc = "create"]
  OBVIOUS
<1>3. Shape(w) /\ w.pc = "create"
  <2>1. "create" \in PCs
    BY DEF PCs, HeldPCs
  <2>2. Shape(proc[p]) /\ proc[p].pc \notin {"new", "ended", "write"}
    BY <1>1
  <2> QED
    BY <1>2, <2>1, <2>2, MoveShape
<1>4. proc' = [proc EXCEPT ![p] = w]
  BY <1>1, <1>2 DEF MakeDirs
<1>5. Registered' = Registered
  BY DEF MakeDirs, Registered
<1>6. Typed' /\ World' /\ OpenOK(w)' /\ HeldOK(w)'
  BY <1>1, <1>3, <1>5 DEF MakeDirs, Typed, World, Unique, OpenOK, HeldOK, SetupPCs
<1> QED
  BY <1>1, <1>3, <1>4, <1>6, HolderSteps DEF MakeDirs

LEMMA CreateDatabaseKeeps ==
  ASSUME IInv, NEW p \in Processes, CreateDatabase(p)
  PROVE  IInv'
<1>1. /\ proc[p].pc = "create" /\ proc[p].pc \in HeldPCs
      /\ Typed /\ World /\ Shape(proc[p]) /\ HeldOK(proc[p]) /\ DatabaseKinds /\ DOMAIN proc = Processes
      /\ Unreadable => config = Empty
  BY Known DEF CreateDatabase, HeldPCs
<1>2. PICK w : w = [proc[p] EXCEPT !.pc = "database"]
  OBVIOUS
<1>3. Shape(w) /\ w.pc = "database"
  <2>1. "database" \in PCs
    BY DEF PCs, HeldPCs
  <2>2. Shape(proc[p]) /\ proc[p].pc \notin {"new", "ended", "write"}
    BY <1>1
  <2> QED
    BY <1>2, <2>1, <2>2, MoveShape
<1>4. proc' = [proc EXCEPT ![p] = w]
  BY <1>1, <1>2 DEF CreateDatabase
<1>5. Registered' = Registered /\ home' = home /\ home
  BY <1>1 DEF CreateDatabase, Registered, HeldOK
<1>6. Typed' /\ World' /\ OpenOK(w)' /\ HeldOK(w)'
  BY <1>1, <1>3, <1>5 DEF CreateDatabase, Typed, World, Unique, OpenOK, HeldOK, SetupPCs
<1>7. db.there /\ db.tables => db'.there /\ db'.tables
  BY DEF CreateDatabase
<1> QED
  BY <1>1, <1>3, <1>4, <1>6, <1>7, HolderSteps DEF CreateDatabase

LEMMA OpenDatabaseKeeps ==
  ASSUME IInv, NEW p \in Processes, OpenDatabase(p)
  PROVE  IInv'
<1>1. /\ proc[p].pc = "database" /\ proc[p].pc \in HeldPCs
      /\ Typed /\ Holding /\ World /\ Shape(proc[p]) /\ HeldOK(proc[p]) /\ DatabaseKinds /\ DOMAIN proc = Processes
      /\ lock = p
      /\ Unreadable => config = Empty
  BY Known DEF OpenDatabase, HeldPCs, Holding
<1>2. PICK w : w = IF proc[p].command.op = "init" THEN Ended("done") ELSE [proc[p] EXCEPT !.pc = "opened"]
  OBVIOUS
<1>3. Shape(w) /\ w.pc \in {"ended", "opened"} /\ (w.pc = "ended" => w.why = "done")
  <2>1. CASE w = Ended("done")
    BY <2>1, EndedShape
  <2>2. CASE w = [proc[p] EXCEPT !.pc = "opened"]
    <3>1. "opened" \in PCs
      BY DEF PCs, HeldPCs
    <3>2. Shape(proc[p]) /\ proc[p].pc \notin {"new", "ended", "write"}
      BY <1>1
    <3>3. Shape(w) /\ w.pc = "opened"
      BY <2>2, <3>1, <3>2, MoveShape
    <3> QED
      BY <3>3
  <2> QED
    BY <1>2, <2>1, <2>2
<1>4. proc' = [proc EXCEPT ![p] = w] /\ lock' = NoHolder /\ w.pc \notin HeldPCs
  BY <1>1, <1>2, <1>3 DEF OpenDatabase, Unlocked, HeldPCs, SetupPCs
<1>5. Registered' = Registered /\ home' = home /\ home
  BY <1>1 DEF OpenDatabase, Registered, HeldOK
<1>6. db' = Database(Stored(db)) /\ Stored(db) \subseteq Processes /\ db'.there /\ db'.tables
  BY <1>1 DEF OpenDatabase, DatabaseKinds, Stored, Database
<1>7. Typed'
  BY <1>1, <1>4, <1>6 DEF OpenDatabase, Typed
<1>8. World'
  BY <1>1, <1>5 DEF World, Unique
<1>9. OpenOK(w)' /\ HeldOK(w)'
  BY <1>3, <1>6 DEF OpenOK, HeldOK, SetupPCs
<1> QED
  BY <1>1, <1>3, <1>4, <1>6, <1>7, <1>8, <1>9, HolderSteps DEF OpenDatabase

LEMMA StoreKeeps ==
  ASSUME IInv, NEW p \in Processes, Store(p)
  PROVE  IInv'
<1>1. proc[p].pc = "opened" /\ Typed /\ OpenOK(proc[p]) /\ DatabaseKinds
  BY Known DEF Store, At
<1>2. db.there /\ db.tables /\ db.memories \subseteq Processes
  BY <1>1 DEF OpenOK, DatabaseKinds, NoDatabase
<1>3. /\ db' \in {NoDatabase, Blank} \union {Database(s) : s \in SUBSET Processes}
      /\ db'.there /\ db'.tables
  BY <1>2 DEF Store, Database
<1> QED
  BY <1>1, <1>2, <1>3, EndKeeps DEF Store, Typed

LEMMA ReadLinksKeeps ==
  ASSUME IInv, NEW p \in Processes, ReadLinks(p)
  PROVE  IInv'
<1>1. /\ proc[p].pc = "opened" /\ Typed /\ Shape(proc[p]) /\ proc[p].command.op = "link"
  BY Known DEF ReadLinks, At
<1>2. proc[p].command \in Commands /\ proc[p].command.link \in Links
  BY <1>1, CommandFacts DEF Shape
<1>3. PICK w : w = [pc |-> "rename", command |-> proc[p].command,
                    links |-> links \union {proc[p].command.link}]
  OBVIOUS
<1>4. Shape(w) /\ w.pc = "rename"
  BY <1>1, <1>2, <1>3 DEF Shape, Typed, PCs, SetupPCs
<1>5. proc' = [proc EXCEPT ![p] = w]
  BY <1>3 DEF ReadLinks
<1>6. Typed' /\ OpenOK(w)' /\ w.pc \notin HeldPCs
  BY <1>1, <1>4 DEF ReadLinks, Typed, OpenOK, HeldPCs, SetupPCs
<1> QED
  BY <1>4, <1>5, <1>6, OtherSteps DEF ReadLinks

LEMMA WriteLinksKeeps ==
  ASSUME IInv, NEW p \in Processes, WriteLinks(p)
  PROVE  IInv'
<1>1. proc[p].pc = "rename" /\ Typed /\ Shape(proc[p]) /\ DOMAIN proc = Processes
  BY Known DEF WriteLinks, At
<1>2. proc[p].links \subseteq Links
  BY <1>1 DEF Shape
<1>3. PICK w : w = [proc[p] EXCEPT !.pc = "load"]
  OBVIOUS
<1>4. Shape(w) /\ w.pc = "load"
  <2>1. "load" \in PCs
    BY DEF PCs, HeldPCs
  <2> QED
    BY <1>1, <1>3, <2>1, MoveShape
<1>5. proc' = [proc EXCEPT ![p] = w]
  BY <1>1, <1>3 DEF WriteLinks
<1>6. Typed' /\ OpenOK(w)' /\ w.pc \notin HeldPCs
  BY <1>1, <1>2, <1>4 DEF WriteLinks, Typed, OpenOK, HeldPCs, SetupPCs
<1> QED
  BY <1>4, <1>5, <1>6, OtherSteps DEF WriteLinks

LEMMA LoadLinksKeeps ==
  ASSUME IInv, NEW p \in Processes, LoadLinks(p)
  PROVE  IInv'
<1>1. Typed
  BY Known
<1> QED
  BY <1>1, EndKeeps DEF LoadLinks, Loaded, Typed

-----------------------------------------------------------------------------
(* setup.                                                                  *)

\* A setup has a project to register.
LEMMA SetupProject ==
  ASSUME NEW v, Shape(v), v.pc \notin {"new", "ended"}, v.command.op = "setup"
  PROVE  v.command.project \in AllProjects
<1>1. v.command \in Commands
  BY DEF Shape
<1> QED
  BY <1>1, CommandFacts

LEMMA PrepareKeeps ==
  ASSUME IInv, NEW p \in Processes, Prepare(p)
  PROVE  IInv'
<1> DEFINE project == proc[p].command.project
<1>1. /\ proc[p].pc = "run" /\ proc[p].pc \in HeldPCs /\ proc[p].command.op = "setup"
      /\ Typed /\ Holding /\ World /\ Shape(proc[p]) /\ DatabaseKinds /\ lock = p
      /\ UNCHANGED <<home, config, dirs, db, links, table>>
      /\ Unreadable => config = Empty
  BY Known DEF Prepare, At, HeldPCs, Holding
<1>2. Registered' = Registered /\ (Readable' <=> Readable)
  BY <1>1 DEF Registered, Readable
<1>3. ASSUME ~Readable /\ db # Blank, End(p, "unreadable") PROVE IInv'
  <2>1. config = Empty
    BY <1>1, <1>3, ConfigFacts DEF Facts, Typed
  <2>2. PICK w : w = Ended("unreadable")
    OBVIOUS
  <2>3. Shape(w) /\ w.pc = "ended" /\ w.why = "unreadable"
    BY <2>2, EndedShape
  <2>4. proc' = [proc EXCEPT ![p] = w] /\ lock' = NoHolder /\ w.pc \notin HeldPCs
    BY <1>1, <1>3, <2>2, <2>3 DEF End, Unlocked, HeldPCs, SetupPCs
  <2>5. Typed' /\ World'
    BY <1>1, <1>2, <2>4 DEF Typed, World, Unique
  <2>6. OpenOK(w)' /\ HeldOK(w)'
    BY <2>3 DEF OpenOK, HeldOK, SetupPCs
  <2> QED
    BY <1>1, <2>1, <2>3, <2>4, <2>5, <2>6, HolderSteps
<1>4. ASSUME NEW why \in {"no tables", "conflict"}, End(p, why) PROVE IInv'
  BY <1>1, <1>4, EndKeeps DEF Typed
<1>5. ASSUME Readable, db # Blank, ~Conflicts(project, Registered), lock' = lock,
             proc' = [proc EXCEPT ![p] =
                        [pc |-> FirstPart, command |-> proc[p].command,
                         dirs |-> dirs, database |-> db.there, before |-> config,
                         projects |-> Registered \union {project}]]
      PROVE  IInv'
  <2>1. PICK w : w = [pc |-> FirstPart, command |-> proc[p].command,
                      dirs |-> dirs, database |-> db.there, before |-> config,
                      projects |-> Registered \union {project}]
    OBVIOUS
  <2>2. /\ w.pc = FirstPart /\ w.command = proc[p].command /\ w.dirs = dirs
        /\ w.database = db.there /\ w.before = config /\ w.projects = Registered \union {project}
        /\ DOMAIN w = {"pc", "command", "dirs", "database", "before", "projects"}
    BY <2>1
  <2>3. proc' = [proc EXCEPT ![p] = w]
    BY <1>5, <2>1
  <2>4. /\ w.pc \in {"records", "promote"}
        /\ w.pc = "records" => home
        /\ w.pc = "promote" => ~home
    BY <2>2 DEF FirstPart
  <2>5. w.projects \subseteq AllProjects /\ Unique(w.projects)
    <3>1. project \in AllProjects
      BY <1>1, SetupProject
    <3>2. Registered \in SUBSET AllProjects /\ Unique(Registered)
      BY <1>1, ConfigFacts DEF Facts, Typed, World
    <3> QED
      BY <1>5, <2>2, <3>1, <3>2, UniqueAfterAdd
  <2>6. Shape(w)
    <3>1. proc[p].command \in Commands
      BY <1>1 DEF Shape
    <3> QED
      BY <1>1, <2>2, <2>4, <2>5, <3>1 DEF Shape, PCs, HeldPCs, SetupPCs
  <2>7. HeldOK(w)'
    BY <1>1, <1>2, <1>5, <2>2, <2>4 DEF HeldOK, SetupPCs
  <2>8. OpenOK(w)' /\ Typed' /\ World'
    BY <1>1, <1>2, <1>5, <2>4 DEF OpenOK, Typed, World, Unique
  <2>9. w.pc \notin {"fill", "ended"}
    BY <2>4
  <2> QED
    BY <1>1, <1>5, <2>3, <2>6, <2>7, <2>8, <2>9, HolderSteps
<1> QED
  BY <1>3, <1>4, <1>5 DEF Prepare

LEMMA AbandonKeeps ==
  ASSUME IInv, NEW p \in Processes, Abandon(p)
  PROVE  IInv'
<1>1. Typed
  BY Known
<1> QED
  BY <1>1, EndKeeps DEF Abandon, Typed

LEMMA PromoteHomeKeeps ==
  ASSUME IInv, NEW p \in Processes, PromoteHome(p)
  PROVE  IInv'
<1>1. /\ proc[p].pc = "promote" /\ proc[p].pc \in HeldPCs /\ proc[p].pc \in SetupPCs
      /\ Typed /\ Holding /\ World /\ Shape(proc[p]) /\ HeldOK(proc[p]) /\ DatabaseKinds /\ lock = p
      /\ Unreadable => config = Empty
  BY Known DEF PromoteHome, At, HeldPCs, SetupPCs, Holding
<1>2. ~home /\ Readable /\ proc[p].projects \subseteq AllProjects /\ Unique(proc[p].projects)
  BY <1>1 DEF Shape, HeldOK
<1>3. /\ home' = TRUE /\ config' = Config(proc[p].projects) /\ dirs' = {"records", "index"}
      /\ db' = Database({}) /\ End(p, "done") /\ UNCHANGED <<links, table>>
  BY <1>2 DEF PromoteHome
<1>4. Registered' = proc[p].projects
  BY <1>3, ConfigFacts DEF Facts, Registered, Config
<1>5. PICK w : w = Ended("done")
  OBVIOUS
<1>6. Shape(w) /\ w.pc = "ended" /\ w.why = "done"
  BY <1>5, EndedShape
<1>7. proc' = [proc EXCEPT ![p] = w] /\ lock' = NoHolder /\ w.pc \notin HeldPCs
  BY <1>1, <1>3, <1>5, <1>6 DEF End, Unlocked, HeldPCs, SetupPCs
<1>8. Typed' /\ World'
  BY <1>1, <1>2, <1>3, <1>4, <1>7 DEF Typed, World, Unique
<1>9. OpenOK(w)' /\ HeldOK(w)'
  BY <1>6 DEF OpenOK, HeldOK, SetupPCs
<1>10. ~Unreadable
  BY <1>1, <1>2 DEF Readable, Empty
<1>11. db'.there /\ db'.tables
  BY <1>3 DEF Database
<1> QED
  BY <1>1, <1>6, <1>7, <1>8, <1>9, <1>10, <1>11, HolderSteps

LEMMA PromoteRecordsKeeps ==
  ASSUME IInv, NEW p \in Processes, PromoteRecords(p)
  PROVE  IInv'
<1>1. /\ proc[p].pc = "records" /\ proc[p].pc \in HeldPCs /\ proc[p].pc \in SetupPCs
      /\ Typed /\ Holding /\ World /\ Shape(proc[p]) /\ HeldOK(proc[p]) /\ DOMAIN proc = Processes
      /\ Unreadable => config = Empty
  BY Known DEF PromoteRecords, At, HeldPCs, SetupPCs, Holding
<1>2. ~Appeared(p, "records")
  BY <1>1 DEF Appeared, HeldOK
<1>3. dirs' = dirs \union {"records"} /\ lock' = lock /\ UNCHANGED <<home, config, db, links, table>>
  BY <1>2 DEF PromoteRecords
<1>4. PICK w : w = [proc[p] EXCEPT !.pc = "index"]
  OBVIOUS
<1>5. /\ Shape(w) /\ w.pc = "index"
      /\ w.projects = proc[p].projects /\ w.before = proc[p].before /\ w.database = proc[p].database
  <2>1. "index" \in PCs /\ "index" \in SetupPCs
    BY DEF PCs, HeldPCs, SetupPCs
  <2>2. Shape(proc[p]) /\ proc[p].pc \notin {"new", "ended"} /\ proc[p].pc \in SetupPCs
    BY <1>1
  <2> QED
    BY <1>4, <2>1, <2>2, MoveShape
<1>6. proc' = [proc EXCEPT ![p] = w]
  BY <1>1, <1>2, <1>4 DEF PromoteRecords
<1>7. Registered' = Registered /\ (Readable' <=> Readable)
  BY <1>3 DEF Registered, Readable
<1>8. HeldOK(w)'
  BY <1>1, <1>3, <1>5, <1>7 DEF HeldOK, SetupPCs
<1>9. OpenOK(w)' /\ Typed' /\ World'
  BY <1>1, <1>3, <1>5, <1>7 DEF OpenOK, Typed, World, Unique
<1> QED
  BY <1>1, <1>3, <1>5, <1>6, <1>8, <1>9, HolderSteps

LEMMA PromoteIndexKeeps ==
  ASSUME IInv, NEW p \in Processes, PromoteIndex(p)
  PROVE  IInv'
<1>1. /\ proc[p].pc = "index" /\ proc[p].pc \in HeldPCs /\ proc[p].pc \in SetupPCs
      /\ Typed /\ Holding /\ World /\ Shape(proc[p]) /\ HeldOK(proc[p]) /\ DOMAIN proc = Processes
      /\ DatabaseKinds
      /\ Unreadable => config = Empty
  BY Known DEF PromoteIndex, At, HeldPCs, SetupPCs, Holding
<1>2. /\ home /\ "records" \in dirs /\ proc[p].database = db.there
      /\ Readable /\ Registered \subseteq proc[p].projects /\ proc[p].before = config /\ db # Blank
  BY <1>1 DEF HeldOK
<1>3. dirs' = {"records", "index"} /\ lock' = lock /\ UNCHANGED <<home, config, links, table>>
  BY <1>1, <1>2 DEF PromoteIndex, Typed
<1>4. PICK w : w = [proc[p] EXCEPT !.pc = "config"]
  OBVIOUS
<1>5. /\ Shape(w) /\ w.pc = "config"
      /\ w.projects = proc[p].projects /\ w.before = proc[p].before
  <2>1. "config" \in PCs /\ "config" \in SetupPCs
    BY DEF PCs, HeldPCs, SetupPCs
  <2>2. Shape(proc[p]) /\ proc[p].pc \notin {"new", "ended"} /\ proc[p].pc \in SetupPCs
    BY <1>1
  <2> QED
    BY <1>4, <2>1, <2>2, MoveShape
<1>6. proc' = [proc EXCEPT ![p] = w]
  BY <1>1, <1>4 DEF PromoteIndex
<1>7. Registered' = Registered /\ (Readable' <=> Readable)
  BY <1>3 DEF Registered, Readable
<1>8. db'.there /\ db'.tables /\ db' # Blank
      /\ db' \in {NoDatabase, Blank} \union {Database(s) : s \in SUBSET Processes}
  <2>1. CASE db.there
    <3>1. db' = db
      BY <1>2, <2>1 DEF PromoteIndex, Promotes
    <3>2. DatabaseKinds /\ db # Blank
      BY <1>1, <1>2
    <3>3. db.tables
      BY <2>1, <3>2 DEF DatabaseKinds
    <3> QED
      BY <1>1, <2>1, <3>1, <3>2, <3>3 DEF Typed
  <2>2. CASE ~db.there
    <3>1. db' = Database({})
      BY <1>2, <2>2 DEF PromoteIndex, Promotes
    <3> QED
      BY <3>1 DEF Database, Blank
  <2> QED
    BY <2>1, <2>2
<1>9. HeldOK(w)'
  BY <1>2, <1>3, <1>5, <1>7, <1>8 DEF HeldOK, SetupPCs
<1>10. OpenOK(w)' /\ World'
  BY <1>1, <1>2, <1>3, <1>5, <1>7 DEF OpenOK, World, Unique
<1>11. Typed'
  BY <1>1, <1>3, <1>8 DEF Typed
<1>12. /\ Shape(w) /\ w.pc # "fill" /\ w.pc # "ended" /\ lock' = lock
       /\ (Unreadable => config' = Empty)
       /\ (db.there /\ db.tables => db'.there /\ db'.tables)
  BY <1>1, <1>3, <1>5, <1>8
<1> QED
  BY <1>1, <1>6, <1>9, <1>10, <1>11, <1>12, HolderSteps

LEMMA PromoteConfigKeeps ==
  ASSUME IInv, NEW p \in Processes, PromoteConfig(p)
  PROVE  IInv'
<1> DEFINE changed == proc[p].command.project \notin Registered
<1>1. /\ proc[p].pc = "config" /\ proc[p].pc \in HeldPCs /\ proc[p].pc \in SetupPCs
      /\ Typed /\ Holding /\ World /\ Shape(proc[p]) /\ HeldOK(proc[p]) /\ lock = p
      /\ Unreadable => config = Empty
      /\ UNCHANGED <<home, dirs, db, links, table>>
  BY Known DEF PromoteConfig, At, HeldPCs, SetupPCs, Holding
<1>2. /\ home /\ Readable /\ proc[p].before = config
      /\ proc[p].projects \subseteq AllProjects /\ Unique(proc[p].projects)
  BY <1>1 DEF Shape, HeldOK
<1>3. config' = IF changed THEN Config(proc[p].projects) ELSE config
  BY <1>2 DEF PromoteConfig
<1>4. End(p, "done")
  BY <1>2 DEF PromoteConfig
<1>5. PICK w : w = Ended("done")
  OBVIOUS
<1>6. Shape(w) /\ w.pc = "ended" /\ w.why = "done"
  BY <1>5, EndedShape
<1>7. proc' = [proc EXCEPT ![p] = w] /\ lock' = NoHolder /\ w.pc \notin HeldPCs
  BY <1>1, <1>4, <1>5, <1>6 DEF End, Unlocked, HeldPCs, SetupPCs
<1>8. Registered' \in {Registered, proc[p].projects}
  <2>1. config' = Config(proc[p].projects) => Registered' = proc[p].projects
    BY ConfigFacts DEF Facts
  <2>2. config' = config => Registered' = Registered
    BY DEF Registered
  <2> QED
    BY <1>3, <2>1, <2>2
<1>9. World'
  BY <1>1, <1>2, <1>8 DEF World, Unique
<1>10. Typed'
  BY <1>1, <1>2, <1>3, <1>7 DEF Typed
<1>11. OpenOK(w)' /\ HeldOK(w)'
  BY <1>6 DEF OpenOK, HeldOK, SetupPCs
<1>12. ~Unreadable
  BY <1>1, <1>2 DEF Readable, Empty
<1> QED
  BY <1>1, <1>6, <1>7, <1>9, <1>10, <1>11, <1>12, HolderSteps

-----------------------------------------------------------------------------
(* The theorems.                                                           *)

LEMMA InitEstablishes == Init => IInv
<1> SUFFICES ASSUME Init
             PROVE  IInv
  OBVIOUS
<1> USE DEF Init
<1>1. Registered = {} /\ Readable
  BY DEF Registered, Readable, Missing
<1>2. Typed /\ Holding
  BY DEF Typed, Holding, New, HeldPCs, SetupPCs
<1>3. ASSUME NEW p \in Processes PROVE Shape(proc[p]) /\ HeldOK(proc[p]) /\ OpenOK(proc[p])
  BY <1>1, <1>3 DEF New, Shape, HeldOK, OpenOK, PCs, SetupPCs
<1>4. World
  BY <1>1 DEF World, Unique
<1>5. Cut
  BY DEF Cut, Unreadable, New
<1> QED
  BY <1>2, <1>3, <1>4, <1>5, TypeParts DEF IInv

LEMMA StepKeeps ==
  ASSUME IInv, NEW p \in Processes, Step(p)
  PROVE  IInv'
BY AcquireKeeps, TimeOutKeeps, ReadRegistryKeeps, WriteRegistryKeeps, MakeHomeKeeps,
   FillConfigKeeps, MakeDirsKeeps, CreateDatabaseKeeps, OpenDatabaseKeeps, StoreKeeps,
   ReadLinksKeeps, WriteLinksKeeps, LoadLinksKeeps, PrepareKeeps, AbandonKeeps,
   PromoteHomeKeeps, PromoteRecordsKeeps, PromoteIndexKeeps, PromoteConfigKeeps DEF Step

LEMMA StutterKeeps ==
  ASSUME IInv, UNCHANGED vars
  PROVE  IInv'
<1>1. (Registered' = Registered) /\ (Readable' <=> Readable)
  BY DEF vars, Registered, Readable
<1> QED
  BY <1>1 DEF vars, IInv, TypeOK, HeldOK, OpenOK, World, Cut, Unreadable

\* The inductive invariant: what a holder of the lock has read is still so.
THEOREM Invariance == Spec => []IInv
<1>1. IInv /\ [Next]_vars => IInv'
  BY BeginKeeps, StepKeeps, KillKeeps, StutterKeeps DEF Next
<1> QED
  BY <1>1, InitEstablishes, PTL DEF Spec

\* Every variable keeps its type, and whoever is between taking and giving up
\* the initialization lock holds it.
THEOREM TypeCorrect == Spec => []TypeOK
<1>1. IInv => TypeOK
  BY DEF IInv
<1> QED
  BY <1>1, Invariance, PTL

\* Two registered projects share neither identifier nor root.
THEOREM UniqueIds == Spec => []UniqueProjects
<1>1. IInv => UniqueProjects
  BY DEF IInv, World, Unique, UniqueProjects
<1> QED
  BY <1>1, Invariance, PTL

\* What is cut off, or has no tables, is in the making or a kill's doing; and
\* so was what stopped a setup for want of tables.
InTheConfig == Ended("killed in the config")
BeforeTheTables == Ended("killed before the tables")
Left ==
  /\ config = Empty => \E q \in Processes : proc[q].pc = "fill" \/ proc[q] = InTheConfig
  /\ db = Blank => \E q \in Processes : proc[q].pc = "database" \/ proc[q] = BeforeTheTables
  /\ (\E p \in Processes : proc[p].pc = "ended" /\ proc[p].why = "no tables") =>
       \E q \in Processes : proc[q] = BeforeTheTables

\* A step accounts for what it cuts off, and for the setup it stops.
Accounts(p, w) ==
  /\ proc[p].pc # "ended"
  /\ proc' = [proc EXCEPT ![p] = w]
  /\ config' = Empty =>
       (config = Empty /\ proc[p].pc # "fill") \/ w.pc = "fill" \/ w = InTheConfig
  /\ db' = Blank =>
       (db = Blank /\ proc[p].pc # "database") \/ w.pc = "database" \/ w = BeforeTheTables
  /\ w.pc = "ended" /\ w.why = "no tables" => db = Blank /\ proc[p].pc = "run"

LEMMA EndedStates ==
  ASSUME NEW why
  PROVE  Ended(why).pc = "ended" /\ Ended(why).why = why
BY DEF Ended

LEMMA AccountsKeep ==
  ASSUME IInv, Left, NEW p \in Processes, NEW w, Accounts(p, w)
  PROVE  Left'
<1>1. DOMAIN proc = Processes /\ \A q \in Processes : proc[q].pc \in HeldPCs => lock = q
  BY TypeParts DEF IInv, Holding
<1>2. proc'[p] = w /\ \A q \in Processes : q # p => proc'[q] = proc[q]
  BY <1>1 DEF Accounts
<1>3. InTheConfig.pc = "ended" /\ BeforeTheTables.pc = "ended"
  BY EndedStates DEF InTheConfig, BeforeTheTables
<1>4. \A q \in Processes : proc[q] \in {InTheConfig, BeforeTheTables} => proc'[q] = proc[q]
  BY <1>2, <1>3 DEF Accounts
<1>5. (config = Empty => \E q \in Processes : proc[q].pc = "fill" \/ proc[q] = InTheConfig)'
  <2>1. SUFFICES ASSUME config' = Empty
                 PROVE  \E q \in Processes : proc'[q].pc = "fill" \/ proc'[q] = InTheConfig
    OBVIOUS
  <2>2. CASE w.pc = "fill" \/ w = InTheConfig
    BY <1>2, <2>2
  <2>3. CASE config = Empty /\ proc[p].pc # "fill"
    <3>1. PICK q \in Processes : proc[q].pc = "fill" \/ proc[q] = InTheConfig
      BY <2>3 DEF Left
    <3>2. proc'[q] = proc[q]
      BY <1>2, <1>4, <2>3, <3>1
    <3> QED
      BY <3>1, <3>2
  <2> QED
    BY <2>1, <2>2, <2>3 DEF Accounts
<1>6. (db = Blank => \E q \in Processes : proc[q].pc = "database" \/ proc[q] = BeforeTheTables)'
  <2>1. SUFFICES ASSUME db' = Blank
                 PROVE  \E q \in Processes : proc'[q].pc = "database" \/ proc'[q] = BeforeTheTables
    OBVIOUS
  <2>2. CASE w.pc = "database" \/ w = BeforeTheTables
    BY <1>2, <2>2
  <2>3. CASE db = Blank /\ proc[p].pc # "database"
    <3>1. PICK q \in Processes : proc[q].pc = "database" \/ proc[q] = BeforeTheTables
      BY <2>3 DEF Left
    <3>2. proc'[q] = proc[q]
      BY <1>2, <1>4, <2>3, <3>1
    <3> QED
      BY <3>1, <3>2
  <2> QED
    BY <2>1, <2>2, <2>3 DEF Accounts
<1>7. ((\E r \in Processes : proc[r].pc = "ended" /\ proc[r].why = "no tables") =>
        \E q \in Processes : proc[q] = BeforeTheTables)'
  <2>1. SUFFICES ASSUME NEW r \in Processes, proc'[r].pc = "ended", proc'[r].why = "no tables"
                 PROVE  \E q \in Processes : proc'[q] = BeforeTheTables
    OBVIOUS
  <2>2. \E q \in Processes : proc[q] = BeforeTheTables
    <3>1. CASE r # p
      BY <1>2, <2>1, <3>1 DEF Left
    <3>2. CASE r = p
      <4>1. db = Blank /\ proc[p].pc = "run"
        BY <1>2, <2>1, <3>2 DEF Accounts
      <4>2. \A q \in Processes : proc[q].pc # "database"
        BY <1>1, <4>1 DEF HeldPCs
      <4> QED
        BY <4>1, <4>2 DEF Left
    <3> QED
      BY <3>1, <3>2
  <2> QED
    BY <1>4, <2>2
<1> QED
  BY <1>5, <1>6, <1>7 DEF Left

\* A command that ends, and what it ends with.
LEMMA EndAccounts ==
  ASSUME IInv, Left, NEW p \in Processes, NEW why, End(p, why), proc[p].pc \notin {"ended", "fill", "database"},
         config' = Empty => config = Empty, db' = Blank => db = Blank,
         why = "no tables" => db = Blank /\ proc[p].pc = "run"
  PROVE  Left'
<1>1. PICK w : w = Ended(why)
  OBVIOUS
<1>2. w.pc = "ended" /\ w.why = why
  BY <1>1, EndedStates
<1>3. Accounts(p, w)
  BY <1>1, <1>2 DEF Accounts, End
<1> QED
  BY <1>3, AccountsKeep

\* A command that goes on.
LEMMA GoingAccounts ==
  ASSUME IInv, Left, NEW p \in Processes, NEW w, proc' = [proc EXCEPT ![p] = w], w.pc # "ended",
         proc[p].pc \notin {"ended", "fill", "database"},
         config' = Empty => config = Empty \/ w.pc = "fill",
         db' = Blank => db = Blank \/ w.pc = "database"
  PROVE  Left'
<1>1. Accounts(p, w)
  BY DEF Accounts
<1> QED
  BY <1>1, AccountsKeep

LEMMA MovedPC ==
  ASSUME IInv, NEW p \in Processes, proc[p].pc \notin {"new", "ended"}, NEW pc, NEW w, w = [proc[p] EXCEPT !.pc = pc]
  PROVE  w.pc = pc
<1>1. "pc" \in DOMAIN proc[p]
  BY Known DEF Shape
<1> QED
  BY <1>1

LEMMA BeginAccounts ==
  ASSUME IInv, Left, NEW p \in Processes, NEW command \in Commands, Begin(p, command)
  PROVE  Left'
<1>1. PICK w : w = [pc |-> "lock", command |-> command]
  OBVIOUS
<1>2. proc' = [proc EXCEPT ![p] = w] /\ w.pc = "lock" /\ proc[p].pc = "new"
  BY <1>1 DEF Begin, New
<1> QED
  BY <1>2, GoingAccounts DEF Begin

LEMMA AcquireAccounts ==
  ASSUME IInv, Left, NEW p \in Processes, Acquire(p)
  PROVE  Left'
<1>1. PICK w : w = [proc[p] EXCEPT !.pc = "run"]
  OBVIOUS
<1>2. proc' = [proc EXCEPT ![p] = w] /\ proc[p].pc = "lock"
  BY <1>1, Known DEF Acquire
<1>3. w.pc = "run"
  BY <1>1, <1>2, MovedPC
<1> QED
  BY <1>2, <1>3, GoingAccounts DEF Acquire

LEMMA TimeOutAccounts ==
  ASSUME IInv, Left, NEW p \in Processes, TimeOut(p)
  PROVE  Left'
<1>1. PICK w : w = Ended("timeout")
  OBVIOUS
<1>2. w.pc = "ended" /\ w.why = "timeout"
  BY <1>1, EndedStates
<1>3. Accounts(p, w)
  BY <1>1, <1>2 DEF Accounts, TimeOut
<1> QED
  BY <1>3, AccountsKeep

LEMMA KillAccounts ==
  ASSUME IInv, Left, NEW p \in Processes, Kill(p)
  PROVE  Left'
<1>1. PICK why : why = Killed(proc[p].pc)
  OBVIOUS
<1>2. PICK w : w = Ended(why)
  OBVIOUS
<1>3. w.pc = "ended" /\ w.why = why
  BY <1>2, EndedStates
<1>4. why # "no tables" /\ (proc[p].pc = "fill" => w = InTheConfig) /\ (proc[p].pc = "database" => w = BeforeTheTables)
  BY <1>1, <1>2 DEF Killed, InTheConfig, BeforeTheTables
<1>5. Accounts(p, w)
  BY <1>1, <1>2, <1>3, <1>4 DEF Accounts, Kill, End
<1> QED
  BY <1>5, AccountsKeep

LEMMA ReadRegistryAccounts ==
  ASSUME IInv, Left, NEW p \in Processes, ReadRegistry(p)
  PROVE  Left'
<1>1. proc[p].pc = "run" /\ UNCHANGED <<config, db>>
  BY DEF ReadRegistry, At
<1>2. ASSUME NEW why \in Settled(p), End(p, why) PROVE Left'
  <2>1. why # "no tables"
    BY <1>2 DEF ReadRegistry, Settled, At
  <2> QED
    BY <1>1, <1>2, <2>1, EndAccounts
<1>3. CASE \A why \in Settled(p) : ~End(p, why)
  <2>1. PICK w : w = [pc |-> "write", command |-> proc[p].command,
                      projects |-> Registered \union {Wanted(p, Registered)}]
    OBVIOUS
  <2>2. proc' = [proc EXCEPT ![p] = w] /\ w.pc = "write"
    BY <1>3, <2>1 DEF ReadRegistry
  <2> QED
    BY <1>1, <2>2, GoingAccounts
<1> QED
  BY <1>2, <1>3

LEMMA WriteRegistryAccounts ==
  ASSUME IInv, Left, NEW p \in Processes, WriteRegistry(p)
  PROVE  Left'
<1>1. proc[p].pc = "write" /\ End(p, "done") /\ config' # Empty /\ db' = db
  BY DEF WriteRegistry, At, Config, Empty
<1> QED
  BY <1>1, EndAccounts

LEMMA MakeHomeAccounts ==
  ASSUME IInv, Left, NEW p \in Processes, MakeHome(p)
  PROVE  Left'
<1>1. PICK w : w = [proc[p] EXCEPT !.pc = IF config.there THEN "vault" ELSE "fill"]
  OBVIOUS
<1>2. proc' = [proc EXCEPT ![p] = w] /\ proc[p].pc = "run"
  BY <1>1 DEF MakeHome, At
<1>3. w.pc = IF config.there THEN "vault" ELSE "fill"
  BY <1>1, <1>2, MovedPC
<1> QED
  BY <1>2, <1>3, GoingAccounts DEF MakeHome

LEMMA FillConfigAccounts ==
  ASSUME IInv, Left, NEW p \in Processes, FillConfig(p)
  PROVE  Left'
<1>1. PICK w : w = [proc[p] EXCEPT !.pc = "vault"]
  OBVIOUS
<1>2. proc' = [proc EXCEPT ![p] = w] /\ proc[p].pc = "fill" /\ db' = db /\ config' # Empty
  BY <1>1 DEF FillConfig, At, Config, Empty
<1>3. w.pc = "vault"
  BY <1>1, <1>2, MovedPC
<1>4. Accounts(p, w)
  BY <1>2, <1>3 DEF Accounts
<1> QED
  BY <1>4, AccountsKeep

LEMMA MakeDirsAccounts ==
  ASSUME IInv, Left, NEW p \in Processes, MakeDirs(p)
  PROVE  Left'
<1>1. PICK w : w = [proc[p] EXCEPT !.pc = "create"]
  OBVIOUS
<1>2. proc' = [proc EXCEPT ![p] = w] /\ proc[p].pc \in {"vault", "run"}
  BY <1>1, Known DEF MakeDirs, At
<1>3. w.pc = "create"
  BY <1>1, <1>2, MovedPC
<1> QED
  BY <1>2, <1>3, GoingAccounts DEF MakeDirs

LEMMA CreateDatabaseAccounts ==
  ASSUME IInv, Left, NEW p \in Processes, CreateDatabase(p)
  PROVE  Left'
<1>1. PICK w : w = [proc[p] EXCEPT !.pc = "database"]
  OBVIOUS
<1>2. proc' = [proc EXCEPT ![p] = w] /\ proc[p].pc = "create"
  BY <1>1, Known DEF CreateDatabase
<1>3. w.pc = "database"
  BY <1>1, <1>2, MovedPC
<1> QED
  BY <1>2, <1>3, GoingAccounts DEF CreateDatabase

LEMMA OpenDatabaseAccounts ==
  ASSUME IInv, Left, NEW p \in Processes, OpenDatabase(p)
  PROVE  Left'
<1>1. proc[p].pc = "database" /\ config' = config /\ db' # Blank
  BY DEF OpenDatabase, Database, Blank
<1>2. PICK w : w = IF proc[p].command.op = "init" THEN Ended("done") ELSE [proc[p] EXCEPT !.pc = "opened"]
  OBVIOUS
<1>3. proc' = [proc EXCEPT ![p] = w]
  BY <1>2 DEF OpenDatabase
<1>4. (w.pc = "ended" /\ w.why = "done") \/ w.pc = "opened"
  <2>1. CASE w = Ended("done")
    BY <2>1, EndedStates
  <2>2. CASE w = [proc[p] EXCEPT !.pc = "opened"]
    BY <1>1, <2>2, MovedPC
  <2> QED
    BY <1>2, <2>1, <2>2
<1>5. Accounts(p, w)
  BY <1>1, <1>3, <1>4 DEF Accounts
<1> QED
  BY <1>5, AccountsKeep

LEMMA StoreAccounts ==
  ASSUME IInv, Left, NEW p \in Processes, Store(p)
  PROVE  Left'
<1>1. proc[p].pc = "opened" /\ End(p, "done") /\ config' = config /\ db' # Blank
  BY DEF Store, At, Database, Blank
<1> QED
  BY <1>1, EndAccounts

LEMMA ReadLinksAccounts ==
  ASSUME IInv, Left, NEW p \in Processes, ReadLinks(p)
  PROVE  Left'
<1>1. PICK w : w = [pc |-> "rename", command |-> proc[p].command, links |-> links \union {proc[p].command.link}]
  OBVIOUS
<1>2. proc' = [proc EXCEPT ![p] = w] /\ w.pc = "rename" /\ proc[p].pc = "opened"
  BY <1>1 DEF ReadLinks, At
<1> QED
  BY <1>2, GoingAccounts DEF ReadLinks

LEMMA WriteLinksAccounts ==
  ASSUME IInv, Left, NEW p \in Processes, WriteLinks(p)
  PROVE  Left'
<1>1. PICK w : w = [proc[p] EXCEPT !.pc = "load"]
  OBVIOUS
<1>2. proc' = [proc EXCEPT ![p] = w] /\ proc[p].pc = "rename"
  BY <1>1, Known DEF WriteLinks, At
<1>3. w.pc = "load"
  BY <1>1, <1>2, MovedPC
<1> QED
  BY <1>2, <1>3, GoingAccounts DEF WriteLinks

LEMMA LoadLinksAccounts ==
  ASSUME IInv, Left, NEW p \in Processes, LoadLinks(p)
  PROVE  Left'
<1>1. proc[p].pc = "load" /\ End(p, "done")
  BY DEF LoadLinks, At
<1> QED
  BY <1>1, EndAccounts DEF LoadLinks

LEMMA PrepareAccounts ==
  ASSUME IInv, Left, NEW p \in Processes, Prepare(p)
  PROVE  Left'
<1> DEFINE project == proc[p].command.project
           why == IF db = Blank THEN "no tables" ELSE IF ~Readable THEN "unreadable" ELSE "conflict"
<1>1. proc[p].pc = "run" /\ UNCHANGED <<config, db>>
  BY DEF Prepare, At
<1>2. CASE End(p, why)
  <2>1. why = "no tables" => db = Blank
    OBVIOUS
  <2> HIDE DEF why
  <2> QED
    BY <1>1, <1>2, <2>1, EndAccounts
<1>3. CASE ~End(p, why)
  <2>1. PICK w : w = [pc |-> FirstPart, command |-> proc[p].command,
                      dirs |-> dirs, database |-> db.there, before |-> config,
                      projects |-> Registered \union {project}]
    OBVIOUS
  <2>2. proc' = [proc EXCEPT ![p] = w]
    BY <1>3, <2>1 DEF Prepare
  <2>3. w.pc \in {"records", "promote"}
    BY <2>1 DEF FirstPart
  <2> QED
    BY <1>1, <2>2, <2>3, GoingAccounts
<1> QED
  BY <1>2, <1>3

LEMMA AbandonAccounts ==
  ASSUME IInv, Left, NEW p \in Processes, Abandon(p)
  PROVE  Left'
<1>1. proc[p].pc \in {"records", "promote"} /\ End(p, "failed")
  BY DEF Abandon, At
<1> QED
  BY <1>1, EndAccounts DEF Abandon

LEMMA PromoteHomeAccounts ==
  ASSUME IInv, Left, NEW p \in Processes, PromoteHome(p)
  PROVE  Left'
<1>1. proc[p].pc = "promote"
  BY DEF PromoteHome, At
<1>2. (config' = Empty => config = Empty) /\ (db' = Blank => db = Blank)
  BY DEF PromoteHome, Config, Empty, Database, Blank
<1>3. End(p, "appeared") \/ End(p, "done")
  BY DEF PromoteHome
<1> QED
  BY <1>1, <1>2, <1>3, EndAccounts

LEMMA PromoteRecordsAccounts ==
  ASSUME IInv, Left, NEW p \in Processes, PromoteRecords(p)
  PROVE  Left'
<1>1. proc[p].pc = "records" /\ UNCHANGED <<config, db>>
  BY DEF PromoteRecords, At
<1>2. CASE End(p, "appeared")
  BY <1>1, <1>2, EndAccounts
<1>3. CASE ~End(p, "appeared")
  <2>1. PICK w : w = [proc[p] EXCEPT !.pc = "index"]
    OBVIOUS
  <2>2. proc' = [proc EXCEPT ![p] = w]
    BY <1>3, <2>1 DEF PromoteRecords
  <2>3. w.pc = "index"
    BY <1>1, <2>1, MovedPC
  <2> QED
    BY <1>1, <2>2, <2>3, GoingAccounts
<1> QED
  BY <1>2, <1>3

LEMMA PromoteIndexAccounts ==
  ASSUME IInv, Left, NEW p \in Processes, PromoteIndex(p)
  PROVE  Left'
<1>1. PICK w : w = [proc[p] EXCEPT !.pc = "config"]
  OBVIOUS
<1>2. /\ proc' = [proc EXCEPT ![p] = w] /\ proc[p].pc = "index"
      /\ config' = config /\ (db' = Blank => db = Blank)
  BY <1>1 DEF PromoteIndex, At, Database, Blank
<1>3. w.pc = "config"
  BY <1>1, <1>2, MovedPC
<1> QED
  BY <1>2, <1>3, GoingAccounts

LEMMA PromoteConfigAccounts ==
  ASSUME IInv, Left, NEW p \in Processes, PromoteConfig(p)
  PROVE  Left'
<1>1. proc[p].pc = "config" /\ db' = db /\ (config' = Empty => config = Empty)
  BY DEF PromoteConfig, At, Config, Empty
<1>2. End(p, "appeared") \/ End(p, "done")
  BY DEF PromoteConfig
<1> QED
  BY <1>1, <1>2, EndAccounts

LEMMA LeftKept == IInv /\ Left /\ [Next]_vars => Left'
<1>1. ASSUME IInv, Left, NEW p \in Processes, Step(p) PROVE Left'
  BY <1>1, AcquireAccounts, TimeOutAccounts, ReadRegistryAccounts, WriteRegistryAccounts, MakeHomeAccounts,
     FillConfigAccounts, MakeDirsAccounts, CreateDatabaseAccounts, OpenDatabaseAccounts, StoreAccounts,
     ReadLinksAccounts, WriteLinksAccounts, LoadLinksAccounts, PrepareAccounts, AbandonAccounts,
     PromoteHomeAccounts, PromoteRecordsAccounts, PromoteIndexAccounts, PromoteConfigAccounts DEF Step
<1>2. ASSUME Left, UNCHANGED vars PROVE Left'
  BY <1>2 DEF Left, vars
<1> QED
  BY <1>1, <1>2, BeginAccounts, KillAccounts DEF Next

\* The lock keeps a command from meeting what another is in the middle of:
\* what stops one is a kill's doing.
THEOREM Restarts == Spec => []Restartable
<1>1. Init => Left
  <2>1. SUFFICES ASSUME Init PROVE Left
    OBVIOUS
  <2>2. config # Empty /\ db # Blank
    BY <2>1 DEF Init, Missing, Empty, NoDatabase, Blank
  <2>3. \A p \in Processes : proc[p].pc = "new"
    BY <2>1 DEF Init, New
  <2> QED
    BY <2>2, <2>3 DEF Left
<1>2. IInv /\ Left => Restartable
  <2>1. SUFFICES ASSUME IInv, Left, NEW p \in Processes, proc[p].pc = "ended"
                 PROVE  /\ proc[p].why # "appeared"
                        /\ proc[p].why = "unreadable" =>
                             config = Empty /\ \E q \in Processes : proc[q] = InTheConfig
                        /\ proc[p].why = "no tables" => \E q \in Processes : proc[q] = BeforeTheTables
    BY DEF Restartable, InTheConfig, BeforeTheTables
  <2>2. proc[p].why # "appeared"
    BY <2>1 DEF IInv, Shape
  <2>3. ASSUME proc[p].why = "unreadable"
        PROVE  config = Empty /\ \E q \in Processes : proc[q] = InTheConfig
    <3>1. config = Empty /\ \A q \in Processes : proc[q].pc # "fill"
      BY <2>1, <2>3 DEF IInv, Cut, Unreadable
    <3> QED
      BY <2>1, <3>1 DEF Left
  <2>4. proc[p].why = "no tables" => \E q \in Processes : proc[q] = BeforeTheTables
    BY <2>1 DEF Left
  <2> QED
    BY <2>2, <2>3, <2>4
<1> QED
  BY <1>1, <1>2, LeftKept, Invariance, PTL DEF Spec

\* What a config that is overwritten registers, the new one registers too.
LEMMA RegistryGrows ==
  ASSUME IInv, [Next]_vars
  PROVE  Registered \subseteq Registered'
<1>1. config' = config => Registered \subseteq Registered'
  BY DEF Registered
<1>2. ASSUME NEW p \in Processes, Step(p) PROVE Registered \subseteq Registered'
  <2>1. HeldOK(proc[p])
    BY Known
  <2>2. CASE WriteRegistry(p)
    <3>1. proc[p].pc = "write" /\ config' = Config(proc[p].projects)
      BY <2>2 DEF WriteRegistry, At
    <3>2. Registered \subseteq proc[p].projects
      BY <2>1, <3>1 DEF HeldOK
    <3> QED
      BY <3>1, <3>2, ConfigFacts DEF Facts
  <2>3. CASE MakeHome(p)
    <3>1. CASE config.there
      BY <1>1, <2>3, <3>1 DEF MakeHome
    <3>2. CASE ~config.there
      BY <3>2 DEF Registered
    <3> QED
      BY <3>1, <3>2
  <2>4. CASE FillConfig(p)
    <3>1. config = Empty
      BY <2>1, <2>4 DEF FillConfig, At, HeldOK
    <3> QED
      BY <3>1 DEF Registered, Empty
  <2>5. CASE PromoteHome(p)
    <3>1. proc[p].pc = "promote" /\ (config' = config \/ config' = Config(proc[p].projects))
      BY <2>5 DEF PromoteHome, At
    <3>2. Registered \subseteq proc[p].projects
      BY <2>1, <3>1 DEF HeldOK, SetupPCs
    <3> QED
      BY <1>1, <3>1, <3>2, ConfigFacts DEF Facts
  <2>6. CASE PromoteConfig(p)
    <3>1. proc[p].pc = "config" /\ (config' = config \/ config' = Config(proc[p].projects))
      BY <2>6 DEF PromoteConfig, At
    <3>2. Registered \subseteq proc[p].projects
      BY <2>1, <3>1 DEF HeldOK, SetupPCs
    <3> QED
      BY <1>1, <3>1, <3>2, ConfigFacts DEF Facts
  <2>7. WriteRegistry(p) \/ MakeHome(p) \/ FillConfig(p) \/ PromoteHome(p) \/ PromoteConfig(p)
          \/ config' = config
    BY <1>2 DEF Step, Acquire, TimeOut, ReadRegistry, MakeDirs, CreateDatabase, OpenDatabase, Store,
         ReadLinks, WriteLinks, LoadLinks, Prepare, Abandon, PromoteRecords, PromoteIndex
  <2> QED
    BY <1>1, <2>2, <2>3, <2>4, <2>5, <2>6, <2>7
<1>3. ASSUME NEW p \in Processes, (\E command \in Commands : Begin(p, command)) \/ Kill(p)
      PROVE  config' = config
  BY <1>3 DEF Begin, Kill
<1> QED
  BY <1>1, <1>2, <1>3 DEF Next, vars

\* A project once registered stays registered, whichever commands write the
\* config at once and wherever one is killed.
THEOREM Registrations == Spec => RegistrationsKept
<1>1. IInv /\ [Next]_vars => [Registered \subseteq Registered']_vars
  BY RegistryGrows
<1> QED
  BY <1>1, Invariance, PTL DEF Spec, RegistrationsKept

\* No step takes memories out of the database.
LEMMA MemoriesGrow ==
  ASSUME IInv, [Next]_vars
  PROVE  Stored(db) \subseteq Stored(db)'
<1>1. db' = db => Stored(db) \subseteq Stored(db)'
  BY DEF Stored
<1>2. ASSUME NEW p \in Processes, Step(p) PROVE Stored(db) \subseteq Stored(db)'
  <2>1. HeldOK(proc[p]) /\ OpenOK(proc[p]) /\ World
    BY Known
  <2>2. \A s : Stored(Database(s)) = s
    BY DEF Stored, Database
  <2>3. CASE CreateDatabase(p)
    BY <1>1, <2>3 DEF CreateDatabase, Stored
  <2>4. CASE OpenDatabase(p)
    BY <2>2, <2>4 DEF OpenDatabase, Stored, Database
  <2>5. CASE Store(p)
    <3>1. db.there /\ db.tables
      BY <2>1, <2>5 DEF Store, At, OpenOK
    <3> QED
      BY <2>5, <3>1 DEF Store, Stored, Database
  <2>6. CASE PromoteHome(p)
    <3>1. ~home
      BY <2>1, <2>6 DEF PromoteHome, At, HeldOK
    <3>2. db = NoDatabase
      BY <2>1, <3>1 DEF World
    <3> QED
      BY <3>2 DEF Stored, NoDatabase
  <2>7. CASE PromoteIndex(p)
    <3>1. proc[p].database = db.there
      BY <2>1, <2>7 DEF PromoteIndex, At, HeldOK
    <3> QED
      BY <1>1, <2>7, <3>1 DEF PromoteIndex, Promotes, Stored
  <2>8. CreateDatabase(p) \/ OpenDatabase(p) \/ Store(p) \/ PromoteHome(p) \/ PromoteIndex(p) \/ db' = db
    BY <1>2 DEF Step, Acquire, TimeOut, ReadRegistry, WriteRegistry, MakeHome, FillConfig, MakeDirs,
         ReadLinks, WriteLinks, LoadLinks, Prepare, Abandon, PromoteRecords, PromoteConfig
  <2> QED
    BY <1>1, <2>3, <2>4, <2>5, <2>6, <2>7, <2>8
<1>3. ASSUME NEW p \in Processes, (\E command \in Commands : Begin(p, command)) \/ Kill(p)
      PROVE  db' = db
  BY <1>3 DEF Begin, Kill
<1> QED
  BY <1>1, <1>2, <1>3 DEF Next, vars

\* Memories stored stay in the database: no setup puts an empty one in its
\* place.
THEOREM Memories == Spec => MemoriesKept
<1>1. IInv /\ [Next]_vars => [Stored(db) \subseteq Stored(db)']_vars
  BY MemoriesGrow
<1> QED
  BY <1>1, Invariance, PTL DEF Spec, MemoriesKept

\* A step is that of one process, and changes no other's place.
LEMMA OnlyOwn ==
  ASSUME IInv, NEW p \in Processes,
         (\E command \in Commands : Begin(p, command)) \/ Step(p) \/ Kill(p)
  PROVE  \A q \in Processes : q # p => proc'[q] = proc[q]
<1>1. DOMAIN proc = Processes
  BY Known
<1> QED
  BY <1>1 DEF Begin, Kill, Step, End, Acquire, TimeOut, ReadRegistry, WriteRegistry, MakeHome,
       FillConfig, MakeDirs, CreateDatabase, OpenDatabase, Store, ReadLinks, WriteLinks, LoadLinks,
       Prepare, Abandon, PromoteHome, PromoteRecords, PromoteIndex, PromoteConfig

\* A setup registers its project last, in a home that has everything else.
THEOREM Commit == Spec => CommittedIsUsable
<1> DEFINE P(p) == proc[p].pc \in {"promote", "config"} /\ proc'[p] # proc[p] /\ Registered' # Registered
                     => home' /\ dirs' = {"records", "index"} /\ db'.there /\ db'.tables
<1>1. ASSUME IInv, Next, NEW p \in Processes,
             proc[p].pc \in {"promote", "config"}, proc'[p] # proc[p], Registered' # Registered
      PROVE  home' /\ dirs' = {"records", "index"} /\ db'.there /\ db'.tables
  <2>1. PICK q \in Processes : (\E command \in Commands : Begin(q, command)) \/ Step(q) \/ Kill(q)
    BY <1>1 DEF Next
  <2>2. (\E command \in Commands : Begin(p, command)) \/ Step(p) \/ Kill(p)
    BY <1>1, <2>1, OnlyOwn
  <2>3. config' # config
    BY <1>1 DEF Registered
  <2>4. PromoteHome(p) \/ PromoteConfig(p)
    BY <1>1, <2>2, <2>3 DEF Begin, Kill, Step, At, Acquire, TimeOut, ReadRegistry, WriteRegistry, MakeHome,
         FillConfig, MakeDirs, CreateDatabase, OpenDatabase, Store, ReadLinks, WriteLinks, LoadLinks,
         Prepare, Abandon, PromoteRecords, PromoteIndex
  <2>5. CASE PromoteHome(p)
    BY <2>3, <2>5 DEF PromoteHome, Database
  <2>6. CASE PromoteConfig(p)
    <3>1. proc[p].pc = "config" /\ HeldOK(proc[p]) /\ DatabaseKinds
      BY <1>1, <2>6, Known DEF PromoteConfig, At
    <3>2. home /\ dirs = {"records", "index"} /\ db.there /\ db # Blank
      BY <3>1 DEF HeldOK, SetupPCs
    <3>3. db.tables
      BY <3>1, <3>2 DEF DatabaseKinds
    <3> QED
      BY <2>6, <3>2, <3>3 DEF PromoteConfig
  <2> QED
    BY <2>4, <2>5, <2>6
<1>2. IInv /\ [Next]_vars => [\A p \in Processes : P(p)]_vars
  BY <1>1
<1> QED
  BY <1>2, Invariance, PTL DEF Spec, CommittedIsUsable

\* What makes TableFollowsFile inductive: links are only written with a
\* database that has tables, and such a database keeps them.
Tables == db.there /\ db.tables

Loading == \E p \in Processes : proc[p].pc = "load" \/ proc[p] = Ended("killed before the load")

Linked ==
  /\ table # links => Tables /\ Loading
  /\ \A p \in Processes : proc[p].pc \in {"opened", "rename", "load"} => Tables

LEMMA LinkedInit == Init => Linked
BY DEF Init, Linked, New

LEMMA LinkedStep ==
  ASSUME IInv, Linked, [Next]_vars
  PROVE  Linked'
<1>1. CASE UNCHANGED vars
  BY <1>1 DEF vars, Linked, Tables, Loading
<1>2. CASE Next
  <2>1. PICK p \in Processes : (\E command \in Commands : Begin(p, command)) \/ Step(p) \/ Kill(p)
    BY <1>2 DEF Next
  <2>2. /\ \A q \in Processes : q # p => proc'[q] = proc[q]
        /\ DOMAIN proc = Processes /\ HeldOK(proc[p]) /\ World /\ DatabaseKinds
    BY <2>1, OnlyOwn, Known
  <2>3. Tables => Tables'
    <3>1. PromoteHome(p) => db' = db \/ db' = Database({})
      BY DEF PromoteHome
    <3>2. PromoteIndex(p) => db' = db \/ db' = Database({})
      BY DEF PromoteIndex
    <3>3. \/ db' = db \/ (\E s : db' = Database(s)) \/ (db' = Blank /\ ~db.there)
      BY <2>1, <3>1, <3>2 DEF Begin, Kill, Step, Acquire, TimeOut, ReadRegistry, WriteRegistry, MakeHome,
           FillConfig, MakeDirs, CreateDatabase, OpenDatabase, Store, ReadLinks, WriteLinks, LoadLinks,
           Prepare, Abandon, PromoteRecords, PromoteConfig
    <3> QED
      BY <3>3 DEF Tables, Database
  <2>4. proc'[p].pc \in {"opened", "rename", "load"} => Tables'
    <3>1. CASE OpenDatabase(p)
      BY <3>1 DEF OpenDatabase, Tables, Database
    <3>2. CASE ReadLinks(p) \/ WriteLinks(p)
      BY <2>3, <3>2 DEF ReadLinks, WriteLinks, At, Linked
    <3>3. CASE ~OpenDatabase(p) /\ ~ReadLinks(p) /\ ~WriteLinks(p)
      <4>1. proc'[p].pc \notin {"opened", "rename", "load"}
        <5>1. DOMAIN proc = Processes /\ "pc" \in DOMAIN proc[p]
          BY Known DEF Shape
        <5>2. ASSUME NEW why, End(p, why) PROVE proc'[p].pc = "ended"
          BY <5>1, <5>2 DEF End, Ended
        <5>3. CASE Kill(p) \/ WriteRegistry(p) \/ Store(p) \/ LoadLinks(p) \/ Abandon(p) \/ PromoteConfig(p)
          <6>1. \E why : End(p, why)
            BY <5>3 DEF Kill, WriteRegistry, Store, LoadLinks, Abandon, PromoteConfig
          <6> QED
            BY <5>2, <6>1
        <5>7. CASE TimeOut(p)
          BY <5>1, <5>7 DEF TimeOut, Ended
        <5>4. CASE (\E command \in Commands : Begin(p, command)) \/ Acquire(p) \/ MakeHome(p) \/ FillConfig(p)
                     \/ MakeDirs(p) \/ CreateDatabase(p) \/ PromoteIndex(p)
          BY <5>1, <5>4 DEF Begin, Acquire, MakeHome, FillConfig, MakeDirs, CreateDatabase, PromoteIndex
        <5>5. CASE ReadRegistry(p) \/ Prepare(p)
          <6>1. (\E why : End(p, why)) \/ \E w : proc' = [proc EXCEPT ![p] = w] /\ w.pc \in {"write", "records", "promote"}
            <7>1. CASE ReadRegistry(p)
              <8>1. (\E why : End(p, why)) \/ proc' = [proc EXCEPT ![p] =
                       [pc |-> "write", command |-> proc[p].command,
                        projects |-> Registered \union {Wanted(p, Registered)}]]
                BY <7>1 DEF ReadRegistry
              <8>2. PICK w : w = [pc |-> "write", command |-> proc[p].command,
                                  projects |-> Registered \union {Wanted(p, Registered)}]
                OBVIOUS
              <8>3. w.pc = "write"
                BY <8>2
              <8> QED
                BY <8>1, <8>2, <8>3, Zenon
            <7>2. CASE Prepare(p)
              <8>1. (\E why : End(p, why)) \/ proc' = [proc EXCEPT ![p] =
                       [pc |-> FirstPart, command |-> proc[p].command,
                        dirs |-> dirs, database |-> db.there, before |-> config,
                        projects |-> Registered \union {proc[p].command.project}]]
                BY <7>2 DEF Prepare
              <8>2. PICK w : w = [pc |-> FirstPart, command |-> proc[p].command,
                                  dirs |-> dirs, database |-> db.there, before |-> config,
                                  projects |-> Registered \union {proc[p].command.project}]
                OBVIOUS
              <8>3. w.pc \in {"records", "promote"}
                BY <8>2 DEF FirstPart
              <8>4. w.pc \in {"write", "records", "promote"}
                BY <8>3
              <8> QED
                BY <8>1, <8>2, <8>4, Zenon
            <7> QED
              BY <5>5, <7>1, <7>2
          <6> QED
            BY <5>1, <5>2, <6>1
        <5>6. CASE PromoteHome(p) \/ PromoteRecords(p)
          BY <5>1, <5>2, <5>6 DEF PromoteHome, PromoteRecords
        <5> QED
          BY <2>1, <3>3, <5>3, <5>4, <5>5, <5>6, <5>7 DEF Step
      <4> QED
        BY <4>1
    <3> QED
      BY <3>1, <3>2, <3>3
  <2>5. ASSUME NEW q \in Processes, proc'[q].pc \in {"opened", "rename", "load"} PROVE Tables'
    BY <2>2, <2>3, <2>4, <2>5 DEF Linked
  <2>6. ASSUME table' # links' PROVE Tables' /\ Loading'
    <3>1. CASE WriteLinks(p)
      <4>1. proc'[p].pc = "load"
        BY <2>2, <3>1 DEF WriteLinks, At
      <4> QED
        BY <2>4, <4>1 DEF Loading
    <3>2. CASE OpenDatabase(p) \/ LoadLinks(p)
      BY <2>6, <3>2 DEF OpenDatabase, LoadLinks, Loaded
    <3>3. CASE ~WriteLinks(p) /\ ~OpenDatabase(p) /\ ~LoadLinks(p)
      <4>1. table' = table /\ links' = links
        BY <2>1, <3>3 DEF Begin, Kill, Step, Acquire, TimeOut, ReadRegistry, WriteRegistry,
             MakeHome, FillConfig, MakeDirs, CreateDatabase, Store, ReadLinks, Prepare, Abandon,
             PromoteHome, PromoteRecords, PromoteIndex, PromoteConfig
      <4>2. Tables /\ Loading
        BY <2>6, <4>1 DEF Linked
      <4>3. PICK q \in Processes : proc[q].pc = "load" \/ proc[q] = Ended("killed before the load")
        BY <4>2 DEF Loading
      <4>4. proc'[q].pc = "load" \/ proc'[q] = Ended("killed before the load")
        <5>1. CASE q # p
          BY <2>2, <4>3, <5>1
        <5>2. CASE q = p
          <6>0. proc[p].pc = "load" \/ proc[p] = Ended("killed before the load")
            BY <4>3, <5>2
          <6>1. proc[p].pc \in {"load", "ended"}
            <7>1. Ended("killed before the load").pc = "ended"
              BY DEF Ended
            <7> QED
              BY <6>0, <7>1
          <6>2. proc[p] # New
            BY <6>1 DEF New
          <6>3. Kill(p)
            BY <2>1, <3>3, <6>1, <6>2 DEF Begin, Step, At, Acquire, TimeOut, ReadRegistry, WriteRegistry,
                 MakeHome, FillConfig, MakeDirs, CreateDatabase, Store, ReadLinks, Prepare, Abandon,
                 PromoteHome, PromoteRecords, PromoteIndex, PromoteConfig
          <6>4. proc[p].pc = "load"
            BY <6>1, <6>3 DEF Kill
          <6>5. Killed(proc[p].pc) = "killed before the load"
            BY <6>4 DEF Killed
          <6> QED
            BY <2>2, <5>2, <6>3, <6>5 DEF Kill, End
        <5> QED
          BY <5>1, <5>2
      <4> QED
        BY <2>3, <4>2, <4>4 DEF Loading
    <3> QED
      BY <3>1, <3>2, <3>3
  <2>7. (\A q \in Processes : proc[q].pc \in {"opened", "rename", "load"} => Tables)'
    BY <2>5
  <2> QED
    BY <2>6, <2>7 DEF Linked
<1> QED
  BY <1>1, <1>2

\* The database's links are those of the file, or somebody was killed before
\* loading them or is about to.
THEOREM LinksAreLoaded == Spec => []TableFollowsFile
<1>1. Linked => TableFollowsFile
  BY DEF Linked, Loading, TableFollowsFile
<1> QED
  BY <1>1, LinkedInit, LinkedStep, Invariance, PTL DEF Spec

-----------------------------------------------------------------------------
(***************************************************************************)
(* The clients' files.                                                     *)
(*                                                                         *)
(* Each file belongs to one client, or is the shared policy, and a client  *)
(* writes only in its own: a batch is taken apart client by client.  What  *)
(* a batch does to a file (Became) is to set it and, where it was the      *)
(* user's alone, to keep what it replaces.  A client whose files record    *)
(* one another writes the record last: the part of a batch that a kill     *)
(* leaves (FirstOf) has no record without what it records (Recorded).      *)
(* That a client is connected as a whole or not at all (Whole) holds only  *)
(* until somebody alters the tool's part or a batch is killed (clean).     *)
(***************************************************************************)

(* What there can be in a file.                                            *)
Users == Texts \cup {"missing", "empty"}

Foreign == {None, Altered, Unmanaged}

CompleteEntries == [kind : {"owned"}, mode : {"complete"}, project : Projects, settings : Settings]

TomlEntries == [kind : {"owned"}, mode : {"complete", "mcp-only"}, project : Projects, settings : Settings]

McpOnlyEntries ==
  [kind : {"owned"}, mode : {"mcp-only"}, project : Projects, settings : Settings,
   original : Users, generated : Users]

Topologies == [original : Users, generated : [user : Users, own : CompleteEntries]]

ClaudeBlocks ==
  [kind : {"owned"}, project : Projects, fresh : BOOLEAN, mcp : Topologies, hooks : Topologies]

PluginLines == [kind : {"owned"}, project : Projects, settings : Settings, config : Topologies]

CopilotBlocks ==
  [kind : {"owned"}, project : Projects, entry : CompleteEntries, created : BOOLEAN, intact : BOOLEAN]

SharedBlocks ==
  [kind : {"owned"}, project : Projects, consumers : SUBSET {"codex", "opencode"}, intact : BOOLEAN]

FileHolding(own) == [user : Users, own : Foreign \cup own]

CodexTyped == disk[Toml] \in FileHolding(TomlEntries)

McpTyped(c) == disk[Mcp(c)] \in FileHolding(CompleteEntries \cup McpOnlyEntries)

ClaudeTyped ==
  /\ McpTyped("claude")
  /\ disk[Hooks] \in FileHolding(CompleteEntries)
  /\ disk[Policy("claude")] \in FileHolding(ClaudeBlocks)

OpenCodeTyped ==
  /\ McpTyped("opencode")
  /\ disk[Plugin] \in FileHolding(PluginLines)
  /\ disk[Plugin].user = "missing"

CopilotTyped ==
  /\ McpTyped("copilot")
  /\ disk[Policy("copilot")] \in FileHolding(CopilotBlocks)

SharedTyped == disk[Shared] \in FileHolding(SharedBlocks)

(* Every variable keeps its type; the file of the plugin is the tool's     *)
(* alone.                                                                  *)
AdaptersTyped ==
  /\ active \in Groups
  /\ DOMAIN disk = Files
  /\ CodexTyped /\ ClaudeTyped /\ OpenCodeTyped /\ CopilotTyped /\ SharedTyped
  /\ backups \subseteq Homes \X Files \X Users
  /\ lost \subseteq Files \X Users
  /\ last.action \in {"none", "connect", "disconnect"} /\ last.clients \subseteq Clients
  /\ clean \in BOOLEAN
  /\ changes \in 0 .. MaxChanges

(* What is recorded of a file is what the user had in it, and a home can   *)
(* put it back unless its backup was removed; what Claude's block records  *)
(* of two files, the same home can.                                        *)
Traceable(base, f, user) == Restorable(base, f, user) \/ <<f, user>> \in lost

Kept(base, f, topology) ==
  topology.generated.user = topology.original /\ Traceable(base, f, topology.original)

McpOnlyRecorded(c) ==
  IsMcpOnly(c) => /\ disk[Mcp(c)].own.generated = disk[Mcp(c)].own.original
                  /\ \E base \in Homes : Traceable(base, Mcp(c), disk[Mcp(c)].own.original)

ClaudeKept ==
  \E base \in Homes : /\ Kept(base, Mcp("claude"), disk[Policy("claude")].own.mcp)
                      /\ Kept(base, Hooks, disk[Policy("claude")].own.hooks)

ClaudeRecorded == McpOnlyRecorded("claude") /\ (Owned(Policy("claude")) => ClaudeKept)

OpenCodeKept == \E base \in Homes : Kept(base, Document, disk[Plugin].own.config)

OpenCodeRecorded == McpOnlyRecorded("opencode") /\ (Owned(Plugin) => OpenCodeKept)

CopilotRecorded == McpOnlyRecorded("copilot")

(* As long as nobody touches the tool's part, the files of a client have   *)
(* all of it, or only an entry without the policy, or nothing.             *)
CodexWhole == Clear(Toml) \/ Owned(Toml)

ClaudeWhole ==
  \/ Owned(Policy("claude")) /\ Owned(Hooks) /\ Owned(Mcp("claude")) /\ ~ IsMcpOnly("claude")
  \/ Clear(Policy("claude")) /\ Clear(Hooks) /\ (Clear(Mcp("claude")) \/ IsMcpOnly("claude"))

OpenCodeWhole ==
  \/ Owned(Plugin) /\ Owned(Document) /\ ~ IsMcpOnly("opencode")
  \/ Clear(Plugin) /\ (Clear(Document) \/ IsMcpOnly("opencode"))

CopilotWhole ==
  \/ /\ Owned(Policy("copilot")) /\ Owned(Mcp("copilot")) /\ ~ IsMcpOnly("copilot")
     /\ disk[Policy("copilot")].own.entry = disk[Mcp("copilot")].own
  \/ Clear(Policy("copilot")) /\ (Clear(Mcp("copilot")) \/ IsMcpOnly("copilot"))

SharedWhole == Clear(Shared) \/ (Owned(Shared) /\ disk[Shared].own.consumers # {})

Whole ==
  clean => CodexWhole /\ ClaudeWhole /\ OpenCodeWhole /\ CopilotWhole /\ SharedWhole

AdaptersInv ==
  /\ AdaptersTyped
  /\ ClaudeRecorded /\ OpenCodeRecorded /\ CopilotRecorded
  /\ Whole
  /\ ConsumersMatch
  /\ DisconnectLeavesNothing

(***************************************************************************)
(* What a batch does to a file.                                            *)
(***************************************************************************)
Became(base, f, value) ==
  /\ disk'[f] = value
  /\ Clear(f) /\ disk[f] # Absent /\ value # disk[f] => <<base, f, disk[f].user>> \in backups'

(* What a home can put back it can put back afterwards, or has lost.       *)
Remain ==
  \A base, f, user :
     Traceable(base, f, user) => user = "missing" \/ <<base, f, user>> \in backups' \/ <<f, user>> \in lost'

Same(f) == disk'[f] = disk[f]

\* The first writes of a sequence of them.
FirstOf(s) == {ToSet(SubSeq(s, 1, n)) : n \in 0 .. Len(s)}

\* The writes of a client, or the first of them, and no others in its files.
Effect(base, owner, P) ==
  /\ \A w \in P : Became(base, w.file, w.to)
  /\ \A f \in Files : f[1] = owner /\ (\A w \in P : w.file # f) => Same(f)
  /\ Remain

\* The first writes of a sequence are writes of it, and all of them are the first.
LEMMA FirstOfAny ==
  ASSUME NEW S, NEW s \in Seq(S)
  PROVE  /\ \A n \in 0 .. Len(s) : ToSet(SubSeq(s, 1, n)) = {s[i] : i \in 1 .. n}
         /\ ToSet(s) \in FirstOf(s)
         /\ \A P \in FirstOf(s) : P \subseteq ToSet(s)
<1>1. ASSUME NEW n \in 0 .. Len(s) PROVE ToSet(SubSeq(s, 1, n)) = {s[i] : i \in 1 .. n}
  <2>1. DOMAIN SubSeq(s, 1, n) = 1 .. n /\ \A i \in 1 .. n : SubSeq(s, 1, n)[i] = s[i] OBVIOUS
  <2> QED BY <2>1 DEF ToSet
<1>2. ToSet(s) = {s[i] : i \in 1 .. Len(s)} BY DEF ToSet
<1>3. Len(s) \in 0 .. Len(s) OBVIOUS
<1> QED BY <1>1, <1>2, <1>3 DEF FirstOf

\* The writes of the short sequences that the model spells out.
LEMMA ToSetShort ==
  /\ ToSet(<<>>) = {}
  /\ \A a : ToSet(<<a>>) = {a}
  /\ \A a, b : ToSet(<<a, b>>) = {a, b}
  /\ \A a, b, c : ToSet(<<a, b, c>>) = {a, b, c}
BY DEF ToSet

\* Of three writes in a row the last comes after the others, and of two.
LEMMA LastComesLast ==
  /\ \A a, b : \A P \in FirstOf(<<a, b>>) : b \in P => a \in P
  /\ \A a, b, c : \A P \in FirstOf(<<a, b, c>>) : c \in P => {a, b} \subseteq P \/ c \in {a, b}
<1>1. ASSUME NEW a, NEW b, NEW P \in FirstOf(<<a, b>>), b \in P PROVE a \in P
  <2> DEFINE s == <<a, b>>
  <2>1. s \in Seq({a, b}) /\ Len(s) = 2 /\ s[1] = a OBVIOUS
  <2>2. P \in FirstOf(s) OBVIOUS
  <2> HIDE DEF s
  <2>3. PICK n \in 0 .. Len(s) : P = ToSet(SubSeq(s, 1, n)) BY <2>2 DEF FirstOf
  <2>4. P = {s[i] : i \in 1 .. n} BY <2>1, <2>3, FirstOfAny
  <2>5. 1 \in 1 .. n BY <1>1, <2>1, <2>4
  <2> QED BY <2>1, <2>4, <2>5
<1>2. ASSUME NEW a, NEW b, NEW c, NEW P \in FirstOf(<<a, b, c>>), c \in P
      PROVE  {a, b} \subseteq P \/ c \in {a, b}
  <2> DEFINE s == <<a, b, c>>
  <2>1. s \in Seq({a, b, c}) /\ Len(s) = 3 /\ s[1] = a /\ s[2] = b OBVIOUS
  <2>2. P \in FirstOf(s) OBVIOUS
  <2> HIDE DEF s
  <2>3. PICK n \in 0 .. Len(s) : P = ToSet(SubSeq(s, 1, n)) BY <2>2 DEF FirstOf
  <2>4. P = {s[i] : i \in 1 .. n} BY <2>1, <2>3, FirstOfAny
  <2>5. CASE n = 3
    <3>1. 1 \in 1 .. n /\ 2 \in 1 .. n BY <2>5
    <3> QED BY <2>1, <2>4, <3>1
  <2>6. CASE n # 3
    <3>1. \A i \in 1 .. n : i = 1 \/ i = 2 BY <2>1, <2>3, <2>6
    <3> QED BY <1>2, <2>1, <2>4, <3>1
  <2> QED BY <2>5, <2>6
<1> QED BY <1>1, <1>2

\* The writes of two lists one after the other.
LEMMA ToSetConcat ==
  ASSUME NEW S, NEW s \in Seq(S), NEW t \in Seq(S)
  PROVE  s \o t \in Seq(S) /\ ToSet(s \o t) = ToSet(s) \cup ToSet(t)
<1>1. s \o t \in Seq(S) /\ Len(s \o t) = Len(s) + Len(t) OBVIOUS
<1>2. \A i \in 1 .. Len(s) + Len(t) :
         (s \o t)[i] = IF i <= Len(s) THEN s[i] ELSE t[i - Len(s)]
  OBVIOUS
<1>3. /\ DOMAIN s = 1 .. Len(s) /\ DOMAIN t = 1 .. Len(t)
      /\ DOMAIN (s \o t) = 1 .. Len(s) + Len(t) /\ Len(s) \in Nat /\ Len(t) \in Nat
  BY <1>1
<1>4. ASSUME NEW x \in ToSet(s \o t) PROVE x \in ToSet(s) \cup ToSet(t)
  <2>1. PICK i \in 1 .. Len(s) + Len(t) : x = (s \o t)[i] BY <1>3 DEF ToSet
  <2>2. CASE i <= Len(s) BY <1>2, <1>3, <2>1, <2>2 DEF ToSet
  <2>3. CASE ~ (i <= Len(s))
    <3>1. i - Len(s) \in 1 .. Len(t) BY <1>3, <2>3
    <3> QED BY <1>2, <1>3, <2>1, <2>3, <3>1 DEF ToSet
  <2> QED BY <2>2, <2>3
<1>5. ASSUME NEW x \in ToSet(s) PROVE x \in ToSet(s \o t)
  <2>1. PICK i \in 1 .. Len(s) : x = s[i] BY <1>3 DEF ToSet
  <2>2. i \in 1 .. Len(s) + Len(t) BY <1>3
  <2> QED BY <1>2, <1>3, <2>1, <2>2 DEF ToSet
<1>6. ASSUME NEW x \in ToSet(t) PROVE x \in ToSet(s \o t)
  <2>1. PICK i \in 1 .. Len(t) : x = t[i] BY <1>3 DEF ToSet
  <2>2. /\ i + Len(s) \in 1 .. Len(s) + Len(t) /\ ~ (i + Len(s) <= Len(s))
        /\ (i + Len(s)) - Len(s) = i
    BY <1>3
  <2> QED BY <1>2, <1>3, <2>1, <2>2 DEF ToSet
<1> QED BY <1>1, <1>4, <1>5, <1>6

\* What a request holds.
LEMMA RequestFacts ==
  ASSUME NEW req \in Requests
  PROVE  /\ req.mcpOnly \in BOOLEAN /\ req.home \in Homes
         /\ req.action \in {"connect", "disconnect"}
         /\ Connects(req) => req.project \in Projects /\ req.settings \in Settings
         /\ ~ Connects(req) => req.project = "any"
BY DEF Requests, Connects

(***************************************************************************)
(* Clients without policy assets.                                          *)
(***************************************************************************)
JsonClients == {"claude", "opencode", "copilot"}

\* Records that stay keep saying what can be put back.
LEMMA RecordsStay ==
  ASSUME Remain
  PROVE  /\ \A c \in JsonClients :
              McpOnlyRecorded(c) /\ disk'[Mcp(c)].own = disk[Mcp(c)].own => McpOnlyRecorded(c)'
         /\ ClaudeKept /\ disk'[Policy("claude")].own = disk[Policy("claude")].own => ClaudeKept'
         /\ OpenCodeKept /\ disk'[Plugin].own = disk[Plugin].own => OpenCodeKept'
<1>1. ASSUME NEW c \in JsonClients, McpOnlyRecorded(c), disk'[Mcp(c)].own = disk[Mcp(c)].own
      PROVE  McpOnlyRecorded(c)'
  <2>1. IsMcpOnly(c)' <=> IsMcpOnly(c) BY <1>1 DEF IsMcpOnly, Owned
  <2> SUFFICES ASSUME IsMcpOnly(c)
               PROVE  /\ disk[Mcp(c)].own.generated = disk[Mcp(c)].own.original
                      /\ \E base \in Homes : Traceable(base, Mcp(c), disk[Mcp(c)].own.original)'
    BY <1>1, <2>1 DEF McpOnlyRecorded
  <2>2. PICK base \in Homes : Traceable(base, Mcp(c), disk[Mcp(c)].own.original)
    BY <1>1 DEF McpOnlyRecorded
  <2>3. Traceable(base, Mcp(c), disk[Mcp(c)].own.original)'
    BY <1>1, <2>2 DEF Remain, Traceable, Restorable
  <2> QED BY <1>1, <2>3 DEF McpOnlyRecorded
<1>2. ASSUME ClaudeKept, disk'[Policy("claude")].own = disk[Policy("claude")].own PROVE ClaudeKept'
  <2>1. PICK base \in Homes : /\ Kept(base, Mcp("claude"), disk[Policy("claude")].own.mcp)
                              /\ Kept(base, Hooks, disk[Policy("claude")].own.hooks)
    BY <1>2 DEF ClaudeKept
  <2>2. /\ Kept(base, Mcp("claude"), disk[Policy("claude")].own.mcp)'
        /\ Kept(base, Hooks, disk[Policy("claude")].own.hooks)'
    BY <1>2, <2>1 DEF Kept, Remain, Traceable, Restorable
  <2> QED BY <2>2 DEF ClaudeKept
<1>3. ASSUME OpenCodeKept, disk'[Plugin].own = disk[Plugin].own PROVE OpenCodeKept'
  <2>1. PICK base \in Homes : Kept(base, Document, disk[Plugin].own.config) BY <1>3 DEF OpenCodeKept
  <2>2. Kept(base, Document, disk[Plugin].own.config)'
    BY <1>3, <2>1 DEF Kept, Remain, Traceable, Restorable
  <2> QED BY <2>2 DEF OpenCodeKept
<1> QED BY <1>1, <1>2, <1>3

\* A client without policy assets: the entry carries what the document was.
LEMMA McpOnlyStep ==
  ASSUME NEW c \in JsonClients, McpTyped(c), McpOnlyRecorded(c),
         NEW req \in Requests, McpOnlyAllowed(c, req),
         NEW P, P \subseteq ToSet(McpOnlyWrites(c, req)), Effect(req.home, c, P)
  PROVE  /\ McpTyped(c)' /\ McpOnlyRecorded(c)'
         /\ disk'[Mcp(c)].user = disk[Mcp(c)].user
         /\ \A f \in Files : f[1] = c /\ f # Mcp(c) => Same(f)
         /\ Clear(Mcp(c))' \/ IsMcpOnly(c)'
         /\ ~ Connects(req) /\ P = ToSet(McpOnlyWrites(c, req)) => Clear(Mcp(c))'
<1>f. Mcp(c) \in Files /\ Mcp(c)[1] = c BY DEF JsonClients, Files, Mcp
<1>d. /\ disk[Mcp(c)].user \in Users
      /\ disk[Mcp(c)] = Holds(Mcp(c), disk[Mcp(c)].own)
      /\ disk[Mcp(c)].own \in Foreign \cup CompleteEntries \cup McpOnlyEntries
  BY DEF McpTyped, FileHolding, Holds
<1>i. IsMcpOnly(c) => /\ disk[Mcp(c)].own \in McpOnlyEntries
                      /\ disk[Mcp(c)].own.original = disk[Mcp(c)].user
                      /\ \E base \in Homes : Traceable(base, Mcp(c), disk[Mcp(c)].user)
  <2>1. IsMcpOnly(c) => disk[Mcp(c)].own \in McpOnlyEntries
    BY <1>d DEF IsMcpOnly, Owned, Foreign, None, Altered, Unmanaged, CompleteEntries
  <2>2. IsMcpOnly(c) => McpOnlyIntact(c)
    BY DEF McpOnlyAllowed, Clear, IsMcpOnly, Owned, None
  <2> QED BY <2>1, <2>2 DEF McpOnlyRecorded, McpOnlyIntact
<1>n. ~ IsMcpOnly(c) => Clear(Mcp(c))
  BY DEF McpOnlyAllowed, McpOnlyIntact
<1>1. CASE P = {}
  <2>1. \A f \in Files : f[1] = c => Same(f) BY <1>1 DEF Effect
  <2>2. Same(Mcp(c)) /\ Remain BY <1>f, <2>1 DEF Effect
  <2>3. McpTyped(c)' BY <2>2 DEF McpTyped, Same
  <2>4. McpOnlyRecorded(c)' BY <2>2, RecordsStay DEF Same
  <2>5. Clear(Mcp(c))' \/ IsMcpOnly(c)' BY <2>2, <1>n DEF Clear, IsMcpOnly, Owned, Same
  <2>6. ~ Connects(req) /\ P = ToSet(McpOnlyWrites(c, req)) => ~ IsMcpOnly(c)
    BY <1>1, ToSetShort DEF McpOnlyWrites
  <2> QED BY <2>1, <2>2, <2>3, <2>4, <2>5, <2>6, <1>n DEF Same, Clear
<1>2. CASE P # {} /\ Connects(req)
  <2> DEFINE e == McpOnlyEntry(c, req)
             v == [user |-> e.original, own |-> e]
  <2>1. P = {Write(Mcp(c), v)} BY <1>2, ToSetShort DEF McpOnlyWrites
  <2>2. e.original = disk[Mcp(c)].user BY <1>i DEF McpOnlyEntry
  <2>3. e \in McpOnlyEntries /\ e.generated = e.original
    BY <1>2, <1>d, <2>2, RequestFacts DEF McpOnlyEntry, McpOnlyEntries
  <2>4. Became(req.home, Mcp(c), v) BY <2>1 DEF Effect, Write
  <2>5. \A f \in Files : f[1] = c /\ f # Mcp(c) => Same(f) BY <2>1 DEF Effect, Write
  <2> HIDE DEF e
  <2>6. disk'[Mcp(c)].user = disk[Mcp(c)].user /\ disk'[Mcp(c)].own = e
    BY <2>2, <2>4 DEF Became
  <2>7. McpTyped(c)' BY <1>d, <2>2, <2>3, <2>4 DEF McpTyped, FileHolding, Became
  <2>8. IsMcpOnly(c)' BY <2>3, <2>6 DEF IsMcpOnly, Owned, McpOnlyEntries
  <2>9. \E base \in Homes : \/ disk[Mcp(c)].user = "missing"
                            \/ <<base, Mcp(c), disk[Mcp(c)].user>> \in backups'
                            \/ <<Mcp(c), disk[Mcp(c)].user>> \in lost'
    <3>1. CASE IsMcpOnly(c) BY <1>i, <3>1 DEF Effect, Remain
    <3>2. CASE ~ IsMcpOnly(c)
      <4>1. Clear(Mcp(c)) BY <1>n, <3>2
      <4>2. e # None BY <2>3 DEF McpOnlyEntries, None
      <4>3. v # disk[Mcp(c)] BY <4>1, <4>2 DEF Clear
      <4>4. disk[Mcp(c)] = Absent \/ <<req.home, Mcp(c), disk[Mcp(c)].user>> \in backups'
        BY <2>4, <4>1, <4>3 DEF Became
      <4>5. disk[Mcp(c)].user = "missing" \/ <<req.home, Mcp(c), disk[Mcp(c)].user>> \in backups'
        BY <4>4 DEF Absent
      <4>6. req.home \in Homes BY RequestFacts
      <4> QED BY <4>5, <4>6
    <3> QED BY <3>1, <3>2
  <2>10. McpOnlyRecorded(c)' BY <2>2, <2>3, <2>6, <2>9 DEF McpOnlyRecorded, Traceable, Restorable
  <2> QED BY <1>2, <2>5, <2>6, <2>7, <2>8, <2>10
<1>3. CASE P # {} /\ ~ Connects(req)
  <2>1. IsMcpOnly(c) /\ P = {Write(Mcp(c), Restored(disk[Mcp(c)].user))}
    BY <1>3, <1>i, ToSetShort DEF McpOnlyWrites
  <2>2. Became(req.home, Mcp(c), [user |-> disk[Mcp(c)].user, own |-> None])
    BY <2>1 DEF Effect, Write, Restored
  <2>3. \A f \in Files : f[1] = c /\ f # Mcp(c) => Same(f) BY <2>1 DEF Effect, Write
  <2>4. disk'[Mcp(c)].user = disk[Mcp(c)].user /\ disk'[Mcp(c)].own = None
    BY <2>2 DEF Became
  <2>5. McpTyped(c)' BY <1>d, <2>2 DEF McpTyped, FileHolding, Became, Foreign
  <2>6. Clear(Mcp(c))' /\ ~ IsMcpOnly(c)' BY <2>4 DEF Clear, IsMcpOnly, Owned, None
  <2> QED BY <2>3, <2>4, <2>5, <2>6 DEF McpOnlyRecorded
<1> QED BY <1>1, <1>2, <1>3

\* None of what a user makes of an entry is the tool's.
LEMMA ForeignIsNotOwned ==
  /\ None.kind # "owned" /\ Altered.kind # "owned" /\ Unmanaged.kind # "owned"
  /\ \A own \in Foreign : own.kind # "owned"
BY DEF Foreign, None, Altered, Unmanaged

\* The entry of a complete connection.
LEMMA CompleteEntry ==
  ASSUME NEW req \in Requests, Connects(req)
  PROVE  Entry(req, "complete") \in CompleteEntries /\ Entry(req, "complete") # None
BY RequestFacts DEF Entry, CompleteEntries, None

\* A file that was clear and is given an entry is backed up.
LEMMA BackedUp ==
  ASSUME NEW base, NEW f, NEW v, Clear(f), Became(base, f, v), v.own # None
  PROVE  disk[f].user = "missing" \/ <<base, f, disk[f].user>> \in backups'
<1>1. v # disk[f] BY DEF Clear
<1> QED BY <1>1 DEF Became, Absent

(***************************************************************************)
(* Claude.                                                                 *)
(***************************************************************************)
\* Connecting Claude keeps what its files were, also when it is killed.
LEMMA ClaudeConnects ==
  ASSUME ClaudeTyped, ClaudeRecorded,
         NEW req \in Requests, Connects(req), ClaudeAllowed(req),
         NEW P \in FirstOf(ClaudeWrites(req)), Effect(req.home, "claude", P)
  PROVE  /\ ClaudeTyped' /\ ClaudeRecorded'
         /\ \A f \in {Mcp("claude"), Hooks, Policy("claude")} : disk'[f].user = disk[f].user
         /\ P = ToSet(ClaudeWrites(req)) => ClaudeWhole'
<1> DEFINE M == Mcp("claude")
           Q == Policy("claude")
           e == Entry(req, "complete")
           T(f) == [original |-> disk[f].user, generated |-> Holds(f, e)]
           b == ClaudeBlock(req)
           mw == Write(M, Holds(M, e))
           hw == Write(Hooks, Holds(Hooks, e))
           pw == Write(Q, Holds(Q, b))
<1>f. /\ M \in Files /\ Hooks \in Files /\ Q \in Files
      /\ M[1] = "claude" /\ Hooks[1] = "claude" /\ Q[1] = "claude"
      /\ M # Hooks /\ M # Q /\ Hooks # Q
  BY DEF Files, Mcp, Hooks, Policy
<1>t. /\ disk[M].user \in Users /\ disk[Hooks].user \in Users /\ disk[Q].user \in Users
      /\ disk[M].own \in Foreign \cup CompleteEntries \cup McpOnlyEntries
      /\ disk[Hooks].own \in Foreign \cup CompleteEntries
      /\ disk[Q].own \in Foreign \cup ClaudeBlocks
  BY DEF ClaudeTyped, McpTyped, FileHolding
<1>q. Owned(Q) => disk[Q].own \in ClaudeBlocks BY <1>t, ForeignIsNotOwned DEF Owned
<1>o. Owned(Q) => /\ disk[Q].own.mcp.original = disk[M].user
                  /\ disk[Q].own.hooks.original = disk[Hooks].user
                  /\ disk[Q].own.mcp \in Topologies /\ disk[Q].own.hooks \in Topologies
                  /\ disk[Q].own.fresh \in BOOLEAN
  <2> SUFFICES ASSUME Owned(Q)
               PROVE  /\ disk[Q].own.mcp.original = disk[M].user
                      /\ disk[Q].own.hooks.original = disk[Hooks].user
                      /\ disk[Q].own.mcp \in Topologies /\ disk[Q].own.hooks \in Topologies
                      /\ disk[Q].own.fresh \in BOOLEAN
    OBVIOUS
  <2>1. AsRecorded(M, disk[Q].own.mcp) /\ AsRecorded(Hooks, disk[Q].own.hooks)
    BY DEF ClaudeAllowed
  <2>2. PICK base \in Homes : Kept(base, M, disk[Q].own.mcp) /\ Kept(base, Hooks, disk[Q].own.hooks)
    BY DEF ClaudeRecorded, ClaudeKept
  <2> QED BY <2>1, <2>2, <1>q DEF AsRecorded, Kept, ClaudeBlocks
<1>n. ~ Owned(Q) => Clear(Q) /\ Clear(M) /\ Clear(Hooks) BY DEF ClaudeAllowed
<1>e. e \in CompleteEntries /\ e # None BY CompleteEntry
<1>b. /\ b.mcp = T(M) /\ b.hooks = T(Hooks) /\ b \in ClaudeBlocks /\ b # None
  <2>1. b.mcp = T(M) /\ b.hooks = T(Hooks) BY <1>o DEF ClaudeBlock
  <2>2. T(M) \in Topologies /\ T(Hooks) \in Topologies
    BY <1>e, <1>t DEF Topologies, Holds
  <2>3. b.fresh \in BOOLEAN /\ b.kind = "owned" /\ b.project \in Projects
    BY <1>o, RequestFacts DEF ClaudeBlock
  <2>4. b = [kind |-> "owned", project |-> b.project, fresh |-> b.fresh, mcp |-> b.mcp, hooks |-> b.hooks]
    BY DEF ClaudeBlock
  <2> HIDE DEF b, T
  <2>5. b \in ClaudeBlocks BY <2>1, <2>2, <2>3, <2>4 DEF ClaudeBlocks
  <2> QED BY <2>1, <2>3, <2>5 DEF None
<1> HIDE DEF b, e
<1>w. ClaudeWrites(req) = <<mw, hw, pw>> BY DEF ClaudeWrites, b, e
<1>p. P \subseteq {mw, hw, pw}
  <2> DEFINE s == <<mw, hw, pw>>
  <2>1. s \in Seq({mw, hw, pw}) /\ ToSet(s) = {mw, hw, pw} BY ToSetShort
  <2>2. P \in FirstOf(s) BY <1>w
  <2> HIDE DEF s, mw, hw, pw
  <2> QED BY <2>1, <2>2, FirstOfAny
<1>l. pw \in P => {mw, hw} \subseteq P
  <2>1. pw.file # mw.file /\ pw.file # hw.file BY <1>f DEF Write
  <2> QED BY <1>w, <2>1, LastComesLast
<1>1. IF mw \in P THEN Became(req.home, M, Holds(M, e)) ELSE Same(M)
  BY <1>p, <1>f DEF Effect, Write
<1>2. IF hw \in P THEN Became(req.home, Hooks, Holds(Hooks, e)) ELSE Same(Hooks)
  BY <1>p, <1>f DEF Effect, Write
<1>3. IF pw \in P THEN Became(req.home, Q, Holds(Q, b)) ELSE Same(Q)
  BY <1>p, <1>f DEF Effect, Write
<1>4. Remain BY DEF Effect
<1> HIDE DEF M, Q, mw, hw, pw
<1>5. ClaudeTyped'
  <2>1. McpTyped("claude")'
    BY <1>1, <1>e, <1>t DEF McpTyped, ClaudeTyped, Became, Same, Holds, FileHolding, M
  <2>2. disk'[Hooks] \in FileHolding(CompleteEntries)
    BY <1>2, <1>e, <1>t DEF ClaudeTyped, Became, Same, Holds, FileHolding
  <2>3. disk'[Q] \in FileHolding(ClaudeBlocks)
    BY <1>3, <1>b, <1>t DEF ClaudeTyped, Became, Same, Holds, FileHolding, Q
  <2> QED BY <2>1, <2>2, <2>3 DEF ClaudeTyped, Q, FileHolding, Users, Foreign, ClaudeBlocks, Topologies, CompleteEntries
<1>6. \A f \in {M, Hooks, Q} : disk'[f].user = disk[f].user
  BY <1>1, <1>2, <1>3 DEF Became, Same, Holds
<1>7. McpOnlyRecorded("claude")'
  <2>1. CASE Same(M)
    BY <2>1, <1>4, RecordsStay DEF Same, ClaudeRecorded, JsonClients, M
  <2>2. CASE disk'[M].own = e
    BY <2>2, <1>e DEF McpOnlyRecorded, IsMcpOnly, CompleteEntries, M
  <2> QED BY <1>1, <2>1, <2>2 DEF Became, Holds
<1>8. Owned(Q)' => ClaudeKept'
  <2>1. CASE pw \in P
    <3>1. disk'[Q].own = b /\ Became(req.home, M, Holds(M, e)) /\ Became(req.home, Hooks, Holds(Hooks, e))
      BY <1>1, <1>2, <1>3, <1>l, <2>1 DEF Became, Holds
    <3>2. \E base \in Homes :
             /\ \/ disk[M].user = "missing" \/ <<base, M, disk[M].user>> \in backups'
                \/ <<M, disk[M].user>> \in lost'
             /\ \/ disk[Hooks].user = "missing" \/ <<base, Hooks, disk[Hooks].user>> \in backups'
                \/ <<Hooks, disk[Hooks].user>> \in lost'
      <4>1. CASE Owned(Q)
        <5>1. PICK base \in Homes : Kept(base, M, disk[Q].own.mcp) /\ Kept(base, Hooks, disk[Q].own.hooks)
          BY <4>1 DEF ClaudeRecorded, ClaudeKept, M, Q
        <5>2. Traceable(base, M, disk[M].user) /\ Traceable(base, Hooks, disk[Hooks].user)
          BY <4>1, <5>1, <1>o DEF Kept
        <5> QED BY <5>2, <1>4 DEF Remain
      <4>2. CASE ~ Owned(Q)
        <5>1. /\ disk[M].user = "missing" \/ <<req.home, M, disk[M].user>> \in backups'
              /\ disk[Hooks].user = "missing" \/ <<req.home, Hooks, disk[Hooks].user>> \in backups'
          BY <4>2, <1>n, <1>e, <3>1, BackedUp DEF Holds
        <5> QED BY <5>1, RequestFacts
      <4> QED BY <4>1, <4>2
    <3>3. PICK base \in Homes :
             /\ \/ disk[M].user = "missing" \/ <<base, M, disk[M].user>> \in backups'
                \/ <<M, disk[M].user>> \in lost'
             /\ \/ disk[Hooks].user = "missing" \/ <<base, Hooks, disk[Hooks].user>> \in backups'
                \/ <<Hooks, disk[Hooks].user>> \in lost'
      BY <3>2
    <3>4. Kept(base, M, disk[Q].own.mcp)' /\ Kept(base, Hooks, disk[Q].own.hooks)'
      BY <3>1, <3>3, <1>b DEF Kept, Traceable, Restorable, Holds
    <3> QED BY <3>4 DEF ClaudeKept, M, Q
  <2>2. CASE pw \notin P
    <3>1. disk'[Q] = disk[Q] BY <1>3, <2>2 DEF Same
    <3> QED BY <3>1, <1>4, RecordsStay DEF Owned, ClaudeRecorded, Q
  <2> QED BY <2>1, <2>2
<1>9. P = ToSet(ClaudeWrites(req)) => ClaudeWhole'
  <2> SUFFICES ASSUME P = {mw, hw, pw} PROVE ClaudeWhole' BY <1>w, ToSetShort
  <2>1. disk'[M].own = e /\ disk'[Hooks].own = e /\ disk'[Q].own = b
    BY <1>1, <1>2, <1>3 DEF Became, Holds
  <2> QED BY <2>1, <1>e, <1>b DEF ClaudeWhole, Owned, IsMcpOnly, CompleteEntries, ClaudeBlocks, M, Q
<1> QED BY <1>5, <1>6, <1>7, <1>8, <1>9 DEF ClaudeRecorded, M, Q

\* Disconnecting Claude puts back what its files were.
LEMMA ClaudeDisconnects ==
  ASSUME ClaudeTyped, ClaudeRecorded,
         NEW req \in Requests, ~ Connects(req), ClaudeAllowed(req),
         NEW P, P \subseteq ToSet(ClaudeWrites(req)), Effect(req.home, "claude", P)
  PROVE  /\ ClaudeTyped' /\ ClaudeRecorded'
         /\ disk'[Mcp("claude")].user = disk[Mcp("claude")].user
         /\ disk'[Hooks].user = disk[Hooks].user
         /\ \/ disk'[Policy("claude")].user = disk[Policy("claude")].user
            \/ {disk'[Policy("claude")].user, disk[Policy("claude")].user} \subseteq {"missing", "empty"}
         /\ P = ToSet(ClaudeWrites(req)) =>
              Clear(Mcp("claude"))' /\ Clear(Hooks)' /\ Clear(Policy("claude"))'
<1> DEFINE M == Mcp("claude")
           Q == Policy("claude")
           v == IF disk[Q].own.fresh /\ Without(Q).user \in {"missing", "empty"} THEN Absent ELSE Without(Q)
           mw == Write(M, Without(M))
           hw == Write(Hooks, Without(Hooks))
           pw == Write(Q, v)
<1>f. /\ M \in Files /\ Hooks \in Files /\ Q \in Files
      /\ M[1] = "claude" /\ Hooks[1] = "claude" /\ Q[1] = "claude"
      /\ M # Hooks /\ M # Q /\ Hooks # Q
  BY DEF Files, Mcp, Hooks, Policy
<1>t. /\ disk[M].user \in Users /\ disk[Hooks].user \in Users /\ disk[Q].user \in Users
      /\ disk[M] \in FileHolding(CompleteEntries \cup McpOnlyEntries)
      /\ disk[Hooks] \in FileHolding(CompleteEntries)
      /\ disk[Q] \in FileHolding(ClaudeBlocks)
  BY DEF ClaudeTyped, McpTyped, FileHolding
<1>n. ~ Owned(Q) => P = {} /\ Clear(Q) /\ Clear(M) /\ Clear(Hooks)
  BY ToSetShort DEF ClaudeAllowed, ClaudeWrites
<1>o. Owned(Q) => /\ disk[Q].own.mcp.original = disk[M].user
                  /\ disk[Q].own.hooks.original = disk[Hooks].user
  <2> SUFFICES ASSUME Owned(Q)
               PROVE  /\ disk[Q].own.mcp.original = disk[M].user
                      /\ disk[Q].own.hooks.original = disk[Hooks].user
    OBVIOUS
  <2>1. AsRecorded(M, disk[Q].own.mcp) /\ AsRecorded(Hooks, disk[Q].own.hooks)
    BY DEF ClaudeAllowed
  <2>2. PICK base \in Homes : Kept(base, M, disk[Q].own.mcp) /\ Kept(base, Hooks, disk[Q].own.hooks)
    BY DEF ClaudeRecorded, ClaudeKept
  <2> QED BY <2>1, <2>2 DEF AsRecorded, Kept
<1>w. Owned(Q) => ToSet(ClaudeWrites(req)) = {mw, hw, pw}
  BY <1>o, ToSetShort DEF ClaudeWrites, Restored, Without, Holds
<1>v. /\ v.own = None /\ v \in FileHolding(ClaudeBlocks)
      /\ v.user = disk[Q].user \/ {v.user, disk[Q].user} \subseteq {"missing", "empty"}
  BY <1>t DEF Without, Holds, Absent, FileHolding, Foreign, Users
<1> HIDE DEF v
<1>p. P \subseteq {mw, hw, pw} BY <1>w, <1>n
<1>1. IF mw \in P THEN disk'[M] = Without(M) ELSE disk'[M] = disk[M]
  <2>1. IF mw \in P THEN Became(req.home, M, Without(M)) ELSE Same(M)
    BY <1>p, <1>f DEF Effect, Write
  <2> QED BY <2>1 DEF Became, Same
<1>2. IF hw \in P THEN disk'[Hooks] = Without(Hooks) ELSE disk'[Hooks] = disk[Hooks]
  <2>1. IF hw \in P THEN Became(req.home, Hooks, Without(Hooks)) ELSE Same(Hooks)
    BY <1>p, <1>f DEF Effect, Write
  <2> QED BY <2>1 DEF Became, Same
<1>3. IF pw \in P THEN disk'[Q] = v ELSE disk'[Q] = disk[Q]
  <2>1. IF pw \in P THEN Became(req.home, Q, v) ELSE Same(Q)
    BY <1>p, <1>f DEF Effect, Write
  <2> QED BY <2>1 DEF Became, Same
<1>4. Remain BY DEF Effect
<1>5. ClaudeTyped'
  <2>1. disk'[M] \in FileHolding(CompleteEntries \cup McpOnlyEntries)
    BY <1>1, <1>t DEF Without, Holds, FileHolding, Foreign
  <2>2. disk'[Hooks] \in FileHolding(CompleteEntries)
    BY <1>2, <1>t DEF Without, Holds, FileHolding, Foreign
  <2>3. disk'[Q] \in FileHolding(ClaudeBlocks) BY <1>3, <1>v, <1>t
  <2> QED BY <2>1, <2>2, <2>3 DEF ClaudeTyped, McpTyped
<1>6. McpOnlyRecorded("claude")'
  <2>1. CASE disk'[M] = disk[M]
    BY <2>1, <1>4, RecordsStay DEF ClaudeRecorded, JsonClients
  <2>2. CASE disk'[M] = Without(M)
    <3>1. disk'[M].own = None BY <2>2 DEF Without, Holds
    <3> QED BY <3>1 DEF McpOnlyRecorded, IsMcpOnly, Owned, None
  <2> QED BY <1>1, <2>1, <2>2
<1>7. Owned(Q)' => ClaudeKept'
  <2>1. Owned(Q)' => disk'[Q] = disk[Q] BY <1>3, <1>v DEF Owned, None
  <2> QED BY <2>1, <1>4, RecordsStay DEF Owned, ClaudeRecorded
<1>8. P = ToSet(ClaudeWrites(req)) => Clear(M)' /\ Clear(Hooks)' /\ Clear(Q)'
  BY <1>w, <1>n, <1>1, <1>2, <1>3, <1>v DEF Clear, Without, Holds
<1> QED BY <1>1, <1>2, <1>3, <1>v, <1>5, <1>6, <1>7, <1>8 DEF ClaudeRecorded, Without, Holds

(***************************************************************************)
(* OpenCode.                                                               *)
(***************************************************************************)
\* OpenCode: the document is written before the line that records it.
LEMMA OpenCodeStep ==
  ASSUME OpenCodeTyped, OpenCodeRecorded,
         NEW req \in Requests, OpenCodeAllowed(req),
         NEW P \in FirstOf(OpenCodeWrites(req)), Effect(req.home, "opencode", P)
  PROVE  /\ OpenCodeTyped' /\ OpenCodeRecorded'
         /\ disk'[Document].user = disk[Document].user
         /\ disk'[Plugin].user = disk[Plugin].user
         /\ P = ToSet(OpenCodeWrites(req)) =>
              IF Connects(req)
              THEN /\ Owned(Plugin)' /\ Owned(Document)' /\ ~ IsMcpOnly("opencode")'
                   /\ disk'[Plugin].own.project = req.project
              ELSE Clear(Plugin)' /\ Clear(Document)'
<1> DEFINE D == Document
           u == disk[D].user
           e == Entry(req, "complete")
           dv == IF Connects(req) THEN [user |-> u, own |-> e] ELSE [user |-> u, own |-> None]
           l == [kind |-> "owned", project |-> req.project, settings |-> req.settings,
                 config |-> [original |-> u, generated |-> [user |-> u, own |-> e]]]
           pv == IF Connects(req) THEN [user |-> "missing", own |-> l] ELSE Absent
           dw == Write(D, dv)
           pw == Write(Plugin, pv)
<1>f. /\ D \in Files /\ Plugin \in Files /\ D # Plugin /\ D = Mcp("opencode")
      /\ D[1] = "opencode" /\ Plugin[1] = "opencode"
  BY DEF Files, Document, Plugin, Mcp
<1>t. /\ u \in Users /\ disk[D] \in FileHolding(CompleteEntries \cup McpOnlyEntries)
      /\ disk[Plugin] \in FileHolding(PluginLines) /\ disk[Plugin].user = "missing"
  BY <1>f DEF OpenCodeTyped, McpTyped, FileHolding
<1>o. Owned(Plugin) => disk[Plugin].own.config.original = u
  <2>1. Owned(Plugin) => AsRecorded(D, disk[Plugin].own.config) BY DEF OpenCodeAllowed
  <2>2. Owned(Plugin) => \E base \in Homes : Kept(base, D, disk[Plugin].own.config)
    BY DEF OpenCodeRecorded, OpenCodeKept
  <2> QED BY <2>1, <2>2 DEF AsRecorded, Kept
<1>n. ~ Owned(Plugin) => Clear(Plugin) /\ Clear(D) BY DEF OpenCodeAllowed
<1>w. /\ Connects(req) \/ Owned(Plugin) => OpenCodeWrites(req) = <<dw, pw>>
      /\ ~ (Connects(req) \/ Owned(Plugin)) => OpenCodeWrites(req) = <<>>
  BY <1>o DEF OpenCodeWrites, Restored
<1>v. /\ dv.user = u /\ pv.user = "missing"
      /\ dv \in FileHolding(CompleteEntries \cup McpOnlyEntries) /\ pv \in FileHolding(PluginLines)
      /\ IF Connects(req)
         THEN /\ dv.own = e /\ e \in CompleteEntries /\ e # None
              /\ pv.own = l /\ l.config.original = u /\ l.config.generated.user = u
              /\ l.kind = "owned" /\ l.project = req.project
         ELSE dv.own = None /\ pv.own = None
  <2>1. CASE Connects(req)
    <3>1. e \in CompleteEntries /\ e # None BY <2>1, CompleteEntry
    <3> HIDE DEF e
    <3>2. l \in PluginLines BY <2>1, <3>1, <1>t, RequestFacts DEF PluginLines, Topologies
    <3>3. l.config.original = u /\ l.config.generated.user = u /\ l.kind = "owned" /\ l.project = req.project OBVIOUS
    <3> HIDE DEF l
    <3> QED BY <2>1, <3>1, <3>2, <3>3, <1>t DEF FileHolding, Users
  <2>2. CASE ~ Connects(req) BY <2>2, <1>t DEF FileHolding, Foreign, Absent, Users
  <2> QED BY <2>1, <2>2
<1> HIDE DEF dv, pv, l, e
<1>p. /\ P \subseteq {dw, pw}
      /\ pw \in P => dw \in P
      /\ P # {} => Connects(req) \/ Owned(Plugin)
      /\ P = ToSet(OpenCodeWrites(req)) /\ (Connects(req) \/ Owned(Plugin)) => P = {dw, pw}
  <2>1. CASE Connects(req) \/ Owned(Plugin)
    <3> DEFINE s == <<dw, pw>>
    <3>1. s \in Seq({dw, pw}) /\ ToSet(s) = {dw, pw} BY ToSetShort
    <3>2. P \in FirstOf(s) /\ OpenCodeWrites(req) = s BY <1>w, <2>1
    <3>3. pw \in P => dw \in P BY <3>2, LastComesLast
    <3> HIDE DEF s, dw, pw
    <3> QED BY <2>1, <3>1, <3>2, <3>3, FirstOfAny
  <2>2. CASE ~ (Connects(req) \/ Owned(Plugin))
    <3>1. <<>> \in Seq({}) /\ P \in FirstOf(<<>>) BY <1>w, <2>2
    <3>2. P \subseteq ToSet(<<>>) BY <3>1, FirstOfAny
    <3> QED BY <2>2, <3>2, ToSetShort
  <2> QED BY <2>1, <2>2
<1>1. IF dw \in P THEN Became(req.home, D, dv) ELSE disk'[D] = disk[D]
  BY <1>p, <1>f DEF Effect, Write, Same
<1>2. IF pw \in P THEN Became(req.home, Plugin, pv) ELSE disk'[Plugin] = disk[Plugin]
  BY <1>p, <1>f DEF Effect, Write, Same
<1>4. Remain BY DEF Effect
<1>5. OpenCodeTyped'
  <2>1. disk'[D] \in FileHolding(CompleteEntries \cup McpOnlyEntries) BY <1>1, <1>t, <1>v DEF Became
  <2>2. disk'[Plugin] \in FileHolding(PluginLines) /\ disk'[Plugin].user = "missing"
    BY <1>2, <1>t, <1>v DEF Became
  <2> QED BY <2>1, <2>2, <1>f DEF OpenCodeTyped, McpTyped
<1>6. McpOnlyRecorded("opencode")'
  <2>1. CASE disk'[D] = disk[D]
    BY <2>1, <1>4, <1>f, RecordsStay DEF OpenCodeRecorded, JsonClients
  <2>2. CASE disk'[D] = dv
    <3>1. ~ IsMcpOnly("opencode")'
      BY <2>2, <1>f, <1>v DEF IsMcpOnly, Owned, CompleteEntries, None
    <3> QED BY <3>1 DEF McpOnlyRecorded
  <2> QED BY <1>1, <2>1, <2>2 DEF Became
<1>7. Owned(Plugin)' => OpenCodeKept'
  <2>1. CASE pw \in P /\ Connects(req)
    <3>1. disk'[Plugin].own = l /\ Became(req.home, D, dv) BY <1>1, <1>2, <1>p, <1>v, <2>1 DEF Became
    <3>2. \E base \in Homes : u = "missing" \/ <<base, D, u>> \in backups' \/ <<D, u>> \in lost'
      <4>1. CASE Owned(Plugin)
        <5>1. \E base \in Homes : Traceable(base, D, u)
          BY <4>1, <1>o DEF OpenCodeRecorded, OpenCodeKept, Kept
        <5> QED BY <5>1, <1>4 DEF Remain
      <4>2. CASE ~ Owned(Plugin)
        <5>1. u = "missing" \/ <<req.home, D, u>> \in backups' BY <4>2, <1>n, <1>v, <2>1, <3>1, BackedUp
        <5> QED BY <5>1, RequestFacts
      <4> QED BY <4>1, <4>2
    <3>3. PICK base \in Homes : u = "missing" \/ <<base, D, u>> \in backups' \/ <<D, u>> \in lost'
      BY <3>2
    <3>4. Kept(base, D, disk[Plugin].own.config)' BY <2>1, <3>1, <3>3, <1>v DEF Kept, Traceable, Restorable
    <3> QED BY <3>4 DEF OpenCodeKept
  <2>2. CASE pw \in P /\ ~ Connects(req)
    BY <2>2, <1>2, <1>v DEF Became, Owned, None
  <2>3. CASE pw \notin P
    BY <2>3, <1>2, <1>4, RecordsStay DEF Owned, OpenCodeRecorded
  <2> QED BY <2>1, <2>2, <2>3
<1>8. disk'[D].user = u /\ disk'[Plugin].user = disk[Plugin].user
  BY <1>1, <1>2, <1>v, <1>t DEF Became
<1>9. P = ToSet(OpenCodeWrites(req)) =>
        IF Connects(req)
        THEN /\ Owned(Plugin)' /\ Owned(Document)' /\ ~ IsMcpOnly("opencode")'
             /\ disk'[Plugin].own.project = req.project
        ELSE Clear(Plugin)' /\ Clear(Document)'
  <2> SUFFICES ASSUME P = ToSet(OpenCodeWrites(req))
               PROVE  IF Connects(req)
                      THEN /\ Owned(Plugin)' /\ Owned(Document)' /\ ~ IsMcpOnly("opencode")'
                           /\ disk'[Plugin].own.project = req.project
                      ELSE Clear(Plugin)' /\ Clear(Document)'
    OBVIOUS
  <2>1. CASE Connects(req)
    <3>1. disk'[D] = dv /\ disk'[Plugin] = pv BY <2>1, <1>1, <1>2, <1>p DEF Became
    <3> QED BY <2>1, <3>1, <1>v, <1>f DEF Owned, IsMcpOnly, CompleteEntries
  <2>2. CASE ~ Connects(req) /\ Owned(Plugin)
    <3>1. disk'[D] = dv /\ disk'[Plugin] = pv BY <2>2, <1>1, <1>2, <1>p DEF Became
    <3> QED BY <2>2, <3>1, <1>v DEF Clear
  <2>3. CASE ~ Connects(req) /\ ~ Owned(Plugin)
    <3>1. disk'[D] = disk[D] /\ disk'[Plugin] = disk[Plugin] BY <2>3, <1>1, <1>2, <1>p
    <3> QED BY <2>3, <3>1, <1>n DEF Clear
  <2> QED BY <2>1, <2>2, <2>3
<1> QED BY <1>5, <1>6, <1>7, <1>8, <1>9 DEF OpenCodeRecorded

(***************************************************************************)
(* Copilot.                                                                *)
(***************************************************************************)
\* The user's part of a file stays, but for a missing file that is left empty.
UserStays(f) ==
  \/ disk'[f].user = disk[f].user
  \/ {disk'[f].user, disk[f].user} \subseteq {"missing", "empty"}

\* What is written of Copilot's two files.
LEMMA CopilotWritesAre ==
  ASSUME CopilotTyped, NEW req \in Requests, CopilotAllowed(req)
  PROVE  \E mv, qv :
           /\ IF Connects(req)
              THEN /\ mv.own = Entry(req, "complete") /\ mv.user = disk[Mcp("copilot")].user
                   /\ mv \in FileHolding(CompleteEntries)
                   /\ qv \in FileHolding(CopilotBlocks) /\ qv.user = disk[Policy("copilot")].user
                   /\ qv.own.kind = "owned" /\ qv.own.entry = mv.own
                   /\ ToSet(CopilotWrites(req)) = {Write(Mcp("copilot"), mv), Write(Policy("copilot"), qv)}
              ELSE /\ \A v \in {mv, qv} : v.own = None /\ v \in FileHolding({})
                   /\ mv.user = disk[Mcp("copilot")].user \/ {mv.user, disk[Mcp("copilot")].user} \subseteq {"missing", "empty"}
                   /\ \/ qv.user = disk[Policy("copilot")].user
                      \/ {qv.user, disk[Policy("copilot")].user} \subseteq {"missing", "empty"}
                   /\ ToSet(CopilotWrites(req)) =
                        (IF Clear(Mcp("copilot")) THEN {} ELSE {Write(Mcp("copilot"), mv)})
                        \cup (IF Clear(Policy("copilot")) THEN {} ELSE {Write(Policy("copilot"), qv)})
<1> DEFINE M == Mcp("copilot")
           Q == Policy("copilot")
           e == Entry(req, "complete")
           created == IF Clear(M) THEN disk[M].user = "missing" ELSE disk[Q].own.created
           b == [kind |-> "owned", project |-> req.project, entry |-> e, created |-> created, intact |-> TRUE]
<1>t. /\ disk[M].user \in Users /\ disk[Q].user \in Users
      /\ disk[Q].own \in Foreign \cup CopilotBlocks
  BY DEF CopilotTyped, McpTyped, FileHolding
<1>1. CASE Connects(req)
  <2> DEFINE mv == Holds(M, e)
             qv == Holds(Q, b)
  <2>1. e \in CompleteEntries BY <1>1, CompleteEntry
  <2>2. created \in BOOLEAN
    <3>1. ~ Clear(M) => Owned(Q) BY DEF CopilotAllowed
    <3>2. Owned(Q) => disk[Q].own \in CopilotBlocks BY <1>t, ForeignIsNotOwned DEF Owned
    <3>3. ~ Clear(M) => disk[Q].own.created \in BOOLEAN BY <3>1, <3>2 DEF CopilotBlocks
    <3> QED BY <3>3
  <2>3. CopilotWrites(req) = <<Write(M, mv), Write(Q, qv)>> BY <1>1 DEF CopilotWrites
  <2> HIDE DEF e, created
  <2>4. b \in CopilotBlocks /\ b.kind = "owned" /\ b.entry = e
    BY <1>1, <2>1, <2>2, RequestFacts DEF CopilotBlocks
  <2> HIDE DEF b
  <2>5. /\ mv.own = e /\ mv.user = disk[M].user /\ mv \in FileHolding(CompleteEntries)
        /\ qv.own = b /\ qv.user = disk[Q].user /\ qv \in FileHolding(CopilotBlocks)
    BY <2>1, <2>4, <1>t DEF Holds, FileHolding
  <2>6. ToSet(CopilotWrites(req)) = {Write(M, mv), Write(Q, qv)} BY <2>3, ToSetShort
  <2> HIDE DEF mv, qv
  <2> WITNESS mv, qv
  <2> QED BY <1>1, <2>4, <2>5, <2>6 DEF e
<1>2. CASE ~ Connects(req)
  <2> DEFINE mv == IF created /\ disk[M].user = "missing" THEN Absent ELSE Emptied(M)
             qv == Emptied(Q)
             s == IF Clear(M) THEN <<>> ELSE <<Write(M, mv)>>
             r == IF Clear(Q) THEN <<>> ELSE <<Write(Q, qv)>>
  <2>1. CopilotWrites(req) = s \o r BY <1>2 DEF CopilotWrites
  <2>2. /\ mv.own = None /\ mv \in FileHolding({})
        /\ mv.user = disk[M].user \/ {mv.user, disk[M].user} \subseteq {"missing", "empty"}
    BY <1>t DEF Emptied, Absent, FileHolding, Foreign, Users
  <2>3. /\ qv.own = None /\ qv \in FileHolding({})
        /\ qv.user = disk[Q].user \/ {qv.user, disk[Q].user} \subseteq {"missing", "empty"}
    BY <1>t DEF Emptied, Absent, FileHolding, Foreign, Users
  <2> HIDE DEF mv, qv
  <2>4. s \in Seq({Write(M, mv), Write(Q, qv)}) /\ r \in Seq({Write(M, mv), Write(Q, qv)})
    <3> DEFINE S == {Write(M, mv), Write(Q, qv)}
    <3>1. <<Write(M, mv)>> \in Seq(S) /\ <<Write(Q, qv)>> \in Seq(S) /\ <<>> \in Seq(S) OBVIOUS
    <3> HIDE DEF S
    <3>2. s \in Seq(S) /\ r \in Seq(S) BY <3>1
    <3> QED BY <3>2 DEF S
  <2>5. /\ ToSet(s) = (IF Clear(M) THEN {} ELSE {Write(M, mv)})
        /\ ToSet(r) = (IF Clear(Q) THEN {} ELSE {Write(Q, qv)})
    BY ToSetShort
  <2> HIDE DEF s, r
  <2>6. ToSet(CopilotWrites(req)) = ToSet(s) \cup ToSet(r) BY <2>1, <2>4, ToSetConcat
  <2> WITNESS mv, qv
  <2> QED BY <1>2, <2>2, <2>3, <2>5, <2>6
<1> QED BY <1>1, <1>2

\* Copilot, connected or disconnected in any part.
LEMMA CopilotStep ==
  ASSUME CopilotTyped, CopilotRecorded,
         NEW req \in Requests, CopilotAllowed(req),
         NEW P, P \subseteq ToSet(CopilotWrites(req)), Effect(req.home, "copilot", P)
  PROVE  /\ CopilotTyped' /\ CopilotRecorded'
         /\ UserStays(Mcp("copilot")) /\ UserStays(Policy("copilot"))
         /\ P = ToSet(CopilotWrites(req)) =>
              IF Connects(req) THEN CopilotWhole'
              ELSE Clear(Mcp("copilot"))' /\ Clear(Policy("copilot"))'
<1> DEFINE M == Mcp("copilot")
           Q == Policy("copilot")
<1>f. M \in Files /\ Q \in Files /\ M # Q /\ M[1] = "copilot" /\ Q[1] = "copilot"
  BY DEF Files, Mcp, Policy
<1>4. Remain BY DEF Effect
<1>t. /\ disk[M] \in FileHolding(CompleteEntries \cup McpOnlyEntries) /\ disk[Q] \in FileHolding(CopilotBlocks)
  BY DEF CopilotTyped, McpTyped
<1>s. Same(M) => McpOnlyRecorded("copilot")'
  BY <1>4, RecordsStay DEF Same, CopilotRecorded, JsonClients
<1>1. CASE Connects(req)
  <2>1. PICK mv, qv :
          /\ mv.own = Entry(req, "complete") /\ mv.user = disk[M].user /\ mv \in FileHolding(CompleteEntries)
          /\ qv \in FileHolding(CopilotBlocks) /\ qv.user = disk[Q].user
          /\ qv.own.kind = "owned" /\ qv.own.entry = mv.own
          /\ ToSet(CopilotWrites(req)) = {Write(M, mv), Write(Q, qv)}
    BY <1>1, CopilotWritesAre
  <2>e. mv.own \in CompleteEntries BY <1>1, <2>1, CompleteEntry
  <2>2. IF Write(M, mv) \in P THEN Became(req.home, M, mv) ELSE Same(M)
    BY <1>f, <2>1 DEF Effect, Write
  <2>3. IF Write(Q, qv) \in P THEN Became(req.home, Q, qv) ELSE Same(Q)
    BY <1>f, <2>1 DEF Effect, Write
  <2>4. (disk'[M] = mv \/ Same(M)) /\ (disk'[Q] = qv \/ Same(Q)) BY <2>2, <2>3 DEF Became
  <2>5. CopilotTyped'
    <3>1. disk'[M] \in FileHolding(CompleteEntries \cup McpOnlyEntries)
      BY <2>1, <2>4, <1>t DEF Same, FileHolding
    <3>2. disk'[Q] \in FileHolding(CopilotBlocks) BY <2>1, <2>4, <1>t DEF Same
    <3> QED BY <3>1, <3>2 DEF CopilotTyped, McpTyped
  <2>6. disk'[M] = mv => ~ IsMcpOnly("copilot")' BY <2>e DEF IsMcpOnly, CompleteEntries
  <2>7. CopilotRecorded' BY <2>4, <2>6, <1>s DEF CopilotRecorded, McpOnlyRecorded
  <2>8. UserStays(M) /\ UserStays(Q) BY <2>1, <2>4 DEF UserStays, Same
  <2>9. P = ToSet(CopilotWrites(req)) => CopilotWhole'
    <3> SUFFICES ASSUME P = ToSet(CopilotWrites(req)) PROVE CopilotWhole' OBVIOUS
    <3>1. disk'[M] = mv /\ disk'[Q] = qv BY <2>1, <2>2, <2>3 DEF Became
    <3> QED BY <2>1, <2>e, <2>6, <3>1 DEF CopilotWhole, Owned, CompleteEntries
  <2> QED BY <1>1, <2>5, <2>7, <2>8, <2>9
<1>2. CASE ~ Connects(req)
  <2>1. PICK mv, qv :
          /\ \A v \in {mv, qv} : v.own = None /\ v \in FileHolding({})
          /\ mv.user = disk[M].user \/ {mv.user, disk[M].user} \subseteq {"missing", "empty"}
          /\ qv.user = disk[Q].user \/ {qv.user, disk[Q].user} \subseteq {"missing", "empty"}
          /\ ToSet(CopilotWrites(req)) =
               (IF Clear(M) THEN {} ELSE {Write(M, mv)}) \cup (IF Clear(Q) THEN {} ELSE {Write(Q, qv)})
    BY <1>2, CopilotWritesAre
  <2>2. IF Write(M, mv) \in P THEN Became(req.home, M, mv) ELSE Same(M)
    BY <1>f, <2>1 DEF Effect, Write
  <2>3. IF Write(Q, qv) \in P THEN Became(req.home, Q, qv) ELSE Same(Q)
    BY <1>f, <2>1 DEF Effect, Write
  <2>4. (disk'[M] = mv \/ Same(M)) /\ (disk'[Q] = qv \/ Same(Q)) BY <2>2, <2>3 DEF Became
  <2>5. CopilotTyped'
    <3>1. disk'[M] \in FileHolding(CompleteEntries \cup McpOnlyEntries)
      BY <2>1, <2>4, <1>t DEF Same, FileHolding
    <3>2. disk'[Q] \in FileHolding(CopilotBlocks) BY <2>1, <2>4, <1>t DEF Same, FileHolding
    <3> QED BY <3>1, <3>2 DEF CopilotTyped, McpTyped
  <2>6. disk'[M] = mv => ~ IsMcpOnly("copilot")' BY <2>1 DEF IsMcpOnly, Owned, None
  <2>7. CopilotRecorded' BY <2>4, <2>6, <1>s DEF CopilotRecorded, McpOnlyRecorded
  <2>8. UserStays(M) /\ UserStays(Q) BY <2>1, <2>4 DEF UserStays, Same
  <2>9. P = ToSet(CopilotWrites(req)) => Clear(M)' /\ Clear(Q)'
    <3> SUFFICES ASSUME P = ToSet(CopilotWrites(req)) PROVE Clear(M)' /\ Clear(Q)' OBVIOUS
    <3>1. Clear(M)' 
      <4>1. CASE Clear(M) BY <4>1, <2>1, <2>4 DEF Clear, Same
      <4>2. CASE ~ Clear(M) BY <4>2, <2>1, <2>2 DEF Became, Clear
      <4> QED BY <4>1, <4>2
    <3>2. Clear(Q)' 
      <4>1. CASE Clear(Q) BY <4>1, <2>1, <2>4 DEF Clear, Same
      <4>2. CASE ~ Clear(Q) BY <4>2, <2>1, <2>3 DEF Became, Clear
      <4> QED BY <4>1, <4>2
    <3> QED BY <3>1, <3>2
  <2> QED BY <1>2, <2>5, <2>7, <2>8, <2>9
<1> QED BY <1>1, <1>2

(***************************************************************************)
(* Codex.                                                                  *)
(***************************************************************************)
\* Codex: one file.
LEMMA CodexStep ==
  ASSUME CodexTyped, NEW req \in Requests, CodexAllowed(req),
         NEW P, P \subseteq ToSet(CodexWrites(req)), Effect(req.home, "codex", P)
  PROVE  /\ CodexTyped'
         /\ UserStays(Toml)
         /\ P = ToSet(CodexWrites(req)) =>
              IF Connects(req)
              THEN Owned(Toml)' /\ disk'[Toml].own.mode = Mode(req) /\ disk'[Toml].own.project = req.project
              ELSE ~ Owned(Toml)' /\ (CodexWhole => Clear(Toml)')
<1>f. Toml \in Files /\ Toml[1] = "codex" BY DEF Toml, Files
<1> DEFINE e == Entry(req, Mode(req))
           v == IF Connects(req) THEN Holds(Toml, e) ELSE Emptied(Toml)
<1>t. disk[Toml] \in FileHolding(TomlEntries) /\ disk[Toml].user \in Users
  BY DEF CodexTyped, FileHolding
<1>w. ToSet(CodexWrites(req)) = IF Connects(req) \/ Owned(Toml) THEN {Write(Toml, v)} ELSE {}
  BY ToSetShort DEF CodexWrites
<1>e. Connects(req) => e \in TomlEntries
  BY RequestFacts DEF Entry, TomlEntries, Mode
<1>o. e.kind = "owned" /\ e.mode = Mode(req) /\ e.project = req.project BY DEF Entry
<1> HIDE DEF e
<1>v. /\ v \in FileHolding(TomlEntries)
      /\ v.user = disk[Toml].user \/ {v.user, disk[Toml].user} \subseteq {"missing", "empty"}
      /\ IF Connects(req) THEN v.own = e ELSE v.own = None
  BY <1>e, <1>t DEF Holds, Emptied, FileHolding, Foreign, Users
<1> HIDE DEF v
<1>1. IF Write(Toml, v) \in P THEN disk'[Toml] = v ELSE Same(Toml)
  <2>1. IF Write(Toml, v) \in P THEN Became(req.home, Toml, v) ELSE Same(Toml)
    BY <1>f, <1>w DEF Effect, Write
  <2> QED BY <2>1 DEF Became
<1>2. CodexTyped' BY <1>1, <1>v, <1>t DEF CodexTyped, Same
<1>3. UserStays(Toml) BY <1>1, <1>v DEF UserStays, Same
<1>4. ASSUME P = ToSet(CodexWrites(req)), Connects(req)
      PROVE  Owned(Toml)' /\ disk'[Toml].own.mode = Mode(req) /\ disk'[Toml].own.project = req.project
  BY <1>4, <1>w, <1>1, <1>v, <1>o DEF Owned
<1>5. ASSUME P = ToSet(CodexWrites(req)), ~ Connects(req)
      PROVE  ~ Owned(Toml)' /\ (CodexWhole => Clear(Toml)')
  <2>1. CASE Owned(Toml)
    <3>1. disk'[Toml].own = None BY <1>5, <1>w, <1>1, <1>v, <2>1
    <3> QED BY <3>1 DEF Owned, Clear, None
  <2>2. CASE ~ Owned(Toml)
    BY <1>5, <1>w, <1>1, <2>2 DEF Same, Owned, Clear, CodexWhole
  <2> QED BY <2>1, <2>2
<1> QED BY <1>2, <1>3, <1>4, <1>5

(***************************************************************************)
(* The shared policy.                                                      *)
(***************************************************************************)
\* The policy file names exactly the clients it is asked to.
LEMMA SharedStep ==
  ASSUME SharedTyped, NEW req \in Requests, NEW cs, SharedAllowed(cs, req),
         NEW P, P \in {{}, ToSet(SharedWrites(cs, req))}, Effect(req.home, "shared", P)
  PROVE  /\ SharedTyped'
         /\ UserStays(Shared)
         /\ P = ToSet(SharedWrites(cs, req)) =>
              /\ Consumers' = IF Connects(req) THEN Consumers \cup Sharing(cs) ELSE Consumers \ Sharing(cs)
              /\ Consumers' # {} => \/ disk'[Shared].own.project = disk[Shared].own.project /\ Owned(Shared)
                                    \/ Connects(req) /\ Sharing(cs) # {} /\ disk'[Shared].own.project = req.project
              /\ Connects(req) /\ Sharing(cs) # {} => disk'[Shared].own.project = req.project
              /\ SharedWhole => SharedWhole'
<1>f. Shared \in Files /\ Shared[1] = "shared" BY DEF Shared, Files
<1> DEFINE consumers == IF Connects(req) THEN Consumers \cup Sharing(cs) ELSE Consumers \ Sharing(cs)
           project == IF Connects(req) THEN req.project ELSE disk[Shared].own.project
           b == [kind |-> "owned", project |-> project, consumers |-> consumers, intact |-> TRUE]
           v == IF consumers = {} THEN Emptied(Shared) ELSE Holds(Shared, b)
           idle == Sharing(cs) = {} \/ (~ Connects(req) /\ Clear(Shared))
<1>t. /\ disk[Shared] \in FileHolding(SharedBlocks) /\ disk[Shared].user \in Users
      /\ Owned(Shared) => disk[Shared].own \in SharedBlocks
  BY ForeignIsNotOwned DEF SharedTyped, FileHolding, Owned
<1>c. Consumers \subseteq {"codex", "opencode"} /\ Sharing(cs) \subseteq {"codex", "opencode"}
  BY <1>t DEF Consumers, SharedBlocks, Sharing
<1>w. ToSet(SharedWrites(cs, req)) = IF idle THEN {} ELSE {Write(Shared, v)}
  BY ToSetShort DEF SharedWrites
<1>o. ~ idle => Clear(Shared) \/ Owned(Shared) BY DEF SharedAllowed
<1>p. ~ idle /\ consumers # {} => project \in Projects
  <2>1. CASE Connects(req) BY <2>1, RequestFacts
  <2>2. CASE ~ Connects(req)
    <3>1. Consumers # {} => Owned(Shared) BY DEF Consumers
    <3> QED BY <2>2, <3>1, <1>t DEF SharedBlocks
  <2> QED BY <2>1, <2>2
<1> HIDE DEF consumers, project
<1>b. ~ idle /\ consumers # {} =>
        /\ b \in SharedBlocks /\ b.kind = "owned" /\ b.consumers = consumers /\ b.project = project
  <2>1. consumers \in SUBSET {"codex", "opencode"} BY <1>c DEF consumers
  <2> QED BY <2>1, <1>p DEF SharedBlocks
<1> HIDE DEF b
<1>v. ~ idle => /\ v \in FileHolding(SharedBlocks)
                /\ v.user = disk[Shared].user \/ {v.user, disk[Shared].user} \subseteq {"missing", "empty"}
                /\ IF consumers = {} THEN v.own = None ELSE v.own = b
  BY <1>b, <1>t DEF Holds, Emptied, FileHolding, Foreign, Users
<1> HIDE DEF v, idle
<1>1. IF ~ idle /\ Write(Shared, v) \in P THEN disk'[Shared] = v ELSE disk'[Shared] = disk[Shared]
  <2>1. IF ~ idle /\ Write(Shared, v) \in P THEN Became(req.home, Shared, v) ELSE Same(Shared)
    BY <1>f, <1>w DEF Effect, Write
  <2> QED BY <2>1 DEF Became, Same
<1>2. SharedTyped' /\ UserStays(Shared)
  BY <1>1, <1>v, <1>t DEF SharedTyped, UserStays
<1> SUFFICES ASSUME P = ToSet(SharedWrites(cs, req))
             PROVE /\ Consumers' = consumers
                   /\ Consumers' # {} => \/ disk'[Shared].own.project = disk[Shared].own.project /\ Owned(Shared)
                                         \/ Connects(req) /\ Sharing(cs) # {} /\ disk'[Shared].own.project = req.project
                   /\ Connects(req) /\ Sharing(cs) # {} => disk'[Shared].own.project = req.project
                   /\ SharedWhole => SharedWhole'
  BY <1>2 DEF consumers
<1>3. CASE idle
  <2>1. disk'[Shared] = disk[Shared] BY <1>1, <1>3
  <2>2. Consumers' = Consumers BY <2>1 DEF Consumers, Owned
  <2>3. consumers = Consumers
    BY <1>3, ForeignIsNotOwned DEF idle, consumers, Consumers, Clear, Owned
  <2>4. Consumers # {} => Owned(Shared) BY DEF Consumers
  <2>5. SharedWhole => SharedWhole' BY <2>1 DEF SharedWhole, Clear, Owned
  <2>6. ~ (Connects(req) /\ Sharing(cs) # {}) BY <1>3 DEF idle
  <2> QED BY <2>1, <2>2, <2>3, <2>4, <2>5, <2>6
<1>4. CASE ~ idle /\ consumers = {}
  <2>1. disk'[Shared].own = None BY <1>1, <1>w, <1>v, <1>4
  <2>2. Consumers' = {} BY <2>1 DEF Consumers, Owned, None
  <2>3. SharedWhole' BY <2>1 DEF SharedWhole, Clear
  <2>4. ~ (Connects(req) /\ Sharing(cs) # {}) BY <1>4 DEF consumers
  <2> QED BY <1>4, <2>2, <2>3, <2>4
<1>5. CASE ~ idle /\ consumers # {}
  <2>1. disk'[Shared].own = b BY <1>1, <1>w, <1>v, <1>5
  <2>2. Consumers' = consumers BY <2>1, <1>b, <1>5 DEF Consumers, Owned
  <2>3. SharedWhole' BY <2>1, <1>b, <1>5 DEF SharedWhole, Owned
  <2>4. disk'[Shared].own.project = project BY <2>1, <1>b, <1>5
  <2>5. ~ Connects(req) => Owned(Shared)
    BY <1>o, <1>5 DEF idle
  <2>6. Sharing(cs) # {} BY <1>5 DEF idle
  <2> QED BY <2>2, <2>3, <2>4, <2>5, <2>6 DEF project
<1> QED BY <1>3, <1>4, <1>5

(***************************************************************************)
(* Each file is written by one client, or is the shared policy.            *)
(***************************************************************************)
Owners == Clients \cup {"shared"}

OfOwner(owner, P) ==
  /\ \A w \in P : w.file \in Files /\ w.file[1] = owner
  /\ \A w, x \in P : w.file = x.file => w = x

\* The owner of a file is its first component.
LEMMA FilesHaveOwners ==
  /\ \A f \in Files : f[1] \in Owners
  /\ \A f \in Files :
       /\ f[1] = "codex" => f = Toml
       /\ f[1] = "claude" => f \in {Mcp("claude"), Hooks, Policy("claude")}
       /\ f[1] = "opencode" => f \in {Document, Plugin}
       /\ f[1] = "copilot" => f \in {Mcp("copilot"), Policy("copilot")}
       /\ f[1] = "shared" => f = Shared
BY DEF Files, Owners, Clients, Toml, Mcp, Hooks, Policy, Document, Plugin, Shared

\* Writes of different owners do not meet: each owner sees its own.
LEMMA AppliedWrites ==
  ASSUME DOMAIN disk = Files, NEW W, DOMAIN W = Owners, \A o \in Owners : OfOwner(o, W[o]),
         NEW base, Apply(base, UNION {W[o] : o \in Owners}), lost' = lost
  PROVE  /\ DOMAIN disk' = Files
         /\ \A o \in Owners : Effect(base, o, W[o])
         /\ backups' \subseteq backups \cup {<<base, f, disk[f].user>> : f \in Files}
<1> DEFINE U == UNION {W[o] : o \in Owners}
           touched == {f \in Files : \E w \in U : w.file = f /\ w.to # disk[f]}
<1>1. \A w, x \in U : w.file = x.file => w = x
  <2> SUFFICES ASSUME NEW w \in U, NEW x \in U, w.file = x.file PROVE w = x OBVIOUS
  <2>1. PICK o \in Owners : w \in W[o] OBVIOUS
  <2>2. PICK p \in Owners : x \in W[p] OBVIOUS
  <2>3. o = p BY <2>1, <2>2 DEF OfOwner
  <2> QED BY <2>1, <2>2, <2>3 DEF OfOwner
<1>2. /\ disk' = [f \in Files |-> IF f \in touched THEN (CHOOSE w \in U : w.file = f).to ELSE disk[f]]
      /\ backups' = backups \cup {<<base, f, disk[f].user>> : f \in {g \in touched : Clear(g) /\ disk[g] # Absent}}
  BY DEF Apply
<1>u. \A w \in U : w.file \in Files BY DEF OfOwner
<1> HIDE DEF U
<1>3. ASSUME NEW w \in U PROVE Became(base, w.file, w.to)
  <2>1. (CHOOSE x \in U : x.file = w.file) = w BY <1>1
  <2>2. w.file \in touched <=> w.to # disk[w.file] BY <1>1, <1>u
  <2>3. disk'[w.file] = w.to BY <1>2, <1>u, <2>1, <2>2
  <2>4. w.to # disk[w.file] /\ Clear(w.file) /\ disk[w.file] # Absent => <<base, w.file, disk[w.file].user>> \in backups'
    BY <1>2, <2>2
  <2> QED BY <2>3, <2>4 DEF Became
<1>4. ASSUME NEW f \in Files, \A w \in U : w.file # f PROVE Same(f)
  BY <1>2, <1>4 DEF Same
<1>5. ASSUME NEW o \in Owners PROVE Effect(base, o, W[o])
  <2>1. W[o] \subseteq U BY DEF U
  <2>2. ASSUME NEW f \in Files, f[1] = o, \A w \in W[o] : w.file # f PROVE \A w \in U : w.file # f
    <3> SUFFICES ASSUME NEW w \in U, w.file = f PROVE FALSE OBVIOUS
    <3>1. PICK p \in Owners : w \in W[p] BY DEF U
    <3>2. p = o BY <3>1, <2>2 DEF OfOwner
    <3> QED BY <3>1, <3>2, <2>2
  <2>3. Remain BY <1>2 DEF Remain, Traceable, Restorable
  <2> QED BY <1>3, <1>4, <2>1, <2>2, <2>3 DEF Effect
<1> QED BY <1>2, <1>5

\* A client writes in its own files, each at most once.
LEMMA OwnWrites ==
  ASSUME NEW c \in Clients, NEW req \in Requests
  PROVE  Writes(c, req) \in Seq(ToSet(Writes(c, req))) /\ OfOwner(c, ToSet(Writes(c, req)))
<1>f. /\ Files # {} /\ Toml \in Files /\ Mcp("claude") \in Files /\ Hooks \in Files /\ Policy("claude") \in Files
      /\ Document \in Files /\ Plugin \in Files /\ Mcp("opencode") \in Files
      /\ Mcp("copilot") \in Files /\ Policy("copilot") \in Files
      /\ Toml[1] = "codex" /\ Hooks[1] = "claude" /\ Document[1] = "opencode" /\ Plugin[1] = "opencode"
      /\ \A d : Mcp(d)[1] = d /\ Policy(d)[1] = d /\ Mcp(d) # Policy(d) /\ Mcp(d) # Hooks /\ Policy(d) # Hooks
      /\ Document # Plugin
  BY DEF Files, Toml, Mcp, Hooks, Policy, Document, Plugin
<1>s. /\ \A S, a : ToSet(<<a>>) = {a} /\ <<a>> \in Seq({a})
      /\ \A a, b : ToSet(<<a, b>>) = {a, b} /\ <<a, b>> \in Seq({a, b})
      /\ \A a, b, d : ToSet(<<a, b, d>>) = {a, b, d} /\ <<a, b, d>> \in Seq({a, b, d})
      /\ ToSet(<<>>) = {} /\ <<>> \in Seq({})
  BY ToSetShort
<1> DEFINE Good(s) == s \in Seq(ToSet(s)) /\ OfOwner(c, ToSet(s))
<1>0. Good(<<>>) BY <1>s DEF OfOwner
<1>1. ASSUME NEW f \in Files, f[1] = c, NEW v PROVE Good(<<Write(f, v)>>)
  BY <1>1, <1>s DEF OfOwner, Write
<1>2. ASSUME NEW f \in Files, f[1] = c, NEW v, NEW g \in Files, g[1] = c, NEW x, f # g
      PROVE Good(<<Write(f, v), Write(g, x)>>)
  BY <1>2, <1>s DEF OfOwner, Write
<1>3. ASSUME NEW f \in Files, f[1] = c, NEW v, NEW g \in Files, g[1] = c, NEW x,
             NEW h \in Files, h[1] = c, NEW y, f # g, f # h, g # h
      PROVE Good(<<Write(f, v), Write(g, x), Write(h, y)>>)
  <2> DEFINE a == Write(f, v) b == Write(g, x) d == Write(h, y)
  <2>1. a.file = f /\ b.file = g /\ d.file = h BY DEF Write
  <2> HIDE DEF a, b, d
  <2>2. Good(<<a, b, d>>) BY <2>1, <1>3, <1>s DEF OfOwner
  <2> QED BY <2>2 DEF a, b, d
<1> HIDE DEF Good
<1>4. CASE c = "codex"
  <2>1. \A r : Good(CodexWrites(r)) BY <1>4, <1>0, <1>1, <1>f DEF CodexWrites
  <2> QED BY <1>4, <2>1 DEF Writes, Good
<1>5. CASE c # "codex" /\ WithoutPolicy(c, req)
  <2>1. Mcp(c) \in Files BY <1>5, <1>f DEF Clients, Document, Mcp
  <2>2. Good(McpOnlyWrites(c, req)) BY <2>1, <1>0, <1>1, <1>f DEF McpOnlyWrites
  <2> QED BY <1>5, <2>2 DEF Writes, Good
<1>6. CASE c = "claude" /\ ~ WithoutPolicy(c, req)
  <2>1. Good(ClaudeWrites(req)) BY <1>6, <1>0, <1>3, <1>f DEF ClaudeWrites
  <2> QED BY <1>6, <2>1 DEF Writes, Good
<1>7. CASE c = "opencode" /\ ~ WithoutPolicy(c, req)
  <2>1. Good(OpenCodeWrites(req)) BY <1>7, <1>0, <1>2, <1>f DEF OpenCodeWrites
  <2> QED BY <1>7, <2>1 DEF Writes, Good
<1>8. CASE c = "copilot" /\ ~ WithoutPolicy(c, req)
  <2>1. Good(CopilotWrites(req))
    <3>1. CASE Connects(req) BY <3>1, <1>8, <1>2, <1>f DEF CopilotWrites
    <3>2. CASE ~ Connects(req)
      <4> DEFINE M == Mcp("copilot")
                 Q == Policy("copilot")
                 mv == IF (IF Clear(M) THEN disk[M].user = "missing" ELSE disk[Q].own.created) /\ disk[M].user = "missing"
                       THEN Absent ELSE Emptied(M)
                 a == Write(M, mv)
                 b == Write(Q, Emptied(Q))
                 s == IF Clear(M) THEN <<>> ELSE <<a>>
                 r == IF Clear(Q) THEN <<>> ELSE <<b>>
      <4>1. CopilotWrites(req) = s \o r BY <3>2 DEF CopilotWrites
      <4> HIDE DEF mv
      <4>2. a.file = M /\ b.file = Q /\ M \in Files /\ Q \in Files /\ M # Q /\ M[1] = c /\ Q[1] = c
        BY <1>8, <1>f DEF Write
      <4> HIDE DEF M, Q, a, b
      <4>3. s \in Seq({a, b}) /\ r \in Seq({a, b}) 
        <5>1. <<a>> \in Seq({a, b}) /\ <<b>> \in Seq({a, b}) /\ <<>> \in Seq({a, b}) OBVIOUS
        <5> QED BY <5>1
      <4>4. ToSet(s) \subseteq {a} /\ ToSet(r) \subseteq {b} BY <1>s
      <4>5. s \in Seq(ToSet(s)) /\ r \in Seq(ToSet(r)) BY <1>s
      <4> HIDE DEF s, r
      <4>6. ToSet(s \o r) = ToSet(s) \cup ToSet(r) BY <4>3, ToSetConcat
      <4>7. OfOwner(c, ToSet(s \o r)) BY <4>2, <4>4, <4>6 DEF OfOwner
      <4>8. s \in Seq(ToSet(s \o r)) /\ r \in Seq(ToSet(s \o r)) BY <4>5, <4>6
      <4>9. s \o r \in Seq(ToSet(s \o r)) BY <4>8
      <4> QED BY <4>1, <4>7, <4>9 DEF Good
    <3> QED BY <3>1, <3>2
  <2> QED BY <1>8, <2>1 DEF Writes, Good
<1> QED BY <1>4, <1>5, <1>6, <1>7, <1>8 DEF Clients

(***************************************************************************)
(* A batch, or the part of it that a kill leaves, client by client.        *)
(***************************************************************************)
\* The case distinctions of the model, one by one.
LEMMA ByClient ==
  ASSUME NEW req
  PROVE  /\ Writes("codex", req) = CodexWrites(IF WithoutPolicy("codex", req) THEN McpOnlyReq(req) ELSE req)
         /\ Allowed("codex", req) <=> CodexAllowed(IF WithoutPolicy("codex", req) THEN McpOnlyReq(req) ELSE req)
         /\ \A c \in JsonClients : WithoutPolicy(c, req) =>
              Writes(c, req) = McpOnlyWrites(c, req) /\ (Allowed(c, req) <=> McpOnlyAllowed(c, req))
         /\ ~ WithoutPolicy("claude", req) =>
              Writes("claude", req) = ClaudeWrites(req) /\ (Allowed("claude", req) <=> ClaudeAllowed(req))
         /\ ~ WithoutPolicy("opencode", req) =>
              Writes("opencode", req) = OpenCodeWrites(req) /\ (Allowed("opencode", req) <=> OpenCodeAllowed(req))
         /\ ~ WithoutPolicy("copilot", req) =>
              Writes("copilot", req) = CopilotWrites(req) /\ (Allowed("copilot", req) <=> CopilotAllowed(req))
<1>1. /\ Writes("codex", req) = CodexWrites(IF WithoutPolicy("codex", req) THEN McpOnlyReq(req) ELSE req)
      /\ Allowed("codex", req) <=> CodexAllowed(IF WithoutPolicy("codex", req) THEN McpOnlyReq(req) ELSE req)
  BY Zenon DEF Writes, Allowed
<1>2. ASSUME NEW c \in JsonClients, WithoutPolicy(c, req)
      PROVE  Writes(c, req) = McpOnlyWrites(c, req) /\ (Allowed(c, req) <=> McpOnlyAllowed(c, req))
  BY <1>2, Zenon DEF Writes, Allowed, JsonClients
<1>3. ASSUME ~ WithoutPolicy("claude", req)
      PROVE  Writes("claude", req) = ClaudeWrites(req) /\ (Allowed("claude", req) <=> ClaudeAllowed(req))
  BY <1>3, Zenon DEF Writes, Allowed
<1>4. ASSUME ~ WithoutPolicy("opencode", req)
      PROVE  Writes("opencode", req) = OpenCodeWrites(req) /\ (Allowed("opencode", req) <=> OpenCodeAllowed(req))
  BY <1>4, Zenon DEF Writes, Allowed
<1>5. ASSUME ~ WithoutPolicy("copilot", req)
      PROVE  Writes("copilot", req) = CopilotWrites(req) /\ (Allowed("copilot", req) <=> CopilotAllowed(req))
  BY <1>5, Zenon DEF Writes, Allowed
<1> QED BY <1>1, <1>2, <1>3, <1>4, <1>5

\* A client's part of a batch, and what a kill may leave of it.
Done(c, req, P) == Allowed(c, req) /\ P = ToSet(Writes(c, req))
Partly(c, req, P) == P = {} \/ (Allowed(c, req) /\ P \in FirstOf(Writes(c, req)))

\* A part of a batch is among its writes.
LEMMA PartlyWrites ==
  ASSUME NEW c \in Clients, NEW req \in Requests, NEW P
  PROVE  /\ Partly(c, req, P) => P \subseteq ToSet(Writes(c, req))
         /\ Done(c, req, P) => Partly(c, req, P)
BY OwnWrites, FirstOfAny DEF Partly, Done

\* Without a write a client's files stay.
LEMMA NothingWritten ==
  ASSUME NEW base, NEW c, Effect(base, c, {})
  PROVE  (\A f \in Files : f[1] = c => Same(f)) /\ Remain
BY DEF Effect

CompleteCodex == Owned(Toml) /\ disk[Toml].own.mode = "complete"

\* Codex in a batch, whole or in part.
LEMMA CodexBatch ==
  ASSUME CodexTyped, NEW req \in Requests,
         NEW P, Partly("codex", req, P), Effect(req.home, "codex", P)
  PROVE  /\ CodexTyped' /\ UserStays(Toml)
         /\ P = {} => Same(Toml)
         /\ Done("codex", req, P) =>
              /\ CodexWhole => CodexWhole'
              /\ ~ Connects(req) => ~ Owned(Toml)' /\ (CodexWhole => Clear(Toml)')
              /\ WithoutPolicy("codex", req) => ~ CompleteCodex /\ ~ CompleteCodex'
              /\ Connects(req) /\ ~ WithoutPolicy("codex", req) =>
                   CompleteCodex' /\ disk'[Toml].own.project = req.project
<1>f. Toml \in Files /\ Toml[1] = "codex" BY DEF Toml, Files
<1> DEFINE r == IF WithoutPolicy("codex", req) THEN McpOnlyReq(req) ELSE req
<1>r. /\ r \in Requests /\ r.home = req.home /\ r.action = req.action /\ r.project = req.project /\ (Connects(r) <=> Connects(req))
      /\ WithoutPolicy("codex", req) => r.mcpOnly = TRUE
      /\ ~ WithoutPolicy("codex", req) => r = req /\ req.mcpOnly = FALSE
  BY RequestFacts DEF McpOnlyReq, Requests, Connects, WithoutPolicy
<1>a. Allowed("codex", req) <=> CodexAllowed(r) BY ByClient
<1>w. Writes("codex", req) = CodexWrites(r) BY ByClient
<1> HIDE DEF r
<1>1. P = {} => CodexTyped' /\ UserStays(Toml) /\ Same(Toml)
  BY <1>f, NothingWritten DEF Same, CodexTyped, UserStays
<1>2. P # {} => Allowed("codex", req) /\ P \subseteq ToSet(CodexWrites(r))
  BY <1>w, PartlyWrites DEF Clients, Partly
<1>3. P # {} => CodexTyped' /\ UserStays(Toml)
  BY <1>2, <1>a, <1>r, CodexStep
<1>4. ASSUME Done("codex", req, P)
      PROVE  /\ CodexWhole => CodexWhole'
             /\ ~ Connects(req) => ~ Owned(Toml)' /\ (CodexWhole => Clear(Toml)')
             /\ WithoutPolicy("codex", req) => ~ CompleteCodex /\ ~ CompleteCodex'
             /\ Connects(req) /\ ~ WithoutPolicy("codex", req) =>
                  CompleteCodex' /\ disk'[Toml].own.project = req.project
  <2>1. CodexAllowed(r) /\ P = ToSet(CodexWrites(r)) BY <1>4, <1>a, <1>w DEF Done
  <2>2. IF Connects(r)
        THEN Owned(Toml)' /\ disk'[Toml].own.mode = Mode(r) /\ disk'[Toml].own.project = r.project
        ELSE ~ Owned(Toml)' /\ (CodexWhole => Clear(Toml)')
    BY <2>1, <1>r, CodexStep
  <2>3. WithoutPolicy("codex", req) => ~ CompleteCodex
    BY <2>1, <1>r DEF CodexAllowed, CompleteCodex
  <2>4. Mode(r) = IF WithoutPolicy("codex", req) THEN "mcp-only" ELSE "complete"
    BY <1>r DEF Mode
  <2> QED BY <2>2, <2>3, <2>4, <1>r DEF CompleteCodex, CodexWhole
<1> QED BY <1>1, <1>3, <1>4

\* Claude in a batch, whole or in part.
LEMMA ClaudeBatch ==
  ASSUME ClaudeTyped, ClaudeRecorded, NEW req \in Requests,
         NEW P, Partly("claude", req, P), Effect(req.home, "claude", P)
  PROVE  /\ ClaudeTyped' /\ ClaudeRecorded'
         /\ \A f \in {Mcp("claude"), Hooks, Policy("claude")} : UserStays(f)
         /\ ClaudeWhole /\ (P = {} \/ Done("claude", req, P)) => ClaudeWhole'
         /\ ClaudeWhole /\ Done("claude", req, P) /\ ~ Connects(req) =>
              Clear(Mcp("claude"))' /\ Clear(Hooks)' /\ Clear(Policy("claude"))'
<1>f. /\ Mcp("claude") \in Files /\ Hooks \in Files /\ Policy("claude") \in Files
      /\ Mcp("claude")[1] = "claude" /\ Hooks[1] = "claude" /\ Policy("claude")[1] = "claude"
      /\ Mcp("claude") # Hooks /\ Mcp("claude") # Policy("claude")
  BY DEF Files, Mcp, Hooks, Policy
<1>1. ASSUME Same(Mcp("claude")), Same(Hooks), Same(Policy("claude")), Remain
      PROVE  /\ ClaudeTyped' /\ ClaudeRecorded' /\ (ClaudeWhole => ClaudeWhole')
             /\ \A f \in {Mcp("claude"), Hooks, Policy("claude")} : UserStays(f)
  <2>1. ClaudeTyped' BY <1>1 DEF Same, ClaudeTyped, McpTyped
  <2>2. ClaudeRecorded'
    BY <1>1, RecordsStay DEF Same, ClaudeRecorded, Owned, JsonClients
  <2>3. ClaudeWhole => ClaudeWhole' BY <1>1 DEF Same, ClaudeWhole, IsMcpOnly, Owned, Clear
  <2> QED BY <1>1, <2>1, <2>2, <2>3 DEF Same, UserStays
<1>2. CASE P = {} /\ ~ Done("claude", req, P)
  BY <1>1, <1>2, <1>f, NothingWritten
<1>3. CASE (P # {} \/ Done("claude", req, P)) /\ WithoutPolicy("claude", req)
  <2>1. McpOnlyAllowed("claude", req) /\ P \subseteq ToSet(McpOnlyWrites("claude", req))
    BY <1>3, ByClient, PartlyWrites DEF Clients, Partly, Done, JsonClients
  <2>2. McpTyped("claude") /\ McpOnlyRecorded("claude") BY DEF ClaudeTyped, ClaudeRecorded
  <2>3. /\ McpTyped("claude")' /\ McpOnlyRecorded("claude")'
        /\ disk'[Mcp("claude")].user = disk[Mcp("claude")].user
        /\ \A f \in Files : f[1] = "claude" /\ f # Mcp("claude") => Same(f)
        /\ Clear(Mcp("claude"))' \/ IsMcpOnly("claude")'
        /\ ~ Connects(req) /\ P = ToSet(McpOnlyWrites("claude", req)) => Clear(Mcp("claude"))'
    BY <2>1, <2>2, McpOnlyStep DEF JsonClients
  <2>4. Same(Hooks) /\ Same(Policy("claude")) BY <2>3, <1>f
  <2>5. Remain BY DEF Effect
  <2>6. ClaudeTyped' BY <2>3, <2>4 DEF Same, ClaudeTyped
  <2>7. ClaudeRecorded'
    <3>1. Owned(Policy("claude"))' => ClaudeKept'
      BY <2>4, <2>5, RecordsStay DEF Same, ClaudeRecorded, Owned
    <3> QED BY <2>3, <3>1 DEF ClaudeRecorded
  <2>8. ClaudeWhole => Clear(Policy("claude")) /\ Clear(Hooks)
    BY <2>1 DEF ClaudeWhole, McpOnlyAllowed, McpOnlyIntact, Owned, Clear, None
  <2>9. ClaudeWhole => Clear(Policy("claude"))' /\ Clear(Hooks)'
    BY <2>4, <2>8 DEF Same, Clear
  <2>10. \A f \in {Mcp("claude"), Hooks, Policy("claude")} : UserStays(f)
    BY <2>3, <2>4 DEF Same, UserStays
  <2>11. Done("claude", req, P) => P = ToSet(McpOnlyWrites("claude", req))
    BY <1>3, ByClient DEF Done, JsonClients
  <2>12. ClaudeWhole => ClaudeWhole' BY <2>3, <2>9 DEF ClaudeWhole
  <2> QED BY <2>3, <2>6, <2>7, <2>9, <2>10, <2>11, <2>12
<1>4. CASE (P # {} \/ Done("claude", req, P)) /\ ~ WithoutPolicy("claude", req)
  <2>1. /\ ClaudeAllowed(req) /\ P \in FirstOf(ClaudeWrites(req)) /\ P \subseteq ToSet(ClaudeWrites(req))
        /\ Done("claude", req, P) => P = ToSet(ClaudeWrites(req))
    BY <1>4, ByClient, PartlyWrites, OwnWrites, FirstOfAny DEF Clients, Partly, Done
  <2>2. CASE Connects(req)
    <3>1. /\ ClaudeTyped' /\ ClaudeRecorded'
          /\ \A f \in {Mcp("claude"), Hooks, Policy("claude")} : disk'[f].user = disk[f].user
          /\ P = ToSet(ClaudeWrites(req)) => ClaudeWhole'
      BY <2>1, <2>2, ClaudeConnects
    <3>2. ASSUME P = {}, ClaudeWhole PROVE ClaudeWhole'
      BY <1>1, <1>f, <3>2, NothingWritten
    <3> QED BY <2>1, <2>2, <3>1, <3>2 DEF UserStays
  <2>3. CASE ~ Connects(req)
    <3>1. /\ ClaudeTyped' /\ ClaudeRecorded'
          /\ \A f \in {Mcp("claude"), Hooks, Policy("claude")} : UserStays(f)
          /\ P = ToSet(ClaudeWrites(req)) =>
               Clear(Mcp("claude"))' /\ Clear(Hooks)' /\ Clear(Policy("claude"))'
      BY <2>1, <2>3, ClaudeDisconnects DEF UserStays
    <3>2. ASSUME P = {}, ClaudeWhole PROVE ClaudeWhole'
      BY <1>1, <1>f, <3>2, NothingWritten
    <3>3. Clear(Mcp("claude"))' /\ Clear(Hooks)' /\ Clear(Policy("claude"))' => ClaudeWhole'
      BY DEF ClaudeWhole
    <3> QED BY <2>1, <2>3, <3>1, <3>2, <3>3
  <2> QED BY <2>2, <2>3
<1> QED BY <1>2, <1>3, <1>4

\* OpenCode in a batch, whole or in part.
LEMMA OpenCodeBatch ==
  ASSUME OpenCodeTyped, OpenCodeRecorded, NEW req \in Requests,
         NEW P, Partly("opencode", req, P), Effect(req.home, "opencode", P)
  PROVE  /\ OpenCodeTyped' /\ OpenCodeRecorded'
         /\ \A f \in {Document, Plugin} : UserStays(f)
         /\ P = {} => Same(Plugin)
         /\ OpenCodeWhole /\ (P = {} \/ Done("opencode", req, P)) => OpenCodeWhole'
         /\ OpenCodeWhole /\ Done("opencode", req, P) =>
              /\ ~ Connects(req) => Clear(Document)' /\ Clear(Plugin)'
              /\ WithoutPolicy("opencode", req) => ~ Owned(Plugin) /\ ~ Owned(Plugin)'
              /\ Connects(req) /\ ~ WithoutPolicy("opencode", req) =>
                   Owned(Plugin)' /\ disk'[Plugin].own.project = req.project
<1>f. /\ Document \in Files /\ Plugin \in Files /\ Document = Mcp("opencode") /\ Document # Plugin
      /\ Document[1] = "opencode" /\ Plugin[1] = "opencode"
  BY DEF Files, Mcp, Document, Plugin
<1>1. ASSUME Same(Document), Same(Plugin), Remain
      PROVE  /\ OpenCodeTyped' /\ OpenCodeRecorded' /\ (OpenCodeWhole => OpenCodeWhole')
             /\ \A f \in {Document, Plugin} : UserStays(f)
  <2>1. OpenCodeTyped' BY <1>1, <1>f DEF Same, OpenCodeTyped, McpTyped
  <2>2. OpenCodeRecorded'
    BY <1>1, <1>f, RecordsStay DEF Same, OpenCodeRecorded, Owned, JsonClients
  <2>3. OpenCodeWhole => OpenCodeWhole' BY <1>1, <1>f DEF Same, OpenCodeWhole, IsMcpOnly, Owned, Clear
  <2> QED BY <1>1, <2>1, <2>2, <2>3 DEF Same, UserStays
<1>e. P = {} => Same(Document) /\ Same(Plugin) /\ Remain
  BY <1>f, NothingWritten
<1>2. CASE P = {} /\ ~ Done("opencode", req, P)
  BY <1>1, <1>2, <1>e
<1>3. CASE (P # {} \/ Done("opencode", req, P)) /\ WithoutPolicy("opencode", req)
  <2>1. McpOnlyAllowed("opencode", req) /\ P \subseteq ToSet(McpOnlyWrites("opencode", req))
    BY <1>3, ByClient, PartlyWrites DEF Clients, Partly, Done, JsonClients
  <2>2. McpTyped("opencode") /\ McpOnlyRecorded("opencode") BY DEF OpenCodeTyped, OpenCodeRecorded
  <2>3. /\ McpTyped("opencode")' /\ McpOnlyRecorded("opencode")'
        /\ disk'[Document].user = disk[Document].user
        /\ \A f \in Files : f[1] = "opencode" /\ f # Document => Same(f)
        /\ Clear(Document)' \/ IsMcpOnly("opencode")'
        /\ ~ Connects(req) /\ P = ToSet(McpOnlyWrites("opencode", req)) => Clear(Document)'
    BY <2>1, <2>2, <1>f, McpOnlyStep DEF JsonClients
  <2>4. Same(Plugin) BY <2>3, <1>f
  <2>5. Remain BY DEF Effect
  <2>6. OpenCodeTyped' BY <2>3, <2>4 DEF Same, OpenCodeTyped
  <2>7. OpenCodeRecorded'
    <3>1. Owned(Plugin)' => OpenCodeKept'
      BY <2>4, <2>5, RecordsStay DEF Same, OpenCodeRecorded, Owned
    <3> QED BY <2>3, <3>1 DEF OpenCodeRecorded
  <2>8. OpenCodeWhole => Clear(Plugin)
    BY <2>1, <1>f DEF OpenCodeWhole, McpOnlyAllowed, McpOnlyIntact, Owned, Clear, None
  <2>9. OpenCodeWhole => Clear(Plugin)' /\ ~ Owned(Plugin) /\ ~ Owned(Plugin)'
    BY <2>4, <2>8 DEF Same, Clear, Owned, None
  <2>10. \A f \in {Document, Plugin} : UserStays(f) BY <2>3, <2>4 DEF Same, UserStays
  <2>11. Done("opencode", req, P) => P = ToSet(McpOnlyWrites("opencode", req))
    BY <1>3, ByClient DEF Done, JsonClients
  <2>12. OpenCodeWhole => OpenCodeWhole' BY <2>3, <2>9 DEF OpenCodeWhole
  <2> QED BY <1>3, <2>3, <2>4, <2>6, <2>7, <2>9, <2>10, <2>11, <2>12
<1>4. CASE (P # {} \/ Done("opencode", req, P)) /\ ~ WithoutPolicy("opencode", req)
  <2>1. /\ OpenCodeAllowed(req) /\ P \in FirstOf(OpenCodeWrites(req))
        /\ Done("opencode", req, P) => P = ToSet(OpenCodeWrites(req))
    BY <1>4, ByClient, OwnWrites, FirstOfAny DEF Clients, Partly, Done
  <2>2. /\ OpenCodeTyped' /\ OpenCodeRecorded'
        /\ disk'[Document].user = disk[Document].user
        /\ disk'[Plugin].user = disk[Plugin].user
        /\ P = ToSet(OpenCodeWrites(req)) =>
             IF Connects(req)
             THEN /\ Owned(Plugin)' /\ Owned(Document)' /\ ~ IsMcpOnly("opencode")'
                  /\ disk'[Plugin].own.project = req.project
             ELSE Clear(Plugin)' /\ Clear(Document)'
    BY <2>1, OpenCodeStep
  <2>3. Done("opencode", req, P) => OpenCodeWhole' BY <2>1, <2>2 DEF OpenCodeWhole
  <2> QED BY <1>1, <1>4, <1>e, <2>1, <2>2, <2>3 DEF UserStays
<1> QED BY <1>2, <1>3, <1>4

\* Copilot in a batch, whole or in part.
LEMMA CopilotBatch ==
  ASSUME CopilotTyped, CopilotRecorded, NEW req \in Requests,
         NEW P, Partly("copilot", req, P), Effect(req.home, "copilot", P)
  PROVE  /\ CopilotTyped' /\ CopilotRecorded'
         /\ \A f \in {Mcp("copilot"), Policy("copilot")} : UserStays(f)
         /\ CopilotWhole /\ (P = {} \/ Done("copilot", req, P)) => CopilotWhole'
         /\ CopilotWhole /\ Done("copilot", req, P) /\ ~ Connects(req) =>
              Clear(Mcp("copilot"))' /\ Clear(Policy("copilot"))'
<1>f. /\ Mcp("copilot") \in Files /\ Policy("copilot") \in Files /\ Mcp("copilot") # Policy("copilot")
      /\ Mcp("copilot")[1] = "copilot" /\ Policy("copilot")[1] = "copilot"
  BY DEF Files, Mcp, Policy
<1>1. ASSUME Same(Mcp("copilot")), Same(Policy("copilot")), Remain
      PROVE  /\ CopilotTyped' /\ CopilotRecorded' /\ (CopilotWhole => CopilotWhole')
             /\ \A f \in {Mcp("copilot"), Policy("copilot")} : UserStays(f)
  <2>1. CopilotTyped' BY <1>1 DEF Same, CopilotTyped, McpTyped
  <2>2. CopilotRecorded'
    BY <1>1, RecordsStay DEF Same, CopilotRecorded, JsonClients
  <2>3. CopilotWhole => CopilotWhole' BY <1>1 DEF Same, CopilotWhole, IsMcpOnly, Owned, Clear
  <2> QED BY <1>1, <2>1, <2>2, <2>3 DEF Same, UserStays
<1>e. P = {} => Same(Mcp("copilot")) /\ Same(Policy("copilot")) /\ Remain
  BY <1>f, NothingWritten
<1>2. CASE P = {} /\ ~ Done("copilot", req, P)
  BY <1>1, <1>2, <1>e
<1>3. CASE (P # {} \/ Done("copilot", req, P)) /\ WithoutPolicy("copilot", req)
  <2>1. McpOnlyAllowed("copilot", req) /\ P \subseteq ToSet(McpOnlyWrites("copilot", req))
    BY <1>3, ByClient, PartlyWrites DEF Clients, Partly, Done, JsonClients
  <2>2. McpTyped("copilot") /\ McpOnlyRecorded("copilot") BY DEF CopilotTyped, CopilotRecorded
  <2>3. /\ McpTyped("copilot")' /\ McpOnlyRecorded("copilot")'
        /\ disk'[Mcp("copilot")].user = disk[Mcp("copilot")].user
        /\ \A f \in Files : f[1] = "copilot" /\ f # Mcp("copilot") => Same(f)
        /\ Clear(Mcp("copilot"))' \/ IsMcpOnly("copilot")'
        /\ ~ Connects(req) /\ P = ToSet(McpOnlyWrites("copilot", req)) => Clear(Mcp("copilot"))'
    BY <2>1, <2>2, McpOnlyStep DEF JsonClients
  <2>4. Same(Policy("copilot")) BY <2>3, <1>f
  <2>6. CopilotTyped' BY <2>3, <2>4 DEF Same, CopilotTyped
  <2>8. CopilotWhole => Clear(Policy("copilot"))
    BY <2>1 DEF CopilotWhole, McpOnlyAllowed, McpOnlyIntact, Owned, Clear, None
  <2>9. CopilotWhole => Clear(Policy("copilot"))' BY <2>4, <2>8 DEF Same, Clear
  <2>10. \A f \in {Mcp("copilot"), Policy("copilot")} : UserStays(f) BY <2>3, <2>4 DEF Same, UserStays
  <2>11. Done("copilot", req, P) => P = ToSet(McpOnlyWrites("copilot", req))
    BY <1>3, ByClient DEF Done, JsonClients
  <2>12. CopilotWhole => CopilotWhole' BY <2>3, <2>9 DEF CopilotWhole
  <2> QED BY <2>3, <2>6, <2>9, <2>10, <2>11, <2>12 DEF CopilotRecorded
<1>4. CASE (P # {} \/ Done("copilot", req, P)) /\ ~ WithoutPolicy("copilot", req)
  <2>1. /\ CopilotAllowed(req) /\ P \subseteq ToSet(CopilotWrites(req))
        /\ Done("copilot", req, P) => P = ToSet(CopilotWrites(req))
    BY <1>4, ByClient, PartlyWrites DEF Clients, Partly, Done
  <2>2. /\ CopilotTyped' /\ CopilotRecorded'
        /\ UserStays(Mcp("copilot")) /\ UserStays(Policy("copilot"))
        /\ P = ToSet(CopilotWrites(req)) =>
             IF Connects(req) THEN CopilotWhole'
             ELSE Clear(Mcp("copilot"))' /\ Clear(Policy("copilot"))'
    BY <2>1, CopilotStep
  <2>3. Clear(Mcp("copilot"))' /\ Clear(Policy("copilot"))' => CopilotWhole' BY DEF CopilotWhole
  <2> QED BY <1>1, <1>e, <2>1, <2>2, <2>3
<1> QED BY <1>2, <1>3, <1>4

Recorded == ClaudeRecorded /\ OpenCodeRecorded /\ CopilotRecorded

DiskTyped ==
  /\ DOMAIN disk = Files
  /\ CodexTyped /\ ClaudeTyped /\ OpenCodeTyped /\ CopilotTyped /\ SharedTyped
  /\ backups \subseteq Homes \X Files \X Users
  /\ lost \subseteq Files \X Users

\* What users have in a file has its type.
LEMMA UsersTyped ==
  ASSUME DiskTyped
  PROVE  \A f \in Files : disk[f].user \in Users
<1>1. /\ disk[Toml].user \in Users
      /\ disk[Mcp("claude")].user \in Users /\ disk[Hooks].user \in Users /\ disk[Policy("claude")].user \in Users
      /\ disk[Plugin].user \in Users
      /\ disk[Mcp("copilot")].user \in Users /\ disk[Policy("copilot")].user \in Users
      /\ disk[Shared].user \in Users
  BY DEF DiskTyped, CodexTyped, ClaudeTyped, OpenCodeTyped, CopilotTyped, SharedTyped, McpTyped, FileHolding
<1>2. Document = Mcp("opencode") BY DEF Document, Mcp
<1>3. disk[Document].user \in Users BY <1>2 DEF DiskTyped, OpenCodeTyped, McpTyped, FileHolding
<1> QED BY <1>1, <1>3, FilesHaveOwners DEF Owners, Clients

\* The policy is the only shared file.
LEMMA SharedOwnWrites ==
  ASSUME NEW cs, NEW req
  PROVE  OfOwner("shared", ToSet(SharedWrites(cs, req)))
<1>1. Shared \in Files /\ Shared[1] = "shared" BY DEF Shared, Files
<1>2. \A v : OfOwner("shared", ToSet(<<Write(Shared, v)>>)) BY <1>1, ToSetShort DEF OfOwner, Write
<1>3. OfOwner("shared", ToSet(<<>>)) BY ToSetShort DEF OfOwner
<1> QED BY <1>2, <1>3 DEF SharedWrites

\* Whatever part of a batch was written, what is recorded can be put back.
LEMMA PartsOfABatch ==
  ASSUME DiskTyped, Recorded, NEW req \in Requests, NEW shared, SharedAllowed(shared, req),
         NEW W, DOMAIN W = Owners,
         \A c \in Clients : Partly(c, req, W[c]),
         W["shared"] \in {{}, ToSet(SharedWrites(shared, req))},
         Apply(req.home, UNION {W[o] : o \in Owners}), lost' = lost
  PROVE  /\ DiskTyped' /\ Recorded'
         /\ \A f \in Files : UserStays(f)
         /\ \A o \in Owners : Effect(req.home, o, W[o])
<1>1. \A o \in Owners : OfOwner(o, W[o])
  <2>1. ASSUME NEW c \in Clients PROVE OfOwner(c, W[c])
    <3>1. W[c] \subseteq ToSet(Writes(c, req)) BY PartlyWrites DEF Partly
    <3> QED BY <3>1, OwnWrites DEF OfOwner
  <2>2. OfOwner("shared", W["shared"]) BY SharedOwnWrites DEF OfOwner
  <2> QED BY <2>1, <2>2 DEF Owners
<1>2. /\ DOMAIN disk' = Files
      /\ \A o \in Owners : Effect(req.home, o, W[o])
      /\ backups' \subseteq backups \cup {<<req.home, f, disk[f].user>> : f \in Files}
  BY <1>1, AppliedWrites DEF DiskTyped
<1>3. backups' \subseteq Homes \X Files \X Users /\ lost' \subseteq Files \X Users
  BY <1>2, UsersTyped, RequestFacts DEF DiskTyped
<1>o. {"codex", "claude", "opencode", "copilot"} = Clients /\ Owners = Clients \cup {"shared"}
  BY DEF Clients, Owners
<1>4. CodexTyped' /\ UserStays(Toml) BY <1>2, <1>o, CodexBatch DEF DiskTyped
<1>5. /\ ClaudeTyped' /\ ClaudeRecorded'
      /\ \A f \in {Mcp("claude"), Hooks, Policy("claude")} : UserStays(f)
  BY <1>2, <1>o, ClaudeBatch DEF DiskTyped, Recorded
<1>6. /\ OpenCodeTyped' /\ OpenCodeRecorded'
      /\ \A f \in {Document, Plugin} : UserStays(f)
  BY <1>2, <1>o, OpenCodeBatch DEF DiskTyped, Recorded
<1>7. /\ CopilotTyped' /\ CopilotRecorded'
      /\ \A f \in {Mcp("copilot"), Policy("copilot")} : UserStays(f)
  BY <1>2, <1>o, CopilotBatch DEF DiskTyped, Recorded
<1>8. SharedTyped' /\ UserStays(Shared)
  <2>1. SharedTyped /\ Effect(req.home, "shared", W["shared"]) BY <1>2, <1>o DEF DiskTyped
  <2> QED BY <2>1, SharedStep
<1>9. \A f \in Files : UserStays(f)
  BY <1>4, <1>5, <1>6, <1>7, <1>8, FilesHaveOwners DEF Owners, Clients
<1> QED BY <1>2, <1>3, <1>4, <1>5, <1>6, <1>7, <1>8, <1>9 DEF DiskTyped, Recorded

\* The invariant in the parts that the steps need.
LEMMA InvParts ==
  /\ AdaptersInv <=> /\ DiskTyped /\ Recorded /\ Whole /\ ConsumersMatch /\ DisconnectLeavesNothing
                     /\ active \in Groups
                     /\ last.action \in {"none", "connect", "disconnect"} /\ last.clients \subseteq Clients
                     /\ clean \in BOOLEAN /\ changes \in 0 .. MaxChanges
BY DEF AdaptersInv, AdaptersTyped, DiskTyped, Recorded

\* A whole batch keeps the invariant.
LEMMA BatchStep ==
  ASSUME AdaptersInv, NEW cs \in SUBSET Clients, NEW req \in Requests, Batch(cs, req)
  PROVE  AdaptersInv' /\ \A f \in Files : UserStays(f)
<1> DEFINE shared == Complete(cs, req)
           W == [o \in Owners |-> IF o = "shared" THEN ToSet(SharedWrites(shared, req))
                                  ELSE IF o \in cs THEN ToSet(Writes(o, req)) ELSE {}]
<1>o. Clients \subseteq Owners /\ "shared" \in Owners /\ "shared" \notin Clients
  BY DEF Owners, Clients
<1>a. (\A c \in cs : Allowed(c, req)) /\ SharedAllowed(shared, req) BY DEF Batch, BatchAllowed
<1>1. UNION {W[o] : o \in Owners} = BatchWrites(cs, req)
  <2>1. ASSUME NEW w \in UNION {W[o] : o \in Owners} PROVE w \in BatchWrites(cs, req)
    BY <1>o DEF BatchWrites
  <2>2. ASSUME NEW w \in BatchWrites(cs, req) PROVE w \in UNION {W[o] : o \in Owners}
    <3>1. CASE w \in ToSet(SharedWrites(shared, req))
      <4>1. w \in W["shared"] BY <3>1, <1>o
      <4> QED BY <4>1, <1>o
    <3>2. CASE \E c \in cs : w \in ToSet(Writes(c, req))
      <4>1. PICK c \in cs : w \in ToSet(Writes(c, req)) BY <3>2
      <4>2. w \in W[c] BY <4>1, <1>o
      <4> QED BY <4>2, <1>o
    <3> QED BY <3>1, <3>2 DEF BatchWrites
  <2> QED BY <2>1, <2>2
<1>2. /\ DOMAIN W = Owners /\ W["shared"] = ToSet(SharedWrites(shared, req))
      /\ \A c \in Clients : W[c] = IF c \in cs THEN ToSet(Writes(c, req)) ELSE {}
  BY <1>o
<1>s. Apply(req.home, UNION {W[o] : o \in Owners}) /\ lost' = lost BY <1>1 DEF Batch
<1> HIDE DEF W
<1>3. \A c \in Clients : (c \in cs => Done(c, req, W[c])) /\ (c \notin cs => W[c] = {})
  BY <1>2, <1>a DEF Done
<1>4. \A c \in Clients : Partly(c, req, W[c]) BY <1>3, PartlyWrites DEF Partly
<1>i. /\ DiskTyped /\ Recorded /\ Whole /\ ConsumersMatch /\ active \in Groups
      /\ clean \in BOOLEAN /\ changes \in 0 .. MaxChanges
  BY InvParts
<1>5. /\ DiskTyped' /\ Recorded' /\ (\A f \in Files : UserStays(f))
      /\ \A o \in Owners : Effect(req.home, o, W[o])
  BY <1>i, <1>a, <1>s, <1>2, <1>4, PartsOfABatch
<1>6. /\ active' \in Groups /\ clean' = clean /\ changes' \in 0 .. MaxChanges
      /\ last'.action = req.action /\ last'.clients = cs
  BY <1>i DEF Batch
<1>7. last'.action \in {"none", "connect", "disconnect"} /\ last'.clients \subseteq Clients
  BY <1>6, RequestFacts
<1>e. /\ Effect(req.home, "codex", W["codex"]) /\ Effect(req.home, "claude", W["claude"]) /\ Effect(req.home, "opencode", W["opencode"])
      /\ Effect(req.home, "copilot", W["copilot"]) /\ Effect(req.home, "shared", ToSet(SharedWrites(shared, req)))
      /\ Partly("codex", req, W["codex"]) /\ Partly("claude", req, W["claude"])
      /\ Partly("opencode", req, W["opencode"]) /\ Partly("copilot", req, W["copilot"])
  BY <1>2, <1>4, <1>5 DEF Owners, Clients
<1>d. \A c \in Clients : W[c] = {} \/ Done(c, req, W[c]) BY <1>3
<1>t. /\ CodexTyped /\ ClaudeTyped /\ OpenCodeTyped /\ CopilotTyped /\ SharedTyped
      /\ ClaudeRecorded /\ OpenCodeRecorded /\ CopilotRecorded
  BY <1>i DEF DiskTyped, Recorded
<1>8. Whole'
  <2> SUFFICES ASSUME clean
               PROVE  CodexWhole' /\ ClaudeWhole' /\ OpenCodeWhole' /\ CopilotWhole' /\ SharedWhole'
    BY <1>6 DEF Whole
  <2>1. CodexWhole /\ ClaudeWhole /\ OpenCodeWhole /\ CopilotWhole /\ SharedWhole BY <1>i DEF Whole
  <2>2. CodexWhole'
    <3>1. Same(Toml) => CodexWhole' BY <2>1 DEF Same, CodexWhole, Clear, Owned
    <3> QED BY <3>1, <2>1, <1>d, <1>e, <1>t, CodexBatch DEF Clients
  <2>3. ClaudeWhole' BY <2>1, <1>d, <1>e, <1>t, ClaudeBatch DEF Clients
  <2>4. OpenCodeWhole' BY <2>1, <1>d, <1>e, <1>t, OpenCodeBatch DEF Clients
  <2>5. CopilotWhole' BY <2>1, <1>d, <1>e, <1>t, CopilotBatch DEF Clients
  <2>6. SharedWhole' BY <2>1, <1>a, <1>e, <1>t, SharedStep
  <2> QED BY <2>2, <2>3, <2>4, <2>5, <2>6
<1>9. ConsumersMatch'
  <2> SUFFICES ASSUME clean
               PROVE  /\ Consumers' = {c \in {"codex"} : CompleteCodex'} \cup {c \in {"opencode"} : Owned(Plugin)'}
                      /\ "codex" \in Consumers' => disk'[Toml].own.project = disk'[Shared].own.project
                      /\ "opencode" \in Consumers' => disk'[Plugin].own.project = disk'[Shared].own.project
    BY <1>6 DEF ConsumersMatch, CompleteCodex
  <2>1. /\ Consumers = {c \in {"codex"} : CompleteCodex} \cup {c \in {"opencode"} : Owned(Plugin)}
        /\ "codex" \in Consumers => disk[Toml].own.project = disk[Shared].own.project
        /\ "opencode" \in Consumers => disk[Plugin].own.project = disk[Shared].own.project
    BY <1>i DEF ConsumersMatch, CompleteCodex
  <2>w. OpenCodeWhole BY <1>i DEF Whole
  <2>2. /\ Consumers' = IF Connects(req) THEN Consumers \cup Sharing(shared) ELSE Consumers \ Sharing(shared)
        /\ Consumers' # {} => \/ disk'[Shared].own.project = disk[Shared].own.project /\ Owned(Shared)
                              \/ Connects(req) /\ Sharing(shared) # {} /\ disk'[Shared].own.project = req.project
        /\ Connects(req) /\ Sharing(shared) # {} => disk'[Shared].own.project = req.project
    BY <1>a, <1>e, <1>t, SharedStep
  <2>3. Consumers # {} => Owned(Shared) BY DEF Consumers
  <2>4. Connects(req) /\ Sharing(shared) # {} /\ Owned(Shared) => disk[Shared].own.project = req.project
    BY <1>a DEF SharedAllowed
  \* Codex and OpenCode are treated alike: how each is before and after.
  <2>5. \A c \in {"codex", "opencode"} : c \in Sharing(shared) <=> c \in cs /\ ~ WithoutPolicy(c, req)
    BY DEF Sharing, Complete
  <2>6. /\ "codex" \in Sharing(shared) => IF Connects(req) THEN CompleteCodex' /\ disk'[Toml].own.project = req.project
                                          ELSE ~ CompleteCodex'
        /\ "codex" \notin Sharing(shared) => Same(Toml) \/ (~ CompleteCodex /\ ~ CompleteCodex')
    <3>1. "codex" \in cs => Done("codex", req, W["codex"]) BY <1>3 DEF Clients
    <3>2. "codex" \notin cs => Same(Toml) BY <1>3, <1>e, <1>t, CodexBatch DEF Clients
    <3>3. "codex" \in cs =>
            /\ ~ Connects(req) => ~ Owned(Toml)'
            /\ WithoutPolicy("codex", req) => ~ CompleteCodex /\ ~ CompleteCodex'
            /\ Connects(req) /\ ~ WithoutPolicy("codex", req) =>
                 CompleteCodex' /\ disk'[Toml].own.project = req.project
      BY <3>1, <1>e, <1>t, CodexBatch
    <3> QED BY <3>2, <3>3, <2>5 DEF CompleteCodex
  <2>7. /\ "opencode" \in Sharing(shared) => IF Connects(req) THEN Owned(Plugin)' /\ disk'[Plugin].own.project = req.project
                                             ELSE ~ Owned(Plugin)'
        /\ "opencode" \notin Sharing(shared) => Same(Plugin) \/ (~ Owned(Plugin) /\ ~ Owned(Plugin)')
    <3>1. "opencode" \in cs => Done("opencode", req, W["opencode"]) BY <1>3 DEF Clients
    <3>2. "opencode" \notin cs => Same(Plugin) BY <1>3, <1>e, <1>t, OpenCodeBatch DEF Clients
    <3>3. "opencode" \in cs =>
            /\ ~ Connects(req) => Clear(Plugin)'
            /\ WithoutPolicy("opencode", req) => ~ Owned(Plugin) /\ ~ Owned(Plugin)'
            /\ Connects(req) /\ ~ WithoutPolicy("opencode", req) =>
                 Owned(Plugin)' /\ disk'[Plugin].own.project = req.project
      BY <3>1, <2>w, <1>e, <1>t, OpenCodeBatch
    <3>4. Clear(Plugin)' => ~ Owned(Plugin)' BY DEF Clear, Owned, None
    <3> QED BY <3>2, <3>3, <3>4, <2>5
  <2>8. /\ Same(Toml) => (CompleteCodex' <=> CompleteCodex) /\ disk'[Toml].own.project = disk[Toml].own.project
        /\ Same(Plugin) => (Owned(Plugin)' <=> Owned(Plugin)) /\ disk'[Plugin].own.project = disk[Plugin].own.project
    BY DEF Same, CompleteCodex, Owned
  <2>9. "codex" \in Consumers' <=> CompleteCodex'
    <3>1. "codex" \in Consumers <=> CompleteCodex BY <2>1
    <3> QED BY <3>1, <2>2, <2>6, <2>8
  <2>10. "opencode" \in Consumers' <=> Owned(Plugin)'
    <3>1. "opencode" \in Consumers <=> Owned(Plugin) BY <2>1
    <3> QED BY <3>1, <2>2, <2>7, <2>8
  <2>11. Consumers' \subseteq {"codex", "opencode"} BY <2>1, <2>2 DEF Sharing
  <2>12. Consumers' = {c \in {"codex"} : CompleteCodex'} \cup {c \in {"opencode"} : Owned(Plugin)'}
    BY <2>9, <2>10, <2>11
  <2>13. "codex" \in Consumers' => disk'[Toml].own.project = disk'[Shared].own.project
    <3> SUFFICES ASSUME "codex" \in Consumers' PROVE disk'[Toml].own.project = disk'[Shared].own.project OBVIOUS
    <3>1. CASE "codex" \in Sharing(shared) BY <3>1, <2>2, <2>6
    <3>2. CASE "codex" \notin Sharing(shared)
      <4>1. "codex" \in Consumers /\ Same(Toml) BY <3>2, <2>2, <2>6, <2>9
      <4>2. disk'[Toml].own.project = disk[Shared].own.project /\ Owned(Shared) BY <4>1, <2>1, <2>3, <2>8
      <4> QED BY <4>2, <2>2, <2>4
    <3> QED BY <3>1, <3>2
  <2>14. "opencode" \in Consumers' => disk'[Plugin].own.project = disk'[Shared].own.project
    <3> SUFFICES ASSUME "opencode" \in Consumers' PROVE disk'[Plugin].own.project = disk'[Shared].own.project OBVIOUS
    <3>1. CASE "opencode" \in Sharing(shared) BY <3>1, <2>2, <2>7
    <3>2. CASE "opencode" \notin Sharing(shared)
      <4>1. "opencode" \in Consumers /\ Same(Plugin) BY <3>2, <2>2, <2>7, <2>10
      <4>2. disk'[Plugin].own.project = disk[Shared].own.project /\ Owned(Shared) BY <4>1, <2>1, <2>3, <2>8
      <4> QED BY <4>2, <2>2, <2>4
    <3> QED BY <3>1, <3>2
  <2> QED BY <2>12, <2>13, <2>14
<1>10. DisconnectLeavesNothing'
  <2> SUFFICES ASSUME req.action = "disconnect", clean, NEW c \in cs
               PROVE  (\A f \in Files : f[1] = c => Clear(f)') /\ c \notin Consumers'
    BY <1>6 DEF DisconnectLeavesNothing
  <2>1. ~ Connects(req) /\ Done(c, req, W[c]) /\ c \in Clients BY <1>3 DEF Connects
  <2>2. CodexWhole /\ ClaudeWhole /\ OpenCodeWhole /\ CopilotWhole BY <1>i DEF Whole
  <2>3. Consumers' = {d \in {"codex"} : CompleteCodex'} \cup {d \in {"opencode"} : Owned(Plugin)'}
    BY <1>6, <1>9 DEF ConsumersMatch, CompleteCodex
  <2>4. CASE c = "codex"
    <3>1. Clear(Toml)' /\ ~ Owned(Toml)' BY <2>1, <2>2, <2>4, <1>e, <1>t, CodexBatch
    <3>2. \A f \in Files : f[1] = c => f = Toml BY <2>4, FilesHaveOwners
    <3>3. c \notin Consumers' BY <2>3, <2>4, <3>1 DEF CompleteCodex
    <3> QED BY <3>1, <3>2, <3>3
  <2>5. CASE c = "claude"
    <3>1. Clear(Mcp("claude"))' /\ Clear(Hooks)' /\ Clear(Policy("claude"))'
      BY <2>1, <2>2, <2>5, <1>e, <1>t, ClaudeBatch
    <3>2. \A f \in Files : f[1] = c => f \in {Mcp("claude"), Hooks, Policy("claude")} BY <2>5, FilesHaveOwners
    <3>3. c \notin Consumers' BY <2>3, <2>5
    <3> QED BY <3>1, <3>2, <3>3
  <2>6. CASE c = "opencode"
    <3>1. Clear(Document)' /\ Clear(Plugin)' BY <2>1, <2>2, <2>6, <1>e, <1>t, OpenCodeBatch
    <3>2. \A f \in Files : f[1] = c => f \in {Document, Plugin} BY <2>6, FilesHaveOwners
    <3>3. ~ Owned(Plugin)' BY <3>1 DEF Clear, Owned, None
    <3>4. c \notin Consumers' BY <2>3, <2>6, <3>3
    <3> QED BY <3>1, <3>2, <3>4
  <2>7. CASE c = "copilot"
    <3>1. Clear(Mcp("copilot"))' /\ Clear(Policy("copilot"))' BY <2>1, <2>2, <2>7, <1>e, <1>t, CopilotBatch
    <3>2. \A f \in Files : f[1] = c => f \in {Mcp("copilot"), Policy("copilot")} BY <2>7, FilesHaveOwners
    <3>3. c \notin Consumers' BY <2>3, <2>7
    <3> QED BY <3>1, <3>2, <3>3
  <2> QED BY <2>1, <2>4, <2>5, <2>6, <2>7 DEF Clients
<1>11. AdaptersInv' BY <1>5, <1>6, <1>7, <1>8, <1>9, <1>10, <1>i DEF AdaptersInv, AdaptersTyped, DiskTyped, Recorded
<1> QED BY <1>5, <1>11

\* A batch that is killed keeps it: what of it was not clean is not claimed.
LEMMA KilledStep ==
  ASSUME AdaptersInv, NEW cs \in SUBSET Clients, NEW req \in Requests, KilledBatch(cs, req)
  PROVE  AdaptersInv' /\ \A f \in Files : UserStays(f)
<1>i. DiskTyped /\ Recorded /\ active \in Groups /\ changes \in 0 .. MaxChanges BY InvParts
<1>1. PICK c \in cs : \E done \in SUBSET (cs \ {c}), n \in 0 .. Len(Writes(c, req)) :
                         Apply(req.home, FirstWrites(done, c, n, req))
  BY DEF KilledBatch
<1>2. PICK done \in SUBSET (cs \ {c}), n \in 0 .. Len(Writes(c, req)) :
          Apply(req.home, FirstWrites(done, c, n, req))
  BY <1>1
<1> DEFINE first == ToSet(SubSeq(Writes(c, req), 1, n))
           W == [o \in Owners |-> IF o = c THEN first
                                  ELSE IF o \in done THEN ToSet(Writes(o, req)) ELSE {}]
<1>o. Clients \subseteq Owners /\ "shared" \in Owners /\ "shared" \notin Clients
  BY DEF Owners, Clients
<1>3. UNION {W[o] : o \in Owners} = FirstWrites(done, c, n, req)
  <2>1. ASSUME NEW w \in UNION {W[o] : o \in Owners} PROVE w \in FirstWrites(done, c, n, req)
    BY <1>o DEF FirstWrites
  <2>2. ASSUME NEW w \in FirstWrites(done, c, n, req) PROVE w \in UNION {W[o] : o \in Owners}
    <3>1. CASE w \in first
      <4>1. c \in Owners /\ w \in W[c] BY <3>1, <1>o
      <4> QED BY <4>1
    <3>2. CASE \E d \in done : w \in ToSet(Writes(d, req))
      <4>1. PICK d \in done : w \in ToSet(Writes(d, req)) BY <3>2
      <4>2. d \in Owners /\ w \in W[d] BY <4>1, <1>o
      <4> QED BY <4>2
    <3> QED BY <3>1, <3>2 DEF FirstWrites
  <2> QED BY <2>1, <2>2
<1>a. (\A d \in cs : Allowed(d, req)) /\ SharedAllowed(Complete(cs, req), req)
  BY DEF KilledBatch, BatchAllowed
<1>4. \A d \in Clients : Partly(d, req, W[d])
  <2>1. first \in FirstOf(Writes(c, req)) BY DEF FirstOf
  <2>2. \A d \in done : Done(d, req, W[d]) BY <1>o, <1>a DEF Done
  <2>3. \A d \in done : Partly(d, req, W[d]) BY <2>2, PartlyWrites
  <2>4. Partly(c, req, W[c]) BY <2>1, <1>o, <1>a DEF Partly
  <2>5. \A d \in Clients : d # c /\ d \notin done => Partly(d, req, W[d]) BY <1>o DEF Partly
  <2> QED BY <2>3, <2>4, <2>5
<1>5. DOMAIN W = Owners /\ W["shared"] = {} BY <1>o
<1>s. Apply(req.home, UNION {W[o] : o \in Owners}) /\ lost' = lost BY <1>2, <1>3 DEF KilledBatch
<1> HIDE DEF W
<1>6. DiskTyped' /\ Recorded' /\ \A f \in Files : UserStays(f)
  BY <1>i, <1>a, <1>s, <1>4, <1>5, PartsOfABatch
<1>7. /\ active' = active /\ clean' = FALSE /\ changes' \in 0 .. MaxChanges
      /\ last'.action = "none" /\ last'.clients = {}
  <2>1. changes' = changes + 1 /\ changes < MaxChanges BY DEF KilledBatch
  <2> QED BY <2>1, <1>i, AdaptersAssumption DEF KilledBatch
<1>8. AdaptersInv'
  BY <1>6, <1>7, <1>i DEF AdaptersInv, AdaptersTyped, DiskTyped, Recorded, Whole, ConsumersMatch, DisconnectLeavesNothing
<1> QED BY <1>6, <1>8

\* The migration is the disconnection of OpenCode alone.
LEMMA MigrateStep ==
  ASSUME AdaptersInv, NEW base \in Homes, Migrate(base)
  PROVE  AdaptersInv' /\ \A f \in Files : UserStays(f)
<1> DEFINE req == [action |-> "disconnect", project |-> "any",
                   settings |-> CHOOSE s \in Settings : TRUE, home |-> base, mcpOnly |-> FALSE]
<1>t. DiskTyped BY InvParts
<1>1. disk[Plugin].own \in PluginLines
  BY <1>t, ForeignIsNotOwned DEF Migrate, DiskTyped, OpenCodeTyped, FileHolding, Owned
<1>2. disk[Plugin].own.settings \in Settings /\ disk[Plugin].own.config \in Topologies
  BY <1>1 DEF PluginLines
<1>3. (CHOOSE s \in Settings : TRUE) \in Settings BY <1>2
<1> DEFINE some == CHOOSE s \in Settings : TRUE
<1> HIDE DEF some
<1>4. req \in Requests /\ req.mcpOnly = FALSE BY <1>3 DEF Requests, some
<1>5. ~ IsMcpOnly("opencode")
  <2>1. disk[Document] = disk[Plugin].own.config.generated BY DEF Migrate, OpenCodeAllowed, AsRecorded
  <2>2. disk[Document].own \in CompleteEntries BY <2>1, <1>2 DEF Topologies
  <2> QED BY <2>2 DEF IsMcpOnly, CompleteEntries, Document, Mcp
<1>6. ~ WithoutPolicy("opencode", req) BY <1>4, <1>5 DEF WithoutPolicy
<1>m. /\ Owned(Plugin) /\ OpenCodeAllowed(req) /\ SharedAllowed({"opencode"}, req)
      /\ Apply(base, ToSet(OpenCodeWrites(req)) \cup ToSet(SharedWrites({"opencode"}, req)))
      /\ last' = [action |-> "disconnect", clients |-> {"opencode"}, project |-> "any"]
      /\ UNCHANGED <<active, lost, clean, changes>>
  BY DEF Migrate, Disconnect, some
<1>r. req.action = "disconnect" /\ req.project = "any" /\ req.home = base OBVIOUS
<1> HIDE DEF req
<1>7. Complete({"opencode"}, req) = {"opencode"} BY <1>6 DEF Complete
<1>8. /\ Writes("opencode", req) = OpenCodeWrites(req)
      /\ Allowed("opencode", req) <=> OpenCodeAllowed(req)
  BY <1>6, ByClient
<1>9. BatchWrites({"opencode"}, req) = ToSet(OpenCodeWrites(req)) \cup ToSet(SharedWrites({"opencode"}, req))
  BY <1>7, <1>8 DEF BatchWrites
<1>10. Batch({"opencode"}, req)
  BY <1>m, <1>r, <1>7, <1>8, <1>9 DEF Batch, BatchAllowed
<1> QED BY <1>4, <1>10, BatchStep DEF Clients

\* What a user can make of the tool's part: the tool does not own it any
\* more, or it is marked as changed.
LEMMA UserMakes ==
  ASSUME NEW f \in Files, disk[f].user \in Users, NEW value \in UserValues(f)
  PROVE  /\ value = [user |-> value.user, own |-> value.own] /\ value.user \in Users
         /\ \/ value.own \in Foreign
            \/ value.own = disk[f].own
            \/ /\ Owned(f) /\ "intact" \in DOMAIN disk[f].own
               /\ value.own = [disk[f].own EXCEPT !.intact = FALSE]
<1> DEFINE marked == [disk[f].own EXCEPT !.intact = FALSE]
           blocks == {o \in {disk[f].own} : Owned(f) /\ "intact" \in DOMAIN o}
<1>1. \/ value \in {Holds(f, own) : own \in {None, Altered, Unmanaged} \ {disk[f].own}}
      \/ value \in {[user |-> t, own |-> disk[f].own] : t \in Texts \ {disk[f].user}}
      \/ value \in {Holds(f, marked) : own \in blocks}
      \/ value = Absent
  BY Zenon DEF UserValues
<1> HIDE DEF marked
<1>2. CASE value \in {Holds(f, own) : own \in {None, Altered, Unmanaged} \ {disk[f].own}}
  BY <1>2 DEF Holds, Foreign
<1>3. CASE value \in {[user |-> t, own |-> disk[f].own] : t \in Texts \ {disk[f].user}}
  BY <1>3 DEF Users
<1>4. CASE value \in {Holds(f, marked) : own \in blocks}
  <2>1. value = Holds(f, marked) /\ Owned(f) /\ "intact" \in DOMAIN disk[f].own BY <1>4
  <2> QED BY <2>1 DEF Holds, marked
<1>5. CASE value = Absent BY <1>5 DEF Absent, Users, Foreign
<1> QED BY <1>1, <1>2, <1>3, <1>4, <1>5

\* An entry is never marked; a marked block is a block.
LEMMA Marked ==
  /\ \A own \in TomlEntries \cup CompleteEntries \cup McpOnlyEntries \cup ClaudeBlocks \cup PluginLines :
       "intact" \notin DOMAIN own
  /\ \A own \in CopilotBlocks : [own EXCEPT !.intact = FALSE] \in CopilotBlocks
  /\ \A own \in SharedBlocks : [own EXCEPT !.intact = FALSE] \in SharedBlocks
<1>1. \A own \in TomlEntries : "intact" \notin DOMAIN own BY DEF TomlEntries
<1>2. \A own \in CompleteEntries : "intact" \notin DOMAIN own BY DEF CompleteEntries
<1>3. \A own \in McpOnlyEntries : "intact" \notin DOMAIN own BY DEF McpOnlyEntries
<1>4. \A own \in ClaudeBlocks : "intact" \notin DOMAIN own BY DEF ClaudeBlocks
<1>5. \A own \in PluginLines : "intact" \notin DOMAIN own BY DEF PluginLines
<1>6. \A own \in CopilotBlocks : [own EXCEPT !.intact = FALSE] \in CopilotBlocks BY DEF CopilotBlocks
<1>7. \A own \in SharedBlocks : [own EXCEPT !.intact = FALSE] \in SharedBlocks BY DEF SharedBlocks
<1> QED BY <1>1, <1>2, <1>3, <1>4, <1>5, <1>6, <1>7

\* What the file f holds after the edit stays among what it may hold.
LEMMA UserMakesTyped ==
  ASSUME NEW f \in Files, NEW value \in UserValues(f), NEW X, disk[f] \in FileHolding(X)
  PROVE  /\ (\A own \in X : "intact" \notin DOMAIN own) =>
              /\ value \in FileHolding(X)
              /\ value.own \in Foreign \/ value.own = disk[f].own
         /\ (\A own \in X : [own EXCEPT !.intact = FALSE] \in X) => value \in FileHolding(X)
<1>1. disk[f].user \in Users /\ disk[f].own \in Foreign \cup X BY DEF FileHolding
<1>2. Owned(f) => disk[f].own \in X BY <1>1, ForeignIsNotOwned DEF Owned
<1> DEFINE marked == [disk[f].own EXCEPT !.intact = FALSE]
<1>3. /\ value = [user |-> value.user, own |-> value.own] /\ value.user \in Users
      /\ \/ value.own \in Foreign
         \/ value.own = disk[f].own
         \/ Owned(f) /\ "intact" \in DOMAIN disk[f].own /\ value.own = marked
  BY <1>1, UserMakes
<1>5. (\A own \in X : [own EXCEPT !.intact = FALSE] \in X) => (Owned(f) => marked \in X) BY <1>2
<1> HIDE DEF marked
<1>4. \A own \in Foreign \cup X : value.own = own => value \in FileHolding(X)
  BY <1>3 DEF FileHolding
<1> QED BY <1>1, <1>2, <1>3, <1>4, <1>5

\* What users do with the files keeps it.
LEMMA UserEditStep ==
  ASSUME AdaptersInv, NEW f \in Files, UserEdit(f)
  PROVE  AdaptersInv'
<1>i. /\ DiskTyped /\ Recorded /\ Whole /\ ConsumersMatch /\ active \in Groups
      /\ clean \in BOOLEAN /\ changes \in 0 .. MaxChanges
  BY InvParts
<1>1. PICK value \in UserValues(f) \ {disk[f]} :
        /\ f = Plugin => value.user = "missing"
        /\ disk' = [disk EXCEPT ![f] = value]
        /\ clean' = (clean /\ value.own = disk[f].own)
  BY DEF UserEdit
<1>2. /\ active' = active /\ backups' = backups /\ lost' = lost /\ clean' \in BOOLEAN /\ changes' \in 0 .. MaxChanges
      /\ last'.action = "none" /\ last'.clients = {}
  <2>1. changes' = changes + 1 /\ changes < MaxChanges BY DEF UserEdit
  <2> QED BY <2>1, <1>1, <1>i, AdaptersAssumption DEF UserEdit
<1>3. /\ DOMAIN disk' = Files /\ disk'[f] = value
      /\ \A g \in Files : g # f => disk'[g] = disk[g]
  BY <1>1, <1>i DEF DiskTyped
<1>f. /\ Toml \in Files /\ Mcp("claude") \in Files /\ Hooks \in Files /\ Policy("claude") \in Files
      /\ Mcp("opencode") \in Files /\ Document = Mcp("opencode") /\ Plugin \in Files
      /\ Mcp("copilot") \in Files /\ Policy("copilot") \in Files /\ Shared \in Files
  BY DEF Files, Toml, Mcp, Hooks, Policy, Document, Plugin, Shared
\* Files with entries, and files with blocks that may be marked.
<1>4. ASSUME NEW X, NEW g \in Files, disk[g] \in FileHolding(X), \A own \in X : "intact" \notin DOMAIN own
      PROVE  disk'[g] \in FileHolding(X) /\ (disk'[g].own \in Foreign \/ disk'[g].own = disk[g].own)
  BY <1>1, <1>3, <1>4, UserMakesTyped
<1>5. ASSUME NEW X, NEW g \in Files, disk[g] \in FileHolding(X), \A own \in X : [own EXCEPT !.intact = FALSE] \in X
      PROVE  disk'[g] \in FileHolding(X)
  BY <1>1, <1>3, <1>5, UserMakesTyped
<1>6. DiskTyped'
  <2>1. CodexTyped' BY <1>i, <1>f, <1>4, Marked DEF DiskTyped, CodexTyped
  <2>2. \A c \in JsonClients : McpTyped(c) => McpTyped(c)'
    <3> SUFFICES ASSUME NEW c \in JsonClients, McpTyped(c) PROVE McpTyped(c)' OBVIOUS
    <3>1. Mcp(c) \in Files BY <1>f DEF JsonClients
    <3>2. \A own \in CompleteEntries \cup McpOnlyEntries : "intact" \notin DOMAIN own BY Marked
    <3> QED BY <3>1, <3>2, <1>4 DEF McpTyped
  <2>3. ClaudeTyped' BY <2>2, <1>i, <1>f, <1>4, Marked DEF DiskTyped, ClaudeTyped, JsonClients
  <2>4. OpenCodeTyped'
    <3>1. disk'[Plugin].user = "missing" BY <1>1, <1>3, <1>i, <1>f DEF DiskTyped, OpenCodeTyped
    <3> QED BY <3>1, <2>2, <1>i, <1>f, <1>4, Marked DEF DiskTyped, OpenCodeTyped, JsonClients
  <2>5. CopilotTyped' BY <2>2, <1>i, <1>f, <1>5, Marked DEF DiskTyped, CopilotTyped, JsonClients
  <2>6. SharedTyped' BY <1>i, <1>f, <1>5, Marked DEF DiskTyped, SharedTyped
  <2> QED BY <2>1, <2>3, <2>4, <2>5, <2>6, <1>2, <1>3, <1>i DEF DiskTyped
<1>m. Remain BY <1>2 DEF Remain, Traceable, Restorable
<1>7. Recorded'
  <2>1. ASSUME NEW X, NEW g \in Files, disk[g] \in FileHolding(X), \A own \in X : "intact" \notin DOMAIN own
        PROVE  Owned(g)' => Owned(g) /\ disk'[g].own = disk[g].own
    BY <2>1, <1>4, ForeignIsNotOwned DEF Owned
  <2>2. ASSUME NEW c \in JsonClients, McpTyped(c), McpOnlyRecorded(c) PROVE McpOnlyRecorded(c)'
    <3>1. Mcp(c) \in Files BY <1>f DEF JsonClients
    <3>2. \A own \in CompleteEntries \cup McpOnlyEntries : "intact" \notin DOMAIN own BY Marked
    <3>3. Owned(Mcp(c))' => Owned(Mcp(c)) /\ disk'[Mcp(c)].own = disk[Mcp(c)].own
      BY <3>1, <3>2, <2>1, <2>2 DEF McpTyped
    <3>4. CASE Owned(Mcp(c))' BY <3>3, <3>4, <2>2, <1>m, RecordsStay
    <3>5. CASE ~ Owned(Mcp(c))' BY <3>5 DEF McpOnlyRecorded, IsMcpOnly
    <3> QED BY <3>4, <3>5
  <2>3. ClaudeRecorded'
    <3>1. McpOnlyRecorded("claude")'
      BY <2>2, <1>i DEF Recorded, ClaudeRecorded, DiskTyped, ClaudeTyped, JsonClients
    <3>2. Owned(Policy("claude"))' =>
            Owned(Policy("claude")) /\ disk'[Policy("claude")].own = disk[Policy("claude")].own
      BY <2>1, <1>f, <1>i, Marked DEF DiskTyped, ClaudeTyped
    <3> QED BY <3>1, <3>2, <1>m, <1>i, RecordsStay DEF Recorded, ClaudeRecorded
  <2>4. OpenCodeRecorded'
    <3>1. McpOnlyRecorded("opencode")'
      BY <2>2, <1>i DEF Recorded, OpenCodeRecorded, DiskTyped, OpenCodeTyped, JsonClients
    <3>2. Owned(Plugin)' => Owned(Plugin) /\ disk'[Plugin].own = disk[Plugin].own
      BY <2>1, <1>f, <1>i, Marked DEF DiskTyped, OpenCodeTyped
    <3> QED BY <3>1, <3>2, <1>m, <1>i, RecordsStay DEF Recorded, OpenCodeRecorded
  <2>5. CopilotRecorded'
    BY <2>2, <1>i DEF Recorded, CopilotRecorded, DiskTyped, CopilotTyped, JsonClients
  <2> QED BY <2>3, <2>4, <2>5 DEF Recorded
<1>8. clean' => clean /\ \A g \in Files : disk'[g].own = disk[g].own BY <1>1, <1>3
<1>9. Whole'
  <2> SUFFICES ASSUME clean' PROVE CodexWhole' /\ ClaudeWhole' /\ OpenCodeWhole' /\ CopilotWhole' /\ SharedWhole'
    BY DEF Whole
  <2>1. CodexWhole /\ ClaudeWhole /\ OpenCodeWhole /\ CopilotWhole /\ SharedWhole BY <1>8, <1>i DEF Whole
  <2>2. /\ \A g \in Files : (Owned(g)' <=> Owned(g)) /\ (Clear(g)' <=> Clear(g))
        /\ \A c \in JsonClients : IsMcpOnly(c)' <=> IsMcpOnly(c)
    <3>1. \A g \in Files : (Owned(g)' <=> Owned(g)) /\ (Clear(g)' <=> Clear(g)) BY <1>8 DEF Owned, Clear
    <3>2. \A c \in JsonClients : Mcp(c) \in Files BY <1>f DEF JsonClients
    <3> QED BY <3>1, <3>2, <1>8 DEF IsMcpOnly
  <2>3. CodexWhole' BY <2>1, <2>2, <1>f DEF CodexWhole
  <2>4. ClaudeWhole' BY <2>1, <2>2, <1>f DEF ClaudeWhole, JsonClients
  <2>5. OpenCodeWhole' BY <2>1, <2>2, <1>f DEF OpenCodeWhole, JsonClients
  <2>6. CopilotWhole' BY <2>1, <2>2, <1>8, <1>f DEF CopilotWhole, JsonClients
  <2>7. SharedWhole' BY <2>1, <2>2, <1>8, <1>f DEF SharedWhole
  <2> QED BY <2>3, <2>4, <2>5, <2>6, <2>7
<1>10. ConsumersMatch'
  <2> SUFFICES ASSUME clean'
               PROVE  /\ Consumers' = {c \in {"codex"} : Owned(Toml)' /\ disk'[Toml].own.mode = "complete"}
                                      \cup {c \in {"opencode"} : Owned(Plugin)'}
                      /\ "codex" \in Consumers' => disk'[Toml].own.project = disk'[Shared].own.project
                      /\ "opencode" \in Consumers' => disk'[Plugin].own.project = disk'[Shared].own.project
    BY DEF ConsumersMatch
  <2>1. clean /\ disk'[Toml].own = disk[Toml].own /\ disk'[Plugin].own = disk[Plugin].own
        /\ disk'[Shared].own = disk[Shared].own
    BY <1>8, <1>f
  <2>2. /\ (Owned(Toml)' <=> Owned(Toml)) /\ (Owned(Plugin)' <=> Owned(Plugin))
        /\ Consumers' = Consumers
    BY <2>1 DEF Owned, Consumers
  <2>3. /\ Consumers = {c \in {"codex"} : Owned(Toml) /\ disk[Toml].own.mode = "complete"}
                       \cup {c \in {"opencode"} : Owned(Plugin)}
        /\ "codex" \in Consumers => disk[Toml].own.project = disk[Shared].own.project
        /\ "opencode" \in Consumers => disk[Plugin].own.project = disk[Shared].own.project
    BY <2>1, <1>i DEF ConsumersMatch
  <2> QED BY <2>1, <2>2, <2>3
<1>11. DisconnectLeavesNothing' BY <1>2 DEF DisconnectLeavesNothing
<1> QED BY <1>2, <1>6, <1>7, <1>9, <1>10, <1>11, <1>i DEF AdaptersInv, AdaptersTyped, DiskTyped, Recorded

\* A backup that is removed is among those lost.
LEMMA RemoveBackupStep ==
  ASSUME AdaptersInv, NEW b \in backups, RemoveBackup(b)
  PROVE  AdaptersInv' /\ \A f \in Files : UserStays(f)
<1>i. /\ DiskTyped /\ Recorded /\ Whole /\ ConsumersMatch /\ DisconnectLeavesNothing /\ active \in Groups
      /\ last.action \in {"none", "connect", "disconnect"} /\ last.clients \subseteq Clients
      /\ clean \in BOOLEAN /\ changes \in 0 .. MaxChanges
  BY InvParts
<1>1. /\ active' = active /\ disk' = disk /\ last' = last /\ clean' = clean
      /\ backups' = backups \ {b} /\ lost' = lost \cup {<<b[2], b[3]>>}
      /\ changes' = changes + 1 /\ changes < MaxChanges
  BY DEF RemoveBackup
<1>2. b = <<b[1], b[2], b[3]>> /\ b[2] \in Files /\ b[3] \in Users BY <1>i DEF DiskTyped
<1>3. Remain
  <2>1. ASSUME NEW base, NEW f, NEW user, <<base, f, user>> = b PROVE <<f, user>> \in lost'
    BY <1>1, <2>1
  <2> QED BY <1>1, <2>1 DEF Remain, Traceable, Restorable
<1>4. DiskTyped'
  <2>1. backups' \subseteq Homes \X Files \X Users /\ lost' \subseteq Files \X Users
    BY <1>1, <1>2, <1>i DEF DiskTyped
  <2> QED BY <2>1, <1>1, <1>i DEF DiskTyped, CodexTyped, ClaudeTyped, OpenCodeTyped, CopilotTyped, SharedTyped, McpTyped
<1>5. Recorded'
  BY <1>1, <1>3, <1>i, RecordsStay DEF Recorded, ClaudeRecorded, OpenCodeRecorded, CopilotRecorded, Owned, JsonClients
<1>6. Whole' /\ ConsumersMatch' /\ DisconnectLeavesNothing'
  BY <1>1, <1>i DEF Whole, CodexWhole, ClaudeWhole, OpenCodeWhole, CopilotWhole, SharedWhole, ConsumersMatch,
     Consumers, DisconnectLeavesNothing, IsMcpOnly, Owned, Clear
<1>7. changes' \in 0 .. MaxChanges BY <1>1, <1>i, AdaptersAssumption
<1> QED
  BY <1>1, <1>4, <1>5, <1>6, <1>7, <1>i DEF AdaptersInv, AdaptersTyped, DiskTyped, Recorded, UserStays

\* The invariant holds at first.
LEMMA AdaptersStart == InitAdapters => AdaptersInv
<1> SUFFICES ASSUME InitAdapters PROVE AdaptersInv OBVIOUS
<1>1. /\ active \in Groups /\ DOMAIN disk = Files /\ backups = {} /\ lost = {} /\ clean = TRUE /\ changes = 0
      /\ last.action = "none" /\ last.clients = {} /\ disk[Plugin] = Absent
      /\ \A f \in Files : disk[f] \in [user : Found, own : {None}]
  BY DEF InitAdapters
<1>2. \A f \in Files : disk[f].own = None /\ disk[f].user \in Users /\ disk[f] = [user |-> disk[f].user, own |-> None]
  BY <1>1, AdaptersAssumption DEF Users
<1>3. ASSUME NEW X, NEW f \in Files PROVE disk[f] \in FileHolding(X)
  <2>1. disk[f] = [user |-> disk[f].user, own |-> None] /\ disk[f].user \in Users BY <1>2
  <2> QED BY <2>1 DEF FileHolding, Foreign
<1>f. /\ Toml \in Files /\ Mcp("claude") \in Files /\ Hooks \in Files /\ Policy("claude") \in Files
      /\ Mcp("opencode") \in Files /\ Plugin \in Files /\ Document \in Files
      /\ Mcp("copilot") \in Files /\ Policy("copilot") \in Files /\ Shared \in Files
  BY DEF Files, Toml, Mcp, Hooks, Policy, Plugin, Shared, Document
<1>4. AdaptersTyped
  <2>1. disk[Plugin].user = "missing" BY <1>1 DEF Absent
  <2>2. changes \in 0 .. MaxChanges BY <1>1, AdaptersAssumption
  <2> QED BY <2>1, <2>2, <1>1, <1>3, <1>f
      DEF AdaptersTyped, CodexTyped, ClaudeTyped, OpenCodeTyped, CopilotTyped, SharedTyped, McpTyped
<1>5. \A f \in Files : Clear(f) /\ ~ Owned(f)
  <2>1. \A f \in Files : Clear(f) BY <1>2 DEF Clear
  <2> QED BY <2>1, ForeignIsNotOwned DEF Clear, Owned
<1>6. \A c \in JsonClients : ~ IsMcpOnly(c) BY <1>5, <1>f DEF IsMcpOnly, JsonClients
<1>7. ClaudeRecorded /\ OpenCodeRecorded /\ CopilotRecorded
  BY <1>5, <1>6, <1>f DEF ClaudeRecorded, OpenCodeRecorded, CopilotRecorded, McpOnlyRecorded, JsonClients
<1>8. Whole
  BY <1>5, <1>f DEF Whole, CodexWhole, ClaudeWhole, OpenCodeWhole, CopilotWhole, SharedWhole
<1>9. ConsumersMatch BY <1>5, <1>f DEF ConsumersMatch, Consumers
<1>10. DisconnectLeavesNothing BY <1>1 DEF DisconnectLeavesNothing
<1> QED BY <1>4, <1>7, <1>8, <1>9, <1>10 DEF AdaptersInv

\* Every step keeps the invariant, and only users change the users' part.
LEMMA AdaptersStep ==
  ASSUME AdaptersInv, [NextAdapters]_adapterVars
  PROVE  AdaptersInv' /\ (UNCHANGED adapterVars \/ ByUser \/ \A f \in Files : UserStays(f))
<1>1. CASE UNCHANGED adapterVars
  <2>1. /\ active' = active /\ disk' = disk /\ backups' = backups /\ lost' = lost
        /\ last' = last /\ clean' = clean /\ changes' = changes
    BY <1>1 DEF adapterVars
  <2>2. AdaptersTyped'
    BY <2>1 DEF AdaptersInv, AdaptersTyped, CodexTyped, ClaudeTyped, OpenCodeTyped, CopilotTyped, SharedTyped, McpTyped
  <2>3. Remain BY <2>1 DEF Remain, Traceable, Restorable
  <2>4. ClaudeRecorded' /\ OpenCodeRecorded' /\ CopilotRecorded'
    BY <2>1, <2>3, RecordsStay
       DEF AdaptersInv, ClaudeRecorded, OpenCodeRecorded, CopilotRecorded, Owned, JsonClients
  <2>5. Whole' /\ ConsumersMatch' /\ DisconnectLeavesNothing'
    BY <2>1 DEF AdaptersInv, Whole, CodexWhole, ClaudeWhole, OpenCodeWhole, CopilotWhole, SharedWhole,
       ConsumersMatch, Consumers, DisconnectLeavesNothing, IsMcpOnly, Owned, Clear
  <2> QED BY <1>1, <2>2, <2>4, <2>5 DEF AdaptersInv
<1>2. ASSUME NEW cs \in SUBSET active \ {{}}, NEW req \in Requests, Batch(cs, req) \/ KilledBatch(cs, req)
      PROVE  AdaptersInv' /\ \A f \in Files : UserStays(f)
  <2>1. cs \in SUBSET Clients BY AdaptersAssumption DEF AdaptersInv, AdaptersTyped
  <2> QED BY <1>2, <2>1, BatchStep, KilledStep
<1>3. ASSUME NEW base \in Homes, Migrate(base) PROVE AdaptersInv' /\ \A f \in Files : UserStays(f)
  BY <1>3, MigrateStep
<1>4. ASSUME NEW f \in Files, UserEdit(f) PROVE AdaptersInv' /\ ByUser
  BY <1>4, UserEditStep DEF ByUser
<1>5. ASSUME NEW b \in backups, RemoveBackup(b) PROVE AdaptersInv' /\ \A f \in Files : UserStays(f)
  BY <1>5, RemoveBackupStep
<1> QED BY <1>1, <1>2, <1>3, <1>4, <1>5 DEF NextAdapters

\* The files have their types, what is recorded of them can be put back, and
\* as long as nobody touches the tool's part it is there as a whole.
THEOREM AdaptersInvariance == SpecAdapters => []AdaptersInv
<1>1. InitAdapters => AdaptersInv BY AdaptersStart
<1>2. AdaptersInv /\ [NextAdapters]_adapterVars => AdaptersInv' BY AdaptersStep
<1> QED BY <1>1, <1>2, PTL DEF SpecAdapters

\* The shared policy names exactly the clients that are connected with all
\* their assets, and for their project: connect and disconnect of Codex and
\* OpenCode, together or one by one, and the migration.
THEOREM PolicyNamesItsClients == SpecAdapters => []ConsumersMatch
<1>1. AdaptersInv => ConsumersMatch BY DEF AdaptersInv
<1> QED BY <1>1, AdaptersInvariance, PTL

\* After a disconnect, or the migration, none of its clients' files has an
\* entry or a block of the tool, and the policy does not name them.
THEOREM NothingIsLeft == SpecAdapters => []DisconnectLeavesNothing
<1>1. AdaptersInv => DisconnectLeavesNothing BY DEF AdaptersInv
<1> QED BY <1>1, AdaptersInvariance, PTL

\* No connect, disconnect or migration changes what users wrote, even when it
\* is killed after some of its writes or puts back a whole file.
THEOREM UsersKeepTheirPart == SpecAdapters => UserPartKept
<1>1. AdaptersInv /\ [NextAdapters]_adapterVars =>
        [\/ ByUser
         \/ \A f \in Files :
                \/ disk'[f].user = disk[f].user
                \/ {disk'[f].user, disk[f].user} \subseteq {"missing", "empty"}]_adapterVars
  BY AdaptersStep DEF UserStays
<1> QED BY <1>1, AdaptersInvariance, PTL DEF SpecAdapters, UserPartKept

\* The home has what a disconnect of the client puts back.
CanPutBack(base, c) ==
  /\ c # "codex" /\ IsMcpOnly(c) => Restorable(base, Mcp(c), disk[Mcp(c)].own.original)
  /\ c = "claude" /\ ~ IsMcpOnly(c) /\ Owned(Policy("claude")) =>
       /\ Restorable(base, Mcp("claude"), disk[Policy("claude")].own.mcp.original)
       /\ Restorable(base, Hooks, disk[Policy("claude")].own.hooks.original)
  /\ c = "opencode" /\ ~ IsMcpOnly(c) /\ Owned(Plugin) =>
       Restorable(base, Document, disk[Plugin].own.config.original)

\* What connectionStatus verifies disconnectAgents does not refuse, whatever
\* users did to the files before and wherever a batch was killed: there is a
\* home, that of the connection that recorded the originals, with which it
\* can be removed, unless a backup of them was removed meanwhile.
THEOREM StatusAgreesWithDisconnect == SpecAdapters => []VerifiedIsRemovable
<1>1. ASSUME AdaptersInv, NEW c \in active, NEW p \in Projects, Verified(c, p), Originals(c) \cap lost = {}
      PROVE  \E base \in Homes : BatchAllowed({c}, Disconnect(base))
  <2>i. Recorded BY <1>1, InvParts
  <2>c. c \in Clients BY <1>1, AdaptersAssumption DEF AdaptersInv, AdaptersTyped
  <2>o. \A o \in Originals(c) : o \notin lost BY <1>1
  <2>h. \E base \in Homes : CanPutBack(base, c)
    <3>1. CASE c # "codex" /\ IsMcpOnly(c)
      <4>1. PICK base \in Homes : Traceable(base, Mcp(c), disk[Mcp(c)].own.original)
        BY <2>c, <2>i, <3>1 DEF Clients, Recorded, ClaudeRecorded, OpenCodeRecorded, CopilotRecorded, McpOnlyRecorded
      <4>2. <<Mcp(c), disk[Mcp(c)].own.original>> \in Originals(c) BY <3>1 DEF Originals
      <4> QED BY <3>1, <4>1, <4>2, <2>o DEF Traceable, CanPutBack
    <3>2. CASE c = "claude" /\ ~ IsMcpOnly(c) /\ Owned(Policy("claude"))
      <4>1. PICK base \in Homes : /\ Kept(base, Mcp("claude"), disk[Policy("claude")].own.mcp)
                                  /\ Kept(base, Hooks, disk[Policy("claude")].own.hooks)
        BY <2>i, <3>2 DEF Recorded, ClaudeRecorded, ClaudeKept
      <4>2. /\ <<Mcp("claude"), disk[Policy("claude")].own.mcp.original>> \in Originals(c)
            /\ <<Hooks, disk[Policy("claude")].own.hooks.original>> \in Originals(c)
        BY <3>2, Zenon DEF Originals
      <4> QED BY <3>2, <4>1, <4>2, <2>o DEF Kept, Traceable, CanPutBack
    <3>3. CASE c = "opencode" /\ ~ IsMcpOnly(c) /\ Owned(Plugin)
      <4>1. PICK base \in Homes : Kept(base, Document, disk[Plugin].own.config)
        BY <2>i, <3>3 DEF Recorded, OpenCodeRecorded, OpenCodeKept
      <4>2. <<Document, disk[Plugin].own.config.original>> \in Originals(c)
        BY <3>3, Zenon DEF Originals
      <4> QED BY <3>3, <4>1, <4>2, <2>o DEF Kept, Traceable, CanPutBack
    <3>4. CASE /\ c = "codex" \/ ~ IsMcpOnly(c)
               /\ c # "claude" \/ ~ Owned(Policy("claude"))
               /\ c # "opencode" \/ ~ Owned(Plugin)
      BY <3>4, AdaptersAssumption DEF CanPutBack
    <3> QED BY <3>1, <3>2, <3>3, <3>4
  <2>p. PICK base \in Homes : CanPutBack(base, c) BY <2>h
  <2> DEFINE req == Disconnect(base)
  <2> SUFFICES BatchAllowed({c}, req) BY <2>p
  <2>r. /\ req.mcpOnly = FALSE /\ req.project = "any" /\ ~ Connects(req)
        /\ ~ Connects(McpOnlyReq(req)) /\ McpOnlyReq(req).mcpOnly = TRUE
        /\ req.home = base
        /\ \A d : WithoutPolicy(d, req) <=> IsMcpOnly(d)
    BY DEF Connects, McpOnlyReq, WithoutPolicy, Disconnect
  <2> HIDE DEF req
  <2>1. CASE IsMcpOnly(c)
    <3>1. McpOnlyVerified(c) BY <1>1, <2>1 DEF Verified
    <3>2. SharedAllowed(Complete({c}, req), req) BY <2>1, <2>r DEF SharedAllowed, Complete, Sharing
    <3>3. Allowed(c, req)
      <4>1. CASE c = "codex"
        <5>1. Owned(Toml) /\ disk[Toml].own.mode = "mcp-only" BY <2>1, <4>1 DEF IsMcpOnly, Mcp, Toml
        <5>2. CodexAllowed(McpOnlyReq(req)) BY <5>1, <2>r DEF CodexAllowed, Owned, Altered
        <5> QED BY <4>1, <5>2, <2>1, <2>r, ByClient
      <4>2. CASE c \in JsonClients
        <5>1. McpOnlyIntact(c) /\ Restorable(base, Mcp(c), disk[Mcp(c)].own.original)
          BY <3>1, <4>2, <2>1, <2>p DEF McpOnlyVerified, JsonClients, CanPutBack
        <5>2. McpOnlyAllowed(c, req) BY <5>1, <2>r DEF McpOnlyAllowed
        <5> QED BY <4>2, <5>2, <2>1, <2>r, ByClient
      <4> QED BY <4>1, <4>2, <2>c DEF Clients, JsonClients
    <3> QED BY <3>2, <3>3 DEF BatchAllowed
  <2>2. CASE ~ IsMcpOnly(c)
    <3>v. CompleteVerified(c) BY <1>1, <2>2 DEF Verified
    <3>w. ~ WithoutPolicy(c, req) BY <2>2, <2>r
    <3>o. Owned(Shared) => SharedAllowed(Complete({c}, req), req) BY <2>r DEF SharedAllowed
    <3>1. CASE c = "codex"
      <4>1. Owned(Toml) /\ Owned(Shared) BY <3>v, <3>1, Zenon DEF CompleteVerified, ShareVerified
      <4>2. CodexAllowed(req) BY <4>1, <2>r DEF CodexAllowed, Owned, Altered
      <4>3. Allowed(c, req) BY <3>1, <3>w, <4>2, ByClient
      <4> QED BY <4>1, <4>3, <3>o DEF BatchAllowed
    <3>2. CASE c = "claude"
      <4>1. /\ Owned(Policy("claude"))
            /\ AsRecorded(Mcp("claude"), disk[Policy("claude")].own.mcp)
            /\ AsRecorded(Hooks, disk[Policy("claude")].own.hooks)
        BY <3>v, <3>2, Zenon DEF CompleteVerified
      <4>2. ClaudeAllowed(req) BY <3>2, <4>1, <2>2, <2>r, <2>p DEF ClaudeAllowed, CanPutBack
      <4>3. Allowed(c, req) BY <3>2, <3>w, <4>2, ByClient
      <4>4. SharedAllowed(Complete({c}, req), req) BY <3>2 DEF SharedAllowed, Sharing, Complete
      <4> QED BY <4>3, <4>4 DEF BatchAllowed
    <3>3. CASE c = "opencode"
      <4>1. Owned(Plugin) /\ AsRecorded(Document, disk[Plugin].own.config) /\ Owned(Shared)
        BY <3>v, <3>3, Zenon DEF CompleteVerified, ShareVerified
      <4>2. OpenCodeAllowed(req) BY <3>3, <4>1, <2>2, <2>r, <2>p DEF OpenCodeAllowed, CanPutBack
      <4>3. Allowed(c, req) BY <3>3, <3>w, <4>2, ByClient
      <4> QED BY <4>1, <4>3, <3>o DEF BatchAllowed
    <3>4. CASE c = "copilot"
      <4>1. Owned(Policy("copilot")) /\ disk[Policy("copilot")].own.entry = disk[Mcp("copilot")].own
        BY <3>v, <3>4, Zenon DEF CompleteVerified
      <4>2. CopilotAllowed(req) BY <4>1, <2>r DEF CopilotAllowed
      <4>3. Allowed(c, req) BY <3>4, <3>w, <4>2, ByClient
      <4>4. SharedAllowed(Complete({c}, req), req) BY <3>4 DEF SharedAllowed, Sharing, Complete
      <4> QED BY <4>3, <4>4 DEF BatchAllowed
    <3> QED BY <3>1, <3>2, <3>3, <3>4, <2>c DEF Clients
  <2> QED BY <2>1, <2>2
<1>2. AdaptersInv => VerifiedIsRemovable BY <1>1 DEF VerifiedIsRemovable
<1> QED BY <1>2, AdaptersInvariance, PTL

=============================================================================
