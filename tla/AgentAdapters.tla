--------------------------- MODULE AgentAdapters ---------------------------
(***************************************************************************)
(* The configuration files of one project directory that an adapter for    *)
(* Codex, Claude, OpenCode or Copilot adds to, and the rules by which      *)
(* connect and disconnect recognise what is theirs (the prepare functions  *)
(* of agent-connectors.js, the managed blocks of agent-policy.js).  A file *)
(* is what the user wrote and what the tool added; a fingerprint is the    *)
(* value it was taken of.  The clients' formats, directories and the       *)
(* checks of syntax are left out; Cursor is handled as Claude is.  How a   *)
(* batch writes its files is ConfigTransaction's subject: here it either   *)
(* writes all of them, or is killed after some.                            *)
(***************************************************************************)
EXTENDS Naturals, Sequences, SequencesExt

CONSTANTS Groups,       \* sets of clients used together, one of which is chosen
          Projects,
          Settings,     \* the connection's other options: transport, identity
          Homes,        \* data homes, one of which every command is given
          Texts,        \* contents users write
          Found,        \* what users may have in a file at first
          MaxChanges    \* bound on what users and kills do, and on backups removed

Clients == {"codex", "claude", "opencode", "copilot"}
Shared == <<"shared", "policy">>        \* AGENTS.md
Files == {<<"codex", "mcp">>, <<"claude", "mcp">>, <<"claude", "hooks">>, <<"claude", "policy">>,
          <<"opencode", "mcp">>, <<"opencode", "plugin">>,
          <<"copilot", "mcp">>, <<"copilot", "policy">>, Shared}

None == [kind |-> "none"]
Altered == [kind |-> "altered"]         \* the tool's entry or block, changed by the user
Unmanaged == [kind |-> "unmanaged"]     \* an entry of the same name that is the user's
Absent == [user |-> "missing", own |-> None]

ASSUME AdaptersAssumption ==
    /\ Groups \subseteq SUBSET Clients
    /\ Texts \cap {"missing", "empty"} = {}
    /\ Found \subseteq Texts \cup {"missing", "empty"}
    /\ Homes # {}
    /\ MaxChanges \in Nat

VARIABLES active,       \* the clients in use
          disk,         \* every file: the user's part and the tool's
          backups,      \* user contents that every home keeps of every file
          lost,         \* files and contents whose backup was removed from a home
          last,         \* the last operation that succeeded, and its clients
          clean,        \* no entry was altered or removed and no batch killed
          changes

adapterVars == <<active, disk, backups, lost, last, clean, changes>>

Owned(f) == disk[f].own.kind = "owned"
Clear(f) == disk[f].own = None
Holds(f, value) == [user |-> disk[f].user, own |-> value]
Without(f) == Holds(f, None)

(* A managed text file that held nothing else stays behind empty.          *)
Emptied(f) == [user |-> IF disk[f].user = "missing" THEN "empty" ELSE disk[f].user, own |-> None]

(* restoredLifecycleContent: a missing file is deleted again, any other is *)
(* taken from its backup in the home that the command is given.            *)
Restorable(home, f, user) == user = "missing" \/ <<home, f, user>> \in backups
Restored(user) == [user |-> user, own |-> None]

Write(f, value) == [file |-> f, to |-> value]

Connects(req) == req.action = "connect"
Entry(req, mode) ==
    [kind |-> "owned", mode |-> mode, project |-> req.project, settings |-> req.settings]
-----------------------------------------------------------------------------
(* Codex: a marked block of config.toml with a fingerprint of its entry.   *)
Toml == <<"codex", "mcp">>
Mode(req) == IF req.mcpOnly THEN "mcp-only" ELSE "complete"

CodexAllowed(req) ==
    /\ disk[Toml].own # Altered
    /\ Connects(req) => /\ disk[Toml].own # Unmanaged
                        /\ Owned(Toml) => /\ disk[Toml].own.mode = Mode(req)
                                          /\ disk[Toml].own.project = req.project
    /\ req.mcpOnly /\ Owned(Toml) => disk[Toml].own.mode = "mcp-only"

CodexWrites(req) ==
    IF Connects(req) THEN <<Write(Toml, Holds(Toml, Entry(req, Mode(req))))>>
    ELSE IF Owned(Toml) THEN <<Write(Toml, Emptied(Toml))>>
    ELSE <<>>
-----------------------------------------------------------------------------
(* Any other client without policy assets: the entry itself carries what   *)
(* the document was and a fingerprint of the whole document.               *)
Mcp(c) == <<c, "mcp">>
IsMcpOnly(c) == Owned(Mcp(c)) /\ disk[Mcp(c)].own.mode = "mcp-only"
McpOnlyIntact(c) == IsMcpOnly(c) /\ disk[Mcp(c)].user = disk[Mcp(c)].own.generated

McpOnlyAllowed(c, req) ==
    /\ Clear(Mcp(c)) \/ McpOnlyIntact(c)
    /\ IsMcpOnly(c) => /\ Restorable(req.home, Mcp(c), disk[Mcp(c)].own.original)
                       /\ Connects(req) => disk[Mcp(c)].own.project = req.project

McpOnlyEntry(c, req) ==
    LET original == IF IsMcpOnly(c) THEN disk[Mcp(c)].own.original ELSE disk[Mcp(c)].user
    IN  [kind |-> "owned", mode |-> "mcp-only", project |-> req.project, settings |-> req.settings,
         original |-> original, generated |-> original]

McpOnlyWrites(c, req) ==
    IF Connects(req)
    THEN <<Write(Mcp(c), [user |-> McpOnlyEntry(c, req).original, own |-> McpOnlyEntry(c, req)])>>
    ELSE IF IsMcpOnly(c) THEN <<Write(Mcp(c), Restored(disk[Mcp(c)].own.original))>>
    ELSE <<>>
-----------------------------------------------------------------------------
(* Claude: the block of the policy file says which project it is for, what *)
(* the other two files were, and what they were made.                      *)
Hooks == <<"claude", "hooks">>
Policy(c) == <<c, "policy">>

AsRecorded(f, topology) == disk[f] = topology.generated

ClaudeAllowed(req) ==
    LET meta == disk[Policy("claude")].own
    IN  /\ Clear(Policy("claude")) \/ Owned(Policy("claude"))
        /\ IF Owned(Policy("claude"))
           THEN /\ Connects(req) => meta.project = req.project
                /\ AsRecorded(Mcp("claude"), meta.mcp)
                /\ AsRecorded(Hooks, meta.hooks)
                /\ ~ Connects(req) => /\ Restorable(req.home, Mcp("claude"), meta.mcp.original)
                                      /\ Restorable(req.home, Hooks, meta.hooks.original)
           ELSE Clear(Mcp("claude")) /\ Clear(Hooks)

ClaudeBlock(req) ==
    LET meta == disk[Policy("claude")].own
        Topology(f, kept) ==
            [original |-> IF Owned(Policy("claude")) THEN kept ELSE disk[f].user,
             generated |-> Holds(f, Entry(req, "complete"))]
    IN  [kind |-> "owned", project |-> req.project,
         fresh |-> IF Owned(Policy("claude")) THEN meta.fresh ELSE disk[Policy("claude")].user = "missing",
         mcp |-> Topology(Mcp("claude"), meta.mcp.original),
         hooks |-> Topology(Hooks, meta.hooks.original)]

ClaudeWrites(req) ==
    LET meta == disk[Policy("claude")].own
        left == Without(Policy("claude"))
    IN  IF Connects(req)
        THEN <<Write(Mcp("claude"), Holds(Mcp("claude"), Entry(req, "complete"))),
               Write(Hooks, Holds(Hooks, Entry(req, "complete"))),
               Write(Policy("claude"), Holds(Policy("claude"), ClaudeBlock(req)))>>
        ELSE IF Owned(Policy("claude"))
        THEN <<Write(Mcp("claude"), Restored(meta.mcp.original)),
               Write(Hooks, Restored(meta.hooks.original)),
               Write(Policy("claude"),
                     IF meta.fresh /\ left.user \in {"missing", "empty"} THEN Absent ELSE left)>>
        ELSE <<>>
-----------------------------------------------------------------------------
(* OpenCode: the plugin's first line says so of the configuration.         *)
Document == <<"opencode", "mcp">>
Plugin == <<"opencode", "plugin">>

\* A mutant of OpenCodeAllowed that does not compare the configuration.
OpenCodeTrusted(req) ==
    LET meta == disk[Plugin].own
    IN  /\ Clear(Plugin) \/ Owned(Plugin)
        /\ IF Owned(Plugin)
           THEN req.project \in {"any", meta.project} /\ Restorable(req.home, Document, meta.config.original)
           ELSE Clear(Document)

OpenCodeAllowed(req) ==
    LET meta == disk[Plugin].own
    IN  /\ Clear(Plugin) \/ Owned(Plugin)
        /\ IF Owned(Plugin)
           THEN /\ req.project \in {"any", meta.project}
                /\ AsRecorded(Document, meta.config)
                /\ Restorable(req.home, Document, meta.config.original)
           ELSE Clear(Document)

OpenCodeWrites(req) ==
    LET original == IF Owned(Plugin) THEN disk[Plugin].own.config.original ELSE disk[Document].user
        connected == [user |-> original, own |-> Entry(req, "complete")]
    IN  IF Connects(req)
        THEN <<Write(Document, connected),
               Write(Plugin, [user |-> "missing",
                              own |-> [kind |-> "owned", project |-> req.project, settings |-> req.settings,
                                       config |-> [original |-> original, generated |-> connected]]])>>
        ELSE IF Owned(Plugin) THEN <<Write(Document, Restored(original)), Write(Plugin, Absent)>>
        ELSE <<>>
-----------------------------------------------------------------------------
(* Copilot: the policy block has a fingerprint of the entry, and the rest  *)
(* of the document may change.                                             *)
CopilotAllowed(req) ==
    LET meta == disk[Policy("copilot")].own
    IN  /\ Clear(Policy("copilot")) \/ Owned(Policy("copilot"))
        /\ Owned(Policy("copilot")) /\ Connects(req) => meta.project = req.project
        /\ Clear(Mcp("copilot")) \/ (Owned(Policy("copilot")) /\ meta.entry = disk[Mcp("copilot")].own)

CopilotWrites(req) ==
    LET meta == disk[Policy("copilot")].own
        created == IF Clear(Mcp("copilot")) THEN disk[Mcp("copilot")].user = "missing" ELSE meta.created
        entry == Entry(req, "complete")
    IN  IF Connects(req)
        THEN <<Write(Mcp("copilot"), Holds(Mcp("copilot"), entry)),
               Write(Policy("copilot"),
                     Holds(Policy("copilot"), [kind |-> "owned", project |-> req.project, entry |-> entry,
                                               created |-> created, intact |-> TRUE]))>>
        ELSE (IF Clear(Mcp("copilot")) THEN <<>>
              ELSE <<Write(Mcp("copilot"), IF created /\ disk[Mcp("copilot")].user = "missing"
                                           THEN Absent ELSE Emptied(Mcp("copilot")))>>)
             \o (IF Clear(Policy("copilot")) THEN <<>>
                 ELSE <<Write(Policy("copilot"), Emptied(Policy("copilot")))>>)
-----------------------------------------------------------------------------
(* The policy that Codex and OpenCode share names the clients it is for.   *)
Sharing(cs) == cs \cap {"codex", "opencode"}

SharedAllowed(cs, req) ==
    Sharing(cs) # {} =>
        /\ Clear(Shared) \/ Owned(Shared)
        /\ Owned(Shared) /\ Connects(req) => disk[Shared].own.project = req.project

Consumers == IF Owned(Shared) THEN disk[Shared].own.consumers ELSE {}

SharedWrites(cs, req) ==
    LET consumers == IF Connects(req) THEN Consumers \cup Sharing(cs) ELSE Consumers \ Sharing(cs)
        project == IF Connects(req) THEN req.project ELSE disk[Shared].own.project
    IN  IF Sharing(cs) = {} \/ (~ Connects(req) /\ Clear(Shared)) THEN <<>>
        ELSE IF consumers = {} THEN <<Write(Shared, Emptied(Shared))>>
        ELSE <<Write(Shared, Holds(Shared, [kind |-> "owned", project |-> project,
                                            consumers |-> consumers, intact |-> TRUE]))>>
-----------------------------------------------------------------------------
(* prepareAgentChanges for every client of the batch, then the shared file *)
(* for those with policy assets.  A disconnect finds out by itself which   *)
(* clients have none.                                                      *)
WithoutPolicy(c, req) == req.mcpOnly \/ (~ Connects(req) /\ IsMcpOnly(c))

McpOnlyReq(req) == [req EXCEPT !.mcpOnly = TRUE]

Allowed(c, req) ==
    CASE c = "codex" -> CodexAllowed(IF WithoutPolicy(c, req) THEN McpOnlyReq(req) ELSE req)
      [] c # "codex" /\ WithoutPolicy(c, req) -> McpOnlyAllowed(c, req)
      [] c = "claude" /\ ~ WithoutPolicy(c, req) -> ClaudeAllowed(req)
      [] c = "opencode" /\ ~ WithoutPolicy(c, req) -> OpenCodeAllowed(req)
      [] c = "copilot" /\ ~ WithoutPolicy(c, req) -> CopilotAllowed(req)

Writes(c, req) ==
    CASE c = "codex" -> CodexWrites(IF WithoutPolicy(c, req) THEN McpOnlyReq(req) ELSE req)
      [] c # "codex" /\ WithoutPolicy(c, req) -> McpOnlyWrites(c, req)
      [] c = "claude" /\ ~ WithoutPolicy(c, req) -> ClaudeWrites(req)
      [] c = "opencode" /\ ~ WithoutPolicy(c, req) -> OpenCodeWrites(req)
      [] c = "copilot" /\ ~ WithoutPolicy(c, req) -> CopilotWrites(req)

\* A mutant of Complete: every client of the batch gets the policy.
CompleteAlways(cs, req) == cs

Complete(cs, req) == {c \in cs : ~ WithoutPolicy(c, req)}

BatchAllowed(cs, req) ==
    /\ \A c \in cs : Allowed(c, req)
    /\ SharedAllowed(Complete(cs, req), req)

(* The writes of a batch, as a set: the caller orders the clients.         *)
BatchWrites(cs, req) ==
    (UNION {ToSet(Writes(c, req)) : c \in cs}) \cup ToSet(SharedWrites(Complete(cs, req), req))

(* What a batch may have written when it is killed: all for some clients,  *)
(* and the first n writes for another.  The shared policy comes last.      *)
FirstWrites(done, c, n, req) ==
    (UNION {ToSet(Writes(d, req)) : d \in done}) \cup ToSet(SubSeq(Writes(c, req), 1, n))

(* Each write that changes a file keeps what it replaces in the home.      *)
Apply(home, writes) ==
    LET touched == {f \in Files : \E w \in writes : w.file = f /\ w.to # disk[f]}
        saved == {f \in touched : Clear(f) /\ disk[f] # Absent}
    IN  /\ disk' = [f \in Files |->
                      IF f \in touched THEN (CHOOSE w \in writes : w.file = f).to ELSE disk[f]]
        /\ backups' = backups \cup {<<home, f, disk[f].user>> : f \in saved}

Requests ==
    [action : {"connect"}, project : Projects, settings : Settings, home : Homes, mcpOnly : BOOLEAN]
    \cup [action : {"disconnect"}, project : {"any"}, settings : Settings, home : Homes, mcpOnly : BOOLEAN]

Disconnect(home) == [action |-> "disconnect", project |-> "any",
                     settings |-> CHOOSE s \in Settings : TRUE, home |-> home, mcpOnly |-> FALSE]

InUse(f) == f[1] \in active \/ (f = Shared /\ Sharing(active) # {})

InitAdapters ==
    /\ active \in Groups
    /\ disk \in [Files -> [user : Found, own : {None}]]
    /\ \A f \in Files : ~ InUse(f) => disk[f] = Absent
    /\ disk[Plugin] = Absent
    /\ backups = {}
    /\ lost = {}
    /\ last = [action |-> "none", clients |-> {}, project |-> "any"]
    /\ clean = TRUE
    /\ changes = 0

(* connectAgents, disconnectAgents.                                        *)
Batch(cs, req) ==
    /\ BatchAllowed(cs, req)
    /\ Apply(req.home, BatchWrites(cs, req))
    /\ last' = [action |-> req.action, clients |-> cs, project |-> req.project]
    /\ UNCHANGED <<active, lost, clean, changes>>

\* A mutant of Migrate that forgets the shared policy.
MigrateFilesOnly(home) ==
    /\ Owned(Plugin)
    /\ OpenCodeAllowed(Disconnect(home))
    /\ Apply(home, ToSet(OpenCodeWrites(Disconnect(home))))
    /\ last' = [action |-> "disconnect", clients |-> {"opencode"}, project |-> "any"]
    /\ UNCHANGED <<active, lost, clean, changes>>

(* migrateManagedOpenCodeProjects: the global plugin takes over.           *)
Migrate(home) ==
    LET req == Disconnect(home)
    IN  /\ Owned(Plugin)
        /\ OpenCodeAllowed(req)
        /\ SharedAllowed({"opencode"}, req)
        /\ Apply(home, ToSet(OpenCodeWrites(req)) \cup ToSet(SharedWrites({"opencode"}, req)))
        /\ last' = [action |-> "disconnect", clients |-> {"opencode"}, project |-> "any"]
        /\ UNCHANGED <<active, lost, clean, changes>>

KilledBatch(cs, req) ==
    /\ changes < MaxChanges
    /\ BatchAllowed(cs, req)
    /\ \E c \in cs : \E done \in SUBSET (cs \ {c}), n \in 0 .. Len(Writes(c, req)) :
           Apply(req.home, FirstWrites(done, c, n, req))
    /\ last' = [action |-> "none", clients |-> {}, project |-> "any"]
    /\ clean' = FALSE
    /\ changes' = changes + 1
    /\ UNCHANGED <<active, lost>>

(* The user writes in a file, alters or removes what the tool added, or    *)
(* deletes the file.                                                       *)
UserValues(f) ==
    {Holds(f, own) : own \in {None, Altered, Unmanaged} \ {disk[f].own}}
    \cup {[user |-> t, own |-> disk[f].own] : t \in Texts \ {disk[f].user}}
    \cup {Holds(f, [disk[f].own EXCEPT !.intact = FALSE]) : own \in {o \in {disk[f].own} : Owned(f) /\ "intact" \in DOMAIN o}}
    \cup {Absent}

UserEdit(f) ==
    /\ changes < MaxChanges
    /\ InUse(f)
    /\ \E value \in UserValues(f) \ {disk[f]} :
        /\ f = Plugin => value.user = "missing"
        /\ disk' = [disk EXCEPT ![f] = value]
        /\ clean' = (clean /\ value.own = disk[f].own)
    /\ last' = [action |-> "none", clients |-> {}, project |-> "any"]
    /\ changes' = changes + 1
    /\ UNCHANGED <<active, backups, lost>>

(* A backup goes from a home: its owner tidies up, or the batch of another *)
(* project that made the copy is rolled back (ConfigTransaction).          *)
RemoveBackup(b) ==
    /\ changes < MaxChanges
    /\ backups' = backups \ {b}
    /\ lost' = lost \cup {<<b[2], b[3]>>}
    /\ changes' = changes + 1
    /\ UNCHANGED <<active, disk, last, clean>>

NextAdapters ==
    \/ \E cs \in SUBSET active \ {{}}, req \in Requests : Batch(cs, req) \/ KilledBatch(cs, req)
    \/ \E home \in Homes : Migrate(home)
    \/ \E f \in Files : UserEdit(f)
    \/ \E b \in backups : RemoveBackup(b)

SpecAdapters == InitAdapters /\ [][NextAdapters]_adapterVars
-----------------------------------------------------------------------------
(* connectionStatus: what a client's assets must be to count as verified.  *)
ShareVerified(c) == Owned(Shared) /\ disk[Shared].own.intact /\ c \in Consumers

\* A mutant of CompleteVerified that does not look at Claude's hooks.
LooselyVerified(c) ==
    CASE c = "codex" -> Owned(Toml) /\ disk[Toml].own.mode = "complete" /\ ShareVerified(c)
      [] c = "claude" -> Owned(Policy(c)) /\ AsRecorded(Mcp(c), disk[Policy(c)].own.mcp)
      [] c = "opencode" -> /\ Owned(Plugin)
                           /\ AsRecorded(Document, disk[Plugin].own.config)
                           /\ ShareVerified(c)
      [] c = "copilot" -> /\ Owned(Policy(c)) /\ disk[Policy(c)].own.intact
                          /\ disk[Policy(c)].own.entry = disk[Mcp(c)].own

CompleteVerified(c) ==
    CASE c = "codex" -> Owned(Toml) /\ disk[Toml].own.mode = "complete" /\ ShareVerified(c)
      [] c = "claude" -> /\ Owned(Policy(c))
                         /\ AsRecorded(Mcp(c), disk[Policy(c)].own.mcp)
                         /\ AsRecorded(Hooks, disk[Policy(c)].own.hooks)
      [] c = "opencode" -> /\ Owned(Plugin)
                           /\ AsRecorded(Document, disk[Plugin].own.config)
                           /\ ShareVerified(c)
      [] c = "copilot" -> /\ Owned(Policy(c)) /\ disk[Policy(c)].own.intact
                          /\ disk[Policy(c)].own.entry = disk[Mcp(c)].own

McpOnlyVerified(c) == IF c = "codex" THEN IsMcpOnly(c) ELSE McpOnlyIntact(c)

ManagedProject(c) ==
    IF IsMcpOnly(c) THEN disk[Mcp(c)].own.project
    ELSE CASE c = "codex" -> disk[Shared].own.project
           [] c = "claude" -> disk[Policy(c)].own.project
           [] c = "opencode" -> disk[Plugin].own.project
           [] c = "copilot" -> disk[Policy(c)].own.project

Verified(c, project) ==
    /\ IF IsMcpOnly(c) THEN McpOnlyVerified(c) ELSE CompleteVerified(c)
    /\ ManagedProject(c) = project
-----------------------------------------------------------------------------
ByUser == \E f \in Files : UserEdit(f)

(* Connect, disconnect and migration, killed or not, never change what the *)
(* user wrote in a file, although they put back whole files from backups.  *)
UserPartKept ==
    [][\/ ByUser
       \/ \A f \in Files :
              \/ disk'[f].user = disk[f].user
              \/ {disk'[f].user, disk[f].user} \subseteq {"missing", "empty"}]_adapterVars

(* The clients the shared policy names are those connected with all their  *)
(* assets, for one project (prepareSharedPolicyChange).                    *)
ConsumersMatch ==
    clean =>
        /\ Consumers = {c \in {"codex"} : Owned(Toml) /\ disk[Toml].own.mode = "complete"}
                       \cup {c \in {"opencode"} : Owned(Plugin)}
        /\ "codex" \in Consumers => disk[Toml].own.project = disk[Shared].own.project
        /\ "opencode" \in Consumers => disk[Plugin].own.project = disk[Shared].own.project

(* A successful disconnect leaves nothing of the tool in the files of its  *)
(* clients, and the shared policy names these clients no longer.           *)
DisconnectLeavesNothing ==
    last.action = "disconnect" /\ clean =>
        \A c \in last.clients :
            /\ \A f \in Files : f[1] = c => Clear(f)
            /\ c \notin Consumers

(* What a disconnect of a client has to put back, by the client's record.  *)
Originals(c) ==
    IF c # "codex" /\ IsMcpOnly(c) THEN {<<Mcp(c), disk[Mcp(c)].own.original>>}
    ELSE CASE c = "claude" /\ Owned(Policy(c)) -> {<<Mcp(c), disk[Policy(c)].own.mcp.original>>,
                                                  <<Hooks, disk[Policy(c)].own.hooks.original>>}
           [] c = "opencode" /\ Owned(Plugin) -> {<<Document, disk[Plugin].own.config.original>>}
           [] OTHER -> {}

(* An adapter that status verifies can be disconnected with one of the     *)
(* homes, that of its first connect, as long as no backup of its originals *)
(* was removed: status accepts nothing else that disconnect refuses.  It   *)
(* does not look for the backups itself (connectionStatus), nor does a     *)
(* later connect with another home bring them there.                       *)
VerifiedIsRemovable ==
    \A c \in active, p \in Projects :
        Verified(c, p) /\ Originals(c) \cap lost = {} =>
            \E home \in Homes : BatchAllowed({c}, Disconnect(home))
=============================================================================
