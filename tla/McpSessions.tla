---------------------------- MODULE McpSessions -----------------------------
(***************************************************************************)
(* The sessions of the HTTP endpoint of the MCP server                     *)
(* (ContinuityMcpHttpEndpoint in src/mcp-http.js): initialized by a POST,  *)
(* used by later requests, expired by a sweep, and all closed with the     *)
(* endpoint.                                                               *)
(*                                                                         *)
(* JavaScript runs a call without interruption from one await to the next, *)
(* so a step is what a call does between two awaits.  The promises awaited *)
(* are of the request's body, of the initialization hook and of the        *)
(* transport; each of them settles, or fails, whenever it likes.           *)
(*                                                                         *)
(* An entry and its session are one value.  The identity that a session is *)
(* bound to, the counters and the HTTP answers are left out.  The clock is *)
(* the one bit per session that the sweep reads.                           *)
(***************************************************************************)
EXTENDS Naturals, FiniteSets

CONSTANTS
  Entries,      \* The entries created; their number bounds initializations.
  NoEntry,      \* The target of a request without a session id.
  Requests,     \* The requests handled at a time.
  Timers,       \* The sweeps the timer has started.
  MaxSessions   \* maxSessions

ASSUME NoEntryAssumption == NoEntry \notin Entries
ASSUME TasksAssumption == Requests \intersect Timers = {}
ASSUME FiniteAssumption == IsFiniteSet(Entries) /\ IsFiniteSet(Requests)
ASSUME CapacityAssumption == MaxSessions \in Nat

VARIABLES
  sessions,     \* The keys of the sessions map.
  pending,      \* pendingInitializations
  inFlight,     \* entry.inFlight
  stale,        \* Whether sessionTtlMs have passed since entry.lastUsedAt.
  transport,    \* The state of entry.transport.
  asked,        \* The entries closeEntry was called for.
  registered,   \* The entries whose transport has given out its session id.
  endpoint,     \* "closing" and "closed" are closePromise, pending and settled.
  pc,           \* What each task awaits.
  kind,         \* The method of its request.
  target,       \* Its entry.
  queue         \* What is left of the list its sweep made.

vars == <<sessions, pending, inFlight, stale, transport, asked, registered, endpoint,
          pc, kind, target, queue>>

Tasks == Requests \union Timers

\* A DELETE ends its session, an initialize starts one.
Kinds == {"initialize", "post", "get", "delete"}

\* The awaits of an initialization, while its entry is pending.
Initializing == {"preparing", "connecting", "answering", "aborting"}

Phases == {"idle", "sweeping", "reading", "serving"} \union Initializing

Endpoints == {"open", "closing", "closed"}

Closed == endpoint # "open"

Init ==
  /\ sessions = {} /\ pending = {} /\ asked = {} /\ registered = {}
  /\ inFlight = [e \in Entries |-> 0]
  /\ stale = [e \in Entries |-> FALSE]
  /\ transport = [e \in Entries |-> "unused"]
  /\ endpoint = "open"
  /\ pc = [t \in Tasks |-> "idle"]
  /\ kind = [t \in Tasks |-> "get"]
  /\ target = [t \in Tasks |-> NoEntry]
  /\ queue = [t \in Tasks |-> {}]

-----------------------------------------------------------------------------

Go(t, phase) == pc' = [pc EXCEPT ![t] = phase]

\* The task ends, and its locals with it.
Finish(t) ==
  /\ Go(t, "idle")
  /\ kind' = [kind EXCEPT ![t] = "get"]
  /\ target' = [target EXCEPT ![t] = NoEntry]

\* closeEntry: only its first call closes the transport, if there is one yet.
CloseEntries(E) ==
  /\ asked' = asked \union E
  /\ transport' = [e \in Entries |->
                     IF e \in E \ asked /\ transport[e] = "open" THEN "closed" ELSE transport[e]]

\* sweepExpired makes a list of these, before its first await.
Expired == {e \in sessions : inFlight[e] = 0 /\ stale[e]}

\* One round of its loop, over what is left of the list.  (The code goes
\* through it in the order of the map.)
SweepNext(t, list) ==
  \/ /\ list = {}
     /\ queue' = [queue EXCEPT ![t] = {}]
     /\ UNCHANGED <<sessions, asked, transport>>
  \/ \E e \in list :
       /\ sessions' = sessions \ {e}
       /\ CloseEntries({e})
       /\ queue' = [queue EXCEPT ![t] = list \ {e}]

-----------------------------------------------------------------------------
(* The sweep, of the timer or at the start of a request.                   *)

Tick(t) ==
  /\ pc[t] = "idle"
  /\ ~Closed
  /\ Expired # {}
  /\ SweepNext(t, Expired)
  /\ Go(t, "sweeping")
  /\ UNCHANGED <<pending, inFlight, stale, registered, endpoint, kind, target>>

\* handle, up to its first await.  A client knows the sessions it was given.
Handle(r, k, e) ==
  /\ pc[r] = "idle"
  /\ ~Closed
  /\ IF k = "initialize" THEN e = NoEntry ELSE e \in registered
  /\ kind' = [kind EXCEPT ![r] = k]
  /\ target' = [target EXCEPT ![r] = e]
  /\ SweepNext(r, Expired)
  /\ Go(r, "sweeping")
  /\ UNCHANGED <<pending, inFlight, stale, registered, endpoint>>

SweepOn(t) ==
  /\ pc[t] = "sweeping"
  /\ queue[t] # {}
  /\ SweepNext(t, queue[t])
  /\ UNCHANGED <<pending, inFlight, stale, registered, endpoint, pc, kind, target>>

EndTick(t) ==
  /\ pc[t] = "sweeping"
  /\ queue[t] = {}
  /\ Go(t, "idle")
  /\ UNCHANGED <<sessions, pending, inFlight, stale, transport, asked, registered,
                 endpoint, kind, target, queue>>

-----------------------------------------------------------------------------
(* Requests.                                                               *)

\* The request is answered with an error: the endpoint is closed, the session
\* is gone, the body cannot be read, or the capacity is reached.
Refuse(r) ==
  /\ Finish(r)
  /\ UNCHANGED <<sessions, pending, inFlight, stale, transport, asked, registered,
                 endpoint, queue>>

\* useEntry, up to the await of its operation.
UseEntry(r) ==
  /\ inFlight' = [inFlight EXCEPT ![target[r]] = @ + 1]
  /\ stale' = [stale EXCEPT ![target[r]] = FALSE]
  /\ Go(r, "serving")
  /\ UNCHANGED <<sessions, pending, transport, asked, registered, endpoint,
                 kind, target, queue>>

\* entryFor: the session is looked up after the sweep, a POST then waits for
\* its body.
EntryFor(r) ==
  /\ pc[r] = "sweeping"
  /\ queue[r] = {}
  /\ IF Closed \/ target[r] \notin sessions \union {NoEntry}
     THEN Refuse(r)
     ELSE IF kind[r] \in {"initialize", "post"}
     THEN /\ Go(r, "reading")
          /\ UNCHANGED <<sessions, pending, inFlight, stale, transport, asked, registered,
                         endpoint, kind, target, queue>>
     ELSE UseEntry(r)

\* The entry found before the await is used, whatever became of it.
UseAfterBody(r) ==
  /\ pc[r] = "reading"
  /\ kind[r] = "post"
  /\ ~Closed
  /\ UseEntry(r)

\* The body cannot be read, or the endpoint has closed meanwhile.
RefuseBody(r) ==
  /\ pc[r] = "reading"
  /\ Refuse(r)

\* useEntry, after the await.  A DELETE, unless it is refused, has closed its
\* transport, whose onclose deletes the session.
EndUse(r) ==
  LET e == target[r]
  IN  /\ pc[r] = "serving"
      /\ inFlight' = [inFlight EXCEPT ![e] = @ - 1]
      /\ stale' = [stale EXCEPT ![e] = FALSE]
      /\ Finish(r)
      /\ \/ UNCHANGED <<sessions, transport>>
         \/ /\ kind[r] = "delete"
            /\ sessions' = sessions \ {e}
            /\ transport' = [transport EXCEPT ![e] = "closed"]
      /\ UNCHANGED <<pending, asked, registered, endpoint, queue>>

-----------------------------------------------------------------------------
(* Initialization.                                                         *)

\* A mutant of HasRoom that forgets the initializations under way.
HasRoomForSession == Cardinality(sessions) < MaxSessions

\* An entry whose session is registered but not answered counts twice.
HasRoom == Cardinality(sessions) + Cardinality(pending) < MaxSessions

\* The entry is created and reserved without an await after the check.
Admit(r, e) ==
  /\ pc[r] = "reading"
  /\ kind[r] = "initialize"
  /\ ~Closed
  /\ HasRoom
  /\ transport[e] = "unused"
  /\ transport' = [transport EXCEPT ![e] = "new"]
  /\ inFlight' = [inFlight EXCEPT ![e] = 1]
  /\ pending' = pending \union {e}
  /\ target' = [target EXCEPT ![r] = e]
  /\ Go(r, "preparing")
  /\ UNCHANGED <<sessions, stale, asked, registered, endpoint, kind, queue>>

\* server.connect, after the hook.
Connect(r) ==
  /\ pc[r] = "preparing"
  /\ ~Closed
  /\ transport' = [transport EXCEPT ![target[r]] = "open"]
  /\ Go(r, "connecting")
  /\ UNCHANGED <<sessions, pending, inFlight, stale, asked, registered, endpoint,
                 kind, target, queue>>

\* transport.handleRequest
Answer(r) ==
  /\ pc[r] = "connecting"
  /\ ~Closed
  /\ Go(r, "answering")
  /\ UNCHANGED <<sessions, pending, inFlight, stale, transport, asked, registered,
                 endpoint, kind, target, queue>>

\* A mutant of Register that does not look whether the endpoint has closed.
RegisterClosed(r) ==
  /\ pc[r] = "answering"
  /\ target[r] \notin registered
  /\ registered' = registered \union {target[r]}
  /\ stale' = [stale EXCEPT ![target[r]] = FALSE]
  /\ sessions' = sessions \union {target[r]}
  /\ UNCHANGED <<pending, inFlight, transport, asked, endpoint, pc, kind, target, queue>>

\* onsessioninitialized, called while the request is answered.
Register(r) ==
  /\ pc[r] = "answering"
  /\ target[r] \notin registered
  /\ registered' = registered \union {target[r]}
  /\ stale' = [stale EXCEPT ![target[r]] = FALSE]
  /\ sessions' = IF Closed THEN sessions ELSE sessions \union {target[r]}
  /\ UNCHANGED <<pending, inFlight, transport, asked, endpoint, pc, kind, target, queue>>

\* An await fails, or the endpoint has closed: the entry is closed, and with
\* its transport its session.
Abort(r) ==
  /\ pc[r] \in {"preparing", "connecting", "answering"}
  /\ CloseEntries({target[r]})
  /\ sessions' = sessions \ {target[r]}
  /\ Go(r, "aborting")
  /\ UNCHANGED <<pending, inFlight, stale, registered, endpoint, kind, target, queue>>

\* A mutant of Settle that keeps the reservation of an aborted initialization.
SettleAnswered(r) ==
  LET e == target[r]
  IN  /\ pc[r] \in {"answering", "aborting"}
      /\ inFlight' = [inFlight EXCEPT ![e] = @ - 1]
      /\ stale' = [stale EXCEPT ![e] = FALSE]
      /\ pending' = IF pc[r] = "answering" THEN pending \ {e} ELSE pending
      /\ Finish(r)
      /\ UNCHANGED <<sessions, transport, asked, registered, endpoint, queue>>

\* finally
Settle(r) ==
  LET e == target[r]
  IN  /\ pc[r] \in {"answering", "aborting"}
      /\ inFlight' = [inFlight EXCEPT ![e] = @ - 1]
      /\ stale' = [stale EXCEPT ![e] = FALSE]
      /\ pending' = pending \ {e}
      /\ Finish(r)
      /\ UNCHANGED <<sessions, transport, asked, registered, endpoint, queue>>

-----------------------------------------------------------------------------
(* Closing, and the clock.                                                 *)

\* A mutant of Close that leaves initializations to themselves.
CloseSessions ==
  /\ endpoint = "open"
  /\ endpoint' = "closing"
  /\ CloseEntries(sessions)
  /\ sessions' = {}
  /\ UNCHANGED <<pending, inFlight, stale, registered, pc, kind, target, queue>>

\* close, up to the await of the initializations under way.
Close ==
  /\ endpoint = "open"
  /\ endpoint' = "closing"
  /\ CloseEntries(sessions \union pending)
  /\ sessions' = {}
  /\ UNCHANGED <<pending, inFlight, stale, registered, pc, kind, target, queue>>

\* closePromise settles.  (No initialization starts after close.)
EndClose ==
  /\ endpoint = "closing"
  /\ pending = {}
  /\ endpoint' = "closed"
  /\ UNCHANGED <<sessions, pending, inFlight, stale, transport, asked, registered,
                 pc, kind, target, queue>>

\* sessionTtlMs pass since the last use of a session.
Elapse(e) ==
  /\ e \in sessions
  /\ ~stale[e]
  /\ stale' = [stale EXCEPT ![e] = TRUE]
  /\ UNCHANGED <<sessions, pending, inFlight, transport, asked, registered, endpoint,
                 pc, kind, target, queue>>

-----------------------------------------------------------------------------

\* What a request does once its promises settle.
Proceed(r) ==
  \/ SweepOn(r)
  \/ EntryFor(r)
  \/ UseAfterBody(r)
  \/ RefuseBody(r)
  \/ EndUse(r)
  \/ \E e \in Entries : Admit(r, e)
  \/ Connect(r)
  \/ Answer(r)
  \/ Abort(r)
  \/ Settle(r)

Next ==
  \/ \E t \in Timers : Tick(t) \/ SweepOn(t) \/ EndTick(t)
  \/ \E r \in Requests :
       \/ \E k \in Kinds, e \in Entries \union {NoEntry} : Handle(r, k, e)
       \/ Register(r)
       \/ Proceed(r)
  \/ Close
  \/ EndClose
  \/ \E e \in Entries : Elapse(e)

Spec == Init /\ [][Next]_vars

\* Every promise awaited settles.
LiveSpec == Spec /\ WF_vars(EndClose) /\ \A r \in Requests : WF_vars(Proceed(r))

-----------------------------------------------------------------------------
(* Properties.                                                             *)

\* Every variable has its type; no session counter is ever negative.
TypeOK ==
  /\ sessions \subseteq Entries
  /\ pending \subseteq Entries
  /\ asked \subseteq Entries
  /\ registered \subseteq Entries
  /\ inFlight \in [Entries -> Nat]
  /\ stale \in [Entries -> BOOLEAN]
  /\ transport \in [Entries -> {"unused", "new", "open", "closed"}]
  /\ endpoint \in Endpoints
  /\ pc \in [Tasks -> Phases]
  /\ kind \in [Tasks -> Kinds]
  /\ target \in [Tasks -> Entries \union {NoEntry}]
  /\ queue \in [Tasks -> SUBSET Entries]

Users(e) == {r \in Requests : pc[r] \in Initializing \union {"serving"} /\ target[r] = e}

\* entry.inFlight is the number of requests that have the entry in use, through
\* every error path, so that a session nobody uses can always expire.
InFlightIsCounted == \A e \in Entries : inFlight[e] = Cardinality(Users(e))

\* Live sessions and initializations under way never exceed the capacity,
\* however many requests check it at once.
CapacityHeld == Cardinality(sessions \union pending) <= MaxSessions

\* The map holds exactly the sessions whose transport is open: a failed or
\* deleted session leaves no entry behind, and no open one is out of reach of the
\* sweep and of close.
MapIsOpenSessions == sessions = {e \in registered : transport[e] = "open"}

\* Once close has been called no session is in the map, whatever initializations
\* under way do next; once it has settled none of them is left.
ShutdownIsComplete ==
  /\ Closed => sessions = {}
  /\ endpoint = "closed" => pending = {}

\* close settles, although initializations may be at any await when it is
\* called.
CloseSettles == endpoint = "closing" ~> endpoint = "closed"

=============================================================================
