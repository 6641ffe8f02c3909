------------------------- MODULE McpSessionsProofs --------------------------
(***************************************************************************)
(* Theorems about McpSessions, for any number of entries, requests and     *)
(* sweeps, and any capacity.                                               *)
(*                                                                         *)
(* The invariant IInv adds to the properties what a call relies on across  *)
(* its awaits: an initialization alone owns its pending entry and knows    *)
(* its transport, everybody else only touches entries whose session was    *)
(* given out, and what close found pending is not open any more.           *)
(***************************************************************************)
EXTENDS McpSessions, FiniteSetTheorems, TLAPS

-----------------------------------------------------------------------------
(* The inductive invariant.                                                *)

\* The entries of requests: an initialization has its own, which is pending,
\* a request that uses a session has one that was given out.
OneOwner ==
  \A r \in Requests :
    pc[r] \in Initializing =>
      /\ target[r] \in pending
      /\ \A q \in Requests : pc[q] \in Initializing /\ target[q] = target[r] => q = r

UsesRegistered ==
  \A r \in Requests :
    /\ pc[r] = "serving" => target[r] \in registered
    /\ pc[r] \in {"sweeping", "reading"} /\ kind[r] # "initialize" => target[r] \in registered

SweepsRegistered == \A t \in Tasks : queue[t] \subseteq registered

\* What each await of an initialization knows of its transport.
InitializingTransport ==
  \A r \in Requests :
    LET e == target[r]
    IN  /\ pc[r] = "preparing" => /\ transport[e] = "new"
                                  /\ e \notin registered
                                  /\ ~Closed => e \notin asked
        /\ pc[r] = "connecting" => /\ e \notin registered
                                   /\ ~Closed => transport[e] = "open"
        /\ pc[r] = "answering" /\ ~Closed /\ e \notin registered => transport[e] = "open"

UnusedIsUnknown ==
  \A e \in Entries : transport[e] = "unused" => e \notin pending \union registered \union asked

AskedIsNotOpen == \A e \in asked : transport[e] # "open"

ClosedBeforeOpen == Closed => \A e \in pending : transport[e] # "open"

IInv ==
  /\ TypeOK
  /\ InFlightIsCounted
  /\ CapacityHeld
  /\ MapIsOpenSessions
  /\ ShutdownIsComplete
  /\ OneOwner
  /\ UsesRegistered
  /\ SweepsRegistered
  /\ InitializingTransport
  /\ UnusedIsUnknown
  /\ AskedIsNotOpen
  /\ ClosedBeforeOpen

-----------------------------------------------------------------------------
(* What the steps have in common.                                          *)

Using == Initializing \union {"serving"}

\* A request that neither starts nor ends a use leaves the counts right.
LEMMA CountKept ==
  ASSUME InFlightIsCounted, UNCHANGED inFlight,
         \A q \in Requests : /\ pc'[q] \in Using <=> pc[q] \in Using
                             /\ pc[q] \in Using => target'[q] = target[q]
  PROVE  InFlightIsCounted'
<1>1. ASSUME NEW e \in Entries
      PROVE  Users(e)' = Users(e)
  BY DEF Users, Using
<1> QED
  BY <1>1 DEF InFlightIsCounted

\* One that starts to use an entry is counted.
LEMMA CountGained ==
  ASSUME InFlightIsCounted, NEW r \in Requests, NEW e \in Entries,
         inFlight \in [Entries -> Nat],
         inFlight' = [inFlight EXCEPT ![e] = @ + 1],
         pc[r] \notin Using, pc'[r] \in Using, target'[r] = e,
         \A q \in Requests \ {r} : pc'[q] = pc[q] /\ target'[q] = target[q]
  PROVE  InFlightIsCounted'
<1>1. ASSUME NEW d \in Entries
      PROVE  IsFiniteSet(Users(d))
  BY FiniteAssumption, FS_Subset DEF Users
<1>2. Users(e)' = Users(e) \union {r} /\ r \notin Users(e)
  BY DEF Users, Using
<1>3. Cardinality(Users(e)') = Cardinality(Users(e)) + 1
  BY <1>1, <1>2, FS_AddElement
<1>4. ASSUME NEW d \in Entries, d # e
      PROVE  Users(d)' = Users(d)
  BY <1>4 DEF Users, Using
<1> QED
  BY <1>3, <1>4 DEF InFlightIsCounted

\* One that ends its use is not counted any more, and its count was positive.
LEMMA CountLost ==
  ASSUME InFlightIsCounted, NEW r \in Requests, NEW e \in Entries,
         inFlight \in [Entries -> Nat],
         inFlight' = [inFlight EXCEPT ![e] = @ - 1],
         pc[r] \in Using, pc'[r] \notin Using, target[r] = e,
         \A q \in Requests \ {r} : pc'[q] = pc[q] /\ target'[q] = target[q]
  PROVE  InFlightIsCounted' /\ inFlight' \in [Entries -> Nat]
<1>1. ASSUME NEW d \in Entries
      PROVE  IsFiniteSet(Users(d))
  BY FiniteAssumption, FS_Subset DEF Users
<1>2. Users(e)' = Users(e) \ {r} /\ r \in Users(e)
  BY DEF Users, Using
<1>3. Cardinality(Users(e)') = Cardinality(Users(e)) - 1
  BY <1>1, <1>2, FS_RemoveElement
<1>4. Cardinality(Users(e)') \in Nat
  BY <1>1, <1>2, FS_CardinalityType, FS_RemoveElement
<1>5. ASSUME NEW d \in Entries, d # e
      PROVE  Users(d)' = Users(d)
  BY <1>5 DEF Users, Using
<1>6. InFlightIsCounted'
  BY <1>3, <1>5 DEF InFlightIsCounted
<1> QED
  BY <1>3, <1>4, <1>6 DEF InFlightIsCounted

\* No step but an admission takes more of the capacity.
LEMMA CapacityKept ==
  ASSUME TypeOK, CapacityHeld,
         sessions' \union pending' \subseteq sessions \union pending
  PROVE  CapacityHeld'
<1>1. IsFiniteSet(sessions \union pending)
  BY FiniteAssumption, FS_Subset DEF TypeOK
<1>2. IsFiniteSet(sessions' \union pending')
  BY <1>1, FS_Subset
<1>3. Cardinality(sessions' \union pending') <= Cardinality(sessions \union pending)
  BY <1>1, FS_Subset
<1> QED
  BY <1>1, <1>2, <1>3, CapacityAssumption, FS_CardinalityType DEF CapacityHeld

\* closeEntry for entries whose session is taken off the map.
LEMMA ClosingKeeps ==
  ASSUME IInv, NEW E \in SUBSET Entries, CloseEntries(E), sessions' = sessions \ E,
         UNCHANGED <<pending, registered>>, Closed => Closed',
         \A e \in E : transport[e] # "unused",
         Closed' => Closed \/ pending \subseteq E
  PROVE  /\ MapIsOpenSessions'
         /\ AskedIsNotOpen'
         /\ UnusedIsUnknown'
         /\ ClosedBeforeOpen'
         /\ transport' \in [Entries -> {"unused", "new", "open", "closed"}]
         /\ asked' \subseteq Entries
         /\ \A e \in Entries \ E : transport'[e] = transport[e] /\ (e \in asked' <=> e \in asked)
<1> USE DEF IInv, CloseEntries
<1>1. /\ transport' \in [Entries -> {"unused", "new", "open", "closed"}]
      /\ asked' \subseteq Entries
      /\ \A e \in Entries : transport'[e] = IF e \in E /\ e \notin asked /\ transport[e] = "open"
                                          THEN "closed" ELSE transport[e]
  BY DEF TypeOK
<1>2. MapIsOpenSessions'
  BY <1>1 DEF TypeOK, MapIsOpenSessions, AskedIsNotOpen
<1>3. AskedIsNotOpen'
  BY <1>1 DEF TypeOK, AskedIsNotOpen
<1>4. UnusedIsUnknown'
  BY <1>1 DEF TypeOK, UnusedIsUnknown
<1>5. ClosedBeforeOpen'
  BY <1>1 DEF TypeOK, ClosedBeforeOpen, AskedIsNotOpen
<1> QED
  BY <1>1, <1>2, <1>3, <1>4, <1>5

\* A step that leaves the entries alone.
LEMMA EntriesKept ==
  ASSUME IInv, UNCHANGED <<sessions, pending, transport, asked, registered, endpoint>>
  PROVE  /\ CapacityHeld' /\ MapIsOpenSessions' /\ ShutdownIsComplete'
         /\ UnusedIsUnknown' /\ AskedIsNotOpen' /\ ClosedBeforeOpen'
BY DEF IInv, CapacityHeld, MapIsOpenSessions, ShutdownIsComplete, UnusedIsUnknown,
       AskedIsNotOpen, ClosedBeforeOpen, Closed

\* A task that moves outside initializations and uses.
LEMMA MoveKeeps ==
  ASSUME IInv, NEW t \in Tasks, NEW phase \in {"idle", "sweeping", "reading"},
         pc[t] \in {"sweeping", "reading"}, Go(t, phase),
         UNCHANGED <<kind, target>> \/ Finish(t),
         UNCHANGED <<sessions, pending, inFlight, stale, transport, asked, registered,
                     endpoint, queue>>
  PROVE  IInv'
<1> USE DEF IInv, Go
<1>1. TypeOK'
  BY DEF TypeOK, Phases, Finish, Kinds
<1>2. \A q \in Tasks : q # t => pc'[q] = pc[q] /\ target'[q] = target[q] /\ kind'[q] = kind[q]
  BY DEF TypeOK, Finish
<1>3. pc'[t] \in {"idle", "sweeping", "reading"}
  BY DEF TypeOK
<1>4. pc'[t] # "idle" => target'[t] = target[t] /\ kind'[t] = kind[t]
  BY DEF TypeOK, Finish
<1>5. InFlightIsCounted'
  <2>1. \A q \in Requests : /\ pc'[q] \in Using <=> pc[q] \in Using
                            /\ pc[q] \in Using => target'[q] = target[q]
    BY <1>2, <1>3 DEF TypeOK, Tasks, Using, Initializing
  <2> QED
    BY <2>1, CountKept
<1>6. OneOwner'
  BY <1>2, <1>3 DEF TypeOK, Tasks, OneOwner, Initializing
<1>7. UsesRegistered'
  BY <1>2, <1>3, <1>4 DEF TypeOK, Tasks, UsesRegistered
<1>8. SweepsRegistered'
  BY DEF SweepsRegistered
<1>9. InitializingTransport'
  BY <1>2, <1>3 DEF TypeOK, Tasks, InitializingTransport, Closed
<1> QED
  BY <1>1, <1>5, <1>6, <1>7, <1>8, <1>9, EntriesKept

\* A round of a sweep, over entries that were given out.
LEMMA RoundKeeps ==
  ASSUME IInv, NEW t \in Tasks, NEW list \in SUBSET registered, SweepNext(t, list),
         UNCHANGED <<pending, registered, endpoint>>
  PROVE  /\ sessions' \subseteq sessions
         /\ CapacityHeld' /\ MapIsOpenSessions' /\ ShutdownIsComplete'
         /\ UnusedIsUnknown' /\ AskedIsNotOpen' /\ ClosedBeforeOpen'
         /\ SweepsRegistered'
         /\ transport' \in [Entries -> {"unused", "new", "open", "closed"}]
         /\ asked' \subseteq Entries
         /\ queue' \in [Tasks -> SUBSET Entries]
         /\ \A e \in Entries \ registered :
              transport'[e] = transport[e] /\ (e \in asked' <=> e \in asked)
<1>1. CASE list = {} /\ queue' = [queue EXCEPT ![t] = {}] /\ UNCHANGED <<sessions, asked, transport>>
  <2>1. queue' \in [Tasks -> SUBSET Entries] /\ SweepsRegistered'
    BY <1>1 DEF IInv, TypeOK, SweepsRegistered
  <2> QED
    BY <1>1, <2>1, EntriesKept DEF IInv, TypeOK
<1>2. ASSUME NEW e \in list,
             sessions' = sessions \ {e},
             CloseEntries({e}), queue' = [queue EXCEPT ![t] = list \ {e}]
      PROVE  /\ sessions' \subseteq sessions
             /\ CapacityHeld' /\ MapIsOpenSessions' /\ ShutdownIsComplete'
             /\ UnusedIsUnknown' /\ AskedIsNotOpen' /\ ClosedBeforeOpen'
             /\ SweepsRegistered'
             /\ transport' \in [Entries -> {"unused", "new", "open", "closed"}]
             /\ asked' \subseteq Entries
             /\ queue' \in [Tasks -> SUBSET Entries]
             /\ \A d \in Entries \ registered :
                  transport'[d] = transport[d] /\ (d \in asked' <=> d \in asked)
  <2>1. e \in Entries /\ transport[e] # "unused"
    BY <1>2 DEF IInv, TypeOK, UnusedIsUnknown
  <2>2. Closed' <=> Closed
    BY DEF Closed
  <2>3. /\ MapIsOpenSessions' /\ AskedIsNotOpen' /\ UnusedIsUnknown' /\ ClosedBeforeOpen'
        /\ transport' \in [Entries -> {"unused", "new", "open", "closed"}]
        /\ asked' \subseteq Entries
        /\ \A d \in Entries \ {e} : transport'[d] = transport[d] /\ (d \in asked' <=> d \in asked)
    BY <1>2, <2>1, <2>2, ClosingKeeps
  <2>4. CapacityHeld'
    BY <1>2, CapacityKept DEF IInv
  <2>5. ShutdownIsComplete'
    BY <1>2, <2>2 DEF IInv, ShutdownIsComplete
  <2>6. SweepsRegistered' /\ queue' \in [Tasks -> SUBSET Entries]
    BY <1>2 DEF IInv, TypeOK, SweepsRegistered
  <2> QED
    BY <1>2, <2>3, <2>4, <2>5, <2>6
<1> QED
  BY <1>1, <1>2 DEF SweepNext

\* Steps of others that touch only entries given out leave an initialization
\* what it knows.
LEMMA InitializationsKept ==
  ASSUME IInv, UNCHANGED <<registered, endpoint>>,
         \A e \in Entries \ registered :
           transport'[e] = transport[e] /\ (e \in asked' <=> e \in asked),
         \A r \in Requests :
           pc'[r] \in Initializing => pc'[r] = pc[r] /\ target'[r] = target[r]
  PROVE  InitializingTransport'
BY DEF IInv, InitializingTransport, OneOwner, TypeOK, Initializing, Closed

-----------------------------------------------------------------------------
(* The actions.                                                            *)

LEMMA ExpiredIsRegistered ==
  ASSUME IInv
  PROVE  Expired \subseteq registered
BY DEF IInv, Expired, MapIsOpenSessions

LEMMA TickKeeps ==
  ASSUME IInv, NEW t \in Timers, Tick(t)
  PROVE  IInv'
<1> USE DEF IInv, Tick, Go
<1>1. t \in Tasks /\ Expired \subseteq registered
  BY ExpiredIsRegistered DEF Tasks
<1>2. /\ CapacityHeld' /\ MapIsOpenSessions' /\ ShutdownIsComplete'
      /\ UnusedIsUnknown' /\ AskedIsNotOpen' /\ ClosedBeforeOpen' /\ SweepsRegistered'
  BY <1>1, RoundKeeps
<1>3. TypeOK'
  <2>1. /\ sessions' \subseteq sessions /\ asked' \subseteq Entries
        /\ transport' \in [Entries -> {"unused", "new", "open", "closed"}]
        /\ queue' \in [Tasks -> SUBSET Entries]
    BY <1>1, RoundKeeps
  <2> QED
    BY <1>1, <2>1 DEF TypeOK, Phases
<1>4. \A r \in Requests : pc'[r] = pc[r]
  BY <1>1, TasksAssumption DEF TypeOK
<1>5. InFlightIsCounted'
  BY <1>4, CountKept
<1>6. OneOwner' /\ UsesRegistered'
  BY <1>4 DEF OneOwner, UsesRegistered
<1>7. InitializingTransport'
  <2>1. \A e \in Entries \ registered : transport'[e] = transport[e] /\ (e \in asked' <=> e \in asked)
    BY <1>1, RoundKeeps
  <2> QED
    BY <1>4, <2>1, InitializationsKept
<1> QED
  BY <1>2, <1>3, <1>5, <1>6, <1>7

LEMMA SweepOnKeeps ==
  ASSUME IInv, NEW t \in Tasks, SweepOn(t)
  PROVE  IInv'
<1> USE DEF IInv, SweepOn
<1>1. queue[t] \subseteq registered
  BY DEF SweepsRegistered
<1>2. /\ CapacityHeld' /\ MapIsOpenSessions' /\ ShutdownIsComplete'
      /\ UnusedIsUnknown' /\ AskedIsNotOpen' /\ ClosedBeforeOpen' /\ SweepsRegistered'
  BY <1>1, RoundKeeps
<1>3. TypeOK'
  <2>1. /\ sessions' \subseteq sessions /\ asked' \subseteq Entries
        /\ transport' \in [Entries -> {"unused", "new", "open", "closed"}]
        /\ queue' \in [Tasks -> SUBSET Entries]
    BY <1>1, RoundKeeps
  <2> QED
    BY <2>1 DEF TypeOK
<1>4. InFlightIsCounted'
  BY CountKept
<1>5. OneOwner' /\ UsesRegistered'
  BY DEF OneOwner, UsesRegistered
<1>6. InitializingTransport'
  <2>1. \A e \in Entries \ registered : transport'[e] = transport[e] /\ (e \in asked' <=> e \in asked)
    BY <1>1, RoundKeeps
  <2> QED
    BY <2>1, InitializationsKept
<1> QED
  BY <1>2, <1>3, <1>4, <1>5, <1>6

LEMMA HandleKeeps ==
  ASSUME IInv, NEW r \in Requests, NEW k \in Kinds, NEW d \in Entries \union {NoEntry},
         Handle(r, k, d)
  PROVE  IInv'
<1> USE DEF IInv, Handle, Go
<1>1. r \in Tasks /\ Expired \subseteq registered
  BY ExpiredIsRegistered DEF Tasks
<1>2. /\ CapacityHeld' /\ MapIsOpenSessions' /\ ShutdownIsComplete'
      /\ UnusedIsUnknown' /\ AskedIsNotOpen' /\ ClosedBeforeOpen' /\ SweepsRegistered'
  BY <1>1, RoundKeeps
<1>3. TypeOK'
  <2>1. /\ sessions' \subseteq sessions /\ asked' \subseteq Entries
        /\ transport' \in [Entries -> {"unused", "new", "open", "closed"}]
        /\ queue' \in [Tasks -> SUBSET Entries]
    BY <1>1, RoundKeeps
  <2> QED
    BY <1>1, <2>1 DEF TypeOK, Phases
<1>4. /\ pc[r] = "idle" /\ pc'[r] = "sweeping" /\ kind'[r] = k /\ target'[r] = d
      /\ \A q \in Requests \ {r} : pc'[q] = pc[q] /\ kind'[q] = kind[q] /\ target'[q] = target[q]
  BY <1>1 DEF TypeOK, Tasks
<1>5. InFlightIsCounted'
  BY <1>4, CountKept DEF Using, Initializing
<1>6. OneOwner'
  BY <1>4 DEF OneOwner, Initializing
<1>7. UsesRegistered'
  BY <1>4 DEF UsesRegistered
<1>8. InitializingTransport'
  <2>1. \A e \in Entries \ registered : transport'[e] = transport[e] /\ (e \in asked' <=> e \in asked)
    BY <1>1, RoundKeeps
  <2> QED
    BY <1>4, <2>1, InitializationsKept DEF Initializing
<1> QED
  BY <1>2, <1>3, <1>5, <1>6, <1>7, <1>8

\* A request that starts to use a session it was given.
LEMMA UseKeeps ==
  ASSUME IInv, NEW r \in Requests, pc[r] \in {"sweeping", "reading"},
         target[r] \in registered, UseEntry(r)
  PROVE  IInv'
<1> USE DEF IInv, UseEntry, Go
<1>1. r \in Tasks /\ target[r] \in Entries
  BY DEF Tasks, TypeOK
<1>2. /\ pc'[r] = "serving"
      /\ \A q \in Requests \ {r} : pc'[q] = pc[q]
  BY <1>1 DEF TypeOK, Tasks
<1>3. TypeOK'
  BY <1>1 DEF TypeOK, Phases
<1>4. InFlightIsCounted'
  <2>1. pc[r] \notin Using /\ pc'[r] \in Using
    BY <1>2 DEF Using, Initializing
  <2> QED
    BY <1>1, <1>2, <2>1, CountGained DEF TypeOK
<1>5. OneOwner' /\ UsesRegistered' /\ SweepsRegistered'
  BY <1>2 DEF OneOwner, UsesRegistered, SweepsRegistered, Initializing
<1>6. InitializingTransport'
  BY <1>2, InitializationsKept DEF Initializing
<1> QED
  BY <1>3, <1>4, <1>5, <1>6, EntriesKept

LEMMA EntryForKeeps ==
  ASSUME IInv, NEW r \in Requests, EntryFor(r)
  PROVE  IInv'
<1>1. r \in Tasks /\ pc[r] = "sweeping"
  BY DEF Tasks, EntryFor
<1>2. CASE Refuse(r)
  BY <1>1, <1>2, MoveKeeps DEF Refuse, Finish
<1>3. CASE /\ Go(r, "reading")
           /\ UNCHANGED <<sessions, pending, inFlight, stale, transport, asked, registered,
                         endpoint, kind, target, queue>>
  BY <1>1, <1>3, MoveKeeps
<1>4. CASE kind[r] \notin {"initialize", "post"} /\ UseEntry(r)
  <2>1. target[r] \in registered
    BY <1>1, <1>4 DEF IInv, UsesRegistered
  <2> QED
    BY <1>1, <1>4, <2>1, UseKeeps
<1> QED
  BY <1>2, <1>3, <1>4 DEF EntryFor

LEMMA EndUseKeeps ==
  ASSUME IInv, NEW r \in Requests, EndUse(r)
  PROVE  IInv'
<1> USE DEF IInv, Go, Finish
<1> DEFINE e == target[r]
<1>1. /\ pc[r] = "serving" /\ e \in registered /\ r \in Tasks /\ e \in Entries
  BY DEF EndUse, UsesRegistered, TypeOK, Tasks
<1>2. /\ pc'[r] = "idle"
      /\ \A q \in Requests \ {r} : pc'[q] = pc[q] /\ target'[q] = target[q] /\ kind'[q] = kind[q]
      /\ UNCHANGED <<pending, asked, registered, endpoint, queue>>
  BY <1>1 DEF EndUse, TypeOK, Tasks
<1>3. InFlightIsCounted' /\ inFlight' \in [Entries -> Nat]
  <2>1. pc[r] \in Using /\ pc'[r] \notin Using
    BY <1>1, <1>2 DEF Using, Initializing
  <2> QED
    BY <1>1, <1>2, <2>1, CountLost DEF TypeOK, EndUse
<1>4. \/ UNCHANGED <<sessions, transport>>
      \/ sessions' = sessions \ {e} /\ transport' = [transport EXCEPT ![e] = "closed"]
  BY DEF EndUse
<1>5. TypeOK'
  BY <1>1, <1>2, <1>3, <1>4 DEF TypeOK, Phases, Kinds, EndUse
<1>6. CapacityHeld'
  BY <1>2, <1>4, CapacityKept
<1>7. MapIsOpenSessions' /\ ShutdownIsComplete' /\ UnusedIsUnknown' /\ AskedIsNotOpen' /\ ClosedBeforeOpen'
  BY <1>1, <1>2, <1>4 DEF TypeOK, MapIsOpenSessions, ShutdownIsComplete, UnusedIsUnknown,
       AskedIsNotOpen, ClosedBeforeOpen, Closed
<1>8. OneOwner' /\ UsesRegistered' /\ SweepsRegistered'
  BY <1>2 DEF OneOwner, UsesRegistered, SweepsRegistered, Initializing
<1>9. InitializingTransport'
  BY <1>1, <1>2, <1>4, InitializationsKept DEF Initializing, TypeOK
<1> QED
  BY <1>3, <1>5, <1>6, <1>7, <1>8, <1>9

\* The admission of an entry nobody knows: two sets of which the larger grows by
\* one element that fits.
LEMMA AdmitKeepsCapacity ==
  ASSUME IInv, NEW e \in Entries, HasRoom, pending' = pending \union {e}, UNCHANGED sessions
  PROVE  CapacityHeld'
<1>1. IsFiniteSet(sessions) /\ IsFiniteSet(pending)
  BY FiniteAssumption, FS_Subset DEF IInv, TypeOK
<1>2. /\ IsFiniteSet(pending')
      /\ Cardinality(pending') <= Cardinality(pending) + 1
  <2>1. /\ IsFiniteSet(pending')
        /\ \/ Cardinality(pending') = Cardinality(pending)
           \/ Cardinality(pending') = Cardinality(pending) + 1
    BY <1>1, FS_AddElement
  <2>2. Cardinality(pending) \in Nat
    BY <1>1, FS_CardinalityType
  <2> QED
    BY <2>1, <2>2
<1>3. Cardinality(sessions \union pending') <= Cardinality(sessions) + Cardinality(pending')
  <2>1. Cardinality(sessions \intersect pending') \in Nat
    BY <1>1, FS_Intersection, FS_CardinalityType
  <2>2. Cardinality(sessions \union pending') = Cardinality(sessions) + Cardinality(pending')
                                                - Cardinality(sessions \intersect pending')
    BY <1>1, <1>2, FS_Union
  <2> QED
    BY <1>1, <1>2, <2>1, <2>2, FS_CardinalityType
<1>4. Cardinality(sessions \union pending') \in Nat
  BY <1>1, <1>2, FS_Union, FS_CardinalityType
<1> QED
  BY <1>1, <1>2, <1>3, <1>4, CapacityAssumption, FS_CardinalityType DEF HasRoom, CapacityHeld

LEMMA AdmitKeeps ==
  ASSUME IInv, NEW r \in Requests, NEW e \in Entries, Admit(r, e)
  PROVE  IInv'
<1> USE DEF IInv, Go
<1>1. /\ r \in Tasks /\ pc[r] = "reading" /\ ~Closed /\ transport[e] = "unused"
      /\ e \notin pending /\ e \notin registered /\ e \notin asked
  BY DEF Tasks, Admit, UnusedIsUnknown
<1>2. /\ pc'[r] = "preparing" /\ target'[r] = e /\ kind[r] = "initialize"
      /\ \A q \in Requests \ {r} : pc'[q] = pc[q] /\ target'[q] = target[q]
      /\ transport' = [transport EXCEPT ![e] = "new"] /\ pending' = pending \union {e}
      /\ UNCHANGED <<sessions, stale, asked, registered, endpoint, kind, queue>>
  BY <1>1 DEF Admit, TypeOK, Tasks
<1>3. TypeOK'
  BY <1>1, <1>2 DEF TypeOK, Phases, Initializing, Admit
<1>4. InFlightIsCounted'
  <2>1. Users(e) = {}
    BY <1>1 DEF Users, OneOwner, UsesRegistered
  <2>2. inFlight[e] = 0
    BY <2>1, FS_EmptySet DEF InFlightIsCounted
  <2>3. inFlight' = [inFlight EXCEPT ![e] = @ + 1]
    BY <2>2 DEF Admit
  <2>4. pc[r] \notin Using /\ pc'[r] \in Using
    BY <1>1, <1>2 DEF Using, Initializing
  <2> QED
    BY <1>2, <2>3, <2>4, CountGained DEF TypeOK
<1>5. CapacityHeld'
  BY AdmitKeepsCapacity DEF Admit
<1>6. MapIsOpenSessions' /\ ShutdownIsComplete'
  BY <1>1, <1>2 DEF TypeOK, MapIsOpenSessions, ShutdownIsComplete, Closed
<1>7. UnusedIsUnknown' /\ AskedIsNotOpen' /\ ClosedBeforeOpen'
  BY <1>1, <1>2 DEF TypeOK, UnusedIsUnknown, AskedIsNotOpen, ClosedBeforeOpen, Closed
<1>8. OneOwner'
  BY <1>1, <1>2 DEF OneOwner
<1>9. UsesRegistered' /\ SweepsRegistered'
  BY <1>2 DEF UsesRegistered, SweepsRegistered
<1>10. InitializingTransport'
  BY <1>1, <1>2 DEF InitializingTransport, OneOwner, Initializing, TypeOK, Closed
<1> QED
  BY <1>3, <1>4, <1>5, <1>6, <1>7, <1>8, <1>9, <1>10

LEMMA ConnectKeeps ==
  ASSUME IInv, NEW r \in Requests, Connect(r)
  PROVE  IInv'
<1> USE DEF IInv, Go
<1> DEFINE e == target[r]
<1>1. /\ r \in Tasks /\ pc[r] = "preparing" /\ ~Closed
      /\ e \in pending /\ e \in Entries /\ transport[e] = "new"
      /\ e \notin registered /\ e \notin asked
  BY DEF Tasks, Connect, OneOwner, TypeOK, Initializing, InitializingTransport
<1>2. /\ pc'[r] = "connecting"
      /\ \A q \in Requests \ {r} : pc'[q] = pc[q]
      /\ transport' = [transport EXCEPT ![e] = "open"]
      /\ UNCHANGED <<sessions, pending, inFlight, stale, asked, registered, endpoint,
                     kind, target, queue>>
  BY <1>1 DEF Connect, TypeOK, Tasks
<1>3. TypeOK'
  BY <1>1, <1>2 DEF TypeOK, Phases, Initializing, Connect
<1>4. InFlightIsCounted'
  BY <1>1, <1>2, CountKept DEF Using, Initializing
<1>5. CapacityHeld'
  BY <1>2, CapacityKept
<1>6. MapIsOpenSessions' /\ ShutdownIsComplete'
  BY <1>1, <1>2 DEF TypeOK, MapIsOpenSessions, ShutdownIsComplete, Closed
<1>7. UnusedIsUnknown' /\ AskedIsNotOpen' /\ ClosedBeforeOpen'
  BY <1>1, <1>2 DEF TypeOK, UnusedIsUnknown, AskedIsNotOpen, ClosedBeforeOpen, Closed
<1>8. OneOwner' /\ UsesRegistered' /\ SweepsRegistered'
  BY <1>1, <1>2 DEF OneOwner, UsesRegistered, SweepsRegistered, Initializing
<1>9. InitializingTransport'
  BY <1>1, <1>2 DEF InitializingTransport, OneOwner, Initializing, TypeOK, Closed
<1> QED
  BY <1>3, <1>4, <1>5, <1>6, <1>7, <1>8, <1>9

LEMMA AnswerKeeps ==
  ASSUME IInv, NEW r \in Requests, Answer(r)
  PROVE  IInv'
<1> USE DEF IInv, Answer, Go
<1>1. /\ pc[r] = "connecting" /\ pc'[r] = "answering" /\ r \in Tasks
      /\ \A q \in Requests \ {r} : pc'[q] = pc[q]
  BY DEF TypeOK, Tasks
<1>2. TypeOK'
  BY <1>1 DEF TypeOK, Phases, Initializing
<1>3. InFlightIsCounted'
  BY <1>1, CountKept DEF Using, Initializing
<1>4. OneOwner' /\ UsesRegistered' /\ SweepsRegistered'
  BY <1>1 DEF OneOwner, UsesRegistered, SweepsRegistered, Initializing
<1>5. InitializingTransport'
  BY <1>1 DEF InitializingTransport, Closed
<1> QED
  BY <1>2, <1>3, <1>4, <1>5, EntriesKept

LEMMA RegisterKeeps ==
  ASSUME IInv, NEW r \in Requests, Register(r)
  PROVE  IInv'
<1> USE DEF IInv
<1> DEFINE e == target[r]
<1>1. /\ pc[r] = "answering" /\ e \in pending /\ e \in Entries /\ e \notin registered
      /\ ~Closed => transport[e] = "open"
      /\ Closed => transport[e] # "open"
  BY DEF Register, OneOwner, TypeOK, Initializing, InitializingTransport, ClosedBeforeOpen
<1>2. /\ registered' = registered \union {e}
      /\ sessions' = IF Closed THEN sessions ELSE sessions \union {e}
      /\ UNCHANGED <<pending, inFlight, transport, asked, endpoint, pc, kind, target, queue>>
  BY DEF Register
<1>3. TypeOK'
  BY <1>1, <1>2 DEF TypeOK, Register
<1>4. InFlightIsCounted'
  BY <1>2, CountKept
<1>5. CapacityHeld'
  <2>1. sessions' \union pending' \subseteq sessions \union pending
    BY <1>1, <1>2
  <2> QED
    BY <2>1, CapacityKept
<1>6. MapIsOpenSessions' /\ ShutdownIsComplete'
  BY <1>1, <1>2 DEF MapIsOpenSessions, ShutdownIsComplete, Closed
<1>7. UnusedIsUnknown' /\ AskedIsNotOpen' /\ ClosedBeforeOpen'
  BY <1>1, <1>2 DEF UnusedIsUnknown, AskedIsNotOpen, ClosedBeforeOpen, Closed
<1>8. OneOwner' /\ UsesRegistered' /\ SweepsRegistered'
  BY <1>2 DEF OneOwner, UsesRegistered, SweepsRegistered
<1>9. InitializingTransport'
  BY <1>1, <1>2 DEF InitializingTransport, OneOwner, Initializing, Closed
<1> QED
  BY <1>3, <1>4, <1>5, <1>6, <1>7, <1>8, <1>9

LEMMA AbortKeeps ==
  ASSUME IInv, NEW r \in Requests, Abort(r)
  PROVE  IInv'
<1> USE DEF IInv, Go
<1> DEFINE e == target[r]
<1>1. /\ pc[r] \in {"preparing", "connecting", "answering"} /\ r \in Tasks
      /\ e \in pending /\ e \in Entries /\ transport[e] # "unused"
  BY DEF Abort, Tasks, OneOwner, TypeOK, Initializing, UnusedIsUnknown
<1>2. /\ pc'[r] = "aborting"
      /\ \A q \in Requests \ {r} : pc'[q] = pc[q]
      /\ CloseEntries({e}) /\ sessions' = sessions \ {e}
      /\ UNCHANGED <<pending, inFlight, stale, registered, endpoint, kind, target, queue>>
  BY <1>1 DEF Abort, TypeOK, Tasks
<1>3. Closed' <=> Closed
  BY <1>2 DEF Closed
<1>4. /\ MapIsOpenSessions' /\ AskedIsNotOpen' /\ UnusedIsUnknown' /\ ClosedBeforeOpen'
      /\ transport' \in [Entries -> {"unused", "new", "open", "closed"}]
      /\ asked' \subseteq Entries
      /\ \A d \in Entries \ {e} : transport'[d] = transport[d] /\ (d \in asked' <=> d \in asked)
  BY <1>1, <1>2, <1>3, ClosingKeeps
<1>5. TypeOK'
  BY <1>1, <1>2, <1>4 DEF TypeOK, Phases, Initializing, Abort
<1>6. InFlightIsCounted'
  BY <1>1, <1>2, CountKept DEF Using, Initializing
<1>7. CapacityHeld'
  BY <1>2, CapacityKept
<1>8. ShutdownIsComplete'
  BY <1>2, <1>3 DEF ShutdownIsComplete
<1>9. OneOwner' /\ UsesRegistered' /\ SweepsRegistered'
  BY <1>1, <1>2 DEF OneOwner, UsesRegistered, SweepsRegistered, Initializing
<1>10. InitializingTransport'
  <2>1. ASSUME NEW q \in Requests \ {r}, pc[q] \in Initializing
        PROVE  target[q] \in Entries \ {e}
    BY <1>1, <2>1 DEF OneOwner, TypeOK, Initializing
  <2> QED
    BY <1>2, <1>3, <1>4, <2>1 DEF InitializingTransport, Initializing
<1> QED
  BY <1>4, <1>5, <1>6, <1>7, <1>8, <1>9, <1>10

LEMMA SettleKeeps ==
  ASSUME IInv, NEW r \in Requests, Settle(r)
  PROVE  IInv'
<1> USE DEF IInv, Go, Finish
<1> DEFINE e == target[r]
<1>1. /\ pc[r] \in {"answering", "aborting"} /\ r \in Tasks /\ e \in pending /\ e \in Entries
  BY DEF Settle, Tasks, OneOwner, TypeOK, Initializing
<1>2. /\ pc'[r] = "idle"
      /\ \A q \in Requests \ {r} : pc'[q] = pc[q] /\ target'[q] = target[q] /\ kind'[q] = kind[q]
      /\ pending' = pending \ {e}
      /\ UNCHANGED <<sessions, transport, asked, registered, endpoint, queue>>
  BY <1>1 DEF Settle, TypeOK, Tasks
<1>3. InFlightIsCounted' /\ inFlight' \in [Entries -> Nat]
  <2>1. pc[r] \in Using /\ pc'[r] \notin Using
    BY <1>1, <1>2 DEF Using, Initializing
  <2> QED
    BY <1>1, <1>2, <2>1, CountLost DEF TypeOK, Settle
<1>4. TypeOK'
  BY <1>1, <1>2, <1>3 DEF TypeOK, Phases, Kinds, Settle
<1>5. CapacityHeld'
  BY <1>2, CapacityKept
<1>6. MapIsOpenSessions' /\ ShutdownIsComplete' /\ UnusedIsUnknown' /\ AskedIsNotOpen' /\ ClosedBeforeOpen'
  BY <1>2 DEF MapIsOpenSessions, ShutdownIsComplete, UnusedIsUnknown, AskedIsNotOpen,
       ClosedBeforeOpen, Closed
<1>7. OneOwner'
  BY <1>1, <1>2 DEF OneOwner, Initializing
<1>8. UsesRegistered' /\ SweepsRegistered'
  BY <1>2 DEF UsesRegistered, SweepsRegistered
<1>9. InitializingTransport'
  BY <1>2, InitializationsKept DEF Initializing
<1> QED
  BY <1>3, <1>4, <1>5, <1>6, <1>7, <1>8, <1>9

LEMMA CloseKeeps ==
  ASSUME IInv, Close
  PROVE  IInv'
<1> USE DEF IInv
<1> DEFINE E == sessions \union pending
<1>1. /\ ~Closed /\ Closed' /\ endpoint' = "closing"
      /\ CloseEntries(E) /\ sessions' = {}
      /\ UNCHANGED <<pending, inFlight, stale, registered, pc, kind, target, queue>>
  BY DEF Close, Closed
<1>2. sessions' = sessions \ E
  BY <1>1
<1>3. E \in SUBSET Entries /\ \A e \in E : transport[e] # "unused"
  BY DEF TypeOK, UnusedIsUnknown, MapIsOpenSessions
<1>4. /\ MapIsOpenSessions' /\ AskedIsNotOpen' /\ UnusedIsUnknown' /\ ClosedBeforeOpen'
      /\ transport' \in [Entries -> {"unused", "new", "open", "closed"}]
      /\ asked' \subseteq Entries
  BY <1>1, <1>2, <1>3, ClosingKeeps
<1>5. TypeOK'
  BY <1>1, <1>4 DEF TypeOK, Endpoints
<1>6. InFlightIsCounted'
  BY <1>1, CountKept
<1>7. CapacityHeld'
  BY <1>1, CapacityKept
<1>8. ShutdownIsComplete'
  BY <1>1 DEF ShutdownIsComplete
<1>9. OneOwner' /\ UsesRegistered' /\ SweepsRegistered'
  BY <1>1 DEF OneOwner, UsesRegistered, SweepsRegistered
<1>10. InitializingTransport'
  <2>1. \A e \in Entries : transport[e] = "new" => transport'[e] = "new"
    BY <1>1 DEF CloseEntries
  <2> QED
    BY <1>1, <2>1 DEF InitializingTransport, OneOwner, TypeOK, Initializing
<1> QED
  BY <1>4, <1>5, <1>6, <1>7, <1>8, <1>9, <1>10

LEMMA EndCloseKeeps ==
  ASSUME IInv, EndClose
  PROVE  IInv'
<1> USE DEF IInv, EndClose
<1>1. Closed /\ Closed'
  BY DEF Closed
<1>2. TypeOK'
  BY DEF TypeOK, Endpoints
<1>3. InFlightIsCounted' /\ CapacityHeld'
  BY CountKept, CapacityKept
<1>4. MapIsOpenSessions' /\ ShutdownIsComplete' /\ UnusedIsUnknown' /\ AskedIsNotOpen' /\ ClosedBeforeOpen'
  BY <1>1 DEF MapIsOpenSessions, ShutdownIsComplete, UnusedIsUnknown, AskedIsNotOpen,
       ClosedBeforeOpen
<1>5. OneOwner' /\ UsesRegistered' /\ SweepsRegistered' /\ InitializingTransport'
  BY <1>1 DEF OneOwner, UsesRegistered, SweepsRegistered, InitializingTransport
<1> QED
  BY <1>2, <1>3, <1>4, <1>5

LEMMA ElapseKeeps ==
  ASSUME IInv, NEW e \in Entries, Elapse(e)
  PROVE  IInv'
<1> USE DEF IInv, Elapse
<1>1. TypeOK'
  BY DEF TypeOK
<1>2. InFlightIsCounted'
  BY CountKept
<1>3. OneOwner' /\ UsesRegistered' /\ SweepsRegistered' /\ InitializingTransport'
  BY DEF OneOwner, UsesRegistered, SweepsRegistered, InitializingTransport, Closed
<1> QED
  BY <1>1, <1>2, <1>3, EntriesKept

-----------------------------------------------------------------------------
(* The theorems.                                                           *)

LEMMA InitEstablishes == Init => IInv
<1> SUFFICES ASSUME Init
             PROVE  IInv
  OBVIOUS
<1> USE DEF Init
<1>1. TypeOK
  BY DEF TypeOK, Kinds, Phases, Endpoints
<1>2. \A r \in Requests : pc[r] = "idle"
  BY DEF Tasks
<1>3. InFlightIsCounted
  <2>1. \A e \in Entries : Users(e) = {}
    BY <1>2 DEF Users, Initializing
  <2> QED
    BY <2>1, FS_EmptySet DEF InFlightIsCounted
<1>4. CapacityHeld
  <2>1. sessions \union pending = {}
    OBVIOUS
  <2> QED
    BY <2>1, FS_EmptySet, CapacityAssumption DEF CapacityHeld
<1>5. MapIsOpenSessions /\ ShutdownIsComplete /\ SweepsRegistered
  BY DEF MapIsOpenSessions, ShutdownIsComplete, SweepsRegistered
<1>6. UnusedIsUnknown /\ AskedIsNotOpen /\ ClosedBeforeOpen
  BY DEF UnusedIsUnknown, AskedIsNotOpen, ClosedBeforeOpen
<1>7. OneOwner /\ UsesRegistered /\ InitializingTransport
  BY <1>2 DEF OneOwner, UsesRegistered, InitializingTransport, Initializing
<1> QED
  BY <1>1, <1>3, <1>4, <1>5, <1>6, <1>7 DEF IInv

LEMMA StutterKeeps ==
  ASSUME IInv, UNCHANGED vars
  PROVE  IInv'
<1> USE DEF IInv, vars
<1>1. TypeOK'
  BY DEF TypeOK
<1>2. InFlightIsCounted'
  BY CountKept
<1>3. OneOwner' /\ UsesRegistered' /\ SweepsRegistered' /\ InitializingTransport'
  BY DEF OneOwner, UsesRegistered, SweepsRegistered, InitializingTransport, Closed
<1> QED
  BY <1>1, <1>2, <1>3, EntriesKept

LEMMA ProceedKeeps ==
  ASSUME IInv, NEW r \in Requests, Proceed(r)
  PROVE  IInv'
<1>1. r \in Tasks
  BY DEF Tasks
<1>2. CASE SweepOn(r)
  BY <1>1, <1>2, SweepOnKeeps
<1>3. CASE EntryFor(r)
  BY <1>3, EntryForKeeps
<1>4. CASE UseAfterBody(r)
  <2>1. pc[r] = "reading" /\ target[r] \in registered /\ UseEntry(r)
    BY <1>4 DEF UseAfterBody, IInv, UsesRegistered
  <2> QED
    BY <2>1, UseKeeps
<1>5. CASE RefuseBody(r)
  BY <1>1, <1>5, MoveKeeps DEF RefuseBody, Refuse, Finish
<1>6. CASE EndUse(r)
  BY <1>6, EndUseKeeps
<1>7. CASE \E e \in Entries : Admit(r, e)
  BY <1>7, AdmitKeeps
<1>8. CASE Connect(r)
  BY <1>8, ConnectKeeps
<1>9. CASE Answer(r)
  BY <1>9, AnswerKeeps
<1>10. CASE Abort(r)
  BY <1>10, AbortKeeps
<1>11. CASE Settle(r)
  BY <1>11, SettleKeeps
<1> QED
  BY <1>2, <1>3, <1>4, <1>5, <1>6, <1>7, <1>8, <1>9, <1>10, <1>11 DEF Proceed

\* The inductive invariant: what a request relies on while others run between
\* its awaits.
THEOREM Invariance == Spec => []IInv
<1>1. Init => IInv
  BY InitEstablishes
<1>2. IInv /\ [Next]_vars => IInv'
  <2> SUFFICES ASSUME IInv, [Next]_vars
               PROVE  IInv'
    OBVIOUS
  <2>1. ASSUME NEW t \in Timers, Tick(t) \/ SweepOn(t) \/ EndTick(t)
        PROVE  IInv'
    <3>1. t \in Tasks
      BY DEF Tasks
    <3>2. CASE EndTick(t)
      BY <3>1, <3>2, MoveKeeps DEF EndTick
    <3> QED
      BY <2>1, <3>1, <3>2, TickKeeps, SweepOnKeeps
  <2>2. ASSUME NEW r \in Requests, NEW k \in Kinds, NEW e \in Entries \union {NoEntry},
               Handle(r, k, e)
        PROVE  IInv'
    BY <2>2, HandleKeeps
  <2>3. ASSUME NEW r \in Requests, Register(r) \/ Proceed(r)
        PROVE  IInv'
    BY <2>3, RegisterKeeps, ProceedKeeps
  <2>4. CASE Close \/ EndClose \/ \E e \in Entries : Elapse(e)
    BY <2>4, CloseKeeps, EndCloseKeeps, ElapseKeeps
  <2>5. CASE UNCHANGED vars
    BY <2>5, StutterKeeps
  <2> QED
    BY <2>1, <2>2, <2>3, <2>4, <2>5 DEF Next
<1> QED
  BY <1>1, <1>2, PTL DEF Spec

\* Every variable keeps its type; in particular entry.inFlight never goes below
\* zero, whichever error path a request takes.
THEOREM TypeCorrect == Spec => []TypeOK
<1>1. IInv => TypeOK
  BY DEF IInv
<1> QED
  BY <1>1, Invariance, PTL

\* entry.inFlight is the number of requests that use the entry, for any number
\* of requests.
THEOREM Counting == Spec => []InFlightIsCounted
<1>1. IInv => InFlightIsCounted
  BY DEF IInv
<1> QED
  BY <1>1, Invariance, PTL

\* Sessions and initializations under way never exceed maxSessions, whatever it
\* is and however many requests race for the last place.
THEOREM Capacity == Spec => []CapacityHeld
<1>1. IInv => CapacityHeld
  BY DEF IInv
<1> QED
  BY <1>1, Invariance, PTL

\* The map is exactly the sessions with an open transport: sweeps, deletions,
\* failures and close leave neither a dead entry nor a lost session.
THEOREM MapIsExact == Spec => []MapIsOpenSessions
<1>1. IInv => MapIsOpenSessions
  BY DEF IInv
<1> QED
  BY <1>1, Invariance, PTL

\* No session appears after close was called, and none is being initialized when
\* it has settled.
THEOREM Shutdown == Spec => []ShutdownIsComplete
<1>1. IInv => ShutdownIsComplete
  BY DEF IInv
<1> QED
  BY <1>1, Invariance, PTL

=============================================================================
