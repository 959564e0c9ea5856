----------------------------- MODULE Connectors -----------------------------
(***************************************************************************)
(* One connector: its row, the administrators who change it, the worker's  *)
(* supervisor and the session threads it runs                              *)
(* (backend/app/connectors/runtime.py, services.py).  Sessions of other    *)
(* connectors share nothing with these but the supervisor's loop.  A       *)
(* session slot stands for a thread; a thread that has ended and that the  *)
(* supervisor no longer holds leaves its slot to a later one.              *)
(***************************************************************************)
EXTENDS Integers, FiniteSets

CONSTANTS
  Session,      \* slots for session threads
  Editor,       \* administrators with a request open at once
  Key,          \* metrics and positions the mapping yields
  MaxEdit,      \* bound: changes of configuration ever committed
  MaxDelivery,  \* bound: messages ever delivered to a session
  MaxFault,     \* bound: database calls that fail, joins that time out,
                \* broken broker connections and deaths of the worker
  None          \* no session, no definition

ASSUME SessionAssumption == None \notin Session
ASSUME CountAssumption == MaxEdit \in Nat /\ MaxDelivery \in Nat /\ MaxFault \in Nat

Delivery == 1..MaxDelivery
Version == 1..(MaxEdit + 1)
Revision == 0..MaxEdit
Status == {"connecting", "connected", "error", "disabled"}
(* Where a thread is in run(): "opening" and "connected" are the loop over *)
(* client.loop before and after on_connect; "starting", "greeting",        *)
(* "marking" and "reporting" are status writes between the read of the row *)
(* and the commit; "dead" is a thread that ended on an exception.          *)
Place == {"none", "start", "starting", "opening", "greeting", "connected", "marking",
          "except", "report", "reporting", "backoff", "final", "ended", "dead"}
Row == [version : Version, enabled : BOOLEAN, status : Status]
Definition == [version : Version, revision : Revision]

VARIABLES
  exists, enabled, retired,  \* the connector row, and retired_at of its source
  version,                   \* Connector.config_version
  revision,                  \* which configuration the row and its profile hold
  status,                    \* Connector.status
  editing,                   \* the row an open edit has read, or None
  overlapped,                \* an edit was committed over one it had not read
  supervisor,                \* "idle", "reconcile", "join" or "down"
  definition,                \* what _definitions returned for the connector
  current, built,            \* _sessions[connector_id] and its definition
  at, stopping,              \* a session: its place, _stop
  buffer,                    \* delivery held for each key in the open window
  flushing,                  \* a flush between its reads and its commit
  delivered, keyOf,          \* messages so far, and the key of each
  copies,                    \* samples that hold a delivery
  live,                      \* newest stored delivery of each key
  doubtful,                  \* commits that succeeded but were reported failed
  faults

rowVars == <<exists, enabled, retired, version, revision, status>>
adminVars == <<editing, overlapped>>
supervisorVars == <<supervisor, definition, current, built>>
threadVars == <<at, stopping, buffer, flushing>>
messageVars == <<delivered, keyOf>>
storeVars == <<copies, live, doubtful>>
connectorVars == <<rowVars, adminVars, supervisorVars, threadVars, messageVars,
                   storeVars, faults>>

ConnectorsTypeOK ==
  /\ exists \in BOOLEAN /\ enabled \in BOOLEAN /\ retired \in BOOLEAN
  /\ version \in Version /\ revision \in Revision /\ status \in Status
  /\ editing \in [Editor -> Row \union {None}] /\ overlapped \in BOOLEAN
  /\ supervisor \in {"idle", "reconcile", "join", "down"}
  /\ definition \in Definition \union {None}
  /\ current \in Session \union {None}
  /\ at \in [Session -> Place]
  /\ built \in Definition \union {None}
  /\ stopping \in [Session -> BOOLEAN]
  /\ buffer \in [Session -> [Key -> Delivery \union {0}]]
  /\ flushing \in [Session -> BOOLEAN]
  /\ delivered \in 0..MaxDelivery /\ keyOf \in [Delivery -> Key \union {None}]
  /\ copies \in [Delivery -> Nat] /\ live \in [Key -> Delivery \union {0}]
  /\ doubtful \in 0..MaxFault /\ faults \in 0..MaxFault

NoWindow == [k \in Key |-> 0]
Alive(s) == at[s] \notin {"none", "ended", "dead"}
Running(s) == Alive(s) /\ ~stopping[s]

(* create_connector has committed the connector and its shadow agent.      *)
ConnectorsInit ==
  /\ exists = TRUE /\ enabled = TRUE /\ retired = FALSE
  /\ version = 1 /\ revision = 0 /\ status = "connecting"
  /\ editing = [e \in Editor |-> None] /\ overlapped = FALSE
  /\ supervisor = "idle" /\ definition = None /\ current = None /\ built = None
  /\ at = [s \in Session |-> "none"]
  /\ stopping = [s \in Session |-> FALSE]
  /\ buffer = [s \in Session |-> NoWindow]
  /\ flushing = [s \in Session |-> FALSE]
  /\ delivered = 0 /\ keyOf = [d \in Delivery |-> None]
  /\ copies = [d \in Delivery |-> 0] /\ live = [k \in Key |-> 0]
  /\ doubtful = 0 /\ faults = 0

Fault == faults < MaxFault /\ faults' = faults + 1
NoFault == UNCHANGED faults

-----------------------------------------------------------------------------
(* Administration.                                                         *)

(* connector_is_retired, from the shadow agent.                            *)
Editable == exists /\ ~retired

(* update_connector reads the row, and refuses a retired connector.        *)
BeginEdit(e) ==
  /\ Editable /\ editing[e] = None
  /\ revision < MaxEdit
  /\ editing' = [editing EXCEPT ![e] = [version |-> version, enabled |-> enabled, status |-> status]]
  /\ UNCHANGED <<rowVars, overlapped, supervisorVars, threadVars, messageVars, storeVars, faults>>

(* The ORM writes the columns whose value is not the one it has read.      *)
Column(read, new, stored) == IF new = read THEN stored ELSE new

(* The version written is the version read plus one.  A row that is gone   *)
(* by now fails the request.                                               *)
CommitEdit(e, enable) ==
  LET read == editing[e] IN
  /\ read # None
  /\ editing' = [editing EXCEPT ![e] = None]
  /\ IF exists /\ revision < MaxEdit
     THEN /\ enabled' = Column(read.enabled, enable, enabled)
          /\ status' = Column(read.status, IF enable THEN "connecting" ELSE "disabled", status)
          /\ version' = read.version + 1
          /\ revision' = revision + 1
          /\ overlapped' = (overlapped \/ version # read.version)
          /\ UNCHANGED <<exists, retired>>
     ELSE UNCHANGED <<rowVars, overlapped>>
  /\ UNCHANGED <<supervisorVars, threadVars, messageVars, storeVars, faults>>

(* Mutation only: a profile edit that no connector is told of.             *)
ProfileVersion_kept == version

(* _bump_assigned_connectors adds one in the database.                     *)
ProfileVersion == version + 1

(* update_profile of the mapping profile in use.                           *)
EditProfile ==
  /\ exists /\ revision < MaxEdit
  /\ revision' = revision + 1
  /\ version' = ProfileVersion
  /\ UNCHANGED <<exists, enabled, retired, status, adminVars, supervisorVars, threadVars,
                 messageVars, storeVars, faults>>

retire_connector ==
  /\ exists /\ ~retired
  /\ retired' = TRUE /\ enabled' = FALSE /\ status' = "disabled"
  /\ UNCHANGED <<exists, version, revision, adminVars, supervisorVars, threadVars,
                 messageVars, storeVars, faults>>

(* Nothing of the row remains, and the readings go with the source.        *)
purge_connector ==
  /\ exists
  /\ exists' = FALSE /\ enabled' = FALSE /\ retired' = FALSE
  /\ version' = 1 /\ status' = "disabled"
  /\ copies' = [d \in Delivery |-> 0] /\ live' = [k \in Key |-> 0]
  /\ UNCHANGED <<revision, adminVars, supervisorVars,
                 threadVars, messageVars, doubtful, faults>>

remove_connector == retire_connector \/ purge_connector

-----------------------------------------------------------------------------
(* Status writes.                                                          *)

(* _write_status to its commit: nothing for a row that is gone, "disabled" *)
(* for one that is not enabled, no column when nothing changes.            *)
OpenStatus(s, value, open, next) ==
  IF exists /\ enabled /\ status # value
  THEN at' = [at EXCEPT ![s] = open] /\ UNCHANGED status
  ELSE /\ at' = [at EXCEPT ![s] = next]
       /\ status' = IF exists /\ ~enabled THEN "disabled" ELSE status

(* Its commit, which knows nothing of changes since the read, and fails    *)
(* when the row is gone or the database is.                                *)
CloseStatus(s, value, next, failed) ==
  \/ exists /\ status' = value /\ at' = [at EXCEPT ![s] = next] /\ NoFault
  \/ exists /\ UNCHANGED status /\ at' = [at EXCEPT ![s] = failed] /\ Fault
  \/ ~exists /\ UNCHANGED status /\ at' = [at EXCEPT ![s] = failed] /\ NoFault

StatusFrame == UNCHANGED <<exists, enabled, retired, version, revision, adminVars,
                           supervisorVars, stopping, flushing, messageVars, storeVars>>

-----------------------------------------------------------------------------
(* A session's thread: run.                                                *)

(* The head of the loop.                                                   *)
Attempt(s) ==
  /\ at[s] = "start"
  /\ IF stopping[s]
     THEN at' = [at EXCEPT ![s] = "final"] /\ UNCHANGED status
     ELSE OpenStatus(s, "connecting", "starting", "opening")
  /\ StatusFrame /\ UNCHANGED <<buffer, faults>>

(* client.connect follows; a broker that refuses is Break.                 *)
Started(s) ==
  /\ at[s] = "starting"
  /\ CloseStatus(s, "connecting", "opening", "except")
  /\ StatusFrame /\ UNCHANGED buffer

InLoop(s) == at[s] \in {"opening", "connected"} /\ ~flushing[s]

(* _on_connect.                                                            *)
Greet(s) ==
  /\ InLoop(s) /\ at[s] = "opening"
  /\ OpenStatus(s, "connected", "greeting", "connected")
  /\ StatusFrame /\ UNCHANGED <<buffer, faults>>

(* Mutation only: the status is written when a session connects, and not   *)
(* again.                                                                  *)
Mark_never(s) == FALSE /\ UNCHANGED connectorVars

(* The throttled write of the loop, for as long as it is connected.        *)
Mark(s) ==
  /\ InLoop(s) /\ at[s] = "connected"
  /\ OpenStatus(s, "connected", "marking", "connected")
  /\ StatusFrame /\ UNCHANGED <<buffer, faults>>

Marked(s) ==
  /\ at[s] \in {"greeting", "marking"}
  /\ CloseStatus(s, "connected", "connected", "except")
  /\ StatusFrame /\ UNCHANGED buffer

(* handle_message: the newest value of a key is the one that is kept.      *)
Deliver(s, k) ==
  /\ InLoop(s) /\ at[s] = "connected" /\ delivered < MaxDelivery
  /\ delivered' = delivered + 1
  /\ keyOf' = [keyOf EXCEPT ![delivered + 1] = k]
  /\ buffer' = [buffer EXCEPT ![s][k] = delivered + 1]
  /\ UNCHANGED <<rowVars, adminVars, supervisorVars, at, stopping, flushing, storeVars, faults>>

(* The broker refuses or closes the connection, or a database call in the  *)
(* loop fails.                                                             *)
Break(s) ==
  /\ InLoop(s)
  /\ at' = [at EXCEPT ![s] = "except"]
  /\ Fault
  /\ StatusFrame /\ UNCHANGED <<status, buffer>>

LeaveLoop(s) ==
  /\ InLoop(s) /\ stopping[s]
  /\ at' = [at EXCEPT ![s] = "final"]
  /\ StatusFrame /\ UNCHANGED <<status, buffer, faults>>

(* The write in the except branch is not suppressed: when its read or its  *)
(* commit fails the thread ends.                                           *)
Report(s) ==
  /\ at[s] = "report"
  /\ \/ OpenStatus(s, "error", "reporting", "backoff") /\ NoFault
     \/ at' = [at EXCEPT ![s] = "dead"] /\ UNCHANGED status /\ Fault
  /\ StatusFrame /\ UNCHANGED buffer

Reported(s) ==
  /\ at[s] = "reporting"
  /\ CloseStatus(s, "error", "backoff", "dead")
  /\ StatusFrame /\ UNCHANGED buffer

BackedOff(s) ==
  /\ at[s] = "backoff"
  /\ at' = [at EXCEPT ![s] = IF stopping[s] THEN "final" ELSE "start"]
  /\ StatusFrame /\ UNCHANGED <<status, buffer, faults>>

-----------------------------------------------------------------------------
(* flush: in the loop when the window is over, in the except branch and at *)
(* the end of run by force.                                                *)

HasWindow(s) == buffer[s] # NoWindow

(* Where a flush returns to, and where its exception leads.                *)
Returned(s) == CASE at[s] = "except" -> "report" [] at[s] = "final" -> "ended" [] OTHER -> at[s]
Raised(s) == CASE at[s] = "except" -> "report" [] at[s] = "final" -> "dead" [] OTHER -> "except"
Flushes(s) ==
  /\ at[s] \in {"opening", "connected", "except", "final"}
  /\ HasWindow(s) /\ ~flushing[s]

Sampled(w) == {k \in Key : w[k] # 0}

SkipFlush(s) ==
  /\ at[s] \in {"except", "final"} /\ ~HasWindow(s)
  /\ at' = [at EXCEPT ![s] = Returned(s)]
  /\ StatusFrame /\ UNCHANGED <<status, buffer, faults>>

(* Mutation only: the window is emptied when the sample is built.          *)
BeginFlush_emptied(s) ==
  /\ Flushes(s)
  /\ at' = [at EXCEPT ![s] = IF exists /\ enabled THEN Returned(s) ELSE Raised(s)]
  /\ buffer' = [buffer EXCEPT ![s] = NoWindow]
  /\ UNCHANGED <<rowVars, adminVars, supervisorVars, stopping, flushing,
                 messageVars, storeVars, faults>>

(* The rows are read: a window of a connector that is gone or disabled is  *)
(* dropped, and ingest_batch refuses a retired source.                     *)
BeginFlush(s) ==
  /\ Flushes(s)
  /\ IF exists /\ enabled
     THEN /\ flushing' = [flushing EXCEPT ![s] = ~retired]
          /\ at' = [at EXCEPT ![s] = IF retired THEN Raised(s) ELSE @]
          /\ UNCHANGED buffer
     ELSE /\ buffer' = [buffer EXCEPT ![s] = NoWindow]
          /\ at' = [at EXCEPT ![s] = Returned(s)]
          /\ UNCHANGED flushing
  /\ UNCHANGED <<rowVars, adminVars, supervisorVars, stopping, messageVars,
                 storeVars, faults>>

(* Mutation only: what is stored last is shown, whenever it was observed.  *)
Newest_lastStored(old, new) == new

(* A candidate gives way to a newer observation only.                      *)
Newest(old, new) == IF new > old THEN new ELSE old

Store(w) ==
  /\ copies' = [d \in Delivery |-> IF \E k \in Sampled(w) : w[k] = d THEN copies[d] + 1 ELSE copies[d]]
  /\ live' = [k \in Key |-> IF k \in Sampled(w) THEN Newest(live[k], w[k]) ELSE live[k]]

(* Mutation only: a window that was stored stays open.                     *)
AfterStore_kept(w) == w

(* The window after its sample is stored.                                  *)
AfterStore(w) == NoWindow

(* The commit: it succeeds, fails, or succeeds and is reported failed.  A  *)
(* window whose flush raised is tried again under a new sample id.         *)
EndFlush(s) ==
  /\ flushing[s]
  /\ flushing' = [flushing EXCEPT ![s] = FALSE]
  /\ \/ /\ exists
        /\ Store(buffer[s])
        /\ buffer' = [buffer EXCEPT ![s] = AfterStore(buffer[s])]
        /\ at' = [at EXCEPT ![s] = Returned(s)]
        /\ UNCHANGED doubtful /\ NoFault
     \/ /\ at' = [at EXCEPT ![s] = Raised(s)]
        /\ IF exists THEN Fault ELSE NoFault
        /\ UNCHANGED <<copies, live, buffer, doubtful>>
     \/ /\ exists
        /\ Store(buffer[s])
        /\ at' = [at EXCEPT ![s] = Raised(s)]
        /\ doubtful' = doubtful + 1 /\ Fault
        /\ UNCHANGED buffer
  /\ UNCHANGED <<rowVars, adminVars, supervisorVars, stopping, messageVars>>
-----------------------------------------------------------------------------
(* ConnectorSupervisor.                                                    *)

SupervisorFrame == UNCHANGED <<rowVars, adminVars, messageVars, storeVars>>

(* Mutation only: retirement is left to the enabled flag.                  *)
Wanted_enabled == exists /\ enabled

Wanted == exists /\ enabled /\ ~retired

(* _definitions, in one transaction.                                       *)
ReadDefinitions ==
  /\ supervisor = "idle"
  /\ supervisor' = "reconcile"
  /\ definition' = IF Wanted THEN [version |-> version, revision |-> revision] ELSE None
  /\ SupervisorFrame /\ UNCHANGED <<current, built, threadVars, faults>>

Outdated ==
  /\ current # None
  /\ definition # None => definition.version # built.version

(* Mutation only: the session is let go without being told to stop.        *)
Stopped_unsignalled(S) == stopping

Stopped(S) == [s \in Session |-> stopping[s] \/ s \in S]

StopSession ==
  /\ supervisor = "reconcile" /\ Outdated
  /\ supervisor' = "join"
  /\ stopping' = Stopped({current})
  /\ SupervisorFrame
  /\ UNCHANGED <<definition, current, built, at, buffer, flushing, faults>>

(* join(5) returns when the thread has ended, or after five seconds.       *)
JoinSession ==
  /\ supervisor = "join"
  /\ IF Alive(current) THEN Fault ELSE NoFault
  /\ supervisor' = "reconcile"
  /\ current' = None /\ built' = None
  /\ SupervisorFrame /\ UNCHANGED <<definition, threadVars>>

Slots == {s \in Session : ~Alive(s)}
Slot == CHOOSE s \in Slots : TRUE

(* A session is built only for a connector that has none.                  *)
StartSession ==
  /\ supervisor = "reconcile"
  /\ current = None /\ definition # None
  /\ Slots # {}
  /\ current' = Slot /\ built' = definition
  /\ at' = [at EXCEPT ![Slot] = "start"]
  /\ stopping' = [stopping EXCEPT ![Slot] = FALSE]
  /\ buffer' = [buffer EXCEPT ![Slot] = NoWindow]
  /\ SupervisorFrame /\ UNCHANGED <<supervisor, definition, flushing, faults>>

EndReconcile ==
  /\ supervisor = "reconcile"
  /\ ~Outdated
  /\ current = None => definition = None
  /\ supervisor' = "idle" /\ definition' = None
  /\ SupervisorFrame /\ UNCHANGED <<current, built, threadVars, faults>>

(* stop and the end of run: every session is told to stop.                 *)
Shutdown ==
  /\ supervisor = "idle"
  /\ Fault
  /\ supervisor' = "down"
  /\ stopping' = Stopped({current} \ {None})
  /\ SupervisorFrame
  /\ UNCHANGED <<definition, current, built, at, buffer, flushing>>

(* The worker's process ends, after a shutdown or at any point, and is     *)
(* started again: threads, windows and open transactions are gone.         *)
RestartWorker ==
  /\ IF supervisor = "down" THEN NoFault ELSE Fault
  /\ supervisor' = "idle" /\ definition' = None /\ current' = None /\ built' = None
  /\ at' = [s \in Session |-> "none"]
  /\ stopping' = [s \in Session |-> FALSE]
  /\ buffer' = [s \in Session |-> NoWindow]
  /\ flushing' = [s \in Session |-> FALSE]
  /\ SupervisorFrame

-----------------------------------------------------------------------------
Thread(s) ==
  \/ Attempt(s) \/ Started(s) \/ Greet(s) \/ Mark(s) \/ Marked(s) \/ LeaveLoop(s)
  \/ Report(s) \/ Reported(s) \/ BackedOff(s)
  \/ SkipFlush(s) \/ BeginFlush(s) \/ EndFlush(s)

Supervise ==
  ReadDefinitions \/ StopSession \/ JoinSession \/ StartSession \/ EndReconcile

ConnectorsNext ==
  \/ \E e \in Editor : BeginEdit(e)
  \/ \E e \in Editor, enable \in BOOLEAN : CommitEdit(e, enable)
  \/ EditProfile \/ remove_connector
  \/ \E s \in Session : Thread(s) \/ Break(s)
  \/ \E s \in Session, k \in Key : Deliver(s, k)
  \/ Supervise \/ Shutdown \/ RestartWorker

(* Threads and the supervisor run, and a worker that was shut down is      *)
(* started again; messages, edits and faults need not come.                *)
ConnectorsFairness ==
  /\ \A s \in Session : WF_connectorVars(Thread(s))
  /\ WF_connectorVars(Supervise)
  /\ WF_connectorVars(supervisor = "down" /\ RestartWorker)

ConnectorsSpec == ConnectorsInit /\ [][ConnectorsNext]_connectorVars /\ ConnectorsFairness

-----------------------------------------------------------------------------
(* "One isolated session per connector" (architecture.md): of the threads  *)
(* of a connector one at most has not been told to stop, also when a join  *)
(* has timed out and an old thread is still flushing.                      *)
SingleSession == \A s, t \in Session : Running(s) /\ Running(t) => s = t

(* A delivery is in one sample, whatever fails between the window and the  *)
(* store, but for commits whose success was not seen: their window is      *)
(* stored again under a new sample id.                                     *)
StoredOnce == \A d \in Delivery : copies[d] <= 1 + doubtful

(* The live value of a key is its newest stored delivery, also when an old *)
(* session flushes after the one that replaced it.                         *)
NewestIsLive ==
  \A k \in Key :
    LET stored == {d \in Delivery : copies[d] > 0 /\ keyOf[d] = k}
    IN  IF stored = {} THEN live[k] = 0
        ELSE live[k] \in stored /\ \A d \in stored : d <= live[k]

(* A reading leaves the window of a live session only when it is stored,   *)
(* superseded by a newer one, or refused because the connector is gone or  *)
(* disabled.  A flush that fails keeps it.                                 *)
Excused(s) == ~exists \/ ~enabled \/ ~Alive(s) \/ at'[s] = "none"
WindowKept ==
  [][\A s \in Session, k \in Key :
       LET d == buffer[s][k]
       IN  d = 0 \/ buffer'[s][k] >= d \/ copies'[d] > copies[d] \/ Excused(s)]_connectorVars

(* A connector that is retired or purged falls silent for good, although   *)
(* an edit that had read the row before may enable it again.               *)
RetiredFallsSilent == retired \/ ~exists ~> [](\A s \in Session : ~Alive(s))

(* The configuration of a connector and its mapping profile is run by its  *)
(* session in the end, whatever died or timed out on the way, and is again *)
(* after every change; unless two edits read the same version, or the      *)
(* session has ended on a status write that failed.                        *)
Runs == current # None /\ Running(current) /\ built.revision = revision
GaveUp == overlapped \/ (current # None /\ at[current] = "dead")
ConfigurationRuns == []<>(Wanted => Runs \/ GaveUp)

(* While the session of a connector stays connected its status comes to    *)
(* say so, whatever its predecessor writes late.                           *)
Connected ==
  /\ Wanted /\ current # None
  /\ Running(current) /\ at[current] \in {"connected", "marking"}
StatusSettles == <>[]Connected => <>[](status = "connected")
=============================================================================
