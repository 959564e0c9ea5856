-------------------------- MODULE ConnectorsProofs --------------------------
(***************************************************************************)
(* One live session per connector, and readings that are stored once, in   *)
(* order and without loss between the window and the store, for any number *)
(* of threads, editors, keys, messages and faults.                         *)
(***************************************************************************)
EXTENDS Connectors, TLAPS

(* A thread that has not been told to stop is the one the supervisor       *)
(* holds, and one that is waited for has been told.                        *)
HoldsLive ==
  /\ \A s \in Session : Running(s) => s = current
  /\ supervisor = "join" => current \in Session /\ stopping[current]

(* A flush belongs to a thread in one of the places that flush, and to a   *)
(* window: that an ended thread does not come back rests on it.            *)
FlushPlaces == {"opening", "connected", "except", "final"}
FlushesWindow == \A s \in Session : flushing[s] => at[s] \in FlushPlaces /\ HasWindow(s)

SessionTypes ==
  /\ at \in [Session -> Place] /\ stopping \in [Session -> BOOLEAN]
  /\ flushing \in [Session -> BOOLEAN] /\ buffer = [s \in Session |-> buffer[s]]
  /\ current \in Session \union {None}

SessionInv == SessionTypes /\ HoldsLive /\ FlushesWindow

LEMMA SessionInit == ConnectorsInit => SessionInv
  BY DEF ConnectorsInit, SessionInv, SessionTypes, HoldsLive, FlushesWindow, Place, Running, Alive

(* Nothing of threads or supervisor changes.                               *)
LEMMA SameSession ==
  ASSUME SessionInv, UNCHANGED <<supervisorVars, threadVars>>
  PROVE  SessionInv'
  BY DEF SessionInv, SessionTypes, HoldsLive, FlushesWindow, Running, Alive, HasWindow,
         supervisorVars, threadVars

(* A live thread that is not flushing afterwards goes anywhere.            *)
LEMMA Goes ==
  ASSUME SessionInv, NEW s \in Session, NEW p \in Place, Alive(s),
         at' = [at EXCEPT ![s] = p], UNCHANGED <<supervisorVars, stopping>>,
         flushing' = [flushing EXCEPT ![s] = FALSE],
         NEW w, buffer' = [buffer EXCEPT ![s] = w]
  PROVE  SessionInv'
<1>1. \A t \in Session : Running(t)' => Running(t)
  BY DEF Running, Alive, SessionInv, SessionTypes
<1>2. SessionTypes' /\ HoldsLive'
  BY <1>1 DEF SessionInv, SessionTypes, HoldsLive, supervisorVars
<1>3. FlushesWindow'
  BY DEF SessionInv, SessionTypes, FlushesWindow, HasWindow, NoWindow
<1> QED
  BY <1>2, <1>3 DEF SessionInv

(* The same, for one that is not flushing to begin with.                   *)
LEMMA GoesOn ==
  ASSUME SessionInv, NEW s \in Session, NEW p \in Place, Alive(s), ~flushing[s],
         at' = [at EXCEPT ![s] = p], UNCHANGED <<supervisorVars, stopping, flushing, buffer>>
  PROVE  SessionInv'
<1>1. /\ flushing' = [flushing EXCEPT ![s] = FALSE]
      /\ buffer' = [buffer EXCEPT ![s] = buffer[s]]
  BY DEF SessionInv, SessionTypes
<1> QED
  BY <1>1, Goes

LEMMA OpenKeeps ==
  ASSUME SessionInv, NEW s \in Session, Alive(s), ~flushing[s],
         NEW value, NEW open \in Place, NEW next \in Place,
         OpenStatus(s, value, open, next), StatusFrame, UNCHANGED buffer
  PROVE  SessionInv'
<1>1. \E p \in Place : at' = [at EXCEPT ![s] = p]
  BY DEF OpenStatus
<1> QED
  BY <1>1, GoesOn DEF StatusFrame

LEMMA CloseKeeps ==
  ASSUME SessionInv, NEW s \in Session, Alive(s), ~flushing[s],
         NEW value, NEW next \in Place, NEW failed \in Place,
         CloseStatus(s, value, next, failed), StatusFrame, UNCHANGED buffer
  PROVE  SessionInv'
<1>1. \E p \in Place : at' = [at EXCEPT ![s] = p]
  BY DEF CloseStatus
<1> QED
  BY <1>1, GoesOn DEF StatusFrame

(* The loop of a thread and its status writes, none of them in a flush.    *)
LEMMA LoopKeeps ==
  ASSUME SessionInv, NEW s \in Session,
         \/ Attempt(s) \/ Started(s) \/ Greet(s) \/ Mark(s) \/ Marked(s) \/ LeaveLoop(s)
         \/ Report(s) \/ Reported(s) \/ BackedOff(s) \/ SkipFlush(s) \/ Break(s)
  PROVE  SessionInv'
<1> USE DEF Place
<1>1. Alive(s) /\ ~flushing[s]
  BY DEF Attempt, Started, Greet, Mark, Marked, LeaveLoop, Report, Reported, BackedOff, SkipFlush, Break,
         InLoop, Alive, SessionInv, FlushesWindow, FlushPlaces
<1>2. CASE Attempt(s)
  <2>1. CASE stopping[s]
    BY <1>1, <1>2, <2>1, GoesOn DEF Attempt, StatusFrame
  <2>2. CASE ~stopping[s]
    BY <1>1, <1>2, <2>2, OpenKeeps DEF Attempt
  <2> QED
    BY <2>1, <2>2
<1>3. CASE Started(s)
  BY <1>1, <1>3, CloseKeeps DEF Started
<1>4. CASE Greet(s) \/ Mark(s)
  BY <1>1, <1>4, OpenKeeps DEF Greet, Mark
<1>5. CASE Marked(s)
  BY <1>1, <1>5, CloseKeeps DEF Marked
<1>6. CASE LeaveLoop(s) \/ Break(s)
  BY <1>1, <1>6, GoesOn DEF LeaveLoop, Break, StatusFrame
<1>7. CASE Report(s)
  <2>1. CASE OpenStatus(s, "error", "reporting", "backoff")
    BY <1>1, <1>7, <2>1, OpenKeeps DEF Report
  <2>2. CASE at' = [at EXCEPT ![s] = "dead"]
    BY <1>1, <1>7, <2>2, GoesOn DEF Report, StatusFrame
  <2> QED
    BY <1>7, <2>1, <2>2 DEF Report
<1>8. CASE Reported(s)
  BY <1>1, <1>8, CloseKeeps DEF Reported
<1>9. CASE BackedOff(s)
  <2>1. \E p \in Place : at' = [at EXCEPT ![s] = p]
    BY <1>9 DEF BackedOff
  <2> QED
    BY <1>1, <1>9, <2>1, GoesOn DEF BackedOff, StatusFrame
<1>10. CASE SkipFlush(s)
  <2>1. Returned(s) \in Place
    BY <1>10 DEF SkipFlush, Returned
  <2> QED
    BY <1>1, <1>10, <2>1, GoesOn DEF SkipFlush, StatusFrame
<1> QED
  BY <1>2, <1>3, <1>4, <1>5, <1>6, <1>7, <1>8, <1>9, <1>10

LEMMA ReturnsInPlace ==
  ASSUME NEW s \in Session, at[s] \in FlushPlaces
  PROVE  Alive(s) /\ Returned(s) \in Place /\ Raised(s) \in Place
  BY DEF FlushPlaces, Alive, Returned, Raised, Place

LEMMA BeginFlushKeeps ==
  ASSUME SessionInv, NEW s \in Session, BeginFlush(s)
  PROVE  SessionInv'
<1>1. at[s] \in FlushPlaces /\ HasWindow(s) /\ ~flushing[s]
  BY DEF BeginFlush, Flushes, FlushPlaces
<1>2. Alive(s) /\ Returned(s) \in Place /\ Raised(s) \in Place
  BY <1>1, ReturnsInPlace
<1>3. UNCHANGED <<supervisorVars, stopping>>
  BY DEF BeginFlush
<1>4. CASE exists /\ enabled /\ ~retired
  <2>1. flushing' = [flushing EXCEPT ![s] = TRUE] /\ UNCHANGED <<at, buffer>>
    BY <1>4 DEF BeginFlush, SessionInv, SessionTypes
  <2> QED
    BY <1>1, <1>3, <2>1 DEF SessionInv, SessionTypes, HoldsLive, FlushesWindow, Running, Alive,
                            HasWindow, NoWindow, supervisorVars
<1>5. CASE exists /\ enabled /\ retired
  <2>1. /\ at' = [at EXCEPT ![s] = Raised(s)] /\ UNCHANGED buffer
        /\ UNCHANGED flushing
    BY <1>1, <1>5 DEF BeginFlush, SessionInv, SessionTypes
  <2> QED
    BY <1>1, <1>2, <1>3, <2>1, GoesOn
<1>6. CASE ~(exists /\ enabled)
  <2>1. /\ at' = [at EXCEPT ![s] = Returned(s)] /\ buffer' = [buffer EXCEPT ![s] = NoWindow]
        /\ flushing' = [flushing EXCEPT ![s] = FALSE]
    BY <1>1, <1>6 DEF BeginFlush, SessionInv, SessionTypes
  <2> QED
    BY <1>2, <1>3, <2>1, Goes
<1> QED
  BY <1>4, <1>5, <1>6

LEMMA EndFlushKeeps ==
  ASSUME SessionInv, NEW s \in Session, EndFlush(s)
  PROVE  SessionInv'
<1>1. at[s] \in FlushPlaces
  BY DEF EndFlush, SessionInv, FlushesWindow
<1>2. Alive(s) /\ Returned(s) \in Place /\ Raised(s) \in Place
  BY <1>1, ReturnsInPlace
<1>3. /\ \E p \in Place : at' = [at EXCEPT ![s] = p]
      /\ flushing' = [flushing EXCEPT ![s] = FALSE]
      /\ UNCHANGED <<supervisorVars, stopping>>
  BY <1>2 DEF EndFlush
<1>4. \E w : buffer' = [buffer EXCEPT ![s] = w]
  BY DEF EndFlush, SessionInv, SessionTypes
<1> QED
  BY <1>2, <1>3, <1>4, Goes

LEMMA DeliverKeeps ==
  ASSUME SessionInv, NEW s \in Session, NEW k \in Key, Deliver(s, k)
  PROVE  SessionInv'
<1>1. /\ ~flushing[s] /\ UNCHANGED <<supervisorVars, stopping, at, flushing>>
      /\ buffer' = [buffer EXCEPT ![s] = [buffer[s] EXCEPT ![k] = delivered + 1]]
  BY DEF Deliver, InLoop, SessionInv, SessionTypes
<1> QED
  BY <1>1 DEF SessionInv, SessionTypes, HoldsLive, FlushesWindow, Running, Alive, HasWindow, NoWindow,
              supervisorVars

-----------------------------------------------------------------------------
LEMMA SuperviseKeeps ==
  ASSUME SessionInv, Supervise
  PROVE  SessionInv'
<1> USE DEF SessionInv, SessionTypes, HoldsLive, FlushesWindow, Running, HasWindow, NoWindow
<1>1. CASE ReadDefinitions \/ EndReconcile
  BY <1>1 DEF ReadDefinitions, EndReconcile, Alive, threadVars
<1>2. CASE StopSession
  BY <1>2, SessionAssumption DEF StopSession, Outdated, Stopped, Alive
<1>3. CASE JoinSession
  BY <1>3 DEF JoinSession, Alive, threadVars
<1>4. CASE StartSession
  <2>1. Slot \in Session /\ ~Alive(Slot)
    BY <1>4 DEF StartSession, Slots, Slot
  <2>2. ~flushing[Slot]
    BY <2>1 DEF Alive, FlushPlaces
  <2>3. /\ supervisor = "reconcile" /\ supervisor' = supervisor /\ current = None /\ current' = Slot
        /\ at' = [at EXCEPT ![Slot] = "start"] /\ stopping' = [stopping EXCEPT ![Slot] = FALSE]
        /\ buffer' = [buffer EXCEPT ![Slot] = NoWindow] /\ UNCHANGED flushing
    BY <1>4 DEF StartSession
  <2>4. \A t \in Session : ~Running(t)
    BY <2>3, SessionAssumption
  <2>5. \A t \in Session : Running(t)' => t = Slot
    BY <2>3, <2>4 DEF Alive
  <2>6. SessionTypes' /\ HoldsLive'
    BY <2>1, <2>3, <2>5 DEF Place
  <2>7. FlushesWindow'
    BY <2>1, <2>2, <2>3
  <2> QED
    BY <2>6, <2>7
<1> QED
  BY <1>1, <1>2, <1>3, <1>4 DEF Supervise

LEMMA WorkerKeeps ==
  ASSUME SessionInv, Shutdown \/ RestartWorker
  PROVE  SessionInv'
<1>1. CASE Shutdown
  BY <1>1 DEF Shutdown, Stopped, SessionInv, SessionTypes, HoldsLive, FlushesWindow, Running, Alive,
              HasWindow, NoWindow
<1>2. CASE RestartWorker
  BY <1>2 DEF RestartWorker, SessionInv, SessionTypes, HoldsLive, FlushesWindow, Running, Alive, Place
<1> QED
  BY <1>1, <1>2

LEMMA SessionStep ==
  ASSUME SessionInv, [ConnectorsNext]_connectorVars
  PROVE  SessionInv'
<1>1. CASE UNCHANGED connectorVars
  BY <1>1, SameSession DEF connectorVars
<1>2. CASE \/ \E e \in Editor : BeginEdit(e) \/ \E enable \in BOOLEAN : CommitEdit(e, enable)
           \/ EditProfile \/ remove_connector
  BY <1>2, SameSession DEF BeginEdit, CommitEdit, EditProfile, remove_connector, retire_connector,
                           purge_connector
<1>3. ASSUME NEW s \in Session, Thread(s) \/ Break(s)
      PROVE  SessionInv'
  BY <1>3, LoopKeeps, BeginFlushKeeps, EndFlushKeeps DEF Thread
<1> QED
  BY <1>1, <1>2, <1>3, DeliverKeeps, SuperviseKeeps, WorkerKeeps DEF ConnectorsNext

(* Of the threads of a connector one at most has not been told to stop     *)
(* (_reconcile stops and joins a session before it starts the next).       *)
THEOREM OneLiveSession == ConnectorsSpec => []SingleSession
<1>1. SessionInv /\ [ConnectorsNext]_connectorVars => SessionInv'
  BY SessionStep
<1>2. SessionInv => SingleSession
  BY DEF SessionInv, HoldsLive, SingleSession
<1> QED
  BY SessionInit, <1>1, <1>2, PTL DEF ConnectorsSpec

-----------------------------------------------------------------------------
(* Windows.  A delivery is in one window, under its own key, and while it  *)
(* is there it has been stored by doubtful commits only.                   *)
StoreTypes ==
  /\ delivered \in Nat /\ delivered <= MaxDelivery /\ doubtful \in Nat
  /\ buffer \in [Session -> [Key -> 0..delivered]]
  /\ keyOf = [d \in Delivery |-> keyOf[d]]
  /\ copies \in [Delivery -> Nat] /\ live \in [Key -> 0..delivered]

Buffered(s, k) == buffer[s][k] # 0

WindowsInv ==
  /\ \A s \in Session, k \in Key : Buffered(s, k) =>
       keyOf[buffer[s][k]] = k /\ copies[buffer[s][k]] <= doubtful
  /\ \A s, t \in Session, k \in Key : Buffered(s, k) /\ buffer[s][k] = buffer[t][k] => s = t

CopiesInv ==
  \A d \in Delivery : copies[d] <= 1 + doubtful /\ (d > delivered => copies[d] = 0)

LiveInv ==
  /\ \A k \in Key : live[k] # 0 => copies[live[k]] > 0 /\ keyOf[live[k]] = k
  /\ \A k \in Key, d \in Delivery : copies[d] > 0 /\ keyOf[d] = k => d <= live[k]

StoreInv == StoreTypes /\ WindowsInv /\ CopiesInv /\ LiveInv

LEMMA StoreInit == ConnectorsInit => StoreInv
<1> SUFFICES ASSUME ConnectorsInit PROVE StoreInv
  OBVIOUS
<1>1. StoreTypes
  BY CountAssumption DEF ConnectorsInit, StoreTypes, NoWindow
<1>2. WindowsInv
  BY DEF ConnectorsInit, WindowsInv, Buffered, NoWindow
<1>3. CopiesInv /\ LiveInv
  BY DEF ConnectorsInit, CopiesInv, LiveInv
<1> QED
  BY <1>1, <1>2, <1>3 DEF StoreInv

(* What a window holds has been delivered.                                 *)
LEMMA BufferedDelivery ==
  ASSUME StoreInv, NEW s \in Session, NEW k \in Key
  PROVE  buffer[s][k] \in Nat /\ (Buffered(s, k) => buffer[s][k] \in Delivery /\ buffer[s][k] <= delivered)
<1>1. buffer[s][k] \in 0..delivered /\ delivered \in Nat /\ delivered <= MaxDelivery /\ MaxDelivery \in Nat
  BY CountAssumption DEF StoreInv, StoreTypes
<1> QED
  BY <1>1 DEF Buffered, Delivery

(* Windows stay, or are emptied as a whole; nothing is stored.             *)
LEMMA EmptiedKeeps ==
  ASSUME StoreInv, UNCHANGED <<messageVars, storeVars>>,
         NEW S \in SUBSET Session,
         buffer' = [s \in Session |-> IF s \in S THEN NoWindow ELSE buffer[s]]
  PROVE  StoreInv'
<1>1. StoreTypes'
  BY DEF StoreInv, StoreTypes, NoWindow, messageVars, storeVars
<1>2. \A s \in Session, k \in Key : buffer'[s][k] = 0 \/ buffer'[s][k] = buffer[s][k]
  BY DEF NoWindow
<1>3. WindowsInv'
  BY <1>2 DEF StoreInv, WindowsInv, Buffered, messageVars, storeVars
<1>4. CopiesInv' /\ LiveInv'
  BY DEF StoreInv, CopiesInv, LiveInv, messageVars, storeVars
<1> QED
  BY <1>1, <1>3, <1>4 DEF StoreInv

LEMMA WindowsSame ==
  ASSUME StoreInv, UNCHANGED <<messageVars, storeVars, buffer>>
  PROVE  StoreInv'
<1>1. buffer = [s \in Session |-> buffer[s]]
  BY DEF StoreInv, StoreTypes
<1>2. \A s \in Session : buffer[s] = IF s \in {} THEN NoWindow ELSE buffer[s]
  OBVIOUS
<1>3. buffer' = [s \in Session |-> IF s \in {} THEN NoWindow ELSE buffer[s]]
  BY <1>1, <1>2
<1>4. {} \in SUBSET Session
  OBVIOUS
<1> QED
  BY <1>3, <1>4, EmptiedKeeps

LEMMA WindowEmptied ==
  ASSUME StoreInv, UNCHANGED <<messageVars, storeVars>>,
         NEW s \in Session, buffer' = [buffer EXCEPT ![s] = NoWindow]
  PROVE  StoreInv'
<1>1. buffer' = [t \in Session |-> IF t \in {s} THEN NoWindow ELSE buffer[t]]
  BY DEF StoreInv, StoreTypes
<1> QED
  BY <1>1, EmptiedKeeps

(* A message takes a number of its own.                                    *)
LEMMA DeliverStores ==
  ASSUME StoreInv, NEW s \in Session, NEW k \in Key, Deliver(s, k)
  PROVE  StoreInv'
<1> DEFINE d == delivered + 1
<1>1. /\ delivered \in Nat /\ delivered < MaxDelivery /\ MaxDelivery \in Nat
      /\ delivered' = d /\ keyOf' = [keyOf EXCEPT ![d] = k]
      /\ buffer' = [buffer EXCEPT ![s][k] = d]
      /\ UNCHANGED storeVars
  BY CountAssumption DEF Deliver, StoreInv, StoreTypes
<1>2. d \in Delivery /\ copies[d] = 0 /\ d # 0
  BY <1>1 DEF Delivery, StoreInv, CopiesInv
<1>3. /\ buffer'[s][k] = d
      /\ \A t \in Session, j \in Key : t # s \/ j # k => buffer'[t][j] = buffer[t][j]
  BY <1>1 DEF StoreInv, StoreTypes
<1>4. keyOf'[d] = k /\ \A e \in Delivery : e # d => keyOf'[e] = keyOf[e]
  BY <1>1, <1>2 DEF StoreInv, StoreTypes
<1>5. \A t \in Session, j \in Key : buffer[t][j] \in Nat /\ buffer[t][j] < d
  BY <1>1, BufferedDelivery DEF StoreInv, StoreTypes, Buffered
<1>6. StoreTypes'
  <2>1. buffer' \in [Session -> [Key -> 0..d]]
    <3>1. buffer' = [buffer EXCEPT ![s] = [buffer[s] EXCEPT ![k] = d]]
      BY <1>1 DEF StoreInv, StoreTypes
    <3>2. \A t \in Session : buffer[t] \in [Key -> 0..d]
      BY <1>1, <1>5 DEF StoreInv, StoreTypes
    <3>3. [buffer[s] EXCEPT ![k] = d] \in [Key -> 0..d]
      BY <1>1, <3>2
    <3> QED
      BY <3>1, <3>2, <3>3 DEF StoreInv, StoreTypes
  <2>2. live' \in [Key -> 0..d]
    BY <1>1 DEF StoreInv, StoreTypes, storeVars
  <2>3. d \in Nat /\ d <= MaxDelivery /\ doubtful' \in Nat /\ copies' \in [Delivery -> Nat]
    BY <1>1 DEF StoreInv, StoreTypes, storeVars
  <2>4. keyOf' = [e \in Delivery |-> keyOf'[e]]
    BY <1>1 DEF StoreInv, StoreTypes
  <2> QED
    BY <1>1, <2>1, <2>2, <2>3, <2>4 DEF StoreTypes
<1>7. WindowsInv'
  <2>1. ASSUME NEW t \in Session, NEW j \in Key, buffer'[t][j] # 0
        PROVE  keyOf'[buffer'[t][j]] = j /\ copies[buffer'[t][j]] <= doubtful
    <3>1. CASE t = s /\ j = k
      BY <1>2, <1>3, <1>4, <3>1 DEF StoreInv, StoreTypes
    <3>2. CASE t # s \/ j # k
      <4>1. buffer'[t][j] = buffer[t][j] /\ Buffered(t, j)
        BY <1>3, <2>1, <3>2 DEF Buffered
      <4>2. buffer[t][j] \in Delivery /\ buffer[t][j] # d
        BY <1>1, <1>5, <4>1, BufferedDelivery
      <4> QED
        BY <1>4, <4>1, <4>2 DEF StoreInv, WindowsInv
    <3> QED
      BY <3>1, <3>2
  <2>2. ASSUME NEW t \in Session, NEW u \in Session, NEW j \in Key,
               buffer'[t][j] # 0, buffer'[t][j] = buffer'[u][j]
        PROVE  t = u
    <3>1. CASE j = k /\ (t = s \/ u = s)
      BY <1>1, <1>3, <1>5, <2>2, <3>1
    <3>2. CASE j # k \/ (t # s /\ u # s)
      BY <1>3, <2>2, <3>2 DEF StoreInv, WindowsInv, Buffered
    <3> QED
      BY <3>1, <3>2
  <2> QED
    BY <1>1, <2>1, <2>2 DEF WindowsInv, Buffered, storeVars
<1>8. CopiesInv'
  BY <1>1 DEF StoreInv, CopiesInv, storeVars, Delivery
<1>9. LiveInv'
  <2>1. \A j \in Key : live[j] # 0 => live[j] \in Delivery /\ live[j] # d
    BY <1>1 DEF StoreInv, StoreTypes, Delivery
  <2>2. \A e \in Delivery : copies[e] > 0 => keyOf'[e] = keyOf[e]
    BY <1>2, <1>4
  <2> QED
    BY <1>1, <1>4, <2>1, <2>2 DEF StoreInv, LiveInv, storeVars
<1> QED
  BY <1>6, <1>7, <1>8, <1>9 DEF StoreInv

(* A window is stored: each of its deliveries once more, and the live      *)
(* value of its key the newer of the two.                                  *)
LEMMA StoredWindow ==
  ASSUME StoreInv, NEW s \in Session, Store(buffer[s]),
         UNCHANGED messageVars
  PROVE  /\ copies' \in [Delivery -> Nat] /\ live' \in [Key -> 0..delivered]
         /\ \A d \in Delivery :
              \/ copies'[d] = copies[d] + 1 /\ \E k \in Key : Buffered(s, k) /\ buffer[s][k] = d
              \/ copies'[d] = copies[d] /\ \A k \in Key : Buffered(s, k) => buffer[s][k] # d
         /\ LiveInv'
<1> DEFINE w == buffer[s]
<1>1. \A k \in Key : k \in Sampled(w) <=> Buffered(s, k)
  BY DEF Sampled, Buffered
<1>2. \A k \in Sampled(w) : k \in Key
  BY DEF Sampled
<1>3. /\ copies' = [d \in Delivery |-> IF \E k \in Sampled(w) : w[k] = d THEN copies[d] + 1 ELSE copies[d]]
      /\ live' = [k \in Key |-> IF k \in Sampled(w) THEN Newest(live[k], w[k]) ELSE live[k]]
  BY DEF Store
<1>4. \A d \in Delivery :
         \/ copies'[d] = copies[d] + 1 /\ \E k \in Key : Buffered(s, k) /\ buffer[s][k] = d
         \/ copies'[d] = copies[d] /\ \A k \in Key : Buffered(s, k) => buffer[s][k] # d
  BY <1>1, <1>2, <1>3
<1>5. copies \in [Delivery -> Nat] /\ live \in [Key -> 0..delivered] /\ delivered \in Nat
  BY DEF StoreInv, StoreTypes
<1>6. copies' \in [Delivery -> Nat]
  BY <1>3, <1>5
<1>7. \A k \in Key : w[k] \in 0..delivered
  BY DEF StoreInv, StoreTypes
<1>8. live' \in [Key -> 0..delivered]
  <2>1. \A k \in Key : live'[k] \in 0..delivered
    BY <1>3, <1>5, <1>7 DEF Newest
  <2> QED
    BY <1>3, <2>1
<1>9. ASSUME NEW k \in Key, live'[k] # 0
      PROVE  copies'[live'[k]] > 0 /\ keyOf[live'[k]] = k
  <2>1. CASE live'[k] = live[k]
    <3>0. live[k] \in 1..delivered /\ delivered <= MaxDelivery /\ MaxDelivery \in Nat
      BY <1>5, <1>9, <2>1, CountAssumption DEF StoreInv, StoreTypes
    <3>1. live[k] \in Delivery /\ copies[live[k]] > 0 /\ keyOf[live[k]] = k
      BY <1>5, <1>9, <2>1, <3>0 DEF StoreInv, LiveInv, Delivery
    <3> QED
      BY <1>4, <1>5, <2>1, <3>1
  <2>2. CASE live'[k] # live[k]
    <3>1. live'[k] = w[k] /\ Buffered(s, k)
      BY <1>1, <1>3, <2>2 DEF Newest
    <3>2. w[k] \in Delivery
      BY <3>1, BufferedDelivery
    <3>3. copies'[w[k]] = copies[w[k]] + 1
      BY <1>4, <3>1, <3>2
    <3> QED
      BY <1>5, <3>1, <3>2, <3>3 DEF StoreInv, WindowsInv
  <2> QED
    BY <2>1, <2>2
<1>10. ASSUME NEW k \in Key, NEW d \in Delivery, copies'[d] > 0, keyOf[d] = k
       PROVE  d <= live'[k]
  <2>1. live'[k] \in Nat /\ live[k] \in Nat /\ w[k] \in Nat /\ d \in Nat /\ live'[k] >= live[k]
    BY <1>3, <1>5, <1>7, <1>8 DEF Newest, Delivery
  <2>2. CASE copies[d] > 0
    BY <1>10, <2>1, <2>2 DEF StoreInv, LiveInv
  <2>3. CASE ~(copies[d] > 0)
    <3>1. PICK j \in Key : Buffered(s, j) /\ w[j] = d
      BY <1>4, <1>10, <2>3
    <3>2. j = k
      BY <1>10, <3>1 DEF StoreInv, WindowsInv
    <3>3. live'[k] = Newest(live[k], d)
      BY <1>1, <1>3, <3>1, <3>2
    <3> QED
      BY <2>1, <3>3 DEF Newest
  <2> QED
    BY <2>2, <2>3
<1>11. LiveInv'
  BY <1>9, <1>10 DEF LiveInv, messageVars
<1> QED
  BY <1>4, <1>6, <1>8, <1>11

(* A flush ends: its window is stored and closed, or kept, or stored by a  *)
(* commit in doubt and kept.                                               *)
LEMMA EndFlushStores ==
  ASSUME StoreInv, NEW s \in Session, EndFlush(s)
  PROVE  StoreInv'
<1>1. CASE UNCHANGED <<copies, live, buffer, doubtful>>
  BY <1>1, WindowsSame DEF EndFlush, storeVars
<1>2. ASSUME Store(buffer[s]), UNCHANGED messageVars,
             \/ buffer' = [buffer EXCEPT ![s] = NoWindow] /\ doubtful' = doubtful
             \/ buffer' = buffer /\ doubtful' = doubtful + 1
      PROVE  StoreInv'
  <2>1. /\ copies' \in [Delivery -> Nat] /\ live' \in [Key -> 0..delivered]
        /\ \A d \in Delivery :
             \/ copies'[d] = copies[d] + 1 /\ \E k \in Key : Buffered(s, k) /\ buffer[s][k] = d
             \/ copies'[d] = copies[d] /\ \A k \in Key : Buffered(s, k) => buffer[s][k] # d
        /\ LiveInv'
    BY <1>2, StoredWindow
  <2>2. copies \in [Delivery -> Nat] /\ doubtful \in Nat /\ delivered \in Nat
    BY DEF StoreInv, StoreTypes
  <2>3. \A t \in Session, k \in Key : buffer'[t][k] = 0 \/ buffer'[t][k] = buffer[t][k]
    BY <1>2 DEF NoWindow, StoreInv, StoreTypes
  <2>4. StoreTypes'
    <3>1. buffer' \in [Session -> [Key -> 0..delivered]] /\ doubtful' \in Nat
      BY <1>2, <2>2 DEF NoWindow, StoreInv, StoreTypes
    <3> QED
      BY <1>2, <2>1, <3>1 DEF StoreInv, StoreTypes, messageVars
  <2>5. ASSUME NEW t \in Session, NEW k \in Key, buffer'[t][k] # 0
        PROVE  keyOf[buffer'[t][k]] = k /\ copies'[buffer'[t][k]] <= doubtful'
    <3> DEFINE d == buffer[t][k]
    <3>1. /\ buffer'[t][k] = d /\ Buffered(t, k) /\ d \in Delivery
          /\ keyOf[d] = k /\ copies[d] <= doubtful
      BY <2>3, <2>5, BufferedDelivery DEF StoreInv, WindowsInv, Buffered
    <3>2. CASE copies'[d] = copies[d]
      BY <1>2, <2>2, <3>1, <3>2
    <3>3. CASE copies'[d] = copies[d] + 1 /\ \E j \in Key : Buffered(s, j) /\ buffer[s][j] = d
      <4>1. PICK j \in Key : Buffered(s, j) /\ buffer[s][j] = d
        BY <3>3
      <4>2. j = k
        BY <3>1, <4>1 DEF StoreInv, WindowsInv
      <4>3. t = s
        BY <3>1, <4>1, <4>2 DEF StoreInv, WindowsInv
      <4>4. buffer' # [buffer EXCEPT ![s] = NoWindow]
        BY <2>5, <4>3 DEF NoWindow, StoreInv, StoreTypes
      <4> QED
        BY <1>2, <2>2, <3>1, <3>3, <4>4
    <3> QED
      BY <2>1, <3>1, <3>2, <3>3
  <2>6. \A t, u \in Session, k \in Key : buffer'[t][k] # 0 /\ buffer'[t][k] = buffer'[u][k] => t = u
    BY <2>3 DEF StoreInv, WindowsInv, Buffered
  <2>7. WindowsInv'
    BY <1>2, <2>5, <2>6 DEF WindowsInv, Buffered, messageVars
  <2>8. CopiesInv'
    <3>1. ASSUME NEW d \in Delivery
          PROVE  copies'[d] <= 1 + doubtful' /\ (d > delivered => copies'[d] = 0)
      <4>1. copies[d] <= 1 + doubtful /\ (d > delivered => copies[d] = 0)
        BY DEF StoreInv, CopiesInv
      <4>2. CASE copies'[d] = copies[d]
        BY <1>2, <2>2, <4>1, <4>2
      <4>3. CASE copies'[d] = copies[d] + 1 /\ \E j \in Key : Buffered(s, j) /\ buffer[s][j] = d
        <5>1. copies[d] <= doubtful /\ d <= delivered
          BY <4>3, BufferedDelivery DEF StoreInv, WindowsInv
        <5> QED
          BY <1>2, <2>2, <4>3, <5>1 DEF Delivery
      <4> QED
        BY <2>1, <4>2, <4>3
    <3> QED
      BY <1>2, <3>1 DEF CopiesInv, messageVars
  <2> QED
    BY <2>1, <2>4, <2>7, <2>8 DEF StoreInv
<1> QED
  BY <1>1, <1>2 DEF EndFlush, AfterStore

-----------------------------------------------------------------------------
(* The other steps, which store nothing.                                   *)

LEMMA StartStores ==
  ASSUME SessionInv, StoreInv, StartSession
  PROVE  StoreInv'
<1>1. Slot \in Session
  BY DEF StartSession, Slots, Slot
<1>2. PICK t \in Session : t = Slot
  BY <1>1
<1> QED
  BY <1>2, WindowEmptied DEF StartSession, SupervisorFrame

LEMMA RestartStores ==
  ASSUME StoreInv, RestartWorker
  PROVE  StoreInv'
<1>1. buffer' = [s \in Session |-> IF s \in Session THEN NoWindow ELSE buffer[s]]
  BY DEF RestartWorker
<1> QED
  BY <1>1, EmptiedKeeps DEF RestartWorker, SupervisorFrame

(* The readings go with the source; windows are still to be flushed.       *)
LEMMA PurgeStores ==
  ASSUME StoreInv, purge_connector
  PROVE  StoreInv'
<1>1. /\ copies' = [d \in Delivery |-> 0] /\ live' = [k \in Key |-> 0]
      /\ UNCHANGED <<messageVars, buffer, doubtful>>
  BY DEF purge_connector, threadVars
<1>2. doubtful \in Nat /\ delivered \in Nat
  BY DEF StoreInv, StoreTypes
<1>3. StoreTypes'
  BY <1>1, <1>2 DEF StoreInv, StoreTypes, messageVars
<1>4. \A d \in Delivery : copies'[d] = 0
  BY <1>1
<1>5. WindowsInv'
  BY <1>1, <1>2, <1>4, BufferedDelivery DEF StoreInv, WindowsInv, Buffered, messageVars
<1>6. CopiesInv' /\ LiveInv'
  BY <1>1, <1>2, <1>4 DEF CopiesInv, LiveInv
<1> QED
  BY <1>3, <1>5, <1>6 DEF StoreInv

LEMMA ThreadStores ==
  ASSUME StoreInv, NEW s \in Session, Thread(s) \/ Break(s)
  PROVE  StoreInv'
<1>1. CASE \/ Attempt(s) \/ Started(s) \/ Greet(s) \/ Mark(s) \/ Marked(s) \/ LeaveLoop(s)
           \/ Report(s) \/ Reported(s) \/ BackedOff(s) \/ SkipFlush(s) \/ Break(s)
  BY <1>1, WindowsSame DEF Attempt, Started, Greet, Mark, Marked, LeaveLoop, Report, Reported, BackedOff,
                           SkipFlush, Break, StatusFrame
<1>2. CASE BeginFlush(s)
  BY <1>2, WindowsSame, WindowEmptied DEF BeginFlush
<1> QED
  BY <1>1, <1>2, EndFlushStores DEF Thread

LEMMA StoreStep ==
  ASSUME SessionInv, StoreInv, [ConnectorsNext]_connectorVars
  PROVE  StoreInv'
<1>1. CASE UNCHANGED connectorVars
  BY <1>1, WindowsSame DEF connectorVars, threadVars
<1>2. CASE \/ \E e \in Editor : BeginEdit(e) \/ \E enable \in BOOLEAN : CommitEdit(e, enable)
           \/ EditProfile \/ retire_connector
  BY <1>2, WindowsSame DEF BeginEdit, CommitEdit, EditProfile, retire_connector, threadVars
<1>3. CASE ReadDefinitions \/ StopSession \/ JoinSession \/ EndReconcile \/ Shutdown
  BY <1>3, WindowsSame DEF ReadDefinitions, StopSession, JoinSession, EndReconcile, Shutdown,
                           SupervisorFrame, threadVars
<1>4. CASE \E s \in Session : Thread(s) \/ Break(s)
  BY <1>4, ThreadStores
<1>5. CASE \E s \in Session, k \in Key : Deliver(s, k)
  BY <1>5, DeliverStores
<1> QED
  BY <1>1, <1>2, <1>3, <1>4, <1>5, StartStores, RestartStores, PurgeStores
     DEF ConnectorsNext, Supervise, remove_connector

LEMMA StoreHolds == ConnectorsSpec => [](SessionInv /\ StoreInv)
  BY SessionInit, SessionStep, StoreInit, StoreStep, PTL DEF ConnectorsSpec

(* A delivery is in one sample, whatever fails between the window and the  *)
(* store, and once more for each commit whose success was not seen         *)
(* (flush closes the window after ingest_batch and the commit only).       *)
THEOREM DeliveryStoredOnce == ConnectorsSpec => []StoredOnce
<1>1. StoreInv => StoredOnce
  BY DEF StoreInv, CopiesInv, StoredOnce
<1> QED
  BY <1>1, StoreHolds, PTL

(* The live value of a key is its newest stored delivery, also when an old *)
(* session, told to stop, flushes after the one that replaced it.          *)
THEOREM LiveIsNewest == ConnectorsSpec => []NewestIsLive
<1>1. ASSUME StoreInv, NEW k \in Key
      PROVE  LET stored == {d \in Delivery : copies[d] > 0 /\ keyOf[d] = k}
             IN  IF stored = {} THEN live[k] = 0
                 ELSE live[k] \in stored /\ \A d \in stored : d <= live[k]
  <2> DEFINE stored == {d \in Delivery : copies[d] > 0 /\ keyOf[d] = k}
  <2>1. live[k] \in 0..delivered /\ delivered \in Nat /\ delivered <= MaxDelivery /\ MaxDelivery \in Nat
    BY <1>1, CountAssumption DEF StoreInv, StoreTypes
  <2>2. live[k] # 0 => live[k] \in stored
    BY <1>1, <2>1 DEF StoreInv, LiveInv, Delivery
  <2>3. \A d \in stored : d \in Nat /\ d <= live[k] /\ d > 0
    BY <1>1 DEF StoreInv, LiveInv, Delivery
  <2> HIDE DEF stored
  <2>4. stored = {} => live[k] = 0
    BY <2>2
  <2>5. stored # {} => live[k] # 0
    BY <2>1, <2>3
  <2>6. IF stored = {} THEN live[k] = 0 ELSE live[k] \in stored /\ \A d \in stored : d <= live[k]
    BY <2>2, <2>3, <2>4, <2>5
  <2> QED
    BY <2>6 DEF stored
<1>2. StoreInv => NewestIsLive
  BY <1>1 DEF NewestIsLive
<1> QED
  BY <1>2, StoreHolds, PTL

(* A reading leaves the window of a live session only when it is stored or *)
(* superseded, or when its connector is gone or disabled.                  *)
Kept(s, k) ==
  LET d == buffer[s][k]
  IN  d = 0 \/ buffer'[s][k] >= d \/ copies'[d] > copies[d] \/ Excused(s)

LEMMA UntouchedKept ==
  ASSUME StoreInv, NEW s \in Session, NEW k \in Key, buffer'[s] = buffer[s]
  PROVE  Kept(s, k)
<1>1. buffer[s][k] \in Nat
  BY BufferedDelivery
<1> QED
  BY <1>1 DEF Kept

(* Another session empties its window, or this one may.                    *)
LEMMA EmptiedExcused ==
  ASSUME StoreInv, NEW s \in Session, NEW k \in Key, NEW t \in Session,
         buffer' = [buffer EXCEPT ![t] = NoWindow], Excused(t)
  PROVE  Kept(s, k)
<1>1. CASE s = t
  BY <1>1 DEF Kept
<1>2. CASE s # t
  BY <1>2, UntouchedKept DEF StoreInv, StoreTypes
<1> QED
  BY <1>1, <1>2

LEMMA FlushKeepsWindow ==
  ASSUME StoreInv, NEW s \in Session, NEW k \in Key, NEW t \in Session, EndFlush(t)
  PROVE  Kept(s, k)
<1>1. CASE UNCHANGED buffer
  BY <1>1, UntouchedKept
<1>2. CASE Store(buffer[t]) /\ buffer' = [buffer EXCEPT ![t] = NoWindow] /\ UNCHANGED messageVars
  <2>1. CASE s # t
    BY <1>2, <2>1, UntouchedKept DEF StoreInv, StoreTypes
  <2>2. CASE s = t
    <3> DEFINE d == buffer[s][k]
    <3>1. CASE d = 0
      BY <3>1 DEF Kept
    <3>2. CASE d # 0
      <4>1. Buffered(s, k) /\ d \in Delivery
        BY <3>2, BufferedDelivery DEF Buffered
      <4>2. copies'[d] = copies[d] + 1 /\ copies[d] \in Nat
        BY <1>2, <2>2, <4>1, StoredWindow DEF StoreInv, StoreTypes
      <4> QED
        BY <4>2 DEF Kept
    <3> QED
      BY <3>1, <3>2
  <2> QED
    BY <2>1, <2>2
<1> QED
  BY <1>1, <1>2 DEF EndFlush, AfterStore

LEMMA DeliverKeepsWindow ==
  ASSUME StoreInv, NEW s \in Session, NEW k \in Key, NEW t \in Session, NEW j \in Key, Deliver(t, j)
  PROVE  Kept(s, k)
<1>1. buffer' = [buffer EXCEPT ![t][j] = delivered + 1] /\ delivered \in Nat
  BY DEF Deliver, StoreInv, StoreTypes
<1>2. buffer[s][k] \in 0..delivered
  BY DEF StoreInv, StoreTypes
<1>3. buffer'[s][k] = buffer[s][k] \/ buffer'[s][k] = delivered + 1
  BY <1>1 DEF StoreInv, StoreTypes
<1>4. buffer'[s][k] >= buffer[s][k]
  BY <1>1, <1>2, <1>3
<1> QED
  BY <1>4 DEF Kept

(* flush keeps its window when ingest_batch or the commit raises, and only *)
(* a session that is over, or has nothing to write to, lets one go.        *)
THEOREM ReadingsKept == ConnectorsSpec => WindowKept
<1>1. ASSUME SessionInv, StoreInv, [ConnectorsNext]_connectorVars, NEW s \in Session, NEW k \in Key
      PROVE  Kept(s, k)
  <2>1. CASE UNCHANGED buffer
    BY <1>1, <2>1, UntouchedKept
  <2>2. CASE \E t \in Session, j \in Key : Deliver(t, j)
    BY <1>1, <2>2, DeliverKeepsWindow
  <2>3. CASE \E t \in Session : EndFlush(t)
    BY <1>1, <2>3, FlushKeepsWindow
  <2>4. CASE \E t \in Session : BeginFlush(t)
    <3>1. PICK t \in Session : BeginFlush(t)
      BY <2>4
    <3>2. CASE exists /\ enabled
      BY <1>1, <3>1, <3>2, UntouchedKept DEF BeginFlush
    <3>3. CASE ~(exists /\ enabled)
      BY <1>1, <3>1, <3>3, EmptiedExcused DEF BeginFlush, Excused
    <3> QED
      BY <3>2, <3>3
  <2>5. CASE StartSession
    <3>1. PICK t \in Session : t = Slot /\ ~Alive(t)
      BY <2>5 DEF StartSession, Slots, Slot
    <3> QED
      BY <1>1, <2>5, <3>1, EmptiedExcused DEF StartSession, Excused
  <2>6. CASE RestartWorker
    BY <2>6 DEF RestartWorker, Kept, Excused
  <2>7. CASE UNCHANGED connectorVars \/ Shutdown \/ ReadDefinitions \/ StopSession \/ JoinSession
             \/ EndReconcile \/ EditProfile \/ remove_connector
             \/ \E e \in Editor : BeginEdit(e) \/ \E enable \in BOOLEAN : CommitEdit(e, enable)
    BY <2>1, <2>7 DEF connectorVars, threadVars, Shutdown, ReadDefinitions, StopSession, JoinSession,
       EndReconcile, EditProfile, remove_connector, retire_connector, purge_connector, BeginEdit, CommitEdit
  <2>8. ASSUME NEW t \in Session,
               \/ Attempt(t) \/ Started(t) \/ Greet(t) \/ Mark(t) \/ Marked(t) \/ LeaveLoop(t)
               \/ Report(t) \/ Reported(t) \/ BackedOff(t) \/ SkipFlush(t) \/ Break(t)
        PROVE  UNCHANGED buffer
    BY <2>8 DEF Attempt, Started, Greet, Mark, Marked, LeaveLoop, Report, Reported, BackedOff,
                SkipFlush, Break
  <2> QED
    BY <1>1, <2>1, <2>2, <2>3, <2>4, <2>5, <2>6, <2>7, <2>8 DEF ConnectorsNext, Thread, Supervise
<1>2. ASSUME SessionInv, StoreInv, [ConnectorsNext]_connectorVars
      PROVE  [\A s \in Session, k \in Key :
               LET d == buffer[s][k]
               IN  d = 0 \/ buffer'[s][k] >= d \/ copies'[d] > copies[d] \/ Excused(s)]_connectorVars
  BY <1>1, <1>2 DEF Kept
<1> QED
  BY <1>2, StoreHolds, PTL DEF ConnectorsSpec, WindowKept
=============================================================================
