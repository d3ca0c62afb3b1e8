------------------------------ MODULE Replication ------------------------------
(***************************************************************************)
(* Export of the logs of ledgers to external systems                       *)
(* (internal/replication).  A pipeline reads the logs of one ledger in     *)
(* pages and pushes them to the driver of one exporter; the manager        *)
(* starts, stops, resets and restores the pipelines kept in the table      *)
(* _system.pipelines.                                                      *)
(*                                                                         *)
(* The manager runs its operations under one mutex.  Shutdown puts its     *)
(* signal in the buffer of the handler's stop channel and waits, with the  *)
(* mutex, until the handler takes it at a select: an operation that        *)
(* succeeds is one step, the one in which the last handler it stops does   *)
(* so.  If the context of the request ends first the operation gives up    *)
(* (GiveUp) and the signal stays behind: the handler ends at its next      *)
(* select and remains in m.pipelines, where no later stop is answered.  A  *)
(* handler (PipelineHandler.Run), the goroutine that stores its cursor,    *)
(* the driver being started and the rest of the ledger all run beside the  *)
(* manager, without that mutex.                                            *)
(***************************************************************************)
EXTENDS Naturals, FiniteSets, FiniteSetsExt, Bags

CONSTANTS
  Pipelines,      \* identifiers (UUIDs) that CreatePipeline may draw
  Ledgers,
  Exporters,
  LedgerOf,       \* [Pipelines -> Ledgers], PipelineConfiguration.Ledger
  ExporterOf,     \* [Pipelines -> Exporters], PipelineConfiguration.ExporterID
  MaxLog,         \* bound: log ids of a ledger are 1 .. MaxLog
  PageSize,       \* PipelineHandlerConfig.LogsPageSize
  OrderedCommits, \* logs become visible in the order of their ids (HASH_LOGS=SYNC)
  Budgets         \* bound: how often the disturbances of Faults may happen together

Faults == {"stop", "reset", "crash", "update", "delete", "bucket", "open", "fail", "giveup"}

ASSUME ReplicationAssumption ==
  /\ IsFiniteSet(Pipelines)
  /\ LedgerOf \in [Pipelines -> Ledgers]
  /\ ExporterOf \in [Pipelines -> Exporters]
  /\ MaxLog \in Nat
  /\ PageSize \in Nat \ {0}
  /\ OrderedCommits \in BOOLEAN
  /\ Budgets \subseteq [Faults -> Nat]

Ids == 1 .. MaxLog

VARIABLES
  committed,  \* [Ledgers -> SUBSET Ids]: the logs visible to ListLogs
  deleted,    \* ledgers of a bucket marked deleted: OpenLedger does not find them
  row,        \* _system.pipelines: [st, last]; last = 0 stands for a null last_log_id
  conf,       \* _system.exporters: version of each exporter's configuration, 0 when absent
  h,          \* m.pipelines and the handler behind each entry; pc = "off" when absent,
              \* "dead" when Run has returned; stop: a signal nobody waits for any more
  store,      \* what the cursor goroutine of a running handler has received, 0 if nothing
  late,       \* the same for goroutines whose handler was stopped: a bag of ids
  driver,     \* m.drivers: [id, conf, ready]; id = 0 when absent; outlived: it had no
              \* pipeline when its exporter was updated, and stayed
  sent,       \* ids the exporter's target has received since the last reset that met no
              \* cursor on its way to the row
  ever,       \* ids it has received at all
  left        \* what remains of the budget

vars == <<committed, deleted, row, conf, h, store, late, driver, sent, ever, left>>
managerVars == <<h, store, late, driver>>

Off == [pc |-> "off", last |-> 0, batch |-> {}, drv |-> 0, stop |-> FALSE]
NoDriver == [id |-> 0, conf |-> 0, ready |-> FALSE, outlived |-> FALSE]
DriverIds == 1 .. Cardinality(Pipelines) + 1

Live == {p \in Pipelines : row[p].st = "live"}
Running(hs) == {p \in Pipelines : hs[p].pc # "off"}

(* Every handler of P is absent or at a select with a case on stopChannel  *)
(* (the timers, and Accept), and takes the signal Shutdown has put there.  *)
(* Behind the signal of a stop that was given up nothing is answered.      *)
AtSelect(P) == \A p \in P : h[p].pc = "off" \/ (h[p].pc \in {"wait", "push"} /\ ~h[p].stop)

Spend(f) == left[f] > 0 /\ left' = [left EXCEPT ![f] = @ - 1]

-----------------------------------------------------------------------------
(* The manager's own state, and what starting and stopping pipelines makes *)
(* of it.                                                                  *)

Manager == [h |-> h, store |-> store, late |-> late, driver |-> driver]
Become(m) == h' = m.h /\ store' = m.store /\ late' = m.late /\ driver' = m.driver

(* A number no driver of exporter e in use has: a new pointer. *)
NewDriverId(m, e) ==
  Min(DriverIds \ ({m.driver[e].id} \union {m.h[p].drv : p \in {q \in Pipelines : ExporterOf[q] = e}}))

(* initExporter for every exporter in E, created from the configurations cf. *)
InitExporter(m, E, cf) ==
  [m EXCEPT !.driver = [e \in Exporters |->
     IF e \in E /\ m.driver[e].id = 0
     THEN [id |-> NewDriverId(m, e), conf |-> cf[e], ready |-> FALSE, outlived |-> FALSE]
     ELSE m.driver[e]]]

(* startPipeline for every pipeline in P, none of which is running: each   *)
(* handler starts from the cursor read from its row.                       *)
StartPipelines(m, P, rows, cf) ==
  LET d == InitExporter(m, {ExporterOf[p] : p \in P}, cf) IN
  [d EXCEPT
     !.h = [p \in Pipelines |->
              IF p \in P
              THEN [Off EXCEPT !.pc = "wait", !.last = rows[p].last, !.drv = d.driver[ExporterOf[p]].id]
              ELSE m.h[p]],
     !.store = [p \in Pipelines |-> IF p \in P THEN 0 ELSE m.store[p]]]

(* stopExporterIfNeeded: the exporters of the pipelines stopped, the       *)
(* handlers being hs now, whose driver no entry of m.pipelines holds.      *)
Unused(m, hs) ==
  {e \in {ExporterOf[p] : p \in Running(m.h) \ Running(hs)} :
     ~\E p \in Running(hs) : ExporterOf[p] = e /\ hs[p].drv = m.driver[e].id}

(* stopPipeline for every running pipeline in P, with stopExporterIfNeeded *)
(* and stopDriver.  The cursor goroutine is not waited for: what it has    *)
(* received it stores later.                                               *)
StopPipelines(m, P) ==
  LET hs == [p \in Pipelines |-> IF p \in P THEN Off ELSE m.h[p]] IN
  [m EXCEPT
     !.h = hs,
     !.store = [p \in Pipelines |-> IF p \in P THEN 0 ELSE m.store[p]],
     !.late = [p \in Pipelines |->
                 IF p \in P /\ m.store[p] # 0 THEN m.late[p] (+) SetToBag({m.store[p]}) ELSE m.late[p]],
     !.driver = [e \in Exporters |-> IF e \in Unused(m, hs) THEN NoDriver ELSE m.driver[e]]]

(* The signal of a Shutdown that gave up, in the channel of p's handler.   *)
Signal(m, p) == [m EXCEPT !.h[p].stop = m.h[p].pc # "dead"]

CanOpen(P) == \A p \in P : LedgerOf[p] \notin deleted

(* synchronizePipelines from the state m: every listed pipeline that is    *)
(* not running is started, every running one not listed is stopped.        *)
SynchronizeOk(m, rows, cf) ==
  LET listed == {p \in Pipelines : rows[p].st = "live"}
      todo == listed \ Running(m.h)
  IN /\ CanOpen(todo)
     /\ AtSelect(Running(m.h) \ listed)
     /\ Become(StopPipelines(StartPipelines(m, todo, rows, cf), Running(m.h) \ listed))

(* The same, returning at the first pipeline that cannot be started: the   *)
(* ones listed before it (in no particular order) have been started, and   *)
(* the driver of the failing one was created before OpenLedger failed.     *)
SynchronizeFails(m, rows, cf) ==
  LET todo == {p \in Pipelines : rows[p].st = "live"} \ Running(m.h) IN
  \E f \in todo : \E P \in SUBSET (todo \ {f}) :
    /\ CanOpen(P)
    /\ LedgerOf[f] \in deleted
    /\ Become(InitExporter(StartPipelines(m, P, rows, cf), {ExporterOf[f]}, cf))

-----------------------------------------------------------------------------
(* Operations of the manager.                                              *)

(* The timer of Manager.Run, and its first pass after a restart. *)
Synchronize ==
  /\ SynchronizeOk(Manager, row, conf)
  /\ UNCHANGED <<committed, deleted, row, conf, sent, ever, left>>

SynchronizeAborts ==
  /\ SynchronizeFails(Manager, row, conf)
  /\ UNCHANGED <<committed, deleted, row, conf, sent, ever, left>>

(* CreateExporter: only the row, under an identifier never used before. *)
CreateExporter(e) ==
  /\ conf[e] = 0 /\ \A p \in Pipelines : ExporterOf[p] = e => row[p].st = "new"
  /\ conf' = [conf EXCEPT ![e] = 1]
  /\ UNCHANGED <<committed, deleted, row, managerVars, sent, ever, left>>

(* CreatePipeline: the insert (refused by the unique index and by the      *)
(* reference to the exporter), then startPipeline, whose error is logged.  *)
CreatePipeline(p) ==
  LET rows == [row EXCEPT ![p] = [st |-> "live", last |-> 0]] IN
  /\ row[p].st = "new" /\ conf[ExporterOf[p]] > 0
  /\ ~\E q \in Live : LedgerOf[q] = LedgerOf[p] /\ ExporterOf[q] = ExporterOf[p]
  /\ row' = rows
  /\ \/ CanOpen({p}) /\ Become(StartPipelines(Manager, {p}, rows, conf)) /\ UNCHANGED left
     \/ CanOpen({p}) /\ Spend("open") /\ Become(InitExporter(Manager, {ExporterOf[p]}, conf))
  /\ UNCHANGED <<committed, deleted, conf, sent, ever>>

(* StartPipeline: GetPipeline, then startPipeline. *)
StartPipeline(p) ==
  /\ p \in Live \ Running(h) /\ CanOpen({p})
  /\ Become(StartPipelines(Manager, {p}, row, conf))
  /\ UNCHANGED <<committed, deleted, row, conf, sent, ever, left>>

(* StopPipeline: nothing is written to the row. *)
StopPipeline(p) ==
  /\ p \in Running(h) /\ AtSelect({p}) /\ Spend("stop")
  /\ Become(StopPipelines(Manager, {p}))
  /\ UNCHANGED <<committed, deleted, row, conf, sent, ever>>

(* DeletePipeline: refused unless the pipeline is running. *)
DeletePipeline(p) ==
  /\ p \in Running(h) /\ AtSelect({p}) /\ Spend("delete")
  /\ Become(StopPipelines(Manager, {p}))
  /\ row' = [row EXCEPT ![p].st = IF @ = "live" THEN "gone" ELSE @]
  /\ UNCHANGED <<committed, deleted, conf, sent, ever>>

(* ResetPipeline: stop if started, clear the cursor, start again if it was *)
(* started.  From here on the target is to receive every log again, unless *)
(* a cursor is still on its way, which will be stored over the cleared one.*)
ResetPipeline(p) ==
  LET started == {p} \intersect Running(h)
      rows == [row EXCEPT ![p].last = 0]
      m == StopPipelines(Manager, started)
  IN /\ p \in Live /\ AtSelect({p}) /\ Spend("reset")
     /\ row' = rows
     /\ sent' = [sent EXCEPT ![p] = IF store[p] = 0 /\ late[p] = EmptyBag THEN {} ELSE @]
     /\ \/ CanOpen(started) /\ Become(StartPipelines(m, started, rows, conf))
        \/ ~CanOpen(started) /\ Become(InitExporter(m, {ExporterOf[p]}, conf))
     /\ UNCHANGED <<committed, deleted, conf, ever>>

(* ResetPipeline whose update of the row fails after the stop. *)
ResetPipelineFails(p) ==
  /\ p \in Running(h) /\ AtSelect({p}) /\ Spend("fail")
  /\ Become(StopPipelines(Manager, {p}))
  /\ UNCHANGED <<committed, deleted, row, conf, sent, ever>>

Of(e) == {p \in Running(h) : ExporterOf[p] = e}

(* StopPipeline, DeletePipeline, ResetPipeline, UpdateExporter or          *)
(* DeleteExporter whose context ends in the Shutdown of p: it returns the  *)
(* error and does nothing more.  The last two, in stopExporter, may have   *)
(* stopped other pipelines of the exporter before.                         *)
GiveUp(p) ==
  /\ p \in Running(h) /\ Spend("giveup")
  /\ \E P \in SUBSET (Of(ExporterOf[p]) \ {p}) :
       AtSelect(P) /\ Become(Signal(StopPipelines(Manager, P), p))
  /\ UNCHANGED <<committed, deleted, row, conf, sent, ever>>

(* DeleteExporter: stopExporter, then the row, whose pipelines go with it. *)
DeleteExporter(e) ==
  /\ conf[e] > 0 /\ AtSelect(Of(e)) /\ Spend("delete")
  /\ Become(StopPipelines(Manager, Of(e)))
  /\ conf' = [conf EXCEPT ![e] = 0]
  /\ row' = [p \in Pipelines |-> IF p \in Live /\ ExporterOf[p] = e THEN [row[p] EXCEPT !.st = "gone"] ELSE row[p]]
  /\ UNCHANGED <<committed, deleted, sent, ever>>

(* Faulty: the pipelines of the exporter keep their driver. *)
UpdateExporterRow(e) ==
  LET cf == [conf EXCEPT ![e] = @ + 1] IN
  /\ conf[e] > 0 /\ Spend("update")
  /\ conf' = cf
  /\ SynchronizeOk(Manager, row, cf)
  /\ UNCHANGED <<committed, deleted, row, sent, ever>>

(* UpdateExporter: stopExporter, the update of the row, then               *)
(* synchronizePipelines, which may fail in reading the list of pipelines.  *)
(* A driver that a failed start had left without a pipeline is not stopped.*)
UpdateExporter(e) ==
  LET cf == [conf EXCEPT ![e] = @ + 1]
      kept == Of(e) = {} /\ driver[e].id # 0
      m == IF kept THEN [Manager EXCEPT !.driver[e].outlived = TRUE] ELSE StopPipelines(Manager, Of(e))
  IN /\ conf[e] > 0 /\ AtSelect(Of(e)) /\ Spend("update")
     /\ conf' = cf
     /\ SynchronizeOk(m, row, cf) \/ SynchronizeFails(m, row, cf) \/ Become(m)
     /\ UNCHANGED <<committed, deleted, row, sent, ever>>

(* UpdateExporter or DeleteExporter failing on the row, or between two     *)
(* pipelines: those stopped stay stopped.                                  *)
UpdateExporterFails(e) ==
  \E P \in SUBSET Of(e) :
    /\ P # {} /\ AtSelect(P) /\ Spend("fail")
    /\ Become(StopPipelines(Manager, P))
    /\ UNCHANGED <<committed, deleted, row, conf, sent, ever>>

-----------------------------------------------------------------------------
(* PipelineHandler.Run, the goroutine storing its cursor and the driver.   *)

(* Faulty: the page is taken from the newest log down. *)
PageDescending(l, last) ==
  LET new == {i \in committed[l] : i > last} IN
  {i \in new : Cardinality({j \in new : j >= i}) <= PageSize}

(* Faulty: the first log after the cursor is left out. *)
PageAfterNext(l, last) ==
  LET new == {i \in committed[l] : i > last + 1} IN
  {i \in new : Cardinality({j \in new : j <= i}) <= PageSize}

(* ListLogs: the first PageSize logs after the cursor, in ascending order. *)
Page(l, last) ==
  LET new == {i \in committed[l] : i > last} IN
  {i \in new : Cardinality({j \in new : j <= i}) <= PageSize}

(* A page that is not empty; an empty one and an error only set the timer. *)
Fetch(p) ==
  /\ h[p].pc = "wait" /\ Page(LedgerOf[p], h[p].last) # {}
  /\ h' = [h EXCEPT ![p].pc = "push", ![p].batch = Page(LedgerOf[p], h[p].last)]
  /\ UNCHANGED <<committed, deleted, row, conf, store, late, driver, sent, ever, left>>

(* Run takes the signal of a stop that was given up, at a select, and      *)
(* returns; nobody removes the handler from m.pipelines.                   *)
Exit(p) ==
  /\ h[p].stop /\ h[p].pc \in {"wait", "push"}
  /\ h' = [h EXCEPT ![p] = [Off EXCEPT !.pc = "dead", !.drv = h[p].drv]]
  /\ UNCHANGED <<committed, deleted, row, conf, store, late, driver, sent, ever, left>>

(* DriverFacade.Accept reaches the driver only once it is ready. *)
Accepts(p) ==
  LET d == driver[ExporterOf[p]] IN h[p].pc = "push" /\ d.id = h[p].drv /\ d.ready

(* The target of p receives the logs S. *)
Receive(p, S) ==
  /\ sent' = [sent EXCEPT ![p] = @ \union S]
  /\ ever' = [ever EXCEPT ![p] = @ \union S]

(* Accept returns without error: the page is at the target. *)
Push(p) ==
  /\ Accepts(p)
  /\ Receive(p, h[p].batch)
  /\ h' = [h EXCEPT ![p].pc = "send", ![p].last = Max(h[p].batch), ![p].batch = {}]
  /\ UNCHANGED <<committed, deleted, row, conf, store, late, driver, left>>

(* Accept fails, or is cancelled by a stop, after a part of the page       *)
(* reached the target; the handler waits and pushes the page again.        *)
PushPartly(p) ==
  /\ Accepts(p)
  /\ \E S \in SUBSET h[p].batch : Receive(p, S)
  /\ UNCHANGED <<committed, deleted, row, conf, managerVars, left>>

(* The cursor goes over the unbuffered channel ingestedLogs. *)
Send(p) ==
  /\ h[p].pc = "send" /\ store[p] = 0
  /\ store' = [store EXCEPT ![p] = h[p].last]
  /\ h' = [h EXCEPT ![p].pc = "wait"]
  /\ UNCHANGED <<committed, deleted, row, conf, late, driver, sent, ever, left>>

(* StorePipelineState(p, i): an update of the row if there is one, or a    *)
(* failure that is logged.                                                 *)
StorePipelineState(p, i) ==
  row' = [row EXCEPT ![p].last = IF row[p].st = "live" THEN i ELSE @] \/ UNCHANGED row

StoreCursor(p) ==
  /\ store[p] # 0
  /\ StorePipelineState(p, store[p])
  /\ store' = [store EXCEPT ![p] = 0]
  /\ UNCHANGED <<committed, deleted, conf, h, late, driver, sent, ever, left>>

StoreLate(p) ==
  \E i \in BagToSet(late[p]) :
    /\ StorePipelineState(p, i)
    /\ late' = [late EXCEPT ![p] = @ (-) SetToBag({i})]
    /\ UNCHANGED <<committed, deleted, conf, h, store, driver, sent, ever, left>>

(* DriverFacade.Run: Start is retried until it succeeds. *)
DriverReady(e) ==
  /\ driver[e].id # 0 /\ ~driver[e].ready
  /\ driver' = [driver EXCEPT ![e].ready = TRUE]
  /\ UNCHANGED <<committed, deleted, row, conf, h, store, late, sent, ever, left>>

-----------------------------------------------------------------------------
(* The rest of the system.                                                 *)

(* A log becomes visible. *)
Commit(l, i) ==
  /\ i \notin committed[l] /\ l \notin deleted
  /\ OrderedCommits => \A j \in 1 .. i - 1 : j \in committed[l]
  /\ committed' = [committed EXCEPT ![l] = @ \union {i}]
  /\ UNCHANGED <<deleted, row, conf, managerVars, sent, ever, left>>

(* DeleteBucket of the bucket that holds ledger l. *)
DeleteBucket(l) ==
  /\ l \notin deleted /\ Spend("bucket")
  /\ deleted' = deleted \union {l}
  /\ UNCHANGED <<committed, row, conf, managerVars, sent, ever>>

(* The process dies, or is stopped (Manager.Stop): the next one starts     *)
(* with empty maps and restores its pipelines by Synchronize.              *)
Crash ==
  /\ Running(h) # {} /\ Spend("crash")
  /\ h' = [p \in Pipelines |-> Off]
  /\ store' = [p \in Pipelines |-> 0]
  /\ late' = [p \in Pipelines |-> EmptyBag]
  /\ driver' = [e \in Exporters |-> NoDriver]
  /\ UNCHANGED <<committed, deleted, row, conf, sent, ever>>

-----------------------------------------------------------------------------
Init ==
  /\ committed = [l \in Ledgers |-> {}]
  /\ deleted = {}
  /\ row = [p \in Pipelines |-> [st |-> "new", last |-> 0]]
  /\ conf = [e \in Exporters |-> 0]
  /\ h = [p \in Pipelines |-> Off]
  /\ store = [p \in Pipelines |-> 0]
  /\ late = [p \in Pipelines |-> EmptyBag]
  /\ driver = [e \in Exporters |-> NoDriver]
  /\ sent = [p \in Pipelines |-> {}]
  /\ ever = [p \in Pipelines |-> {}]
  /\ left \in Budgets

Next ==
  \/ Synchronize \/ SynchronizeAborts \/ Crash
  \/ \E e \in Exporters :
       \/ CreateExporter(e) \/ DeleteExporter(e) \/ UpdateExporter(e) \/ UpdateExporterFails(e)
       \/ DriverReady(e)
  \/ \E p \in Pipelines :
       \/ CreatePipeline(p) \/ StartPipeline(p) \/ StopPipeline(p) \/ DeletePipeline(p)
       \/ ResetPipeline(p) \/ ResetPipelineFails(p) \/ GiveUp(p)
       \/ Exit(p) \/ Fetch(p) \/ Push(p) \/ PushPartly(p) \/ Send(p) \/ StoreCursor(p) \/ StoreLate(p)
  \/ \E l \in Ledgers : DeleteBucket(l) \/ \E i \in Ids : Commit(l, i)

Spec == Init /\ [][Next]_vars

(* The goroutines run, the timer of the manager fires, a driver starts in  *)
(* the end and the target accepts a page it is offered again and again.    *)
Fairness ==
  /\ WF_vars(Synchronize)
  /\ \A e \in Exporters : WF_vars(DriverReady(e))
  /\ \A p \in Pipelines :
       WF_vars(Fetch(p)) /\ WF_vars(Push(p)) /\ WF_vars(Send(p)) /\ WF_vars(StoreCursor(p))

FairSpec == Spec /\ Fairness

-----------------------------------------------------------------------------
(* The stored cursor of a pipeline, the cursor of its handler and every    *)
(* cursor still on its way to the row cover no visible log the target has  *)
(* not received: whatever is restored after a crash, no log is skipped.    *)
CursorCoversSent ==
  \A p \in Pipelines :
    \A c \in {row[p].last, h[p].last, store[p]} \union BagToSet(late[p]) :
      \A i \in committed[LedgerOf[p]] : i <= c => i \in ever[p]

(* Whatever is stopped, given up, deleted, updated, restored or fails, a   *)
(* handler in m.pipelines exports for a pipeline that has a row, and       *)
(* pushes to the driver registered for its exporter, never to one that     *)
(* another pipeline has stopped.  That driver was built from the           *)
(* exporter's present configuration, with one exception: a failed start    *)
(* had left it, and it outlived an update that found no pipeline to stop.  *)
HandlersAreCurrent ==
  \A p \in Running(h) :
    LET d == driver[ExporterOf[p]] IN
    /\ p \in Live
    /\ h[p].drv = d.id
    /\ d.conf = conf[ExporterOf[p]] \/ d.outlived

(* Every log visible in the ledger of a pipeline reaches its target, and   *)
(* does so again after a reset, unless the pipeline is deleted, its        *)
(* handler has ended after a stop that was given up, or the ledger of some *)
(* pipeline, at which every pass of the manager then ends, is deleted.     *)
EventuallySent ==
  \A p \in Pipelines : \A i \in Ids :
    (p \in Live /\ i \in committed[LedgerOf[p]])
      ~> \/ i \in sent[p] \/ p \notin Live \/ h[p].pc = "dead"
         \/ \E q \in Live : LedgerOf[q] \in deleted
=============================================================================
