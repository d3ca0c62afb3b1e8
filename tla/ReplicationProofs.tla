--------------------------- MODULE ReplicationProofs ---------------------------
(***************************************************************************)
(* For any pipelines, ledgers and exporters, any page size and any number  *)
(* of faults: handlers push to the registered driver of their exporter,    *)
(* and, when logs become visible in the order of their ids, no cursor      *)
(* covers a log that its target has not received.                          *)
(***************************************************************************)
EXTENDS Replication, Integers, FiniteSetTheorems, WellFoundedInduction, TLAPS

(* The state, its handlers and its drivers.                                *)
Handler ==
  [pc : {"off", "wait", "push", "send", "dead"}, last : Nat, batch : SUBSET Ids, drv : Nat, stop : BOOLEAN]
Driver == [id : Nat, conf : Nat, ready : BOOLEAN, outlived : BOOLEAN]
Row == [st : {"new", "live", "gone"}, last : Nat]

StateOK ==
  /\ committed \in [Ledgers -> SUBSET Ids]
  /\ row \in [Pipelines -> Row]
  /\ conf \in [Exporters -> Nat]
  /\ ever \in [Pipelines -> SUBSET Ids]
  /\ left \in [Faults -> Nat]

(* The state of a manager, in memory or on its way through an operation.   *)
Managed(m) ==
  /\ DOMAIN m = {"h", "store", "late", "driver"}
  /\ m.h \in [Pipelines -> Handler]
  /\ \A p \in Pipelines : m.h[p].pc = "push" => m.h[p].batch # {}
  /\ m.store \in [Pipelines -> Nat]
  /\ DOMAIN m.late = Pipelines
  /\ \A p \in Pipelines : BagToSet(m.late[p]) \subseteq Nat
  /\ m.driver \in [Exporters -> Driver]

(* A running handler has the registered driver of its exporter; one that   *)
(* is off has none.                                                        *)
Registered(m) ==
  \A p \in Pipelines :
    IF m.h[p].pc = "off" THEN m.h[p].drv = 0
    ELSE m.h[p].drv # 0 /\ m.h[p].drv = m.driver[ExporterOf[p]].id

(* What runs has a row. *)
RunsLive(m, rows) == \A p \in Pipelines : m.h[p].pc # "off" => rows[p].st = "live"

HandlersInv == StateOK /\ Managed(Manager) /\ Registered(Manager) /\ RunsLive(Manager, row)

(* A driver registered for an exporter that exists has its configuration,  *)
(* unless it outlived an update.                                           *)
Fresh(m, cf) ==
  \A e \in Exporters : m.driver[e].id # 0 /\ cf[e] > 0 => m.driver[e].conf = cf[e] \/ m.driver[e].outlived

(* A driver belongs to a pipeline that was created once, and a pipeline to *)
(* an exporter that exists.                                                *)
DriversHaveRows(m, rows) ==
  \A e \in Exporters : m.driver[e].id # 0 => \E p \in Pipelines : ExporterOf[p] = e /\ rows[p].st # "new"
RowsHaveExporters == \A p \in Pipelines : row[p].st = "live" => conf[ExporterOf[p]] > 0

ConfigurationsInv ==
  Fresh(Manager, conf) /\ DriversHaveRows(Manager, row) /\ RowsHaveExporters

(* The logs of a ledger are visible from the first to the last.            *)
Prefix == \A l \in Ledgers : \A i \in committed[l] : \A j \in 1 .. i : j \in committed[l]

(* A cursor stands at a visible log up to which all have been received.    *)
Good(p, c) ==
  \/ c = 0
  \/ /\ c \in committed[LedgerOf[p]]
     /\ \A i \in committed[LedgerOf[p]] : i <= c => i \in ever[p]

(* The page on its way follows its handler's cursor without a gap.         *)
Gapless(p, x) ==
  /\ x.batch # {} /\ x.batch \subseteq committed[LedgerOf[p]]
  /\ \A b \in x.batch : \A i \in committed[LedgerOf[p]] : i <= b => i \in x.batch \/ i <= x.last

Covered(m) ==
  \A p \in Pipelines :
    /\ Good(p, m.h[p].last) /\ Good(p, m.store[p])
    /\ \A c \in BagToSet(m.late[p]) : Good(p, c)
    /\ m.h[p].pc = "push" => Gapless(p, m.h[p])

CursorsInv == Prefix /\ Covered(Manager) /\ \A p \in Pipelines : Good(p, row[p].last)

-----------------------------------------------------------------------------
(* Numbers and bags.                                                       *)

LEMMA LeastNatural ==
  ASSUME NEW S, S \subseteq Nat, S # {}
  PROVE  \E x \in S : \A y \in S : x <= y
<1>1. PICK x \in S : \A y \in S : ~ (<<y, x>> \in OpToRel(<, Nat))
  BY NatLessThanWellFounded, WFMin
<1>2. \A y \in S : ~ (y < x)
  BY <1>1 DEF OpToRel
<1> QED
  BY <1>2

LEMMA LeastIsMin ==
  ASSUME NEW S, S \subseteq Nat, S # {}
  PROVE  Min(S) \in S
  BY LeastNatural DEF Min

(* The largest of some of the ids. *)
LEMMA LargestId ==
  ASSUME NEW S, S \subseteq Ids, S # {}
  PROVE  Max(S) \in S /\ \A y \in S : Max(S) >= y
<1> DEFINE T == {t \in Nat : \E i \in S : t = MaxLog - i}
<1>0. MaxLog \in Nat /\ \A i \in S : i \in Nat /\ i <= MaxLog
  BY ReplicationAssumption DEF Ids
<1>1. T \subseteq Nat /\ T # {}
  <2>1. PICK i \in S : TRUE
    OBVIOUS
  <2>2. MaxLog - i \in T
    BY <1>0, <2>1
  <2> QED
    BY <2>2
<1>2. PICK t \in T : \A u \in T : t <= u
  <2> HIDE DEF T
  <2> QED
    BY <1>1, LeastNatural
<1>3. PICK x \in S : t = MaxLog - x
  OBVIOUS
<1>4. \A y \in S : x >= y
  BY <1>0, <1>2, <1>3
<1> QED
  BY <1>4 DEF Max

LEMMA BagAdded ==
  ASSUME NEW B, NEW x
  PROVE  BagToSet(B (+) SetToBag({x})) = BagToSet(B) \union {x}
  BY DEF (+), BagToSet, SetToBag

LEMMA BagRemoved ==
  ASSUME NEW B, NEW x
  PROVE  BagToSet(B (-) SetToBag({x})) \subseteq BagToSet(B)
  BY DEF (-), BagToSet, SetToBag

LEMMA BagEmpty == BagToSet(EmptyBag) = {}
  BY DEF BagToSet, EmptyBag, SetToBag

LEMMA OffTyped == Off \in Handler /\ Off.pc = "off" /\ Off.last = 0 /\ Off.drv = 0
  BY DEF Off, Handler

LEMMA DriverTyped ==
  ASSUME NEW i \in Nat, NEW c \in Nat
  PROVE  [id |-> i, conf |-> c, ready |-> FALSE, outlived |-> FALSE] \in Driver
  BY DEF Driver

LEMMA NoDriverTyped == NoDriver \in Driver /\ NoDriver.id = 0
  BY DEF NoDriver, Driver

-----------------------------------------------------------------------------
(* What the operators of the manager make of its state.                    *)

(* An exporter without a driver has no handler, so that any number will do *)
(* for the driver it gets.                                                 *)
LEMMA NewIdTyped ==
  ASSUME NEW m, Managed(m), Registered(m), NEW e \in Exporters, m.driver[e].id = 0
  PROVE  NewDriverId(m, e) \in Nat \ {0}
<1> DEFINE used == {m.h[p].drv : p \in {q \in Pipelines : ExporterOf[q] = e}}
<1>1. \A p \in Pipelines : ExporterOf[p] = e => m.h[p].drv = 0
  BY DEF Registered
<1>2. used \subseteq {0}
  BY <1>1
<1>3. Cardinality(Pipelines) \in Nat
  BY ReplicationAssumption, FS_CardinalityType
<1>4. DriverIds \subseteq Nat \ {0} /\ 1 \in DriverIds
  BY <1>3 DEF DriverIds
<1> DEFINE S == DriverIds \ ({m.driver[e].id} \union used)
<1>5. S \subseteq Nat \ {0} /\ S # {}
  BY <1>2, <1>4
<1>6. Min(S) \in S
  <2> HIDE DEF S
  <2> QED
    BY <1>5, LeastIsMin
<1>7. NewDriverId(m, e) = Min(S)
  BY DEF NewDriverId
<1> QED
  BY <1>5, <1>6, <1>7

InitFacts(n, m, E, cf) ==
  /\ Managed(n)
  /\ n.h = m.h /\ n.store = m.store /\ n.late = m.late
  /\ \A e \in Exporters : e \in E => n.driver[e].id # 0
  /\ \A e \in Exporters :
       \/ n.driver[e] = m.driver[e]
       \/ e \in E /\ m.driver[e].id = 0 /\ n.driver[e].id # 0 /\ n.driver[e].conf = cf[e]

LEMMA InitEffect ==
  ASSUME NEW m, Managed(m), Registered(m), NEW E, NEW cf \in [Exporters -> Nat]
  PROVE  InitFacts(InitExporter(m, E, cf), m, E, cf)
<1> DEFINE n == InitExporter(m, E, cf)
           d == [e \in Exporters |->
                   IF e \in E /\ m.driver[e].id = 0
                   THEN [id |-> NewDriverId(m, e), conf |-> cf[e], ready |-> FALSE, outlived |-> FALSE]
                   ELSE m.driver[e]]
<1>1. n = [m EXCEPT !.driver = d]
  BY DEF InitExporter
<1>2. /\ DOMAIN n = {"h", "store", "late", "driver"} /\ n.driver = d
      /\ n.h = m.h /\ n.store = m.store /\ n.late = m.late
  <2> HIDE DEF d, n
  <2> QED
    BY <1>1 DEF Managed
<1>3. ASSUME NEW e \in Exporters, e \in E, m.driver[e].id = 0
      PROVE  d[e] \in Driver /\ d[e].id # 0 /\ d[e].conf = cf[e]
  <2>1. NewDriverId(m, e) \in Nat \ {0}
    BY <1>3, NewIdTyped
  <2>2. d[e] = [id |-> NewDriverId(m, e), conf |-> cf[e], ready |-> FALSE, outlived |-> FALSE]
    BY <1>3
  <2> HIDE DEF d
  <2>3. cf[e] \in Nat /\ NewDriverId(m, e) \in Nat /\ NewDriverId(m, e) # 0
    BY <1>3, <2>1
  <2>4. d[e].id = NewDriverId(m, e) /\ d[e].conf = cf[e]
    BY <2>2
  <2>5. d[e] \in Driver
    BY <2>2, <2>3, DriverTyped
  <2> QED
    BY <2>3, <2>4, <2>5
<1>4. ASSUME NEW e \in Exporters, ~(e \in E /\ m.driver[e].id = 0)
      PROVE  d[e] = m.driver[e] /\ d[e] \in Driver
  BY <1>4 DEF Managed
<1>5. d \in [Exporters -> Driver]
  <2>1. \A e \in Exporters : d[e] \in Driver
    BY <1>3, <1>4
  <2> QED
    BY <2>1
<1> HIDE DEF d, n
<1>6. Managed(n)
  BY <1>2, <1>5 DEF Managed
<1>7. \A e \in Exporters : e \in E => d[e].id # 0
  BY <1>3, <1>4
<1>8. \A e \in Exporters :
        \/ d[e] = m.driver[e]
        \/ e \in E /\ m.driver[e].id = 0 /\ d[e].id # 0 /\ d[e].conf = cf[e]
  BY <1>3, <1>4
<1> QED
  BY <1>2, <1>6, <1>7, <1>8 DEF n, InitFacts

StartFacts(n, m, P, rows, cf) ==
  /\ Managed(n)
  /\ \A p \in Pipelines : p \notin P => n.h[p] = m.h[p] /\ n.store[p] = m.store[p]
  /\ \A p \in P : /\ n.h[p].pc = "wait" /\ n.h[p].last = rows[p].last /\ n.store[p] = 0
                  /\ n.h[p].drv # 0 /\ n.h[p].drv = n.driver[ExporterOf[p]].id
  /\ n.late = m.late
  /\ \A e \in Exporters :
       \/ n.driver[e] = m.driver[e]
       \/ /\ \E p \in P : ExporterOf[p] = e
          /\ m.driver[e].id = 0 /\ n.driver[e].id # 0 /\ n.driver[e].conf = cf[e]

LEMMA StartEffect ==
  ASSUME NEW m, Managed(m), Registered(m), NEW P \in SUBSET Pipelines,
         NEW rows \in [Pipelines -> Row], NEW cf \in [Exporters -> Nat]
  PROVE  StartFacts(StartPipelines(m, P, rows, cf), m, P, rows, cf)
<1> DEFINE E == {ExporterOf[p] : p \in P}
           d == InitExporter(m, E, cf)
           n == StartPipelines(m, P, rows, cf)
           hs == [p \in Pipelines |->
                    IF p \in P
                    THEN [Off EXCEPT !.pc = "wait", !.last = rows[p].last, !.drv = d.driver[ExporterOf[p]].id]
                    ELSE m.h[p]]
           st == [p \in Pipelines |-> IF p \in P THEN 0 ELSE m.store[p]]
<1>1. n = [d EXCEPT !.h = hs, !.store = st]
  BY DEF StartPipelines
<1>2. InitFacts(d, m, E, cf)
  BY InitEffect
<1>3. \A p \in Pipelines : ExporterOf[p] \in Exporters
  BY ReplicationAssumption
<1>4. \A p \in P : d.driver[ExporterOf[p]].id # 0 /\ d.driver[ExporterOf[p]].id \in Nat
  <2>1. \A p \in P : ExporterOf[p] \in E
    OBVIOUS
  <2> HIDE DEF d, E
  <2>2. \A p \in P : d.driver[ExporterOf[p]].id # 0 /\ d.driver[ExporterOf[p]] \in Driver
    BY <1>2, <1>3, <2>1 DEF InitFacts, Managed
  <2> QED
    BY <2>2 DEF Driver
<1>5. \A e \in Exporters : e \in E => \E p \in P : ExporterOf[p] = e
  OBVIOUS
<1> HIDE DEF d
<1>6. ASSUME NEW p \in P
      PROVE  /\ hs[p] \in Handler /\ hs[p].pc = "wait" /\ hs[p].last = rows[p].last
             /\ hs[p].drv = d.driver[ExporterOf[p]].id
  <2>1. hs[p] = [Off EXCEPT !.pc = "wait", !.last = rows[p].last, !.drv = d.driver[ExporterOf[p]].id]
    OBVIOUS
  <2>2. rows[p].last \in Nat
    BY DEF Row
  <2>3. hs[p] = [pc |-> "wait", last |-> rows[p].last, batch |-> {}, drv |-> d.driver[ExporterOf[p]].id,
                 stop |-> FALSE]
    BY <2>1 DEF Off
  <2> QED
    BY <1>4, <2>2, <2>3 DEF Handler
<1>7. \A p \in Pipelines : p \notin P => hs[p] = m.h[p] /\ hs[p] \in Handler /\ st[p] = m.store[p]
  BY DEF Managed
<1>8. hs \in [Pipelines -> Handler]
  <2>1. \A p \in Pipelines : hs[p] \in Handler
    BY <1>6, <1>7
  <2> QED
    BY <2>1
<1>9. st \in [Pipelines -> Nat] /\ \A p \in P : st[p] = 0
  BY DEF Managed
<1> HIDE DEF hs, st, n, E
<1>10. /\ DOMAIN n = {"h", "store", "late", "driver"}
       /\ n.h = hs /\ n.store = st /\ n.late = d.late /\ n.driver = d.driver
  BY <1>1, <1>2 DEF InitFacts, Managed
<1>11. Managed(n)
  <2>1. \A p \in Pipelines : hs[p].pc = "push" => hs[p].batch # {}
    BY <1>6, <1>7 DEF Managed
  <2> QED
    BY <1>2, <1>8, <1>9, <1>10, <2>1 DEF InitFacts, Managed
<1>12. \A e \in Exporters :
         \/ d.driver[e] = m.driver[e]
         \/ /\ \E p \in P : ExporterOf[p] = e
            /\ m.driver[e].id = 0 /\ d.driver[e].id # 0 /\ d.driver[e].conf = cf[e]
  BY <1>2, <1>5 DEF InitFacts
<1> QED
  BY <1>2, <1>4, <1>6, <1>7, <1>9, <1>10, <1>11, <1>12 DEF n, StartFacts, InitFacts

StopFacts(n, m, P) ==
  /\ Managed(n)
  /\ \A p \in Pipelines : p \notin P =>
       n.h[p] = m.h[p] /\ n.store[p] = m.store[p] /\ n.late[p] = m.late[p]
  /\ \A p \in P : n.h[p] = Off /\ n.store[p] = 0
  /\ \A p \in P : \A c \in BagToSet(n.late[p]) : c \in BagToSet(m.late[p]) \/ c = m.store[p]
  /\ \A e \in Exporters :
       IF /\ \E p \in P : ExporterOf[p] = e /\ m.h[p].pc # "off"
          /\ \A p \in Pipelines \ P : ExporterOf[p] = e => m.h[p].pc = "off"
       THEN n.driver[e] = NoDriver
       ELSE n.driver[e] = m.driver[e]

LEMMA StopEffect ==
  ASSUME NEW m, Managed(m), Registered(m), NEW P \in SUBSET Pipelines
  PROVE  StopFacts(StopPipelines(m, P), m, P)
<1> DEFINE n == StopPipelines(m, P)
           hs == [p \in Pipelines |-> IF p \in P THEN Off ELSE m.h[p]]
           st == [p \in Pipelines |-> IF p \in P THEN 0 ELSE m.store[p]]
           lt == [p \in Pipelines |->
                    IF p \in P /\ m.store[p] # 0 THEN m.late[p] (+) SetToBag({m.store[p]}) ELSE m.late[p]]
           unused == Unused(m, hs)
           dr == [e \in Exporters |-> IF e \in unused THEN NoDriver ELSE m.driver[e]]
<1>1. n = [m EXCEPT !.h = hs, !.store = st, !.late = lt, !.driver = dr]
  BY DEF StopPipelines
<1>2. /\ \A p \in P : hs[p] = Off /\ hs[p] \in Handler /\ st[p] = 0
      /\ \A p \in Pipelines : p \notin P => hs[p] = m.h[p] /\ st[p] = m.store[p] /\ lt[p] = m.late[p]
      /\ hs \in [Pipelines -> Handler] /\ st \in [Pipelines -> Nat] /\ DOMAIN lt = Pipelines
  BY OffTyped DEF Managed
<1>3. \A p \in P : \A c \in BagToSet(lt[p]) : c \in BagToSet(m.late[p]) \/ c = m.store[p]
  <2> SUFFICES ASSUME NEW p \in P PROVE \A c \in BagToSet(lt[p]) : c \in BagToSet(m.late[p]) \/ c = m.store[p]
    OBVIOUS
  <2>1. lt[p] = m.late[p] \/ lt[p] = m.late[p] (+) SetToBag({m.store[p]})
    OBVIOUS
  <2>2. BagToSet(m.late[p] (+) SetToBag({m.store[p]})) = BagToSet(m.late[p]) \union {m.store[p]}
    BY BagAdded
  <2> HIDE DEF lt
  <2> QED
    BY <2>1, <2>2
<1>4. \A e \in Exporters : dr[e] = IF e \in unused THEN NoDriver ELSE m.driver[e]
  OBVIOUS
<1>5. dr \in [Exporters -> Driver]
  <2> HIDE DEF unused
  <2> QED
    BY NoDriverTyped DEF Managed
<1>6. ASSUME NEW e \in Exporters
      PROVE  e \in unused <=>
               /\ \E p \in P : ExporterOf[p] = e /\ m.h[p].pc # "off"
               /\ \A p \in Pipelines \ P : ExporterOf[p] = e => m.h[p].pc = "off"
  <2>2. \A p \in Pipelines : p \in Running(hs) <=> p \notin P /\ m.h[p].pc # "off"
    BY <1>2, OffTyped DEF Running
  <2>1. e \in {ExporterOf[p] : p \in Running(m.h) \ Running(hs)}
          <=> \E p \in P : ExporterOf[p] = e /\ m.h[p].pc # "off"
    <3>1. \A p \in Pipelines : p \in Running(m.h) \ Running(hs) <=> p \in P /\ m.h[p].pc # "off"
      BY <2>2 DEF Running
    <3>2. Running(m.h) \ Running(hs) \subseteq Pipelines
      BY DEF Running
    <3> QED
      BY <3>1, <3>2
  <2>3. \A p \in Running(hs) : ExporterOf[p] = e => hs[p].drv = m.driver[e].id
    BY <1>2, <2>2 DEF Registered, Running
  <2> QED
    BY <2>1, <2>2, <2>3 DEF Running, Unused
<1> HIDE DEF hs, st, lt, dr, unused, n
<1>7. /\ DOMAIN n = {"h", "store", "late", "driver"}
      /\ n.h = hs /\ n.store = st /\ n.late = lt /\ n.driver = dr
  BY <1>1 DEF Managed
<1>8. Managed(n)
  <2>1. \A p \in Pipelines : hs[p].pc = "push" => hs[p].batch # {}
    BY <1>2, OffTyped DEF Managed
  <2>2. ASSUME NEW p \in Pipelines, NEW c \in BagToSet(lt[p])
        PROVE  c \in Nat
    <3>1. BagToSet(m.late[p]) \subseteq Nat /\ m.store[p] \in Nat
      BY DEF Managed
    <3>2. c \in BagToSet(m.late[p]) \/ c = m.store[p]
      BY <1>2, <1>3, <2>2
    <3> QED
      BY <3>1, <3>2
  <2> QED
    BY <1>2, <1>5, <1>7, <2>1, <2>2 DEF Managed
<1> QED
  BY <1>2, <1>3, <1>4, <1>6, <1>7, <1>8 DEF StopFacts, n

(* A signal left in its channel changes nothing else of a handler, and the *)
(* mark of a driver that outlives an update nothing else of the driver.    *)
MarkFacts(n, m) ==
  /\ Managed(n)
  /\ \A p \in Pipelines : /\ n.h[p].pc = m.h[p].pc /\ n.h[p].last = m.h[p].last
                           /\ n.h[p].batch = m.h[p].batch /\ n.h[p].drv = m.h[p].drv
  /\ n.store = m.store /\ n.late = m.late
  /\ \A e \in Exporters : /\ n.driver[e].id = m.driver[e].id /\ n.driver[e].conf = m.driver[e].conf
                          /\ m.driver[e].outlived => n.driver[e].outlived

LEMMA SignalEffect ==
  ASSUME NEW m, Managed(m), NEW p \in Pipelines
  PROVE  MarkFacts(Signal(m, p), m) /\ Signal(m, p).driver = m.driver
<1> DEFINE b == m.h[p].pc # "dead"
           n == [m EXCEPT !.h[p].stop = b]
<1>1. /\ DOMAIN n = {"h", "store", "late", "driver"}
      /\ n.store = m.store /\ n.late = m.late /\ n.driver = m.driver
      /\ n.h = [m.h EXCEPT ![p].stop = b]
  BY DEF Managed
<1>2. m.h \in [Pipelines -> Handler] /\ b \in BOOLEAN
  BY DEF Managed
<1> HIDE DEF b
<1>3. /\ n.h[p] = [m.h[p] EXCEPT !.stop = b] /\ m.h[p] \in Handler
      /\ \A q \in Pipelines : q # p => n.h[q] = m.h[q]
  BY <1>1, <1>2
<1>4. /\ n.h[p] \in Handler /\ n.h[p].pc = m.h[p].pc /\ n.h[p].last = m.h[p].last
      /\ n.h[p].batch = m.h[p].batch /\ n.h[p].drv = m.h[p].drv
  BY <1>2, <1>3 DEF Handler
<1>5. n.h \in [Pipelines -> Handler]
  BY <1>1, <1>2, <1>3, <1>4
<1>6. n = Signal(m, p)
  BY DEF Signal, b
<1> HIDE DEF n
<1>7. Managed(n)
  <2>1. ASSUME NEW q \in Pipelines, n.h[q].pc = "push"
        PROVE  n.h[q].batch # {}
    <3>1. n.h[q].pc = m.h[q].pc /\ n.h[q].batch = m.h[q].batch
      <4>1. CASE q = p
        BY <1>4, <4>1
      <4>2. CASE q # p
        BY <1>3, <4>2
      <4> QED
        BY <4>1, <4>2
    <3> QED
      BY <2>1, <3>1 DEF Managed
  <2>2. /\ m.store \in [Pipelines -> Nat] /\ DOMAIN m.late = Pipelines
        /\ m.driver \in [Exporters -> Driver] /\ \A q \in Pipelines : BagToSet(m.late[q]) \subseteq Nat
    BY DEF Managed
  <2>3. \A q \in Pipelines : BagToSet(n.late[q]) \subseteq Nat
    BY <1>1, <2>2
  <2> QED
    BY <1>1, <1>5, <2>1, <2>2, <2>3 DEF Managed
<1>8. \A q \in Pipelines : /\ n.h[q].pc = m.h[q].pc /\ n.h[q].last = m.h[q].last
                           /\ n.h[q].batch = m.h[q].batch /\ n.h[q].drv = m.h[q].drv
  <2> TAKE q \in Pipelines
  <2>1. CASE q = p
    BY <1>4, <2>1
  <2>2. CASE q # p
    BY <1>3, <2>2
  <2> QED
    BY <2>1, <2>2
<1>9. MarkFacts(n, m) /\ n.driver = m.driver
  BY <1>1, <1>7, <1>8 DEF MarkFacts
<1> QED
  BY <1>6, <1>9

LEMMA OutliveEffect ==
  ASSUME NEW m, Managed(m), NEW e \in Exporters, NEW n, n = [m EXCEPT !.driver[e].outlived = TRUE]
  PROVE  MarkFacts(n, m) /\ n.driver[e].outlived
<1>1. /\ DOMAIN n = {"h", "store", "late", "driver"}
      /\ n.h = m.h /\ n.store = m.store /\ n.late = m.late
      /\ n.driver = [m.driver EXCEPT ![e].outlived = TRUE]
  BY DEF Managed
<1>2. m.driver \in [Exporters -> Driver]
  BY DEF Managed
<1>3. /\ n.driver[e] = [m.driver[e] EXCEPT !.outlived = TRUE] /\ m.driver[e] \in Driver
      /\ \A x \in Exporters : x # e => n.driver[x] = m.driver[x]
  BY <1>1, <1>2
<1>4. /\ n.driver[e] \in Driver /\ n.driver[e].id = m.driver[e].id
      /\ n.driver[e].conf = m.driver[e].conf /\ n.driver[e].outlived
  <2> DEFINE d == m.driver[e]
             k == [d EXCEPT !.outlived = TRUE]
  <2>1. n.driver[e] = k /\ d \in Driver
    BY <1>3
  <2> HIDE DEF d
  <2>2. k \in Driver /\ k.id = d.id /\ k.conf = d.conf /\ k.outlived = TRUE
    BY <2>1 DEF Driver
  <2> HIDE DEF k
  <2> QED
    BY <2>1, <2>2 DEF d
<1>5. n.driver \in [Exporters -> Driver]
  BY <1>1, <1>2, <1>3, <1>4
<1>6. Managed(n)
  <2>1. /\ m.store \in [Pipelines -> Nat] /\ DOMAIN m.late = Pipelines /\ m.h \in [Pipelines -> Handler]
        /\ \A q \in Pipelines : m.h[q].pc = "push" => m.h[q].batch # {}
        /\ \A q \in Pipelines : BagToSet(m.late[q]) \subseteq Nat
    BY DEF Managed
  <2>2. \A q \in Pipelines : BagToSet(n.late[q]) \subseteq Nat
    BY <1>1, <2>1
  <2> QED
    BY <1>1, <1>5, <2>1, <2>2 DEF Managed
<1> QED
  BY <1>1, <1>3, <1>4, <1>6 DEF MarkFacts

-----------------------------------------------------------------------------
(* What the operators keep.                                                *)

Sound(m, rows) == Managed(m) /\ Registered(m) /\ RunsLive(m, rows)

LEMMA InitSound ==
  ASSUME NEW m, NEW rows, Sound(m, rows), NEW E, NEW cf \in [Exporters -> Nat]
  PROVE  Sound(InitExporter(m, E, cf), rows)
<1> DEFINE n == InitExporter(m, E, cf)
<1>1. InitFacts(n, m, E, cf)
  BY InitEffect DEF Sound
<1> HIDE DEF n
<1>2. Registered(n)
  BY <1>1, ReplicationAssumption DEF InitFacts, Sound, Registered
<1>3. RunsLive(n, rows)
  BY <1>1 DEF InitFacts, Sound, RunsLive
<1> QED
  BY <1>1, <1>2, <1>3 DEF n, Sound, InitFacts

LEMMA StartSound ==
  ASSUME NEW m, NEW rows \in [Pipelines -> Row], Sound(m, rows), NEW P \in SUBSET Pipelines,
         \A p \in P : rows[p].st = "live", NEW cf \in [Exporters -> Nat]
  PROVE  Sound(StartPipelines(m, P, rows, cf), rows)
<1> DEFINE n == StartPipelines(m, P, rows, cf)
<1>1. StartFacts(n, m, P, rows, cf)
  BY StartEffect DEF Sound
<1> HIDE DEF n
<1>2. Registered(n)
  <2> SUFFICES ASSUME NEW p \in Pipelines
               PROVE  IF n.h[p].pc = "off" THEN n.h[p].drv = 0
                      ELSE n.h[p].drv # 0 /\ n.h[p].drv = n.driver[ExporterOf[p]].id
    BY DEF Registered
  <2>1. CASE p \in P
    BY <1>1, <2>1 DEF StartFacts
  <2>2. CASE p \notin P
    <3>1. ExporterOf[p] \in Exporters
      BY ReplicationAssumption
    <3>2. n.h[p] = m.h[p]
      BY <1>1, <2>2 DEF StartFacts
    <3>3. m.driver[ExporterOf[p]].id # 0 => n.driver[ExporterOf[p]] = m.driver[ExporterOf[p]]
      BY <1>1, <3>1 DEF StartFacts
    <3> QED
      BY <3>2, <3>3 DEF Sound, Registered
  <2> QED
    BY <2>1, <2>2
<1>3. RunsLive(n, rows)
  BY <1>1 DEF StartFacts, Sound, RunsLive
<1> QED
  BY <1>1, <1>2, <1>3 DEF n, Sound, StartFacts

LEMMA StopSound ==
  ASSUME NEW m, NEW rows, NEW rows2, Sound(m, rows), NEW P \in SUBSET Pipelines,
         \A p \in Pipelines : p \notin P /\ m.h[p].pc # "off" => rows2[p].st = rows[p].st
  PROVE  Sound(StopPipelines(m, P), rows2)
<1> DEFINE n == StopPipelines(m, P)
<1>1. StopFacts(n, m, P)
  BY StopEffect DEF Sound
<1> HIDE DEF n
<1>2. Registered(n)
  <2> SUFFICES ASSUME NEW p \in Pipelines
               PROVE  IF n.h[p].pc = "off" THEN n.h[p].drv = 0
                      ELSE n.h[p].drv # 0 /\ n.h[p].drv = n.driver[ExporterOf[p]].id
    BY DEF Registered
  <2>1. CASE p \in P
    BY <1>1, <2>1, OffTyped DEF StopFacts
  <2>2. CASE p \notin P
    <3>1. ExporterOf[p] \in Exporters
      BY ReplicationAssumption
    <3>2. n.h[p] = m.h[p]
      BY <1>1, <2>2 DEF StopFacts
    <3>3. m.h[p].pc # "off" => n.driver[ExporterOf[p]] = m.driver[ExporterOf[p]]
      BY <1>1, <2>2, <3>1 DEF StopFacts
    <3> QED
      BY <3>2, <3>3 DEF Sound, Registered
  <2> QED
    BY <2>1, <2>2
<1>3. RunsLive(n, rows2)
  BY <1>1, OffTyped DEF StopFacts, Sound, RunsLive
<1> QED
  BY <1>1, <1>2, <1>3 DEF n, Sound, StopFacts

(* Configurations. *)
Configured(m, rows, cf) == Fresh(m, cf) /\ DriversHaveRows(m, rows)

LEMMA InitConfigured ==
  ASSUME NEW m, NEW rows, Sound(m, rows), NEW E, NEW cf \in [Exporters -> Nat],
         Configured(m, rows, cf),
         \A e \in E : \E p \in Pipelines : ExporterOf[p] = e /\ rows[p].st # "new"
  PROVE  Configured(InitExporter(m, E, cf), rows, cf)
<1> DEFINE n == InitExporter(m, E, cf)
<1>1. InitFacts(n, m, E, cf)
  BY InitEffect DEF Sound
<1> HIDE DEF n
<1>2. Fresh(n, cf) /\ DriversHaveRows(n, rows)
  BY <1>1 DEF InitFacts, Configured, Fresh, DriversHaveRows
<1> QED
  BY <1>2 DEF n, Configured

LEMMA StartConfigured ==
  ASSUME NEW m, NEW rows \in [Pipelines -> Row], Sound(m, rows), NEW P \in SUBSET Pipelines,
         \A p \in P : rows[p].st = "live", NEW cf \in [Exporters -> Nat], Configured(m, rows, cf)
  PROVE  Configured(StartPipelines(m, P, rows, cf), rows, cf)
<1> DEFINE n == StartPipelines(m, P, rows, cf)
<1>1. StartFacts(n, m, P, rows, cf)
  BY StartEffect DEF Sound
<1> HIDE DEF n
<1>2. Fresh(n, cf)
  BY <1>1 DEF StartFacts, Configured, Fresh
<1>3. DriversHaveRows(n, rows)
  <2> SUFFICES ASSUME NEW e \in Exporters, n.driver[e].id # 0
               PROVE  \E p \in Pipelines : ExporterOf[p] = e /\ rows[p].st # "new"
    BY DEF DriversHaveRows
  <2>1. CASE n.driver[e] = m.driver[e]
    BY <2>1 DEF Configured, DriversHaveRows
  <2>2. CASE \E p \in P : ExporterOf[p] = e
    BY <2>2
  <2> QED
    BY <1>1, <2>1, <2>2 DEF StartFacts
<1> QED
  BY <1>2, <1>3 DEF n, Configured

LEMMA StopConfigured ==
  ASSUME NEW m, NEW rows, NEW rows2, Sound(m, rows), NEW P \in SUBSET Pipelines,
         NEW cf, Configured(m, rows, cf),
         \A p \in Pipelines : rows[p].st # "new" => rows2[p].st # "new"
  PROVE  Configured(StopPipelines(m, P), rows2, cf)
<1> DEFINE n == StopPipelines(m, P)
<1>1. StopFacts(n, m, P)
  BY StopEffect DEF Sound
<1> HIDE DEF n
<1>2. \A e \in Exporters : n.driver[e] = m.driver[e] \/ n.driver[e].id = 0
  BY <1>1, NoDriverTyped DEF StopFacts
<1>3. Fresh(n, cf) /\ DriversHaveRows(n, rows2)
  BY <1>2 DEF Configured, Fresh, DriversHaveRows
<1> QED
  BY <1>3 DEF n, Configured

(* Cursors. *)
LEMMA InitCovered ==
  ASSUME NEW m, NEW rows, Sound(m, rows), NEW E, NEW cf \in [Exporters -> Nat], Covered(m)
  PROVE  Covered(InitExporter(m, E, cf))
<1> DEFINE n == InitExporter(m, E, cf)
<1>1. InitFacts(n, m, E, cf)
  BY InitEffect DEF Sound
<1> HIDE DEF n
<1>2. Covered(n)
  BY <1>1 DEF InitFacts, Covered
<1> QED
  BY <1>2 DEF n

LEMMA StartCovered ==
  ASSUME NEW m, NEW rows \in [Pipelines -> Row], Sound(m, rows), NEW P \in SUBSET Pipelines,
         NEW cf \in [Exporters -> Nat], Covered(m), \A p \in Pipelines : Good(p, rows[p].last)
  PROVE  Covered(StartPipelines(m, P, rows, cf))
<1> DEFINE n == StartPipelines(m, P, rows, cf)
<1>1. StartFacts(n, m, P, rows, cf)
  BY StartEffect DEF Sound
<1> HIDE DEF n
<1>2. ASSUME NEW p \in Pipelines
      PROVE  /\ Good(p, n.h[p].last) /\ Good(p, n.store[p])
             /\ \A c \in BagToSet(n.late[p]) : Good(p, c)
             /\ n.h[p].pc = "push" => Gapless(p, n.h[p])
  <2>1. \A c \in BagToSet(n.late[p]) : Good(p, c)
    BY <1>1 DEF StartFacts, Covered
  <2>2. CASE p \in P
    <3>1. n.h[p].last = rows[p].last /\ n.store[p] = 0 /\ n.h[p].pc = "wait"
      BY <1>1, <2>2 DEF StartFacts
    <3>2. Good(p, 0)
      BY DEF Good
    <3> QED
      BY <2>1, <3>1, <3>2
  <2>3. CASE p \notin P
    <3>1. n.h[p] = m.h[p] /\ n.store[p] = m.store[p]
      BY <1>1, <2>3 DEF StartFacts
    <3> QED
      BY <2>1, <3>1 DEF Covered
  <2> QED
    BY <2>2, <2>3
<1>3. Covered(n)
  BY <1>2 DEF Covered
<1> QED
  BY <1>3 DEF n

LEMMA StopCovered ==
  ASSUME NEW m, NEW rows, Sound(m, rows), NEW P \in SUBSET Pipelines, Covered(m)
  PROVE  Covered(StopPipelines(m, P))
<1> DEFINE n == StopPipelines(m, P)
<1>1. StopFacts(n, m, P)
  BY StopEffect DEF Sound
<1> HIDE DEF n
<1>2. ASSUME NEW p \in Pipelines
      PROVE  /\ Good(p, n.h[p].last) /\ Good(p, n.store[p])
             /\ \A c \in BagToSet(n.late[p]) : Good(p, c)
             /\ n.h[p].pc = "push" => Gapless(p, n.h[p])
  <2>1. CASE p \in P
    <3>1. n.h[p].last = 0 /\ n.store[p] = 0 /\ n.h[p].pc = "off"
      BY <1>1, <2>1, OffTyped DEF StopFacts
    <3>2. Good(p, 0)
      BY DEF Good
    <3>3. \A c \in BagToSet(n.late[p]) : Good(p, c)
      BY <1>1, <2>1 DEF StopFacts, Covered
    <3> QED
      BY <3>1, <3>2, <3>3
  <2>2. CASE p \notin P
    <3>1. n.h[p] = m.h[p] /\ n.store[p] = m.store[p] /\ n.late[p] = m.late[p]
      BY <1>1, <2>2 DEF StopFacts
    <3> QED
      BY <3>1 DEF Covered
  <2> QED
    BY <2>1, <2>2
<1>3. Covered(n)
  BY <1>2 DEF Covered
<1> QED
  BY <1>3 DEF n

(* Marks. *)
LEMMA MarkKeeps ==
  ASSUME NEW m, NEW n, MarkFacts(n, m), NEW rows, Sound(m, rows)
  PROVE  /\ Sound(n, rows)
         /\ Covered(m) => Covered(n)
         /\ \A cf : Configured(m, rows, cf) => Configured(n, rows, cf)
<1>1. Managed(n)
  BY DEF MarkFacts
<1>2. Registered(n) /\ RunsLive(n, rows)
  BY ReplicationAssumption DEF MarkFacts, Sound, Registered, RunsLive
<1>3. Covered(m) => Covered(n)
  BY DEF MarkFacts, Covered, Gapless
<1>4. \A cf : Configured(m, rows, cf) => Configured(n, rows, cf)
  BY DEF MarkFacts, Configured, Fresh, DriversHaveRows
<1> QED
  BY <1>1, <1>2, <1>3, <1>4 DEF Sound

-----------------------------------------------------------------------------
(* What the operations of the manager make of it.                          *)

AllGood(rows) == \A p \in Pipelines : Good(p, rows[p].last)

(* The manager becomes n: its handlers stay sound and its cursors covered. *)
Outcome(n) ==
  /\ Become(n)
  /\ Sound(n, row')
  /\ Covered(Manager) /\ AllGood(row) => Covered(n)

LEMMA SpendTyped ==
  ASSUME left \in [Faults -> Nat], NEW f \in Faults, Spend(f)
  PROVE  left' \in [Faults -> Nat] /\ \A g \in Faults : left'[g] <= left[g] /\ left[f] > 0
  BY DEF Spend

(* What holds of n holds of the manager that has become n. *)
LEMMA Becomes ==
  ASSUME NEW n, Become(n)
  PROVE  /\ Sound(n, row') => Sound(Manager, row)'
         /\ Configured(n, row', conf') => Configured(Manager, row, conf)'
<1>1. /\ Manager'.h = n.h /\ Manager'.store = n.store /\ Manager'.late = n.late
      /\ Manager'.driver = n.driver /\ DOMAIN Manager' = {"h", "store", "late", "driver"}
  BY DEF Become, Manager
<1> QED
  BY <1>1 DEF Sound, Managed, Registered, RunsLive, Configured, Fresh, DriversHaveRows

LEMMA BecomesCovered ==
  ASSUME NEW n, Become(n), Covered(n), committed' = committed, ever' = ever
  PROVE  Covered(Manager)'
<1>1. /\ Manager'.h = n.h /\ Manager'.store = n.store /\ Manager'.late = n.late
  BY DEF Become, Manager
<1> QED
  BY <1>1 DEF Covered, Good, Gapless

LEMMA SynchronizedOk ==
  ASSUME NEW m, NEW rows \in [Pipelines -> Row], NEW cf \in [Exporters -> Nat], Sound(m, rows),
         SynchronizeOk(m, rows, cf)
  PROVE  \E n : /\ Become(n) /\ Sound(n, rows)
                /\ Covered(m) /\ AllGood(rows) => Covered(n)
                /\ Configured(m, rows, cf) => Configured(n, rows, cf)
<1> DEFINE listed == {p \in Pipelines : rows[p].st = "live"}
           todo == listed \ Running(m.h)
           ended == Running(m.h) \ listed
           s == StartPipelines(m, todo, rows, cf)
           n == StopPipelines(s, ended)
<1>1. Become(n)
  BY DEF SynchronizeOk
<1>2. todo \in SUBSET Pipelines /\ ended \in SUBSET Pipelines /\ \A p \in todo : rows[p].st = "live"
  BY DEF Running
<1> HIDE DEF todo, ended
<1>3. Sound(s, rows)
  BY <1>2, StartSound
<1>4. Covered(m) /\ AllGood(rows) => Covered(s)
  BY <1>2, StartCovered DEF AllGood
<1>5. Configured(m, rows, cf) => Configured(s, rows, cf)
  BY <1>2, StartConfigured
<1> HIDE DEF s
<1>6. Sound(n, rows)
  BY <1>2, <1>3, StopSound
<1>7. Covered(s) => Covered(n)
  BY <1>2, <1>3, StopCovered
<1>8. Configured(s, rows, cf) => Configured(n, rows, cf)
  BY <1>2, <1>3, StopConfigured
<1> HIDE DEF n
<1> QED
  BY <1>1, <1>4, <1>5, <1>6, <1>7, <1>8

LEMMA SynchronizedFails ==
  ASSUME NEW m, NEW rows \in [Pipelines -> Row], NEW cf \in [Exporters -> Nat], Sound(m, rows),
         SynchronizeFails(m, rows, cf)
  PROVE  \E n : /\ Become(n) /\ Sound(n, rows)
                /\ Covered(m) /\ AllGood(rows) => Covered(n)
                /\ Configured(m, rows, cf) => Configured(n, rows, cf)
<1> DEFINE todo == {p \in Pipelines : rows[p].st = "live"} \ Running(m.h)
<1>0. PICK f \in todo : \E P \in SUBSET (todo \ {f}) :
        /\ LedgerOf[f] \in deleted
        /\ Become(InitExporter(StartPipelines(m, P, rows, cf), {ExporterOf[f]}, cf))
  BY DEF SynchronizeFails
<1>1. PICK P \in SUBSET (todo \ {f}) :
        /\ LedgerOf[f] \in deleted
        /\ Become(InitExporter(StartPipelines(m, P, rows, cf), {ExporterOf[f]}, cf))
  BY <1>0
<1> DEFINE s == StartPipelines(m, P, rows, cf)
           n == InitExporter(s, {ExporterOf[f]}, cf)
<1>2. P \in SUBSET Pipelines /\ (\A p \in P : rows[p].st = "live") /\ f \in Pipelines /\ rows[f].st = "live"
  OBVIOUS
<1> HIDE DEF todo
<1>3. Sound(s, rows)
  BY <1>2, StartSound
<1>4. Covered(m) /\ AllGood(rows) => Covered(s)
  BY <1>2, StartCovered DEF AllGood
<1>5. Configured(m, rows, cf) => Configured(s, rows, cf)
  BY <1>2, StartConfigured
<1>6. Become(n)
  BY <1>1
<1> HIDE DEF s
<1>7. Sound(n, rows)
  BY <1>3, InitSound
<1>8. Covered(s) => Covered(n)
  BY <1>3, InitCovered
<1>9. \A e \in {ExporterOf[f]} : \E p \in Pipelines : ExporterOf[p] = e /\ rows[p].st # "new"
  BY <1>2
<1>10. Configured(s, rows, cf) => Configured(n, rows, cf)
  BY <1>3, <1>9, InitConfigured
<1> HIDE DEF n
<1> QED
  BY <1>4, <1>5, <1>6, <1>7, <1>8, <1>10

(* The operations of the manager. *)
ManagerStep ==
  \/ Synchronize \/ SynchronizeAborts
  \/ \E e \in Exporters : DeleteExporter(e) \/ UpdateExporter(e) \/ UpdateExporterFails(e)
  \/ \E p \in Pipelines :
       \/ CreatePipeline(p) \/ StartPipeline(p) \/ StopPipeline(p) \/ DeletePipeline(p)
       \/ ResetPipeline(p) \/ ResetPipelineFails(p) \/ GiveUp(p)

(* An operation that only stops the pipelines P. *)
LEMMA StopOutcome ==
  ASSUME HandlersInv, NEW P \in SUBSET Pipelines, Become(StopPipelines(Manager, P)),
         \A p \in Pipelines : p \notin P /\ h[p].pc # "off" => row'[p].st = row[p].st
  PROVE  \E n : Outcome(n)
<1> DEFINE n == StopPipelines(Manager, P)
<1>1. Sound(Manager, row)
  BY DEF HandlersInv, Sound
<1>2. \A p \in Pipelines : p \notin P /\ Manager.h[p].pc # "off" => row'[p].st = row[p].st
  BY DEF Manager
<1>3. Sound(n, row')
  BY <1>1, <1>2, StopSound
<1>4. Covered(Manager) => Covered(n)
  BY <1>1, StopCovered
<1>5. Become(n)
  OBVIOUS
<1> HIDE DEF n
<1> QED
  BY <1>3, <1>4, <1>5 DEF Outcome

(* An operation that starts the pipelines P of m, or fails to.             *)
LEMMA StartOutcome ==
  ASSUME NEW m, NEW P \in SUBSET Pipelines, NEW E, row' \in [Pipelines -> Row],
         conf \in [Exporters -> Nat], Sound(m, row'), \A p \in P : row'[p].st = "live",
         Covered(Manager) /\ AllGood(row) => Covered(m) /\ AllGood(row'),
         Become(StartPipelines(m, P, row', conf)) \/ Become(InitExporter(m, E, conf))
  PROVE  \E n : Outcome(n)
<1> DEFINE s == StartPipelines(m, P, row', conf)
           i == InitExporter(m, E, conf)
<1>1. Sound(s, row')
  BY StartSound
<1>2. Covered(m) /\ AllGood(row') => Covered(s)
  BY StartCovered DEF AllGood
<1>3. Sound(i, row')
  BY InitSound
<1>4. Covered(m) => Covered(i)
  BY InitCovered
<1>5. Become(s) \/ Become(i)
  OBVIOUS
<1> HIDE DEF s, i
<1> QED
  BY <1>1, <1>2, <1>3, <1>4, <1>5 DEF Outcome

(* Rows that change only their state, or lose their cursor, stay good.     *)
LEMMA GoodRows ==
  ASSUME NEW rows, \A p \in Pipelines : rows[p].last = row[p].last \/ rows[p].last = 0
  PROVE  AllGood(row) => AllGood(rows)
  BY DEF AllGood, Good

LEMMA CreateOutcome ==
  ASSUME HandlersInv, NEW p \in Pipelines, CreatePipeline(p)
  PROVE  StateOK' /\ (\E n : Outcome(n)) /\ (AllGood(row) => AllGood(row'))
<1>1. /\ row' = [row EXCEPT ![p] = [st |-> "live", last |-> 0]] /\ row[p].st = "new"
      /\ UNCHANGED <<committed, conf, ever>>
  BY DEF CreatePipeline
<1>2. row' \in [Pipelines -> Row] /\ row'[p].st = "live" /\ row'[p].last = 0
      /\ \A q \in Pipelines : q # p => row'[q] = row[q]
  BY <1>1 DEF HandlersInv, StateOK, Row
<1>3. left' \in [Faults -> Nat]
  BY SpendTyped DEF CreatePipeline, HandlersInv, StateOK, Faults
<1>4. Sound(Manager, row')
  BY <1>1, <1>2 DEF HandlersInv, Sound, RunsLive
<1>5. AllGood(row) => AllGood(row')
  BY <1>2, GoodRows
<1>6. \/ Become(StartPipelines(Manager, {p}, row', conf))
      \/ Become(InitExporter(Manager, {ExporterOf[p]}, conf))
  BY <1>1 DEF CreatePipeline
<1>7. conf \in [Exporters -> Nat] /\ {p} \in SUBSET Pipelines /\ \A q \in {p} : row'[q].st = "live"
  BY <1>2 DEF HandlersInv, StateOK
<1>8. \E n : Outcome(n)
  BY <1>2, <1>4, <1>5, <1>6, <1>7, StartOutcome
<1> QED
  BY <1>1, <1>2, <1>3, <1>5, <1>8 DEF HandlersInv, StateOK

LEMMA ResetOutcome ==
  ASSUME HandlersInv, NEW p \in Pipelines, ResetPipeline(p)
  PROVE  StateOK' /\ (\E n : Outcome(n)) /\ (AllGood(row) => AllGood(row'))
<1> DEFINE started == {p} \intersect Running(h)
           m == StopPipelines(Manager, started)
<1>1. /\ row' = [row EXCEPT ![p].last = 0] /\ row[p].st = "live" /\ Spend("reset")
      /\ UNCHANGED <<committed, conf, ever>>
  BY DEF ResetPipeline, Live
<1>2. row' \in [Pipelines -> Row] /\ row'[p].last = 0
      /\ (\A q \in Pipelines : row'[q].st = row[q].st)
      /\ \A q \in Pipelines : q # p => row'[q] = row[q]
  BY <1>1 DEF HandlersInv, StateOK, Row
<1>3. left' \in [Faults -> Nat]
  BY <1>1, SpendTyped DEF HandlersInv, StateOK, Faults
<1>4. Sound(Manager, row)
  BY DEF HandlersInv, Sound
<1>5. started \in SUBSET Pipelines /\ \A q \in started : row'[q].st = "live"
  BY <1>1, <1>2
<1>6. \/ Become(StartPipelines(m, started, row', conf))
      \/ Become(InitExporter(m, {ExporterOf[p]}, conf))
  BY <1>1 DEF ResetPipeline
<1> HIDE DEF started
<1>7. Sound(m, row')
  BY <1>2, <1>4, <1>5, StopSound
<1>8. Covered(Manager) => Covered(m)
  BY <1>4, <1>5, StopCovered
<1>9. AllGood(row) => AllGood(row')
  BY <1>2, GoodRows
<1>10. conf \in [Exporters -> Nat]
  BY DEF HandlersInv, StateOK
<1> HIDE DEF m
<1>11. \E n : Outcome(n)
  BY <1>2, <1>5, <1>6, <1>7, <1>8, <1>9, <1>10, StartOutcome
<1> QED
  BY <1>1, <1>2, <1>3, <1>9, <1>11 DEF HandlersInv, StateOK

(* What an update leaves of the manager before it synchronizes.            *)
Updated(e) ==
  IF Of(e) = {} /\ driver[e].id # 0
  THEN [Manager EXCEPT !.driver[e].outlived = TRUE] ELSE StopPipelines(Manager, Of(e))

LEMMA UpdatedFacts ==
  ASSUME HandlersInv, NEW e \in Exporters
  PROVE  /\ Sound(Updated(e), row)
         /\ Covered(Manager) => Covered(Updated(e))
         /\ ConfigurationsInv => Configured(Updated(e), row, conf)
         /\ Updated(e).driver[e].id = 0 \/ Updated(e).driver[e].outlived
<1> DEFINE k == [Manager EXCEPT !.driver[e].outlived = TRUE]
           m == StopPipelines(Manager, Of(e))
<1>1. Sound(Manager, row) /\ Manager.driver = driver /\ Manager.h = h
  BY DEF HandlersInv, Sound, Manager
<1>2. ConfigurationsInv => Configured(Manager, row, conf)
  BY DEF ConfigurationsInv, Configured
<1>3. CASE Of(e) = {} /\ driver[e].id # 0
  <2>1. Updated(e) = k
    BY <1>3 DEF Updated
  <2>2. MarkFacts(k, Manager) /\ k.driver[e].outlived
    BY <1>1, OutliveEffect DEF Sound
  <2> HIDE DEF k
  <2> QED
    BY <1>1, <1>2, <2>1, <2>2, MarkKeeps
<1>4. CASE ~(Of(e) = {} /\ driver[e].id # 0)
  <2>1. Updated(e) = m
    BY <1>4 DEF Updated
  <2>2. Of(e) \in SUBSET Pipelines /\ \A p \in Pipelines : p \in Of(e) <=> h[p].pc # "off" /\ ExporterOf[p] = e
    BY DEF Of, Running
  <2>3. Sound(m, row)
    BY <1>1, <2>2, StopSound
  <2>4. Covered(Manager) => Covered(m)
    BY <1>1, <2>2, StopCovered
  <2>5. ConfigurationsInv => Configured(m, row, conf)
    BY <1>1, <1>2, <2>2, StopConfigured
  <2>6. StopFacts(m, Manager, Of(e))
    BY <1>1, <2>2, StopEffect DEF Sound
  <2> HIDE DEF m
  <2>7. \A p \in Pipelines \ Of(e) : ExporterOf[p] = e => Manager.h[p].pc = "off"
    BY <1>1, <2>2
  <2>8. m.driver[e].id = 0
    <3>1. CASE \E p \in Of(e) : ExporterOf[p] = e /\ Manager.h[p].pc # "off"
      BY <2>6, <2>7, <3>1, NoDriverTyped DEF StopFacts
    <3>2. CASE ~\E p \in Of(e) : ExporterOf[p] = e /\ Manager.h[p].pc # "off"
      <4>1. Of(e) = {}
        BY <1>1, <2>2, <3>2
      <4>2. m.driver[e] = Manager.driver[e]
        BY <2>6, <3>2 DEF StopFacts
      <4> QED
        BY <1>1, <1>4, <4>1, <4>2
    <3> QED
      BY <3>1, <3>2
  <2> QED
    BY <2>1, <2>3, <2>4, <2>5, <2>8
<1> QED
  BY <1>3, <1>4

UpdateFacts(e) ==
  /\ conf' = [conf EXCEPT ![e] = @ + 1] /\ Spend("update") /\ UNCHANGED <<committed, row, ever>>
  /\ \/ SynchronizeOk(Updated(e), row, conf')
     \/ SynchronizeFails(Updated(e), row, conf')
     \/ Become(Updated(e))

LEMMA UpdateEffect ==
  ASSUME NEW e \in Exporters, UpdateExporter(e)
  PROVE  UpdateFacts(e)
<1> DEFINE cf == [conf EXCEPT ![e] = @ + 1]
           u == IF Of(e) = {} /\ driver[e].id # 0
                THEN [Manager EXCEPT !.driver[e].outlived = TRUE] ELSE StopPipelines(Manager, Of(e))
<1>1. /\ conf' = cf /\ Spend("update") /\ UNCHANGED <<committed, row, ever>>
      /\ SynchronizeOk(u, row, cf) \/ SynchronizeFails(u, row, cf) \/ Become(u)
  BY DEF UpdateExporter
<1>2. u = Updated(e)
  BY DEF Updated
<1> HIDE DEF u
<1> QED
  BY <1>1, <1>2 DEF UpdateFacts

LEMMA UpdateOutcome ==
  ASSUME HandlersInv, NEW e \in Exporters, UpdateExporter(e)
  PROVE  StateOK' /\ (\E n : Outcome(n)) /\ (AllGood(row) => AllGood(row'))
<1> DEFINE m == Updated(e)
<1>1. /\ conf' = [conf EXCEPT ![e] = @ + 1] /\ Spend("update") /\ UNCHANGED <<committed, row, ever>>
      /\ SynchronizeOk(m, row, conf') \/ SynchronizeFails(m, row, conf') \/ Become(m)
  BY UpdateEffect DEF UpdateFacts
<1>2. conf' \in [Exporters -> Nat] /\ row \in [Pipelines -> Row]
  BY <1>1 DEF HandlersInv, StateOK
<1>3. left' \in [Faults -> Nat]
  BY <1>1, SpendTyped DEF HandlersInv, StateOK, Faults
<1>4. Sound(m, row) /\ (Covered(Manager) => Covered(m))
  BY UpdatedFacts
<1> HIDE DEF m
<1>5. \E n : Become(n) /\ Sound(n, row) /\ (Covered(m) /\ AllGood(row) => Covered(n))
  <2>1. CASE SynchronizeOk(m, row, conf')
    BY <1>2, <1>4, <2>1, SynchronizedOk
  <2>2. CASE SynchronizeFails(m, row, conf')
    BY <1>2, <1>4, <2>2, SynchronizedFails
  <2>3. CASE Become(m)
    BY <1>4, <2>3
  <2> QED
    BY <1>1, <2>1, <2>2, <2>3
<1>6. \E n : Outcome(n)
  BY <1>1, <1>4, <1>5 DEF Outcome
<1> QED
  BY <1>1, <1>2, <1>3, <1>6 DEF HandlersInv, StateOK

LEMMA GiveUpEffect ==
  ASSUME HandlersInv, NEW p \in Pipelines, GiveUp(p)
  PROVE  \E n : /\ Become(n) /\ Sound(n, row)
                /\ Covered(Manager) => Covered(n)
                /\ ConfigurationsInv => Configured(n, row, conf)
<1>1. PICK P \in SUBSET (Of(ExporterOf[p]) \ {p}) : Become(Signal(StopPipelines(Manager, P), p))
  BY DEF GiveUp
<1> DEFINE m == StopPipelines(Manager, P)
           n == Signal(m, p)
<1>2. P \in SUBSET Pipelines /\ Become(n)
  BY <1>1 DEF Of, Running
<1>3. Sound(Manager, row) /\ (ConfigurationsInv => Configured(Manager, row, conf))
  BY DEF HandlersInv, Sound, ConfigurationsInv, Configured
<1>4. Sound(m, row)
  BY <1>2, <1>3, StopSound
<1>5. Covered(Manager) => Covered(m)
  BY <1>2, <1>3, StopCovered
<1>6. ConfigurationsInv => Configured(m, row, conf)
  BY <1>2, <1>3, StopConfigured
<1> HIDE DEF m
<1>7. MarkFacts(n, m)
  BY <1>4, SignalEffect DEF Sound
<1> HIDE DEF n
<1> QED
  BY <1>2, <1>4, <1>5, <1>6, <1>7, MarkKeeps

LEMMA GiveUpOutcome ==
  ASSUME HandlersInv, NEW p \in Pipelines, GiveUp(p)
  PROVE  StateOK' /\ (\E n : Outcome(n)) /\ (AllGood(row) => AllGood(row'))
<1>1. Spend("giveup") /\ UNCHANGED <<committed, row, conf, ever>>
  BY DEF GiveUp
<1>2. left' \in [Faults -> Nat]
  BY <1>1, SpendTyped DEF HandlersInv, StateOK, Faults
<1>3. \E n : Outcome(n)
  BY <1>1, GiveUpEffect DEF Outcome
<1> QED
  BY <1>1, <1>2, <1>3 DEF HandlersInv, StateOK

LEMMA SynchronizeOutcome ==
  ASSUME HandlersInv, Synchronize \/ SynchronizeAborts
  PROVE  StateOK' /\ (\E n : Outcome(n)) /\ (AllGood(row) => AllGood(row'))
<1>1. /\ SynchronizeOk(Manager, row, conf) \/ SynchronizeFails(Manager, row, conf)
      /\ UNCHANGED <<committed, row, conf, ever, left>>
  BY DEF Synchronize, SynchronizeAborts
<1>2. Sound(Manager, row) /\ conf \in [Exporters -> Nat] /\ row \in [Pipelines -> Row]
  BY DEF HandlersInv, Sound, StateOK
<1>3. \E n : Become(n) /\ Sound(n, row) /\ (Covered(Manager) /\ AllGood(row) => Covered(n))
  <2>1. CASE SynchronizeOk(Manager, row, conf)
    BY <1>2, <2>1, SynchronizedOk
  <2>2. CASE SynchronizeFails(Manager, row, conf)
    BY <1>2, <2>2, SynchronizedFails
  <2> QED
    BY <1>1, <2>1, <2>2
<1> QED
  BY <1>1, <1>3 DEF HandlersInv, StateOK, Outcome

LEMMA ManagerOutcome ==
  ASSUME HandlersInv, ManagerStep
  PROVE  StateOK' /\ (\E n : Outcome(n)) /\ (AllGood(row) => AllGood(row'))
<1>1. CASE Synchronize \/ SynchronizeAborts
  BY <1>1, SynchronizeOutcome
<1>2. ASSUME NEW e \in Exporters, DeleteExporter(e)
      PROVE  StateOK' /\ (\E n : Outcome(n)) /\ (AllGood(row) => AllGood(row'))
  <2>1. /\ conf' = [conf EXCEPT ![e] = 0] /\ Spend("delete") /\ UNCHANGED <<committed, ever>>
        /\ Become(StopPipelines(Manager, Of(e)))
    BY <1>2 DEF DeleteExporter
  <2>2. row' = [p \in Pipelines |-> IF p \in Live /\ ExporterOf[p] = e THEN [row[p] EXCEPT !.st = "gone"] ELSE row[p]]
    BY <1>2 DEF DeleteExporter
  <2>3. \A p \in Pipelines : row'[p] \in Row /\ row'[p].last = row[p].last
    BY <2>2 DEF HandlersInv, StateOK, Row
  <2>4. \A p \in Pipelines : p \notin Of(e) /\ h[p].pc # "off" => row'[p].st = row[p].st
    BY <2>2 DEF Of, Running
  <2>5. row' \in [Pipelines -> Row]
    BY <2>2, <2>3
  <2>6. left' \in [Faults -> Nat] /\ conf' \in [Exporters -> Nat]
    BY <2>1, SpendTyped DEF HandlersInv, StateOK, Faults
  <2>7. Of(e) \in SUBSET Pipelines
    BY DEF Of, Running
  <2>8. \E n : Outcome(n)
    BY <2>1, <2>4, <2>7, StopOutcome
  <2> QED
    BY <2>1, <2>3, <2>5, <2>6, <2>8, GoodRows DEF HandlersInv, StateOK
<1>3. ASSUME NEW e \in Exporters, UpdateExporter(e)
      PROVE  StateOK' /\ (\E n : Outcome(n)) /\ (AllGood(row) => AllGood(row'))
  BY <1>3, UpdateOutcome
<1>4. ASSUME NEW P \in SUBSET Pipelines, NEW f \in Faults, Become(StopPipelines(Manager, P)), Spend(f),
             UNCHANGED <<committed, row, conf, ever>>
      PROVE  StateOK' /\ (\E n : Outcome(n)) /\ (AllGood(row) => AllGood(row'))
  <2>1. \E n : Outcome(n)
    BY <1>4, StopOutcome
  <2>2. left' \in [Faults -> Nat]
    BY <1>4, SpendTyped DEF HandlersInv, StateOK
  <2> QED
    BY <1>4, <2>1, <2>2 DEF HandlersInv, StateOK
<1>5. ASSUME NEW e \in Exporters, UpdateExporterFails(e)
      PROVE  StateOK' /\ (\E n : Outcome(n)) /\ (AllGood(row) => AllGood(row'))
  <2>1. PICK P \in SUBSET Of(e) : /\ Spend("fail") /\ Become(StopPipelines(Manager, P))
                                  /\ UNCHANGED <<committed, row, conf, ever>>
    BY <1>5 DEF UpdateExporterFails
  <2>2. P \in SUBSET Pipelines /\ "fail" \in Faults
    BY DEF Of, Running, Faults
  <2> QED
    BY <1>4, <2>1, <2>2
<1>6. ASSUME NEW p \in Pipelines, CreatePipeline(p) \/ ResetPipeline(p)
      PROVE  StateOK' /\ (\E n : Outcome(n)) /\ (AllGood(row) => AllGood(row'))
  BY <1>6, CreateOutcome, ResetOutcome
<1>7. ASSUME NEW p \in Pipelines, StartPipeline(p)
      PROVE  StateOK' /\ (\E n : Outcome(n)) /\ (AllGood(row) => AllGood(row'))
  <2>1. /\ row[p].st = "live" /\ Become(StartPipelines(Manager, {p}, row, conf))
        /\ UNCHANGED <<committed, row, conf, ever, left>>
    BY <1>7 DEF StartPipeline, Live
  <2>2. Sound(Manager, row) /\ row' \in [Pipelines -> Row] /\ conf \in [Exporters -> Nat]
    BY <2>1 DEF HandlersInv, Sound, StateOK
  <2>3. {p} \in SUBSET Pipelines /\ \A q \in {p} : row[q].st = "live"
    BY <2>1
  <2>4. \E n : Outcome(n)
    BY <2>1, <2>2, <2>3, StartOutcome
  <2> QED
    BY <2>1, <2>4 DEF HandlersInv, StateOK
<1>8. ASSUME NEW p \in Pipelines, StopPipeline(p) \/ ResetPipelineFails(p)
      PROVE  StateOK' /\ (\E n : Outcome(n)) /\ (AllGood(row) => AllGood(row'))
  <2>1. {p} \in SUBSET Pipelines /\ "stop" \in Faults /\ "fail" \in Faults
    BY DEF Faults
  <2> QED
    BY <1>4, <1>8, <2>1 DEF StopPipeline, ResetPipelineFails
<1>9. ASSUME NEW p \in Pipelines, DeletePipeline(p)
      PROVE  StateOK' /\ (\E n : Outcome(n)) /\ (AllGood(row) => AllGood(row'))
  <2>1. /\ row' = [row EXCEPT ![p].st = IF @ = "live" THEN "gone" ELSE @] /\ Spend("delete")
        /\ UNCHANGED <<committed, conf, ever>> /\ Become(StopPipelines(Manager, {p}))
    BY <1>9 DEF DeletePipeline
  <2>2. row' \in [Pipelines -> Row] /\ \A q \in Pipelines : row'[q].last = row[q].last
    BY <2>1 DEF HandlersInv, StateOK, Row
  <2>3. \A q \in Pipelines : q \notin {p} /\ h[q].pc # "off" => row'[q].st = row[q].st
    BY <2>1 DEF HandlersInv, StateOK
  <2>4. left' \in [Faults -> Nat]
    BY <2>1, SpendTyped DEF HandlersInv, StateOK, Faults
  <2>5. \E n : Outcome(n)
    BY <2>1, <2>3, StopOutcome
  <2> QED
    BY <2>1, <2>2, <2>4, <2>5, GoodRows DEF HandlersInv, StateOK
<1> QED
  BY <1>1, <1>2, <1>3, <1>5, <1>6, <1>7, <1>8, <1>9, GiveUpOutcome DEF ManagerStep

-----------------------------------------------------------------------------
(* The handlers, their drivers and the rest of the system.                 *)

(* One handler moves on: it stays a handler, running with its driver.      *)
LEMMA HandlerMoves ==
  ASSUME HandlersInv, NEW p \in Pipelines, h[p].pc # "off",
         DOMAIN h' = Pipelines, h' = [q \in DOMAIN h' |-> h'[q]], \A q \in Pipelines : q # p => h'[q] = h[q],
         h'[p] \in Handler, h'[p].pc # "off", h'[p].pc = "push" => h'[p].batch # {}, h'[p].drv = h[p].drv,
         store' \in [Pipelines -> Nat], UNCHANGED <<late, driver, row>>
  PROVE  Sound(Manager, row)'
<1>1. /\ Manager'.h = h' /\ Manager'.store = store' /\ Manager'.late = late /\ Manager'.driver = driver
      /\ Manager.h = h /\ Manager.late = late /\ Manager.driver = driver
      /\ DOMAIN Manager' = {"h", "store", "late", "driver"}
  BY DEF Manager
<1>2. h \in [Pipelines -> Handler]
  BY <1>1 DEF HandlersInv, Managed
<1>3. h' \in [Pipelines -> Handler]
  <2>1. \A q \in Pipelines : h'[q] \in Handler
    BY <1>2
  <2> QED
    BY <2>1
<1>4. Managed(Manager')
  BY <1>1, <1>3 DEF HandlersInv, Managed
<1>5. Registered(Manager')
  BY <1>1 DEF HandlersInv, Registered
<1>6. RunsLive(Manager', row')
  BY <1>1 DEF HandlersInv, RunsLive
<1> QED
  BY <1>4, <1>5, <1>6 DEF Sound

(* What is left of a page holds ids. *)
LEMMA PageOfIds ==
  ASSUME StateOK, NEW l \in Ledgers, NEW c
  PROVE  Page(l, c) \subseteq committed[l] /\ Page(l, c) \subseteq Ids
  BY DEF Page, StateOK

FetchFacts(p) ==
  /\ h[p].pc = "wait" /\ DOMAIN h' = Pipelines /\ h' = [q \in DOMAIN h' |-> h'[q]]
  /\ \A q \in Pipelines : q # p => h'[q] = h[q]
  /\ h'[p] \in Handler /\ h'[p].pc = "push" /\ h'[p].batch = Page(LedgerOf[p], h[p].last) /\ h'[p].batch # {}
  /\ h'[p].last = h[p].last /\ h'[p].drv = h[p].drv
  /\ UNCHANGED <<committed, row, conf, store, late, driver, ever, left>>

LEMMA FetchEffect ==
  ASSUME HandlersInv, NEW p \in Pipelines, Fetch(p)
  PROVE  FetchFacts(p)
<1> DEFINE B == Page(LedgerOf[p], h[p].last)
           g == [h EXCEPT ![p].pc = "push"]
<1>1. h[p] \in Handler /\ h \in [Pipelines -> Handler]
  BY DEF HandlersInv, Managed, Manager
<1>2. B \in SUBSET Ids
  BY PageOfIds, ReplicationAssumption DEF HandlersInv
<1>3. /\ h[p].pc = "wait" /\ B # {} /\ h' = [g EXCEPT ![p].batch = B]
      /\ UNCHANGED <<committed, row, conf, store, late, driver, ever, left>>
  BY DEF Fetch
<1>4. DOMAIN g = Pipelines /\ g[p] = [h[p] EXCEPT !.pc = "push"] /\ \A q \in Pipelines : q # p => g[q] = h[q]
  BY <1>1
<1> HIDE DEF B, g
<1>5. /\ DOMAIN h' = Pipelines /\ h' = [q \in DOMAIN h' |-> h'[q]]
      /\ h'[p] = [[h[p] EXCEPT !.pc = "push"] EXCEPT !.batch = B]
      /\ \A q \in Pipelines : q # p => h'[q] = h[q]
  BY <1>3, <1>4
<1>6. /\ h'[p] \in Handler /\ h'[p].pc = "push" /\ h'[p].batch = B
      /\ h'[p].last = h[p].last /\ h'[p].drv = h[p].drv
  BY <1>1, <1>2, <1>5 DEF Handler
<1> QED
  BY <1>3, <1>5, <1>6 DEF FetchFacts, B

LEMMA FetchKeeps ==
  ASSUME HandlersInv, NEW p \in Pipelines, FetchFacts(p)
  PROVE  HandlersInv'
<1>1. store \in [Pipelines -> Nat]
  BY DEF HandlersInv, Managed, Manager
<1>2. Sound(Manager, row)'
  BY <1>1, HandlerMoves DEF FetchFacts
<1> QED
  BY <1>2 DEF FetchFacts, HandlersInv, Sound, StateOK

PushFacts(p) ==
  /\ h[p].pc = "push" /\ DOMAIN h' = Pipelines /\ h' = [q \in DOMAIN h' |-> h'[q]]
  /\ \A q \in Pipelines : q # p => h'[q] = h[q] /\ ever'[q] = ever[q]
  /\ h'[p] \in Handler /\ h'[p].pc = "send" /\ h'[p].drv = h[p].drv
  /\ h'[p].last \in h[p].batch /\ \A y \in h[p].batch : h'[p].last >= y
  /\ ever'[p] = ever[p] \union h[p].batch /\ ever' \in [Pipelines -> SUBSET Ids]
  /\ UNCHANGED <<committed, row, conf, store, late, driver, left>>

LEMMA PushEffect ==
  ASSUME HandlersInv, NEW p \in Pipelines, Push(p)
  PROVE  PushFacts(p)
<1> DEFINE B == h[p].batch
           g == [h EXCEPT ![p].pc = "send"]
           k == [g EXCEPT ![p].last = Max(B)]
<1>1. h[p] \in Handler /\ h \in [Pipelines -> Handler]
  BY DEF HandlersInv, Managed, Manager
<1>2. /\ h[p].pc = "push" /\ ever' = [ever EXCEPT ![p] = @ \union B] /\ h' = [k EXCEPT ![p].batch = {}]
      /\ UNCHANGED <<committed, row, conf, store, late, driver, left>>
  BY DEF Push, Accepts, Receive
<1>3. B \subseteq Ids /\ B # {}
  BY <1>1, <1>2 DEF HandlersInv, Managed, Manager, Handler
<1> HIDE DEF B
<1>4. Max(B) \in B /\ \A y \in B : Max(B) >= y
  BY <1>3, LargestId
<1>5. \A i \in Ids : i \in Nat
  BY ReplicationAssumption DEF Ids
<1>6. Max(B) \in Nat
  BY <1>3, <1>4, <1>5
<1>7. DOMAIN g = Pipelines /\ g[p] = [h[p] EXCEPT !.pc = "send"] /\ \A q \in Pipelines : q # p => g[q] = h[q]
  BY <1>1
<1> HIDE DEF g
<1>8. DOMAIN k = Pipelines /\ k[p] = [g[p] EXCEPT !.last = Max(B)] /\ \A q \in Pipelines : q # p => k[q] = h[q]
  BY <1>7
<1> HIDE DEF k
<1>9. /\ DOMAIN h' = Pipelines /\ h' = [q \in DOMAIN h' |-> h'[q]]
      /\ h'[p] = [[[h[p] EXCEPT !.pc = "send"] EXCEPT !.last = Max(B)] EXCEPT !.batch = {}]
      /\ \A q \in Pipelines : q # p => h'[q] = h[q]
  BY <1>2, <1>7, <1>8
<1>10. h'[p] \in Handler /\ h'[p].pc = "send" /\ h'[p].last = Max(B) /\ h'[p].drv = h[p].drv
  BY <1>1, <1>6, <1>9 DEF Handler
<1>11. /\ ever' \in [Pipelines -> SUBSET Ids] /\ ever'[p] = ever[p] \union B
       /\ \A q \in Pipelines : q # p => ever'[q] = ever[q]
  BY <1>2, <1>3 DEF HandlersInv, StateOK
<1> QED
  BY <1>2, <1>4, <1>9, <1>10, <1>11 DEF B, PushFacts

LEMMA PushKeeps ==
  ASSUME HandlersInv, NEW p \in Pipelines, PushFacts(p)
  PROVE  HandlersInv'
<1>1. store \in [Pipelines -> Nat]
  BY DEF HandlersInv, Managed, Manager
<1>2. Sound(Manager, row)'
  BY <1>1, HandlerMoves DEF PushFacts
<1> QED
  BY <1>2 DEF PushFacts, HandlersInv, Sound, StateOK

SendFacts(p) ==
  /\ h[p].pc = "send" /\ DOMAIN h' = Pipelines /\ h' = [q \in DOMAIN h' |-> h'[q]]
  /\ \A q \in Pipelines : q # p => h'[q] = h[q] /\ store'[q] = store[q]
  /\ h'[p] \in Handler /\ h'[p].pc = "wait" /\ h'[p].last = h[p].last /\ h'[p].drv = h[p].drv
  /\ store' \in [Pipelines -> Nat] /\ store'[p] = h[p].last
  /\ UNCHANGED <<committed, row, conf, late, driver, ever, left>>

LEMMA SendEffect ==
  ASSUME HandlersInv, NEW p \in Pipelines, Send(p)
  PROVE  SendFacts(p)
<1>1. h[p] \in Handler /\ h \in [Pipelines -> Handler] /\ store \in [Pipelines -> Nat]
  BY DEF HandlersInv, Managed, Manager
<1>2. /\ h[p].pc = "send" /\ h' = [h EXCEPT ![p] = [h[p] EXCEPT !.pc = "wait"]]
      /\ store' = [store EXCEPT ![p] = h[p].last]
      /\ UNCHANGED <<committed, row, conf, late, driver, ever, left>>
  BY DEF Send
<1>3. h[p].last \in Nat
  BY <1>1 DEF Handler
<1>4. /\ DOMAIN h' = Pipelines /\ h' = [q \in DOMAIN h' |-> h'[q]]
      /\ h'[p] = [h[p] EXCEPT !.pc = "wait"] /\ \A q \in Pipelines : q # p => h'[q] = h[q]
  BY <1>1, <1>2
<1>5. h'[p] \in Handler /\ h'[p].pc = "wait" /\ h'[p].last = h[p].last /\ h'[p].drv = h[p].drv
  BY <1>1, <1>4 DEF Handler
<1>6. /\ store' \in [Pipelines -> Nat] /\ store'[p] = h[p].last
      /\ \A q \in Pipelines : q # p => store'[q] = store[q]
  BY <1>1, <1>2, <1>3
<1> QED
  BY <1>2, <1>4, <1>5, <1>6 DEF SendFacts

LEMMA SendKeeps ==
  ASSUME HandlersInv, NEW p \in Pipelines, SendFacts(p)
  PROVE  HandlersInv'
<1>1. Sound(Manager, row)'
  BY HandlerMoves DEF SendFacts
<1> QED
  BY <1>1 DEF SendFacts, HandlersInv, Sound, StateOK

ExitFacts(p) ==
  /\ h[p].pc # "off" /\ DOMAIN h' = Pipelines /\ h' = [q \in DOMAIN h' |-> h'[q]]
  /\ \A q \in Pipelines : q # p => h'[q] = h[q]
  /\ h'[p] \in Handler /\ h'[p].pc = "dead" /\ h'[p].last = 0 /\ h'[p].drv = h[p].drv
  /\ UNCHANGED <<committed, row, conf, store, late, driver, ever, left>>

LEMMA ExitEffect ==
  ASSUME HandlersInv, NEW p \in Pipelines, Exit(p)
  PROVE  ExitFacts(p)
<1>1. h[p] \in Handler /\ h \in [Pipelines -> Handler]
  BY DEF HandlersInv, Managed, Manager
<1>2. /\ h[p].pc # "off" /\ h' = [h EXCEPT ![p] = [Off EXCEPT !.pc = "dead", !.drv = h[p].drv]]
      /\ UNCHANGED <<committed, row, conf, store, late, driver, ever, left>>
  BY DEF Exit
<1>3. /\ DOMAIN h' = Pipelines /\ h' = [q \in DOMAIN h' |-> h'[q]]
      /\ h'[p] = [pc |-> "dead", last |-> 0, batch |-> {}, drv |-> h[p].drv, stop |-> FALSE]
      /\ \A q \in Pipelines : q # p => h'[q] = h[q]
  BY <1>1, <1>2 DEF Off
<1>4. h'[p] \in Handler /\ h'[p].pc = "dead" /\ h'[p].last = 0 /\ h'[p].drv = h[p].drv
  BY <1>1, <1>3 DEF Handler
<1> QED
  BY <1>2, <1>3, <1>4 DEF ExitFacts

LEMMA ExitKeeps ==
  ASSUME HandlersInv, NEW p \in Pipelines, ExitFacts(p)
  PROVE  HandlersInv'
<1>1. store \in [Pipelines -> Nat]
  BY DEF HandlersInv, Managed, Manager
<1>2. Sound(Manager, row)'
  BY <1>1, HandlerMoves DEF ExitFacts
<1> QED
  BY <1>2 DEF ExitFacts, HandlersInv, Sound, StateOK

(* The store of a cursor leaves the state of the row alone.                *)
LEMMA StoredRow ==
  ASSUME StateOK, NEW p \in Pipelines, NEW i \in Nat, StorePipelineState(p, i)
  PROVE  /\ row' \in [Pipelines -> Row]
         /\ \A q \in Pipelines : row'[q].st = row[q].st
         /\ \A q \in Pipelines : row'[q].last = row[q].last \/ (q = p /\ row'[q].last = i)
<1>1. row \in [Pipelines -> Row]
  BY DEF StateOK
<1>2. CASE row' = row
  BY <1>1, <1>2
<1>3. CASE row' = [row EXCEPT ![p].last = IF row[p].st = "live" THEN i ELSE @]
  <2>1. row'[p] = [row[p] EXCEPT !.last = IF row[p].st = "live" THEN i ELSE @]
        /\ \A q \in Pipelines : q # p => row'[q] = row[q]
    BY <1>1, <1>3
  <2>2. row'[p] \in Row /\ row'[p].st = row[p].st /\ (row'[p].last = i \/ row'[p].last = row[p].last)
    BY <1>1, <2>1 DEF Row
  <2>3. row' \in [Pipelines -> Row]
    BY <1>1, <1>3, <2>1, <2>2
  <2> QED
    BY <2>1, <2>2, <2>3
<1> QED
  BY <1>2, <1>3 DEF StorePipelineState

LEMMA StoreKeeps ==
  ASSUME HandlersInv, NEW p \in Pipelines, StoreCursor(p) \/ StoreLate(p)
  PROVE  HandlersInv'
<1>1. store \in [Pipelines -> Nat] /\ DOMAIN late = Pipelines /\ BagToSet(late[p]) \subseteq Nat
  BY DEF HandlersInv, Managed, Manager
<1>2. /\ row' \in [Pipelines -> Row] /\ \A q \in Pipelines : row'[q].st = row[q].st
      /\ store' \in [Pipelines -> Nat] /\ DOMAIN late' = Pipelines
      /\ \A q \in Pipelines : BagToSet(late'[q]) \subseteq BagToSet(late[q])
      /\ UNCHANGED <<committed, conf, h, driver, ever, left>>
  <2>1. CASE StoreCursor(p)
    <3>1. /\ StorePipelineState(p, store[p]) /\ store' = [store EXCEPT ![p] = 0]
          /\ UNCHANGED <<committed, conf, h, late, driver, ever, left>>
      BY <2>1 DEF StoreCursor
    <3>2. row' \in [Pipelines -> Row] /\ \A q \in Pipelines : row'[q].st = row[q].st
      BY <1>1, <3>1, StoredRow DEF HandlersInv
    <3> QED
      BY <1>1, <3>1, <3>2
  <2>2. CASE StoreLate(p)
    <3>1. PICK i \in BagToSet(late[p]) :
            /\ StorePipelineState(p, i) /\ late' = [late EXCEPT ![p] = @ (-) SetToBag({i})]
            /\ UNCHANGED <<committed, conf, h, store, driver, ever, left>>
      BY <2>2 DEF StoreLate
    <3>2. row' \in [Pipelines -> Row] /\ \A q \in Pipelines : row'[q].st = row[q].st
      BY <1>1, <3>1, StoredRow DEF HandlersInv
    <3>3. BagToSet(late[p] (-) SetToBag({i})) \subseteq BagToSet(late[p])
      BY BagRemoved
    <3>4. \A q \in Pipelines : BagToSet(late'[q]) \subseteq BagToSet(late[q])
      BY <1>1, <3>1, <3>3
    <3> QED
      BY <1>1, <3>1, <3>2, <3>4
  <2> QED
    BY <2>1, <2>2
<1>3. /\ Manager'.h = h /\ Manager'.store = store' /\ Manager'.late = late' /\ Manager'.driver = driver
      /\ Manager.h = h /\ Manager.store = store /\ Manager.late = late /\ Manager.driver = driver
      /\ DOMAIN Manager' = {"h", "store", "late", "driver"}
  BY <1>2 DEF Manager
<1>4. Managed(Manager')
  <2>1. \A q \in Pipelines : BagToSet(late'[q]) \subseteq Nat
    BY <1>2, <1>3 DEF HandlersInv, Managed
  <2> QED
    BY <1>2, <1>3, <2>1 DEF HandlersInv, Managed
<1>5. Registered(Manager') /\ RunsLive(Manager', row')
  BY <1>2, <1>3 DEF HandlersInv, Registered, RunsLive
<1> QED
  BY <1>2, <1>4, <1>5 DEF HandlersInv, StateOK

LEMMA ReadyTyped ==
  ASSUME NEW d \in Driver
  PROVE  LET n == [d EXCEPT !.ready = TRUE] IN
         n \in Driver /\ n.id = d.id /\ n.conf = d.conf /\ n.outlived = d.outlived
  BY DEF Driver

LEMMA DriverReadyKeeps ==
  ASSUME HandlersInv, NEW e \in Exporters, DriverReady(e)
  PROVE  /\ HandlersInv'
         /\ \A x \in Exporters : /\ driver'[x].id = driver[x].id /\ driver'[x].conf = driver[x].conf
                                 /\ driver'[x].outlived = driver[x].outlived
<1>1. driver \in [Exporters -> Driver]
  BY DEF HandlersInv, Managed, Manager
<1>2. /\ driver' = [driver EXCEPT ![e] = [driver[e] EXCEPT !.ready = TRUE]]
      /\ UNCHANGED <<committed, row, conf, h, store, late, ever, left>>
  BY DEF DriverReady
<1>3. /\ driver'[e] \in Driver /\ driver'[e].id = driver[e].id /\ driver'[e].conf = driver[e].conf
      /\ driver'[e].outlived = driver[e].outlived
  <2>1. driver'[e] = [driver[e] EXCEPT !.ready = TRUE]
    BY <1>1, <1>2
  <2> QED
    BY <1>1, <2>1, ReadyTyped
<1>4. \A x \in Exporters : x # e => driver'[x] = driver[x]
  BY <1>1, <1>2
<1>5. driver' \in [Exporters -> Driver]
  BY <1>1, <1>2, <1>3, <1>4
<1>6. \A x \in Exporters : /\ driver'[x].id = driver[x].id /\ driver'[x].conf = driver[x].conf
                            /\ driver'[x].outlived = driver[x].outlived
  BY <1>3, <1>4
<1>7. /\ Manager'.h = h /\ Manager'.store = store /\ Manager'.late = late /\ Manager'.driver = driver'
      /\ Manager.h = h /\ Manager.store = store /\ Manager.late = late /\ Manager.driver = driver
      /\ DOMAIN Manager' = {"h", "store", "late", "driver"}
  BY <1>2 DEF Manager
<1>8. Managed(Manager')
  BY <1>5, <1>7 DEF HandlersInv, Managed
<1>9. Registered(Manager') /\ RunsLive(Manager', row')
  BY <1>2, <1>6, <1>7, ReplicationAssumption DEF HandlersInv, Registered, RunsLive
<1> QED
  BY <1>2, <1>6, <1>8, <1>9 DEF HandlersInv, StateOK

(* A manager with nothing in its maps, as it is after a restart. *)
Nothing ==
  [h |-> [p \in Pipelines |-> Off], store |-> [p \in Pipelines |-> 0],
   late |-> [p \in Pipelines |-> EmptyBag], driver |-> [e \in Exporters |-> NoDriver]]

LEMMA EmptyManager ==
  ASSUME NEW rows
  PROVE  Sound(Nothing, rows) /\ Covered(Nothing)
         /\ \A e \in Exporters : Nothing.driver[e].id = 0
<1>1. /\ \A p \in Pipelines : Nothing.h[p] = Off /\ Nothing.store[p] = 0 /\ Nothing.late[p] = EmptyBag
      /\ \A e \in Exporters : Nothing.driver[e] = NoDriver
      /\ DOMAIN Nothing = {"h", "store", "late", "driver"} /\ DOMAIN Nothing.late = Pipelines
  BY DEF Nothing
<1>2. Managed(Nothing)
  <2>1. \A p \in Pipelines : BagToSet(Nothing.late[p]) \subseteq Nat
    BY <1>1, BagEmpty
  <2>2. Nothing.h \in [Pipelines -> Handler] /\ Nothing.store \in [Pipelines -> Nat]
    BY OffTyped DEF Nothing
  <2>3. Nothing.driver \in [Exporters -> Driver]
    BY NoDriverTyped DEF Nothing
  <2> QED
    BY <1>1, <2>1, <2>2, <2>3, OffTyped DEF Managed
<1>3. Registered(Nothing) /\ RunsLive(Nothing, rows)
  BY <1>1, OffTyped, NoDriverTyped DEF Registered, RunsLive
<1>4. Covered(Nothing)
  BY <1>1, OffTyped, BagEmpty DEF Covered, Good
<1> QED
  BY <1>1, <1>2, <1>3, <1>4, NoDriverTyped DEF Sound

(* The steps that neither the manager nor a handler takes, and PushPartly. *)
OtherStep ==
  \/ \E e \in Exporters : CreateExporter(e)
  \/ \E p \in Pipelines : PushPartly(p)
  \/ \E l \in Ledgers : DeleteBucket(l) \/ \E i \in Ids : Commit(l, i)
  \/ UNCHANGED vars

LEMMA OtherKeeps ==
  ASSUME HandlersInv, OtherStep
  PROVE  HandlersInv' /\ UNCHANGED <<managerVars, row>> /\ \A p \in Pipelines : ever[p] \subseteq ever'[p]
<1>1. UNCHANGED <<managerVars, row>>
  BY DEF OtherStep, CreateExporter, PushPartly, DeleteBucket, Commit, vars, managerVars
<1>2. Managed(Manager)' /\ Registered(Manager)' /\ RunsLive(Manager, row)'
  BY <1>1 DEF HandlersInv, Manager, managerVars, Managed, Registered, RunsLive
<1>3. ASSUME NEW e \in Exporters, CreateExporter(e)
      PROVE  StateOK' /\ \A p \in Pipelines : ever[p] \subseteq ever'[p]
  BY <1>3 DEF HandlersInv, StateOK, CreateExporter
<1>4. ASSUME NEW p \in Pipelines, PushPartly(p)
      PROVE  StateOK' /\ \A q \in Pipelines : ever[q] \subseteq ever'[q]
  <2>1. PICK S \in SUBSET h[p].batch : ever' = [ever EXCEPT ![p] = @ \union S]
    BY <1>4 DEF PushPartly, Receive
  <2>2. h[p].batch \subseteq Ids
    BY DEF HandlersInv, Managed, Manager, Handler
  <2>3. ever' \in [Pipelines -> SUBSET Ids] /\ \A q \in Pipelines : ever[q] \subseteq ever'[q]
    BY <2>1, <2>2 DEF HandlersInv, StateOK
  <2> QED
    BY <1>4, <2>3 DEF HandlersInv, StateOK, PushPartly
<1>5. ASSUME NEW l \in Ledgers, DeleteBucket(l)
      PROVE  StateOK' /\ \A p \in Pipelines : ever[p] \subseteq ever'[p]
  <2>1. left' \in [Faults -> Nat]
    BY <1>5, SpendTyped DEF HandlersInv, StateOK, DeleteBucket, Faults
  <2> QED
    BY <1>5, <2>1 DEF HandlersInv, StateOK, DeleteBucket
<1>6. ASSUME NEW l \in Ledgers, NEW i \in Ids, Commit(l, i)
      PROVE  StateOK' /\ \A p \in Pipelines : ever[p] \subseteq ever'[p]
  <2>1. committed' = [committed EXCEPT ![l] = @ \union {i}] /\ UNCHANGED <<row, conf, ever, left>>
    BY <1>6 DEF Commit
  <2>2. committed' \in [Ledgers -> SUBSET Ids]
    BY <2>1 DEF HandlersInv, StateOK
  <2> QED
    BY <2>1, <2>2 DEF HandlersInv, StateOK
<1>7. ASSUME UNCHANGED vars
      PROVE  StateOK' /\ \A p \in Pipelines : ever[p] \subseteq ever'[p]
  BY <1>7 DEF HandlersInv, StateOK, vars
<1> QED
  BY <1>1, <1>2, <1>3, <1>4, <1>5, <1>6, <1>7 DEF OtherStep, HandlersInv

LEMMA CrashKeeps ==
  ASSUME HandlersInv, Crash
  PROVE  HandlersInv' /\ Covered(Manager)' /\ UNCHANGED <<committed, row, conf, ever>>
         /\ \A e \in Exporters : driver'[e].id = 0
<1>1. /\ h' = [p \in Pipelines |-> Off] /\ store' = [p \in Pipelines |-> 0]
      /\ late' = [p \in Pipelines |-> EmptyBag] /\ driver' = [e \in Exporters |-> NoDriver]
      /\ UNCHANGED <<committed, row, conf, ever>> /\ Spend("crash")
  BY DEF Crash
<1>2. Sound(Manager, row)' /\ Covered(Manager)'
  <2>1. Become(Nothing)
    BY <1>1 DEF Become, Nothing
  <2> QED
    BY <1>1, <2>1, EmptyManager, Becomes, BecomesCovered
<1>3. left' \in [Faults -> Nat]
  BY <1>1, SpendTyped DEF HandlersInv, StateOK, Faults
<1>4. \A e \in Exporters : driver'[e].id = 0
  BY <1>1, NoDriverTyped
<1> QED
  BY <1>1, <1>2, <1>3, <1>4 DEF HandlersInv, StateOK, Sound

(* Every step is one of these. *)
LEMMA Steps ==
  ASSUME [Next]_vars
  PROVE  \/ ManagerStep \/ OtherStep \/ Crash
         \/ \E e \in Exporters : DriverReady(e)
         \/ \E p \in Pipelines : Fetch(p) \/ Push(p) \/ Send(p) \/ Exit(p) \/ StoreCursor(p) \/ StoreLate(p)
  BY DEF Next, ManagerStep, OtherStep

LEMMA InitHandlers == Init => HandlersInv /\ Covered(Manager)
                              /\ \A e \in Exporters : Manager.driver[e].id = 0
<1> SUFFICES ASSUME Init PROVE HandlersInv /\ Covered(Manager)
                               /\ \A e \in Exporters : Manager.driver[e].id = 0
  OBVIOUS
<1>1. Sound(Manager, row) /\ Covered(Manager)
      /\ \A e \in Exporters : Manager.driver[e].id = 0
  <2>1. Manager = Nothing
    BY DEF Init, Manager, Nothing
  <2> QED
    BY <2>1, EmptyManager
<1>2. [st |-> "new", last |-> 0] \in Row
  BY DEF Row
<1>3. StateOK
  BY <1>2, ReplicationAssumption DEF Init, StateOK
<1> QED
  BY <1>1, <1>3 DEF HandlersInv, Sound

LEMMA HandlersStep == HandlersInv /\ [Next]_vars => HandlersInv'
<1> SUFFICES ASSUME HandlersInv, [Next]_vars PROVE HandlersInv'
  OBVIOUS
<1>1. CASE ManagerStep
  <2>1. StateOK' /\ \E n : Outcome(n)
    BY <1>1, ManagerOutcome
  <2>2. PICK n : Outcome(n)
    BY <2>1
  <2>3. Sound(Manager, row)'
    BY <2>2, Becomes DEF Outcome
  <2> QED
    BY <2>1, <2>3 DEF HandlersInv, Sound
<1>2. CASE OtherStep
  BY <1>2, OtherKeeps
<1>3. CASE Crash
  BY <1>3, CrashKeeps
<1>4. ASSUME NEW e \in Exporters, DriverReady(e) PROVE HandlersInv'
  BY <1>4, DriverReadyKeeps
<1>5. ASSUME NEW p \in Pipelines, Fetch(p) \/ Push(p) \/ Send(p) \/ Exit(p) \/ StoreCursor(p) \/ StoreLate(p)
      PROVE  HandlersInv'
  <2>1. CASE Fetch(p)
    BY <2>1, FetchEffect, FetchKeeps
  <2>2. CASE Push(p)
    BY <2>2, PushEffect, PushKeeps
  <2>3. CASE Send(p)
    BY <2>3, SendEffect, SendKeeps
  <2>4. CASE StoreCursor(p) \/ StoreLate(p)
    BY <2>4, StoreKeeps
  <2>5. CASE Exit(p)
    BY <2>5, ExitEffect, ExitKeeps
  <2> QED
    BY <1>5, <2>1, <2>2, <2>3, <2>4, <2>5
<1> QED
  BY <1>1, <1>2, <1>3, <1>4, <1>5, Steps

(* Whatever is stopped, deleted, updated, restored or fails, and however   *)
(* often, a handler in m.pipelines exports for a pipeline that has a row,  *)
(* and pushes to the driver registered for its exporter, never to one that *)
(* was stopped with another pipeline: HandlersAreCurrent without what it   *)
(* says of the configuration.                                              *)
HandlersAreRegistered ==
  \A p \in Running(h) : p \in Live /\ h[p].drv = driver[ExporterOf[p]].id

THEOREM HandlersKeepTheirDriver == Spec => []HandlersAreRegistered
<1>1. HandlersInv => HandlersAreRegistered
  BY DEF HandlersInv, HandlersAreRegistered, Manager, Registered, RunsLive, Running, Live
<1> QED
  BY <1>1, InitHandlers, HandlersStep, PTL DEF Spec

-----------------------------------------------------------------------------
(* Cursors, when logs become visible in the order of their ids.            *)

(* A log that becomes visible is above all those that are. *)
LEMMA CommitsAbove ==
  ASSUME OrderedCommits, StateOK, Prefix, NEW l \in Ledgers, NEW i \in Ids, Commit(l, i)
  PROVE  /\ Prefix'
         /\ \A k \in Ledgers : committed[k] \subseteq committed'[k]
         /\ \A k \in Ledgers : \A j \in committed'[k] : \A c \in committed[k] : j <= c => j \in committed[k]
<1>1. /\ committed' = [committed EXCEPT ![l] = @ \union {i}] /\ i \notin committed[l]
      /\ \A j \in 1 .. i - 1 : j \in committed[l]
  BY DEF Commit
<1>2. \A k \in Ledgers : k # l => committed'[k] = committed[k]
  BY <1>1 DEF StateOK
<1>3. committed'[l] = committed[l] \union {i} /\ committed[l] \subseteq Ids
  BY <1>1 DEF StateOK
<1>4. i \in Nat /\ \A c \in Ids : c \in Nat /\ c >= 1
  BY ReplicationAssumption DEF Ids
<1>5. \A c \in committed[l] : ~(i <= c)
  BY <1>1, <1>3, <1>4 DEF Prefix, Ids
<1>6. \A j \in 1 .. i : j \in committed'[l]
  <2> SUFFICES ASSUME NEW j \in 1 .. i PROVE j \in committed'[l]
    OBVIOUS
  <2>1. CASE j = i
    BY <1>3, <2>1
  <2>2. CASE j # i
    <3>1. j \in 1 .. i - 1
      BY <1>4, <2>2
    <3> QED
      BY <1>1, <1>3, <3>1
  <2> QED
    BY <2>1, <2>2
<1>7. Prefix'
  BY <1>2, <1>3, <1>6 DEF Prefix
<1> QED
  BY <1>2, <1>3, <1>5, <1>7

(* What was good stays good when such a log, or more of what was sent,     *)
(* is added.                                                               *)
LEMMA StaysGood ==
  ASSUME \A k \in Ledgers : committed[k] \subseteq committed'[k],
         \A k \in Ledgers : \A j \in committed'[k] : \A c \in committed[k] : j <= c => j \in committed[k],
         \A q \in Pipelines : ever[q] \subseteq ever'[q],
         NEW p \in Pipelines
  PROVE  /\ \A c : Good(p, c) => Good(p, c)'
         /\ \A x : Gapless(p, x) => Gapless(p, x)'
<1>1. LedgerOf[p] \in Ledgers
  BY ReplicationAssumption
<1>2. ASSUME NEW c, Good(p, c)
      PROVE  Good(p, c)'
  BY <1>1, <1>2 DEF Good
<1>3. ASSUME NEW x, Gapless(p, x)
      PROVE  Gapless(p, x)'
  BY <1>1, <1>3 DEF Gapless
<1> QED
  BY <1>2, <1>3

(* A page is closed downward: what it leaves out below one of its logs the *)
(* cursor covers.                                                          *)
LEMMA PageHasNoGap ==
  ASSUME StateOK, NEW l \in Ledgers, NEW last \in Nat, NEW b \in Page(l, last), NEW i \in committed[l], i <= b
  PROVE  i \in Page(l, last) \/ i <= last
<1> DEFINE new == {j \in committed[l] : j > last}
           upto(k) == {j \in new : j <= k}
<1>1. MaxLog \in Nat /\ PageSize \in Nat
  BY ReplicationAssumption
<1>2. \A j \in committed[l] : j \in Nat /\ j \in Ids
  BY <1>1 DEF StateOK, Ids
<1>3. b \in committed[l] /\ Cardinality(upto(b)) <= PageSize
  BY DEF Page
<1>4. SUFFICES ASSUME i > last PROVE i \in Page(l, last)
  BY <1>2
<1>5. IsFiniteSet(upto(b))
  <2>1. upto(b) \subseteq 1 .. MaxLog
    BY <1>2 DEF Ids
  <2>2. IsFiniteSet(1 .. MaxLog)
    BY <1>1, FS_Interval
  <2> HIDE DEF upto
  <2> QED
    BY <2>1, <2>2, FS_Subset
<1>6. upto(i) \subseteq upto(b)
  BY <1>2, <1>3
<1>7. Cardinality(upto(i)) <= Cardinality(upto(b)) /\ Cardinality(upto(b)) \in Nat /\ Cardinality(upto(i)) \in Nat
  BY <1>5, <1>6, FS_Subset, FS_CardinalityType
<1>8. Cardinality(upto(i)) <= PageSize
  BY <1>1, <1>3, <1>7
<1> QED
  BY <1>4, <1>8 DEF Page

LEMMA FetchGapless ==
  ASSUME HandlersInv, NEW p \in Pipelines, FetchFacts(p)
  PROVE  Gapless(p, h'[p])
<1>1. LedgerOf[p] \in Ledgers /\ StateOK
  BY ReplicationAssumption DEF HandlersInv
<1>2. h[p].last \in Nat
  BY DEF HandlersInv, Managed, Manager, Handler
<1>3. h'[p].batch \subseteq committed[LedgerOf[p]]
  BY <1>1, PageOfIds DEF FetchFacts
<1>4. \A b \in h'[p].batch : \A i \in committed[LedgerOf[p]] : i <= b => i \in h'[p].batch \/ i <= h[p].last
  BY <1>1, <1>2, PageHasNoGap DEF FetchFacts
<1> QED
  BY <1>3, <1>4 DEF Gapless, FetchFacts

LEMMA PushGood ==
  ASSUME HandlersInv, NEW p \in Pipelines, PushFacts(p), Good(p, h[p].last), Gapless(p, h[p])
  PROVE  Good(p, h[p].last)'
<1> DEFINE C == committed[LedgerOf[p]]
<1>1. LedgerOf[p] \in Ledgers /\ StateOK
  BY ReplicationAssumption DEF HandlersInv
<1>2. \A i \in C : i \in Nat /\ i >= 1
  BY <1>1, ReplicationAssumption DEF StateOK, Ids
<1>3. h[p].last \in Nat /\ h'[p].last \in C
  <2>1. h[p].last \in Nat
    BY DEF HandlersInv, Managed, Manager, Handler
  <2> QED
    BY <2>1 DEF PushFacts, Gapless
<1>4. ASSUME NEW i \in C, i <= h'[p].last
      PROVE  i \in ever'[p]
  <2>1. i \in h[p].batch \/ i <= h[p].last
    BY <1>4 DEF PushFacts, Gapless
  <2>2. i <= h[p].last => i \in ever[p]
    BY <1>2, <1>3 DEF Good
  <2> QED
    BY <2>1, <2>2 DEF PushFacts
<1>5. UNCHANGED committed
  BY DEF PushFacts
<1> QED
  BY <1>3, <1>4, <1>5 DEF Good

(* What a cursor of p may be in a state: Covered and AllGood, for one      *)
(* pipeline.                                                               *)
CursorsOf(p) ==
  /\ Good(p, h[p].last) /\ Good(p, store[p]) /\ Good(p, row[p].last)
  /\ \A c \in BagToSet(late[p]) : Good(p, c)
  /\ h[p].pc = "push" => Gapless(p, h[p])

LEMMA CursorsInvParts == CursorsInv <=> Prefix /\ \A p \in Pipelines : CursorsOf(p)
  BY DEF CursorsInv, Covered, CursorsOf, Manager

(* A step that leaves the logs and what was received as they are.          *)
LEMMA SameGood ==
  ASSUME UNCHANGED <<committed, ever>>, NEW p \in Pipelines
  PROVE  /\ \A c : Good(p, c) <=> Good(p, c)'
         /\ \A x : Gapless(p, x) <=> Gapless(p, x)'
  BY DEF Good, Gapless

LEMMA StoreCursors ==
  ASSUME HandlersInv, CursorsInv, NEW p \in Pipelines, StoreCursor(p) \/ StoreLate(p)
  PROVE  CursorsInv'
<1>1. store \in [Pipelines -> Nat] /\ DOMAIN late = Pipelines /\ BagToSet(late[p]) \subseteq Nat
  BY DEF HandlersInv, Managed, Manager
<1>2. \E i \in Nat : /\ StorePipelineState(p, i) /\ Good(p, i) /\ UNCHANGED <<committed, ever, h>>
                     /\ \A q \in Pipelines : store'[q] = store[q] \/ store'[q] = 0
                     /\ \A q \in Pipelines : BagToSet(late'[q]) \subseteq BagToSet(late[q])
  <2>1. CASE StoreCursor(p)
    <3>1. /\ StorePipelineState(p, store[p]) /\ store' = [store EXCEPT ![p] = 0]
          /\ UNCHANGED <<committed, h, late, ever>>
      BY <2>1 DEF StoreCursor
    <3>2. Good(p, store[p])
      BY CursorsInvParts DEF CursorsOf
    <3> QED
      BY <1>1, <3>1, <3>2
  <2>2. CASE StoreLate(p)
    <3>1. PICK i \in BagToSet(late[p]) :
            /\ StorePipelineState(p, i) /\ late' = [late EXCEPT ![p] = @ (-) SetToBag({i})]
            /\ UNCHANGED <<committed, h, store, ever>>
      BY <2>2 DEF StoreLate
    <3>2. BagToSet(late[p] (-) SetToBag({i})) \subseteq BagToSet(late[p])
      BY BagRemoved
    <3>3. \A q \in Pipelines : BagToSet(late'[q]) \subseteq BagToSet(late[q])
      BY <1>1, <3>1, <3>2
    <3>4. Good(p, i) /\ i \in Nat
      BY <1>1, <3>1, CursorsInvParts DEF CursorsOf
    <3> QED
      BY <3>1, <3>3, <3>4
  <2> QED
    BY <2>1, <2>2
<1>3. PICK i \in Nat : /\ StorePipelineState(p, i) /\ Good(p, i) /\ UNCHANGED <<committed, ever, h>>
                       /\ \A q \in Pipelines : store'[q] = store[q] \/ store'[q] = 0
                       /\ \A q \in Pipelines : BagToSet(late'[q]) \subseteq BagToSet(late[q])
  BY <1>2
<1>4. \A q \in Pipelines : row'[q].last = row[q].last \/ (q = p /\ row'[q].last = i)
  BY <1>3, StoredRow DEF HandlersInv
<1>5. ASSUME NEW q \in Pipelines
      PROVE  CursorsOf(q)'
  <2>1. CursorsOf(q)
    BY CursorsInvParts
  <2>2. Good(q, row'[q].last) /\ Good(q, store'[q])
    <3>1. Good(q, 0)
      BY DEF Good
    <3> QED
      BY <1>3, <1>4, <2>1, <3>1 DEF CursorsOf
  <2>3. \A c \in BagToSet(late'[q]) : Good(q, c)
    BY <1>3, <2>1 DEF CursorsOf
  <2> QED
    BY <1>3, <2>1, <2>2, <2>3 DEF CursorsOf, Good, Gapless
<1>6. Prefix'
  BY <1>3, CursorsInvParts DEF Prefix
<1> QED
  BY <1>5, <1>6 DEF CursorsInv, CursorsOf, Covered, Manager

LEMMA HandlerCursors ==
  ASSUME HandlersInv, CursorsInv, NEW p \in Pipelines, Fetch(p) \/ Push(p) \/ Send(p) \/ Exit(p)
  PROVE  CursorsInv'
<1>1. CASE Fetch(p)
  <2>1. FetchFacts(p)
    BY <1>1, FetchEffect
  <2>2. Gapless(p, h'[p])
    BY <2>1, FetchGapless
  <2>3. ASSUME NEW q \in Pipelines
        PROVE  CursorsOf(q)'
    <3>1. CursorsOf(q)
      BY CursorsInvParts
    <3>2. h'[q].last = h[q].last /\ UNCHANGED <<committed, row, store, late, ever>>
      BY <2>1 DEF FetchFacts
    <3>3. h'[q].pc = "push" => Gapless(q, h'[q])
      BY <2>1, <2>2, <3>1 DEF FetchFacts, CursorsOf
    <3> QED
      BY <3>1, <3>2, <3>3 DEF CursorsOf, Good, Gapless
  <2>4. Prefix'
    BY <2>1, CursorsInvParts DEF Prefix, FetchFacts
  <2> QED
    BY <2>3, <2>4 DEF CursorsInv, CursorsOf, Covered, Manager
<1>2. CASE Push(p)
  <2>1. PushFacts(p)
    BY <1>2, PushEffect
  <2>2. Good(p, h[p].last)'
    <3>1. Good(p, h[p].last) /\ Gapless(p, h[p])
      BY <2>1, CursorsInvParts DEF CursorsOf, PushFacts
    <3> QED
      BY <2>1, <3>1, PushGood
  <2>3. ASSUME NEW q \in Pipelines
        PROVE  CursorsOf(q)'
    <3>1. CursorsOf(q)
      BY CursorsInvParts
    <3>2. UNCHANGED <<committed, row, store, late>> /\ ever[q] \subseteq ever'[q]
      BY <2>1 DEF PushFacts
    <3>3. Good(q, h[q].last)' /\ (h'[q].pc = "push" => Gapless(q, h[q])')
      <4>1. CASE q = p
        BY <2>1, <2>2, <4>1 DEF PushFacts
      <4>2. CASE q # p
        <5>1. h'[q] = h[q]
          BY <2>1, <4>2 DEF PushFacts
        <5> QED
          BY <3>1, <3>2, <5>1 DEF CursorsOf, Good, Gapless
      <4> QED
        BY <4>1, <4>2
    <3>4. Good(q, store[q])' /\ Good(q, row[q].last)' /\ (\A c \in BagToSet(late[q]) : Good(q, c))'
      BY <3>1, <3>2 DEF CursorsOf, Good
    <3> QED
      BY <3>3, <3>4 DEF CursorsOf
  <2>4. Prefix'
    BY <2>1, CursorsInvParts DEF Prefix, PushFacts
  <2> QED
    BY <2>3, <2>4 DEF CursorsInv, CursorsOf, Covered, Manager
<1>3. CASE Send(p)
  <2>1. SendFacts(p)
    BY <1>3, SendEffect
  <2>2. ASSUME NEW q \in Pipelines
        PROVE  CursorsOf(q)'
    <3>1. CursorsOf(q)
      BY CursorsInvParts
    <3>2. /\ h'[q].last = h[q].last /\ UNCHANGED <<committed, row, late, ever>>
          /\ store'[q] = store[q] \/ store'[q] = h[q].last
      BY <2>1 DEF SendFacts
    <3>3. h'[q].pc = "push" => Gapless(q, h'[q])
      BY <2>1, <3>1 DEF SendFacts, CursorsOf
    <3> QED
      BY <3>1, <3>2, <3>3 DEF CursorsOf, Good, Gapless
  <2>3. Prefix'
    BY <2>1, CursorsInvParts DEF Prefix, SendFacts
  <2> QED
    BY <2>2, <2>3 DEF CursorsInv, CursorsOf, Covered, Manager
<1>4. CASE Exit(p)
  <2>1. ExitFacts(p)
    BY <1>4, ExitEffect
  <2>2. ASSUME NEW q \in Pipelines
        PROVE  CursorsOf(q)'
    <3>1. CursorsOf(q) /\ Good(q, 0)
      BY CursorsInvParts DEF Good
    <3>2. /\ h'[q].last = h[q].last \/ h'[q].last = 0
          /\ UNCHANGED <<committed, row, store, late, ever>>
      BY <2>1 DEF ExitFacts
    <3>3. h'[q].pc = "push" => Gapless(q, h'[q])
      BY <2>1, <3>1 DEF ExitFacts, CursorsOf
    <3> QED
      BY <3>1, <3>2, <3>3 DEF CursorsOf, Good, Gapless
  <2>3. Prefix'
    BY <2>1, CursorsInvParts DEF Prefix, ExitFacts
  <2> QED
    BY <2>2, <2>3 DEF CursorsInv, CursorsOf, Covered, Manager
<1> QED
  BY <1>1, <1>2, <1>3, <1>4

LEMMA OtherCursors ==
  ASSUME OrderedCommits, HandlersInv, CursorsInv, OtherStep
  PROVE  CursorsInv'
<1>1. UNCHANGED <<managerVars, row>> /\ \A p \in Pipelines : ever[p] \subseteq ever'[p]
  BY OtherKeeps
<1>2. /\ Prefix'
      /\ \A k \in Ledgers : committed[k] \subseteq committed'[k]
      /\ \A k \in Ledgers : \A j \in committed'[k] : \A c \in committed[k] : j <= c => j \in committed[k]
  <2>1. CASE \E l \in Ledgers : \E i \in Ids : Commit(l, i)
    BY <2>1, CommitsAbove DEF HandlersInv, CursorsInv
  <2>2. CASE UNCHANGED committed
    BY <2>2 DEF CursorsInv, Prefix
  <2> QED
    BY <2>1, <2>2 DEF OtherStep, CreateExporter, PushPartly, DeleteBucket, vars
<1>3. ASSUME NEW p \in Pipelines
      PROVE  CursorsOf(p)'
  <2>1. CursorsOf(p)
    BY CursorsInvParts
  <2>2. /\ \A c : Good(p, c) => Good(p, c)'
        /\ \A x : Gapless(p, x) => Gapless(p, x)'
    BY <1>1, <1>2, StaysGood
  <2> QED
    BY <1>1, <2>1, <2>2 DEF CursorsOf, Good, Gapless, managerVars
<1> QED
  BY <1>2, <1>3 DEF CursorsInv, CursorsOf, Covered, Manager

LEMMA ManagerCursors ==
  ASSUME HandlersInv, CursorsInv, ManagerStep
  PROVE  CursorsInv'
<1>1. UNCHANGED <<committed, ever>>
  BY DEF ManagerStep, Synchronize, SynchronizeAborts, DeleteExporter, UpdateExporter, UpdateExporterFails,
         CreatePipeline, StartPipeline, StopPipeline, DeletePipeline, ResetPipeline, ResetPipelineFails,
         GiveUp
<1>2. AllGood(row)
  BY DEF CursorsInv, AllGood
<1>3. AllGood(row') /\ \E n : Outcome(n)
  BY <1>2, ManagerOutcome
<1>4. PICK n : Outcome(n)
  BY <1>3
<1>5. Covered(n)
  BY <1>2, <1>4 DEF Outcome, CursorsInv
<1>6. Covered(Manager)'
  BY <1>1, <1>4, <1>5, BecomesCovered DEF Outcome
<1>7. Prefix' /\ AllGood(row)'
  BY <1>1, <1>3 DEF CursorsInv, Prefix, AllGood, Good
<1> QED
  BY <1>6, <1>7 DEF CursorsInv, AllGood

LEMMA CursorsStep ==
  ASSUME OrderedCommits, HandlersInv, CursorsInv, [Next]_vars
  PROVE  CursorsInv'
<1>1. CASE Crash
  <2>1. Covered(Manager)' /\ UNCHANGED <<committed, row, ever>>
    BY <1>1, CrashKeeps
  <2> QED
    BY <2>1 DEF CursorsInv, Prefix, Good
<1>2. ASSUME NEW e \in Exporters, DriverReady(e) PROVE CursorsInv'
  BY <1>2 DEF DriverReady, CursorsInv, Prefix, Covered, Manager, Good, Gapless
<1> QED
  BY <1>1, <1>2, ManagerCursors, OtherCursors, HandlerCursors, StoreCursors, Steps

(* As long as logs become visible in the order of their ids (HASH_LOGS     *)
(* SYNC), whatever is stopped, reset, deleted, restored or lost in a       *)
(* crash, no stored cursor, no cursor of a handler and none on its way to  *)
(* the row covers a visible log that the target has not received.          *)
THEOREM CursorsCoverWhatWasSent ==
  ASSUME OrderedCommits
  PROVE  Spec => []CursorCoversSent
<1>1. Init => CursorsInv
  <2> SUFFICES ASSUME Init PROVE CursorsInv
    OBVIOUS
  <2>1. Prefix /\ \A p \in Pipelines : Good(p, row[p].last)
    BY ReplicationAssumption DEF Init, Prefix, Good
  <2> QED
    BY <2>1, InitHandlers DEF CursorsInv
<1>2. HandlersInv /\ CursorsInv /\ [Next]_vars => CursorsInv'
  BY CursorsStep
<1>3. HandlersInv /\ CursorsInv => CursorCoversSent
  <2> SUFFICES ASSUME HandlersInv, CursorsInv, NEW p \in Pipelines,
                      NEW c \in {row[p].last, h[p].last, store[p]} \union BagToSet(late[p]),
                      NEW i \in committed[LedgerOf[p]], i <= c
               PROVE  i \in ever[p]
    BY DEF CursorCoversSent
  <2>1. Good(p, c)
    BY CursorsInvParts DEF CursorsOf
  <2>2. i \in Nat /\ i >= 1
    BY ReplicationAssumption DEF HandlersInv, StateOK, Ids
  <2> QED
    BY <2>1, <2>2 DEF Good
<1> QED
  BY <1>1, <1>2, <1>3, InitHandlers, HandlersStep, PTL DEF Spec

-----------------------------------------------------------------------------
(* Configurations.                                                         *)

(* Stopping pipelines, whatever becomes of their rows. *)
LEMMA StopConfigurations ==
  ASSUME HandlersInv, ConfigurationsInv, NEW P \in SUBSET Pipelines,
         Become(StopPipelines(Manager, P)),
         \A e \in Exporters : conf'[e] = conf[e] \/ conf'[e] = 0,
         \A p \in Pipelines : \/ row'[p].st = row[p].st /\ conf'[ExporterOf[p]] = conf[ExporterOf[p]]
                              \/ row'[p].st = row[p].st /\ row[p].st # "live"
                              \/ row'[p].st = "gone"
  PROVE  ConfigurationsInv'
<1> DEFINE n == StopPipelines(Manager, P)
<1>1. Sound(Manager, row) /\ Configured(Manager, row, conf) /\ Become(n)
  BY DEF HandlersInv, Sound, ConfigurationsInv, Configured
<1>2. \A p \in Pipelines : row[p].st # "new" => row'[p].st # "new"
  OBVIOUS
<1>3. Configured(n, row', conf)
  BY <1>1, <1>2, StopConfigured
<1> HIDE DEF n
<1>4. Configured(n, row', conf')
  BY <1>3 DEF Configured, Fresh
<1>5. Configured(Manager, row, conf)'
  BY <1>1, <1>4, Becomes
<1>6. RowsHaveExporters'
  BY DEF RowsHaveExporters, ConfigurationsInv
<1> QED
  BY <1>5, <1>6 DEF Configured, ConfigurationsInv

(* What becomes of a manager that is configured, when no row changes its   *)
(* state and no exporter is deleted.                                       *)
LEMMA ConfiguredBecomes ==
  ASSUME ConfigurationsInv, NEW n, Become(n), Configured(n, row', conf'),
         \A p \in Pipelines : row'[p].st = "live" => row[p].st = "live" \/ conf[ExporterOf[p]] > 0,
         \A e \in Exporters : conf[e] > 0 => conf'[e] > 0
  PROVE  ConfigurationsInv'
<1>1. Configured(Manager, row, conf)'
  BY Becomes
<1>2. RowsHaveExporters'
  BY ReplicationAssumption DEF RowsHaveExporters, ConfigurationsInv
<1> QED
  BY <1>1, <1>2 DEF Configured, ConfigurationsInv

LEMMA SynchronizeConfigurations ==
  ASSUME HandlersInv, ConfigurationsInv, Synchronize \/ SynchronizeAborts
  PROVE  ConfigurationsInv'
<1>1. /\ SynchronizeOk(Manager, row, conf) \/ SynchronizeFails(Manager, row, conf)
      /\ UNCHANGED <<row, conf>>
  BY DEF Synchronize, SynchronizeAborts
<1>2. /\ Sound(Manager, row) /\ Configured(Manager, row, conf)
      /\ conf \in [Exporters -> Nat] /\ row \in [Pipelines -> Row]
  BY DEF HandlersInv, Sound, StateOK, ConfigurationsInv, Configured
<1>3. \E n : Become(n) /\ Configured(n, row, conf)
  <2>1. CASE SynchronizeOk(Manager, row, conf)
    BY <1>2, <2>1, SynchronizedOk
  <2>2. CASE SynchronizeFails(Manager, row, conf)
    BY <1>2, <2>2, SynchronizedFails
  <2> QED
    BY <1>1, <2>1, <2>2
<1> QED
  BY <1>1, <1>3, ConfiguredBecomes

(* Once its pipelines are stopped the exporter has no driver, unless one   *)
(* had been left without a pipeline, which outlives the update; the        *)
(* drivers started then have the new configuration.                        *)
LEMMA UpdateConfigurations ==
  ASSUME HandlersInv, ConfigurationsInv, NEW e \in Exporters, UpdateExporter(e)
  PROVE  ConfigurationsInv'
<1> DEFINE m == Updated(e)
<1>1. /\ conf' = [conf EXCEPT ![e] = @ + 1] /\ UNCHANGED row
      /\ SynchronizeOk(m, row, conf') \/ SynchronizeFails(m, row, conf') \/ Become(m)
  BY UpdateEffect DEF UpdateFacts
<1>2. /\ conf' \in [Exporters -> Nat] /\ row \in [Pipelines -> Row]
      /\ \A x \in Exporters : x # e => conf'[x] = conf[x]
      /\ \A x \in Exporters : conf[x] > 0 => conf'[x] > 0
  BY <1>1 DEF HandlersInv, StateOK
<1>3. /\ Sound(m, row) /\ Configured(m, row, conf)
      /\ m.driver[e].id = 0 \/ m.driver[e].outlived
  BY UpdatedFacts
<1> HIDE DEF m
<1>4. Configured(m, row, conf')
  BY <1>2, <1>3 DEF Configured, Fresh
<1>5. \E n : Become(n) /\ Configured(n, row, conf')
  <2>1. CASE SynchronizeOk(m, row, conf')
    BY <1>2, <1>3, <1>4, <2>1, SynchronizedOk
  <2>2. CASE SynchronizeFails(m, row, conf')
    BY <1>2, <1>3, <1>4, <2>2, SynchronizedFails
  <2>3. CASE Become(m)
    BY <1>4, <2>3
  <2> QED
    BY <1>1, <2>1, <2>2, <2>3
<1> QED
  BY <1>1, <1>2, <1>5, ConfiguredBecomes

LEMMA CreateConfigurations ==
  ASSUME HandlersInv, ConfigurationsInv, NEW p \in Pipelines, CreatePipeline(p)
  PROVE  ConfigurationsInv'
<1> DEFINE s == StartPipelines(Manager, {p}, row', conf)
           i == InitExporter(Manager, {ExporterOf[p]}, conf)
<1>1. /\ row' = [row EXCEPT ![p] = [st |-> "live", last |-> 0]] /\ row[p].st = "new"
      /\ conf[ExporterOf[p]] > 0 /\ UNCHANGED conf
      /\ Become(s) \/ Become(i)
  BY DEF CreatePipeline
<1>2. row' \in [Pipelines -> Row] /\ row'[p].st = "live"
      /\ \A q \in Pipelines : q # p => row'[q] = row[q]
  BY <1>1 DEF HandlersInv, StateOK, Row
<1>3. Sound(Manager, row') /\ conf \in [Exporters -> Nat]
  BY <1>1, <1>2 DEF HandlersInv, Sound, RunsLive, StateOK
<1>4. Configured(Manager, row', conf)
  BY <1>2 DEF ConfigurationsInv, Configured, DriversHaveRows
<1>5. {p} \in SUBSET Pipelines /\ \A q \in {p} : row'[q].st = "live"
  BY <1>2
<1>6. Configured(s, row', conf)
  BY <1>2, <1>3, <1>4, <1>5, StartConfigured
<1>7. Configured(i, row', conf)
  <2>1. \A e \in {ExporterOf[p]} : \E q \in Pipelines : ExporterOf[q] = e /\ row'[q].st # "new"
    BY <1>2
  <2> QED
    BY <1>3, <1>4, <2>1, InitConfigured
<1> HIDE DEF s, i
<1> QED
  BY <1>1, <1>2, <1>6, <1>7, ConfiguredBecomes

LEMMA StartConfigurations ==
  ASSUME HandlersInv, ConfigurationsInv, NEW p \in Pipelines, StartPipeline(p)
  PROVE  ConfigurationsInv'
<1> DEFINE s == StartPipelines(Manager, {p}, row, conf)
<1>1. row[p].st = "live" /\ Become(s) /\ UNCHANGED <<row, conf>>
  BY DEF StartPipeline, Live
<1>2. /\ Sound(Manager, row) /\ Configured(Manager, row, conf)
      /\ conf \in [Exporters -> Nat] /\ row \in [Pipelines -> Row]
  BY DEF HandlersInv, Sound, StateOK, ConfigurationsInv, Configured
<1>3. {p} \in SUBSET Pipelines /\ \A q \in {p} : row[q].st = "live"
  BY <1>1
<1>4. Configured(s, row, conf)
  BY <1>2, <1>3, StartConfigured
<1> HIDE DEF s
<1> QED
  BY <1>1, <1>4, ConfiguredBecomes

LEMMA ResetConfigurations ==
  ASSUME HandlersInv, ConfigurationsInv, NEW p \in Pipelines, ResetPipeline(p)
  PROVE  ConfigurationsInv'
<1> DEFINE started == {p} \intersect Running(h)
           m == StopPipelines(Manager, started)
           s == StartPipelines(m, started, row', conf)
           i == InitExporter(m, {ExporterOf[p]}, conf)
<1>1. /\ row' = [row EXCEPT ![p].last = 0] /\ row[p].st = "live" /\ UNCHANGED conf
      /\ Become(s) \/ Become(i)
  BY DEF ResetPipeline, Live
<1>2. row' \in [Pipelines -> Row] /\ (\A q \in Pipelines : row'[q].st = row[q].st)
  BY <1>1 DEF HandlersInv, StateOK, Row
<1>3. Sound(Manager, row) /\ Configured(Manager, row, conf) /\ conf \in [Exporters -> Nat]
  BY DEF HandlersInv, Sound, StateOK, ConfigurationsInv, Configured
<1>4. started \in SUBSET Pipelines /\ \A q \in started : row'[q].st = "live"
  BY <1>1, <1>2
<1> HIDE DEF started
<1>5. Sound(m, row')
  BY <1>2, <1>3, <1>4, StopSound
<1>6. Configured(m, row', conf)
  BY <1>2, <1>3, <1>4, StopConfigured
<1> HIDE DEF m
<1>7. Configured(s, row', conf)
  BY <1>2, <1>3, <1>4, <1>5, <1>6, StartConfigured
<1>8. Configured(i, row', conf)
  <2>1. \A e \in {ExporterOf[p]} : \E q \in Pipelines : ExporterOf[q] = e /\ row'[q].st # "new"
    BY <1>1, <1>2
  <2> QED
    BY <1>3, <1>5, <1>6, <2>1, InitConfigured
<1> HIDE DEF s, i
<1> QED
  BY <1>1, <1>2, <1>7, <1>8, ConfiguredBecomes

LEMMA ManagerConfigurations ==
  ASSUME HandlersInv, ConfigurationsInv, ManagerStep
  PROVE  ConfigurationsInv'
<1>1. ASSUME NEW P \in SUBSET Pipelines, Become(StopPipelines(Manager, P)), UNCHANGED <<row, conf>>
      PROVE  ConfigurationsInv'
  BY <1>1, StopConfigurations
<1>2. ASSUME NEW e \in Exporters, UpdateExporterFails(e)
      PROVE  ConfigurationsInv'
  <2>1. PICK P \in SUBSET Of(e) : Become(StopPipelines(Manager, P)) /\ UNCHANGED <<row, conf>>
    BY <1>2 DEF UpdateExporterFails
  <2>2. P \in SUBSET Pipelines
    BY DEF Of, Running
  <2> QED
    BY <1>1, <2>1, <2>2
<1>3. ASSUME NEW p \in Pipelines, GiveUp(p)
      PROVE  ConfigurationsInv'
  <2>1. UNCHANGED <<row, conf>>
    BY <1>3 DEF GiveUp
  <2>2. \E n : Become(n) /\ Configured(n, row, conf)
    BY <1>3, GiveUpEffect
  <2> QED
    BY <2>1, <2>2, ConfiguredBecomes
<1>4. ASSUME NEW p \in Pipelines, StopPipeline(p) \/ ResetPipelineFails(p)
      PROVE  ConfigurationsInv'
  <2>1. {p} \in SUBSET Pipelines
    OBVIOUS
  <2> QED
    BY <1>1, <1>4, <2>1 DEF StopPipeline, ResetPipelineFails
<1>5. ASSUME NEW p \in Pipelines, DeletePipeline(p)
      PROVE  ConfigurationsInv'
  <2>1. /\ row' = [row EXCEPT ![p].st = IF @ = "live" THEN "gone" ELSE @]
        /\ UNCHANGED conf /\ Become(StopPipelines(Manager, {p}))
    BY <1>5 DEF DeletePipeline
  <2>2. \A q \in Pipelines : row'[q].st = row[q].st \/ row'[q].st = "gone"
    BY <2>1 DEF HandlersInv, StateOK, Row
  <2>3. {p} \in SUBSET Pipelines
    OBVIOUS
  <2> QED
    BY <2>1, <2>2, <2>3, StopConfigurations
<1>6. ASSUME NEW e \in Exporters, DeleteExporter(e)
      PROVE  ConfigurationsInv'
  <2>1. conf' = [conf EXCEPT ![e] = 0] /\ Become(StopPipelines(Manager, Of(e)))
    BY <1>6 DEF DeleteExporter
  <2>2. row' = [p \in Pipelines |-> IF p \in Live /\ ExporterOf[p] = e THEN [row[p] EXCEPT !.st = "gone"] ELSE row[p]]
    BY <1>6 DEF DeleteExporter
  <2>3. \A x \in Exporters : conf'[x] = IF x = e THEN 0 ELSE conf[x]
    BY <2>1 DEF HandlersInv, StateOK
  <2>4. ASSUME NEW p \in Pipelines
        PROVE  \/ row'[p].st = row[p].st /\ conf'[ExporterOf[p]] = conf[ExporterOf[p]]
               \/ row'[p].st = row[p].st /\ row[p].st # "live"
               \/ row'[p].st = "gone"
    <3>1. ExporterOf[p] \in Exporters
      BY ReplicationAssumption
    <3>2. CASE p \in Live /\ ExporterOf[p] = e
      <4>1. row'[p] = [row[p] EXCEPT !.st = "gone"] /\ row[p] \in Row
        BY <2>2, <3>2 DEF HandlersInv, StateOK
      <4> QED
        BY <4>1 DEF Row
    <3>3. CASE ~(p \in Live /\ ExporterOf[p] = e)
      BY <2>2, <2>3, <3>1, <3>3 DEF Live
    <3> QED
      BY <3>2, <3>3
  <2>5. Of(e) \in SUBSET Pipelines
    BY DEF Of, Running
  <2>6. \A x \in Exporters : conf'[x] = conf[x] \/ conf'[x] = 0
    BY <2>3
  <2> QED
    BY <2>1, <2>4, <2>5, <2>6, StopConfigurations
<1> QED
  BY <1>2, <1>3, <1>4, <1>5, <1>6, SynchronizeConfigurations, UpdateConfigurations, CreateConfigurations,
     StartConfigurations, ResetConfigurations DEF ManagerStep

(* The other steps leave the registered drivers alone.                     *)
LEMMA SameConfigurations ==
  ASSUME ConfigurationsInv, UNCHANGED conf,
         \A p \in Pipelines : row'[p].st = row[p].st,
         \A e \in Exporters : /\ driver'[e].id = driver[e].id /\ driver'[e].conf = driver[e].conf
                              /\ driver'[e].outlived = driver[e].outlived
  PROVE  ConfigurationsInv'
<1>1. Fresh(Manager, conf)'
  BY DEF Fresh, ConfigurationsInv, Manager
<1>2. DriversHaveRows(Manager, row)'
  BY DEF DriversHaveRows, ConfigurationsInv, Manager
<1>3. RowsHaveExporters'
  BY DEF RowsHaveExporters, ConfigurationsInv
<1> QED
  BY <1>1, <1>2, <1>3 DEF ConfigurationsInv

LEMMA HandlerConfigurations ==
  ASSUME HandlersInv, ConfigurationsInv, NEW p \in Pipelines,
         Fetch(p) \/ Push(p) \/ Send(p) \/ Exit(p) \/ StoreCursor(p) \/ StoreLate(p)
  PROVE  ConfigurationsInv'
<1>1. UNCHANGED <<conf, driver>>
  BY DEF Fetch, Push, Send, Exit, StoreCursor, StoreLate
<1>2. CASE Fetch(p) \/ Push(p) \/ Send(p) \/ Exit(p)
  <2>1. UNCHANGED row
    BY <1>2 DEF Fetch, Push, Send, Exit
  <2> QED
    BY <1>1, <2>1, SameConfigurations
<1>3. CASE StoreCursor(p) \/ StoreLate(p)
  <2>1. \A q \in Pipelines : row'[q].st = row[q].st
    <3>1. \E i \in Nat : StorePipelineState(p, i)
      BY <1>3 DEF StoreCursor, StoreLate, HandlersInv, Managed, Manager
    <3> QED
      BY <3>1, StoredRow DEF HandlersInv
  <2> QED
    BY <1>1, <2>1, SameConfigurations
<1> QED
  BY <1>2, <1>3

LEMMA OtherConfigurations ==
  ASSUME HandlersInv, ConfigurationsInv, OtherStep
  PROVE  ConfigurationsInv'
<1>1. UNCHANGED <<managerVars, row>>
  BY OtherKeeps
<1>2. ASSUME UNCHANGED conf
      PROVE  ConfigurationsInv'
  BY <1>1, <1>2, SameConfigurations DEF managerVars
<1>3. ASSUME NEW e \in Exporters, CreateExporter(e)
      PROVE  ConfigurationsInv'
  <2>1. /\ conf' = [conf EXCEPT ![e] = 1] /\ conf[e] = 0
        /\ \A p \in Pipelines : ExporterOf[p] = e => row[p].st = "new"
    BY <1>3 DEF CreateExporter
  <2>2. \A x \in Exporters : conf'[x] = IF x = e THEN 1 ELSE conf[x]
    BY <2>1 DEF HandlersInv, StateOK
  <2>3. driver[e].id = 0
    BY <2>1 DEF ConfigurationsInv, DriversHaveRows, Manager
  <2>4. Fresh(Manager, conf)'
    BY <1>1, <2>2, <2>3 DEF ConfigurationsInv, Fresh, Manager, managerVars
  <2>5. DriversHaveRows(Manager, row)'
    BY <1>1 DEF ConfigurationsInv, DriversHaveRows, Manager, managerVars
  <2>6. RowsHaveExporters'
    BY <1>1, <2>2, ReplicationAssumption DEF ConfigurationsInv, RowsHaveExporters
  <2> QED
    BY <2>4, <2>5, <2>6 DEF ConfigurationsInv
<1> QED
  BY <1>2, <1>3 DEF OtherStep, PushPartly, DeleteBucket, Commit, vars

LEMMA ConfigurationsStep ==
  ASSUME HandlersInv, ConfigurationsInv, [Next]_vars
  PROVE  ConfigurationsInv'
<1>1. CASE Crash
  <2>1. UNCHANGED <<row, conf>> /\ \A e \in Exporters : driver'[e].id = 0
    BY <1>1, CrashKeeps
  <2> QED
    BY <2>1 DEF ConfigurationsInv, Fresh, DriversHaveRows, RowsHaveExporters, Manager
<1>2. ASSUME NEW e \in Exporters, DriverReady(e) PROVE ConfigurationsInv'
  <2>1. UNCHANGED <<row, conf>>
    BY <1>2 DEF DriverReady
  <2> QED
    BY <1>2, <2>1, DriverReadyKeeps, SameConfigurations
<1> QED
  BY <1>1, <1>2, ManagerConfigurations, OtherConfigurations, HandlerConfigurations, Steps

(* Whatever is stopped, given up, deleted, updated, restored or fails, and *)
(* however often: a handler in m.pipelines exports for a pipeline that has *)
(* a row, to the driver registered for its exporter, and that driver was   *)
(* built from the exporter's present configuration, unless it had no       *)
(* pipeline when its exporter was updated.                                 *)
THEOREM HandlersStayCurrent == Spec => []HandlersAreCurrent
<1>1. Init => ConfigurationsInv
  <2> SUFFICES ASSUME Init PROVE ConfigurationsInv
    OBVIOUS
  <2>1. \A e \in Exporters : Manager.driver[e].id = 0
    BY InitHandlers
  <2>2. Fresh(Manager, conf) /\ DriversHaveRows(Manager, row)
    BY <2>1 DEF Fresh, DriversHaveRows
  <2>3. RowsHaveExporters
    BY DEF Init, RowsHaveExporters
  <2> QED
    BY <2>2, <2>3 DEF ConfigurationsInv
<1>2. HandlersInv /\ ConfigurationsInv /\ [Next]_vars => ConfigurationsInv'
  BY ConfigurationsStep
<1>3. HandlersInv /\ ConfigurationsInv => HandlersAreCurrent
  <2> SUFFICES ASSUME HandlersInv, ConfigurationsInv, NEW p \in Running(h)
               PROVE  /\ p \in Live
                      /\ h[p].drv = driver[ExporterOf[p]].id
                      /\ \/ driver[ExporterOf[p]].conf = conf[ExporterOf[p]]
                         \/ driver[ExporterOf[p]].outlived
    BY DEF HandlersAreCurrent
  <2>1. p \in Pipelines /\ h[p].pc # "off" /\ ExporterOf[p] \in Exporters
    BY ReplicationAssumption DEF Running
  <2>2. p \in Live /\ h[p].drv # 0 /\ h[p].drv = driver[ExporterOf[p]].id
    BY <2>1 DEF HandlersInv, Registered, RunsLive, Manager, Live
  <2>3. conf[ExporterOf[p]] > 0
    BY <2>2 DEF ConfigurationsInv, RowsHaveExporters, Live
  <2> QED
    BY <2>1, <2>2, <2>3 DEF ConfigurationsInv, Fresh, Manager
<1> QED
  BY <1>1, <1>2, <1>3, InitHandlers, HandlersStep, PTL DEF Spec
===============================================================================
