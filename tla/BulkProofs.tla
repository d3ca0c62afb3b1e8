------------------------------ MODULE BulkProofs ------------------------------
(***************************************************************************)
(* For any pool of workers, any options and bodies of any length, whatever *)
(* panics and whenever a connection is lost: an atomic bulk is all or      *)
(* nothing of the elements that do not panic, a response has one true      *)
(* result for each of these, and a bulk that is not parallel keeps their   *)
(* order and stops at the first error.                                     *)
(***************************************************************************)
EXTENDS Bulk, SequenceTheorems, TLAPS

Option == [stream : BOOLEAN, atomic : BOOLEAN, parallel : BOOLEAN, cont : BOOLEAN]
Task == [pc : {"idle", "process", "deliver"}, e : Nat, st : Status \union {"none"}]
Result == [e : Nat, st : Status]

(* The state, with the elements bounded by what has been decoded.          *)
Shape ==
  /\ opt \in Option
  /\ body \in Seq(Element)
  /\ reader \in {"reading", "sending", "closed"}
  /\ read \in Nat /\ read <= Len(body)
  /\ reader = "sending" => read >= 1
  /\ queue \in Seq(Nat)
  /\ \A i \in DOMAIN queue : queue[i] \in 1 .. read
  /\ work \in [Workers -> Task]
  /\ \A w \in Workers : work[w].pc = "idle" => work[w] = Idle
  /\ \A w \in Workers : work[w].pc # "idle" => work[w].e \in 1 .. read
  /\ \A w \in Workers : work[w].pc = "deliver" => work[w].st \in Status
  /\ collector \in {"on", "stopped", "closed"}
  /\ results \in Seq(Result)
  /\ \A i \in DOMAIN results : results[i].e \in 1 .. read
  /\ applied \subseteq 1 .. read
  /\ committed \subseteq applied
  /\ left \subseteq 1 .. read
  /\ lost \subseteq 1 .. read
  /\ run \in {"running", "ended", "failed", "crashed"}
  /\ answer \in {"none", "refused", "error", "ok", "partial", "dropped"}

(* Every element decoded is in one place: being sent, in the queue, with a *)
(* worker, among the results, or among those that panicked.                *)
Covered ==
  run # "crashed" =>
    \A e \in 1 .. read :
      \/ reader = "sending" /\ e = read
      \/ \E i \in DOMAIN queue : queue[i] = e
      \/ \E w \in Workers : work[w].pc # "idle" /\ work[w].e = e
      \/ \E i \in DOMAIN results : results[i].e = e
      \/ e \in left

(* It is in no two places.                                                 *)
Once ==
  /\ \A i, j \in DOMAIN queue : queue[i] = queue[j] => i = j
  /\ \A i \in DOMAIN queue, w \in Workers : work[w].pc # "idle" => work[w].e # queue[i]
  /\ \A v, w \in Workers :
       work[v].pc # "idle" /\ work[w].pc # "idle" /\ work[v].e = work[w].e => v = w
  /\ \A i \in DOMAIN queue, j \in DOMAIN results : results[j].e # queue[i]
  /\ \A w \in Workers, j \in DOMAIN results : work[w].pc # "idle" => results[j].e # work[w].e
  /\ \A i, j \in DOMAIN results : results[i].e = results[j].e => i = j
  /\ reader = "sending" =>
       /\ \A i \in DOMAIN queue : queue[i] # read
       /\ \A w \in Workers : work[w].pc # "idle" => work[w].e # read
       /\ \A i \in DOMAIN results : results[i].e # read

Apart ==
  /\ \A i \in DOMAIN queue : queue[i] \notin left
  /\ \A w \in Workers : work[w].pc # "idle" => work[w].e \notin left
  /\ \A i \in DOMAIN results : results[i].e \notin left
  /\ reader = "sending" => read \notin left
  /\ applied \intersect left = {}

(* A success is of an element applied, and anything else has a reason; an  *)
(* element applied has a success, or an error if its answer was lost, and  *)
(* the flag an error, on its way or received.                              *)
Truthful ==
  /\ \A i \in DOMAIN results : results[i].st = "ok" => results[i].e \in applied
  /\ \A w \in Workers : work[w].pc = "deliver" /\ work[w].st = "ok" => work[w].e \in applied
  /\ \A i \in DOMAIN results : results[i].st # "ok" => hasError \/ ~connected
  /\ \A w \in Workers : work[w].pc = "deliver" /\ work[w].st # "ok" => hasError \/ ~connected
  /\ run # "crashed" =>
       /\ \A e \in applied :
            \/ \E w \in Workers : /\ work[w].pc = "deliver" /\ work[w].e = e
                                  /\ work[w].st = "ok" \/ e \in lost
            \/ \E i \in DOMAIN results : results[i].e = e /\ (results[i].st = "ok" \/ e \in lost)
       /\ hasError =>
            \/ \E w \in Workers : work[w].pc = "deliver" /\ work[w].st = "error"
            \/ \E i \in DOMAIN results : results[i].st = "error"

(* Nothing moves once Run has returned.                                    *)
Quiet ==
  run # "running" =>
    /\ reader = "closed"
    /\ queue = <<>>
    /\ \A w \in Workers : work[w].pc = "idle"

(* What is in the database, as the bulk goes on and after its end.         *)
Everything ==
  /\ committed = (1 .. read) \ left
  /\ \A i \in DOMAIN results : results[i].st = "ok"

Stored ==
  /\ ~opt.atomic => committed = applied
  /\ opt.atomic /\ run \in {"running", "crashed"} => committed = {}
  /\ opt.atomic /\ run = "failed" => committed = {} \/ Everything
  /\ opt.atomic /\ run = "ended" => (committed = {} /\ hasError) \/ Everything

(* A response with results is written after the end, its status from them. *)
Written ==
  /\ answer \in {"ok", "partial"} => run = "ended"
  /\ answer = "ok" => \A i \in DOMAIN results : results[i].st = "ok"

IInv == Shape /\ Covered /\ Once /\ Apart /\ Truthful /\ Quiet /\ Stored /\ Written

(* Appending to a sequence, and taking its head away. *)
LEMMA Appended ==
  ASSUME NEW S, NEW s \in Seq(S), NEW x \in S
  PROVE  /\ Append(s, x) \in Seq(S)
         /\ Len(Append(s, x)) = Len(s) + 1
         /\ DOMAIN s = 1 .. Len(s)
         /\ DOMAIN Append(s, x) = 1 .. Len(s) + 1
         /\ \A i \in DOMAIN s : Append(s, x)[i] = s[i]
         /\ Append(s, x)[Len(s) + 1] = x
         /\ \A i \in DOMAIN Append(s, x) : i \in DOMAIN s \/ i = Len(s) + 1
  BY SMT

LEMMA Beheaded ==
  ASSUME NEW S, NEW s \in Seq(S), s # <<>>
  PROVE  /\ Tail(s) \in Seq(S)
         /\ Head(s) = s[1]
         /\ 1 \in DOMAIN s
         /\ \A i \in DOMAIN Tail(s) : i + 1 \in DOMAIN s /\ Tail(s)[i] = s[i + 1]
         /\ \A i \in DOMAIN s : i = 1 \/ (i - 1 \in DOMAIN Tail(s) /\ Tail(s)[i - 1] = s[i])
  BY SMT

LEMMA ShapeInit == Init => Shape
<1> SUFFICES ASSUME Init PROVE Shape
  OBVIOUS
<1>1. opt \in Option /\ body \in Seq(Element)
  BY BulkAssumption DEF Init, Option
<1>2. Idle \in Task /\ work = [w \in Workers |-> Idle]
  BY SMT DEF Init, Idle, Task
<1>3. work \in [Workers -> Task] /\ \A w \in Workers : work[w] = Idle /\ work[w].pc = "idle"
  BY <1>2, SMT DEF Idle
<1>4. /\ queue \in Seq(Nat) /\ results \in Seq(Result)
      /\ DOMAIN queue = {} /\ DOMAIN results = {}
  BY SMT DEF Init
<1>5. read = 0 /\ Len(body) \in Nat
  BY <1>1, SMT DEF Init
<1> QED
  BY <1>1, <1>3, <1>4, <1>5, SMT DEF Init, Shape

(* What each step of a worker does to the worker, in terms of its fields.  *)
StartFacts(w) ==
  /\ work' \in [Workers -> Task]
  /\ \A v \in Workers : v # w => work'[v] = work[v]
  /\ work[w].pc = "idle" /\ queue # <<>> /\ queue' = Tail(queue)
  /\ queue' \in Seq(Nat)
  /\ 1 \in DOMAIN queue /\ work'[w].e = queue[1]
  /\ \A i \in DOMAIN queue' : i + 1 \in DOMAIN queue /\ queue'[i] = queue[i + 1]
  /\ \A i \in DOMAIN queue : i = 1 \/ (i - 1 \in DOMAIN queue' /\ queue'[i - 1] = queue[i])
  /\ \/ work'[w].pc = "process"
     \/ work'[w].pc = "deliver" /\ work'[w].st = "cancelled" /\ (hasError \/ ~connected)

LEMMA StartEffect ==
  ASSUME Shape, NEW w \in Workers, Start(w)
  PROVE  StartFacts(w)
<1>1. /\ work[w].pc = "idle" /\ queue # <<>> /\ queue' = Tail(queue)
      /\ work \in [Workers -> Task] /\ queue \in Seq(Nat)
      /\ \A i \in DOMAIN queue : queue[i] \in 1 .. read
  BY DEF Start, Shape
<1>2. /\ queue' \in Seq(Nat)
      /\ 1 \in DOMAIN queue /\ Head(queue) = queue[1] /\ Head(queue) \in Nat
      /\ \A i \in DOMAIN queue' : i + 1 \in DOMAIN queue /\ queue'[i] = queue[i + 1]
      /\ \A i \in DOMAIN queue : i = 1 \/ (i - 1 \in DOMAIN queue' /\ queue'[i - 1] = queue[i])
  BY <1>1, Beheaded
<1>3. CASE connected /\ GoesOn
  BY <1>1, <1>2, <1>3, SMT DEF StartFacts, Start, Task, Status
<1>4. CASE ~(connected /\ GoesOn)
  BY <1>1, <1>2, <1>4, SMT DEF StartFacts, Start, Task, Status, GoesOn
<1> QED
  BY <1>3, <1>4

ApplyFacts(w) ==
  /\ work' \in [Workers -> Task]
  /\ \A v \in Workers : v # w => work'[v] = work[v]
  /\ work[w].pc = "process" /\ work[w].e \in 1 .. read
  /\ work'[w].pc = "deliver" /\ work'[w].e = work[w].e /\ work'[w].st = "ok"

LEMMA ApplyEffect ==
  ASSUME Shape, NEW w \in Workers, Apply(w)
  PROVE  ApplyFacts(w)
  BY SMT DEF ApplyFacts, Shape, Apply, Task, Status

FailFacts(w) ==
  /\ work' \in [Workers -> Task]
  /\ \A v \in Workers : v # w => work'[v] = work[v]
  /\ work[w].pc = "process" /\ work[w].e \in 1 .. read
  /\ work'[w].pc = "deliver" /\ work'[w].e = work[w].e /\ work'[w].st = "error"

LEMMA FailEffect ==
  ASSUME Shape, NEW w \in Workers, Fail(w)
  PROVE  FailFacts(w)
  BY SMT DEF FailFacts, Shape, Fail, Task, Status

LEMMA LoseEffect ==
  ASSUME Shape, NEW w \in Workers, Lose(w)
  PROVE  FailFacts(w)
  BY SMT DEF FailFacts, Shape, Lose, Task, Status

PanicFacts(w) ==
  /\ work' \in [Workers -> Task]
  /\ \A v \in Workers : v # w => work'[v] = work[v]
  /\ work[w].pc = "process" /\ work[w].e \in 1 .. read
  /\ work'[w] = Idle /\ work'[w].pc = "idle"
  /\ left' = left \union {work[w].e}

LEMMA PanicEffect ==
  ASSUME Shape, NEW w \in Workers, Panic(w)
  PROVE  PanicFacts(w)
  BY SMT DEF PanicFacts, Shape, Panic, Task, Idle, Status

DieFacts ==
  /\ work' \in [Workers -> Task]
  /\ \A w \in Workers : work'[w] = Idle /\ work'[w].pc = "idle"
  /\ queue' = <<>> /\ DOMAIN queue' = {} /\ reader' = "closed" /\ reader = "reading"
  /\ UNCHANGED <<opt, body, read, results, applied, committed, left, lost, hasError>>
  /\ run' = "crashed" /\ ~connected'

LEMMA DieEffect ==
  ASSUME Shape, Die
  PROVE  DieFacts
<1>1. Idle \in Task /\ work' = [w \in Workers |-> Idle]
  BY SMT DEF Die, Idle, Task
<1>2. /\ work' \in [Workers -> Task]
      /\ \A w \in Workers : work'[w] = Idle /\ work'[w].pc = "idle"
  BY <1>1, SMT DEF Idle
<1>3. queue' = <<>> /\ DOMAIN queue' = {}
  BY SMT DEF Die
<1> QED
  BY <1>2, <1>3 DEF Die, DieFacts, request, store

DeliverFacts(w) ==
  /\ work' \in [Workers -> Task]
  /\ \A v \in Workers : v # w => work'[v] = work[v]
  /\ work[w].pc = "deliver" /\ work[w].e \in 1 .. read
  /\ work'[w] = Idle /\ work'[w].pc = "idle"
  /\ results \in Seq(Result) /\ results' \in Seq(Result)
  /\ Len(results) + 1 \in DOMAIN results'
  /\ Len(results) + 1 \notin DOMAIN results
  /\ \A i \in DOMAIN results : i \in DOMAIN results' /\ results'[i] = results[i]
  /\ \A i \in DOMAIN results' : i \in DOMAIN results \/ i = Len(results) + 1
  /\ results'[Len(results) + 1].e = work[w].e
  /\ results'[Len(results) + 1].st = work[w].st

LEMMA DeliverEffect ==
  ASSUME Shape, NEW w \in Workers, Deliver(w)
  PROVE  DeliverFacts(w)
<1> DEFINE x == [e |-> work[w].e, st |-> work[w].st]
<1>1. x \in Result /\ results \in Seq(Result) /\ results' = Append(results, x)
  BY SMT DEF Shape, Deliver, Result, Status, Task
<1>2. /\ results' \in Seq(Result)
      /\ DOMAIN results = 1 .. Len(results)
      /\ DOMAIN results' = 1 .. Len(results) + 1
      /\ \A i \in DOMAIN results : results'[i] = results[i]
      /\ results'[Len(results) + 1] = x
      /\ \A i \in DOMAIN results' : i \in DOMAIN results \/ i = Len(results) + 1
  <2> HIDE DEF x
  <2> QED
    BY <1>1, Appended
<1>3. Len(results) \in Nat
  BY <1>1
<1>4. /\ work' \in [Workers -> Task]
      /\ \A v \in Workers : v # w => work'[v] = work[v]
      /\ work[w].pc = "deliver" /\ work[w].e \in 1 .. read
      /\ work'[w] = Idle /\ work'[w].pc = "idle"
  BY SMT DEF Shape, Deliver, Task, Idle
<1> QED
  BY <1>1, <1>2, <1>3, <1>4, SMT DEF DeliverFacts

LEMMA ShapeNext == Shape /\ [Next]_vars => Shape'
<1> SUFFICES ASSUME Shape, [Next]_vars PROVE Shape'
  OBVIOUS
<1> USE DEF Shape
<1>1. CASE Refuse
  BY <1>1, SMT DEF Refuse, request, store
<1>2. CASE Read
  <2>1. HasNext => read + 1 <= Len(body)
    BY SMT DEF HasNext
  <2>2. CASE HasNext
    BY <1>2, <2>1, <2>2, SMT DEF Read, request, store
  <2>3. CASE ~HasNext
    BY <1>2, <2>3, SMT DEF Read, request, store
  <2> QED
    BY <2>2, <2>3
<1>3. CASE StopReading
  BY <1>3, SMT DEF StopReading, request, store
<1>4. CASE Submit
  <2>1. read \in Nat /\ read \in 1 .. read
    BY <1>4, SMT DEF Submit
  <2>2. queue' \in Seq(Nat) /\ \A i \in DOMAIN queue' : queue'[i] \in 1 .. read
    BY <1>4, <2>1, Appended DEF Submit
  <2> QED
    BY <1>4, <2>1, <2>2, SMT DEF Submit, request, store
<1>5. ASSUME NEW w \in Workers, Start(w) PROVE Shape'
  <2>1. StartFacts(w)
    BY <1>5, StartEffect
  <2>2. work'[w].pc # "idle" /\ work'[w].e \in 1 .. read
    BY <2>1 DEF StartFacts
  <2> QED
    BY <1>5, <2>1, <2>2, SMT DEF StartFacts, Start, request, store, Status
<1>6. ASSUME NEW w \in Workers, Apply(w) PROVE Shape'
  <2>1. ApplyFacts(w)
    BY <1>6, ApplyEffect
  <2>2. applied' \subseteq 1 .. read /\ committed' \subseteq applied'
    BY <1>6, <2>1 DEF ApplyFacts, Apply
  <2> QED
    BY <1>6, <2>1, <2>2, SMTT(30) DEF ApplyFacts, Apply, request, store, Status
<1>7. ASSUME NEW w \in Workers, Fail(w) PROVE Shape'
  <2>1. FailFacts(w)
    BY <1>7, FailEffect
  <2> QED
    BY <1>7, <2>1, SMT DEF FailFacts, Fail, request, store, Status
<1>14. ASSUME NEW w \in Workers, Lose(w) PROVE Shape'
  <2>1. FailFacts(w)
    BY <1>14, LoseEffect
  <2>2. applied' \subseteq 1 .. read /\ committed' \subseteq applied' /\ lost' \subseteq 1 .. read
    BY <1>14, <2>1 DEF FailFacts, Lose
  <2> QED
    BY <1>14, <2>1, <2>2, SMT DEF FailFacts, Lose, request, store, Status
<1>15. ASSUME NEW w \in Workers, Panic(w) PROVE Shape'
  <2>1. PanicFacts(w)
    BY <1>15, PanicEffect
  <2>2. left' \subseteq 1 .. read
    BY <2>1 DEF PanicFacts
  <2> QED
    BY <1>15, <2>1, <2>2, SMT DEF PanicFacts, Panic, request, store
<1>16. CASE Die
  <2>1. DieFacts
    BY <1>16, DieEffect
  <2>2. /\ queue' \in Seq(Nat) /\ collector' \in {"on", "stopped", "closed"}
        /\ answer' \in {"none", "refused", "error", "ok", "partial", "dropped"}
    BY <1>16, SMT DEF Die
  <2> QED
    BY <2>1, <2>2, SMT DEF DieFacts
<1>8. ASSUME NEW w \in Workers, Deliver(w) PROVE Shape'
  <2>1. DeliverFacts(w)
    BY <1>8, DeliverEffect
  <2> QED
    BY <1>8, <2>1, SMT DEF DeliverFacts, Deliver, request, store
<1>9. CASE Finish
  <2>1. committed' \subseteq applied' /\ run' \in {"running", "ended", "failed", "crashed"}
    BY <1>9 DEF Finish
  <2>2. collector' \in {"on", "stopped", "closed"}
    BY <1>9 DEF Finish, Close
  <2> QED
    BY <1>9, <2>1, <2>2, SMT DEF Finish, request, store
<1>10. CASE Answer
  BY <1>10, SMT DEF Answer, StatusOf, request, store
<1>11. CASE Disconnect
  BY <1>11, SMT DEF Disconnect, request, store
<1>12. CASE StopCollecting
  BY <1>12, SMT DEF StopCollecting, request, store
<1>13. CASE UNCHANGED vars
  BY <1>13, SMT DEF vars
<1> QED
  BY <1>1, <1>2, <1>3, <1>4, <1>5, <1>6, <1>7, <1>8, <1>9, <1>10, <1>11, <1>12, <1>13, <1>14,
     <1>15, <1>16 DEF Next, Goes

(* The steps that move no element.                                         *)
Still == Refuse \/ Finish \/ Answer \/ Disconnect \/ StopCollecting \/ UNCHANGED vars

LEMMA StillKeeps ==
  ASSUME Still
  PROVE  /\ UNCHANGED <<reader, read, queue, work, results, applied, left, lost, hasError>>
         /\ (run = "crashed") = (run' = "crashed")
         /\ ~connected => ~connected'
<1>1. CASE Finish
  BY <1>1 DEF Finish, AllDone
<1>2. CASE Still /\ ~Finish
  BY <1>2 DEF Still, Refuse, Answer, Disconnect, StopCollecting, vars, store
<1> QED
  BY <1>1, <1>2

LEMMA Steps ==
  ASSUME [Next]_vars
  PROVE  \/ Still \/ Read \/ StopReading \/ Die \/ Submit
         \/ \E w \in Workers : Goes(w)
  BY DEF Next, Still

(* What the reader and the loop of run do to the places of elements.       *)
LEMMA ReadEffect ==
  ASSUME Shape, Read
  PROVE  /\ UNCHANGED <<queue, work, results, applied, left, lost, hasError, run, connected>>
         /\ \/ reader' = "sending" /\ read' = read + 1
            \/ reader' = "closed" /\ read' = read
         /\ reader = "reading"
  BY DEF Read, store

LEMMA SubmitEffect ==
  ASSUME Shape, Submit
  PROVE  /\ UNCHANGED <<read, work, results, applied, left, lost, hasError, run, connected>>
         /\ reader = "sending" /\ reader' = "reading"
         /\ DOMAIN queue' = 1 .. Len(queue) + 1 /\ Len(queue) \in Nat
         /\ DOMAIN queue = 1 .. Len(queue)
         /\ \A i \in DOMAIN queue : queue'[i] = queue[i]
         /\ queue'[Len(queue) + 1] = read
  BY Appended DEF Submit, Shape, store

LEMMA StopReadingEffect ==
  ASSUME StopReading
  PROVE  /\ UNCHANGED <<read, queue, work, results, applied, left, lost, hasError, run, connected>>
         /\ reader = "reading" /\ reader' = "closed"
  BY DEF StopReading, store

LEMMA CoveredNext == Shape /\ Quiet /\ Covered /\ [Next]_vars => Covered'
<1> SUFFICES ASSUME Shape, Quiet, Covered, [Next]_vars PROVE Covered'
  OBVIOUS
<1> USE DEF Covered
<1>1. CASE Still
  BY <1>1, StillKeeps
<1>2. CASE Read
  <2>1. \A e \in 1 .. read + 1 : e \in 1 .. read \/ e = read + 1
    BY SMT DEF Shape
  <2> QED
    BY <1>2, <2>1, ReadEffect, SMT
<1>3. CASE StopReading
  BY <1>3, StopReadingEffect, SMT
<1>4. CASE Submit
  <2>1. SUFFICES ASSUME run # "crashed", NEW e \in 1 .. read PROVE Covered!2!(e)'
    BY <1>4, SubmitEffect
  <2> QED
    BY <1>4, <2>1, SubmitEffect, SMT
<1>5. ASSUME NEW w \in Workers, Start(w) PROVE Covered'
  <2>1. StartFacts(w) /\ UNCHANGED <<reader, read, results, left, run>>
    BY <1>5, StartEffect DEF Start, store
  <2>2. /\ work[w].pc = "idle" /\ work'[w].pc # "idle" /\ work'[w].e = queue[1]
        /\ \A v \in Workers : v # w => work'[v] = work[v]
    BY <2>1 DEF StartFacts
  <2>3. \A i \in DOMAIN queue :
          queue[i] = work'[w].e \/ \E k \in DOMAIN queue' : queue'[k] = queue[i]
    BY <2>1 DEF StartFacts
  <2> QED
    BY <2>1, <2>2, <2>3
<1>6. ASSUME NEW w \in Workers, Apply(w) PROVE Covered'
  <2>1. ApplyFacts(w) /\ UNCHANGED <<reader, read, queue, results, left, run>>
    BY <1>6, ApplyEffect DEF Apply
  <2> QED
    BY <2>1, SMT DEF ApplyFacts
<1>7. ASSUME NEW w \in Workers, Fail(w) \/ Lose(w) PROVE Covered'
  <2>1. FailFacts(w) /\ UNCHANGED <<reader, read, queue, results, left, run>>
    BY <1>7, FailEffect, LoseEffect DEF Fail, Lose, store
  <2> QED
    BY <2>1, SMT DEF FailFacts
<1>8. ASSUME NEW w \in Workers, Deliver(w) PROVE Covered'
  <2>1. DeliverFacts(w) /\ UNCHANGED <<reader, read, queue, left, run>>
    BY <1>8, DeliverEffect DEF Deliver, store
  <2> QED
    BY <2>1, SMT DEF DeliverFacts
<1>9. ASSUME NEW w \in Workers, Panic(w) PROVE Covered'
  <2>1. PanicFacts(w) /\ UNCHANGED <<reader, read, queue, results, run>>
    BY <1>9, PanicEffect DEF Panic
  <2> QED
    BY <2>1, SMT DEF PanicFacts
<1>10. CASE Die
  BY <1>10, DieEffect DEF DieFacts
<1> QED
  BY <1>1, <1>2, <1>3, <1>4, <1>5, <1>6, <1>7, <1>8, <1>9, <1>10, Steps DEF Goes

LEMMA OnceNext == Shape /\ Quiet /\ Once /\ [Next]_vars => Once'
<1> SUFFICES ASSUME Shape, Quiet, Once, [Next]_vars PROVE Once'
  OBVIOUS
<1> USE DEF Once
<1>1. CASE Still
  BY <1>1, StillKeeps
<1>2. CASE Read
  <2>1. /\ \A i \in DOMAIN queue : queue[i] # read + 1
        /\ \A w \in Workers : work[w].pc # "idle" => work[w].e # read + 1
        /\ \A i \in DOMAIN results : results[i].e # read + 1
    BY SMT DEF Shape
  <2> QED
    BY <1>2, <2>1, ReadEffect, SMT
<1>3. CASE StopReading
  BY <1>3, StopReadingEffect, SMT
<1>4. CASE Submit
  BY <1>4, SubmitEffect, SMT
<1>5. ASSUME NEW w \in Workers, Start(w) PROVE Once'
  <2>1. StartFacts(w) /\ UNCHANGED <<reader, read, results>>
    BY <1>5, StartEffect DEF Start
  <2>2. /\ work[w].pc = "idle" /\ work'[w].pc # "idle" /\ work'[w].e = queue[1]
        /\ \A v \in Workers : v # w => work'[v] = work[v]
        /\ 1 \in DOMAIN queue
    BY <2>1 DEF StartFacts
  <2>3. \A k \in DOMAIN queue' : k + 1 \in DOMAIN queue /\ queue'[k] = queue[k + 1]
    BY <2>1 DEF StartFacts
  <2>4. \A k \in DOMAIN queue' : k \in Nat /\ k >= 1
    BY <2>1, SMT DEF StartFacts
  <2>5. \A k, l \in DOMAIN queue' : queue'[k] = queue'[l] => k = l
    BY <2>3, <2>4, SMT
  <2>6. \A k \in DOMAIN queue' : queue'[k] # queue[1]
    BY <2>2, <2>3, <2>4, SMT
  <2> QED
    BY <2>1, <2>2, <2>3, <2>5, <2>6
<1>6. ASSUME NEW w \in Workers, Apply(w) PROVE Once'
  <2>1. ApplyFacts(w) /\ UNCHANGED <<reader, read, queue, results>>
    BY <1>6, ApplyEffect DEF Apply
  <2> QED
    BY <2>1, SMT DEF ApplyFacts
<1>7. ASSUME NEW w \in Workers, Fail(w) \/ Lose(w) PROVE Once'
  <2>1. FailFacts(w) /\ UNCHANGED <<reader, read, queue, results>>
    BY <1>7, FailEffect, LoseEffect DEF Fail, Lose
  <2> QED
    BY <2>1, SMT DEF FailFacts
<1>8. ASSUME NEW w \in Workers, Deliver(w) PROVE Once'
  <2>1. DeliverFacts(w) /\ UNCHANGED <<reader, read, queue>>
    BY <1>8, DeliverEffect DEF Deliver
  <2> QED
    BY <2>1, SMT DEF DeliverFacts
<1>9. ASSUME NEW w \in Workers, Panic(w) PROVE Once'
  <2>1. PanicFacts(w) /\ UNCHANGED <<reader, read, queue, results>>
    BY <1>9, PanicEffect DEF Panic
  <2> QED
    BY <2>1, SMT DEF PanicFacts
<1>10. CASE Die
  BY <1>10, DieEffect, SMT DEF DieFacts
<1> QED
  BY <1>1, <1>2, <1>3, <1>4, <1>5, <1>6, <1>7, <1>8, <1>9, <1>10, Steps DEF Goes

LEMMA ApartNext ==
  ASSUME Shape, Quiet, Once, Apart, Truthful, [Next]_vars
  PROVE  Apart'
<1> USE DEF Apart
<1>1. CASE Still
  BY <1>1, StillKeeps
<1>2. CASE Read
  <2>1. read + 1 \notin left
    BY SMT DEF Shape
  <2> QED
    BY <1>2, <2>1, ReadEffect
<1>3. CASE StopReading
  BY <1>3, StopReadingEffect
<1>4. CASE Submit
  <2>1. \A i \in DOMAIN queue' : i \in DOMAIN queue \/ i = Len(queue) + 1
    BY <1>4, SubmitEffect, SMT
  <2> QED
    BY <1>4, <2>1, SubmitEffect
<1>5. ASSUME NEW w \in Workers, Start(w) PROVE Apart'
  <2>1. StartFacts(w) /\ UNCHANGED <<reader, read, results, left, applied>>
    BY <1>5, StartEffect DEF Start, store
  <2>2. /\ work'[w].e = queue[1] /\ 1 \in DOMAIN queue
        /\ \A v \in Workers : v # w => work'[v] = work[v]
        /\ \A k \in DOMAIN queue' : k + 1 \in DOMAIN queue /\ queue'[k] = queue[k + 1]
    BY <2>1 DEF StartFacts
  <2> QED
    BY <2>1, <2>2
<1>6. ASSUME NEW w \in Workers, Apply(w) PROVE Apart'
  <2>1. /\ ApplyFacts(w) /\ applied' = applied \union {work[w].e}
        /\ UNCHANGED <<reader, read, queue, results, left>>
    BY <1>6, ApplyEffect DEF Apply
  <2> QED
    BY <2>1 DEF ApplyFacts
<1>7. ASSUME NEW w \in Workers, Fail(w) \/ Lose(w) PROVE Apart'
  <2>1. /\ FailFacts(w) /\ applied' \subseteq applied \union {work[w].e}
        /\ UNCHANGED <<reader, read, queue, results, left>>
    BY <1>7, FailEffect, LoseEffect DEF Fail, Lose, store
  <2> QED
    BY <2>1 DEF FailFacts
<1>8. ASSUME NEW w \in Workers, Deliver(w) PROVE Apart'
  <2>1. DeliverFacts(w) /\ UNCHANGED <<reader, read, queue, left, applied>>
    BY <1>8, DeliverEffect DEF Deliver, store
  <2> QED
    BY <2>1 DEF DeliverFacts
<1>9. ASSUME NEW w \in Workers, Panic(w) PROVE Apart'
  <2>1. PanicFacts(w) /\ UNCHANGED <<reader, read, queue, results, applied, run>>
    BY <1>9, PanicEffect DEF Panic
  <2>2. run # "crashed"
    BY <2>1 DEF PanicFacts, Quiet
  <2>3. work[w].e \notin applied
    BY <2>1, <2>2 DEF PanicFacts, Truthful, Once
  <2>4. /\ \A i \in DOMAIN queue : queue[i] # work[w].e
        /\ \A v \in Workers : v # w /\ work[v].pc # "idle" => work[v].e # work[w].e
        /\ \A i \in DOMAIN results : results[i].e # work[w].e
        /\ reader = "sending" => read # work[w].e
    BY <2>1 DEF PanicFacts, Once
  <2> QED
    BY <2>1, <2>3, <2>4 DEF PanicFacts
<1>10. CASE Die
  BY <1>10, DieEffect DEF DieFacts
<1> QED
  BY <1>1, <1>2, <1>3, <1>4, <1>5, <1>6, <1>7, <1>8, <1>9, <1>10, Steps DEF Goes

LEMMA TruthfulNext == Shape /\ Quiet /\ Truthful /\ [Next]_vars => Truthful'
<1> SUFFICES ASSUME Shape, Quiet, Truthful, [Next]_vars PROVE Truthful'
  OBVIOUS
<1> USE DEF Truthful
<1>1. CASE Still
  BY <1>1, StillKeeps
<1>2. CASE Read \/ StopReading \/ Submit
  <2>1. UNCHANGED <<work, results, applied, lost, hasError, connected, run>>
    BY <1>2, ReadEffect, StopReadingEffect, SubmitEffect
  <2> QED
    BY <2>1
<1>3. ASSUME NEW w \in Workers, Start(w) PROVE Truthful'
  <2>1. StartFacts(w) /\ UNCHANGED <<results, applied, lost, hasError, connected, run>>
    BY <1>3, StartEffect DEF Start, store
  <2>2. /\ \A v \in Workers : v # w => work'[v] = work[v]
        /\ work[w].pc = "idle"
        /\ work'[w].pc = "deliver" => work'[w].st = "cancelled" /\ (hasError \/ ~connected)
    BY <2>1 DEF StartFacts
  <2> QED
    BY <2>1, <2>2
<1>4. ASSUME NEW w \in Workers, Apply(w) PROVE Truthful'
  <2>1. /\ ApplyFacts(w)
        /\ applied' = applied \union {work[w].e}
        /\ UNCHANGED <<results, lost, hasError, connected, run>>
    BY <1>4, ApplyEffect DEF Apply
  <2> QED
    BY <2>1 DEF ApplyFacts
<1>5. ASSUME NEW w \in Workers, Fail(w) \/ Lose(w) PROVE Truthful'
  <2>1. /\ FailFacts(w) /\ hasError' /\ UNCHANGED <<results, run>>
        /\ applied \subseteq applied' /\ lost \subseteq lost'
        /\ \A e \in applied' : e \in applied \/ (e = work[w].e /\ e \in lost')
    BY <1>5, FailEffect, LoseEffect DEF Fail, Lose, store
  <2> QED
    BY <2>1 DEF FailFacts
<1>6. ASSUME NEW w \in Workers, Deliver(w) PROVE Truthful'
  <2>1. DeliverFacts(w) /\ UNCHANGED <<applied, lost, hasError, connected, run>>
    BY <1>6, DeliverEffect DEF Deliver, store
  <2> QED
    BY <2>1, SMTT(20) DEF DeliverFacts
<1>7. ASSUME NEW w \in Workers, Panic(w) PROVE Truthful'
  <2>1. PanicFacts(w) /\ UNCHANGED <<results, applied, lost, hasError, connected, run>>
    BY <1>7, PanicEffect DEF Panic
  <2> QED
    BY <2>1 DEF PanicFacts
<1>8. CASE Die
  BY <1>8, DieEffect DEF DieFacts
<1> QED
  BY <1>1, <1>2, <1>3, <1>4, <1>5, <1>6, <1>7, <1>8, Steps DEF Goes

LEMMA QuietNext == Shape /\ Quiet /\ [Next]_vars => Quiet'
<1> SUFFICES ASSUME Shape, Quiet, [Next]_vars PROVE Quiet'
  OBVIOUS
<1> USE DEF Quiet
<1>1. CASE Finish
  BY <1>1 DEF Finish, AllDone
<1>2. CASE Still /\ ~Finish
  BY <1>2 DEF Still, Refuse, Answer, Disconnect, StopCollecting, vars
<1>3. CASE Read \/ StopReading \/ Submit
  BY <1>3 DEF Read, StopReading, Submit
<1>4. ASSUME NEW w \in Workers, Goes(w) PROVE Quiet'
  <2>1. run' = run /\ (work[w].pc # "idle" \/ queue # <<>>)
    BY <1>4 DEF Goes, Start, Apply, Fail, Lose, Panic, Deliver
  <2> QED
    BY <2>1
<1>5. CASE Die
  BY <1>5, DieEffect DEF DieFacts
<1> QED
  BY <1>1, <1>2, <1>3, <1>4, <1>5, Steps

(* When nothing moves every element decoded has its result or panicked.    *)
LEMMA AllReceived ==
  ASSUME Shape, Covered, Apart, run # "crashed", reader = "closed", queue = <<>>,
         \A w \in Workers : work[w].pc = "idle"
  PROVE  {results[i].e : i \in DOMAIN results} = (1 .. read) \ left
<1>1. DOMAIN queue = {}
  BY SMT
<1>2. \A e \in (1 .. read) \ left : \E i \in DOMAIN results : results[i].e = e
  BY <1>1 DEF Covered
<1>3. \A i \in DOMAIN results : results[i].e \in (1 .. read) \ left
  BY DEF Shape, Apart
<1> QED
  BY <1>2, <1>3

(* and is applied if its result is a success.                              *)
LEMMA AllApplied ==
  ASSUME Shape, Covered, Apart, Truthful, run # "crashed", reader = "closed", queue = <<>>,
         \A w \in Workers : work[w].pc = "idle",
         \A i \in DOMAIN results : results[i].st = "ok"
  PROVE  applied = (1 .. read) \ left
<1>1. \A e \in (1 .. read) \ left : e \in applied
  BY AllReceived DEF Truthful
<1> QED
  BY <1>1 DEF Shape, Apart

LEMMA StoredNext ==
  Shape /\ Covered /\ Apart /\ Truthful /\ Quiet /\ Stored /\ [Next]_vars => Stored'
<1> SUFFICES ASSUME Shape, Covered, Apart, Truthful, Quiet, Stored, [Next]_vars PROVE Stored'
  OBVIOUS
<1>1. CASE Finish
  <2>1. /\ AllDone
        /\ UNCHANGED <<opt, read, results, applied, left, hasError>>
        /\ run = "running" /\ run' \in {"ended", "failed"}
    BY <1>1 DEF Finish, request, AllDone
  <2>2. CASE ~opt.atomic
    BY <1>1, <2>1, <2>2 DEF Stored, Finish
  <2>3. CASE opt.atomic /\ committed' = {} /\ (run' = "ended" => hasError)
    BY <2>1, <2>3 DEF Stored
  <2>4. CASE opt.atomic /\ ~hasError /\ connected /\ committed' = applied
    <3>1. \A i \in DOMAIN results : results[i].st = "ok"
      BY <2>4 DEF Truthful
    <3>2. applied = (1 .. read) \ left
      BY <2>1, <3>1, AllApplied DEF AllDone
    <3>3. Everything'
      BY <2>1, <2>4, <3>1, <3>2 DEF Everything
    <3> QED
      BY <2>1, <2>4, <3>3 DEF Stored
  <2>5. opt.atomic => committed = {}
    BY <2>1 DEF Stored
  <2> QED
    BY <1>1, <2>2, <2>3, <2>4, <2>5 DEF Finish, RollsBack
<1>2. CASE Still /\ ~Finish
  <2>1. UNCHANGED <<opt, read, results, applied, left, hasError, committed, run>>
    BY <1>2 DEF Still, Refuse, Answer, Disconnect, StopCollecting, vars, request, store
  <2> QED
    BY <2>1 DEF Stored, Everything
<1>3. CASE Read \/ StopReading \/ Submit
  <2>1. /\ UNCHANGED <<opt, results, applied, left, hasError, committed, run>>
        /\ run # "running" => UNCHANGED read
    BY <1>3 DEF Read, StopReading, Submit, request, store, Quiet
  <2> QED
    BY <2>1 DEF Stored, Everything
<1>4. ASSUME NEW w \in Workers, Goes(w) PROVE Stored'
  <2>1. run = "running" /\ UNCHANGED <<opt, run>>
    BY <1>4 DEF Goes, Start, Apply, Fail, Lose, Panic, Deliver, Quiet, request, Shape
  <2>2. /\ ~opt.atomic /\ committed = applied => committed' = applied'
        /\ opt.atomic => committed' = committed
    BY <1>4 DEF Goes, Start, Apply, Fail, Lose, Panic, Deliver, store
  <2> QED
    BY <2>1, <2>2 DEF Stored
<1>5. CASE Die
  <2>1. DieFacts /\ run = "running"
    BY <1>5, DieEffect DEF DieFacts, Quiet
  <2> QED
    BY <2>1 DEF DieFacts, Stored
<1> QED
  BY <1>1, <1>2, <1>3, <1>4, <1>5, Steps

LEMMA WrittenNext == Shape /\ Quiet /\ Written /\ [Next]_vars => Written'
<1> SUFFICES ASSUME Shape, Quiet, Written, [Next]_vars PROVE Written'
  OBVIOUS
<1> USE DEF Written
<1>1. CASE Answer
  <2>1. UNCHANGED <<run, results>>
    BY <1>1 DEF Answer
  <2>2. CASE run = "ended" /\ answer' = StatusOf
    BY <2>1, <2>2 DEF StatusOf
  <2>3. CASE answer' \in {"error", "dropped"}
    BY <2>3
  <2> QED
    BY <1>1, <2>2, <2>3 DEF Answer
<1>2. CASE Refuse
  BY <1>2 DEF Refuse
<1>3. CASE Still /\ ~Answer /\ ~Refuse
  <2>1. UNCHANGED <<results, answer>> /\ (run = "ended" => run' = "ended")
    BY <1>3 DEF Still, Finish, Disconnect, StopCollecting, vars, AllDone
  <2> QED
    BY <2>1
<1>4. CASE Read \/ StopReading \/ Submit
  BY <1>4 DEF Read, StopReading, Submit
<1>5. ASSUME NEW w \in Workers, Goes(w) PROVE Written'
  <2>1. run = "running" /\ UNCHANGED <<run, answer>>
    BY <1>5 DEF Goes, Start, Apply, Fail, Lose, Panic, Deliver, Quiet, Shape
  <2> QED
    BY <2>1
<1>6. CASE Die
  BY <1>6 DEF Die, Quiet
<1> QED
  BY <1>1, <1>2, <1>3, <1>4, <1>5, <1>6, Steps

LEMMA IInvInit == Init => IInv
<1> SUFFICES ASSUME Init PROVE IInv
  OBVIOUS
<1>1. /\ DOMAIN queue = {} /\ DOMAIN results = {} /\ 1 .. read = {}
      /\ \A w \in Workers : work[w].pc = "idle"
  BY SMT DEF Init, Idle
<1>2. /\ reader = "reading" /\ applied = {} /\ committed = {} /\ left = {} /\ run = "running"
      /\ answer = "none" /\ ~hasError
  BY DEF Init
<1> QED
  BY <1>1, <1>2, ShapeInit DEF IInv, Covered, Once, Apart, Truthful, Quiet, Stored,
     Written

(* The inductive invariant.                                                *)
THEOREM Invariance == Spec => []IInv
<1>1. IInv /\ [Next]_vars => IInv'
  BY ShapeNext, CoveredNext, OnceNext, ApartNext, TruthfulNext, QuietNext, StoredNext, WrittenNext
     DEF IInv
<1> QED
  BY IInvInit, <1>1, PTL DEF Spec

(* For any number of workers, any options and bodies of any length: once   *)
(* Run has returned, or the process has died, an atomic bulk has committed *)
(* all the elements decoded that did not panic, each with a success, or    *)
(* none.                                                                   *)
THEOREM AtomicBulk == Spec => []AllOrNothing
<1>1. IInv => AllOrNothing
  BY DEF IInv, Shape, Stored, Everything, AllOrNothing
<1> QED
  BY Invariance, <1>1, PTL

(* What the invariant says of a response. *)
LEMMA AnswerOfIInv == IInv => AnswerIsTrue
<1> SUFFICES ASSUME IInv PROVE AnswerIsTrue
  OBVIOUS
<1> USE DEF IInv
<1>1. ASSUME answer \in {"ok", "partial"}
      PROVE  /\ reader = "closed" /\ queue = <<>>
             /\ \A w \in Workers : work[w].pc = "idle"
             /\ run = "ended"
  BY <1>1 DEF Written, Quiet
<1>2. ASSUME answer = "ok" PROVE committed = (1 .. read) \ left
  <2>1. \A i \in DOMAIN results : results[i].st = "ok"
    BY <1>2 DEF Written
  <2>2. applied = (1 .. read) \ left
    BY <1>1, <1>2, <2>1, AllApplied
  <2>3. ~hasError
    BY <1>1, <1>2, <2>1 DEF Truthful
  <2> QED
    BY <1>1, <1>2, <2>2, <2>3 DEF Stored, Everything
<1>3. ASSUME answer \in {"ok", "partial"}, ~opt.atomic, NEW i \in DOMAIN results
      PROVE  IF results[i].st = "ok" THEN results[i].e \in committed
                                     ELSE results[i].e \in committed => results[i].e \in lost
  <2>1. committed = applied
    BY <1>3 DEF Stored
  <2>2. results[i].st = "ok" => results[i].e \in applied
    BY DEF Truthful
  <2>3. ASSUME results[i].e \in applied PROVE results[i].st = "ok" \/ results[i].e \in lost
    <3>1. PICK j \in DOMAIN results : /\ results[j].e = results[i].e
                                      /\ results[j].st = "ok" \/ results[i].e \in lost
      BY <1>1, <1>3, <2>3 DEF Truthful
    <3> QED
      BY <3>1 DEF Once
  <2> QED
    BY <2>1, <2>2, <2>3
<1> QED
  BY <1>2, <1>3 DEF AnswerIsTrue

(* The state has its type, elements bounded by the length of the body.     *)
LEMMA FlagsInit == Init => hasError \in BOOLEAN /\ connected \in BOOLEAN
  BY Zenon DEF Init

LEMMA FlagsNext ==
  ASSUME hasError \in BOOLEAN, connected \in BOOLEAN, [Next]_vars
  PROVE  hasError' \in BOOLEAN /\ connected' \in BOOLEAN
<1>1. CASE Still
  BY <1>1, Zenon DEF Still, Refuse, Finish, Answer, Disconnect, StopCollecting, vars
<1>2. CASE Read \/ StopReading \/ Submit
  BY <1>2, Zenon DEF Read, StopReading, Submit
<1>3. ASSUME NEW w \in Workers, Goes(w)
      PROVE  hasError' \in BOOLEAN /\ connected' \in BOOLEAN
  BY <1>3, Zenon DEF Goes, Start, Apply, Fail, Lose, Panic, Deliver
<1>4. CASE Die
  BY <1>4, Zenon DEF Die
<1> QED
  BY <1>1, <1>2, <1>3, <1>4, Steps

LEMMA SeqOf ==
  ASSUME NEW S, NEW T, NEW s \in Seq(T), \A i \in DOMAIN s : s[i] \in S
  PROVE  s \in Seq(S)
  BY SMT

LEMMA TypeOfShape ==
  ASSUME Shape, hasError \in BOOLEAN, connected \in BOOLEAN
  PROVE  TypeOK
<1>1. Len(body) \in Nat /\ read \in 0 .. Len(body) /\ \A e \in 1 .. read : e \in 1 .. Len(body)
  BY SMT DEF Shape
<1>2. queue \in Seq(1 .. Len(body))
  BY <1>1, SMTT(20) DEF Shape
<1>3. \A i \in DOMAIN results : results[i] \in [e : 1 .. Len(body), st : Status]
  <2>1. \A i \in DOMAIN results : results[i] \in Result /\ results[i].e \in 1 .. read
    BY DEF Shape
  <2> QED
    BY <1>1, <2>1, SMT DEF Result
<1>4. results \in Seq([e : 1 .. Len(body), st : Status])
  BY <1>3, SeqOf DEF Shape
<1>5. \A w \in Workers : work[w] \in [pc : {"idle", "process", "deliver"}, e : 0 .. Len(body),
                                      st : Status \union {"none"}]
  <2>1. SUFFICES ASSUME NEW w \in Workers
                 PROVE  work[w].e \in 0 .. Len(body) /\ work[w] \in Task
    BY SMT DEF Task
  <2>2. work[w].pc = "idle" => work[w].e = 0
    BY SMT DEF Shape, Idle
  <2> QED
    BY <1>1, <2>2, SMT DEF Shape
<1>6. /\ work \in [Workers -> [pc : {"idle", "process", "deliver"}, e : 0 .. Len(body),
                               st : Status \union {"none"}]]
      /\ applied \subseteq 1 .. Len(body) /\ left \union lost \subseteq 1 .. Len(body)
  BY <1>1, <1>5, SMT DEF Shape
<1> HIDE DEF Status
<1> QED
  BY <1>1, <1>2, <1>4, <1>6, Zenon DEF Shape, TypeOK

(* Elements, tasks and results are numbered within the body, whatever its  *)
(* length, and nothing is in the database that was not applied.            *)
THEOREM TypeCorrect == Spec => []TypeOK
<1> DEFINE Flags == hasError \in BOOLEAN /\ connected \in BOOLEAN
<1>1. Init => Flags
  BY FlagsInit
<1>2. Flags /\ [Next]_vars => Flags'
  BY FlagsNext
<1>3. IInv /\ Flags => TypeOK
  BY TypeOfShape DEF IInv
<1> QED
  BY Invariance, <1>1, <1>2, <1>3, PTL DEF Spec

(* A response says what the database holds: 200 that everything decoded    *)
(* that did not panic is there, and a result of a bulk that is not atomic  *)
(* whether its element is, unless the answer of its commit was lost.       *)
THEOREM TrueAnswer == Spec => []AnswerIsTrue
  BY Invariance, AnswerOfIInv, PTL

-----------------------------------------------------------------------------
(* The order of a bulk that is not parallel.                               *)

(* Its worker, and whether it holds an element. *)
Only == CHOOSE w \in Workers : TRUE
Busy == IF work[Only].pc = "idle" THEN 0 ELSE 1
Sending == IF reader = "sending" THEN 1 ELSE 0

(* The elements whose turn is over: those that have a result or panicked.  *)
Past == read - Busy - Len(queue) - Sending

(* The elements stand in a line: the results, the worker, the queue, the   *)
(* reader.                                                                 *)
Ordered ==
  /\ \A i, j \in DOMAIN results : i < j => results[i].e < results[j].e
  /\ \A i \in DOMAIN results : results[i].e <= Past
  /\ \A e \in left : e <= Past
  /\ left = {} => \A i \in DOMAIN results : results[i].e = i
  /\ left = {} /\ run # "crashed" => Past = Len(results)

InLine ==
  /\ Ordered
  /\ \A w \in Workers : w # Only => work[w].pc = "idle"
  /\ work[Only].pc # "idle" => work[Only].e = Past + 1
  /\ \A i \in DOMAIN queue : queue[i] = Past + Busy + i

(* What is applied or panicked is a beginning of the body: up to the       *)
(* element the worker holds, or up to the first that failed, this one      *)
(* included if its answer was lost.                                        *)
UpTo(n) == applied \union left = 1 .. n

FailedAt(e) == hasError /\ (UpTo(e - 1) \/ (e \in lost /\ UpTo(e)))

Beginning ==
  /\ work[Only].pc = "process" => ~hasError /\ UpTo(work[Only].e - 1)
  /\ work[Only].pc = "deliver" =>
       /\ work[Only].st = "error" => FailedAt(work[Only].e)
       /\ work[Only].st = "ok" => UpTo(work[Only].e)
       /\ work[Only].st = "cancelled" => hasError \/ ~connected
  /\ work[Only].pc = "idle" /\ ~hasError /\ connected => UpTo(Past)
  /\ \A i \in DOMAIN results : results[i].st = "error" => FailedAt(results[i].e)

Serial ==
  /\ ~opt.parallel => InLine
  /\ ~opt.parallel /\ ~opt.cont => Beginning

LEMMA OnlyWorker == Only \in Workers /\ (~opt.parallel => Pool(opt) = {Only})
  BY BulkAssumption DEF Only, Pool

LEMMA QueueTail ==
  ASSUME NEW s \in Seq(Nat), s # <<>>
  PROVE  Len(Tail(s)) = Len(s) - 1 /\ Len(s) \in Nat /\ Len(s) >= 1
  BY SMT

(* What the steps do to the line. *)
LEMMA LineTypes ==
  ASSUME Shape
  PROVE  /\ Only \in Workers /\ Only' = Only
         /\ Len(results) \in Nat /\ Len(queue) \in Nat /\ read \in Nat
         /\ DOMAIN results = 1 .. Len(results) /\ DOMAIN queue = 1 .. Len(queue)
         /\ Busy \in 0 .. 1 /\ Sending \in 0 .. 1 /\ Past \in Int
         /\ \A i \in DOMAIN results : results[i].e \in Nat
         /\ \A e \in left : e \in Nat
<1>1. /\ Only \in Workers /\ Only' = Only
      /\ Len(results) \in Nat /\ Len(queue) \in Nat /\ read \in Nat
      /\ DOMAIN results = 1 .. Len(results) /\ DOMAIN queue = 1 .. Len(queue)
      /\ Busy \in 0 .. 1 /\ Sending \in 0 .. 1
  BY OnlyWorker, SMT DEF Shape, Busy, Sending, Only
<1>2. (\A i \in DOMAIN results : results[i].e \in Nat) /\ \A e \in left : e \in Nat
  BY <1>1, SMT DEF Shape
<1> QED
  BY <1>1, <1>2, SMT DEF Past

(* A turn is over when the worker gives its element away. *)
Turns == Past' = IF Busy = 1 /\ Busy' = 0 THEN Past + 1 ELSE Past

LEMMA DeliveredLength ==
  ASSUME Shape, NEW w \in Workers, Deliver(w)
  PROVE  Len(results') = Len(results) + 1
<1>1. [e |-> work[w].e, st |-> work[w].st] \in Result /\ results \in Seq(Result)
  BY SMT DEF Shape, Deliver, Result, Status, Task
<1> QED
  BY <1>1, Appended DEF Deliver

LEMMA OneMore ==
  ASSUME NEW p \in Int, NEW e \in Int, e <= p
  PROVE  e <= p + 1
  BY SMT

LEMMA StaysOrdered ==
  ASSUME Ordered, UNCHANGED <<results, left>>, Past' = Past,
         run' = run \/ (run' \in {"ended", "failed"} /\ run = "running")
  PROVE  Ordered'
<1>1. run' # "crashed" => run # "crashed"
  OBVIOUS
<1> QED
  BY <1>1 DEF Ordered

LEMMA InLineNext ==
  ASSUME Shape, Quiet, Apart, [Next]_vars, ~opt.parallel, InLine
  PROVE  InLine' /\ (Die \/ Turns)
<1> DEFINE n == Len(results)
<1>0. /\ Only \in Workers /\ Only' = Only
      /\ n \in Nat /\ Len(queue) \in Nat /\ read \in Nat
      /\ DOMAIN results = 1 .. n /\ DOMAIN queue = 1 .. Len(queue)
      /\ Busy \in 0 .. 1 /\ Sending \in 0 .. 1 /\ Past \in Int
      /\ \A i \in DOMAIN results : results[i].e \in Nat
      /\ \A e \in left : e \in Nat
  BY LineTypes
<1>c. /\ Len(queue) \in Nat /\ read \in Nat /\ Busy \in Int /\ Sending \in Int
      /\ Past = read - Busy - Len(queue) - Sending
  BY <1>0, SMT DEF Past
<1>a. /\ Ordered
      /\ \A w \in Workers : w # Only => work[w].pc = "idle"
      /\ work[Only].pc # "idle" => work[Only].e = Past + 1
      /\ \A i \in DOMAIN queue : queue[i] = Past + Busy + i
  BY DEF InLine
<1>b. \A i \in DOMAIN queue : i \in Nat /\ Past + Busy + i \in Int
  BY <1>0, SMT DEF Past
<1>d. /\ \A i \in DOMAIN results : results[i].e <= Past + 1
      /\ \A e \in left : e <= Past + 1
  <2>1. ASSUME NEW i \in DOMAIN results PROVE results[i].e <= Past + 1
    <3>1. results[i].e \in Nat
      BY <1>0
    <3>2. results[i].e <= Past
      BY <1>a DEF Ordered
    <3> QED
      BY <1>0, <3>1, <3>2, SMT
  <2>2. ASSUME NEW e \in left PROVE e <= Past + 1
    <3>1. e \in Nat
      BY <1>0
    <3>2. e <= Past
      BY <1>a DEF Ordered
    <3> QED
      BY <1>0, <3>1, <3>2, SMT
  <2> QED
    BY <2>1, <2>2
<1>1. CASE Still
  <2>1. /\ UNCHANGED <<queue, work, results, left>>
        /\ run' = run \/ (run' \in {"ended", "failed"} /\ run = "running")
    BY <1>1, StillKeeps DEF Still, Refuse, Finish, Answer, Disconnect, StopCollecting, vars, AllDone
  <2>2. Busy' = Busy /\ Past' = Past
    BY <1>1, StillKeeps DEF Busy, Sending, Only, Past
  <2>3. Ordered'
    BY <1>a, <2>1, <2>2, StaysOrdered
  <2> QED
    BY <1>0, <1>a, <2>1, <2>2, <2>3 DEF InLine, Turns
<1>2. CASE Read
  <2>1. reader = "reading" /\ UNCHANGED <<queue, work, results, left, run>>
    BY <1>2, ReadEffect
  <2>2. Sending = 0 /\ read' = read + Sending' /\ Busy' = Busy /\ Sending' \in 0 .. 1
    BY <1>0, <1>2, <2>1, ReadEffect, SMT DEF Sending, Busy
  <2>3. Past' = Past
    BY <1>0, <2>1, <2>2, SMT DEF Past
  <2>4. Ordered'
    BY <1>a, <2>1, <2>3, StaysOrdered
  <2> QED
    BY <1>0, <1>a, <2>1, <2>2, <2>3, <2>4 DEF InLine, Turns
<1>3. CASE StopReading
  <2>1. /\ UNCHANGED <<read, queue, work, results, left, run>>
        /\ Sending = 0 /\ Sending' = 0 /\ Busy' = Busy
    BY <1>3, StopReadingEffect DEF Sending, Busy, Only
  <2>2. Past' = Past
    BY <2>1 DEF Past
  <2>3. Ordered'
    BY <1>a, <2>1, <2>2, StaysOrdered
  <2> QED
    BY <1>0, <1>a, <2>1, <2>2, <2>3 DEF InLine, Turns
<1>4. CASE Submit
  <2>1. /\ UNCHANGED <<read, work, results, left, run>>
        /\ Sending = 1 /\ Sending' = 0 /\ Busy' = Busy
        /\ \A i \in DOMAIN queue' : i \in DOMAIN queue \/ i = Len(queue) + 1
        /\ \A i \in DOMAIN queue : queue'[i] = queue[i]
        /\ queue'[Len(queue) + 1] = read
    BY <1>4, SubmitEffect, SMT DEF Sending, Busy, Only
  <2>2. Len(queue') = Len(queue) + 1
    BY <1>0, <1>4, Appended DEF Submit, Shape
  <2>3. Past' = Past /\ read = Past + Busy + (Len(queue) + 1)
    <3>1. Past' = read - Busy - (Len(queue) + 1) - 0
      BY <2>1, <2>2 DEF Past
    <3> QED
      BY <1>c, <2>1, <3>1, SMT
  <2>4. \A i \in DOMAIN queue' : queue'[i] = Past + Busy + i
    BY <1>a, <2>1, <2>3
  <2>5. Ordered'
    BY <1>a, <2>1, <2>3, StaysOrdered
  <2> QED
    BY <1>0, <1>a, <2>1, <2>3, <2>4, <2>5 DEF InLine, Turns
<1>5. ASSUME NEW w \in Workers, Start(w) PROVE InLine' /\ Turns
  <2>1. w = Only /\ UNCHANGED <<reader, read, results, left, run>>
    BY <1>5, OnlyWorker DEF Start, store
  <2>2. StartFacts(Only)
    BY <1>5, <2>1, StartEffect
  <2>3. /\ Busy = 0 /\ Busy' = 1 /\ Sending' = Sending
        /\ \A v \in Workers : v # Only => work'[v] = work[v]
        /\ work'[Only].e = queue[1] /\ 1 \in DOMAIN queue
    BY <1>0, <2>1, <2>2 DEF StartFacts, Busy, Sending
  <2>4. Len(queue') = Len(queue) - 1
    BY <2>2, QueueTail DEF StartFacts, Shape
  <2>5. \A i \in DOMAIN queue' : i \in Nat /\ i + 1 \in DOMAIN queue /\ queue'[i] = queue[i + 1]
    BY <2>2, SMT DEF StartFacts
  <2>6. Past' = Past
    BY <1>0, <2>1, <2>3, <2>4, SMT DEF Past
  <2>7. \A i \in DOMAIN queue' : queue'[i] = Past + 1 + i
    <3>1. \A i \in DOMAIN queue' : queue'[i] = Past + Busy + (i + 1)
      BY <1>a, <2>5
    <3>2. \A i \in DOMAIN queue' : Past + 0 + (i + 1) = Past + 1 + i
      BY <1>0, <2>5, SMT
    <3> QED
      BY <2>3, <3>1, <3>2
  <2>8. work'[Only].e = Past + 1
    <3>1. work'[Only].e = Past + Busy + 1
      BY <1>a, <2>3
    <3> QED
      BY <1>0, <2>3, <3>1, SMT
  <2>9. Ordered'
    BY <1>a, <2>1, <2>6, StaysOrdered
  <2> QED
    BY <1>0, <1>a, <2>1, <2>3, <2>6, <2>7, <2>8, <2>9 DEF InLine, Turns
<1>6. ASSUME NEW w \in Workers, Apply(w) \/ Fail(w) \/ Lose(w) PROVE InLine' /\ Turns
  <2>1. /\ \A v \in Workers : v # w => work'[v] = work[v]
        /\ work[w].pc = "process" /\ work'[w].pc = "deliver" /\ work'[w].e = work[w].e
        /\ UNCHANGED <<reader, read, queue, results, left, run>>
    BY <1>6, ApplyEffect, FailEffect, LoseEffect
       DEF ApplyFacts, FailFacts, Apply, Fail, Lose, store
  <2>2. Busy' = Busy /\ Sending' = Sending
    BY <1>0, <2>1 DEF Busy, Sending
  <2>3. Past' = Past
    BY <2>1, <2>2 DEF Past
  <2>4. Ordered'
    BY <1>a, <2>1, <2>3, StaysOrdered
  <2> QED
    BY <1>0, <1>a, <2>1, <2>2, <2>3, <2>4 DEF InLine, Turns
<1>7. ASSUME NEW w \in Workers, Deliver(w)
      PROVE  InLine' /\ Turns
  <2>1. w = Only /\ UNCHANGED <<reader, read, queue, left, run>>
    BY <1>7, <1>a DEF Deliver, store
  <2>2. DeliverFacts(Only)
    BY <1>7, <2>1, DeliverEffect
  <2>3. /\ work[Only].pc = "deliver" /\ work'[Only].pc = "idle" /\ work[Only].e = Past + 1
        /\ \A v \in Workers : work'[v].pc = "idle"
    BY <1>0, <1>a, <2>2 DEF DeliverFacts
  <2>4. Busy = 1 /\ Busy' = 0 /\ Sending' = Sending
    BY <1>0, <2>1, <2>3 DEF Busy, Sending
  <2>5. /\ Len(results') = n + 1 /\ DOMAIN results' = 1 .. n + 1
        /\ \A i \in 1 .. n : results'[i] = results[i]
        /\ results'[n + 1].e = Past + 1
    <3>1. /\ results' \in Seq(Result) /\ n + 1 \in DOMAIN results'
          /\ \A i \in 1 .. n : i \in DOMAIN results' /\ results'[i] = results[i]
          /\ \A i \in DOMAIN results' : i \in 1 .. n \/ i = n + 1
          /\ results'[n + 1].e = Past + 1
      BY <1>0, <2>2, <2>3 DEF DeliverFacts
    <3>2. DOMAIN results' = 1 .. Len(results') /\ Len(results') \in Nat
      BY <3>1
    <3>3. Len(results') = n + 1
      BY <1>0, <1>7, <2>1, DeliveredLength
    <3> QED
      BY <3>1, <3>2, <3>3
  <2>6. Past' = Past + 1
    BY <1>0, <2>1, <2>4, SMT DEF Past
  <2>7. \A i \in 1 .. n : results'[i].e \in Nat /\ results'[i].e <= Past
    BY <1>0, <1>a, <2>5 DEF Ordered
  <2>8. \A i, j \in DOMAIN results' : i < j => results'[i].e < results'[j].e
    <3>1. SUFFICES ASSUME NEW i \in 1 .. n + 1, NEW j \in 1 .. n + 1, i < j
                   PROVE  results'[i].e < results'[j].e
      BY <2>5
    <3>2. i \in 1 .. n /\ (j \in 1 .. n \/ j = n + 1)
      BY <1>0, <3>1, SMT
    <3>3. CASE j \in 1 .. n
      BY <1>0, <1>a, <2>5, <3>1, <3>2, <3>3 DEF Ordered
    <3>4. CASE j = n + 1
      BY <1>0, <2>5, <2>7, <3>2, <3>4, SMT
    <3> QED
      BY <3>2, <3>3, <3>4
  <2>9. \A i \in DOMAIN results' : results'[i].e <= Past + 1
    <3>1. \A i \in DOMAIN results' : i \in 1 .. n \/ i = n + 1
      BY <1>0, <2>5, SMT
    <3>2. \A i \in 1 .. n : results'[i].e <= Past + 1
      BY <1>0, <2>7, OneMore
    <3>3. Past + 1 <= Past + 1
      BY <1>0, SMT
    <3> QED
      BY <2>5, <3>1, <3>2, <3>3
  <2>10. \A e \in left : e <= Past + 1
    BY <1>d
  <2>11. run # "crashed"
    BY <2>3, <1>0 DEF Quiet
  <2>12. left = {} => Past + 1 = n + 1 /\ \A i \in DOMAIN results' : results'[i].e = i
    <3>1. SUFFICES ASSUME left = {}
                   PROVE  Past = n /\ \A i \in 1 .. n + 1 : results'[i].e = i
      BY <1>0, <2>5
    <3>2. Past = n /\ \A i \in 1 .. n : results[i].e = i
      BY <1>0, <1>a, <2>11, <3>1 DEF Ordered
    <3> QED
      BY <1>0, <2>5, <3>2, SMT
  <2>13. Ordered'
    BY <2>1, <2>5, <2>6, <2>8, <2>9, <2>10, <2>12 DEF Ordered
  <2>14. \A i \in DOMAIN queue' : queue'[i] = Past' + Busy' + i
    <3>1. \A i \in DOMAIN queue : queue[i] = Past + 1 + i
      BY <1>a, <2>4
    <3>2. Past + 1 + 0 = Past + 1
      BY <1>0, SMT
    <3> QED
      BY <2>1, <2>4, <2>6, <3>1, <3>2
  <2> QED
    BY <1>0, <2>3, <2>4, <2>6, <2>13, <2>14 DEF InLine, Turns
<1>8. ASSUME NEW w \in Workers, Panic(w)
      PROVE  InLine' /\ Turns
  <2>1. w = Only /\ UNCHANGED <<reader, read, queue, results, run>>
    BY <1>8, <1>a DEF Panic
  <2>2. PanicFacts(Only)
    BY <1>8, <2>1, PanicEffect
  <2>3. /\ work[Only].pc = "process" /\ work'[Only].pc = "idle" /\ work[Only].e = Past + 1
        /\ \A v \in Workers : work'[v].pc = "idle"
        /\ left' = left \union {Past + 1} /\ left' # {}
    BY <1>0, <1>a, <2>2 DEF PanicFacts
  <2>4. Busy = 1 /\ Busy' = 0 /\ Sending' = Sending
    BY <1>0, <2>1, <2>3 DEF Busy, Sending
  <2>5. Past' = Past + 1
    BY <1>0, <2>1, <2>4, SMT DEF Past
  <2>6. \A i \in DOMAIN results : results[i].e <= Past + 1
    BY <1>d
  <2>7. \A e \in left' : e <= Past + 1
    <3>1. \A e \in left : e <= Past + 1
      BY <1>d
    <3>2. Past + 1 <= Past + 1
      BY <1>0, SMT
    <3> QED
      BY <2>3, <3>1, <3>2
  <2>8. Ordered'
    BY <1>a, <2>1, <2>3, <2>5, <2>6, <2>7 DEF Ordered
  <2>9. \A i \in DOMAIN queue' : queue'[i] = Past' + Busy' + i
    <3>1. \A i \in DOMAIN queue : queue[i] = Past + 1 + i
      BY <1>a, <2>4
    <3>2. Past + 1 + 0 = Past + 1
      BY <1>0, SMT
    <3> QED
      BY <2>1, <2>4, <2>5, <3>1, <3>2
  <2> QED
    BY <1>0, <2>3, <2>4, <2>5, <2>8, <2>9 DEF InLine, Turns
<1>9. CASE Die
  <2>1. DieFacts
    BY <1>9, DieEffect
  <2>2. Busy' = 0 /\ Sending' = 0 /\ Len(queue') = 0
    BY <1>0, <2>1, SMT DEF DieFacts, Busy, Sending
  <2>3. Past' = read
    BY <1>0, <2>1, <2>2, SMT DEF DieFacts, Past
  <2>4. (\A i \in DOMAIN results : results[i].e <= read) /\ \A e \in left : e <= read
    BY SMT DEF Shape
  <2>5. Ordered'
    BY <1>a, <2>1, <2>3, <2>4 DEF DieFacts, Ordered
  <2> QED
    BY <1>0, <1>9, <2>1, <2>5 DEF DieFacts, InLine
<1> QED
  BY <1>1, <1>2, <1>3, <1>4, <1>5, <1>6, <1>7, <1>8, <1>9, Steps DEF Goes

LEMMA BeginningNext ==
  ASSUME Shape, Quiet, Apart, Truthful, [Next]_vars, ~opt.parallel, ~opt.cont, InLine, Beginning
  PROVE  Beginning'
<1>0. Only \in Workers /\ Only' = Only /\ Past \in Int /\ InLine' /\ (Die \/ Turns)
  BY LineTypes, InLineNext
<1> USE DEF UpTo, FailedAt
<1>1. CASE Still \/ Read \/ StopReading \/ Submit
  <2>1. /\ UNCHANGED <<work, results, applied, left, lost, hasError>>
        /\ ~connected => ~connected'
    BY <1>1, StillKeeps, ReadEffect, StopReadingEffect, SubmitEffect
  <2>2. Busy' = Busy /\ ~Die
    <3>1. reader' = "closed" /\ reader = "reading" => run' # "crashed" \/ run = "crashed"
      BY <1>1, StillKeeps, ReadEffect, StopReadingEffect, SubmitEffect
    <3>2. Die => run # "crashed" /\ reader' = "closed" /\ reader = "reading" /\ run' = "crashed"
      BY DEF Die, Quiet
    <3> QED
      BY <1>0, <2>1, <3>1, <3>2 DEF Busy
  <2>3. Past' = Past
    BY <1>0, <2>2, SMT DEF Turns, Busy
  <2> QED
    BY <1>0, <2>1, <2>3 DEF Beginning
<1>2. ASSUME NEW w \in Workers, Start(w) PROVE Beginning'
  <2>1. w = Only /\ UNCHANGED <<results, applied, left, lost, hasError, connected>>
    BY <1>2, OnlyWorker DEF Start, store
  <2>2. StartFacts(Only)
    BY <1>2, <2>1, StartEffect
  <2>3. work[Only].pc = "idle" /\ work'[Only].e = Past + 1
    <3>1. work[Only].pc = "idle" /\ Busy = 0 /\ 1 \in DOMAIN queue /\ work'[Only].e = queue[1]
      BY <2>2 DEF StartFacts, Busy
    <3> QED
      BY <1>0, <3>1, SMT DEF InLine
  <2>4. CASE work'[Only].pc = "process"
    <3>1. connected /\ ~hasError
      BY <1>0, <1>2, <2>1, <2>4 DEF Start, GoesOn, Shape
    <3>2. UpTo(Past)
      BY <2>3, <3>1 DEF Beginning
    <3>3. UpTo(work'[Only].e - 1)
      BY <1>0, <2>3, <3>2, SMT
    <3> QED
      BY <1>0, <2>1, <2>4, <3>1, <3>3 DEF Beginning
  <2>5. CASE /\ work'[Only].pc = "deliver" /\ work'[Only].st = "cancelled"
             /\ hasError \/ ~connected
    BY <1>0, <2>1, <2>5 DEF Beginning
  <2> QED
    BY <2>2, <2>4, <2>5 DEF StartFacts
<1>3. ASSUME NEW w \in Workers, work[w].pc = "process"
      PROVE  /\ w = Only /\ ~hasError /\ work[w].e = Past + 1 /\ UpTo(Past) /\ Past >= 0
             /\ \A i \in DOMAIN results : results[i].st # "error"
  <2>1. w = Only /\ ~hasError /\ work[w].e = Past + 1 /\ UpTo(work[w].e - 1)
    BY <1>0, <1>3 DEF Beginning, InLine
  <2>2. UpTo(Past)
    BY <1>0, <2>1, SMT
  <2>3. Past >= 0
    BY <1>0, <1>3, <2>1, SMT DEF Shape
  <2>4. \A i \in DOMAIN results : results[i].st # "error"
    BY <2>1 DEF Beginning
  <2> QED
    BY <2>1, <2>2, <2>3, <2>4
<1>4. ASSUME UpTo(Past), Past >= 0 PROVE UpTo(Past + 1 - 1) /\ applied \union left \union {Past + 1} = 1 .. Past + 1
  <2>1. Past + 1 \in 1 .. Past + 1 /\ Past + 1 - 1 = Past
    BY <1>0, <1>4, SMT
  <2> QED
    BY <1>0, <1>4, <2>1, SMT
<1>5. ASSUME NEW w \in Workers, Apply(w) PROVE Beginning'
  <2>1. w = Only /\ applied' = applied \union {work[w].e} /\ UNCHANGED <<results, left, hasError>>
    BY <1>3, <1>5 DEF Apply
  <2>2. ApplyFacts(Only)
    BY <1>5, <2>1, ApplyEffect
  <2>3. /\ work[Only].e = Past + 1 /\ UpTo(Past) /\ Past >= 0
        /\ \A i \in DOMAIN results : results[i].st # "error"
    BY <1>3, <2>1, <2>2 DEF ApplyFacts
  <2>4. applied' \union left' = 1 .. work'[Only].e
    BY <1>4, <2>1, <2>2, <2>3 DEF ApplyFacts
  <2> QED
    BY <1>0, <2>1, <2>2, <2>3, <2>4 DEF Beginning, ApplyFacts
<1>6. ASSUME NEW w \in Workers, Fail(w) \/ Lose(w) PROVE Beginning'
  <2>1. FailFacts(w) /\ hasError' /\ UNCHANGED <<results, left>>
    BY <1>6, FailEffect, LoseEffect DEF Fail, Lose, store
  <2>2. /\ w = Only /\ work[w].e = Past + 1 /\ UpTo(Past) /\ Past >= 0
        /\ \A i \in DOMAIN results : results[i].st # "error"
    BY <1>3, <2>1 DEF FailFacts
  <2>3. \/ applied' = applied
        \/ applied' = applied \union {work[w].e} /\ work[w].e \in lost'
    BY <1>6 DEF Fail, Lose, store
  <2>4. FailedAt(work[w].e)'
    <3>1. work[w].e - 1 = Past /\ UpTo(work[w].e - 1)
      BY <1>0, <2>2, SMT
    <3>2. CASE applied' = applied
      BY <2>1, <3>1, <3>2 DEF FailFacts
    <3>3. CASE applied' = applied \union {work[w].e} /\ work[w].e \in lost'
      <4>1. applied' \union left' = 1 .. work[w].e
        BY <1>4, <2>1, <2>2, <3>3
      <4> QED
        BY <2>1, <3>3, <4>1 DEF FailFacts
    <3> QED
      BY <2>3, <3>2, <3>3
  <2> QED
    BY <1>0, <2>1, <2>2, <2>4 DEF Beginning, FailFacts
<1>7. ASSUME NEW w \in Workers, Panic(w) PROVE Beginning'
  <2>1. PanicFacts(w) /\ UNCHANGED <<results, applied, hasError>>
    BY <1>7, PanicEffect DEF Panic
  <2>2. /\ w = Only /\ work[w].e = Past + 1 /\ UpTo(Past) /\ Past >= 0
        /\ \A i \in DOMAIN results : results[i].st # "error"
    BY <1>3, <2>1 DEF PanicFacts
  <2>3. Past' = Past + 1
    <3>1. Busy = 1 /\ Busy' = 0
      BY <2>1, <2>2 DEF PanicFacts, Busy
    <3>2. run' = run
      BY <1>7 DEF Panic
    <3>3. run = "running"
      BY <1>0, <2>1, <2>2 DEF PanicFacts, Quiet
    <3>4. ~Die
      BY <1>0, <3>2, <3>3, DieEffect DEF DieFacts
    <3> QED
      BY <1>0, <3>1, <3>4 DEF Turns
  <2>4. applied' \union left' = 1 .. Past'
    BY <1>4, <2>1, <2>2, <2>3 DEF PanicFacts
  <2> QED
    BY <1>0, <2>1, <2>2, <2>4 DEF Beginning, PanicFacts
<1>8. ASSUME NEW w \in Workers, Deliver(w) PROVE Beginning'
  <2>1. w = Only /\ UNCHANGED <<applied, left, lost, hasError, connected, run>>
    BY <1>8 DEF Deliver, InLine, store
  <2>2. DeliverFacts(Only)
    BY <1>8, <2>1, DeliverEffect
  <2>3. work[Only].e = Past + 1 /\ work[Only].st \in Status
    BY <1>0, <2>2 DEF DeliverFacts, InLine, Shape
  <2>4. Past' = Past + 1
    <3>1. Busy = 1 /\ Busy' = 0 /\ ~Die
      BY <1>0, <2>1, <2>2, DieEffect DEF DeliverFacts, Busy, DieFacts, Quiet
    <3> QED
      BY <1>0, <3>1 DEF Turns
  <2>5. ~hasError /\ connected => UpTo(Past)'
    BY <1>0, <2>1, <2>2, <2>3, <2>4 DEF DeliverFacts, Beginning, Status
  <2>6. work[Only].st = "error" => FailedAt(work[Only].e)
    BY <2>2 DEF DeliverFacts, Beginning
  <2>7. \A i \in DOMAIN results' : results'[i].st = "error" => FailedAt(results'[i].e)
    BY <2>2, <2>6 DEF DeliverFacts, Beginning
  <2>8. work'[Only].pc = "idle"
    BY <2>2 DEF DeliverFacts
  <2> QED
    BY <1>0, <2>1, <2>5, <2>7, <2>8 DEF Beginning
<1>9. CASE Die
  BY <1>0, <1>9, DieEffect DEF DieFacts, Beginning
<1> QED
  BY <1>1, <1>2, <1>5, <1>6, <1>7, <1>8, <1>9, Steps DEF Goes

LEMMA SerialInit == Init => Serial
<1> SUFFICES ASSUME Init PROVE Serial
  OBVIOUS
<1>1. /\ DOMAIN queue = {} /\ DOMAIN results = {} /\ Len(queue) = 0 /\ Len(results) = 0
      /\ \A w \in Workers : work[w].pc = "idle"
      /\ read = 0 /\ applied = {} /\ left = {} /\ Sending = 0
  BY SMT DEF Init, Idle, Sending
<1>2. Only \in Workers /\ Busy = 0
  BY <1>1, OnlyWorker DEF Busy
<1>3. Past = 0 /\ 1 .. Past = {}
  BY <1>1, <1>2, SMT DEF Past
<1>4. InLine
  BY <1>1, <1>2, <1>3 DEF InLine, Ordered
<1>5. Beginning
  BY <1>1, <1>2, <1>3 DEF Beginning, UpTo
<1> QED
  BY <1>4, <1>5 DEF Serial

LEMMA OptionsStay == [Next]_vars => opt' = opt
<1>1. ASSUME NEW w \in Workers, Goes(w) PROVE opt' = opt
  BY <1>1 DEF Goes, Start, Apply, Fail, Lose, Panic, Deliver, request
<1> QED
  BY <1>1, Steps DEF Still, Refuse, Finish, Answer, Disconnect, StopCollecting, Read,
     StopReading, Die, Submit, vars, request

LEMMA SerialNext == IInv /\ Serial /\ [Next]_vars => Serial'
  BY InLineNext, BeginningNext, OptionsStay DEF Serial, IInv

(* In a bulk that is not parallel the elements keep their order, whatever  *)
(* fails, panics or is cancelled and whenever the client goes away, and    *)
(* without continueOnFailure what was applied or panicked is a beginning   *)
(* of the body.                                                            *)
THEOREM SerialBulk == Spec => []Serial
  BY Invariance, SerialInit, SerialNext, PTL DEF Spec

(* Without continueOnFailure, for any body and any number of workers: a    *)
(* bulk that is not parallel has applied the elements before the one that  *)
(* failed, but what panicked, and no other.                                *)
THEOREM NothingAfterFailure == Spec => []StopsAtFailure
<1>1. IInv /\ Serial => StopsAtFailure
  <2> SUFFICES ASSUME IInv, Serial, ~opt.parallel, ~opt.cont,
                      NEW i \in DOMAIN results, results[i].st = "error"
               PROVE  /\ applied \ {results[i].e} = (1 .. results[i].e - 1) \ left
                      /\ results[i].e \in applied => results[i].e \in lost
    BY DEF StopsAtFailure
  <2> DEFINE e == results[i].e
  <2>1. FailedAt(e)
    BY DEF Serial, Beginning
  <2>2. applied \intersect left = {} /\ e \notin left /\ e \in Nat /\ e >= 1
    BY SMT DEF IInv, Apart, Shape
  <2> HIDE DEF e
  <2>3. e \notin 1 .. e - 1 /\ 1 .. e = (1 .. e - 1) \union {e}
    BY <2>2, SMT
  <2> QED
    BY <2>1, <2>2, <2>3 DEF FailedAt, UpTo, e
<1> QED
  BY Invariance, SerialBulk, <1>1, PTL

LEMMA MatchOfIInv == IInv /\ Serial => ResultsMatchElements
<1> SUFFICES ASSUME IInv, Serial, answer \in {"ok", "partial"}
             PROVE  ResultsMatchElements
  BY DEF ResultsMatchElements
<1> USE DEF IInv
<1>1. /\ reader = "closed" /\ queue = <<>> /\ run = "ended"
      /\ \A w \in Workers : work[w].pc = "idle"
  BY DEF Written, Quiet
<1>2. {results[i].e : i \in DOMAIN results} = (1 .. read) \ left
  BY <1>1, AllReceived
<1> QED
  BY <1>2 DEF Serial, InLine, Ordered, Once, ResultsMatchElements

(* A response has exactly one result for every element decoded that did    *)
(* not panic, in the order of the elements unless the bulk is parallel,    *)
(* for any number of workers and bodies of any length.                     *)
THEOREM OneResultEach == Spec => []ResultsMatchElements
  BY Invariance, SerialBulk, MatchOfIInv, PTL
===============================================================================
