--------------------------------- MODULE Bulk ---------------------------------
(***************************************************************************)
(* One bulk request (internal/api/bulking, controllers_bulk.go).  The      *)
(* handler hands the elements of the body to the bulker through a channel; *)
(* the bulker submits them to a pool of workers, each of which calls the   *)
(* ledger controller and sends one result back; a collector gathers the    *)
(* results, from which the handler writes the response.                    *)
(*                                                                         *)
(* A streamed body is decoded while the bulk runs and its channels have no *)
(* buffer; a JSON body is decoded first and its channels hold everything.  *)
(***************************************************************************)
EXTENDS Naturals, Sequences, FiniteSets

CONSTANTS
  Workers,      \* the pool: WithParallelism
  Options,      \* the requests considered, [stream, atomic, parallel, cont]
  Bodies,       \* their bodies: what becomes of each element
  BulkMaxSize   \* 0: no limit

(* What becomes of an element: the controller accepts it, refuses it, or   *)
(* panics in the middle of it (the revert of a posting that credits an     *)
(* asset its account has no balance of); "sharing" is an accepted element  *)
(* on rows the panicking ones have locked.  Or it is not decoded: it is    *)
(* malformed, or the empty script that panics in the reader of a text      *)
(* stream.                                                                 *)
Decoded == {"accepted", "sharing", "refused", "panics"}
Element == Decoded \union {"malformed", "empty"}

ASSUME BulkAssumption ==
  /\ Workers # {}
  /\ IsFiniteSet(Workers)
  /\ Options \subseteq [stream : BOOLEAN, atomic : BOOLEAN, parallel : BOOLEAN, cont : BOOLEAN]
  /\ Bodies \subseteq Seq(Element)
  /\ BulkMaxSize \in Nat

VARIABLES
  opt, body,   \* the request
  reader,      \* the goroutine that sends elements: "reading", "sending", "closed"
  read,        \* how many elements it has decoded: len(h.actions)
  queue,       \* tasks submitted to the pool, not yet taken
  work,        \* [Workers -> [pc, e, st]]
  hasError,    \* the bulker's flag
  collector,   \* "on", "stopped" (context done) or "closed"
  results,     \* h.results: <<[e, st]>> in the order they were received
  applied,     \* elements the controller has applied
  committed,   \* those that are in the database for good
  left,        \* elements that panicked: their transaction is left open
  lost,        \* elements during which the connection to the database was lost
  run,         \* Bulker.Run: "running", "ended", "failed" (returned an error), "crashed"
  answer,      \* "none", "refused", "error", "ok" (status 200), "partial" (400), "dropped"
  connected    \* the client is there: r.Context() is not done

vars == <<opt, body, reader, read, queue, work, hasError, collector, results,
          applied, committed, left, lost, run, answer, connected>>

request == <<opt, body>>
store == <<applied, committed, left, lost>>
Idle == [pc |-> "idle", e |-> 0, st |-> "none"]

-----------------------------------------------------------------------------
(* Faulty: the pool is used for every bulk. *)
PoolAlways(o) == Workers

(* run: the workers a bulk uses. *)
Pool(o) == IF o.parallel THEN Workers ELSE {CHOOSE w \in Workers : TRUE}

(* What is answered without running the bulk: options.Validate, and for a  *)
(* JSON body a decoding error or too many elements.                        *)
Refused ==
  \/ opt.atomic /\ opt.parallel
  \/ /\ ~opt.stream
     /\ \/ \E i \in DOMAIN body : body[i] = "malformed"
        \/ BulkMaxSize # 0 /\ Len(body) > BulkMaxSize

Refuse ==
  /\ Refused
  /\ answer = "none"
  /\ answer' = "refused"
  /\ UNCHANGED <<request, reader, read, queue, work, hasError, collector, results,
                 store, run, connected>>

-----------------------------------------------------------------------------
(* Faulty: the end of the body decodes as one more element. *)
HasNextOrEnd == read = Len(body) \/ (read < Len(body) /\ body[read + 1] \in Decoded)

HasNext == read < Len(body) /\ body[read + 1] \in Decoded

(* An empty script: plain[:len(plain)-1]. *)
NextPanics == read < Len(body) /\ body[read + 1] = "empty"

(* The reader.  A decoding error ends the stream as its end does, and so   *)
(* does a client that has gone.                                            *)
Read ==
  /\ reader = "reading"
  /\ ~NextPanics
  /\ IF HasNext
     THEN reader' = "sending" /\ read' = read + 1
     ELSE reader' = "closed" /\ UNCHANGED read
  /\ UNCHANGED <<request, queue, work, hasError, collector, results, store,
                 run, answer, connected>>

StopReading ==
  /\ reader = "reading"
  /\ opt.stream
  /\ ~connected
  /\ reader' = "closed"
  /\ UNCHANGED <<request, read, queue, work, hasError, collector, results, store,
                 run, answer, connected>>

(* Nobody recovers the panic of the reader: the process ends, the client   *)
(* is cut off and the database rolls back what is open.                    *)
Die ==
  /\ reader = "reading"
  /\ NextPanics
  /\ reader' = "closed"
  /\ queue' = <<>>
  /\ work' = [w \in Workers |-> Idle]
  /\ collector' = "stopped"
  /\ run' = "crashed"
  /\ answer' = IF answer = "none" THEN "dropped" ELSE answer
  /\ connected' = FALSE
  /\ UNCHANGED <<request, read, hasError, results, store>>

(* One turn of the loop of run: the element is received and submitted to   *)
(* the pool, whose queue is as long as it has workers.                     *)
Submit ==
  /\ ~Refused
  /\ run = "running"
  /\ reader = "sending"
  /\ Len(queue) < Cardinality(Pool(opt))
  /\ queue' = Append(queue, read)
  /\ reader' = "reading"
  /\ UNCHANGED <<request, read, work, hasError, collector, results, store,
                 run, answer, connected>>

-----------------------------------------------------------------------------
(* The task of one element.                                                *)

(* Faulty: an earlier failure is not looked at. *)
GoesOnAlways == TRUE

GoesOn == ~hasError \/ opt.cont

(* The task starts: the context, then the flag. *)
Start(w) ==
  /\ w \in Pool(opt)
  /\ work[w].pc = "idle"
  /\ queue # <<>>
  /\ queue' = Tail(queue)
  /\ work' = [work EXCEPT ![w] =
       IF connected /\ GoesOn THEN [pc |-> "process", e |-> Head(queue), st |-> "none"]
                              ELSE [pc |-> "deliver", e |-> Head(queue), st |-> "cancelled"]]
  /\ UNCHANGED <<request, reader, read, hasError, collector, results, store,
                 run, answer, connected>>

(* The rows an element needs are locked by a transaction left open, until  *)
(* the request ends; an atomic bulk is one transaction.                    *)
Waits(e) == body[e] = "sharing" /\ ~opt.atomic /\ left # {}

(* With its connection the transaction of an atomic bulk is gone. *)
Gone == opt.atomic /\ lost # {}

(* The controller applies the element. *)
Accepts(e) == body[e] \in {"accepted", "sharing"} /\ ~Waits(e) /\ ~Gone

(* processElement succeeds. *)
Apply(w) ==
  LET e == work[w].e IN
  /\ work[w].pc = "process"
  /\ Accepts(e)
  /\ applied' = applied \union {e}
  /\ committed' = IF opt.atomic THEN committed ELSE committed \union {e}
  /\ work' = [work EXCEPT ![w] = [pc |-> "deliver", e |-> e, st |-> "ok"]]
  /\ UNCHANGED <<request, reader, read, queue, hasError, collector, results, left, lost,
                 run, answer, connected>>

(* processElement fails: the controller refuses, its context is done, or   *)
(* the transaction of the bulk is gone.                                    *)
Fail(w) ==
  LET e == work[w].e IN
  /\ work[w].pc = "process"
  /\ body[e] = "refused" \/ ~connected \/ Gone
  /\ hasError' = TRUE
  /\ work' = [work EXCEPT ![w] = [pc |-> "deliver", e |-> e, st |-> "error"]]
  /\ UNCHANGED <<request, reader, read, queue, collector, results, store, run, answer, connected>>

(* The connection is lost: processElement fails too, and what it did is    *)
(* undone, unless it was its commit whose answer was lost.                 *)
Lose(w) ==
  LET e == work[w].e IN
  /\ work[w].pc = "process"
  /\ Accepts(e)
  /\ \/ ~opt.atomic /\ applied' = applied \union {e} /\ committed' = committed \union {e}
     \/ UNCHANGED <<applied, committed>>
  /\ lost' = lost \union {e}
  /\ hasError' = TRUE
  /\ work' = [work EXCEPT ![w] = [pc |-> "deliver", e |-> e, st |-> "error"]]
  /\ UNCHANGED <<request, reader, read, queue, collector, results, left, run, answer, connected>>

(* processElement panics: the pool recovers it and the worker goes on.     *)
(* There is no result, no flag and no rollback.                            *)
Panic(w) ==
  LET e == work[w].e IN
  /\ work[w].pc = "process"
  /\ body[e] = "panics"
  /\ ~Gone
  /\ left' = left \union {e}
  /\ work' = [work EXCEPT ![w] = Idle]
  /\ UNCHANGED <<request, reader, read, queue, hasError, collector, results, applied,
                 committed, lost, run, answer, connected>>

(* result <- ...: to the buffer of a JSON bulk, or to the collector of a   *)
(* stream.  Once that has stopped nobody receives.                         *)
Deliver(w) ==
  /\ work[w].pc = "deliver"
  /\ collector = "on"
  /\ results' = Append(results, [e |-> work[w].e, st |-> work[w].st])
  /\ work' = [work EXCEPT ![w] = Idle]
  /\ UNCHANGED <<request, reader, read, queue, hasError, collector, store, run, answer, connected>>

-----------------------------------------------------------------------------
(* The end of run, and what Run makes of it.  The database rolls a         *)
(* transaction back when its context is done: it cannot be committed.      *)

AllDone ==
  /\ run = "running"
  /\ reader = "closed"
  /\ queue = <<>>
  /\ \A w \in Workers : work[w].pc = "idle"

(* Faulty: a transaction is committed whatever happened in it. *)
RollsBackNever == FALSE

RollsBack == hasError

(* Faulty: the channel of the results is not closed. *)
CloseNot == UNCHANGED collector

(* close(result), seen by a collector that still listens. *)
Close == collector' = IF collector = "on" THEN "closed" ELSE collector

(* The commit of an atomic bulk takes with it what its elements left open. *)
(* It fails when the client has gone, and it may fail with its connection, *)
(* done or not.                                                            *)
Finish ==
  /\ ~Refused
  /\ AllDone
  /\ Close
  /\ IF opt.atomic /\ ~RollsBack
     THEN \/ connected /\ run' \in {"ended", "failed"} /\ committed' = applied
          \/ run' = "failed" /\ UNCHANGED committed
     ELSE run' = "ended" /\ UNCHANGED committed
  /\ UNCHANGED <<request, reader, read, queue, work, hasError, results, applied, left, lost,
                 answer, connected>>

(* Faulty: the status is that of the last result. *)
StatusOfLast == IF results # <<>> /\ results[Len(results)].st # "ok" THEN "partial" ELSE "ok"

(* writeJSONResponse: status 400 when a result is an error. *)
StatusOf == IF \E i \in DOMAIN results : results[i].st # "ok" THEN "partial" ELSE "ok"

(* Terminate writes the response; or the error of Run; or nothing to a     *)
(* client that has gone.                                                   *)
Answer ==
  /\ answer = "none"
  /\ \/ /\ run = "ended" /\ collector = "closed"
        /\ answer' = StatusOf
     \/ run = "failed" /\ answer' = "error"
     \/ run = "ended" /\ opt.stream /\ ~connected /\ answer' = "dropped"
  /\ UNCHANGED <<request, reader, read, queue, work, hasError, collector, results,
                 store, run, connected>>

-----------------------------------------------------------------------------
(* The client goes away; the collector of a stream then stops.             *)

Disconnect ==
  /\ connected
  /\ answer = "none"
  /\ connected' = FALSE
  /\ UNCHANGED <<request, reader, read, queue, work, hasError, collector, results,
                 store, run, answer>>

StopCollecting ==
  /\ opt.stream
  /\ ~connected
  /\ collector = "on"
  /\ collector' = "stopped"
  /\ UNCHANGED <<request, reader, read, queue, work, hasError, results, store,
                 run, answer, connected>>

(* Only a text stream holds scripts as such. *)
Init ==
  /\ opt \in Options
  /\ body \in Bodies
  /\ (\E i \in DOMAIN body : body[i] = "empty") => opt.stream
  /\ reader = "reading"
  /\ read = 0
  /\ queue = <<>>
  /\ work = [w \in Workers |-> Idle]
  /\ hasError = FALSE
  /\ collector = "on"
  /\ results = <<>>
  /\ applied = {}
  /\ committed = {}
  /\ left = {}
  /\ lost = {}
  /\ run = "running"
  /\ answer = "none"
  /\ connected = TRUE

Goes(w) == Start(w) \/ Apply(w) \/ Fail(w) \/ Lose(w) \/ Panic(w) \/ Deliver(w)

Next ==
  \/ Refuse \/ Read \/ StopReading \/ Die \/ Submit
  \/ \E w \in Workers : Goes(w)
  \/ Finish \/ Answer \/ Disconnect \/ StopCollecting

Spec == Init /\ [][Next]_vars

(* Goroutines run, the controller answers; the client may stay. *)
FairSpec ==
  /\ Spec
  /\ WF_vars(Refuse) /\ WF_vars(Read \/ Die) /\ WF_vars(Submit)
  /\ WF_vars(Finish) /\ WF_vars(Answer)
  /\ \A w \in Workers : WF_vars(Goes(w))

-----------------------------------------------------------------------------
Status == {"ok", "error", "cancelled"}

TypeOK ==
  /\ reader \in {"reading", "sending", "closed"}
  /\ read \in 0 .. Len(body)
  /\ queue \in Seq(1 .. Len(body))
  /\ work \in [Workers -> [pc : {"idle", "process", "deliver"}, e : 0 .. Len(body),
                           st : Status \union {"none"}]]
  /\ hasError \in BOOLEAN
  /\ collector \in {"on", "stopped", "closed"}
  /\ results \in Seq([e : 1 .. Len(body), st : Status])
  /\ applied \subseteq 1 .. Len(body)
  /\ committed \subseteq applied
  /\ left \union lost \subseteq 1 .. Len(body)
  /\ run \in {"running", "ended", "failed", "crashed"}
  /\ answer \in {"none", "refused", "error", "ok", "partial", "dropped"}
  /\ connected \in BOOLEAN

(* A response has one result for every element that was decoded and did    *)
(* not panic, none for one that did, and, for a bulk that is not parallel, *)
(* they stand in the order of the elements.  writeJSONResponse pairs them  *)
(* by position with the actions, which is right as long as nothing panics. *)
ResultsMatchElements ==
  answer \in {"ok", "partial"} =>
    /\ {results[i].e : i \in DOMAIN results} = (1 .. read) \ left
    /\ \A i, j \in DOMAIN results : results[i].e = results[j].e => i = j
    /\ ~opt.parallel => \A i, j \in DOMAIN results : i < j => results[i].e < results[j].e
    /\ ~opt.parallel /\ left = {} => \A i \in DOMAIN results : results[i].e = i

(* Without continueOnFailure a bulk that is not parallel applies nothing   *)
(* after the first element that is answered with an error, and everything  *)
(* before it but what panicked, which sets no flag.  The element itself is *)
(* applied only if the answer of its commit was lost.                      *)
StopsAtFailure ==
  ~opt.parallel /\ ~opt.cont =>
    \A i \in DOMAIN results : results[i].st = "error" =>
      LET e == results[i].e IN
      /\ applied \ {e} = (1 .. e - 1) \ left
      /\ e \in applied => e \in lost

(* An atomic bulk that has ended is in the database with all the elements  *)
(* decoded that did not panic, and no error among its results, or with     *)
(* none of them.                                                           *)
AllOrNothing ==
  opt.atomic /\ run # "running" =>
    \/ committed = {}
    \/ /\ committed = (1 .. read) \ left
       /\ \A i \in DOMAIN results : results[i].st = "ok"

(* What the response says is what the database holds: status 200 that all  *)
(* elements decoded are there that did not panic, and outside of atomic    *)
(* bulks a success that its element is, and anything else that it is not,  *)
(* unless the answer of its commit was lost.                               *)
AnswerIsTrue ==
  /\ answer = "ok" => committed = (1 .. read) \ left
  /\ answer \in {"ok", "partial"} /\ ~opt.atomic =>
       \A i \in DOMAIN results :
         IF results[i].st = "ok" THEN results[i].e \in committed
                                 ELSE results[i].e \in committed => results[i].e \in lost

(* An element waits for rows that one which panicked keeps locked. *)
Stuck == \E w \in Workers : work[w].pc = "process" /\ Waits(work[w].e)

(* A bulk whose client stays is answered, unless an element of it waits    *)
(* for the transaction another has left open.                              *)
BulkIsAnswered == <>(answer # "none" \/ ~connected \/ Stuck)
=============================================================================
