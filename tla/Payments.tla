------------------------------- MODULE Payments -------------------------------
(***************************************************************************)
(* Payments of the Granville backend: orchestrator, provider runtime,      *)
(* webhook processor, ledger writer and reconciler over one operational    *)
(* store.                                                                  *)
(*                                                                         *)
(* The backend is one Node process: a section of code without await is one *)
(* step, and steps interleave only while a provider or the ledger is       *)
(* awaited.  The store keeps its tables in memory and sends every write to *)
(* PostgreSQL behind, one at a time in the order they were made, so that a *)
(* process that dies leaves in the database the writes up to some point.   *)
(* That point is chosen when it is passed: the database has stalled, the   *)
(* process goes on in memory, and a crash follows.                         *)
(*                                                                         *)
(* Drains of the queues are started by the API methods; a drain claims one *)
(* item after another, so a claim may happen whenever an item is due.      *)
(***************************************************************************)
EXTENDS Naturals, Sequences, FiniteSets, FiniteSetsExt, Functions

CONSTANTS
  Orders,      \* payment orders, created before the behaviour starts
  Attempts,    \* attempt ids (UUIDs) that may be drawn
  OrderOf,     \* [Attempts -> Orders]: the order an id is drawn for
  Hooks,       \* webhook events of the provider, by event id
  Workers,     \* provider calls under way at once
  Writers,     \* ledger calls under way at once
  References,  \* what a provider may give as reference of a payment
  MaxLag,      \* bound: sections of code run after the last write that is kept
  Scenarios    \* bound: how often the events of Events may happen together, at
               \* which kind of provider

Events ==
  {"submit", "cancel", "error", "webhook", "unsigned", "retry", "refuse", "replay", "sync", "crash"}

ProviderStatus == {"accepted", "processing", "completed", "failed", "returned", "cancelled"}

(* What a provider gives as its reference of an attempt, what its webhooks *)
(* name, and the statuses it knows.  airwallex-mapping.ts and              *)
(* mock-emi-provider.ts make a reference of the attempt,                   *)
(* formance-payments-wrapper.ts and mock-bank-provider.ts of the order.    *)
(* The transaction id is always the attempt's.                             *)
Providers == [reference : [Attempts -> References],
              names     : SUBSET {"reference", "transaction", "both"},
              statuses  : SUBSET ProviderStatus]

ASSUME PaymentsAssumption ==
  /\ IsFiniteSet(Attempts)
  /\ OrderOf \in [Attempts -> Orders]
  /\ MaxLag \in Nat
  /\ Scenarios \subseteq [events : [Events -> Nat], provider : Providers]
  /\ \A sc \in Scenarios, a, b \in Attempts :
       sc.provider.reference[a] = sc.provider.reference[b] => OrderOf[a] = OrderOf[b]

MaxRetries == 3

(* Faulty: the provider's own word is kept for a payment it has accepted. *)
PaymentStatusAsGiven == [s \in ProviderStatus |-> s]

(* providerStatusToPaymentStatus *)
PaymentStatus == [s \in ProviderStatus |-> IF s = "accepted" THEN "provider_accepted" ELSE s]

Notices == [a : Attempts, s : ProviderStatus, names : {"reference", "transaction", "both"},
            signed : BOOLEAN]
Of(o) == {a \in Attempts : OrderOf[a] = o}

VARIABLES
  mem,       \* the store's maps
  db,        \* its tables in PostgreSQL
  lag,       \* 0, or 1 + the sections of code run since the database stalled
  left,      \* what remains of the budget
  calls,     \* [Workers -> [pc, a, res]]: executeProviderCommand around its await
  posts,     \* [Writers -> [pc, a, id]]: #post around its await
  provider,  \* external: what the provider made of each attempt's request id
  kind,      \* external: the kind of provider, one of Providers
  notice,    \* external: what each webhook event says, {} before it is sent
  ledger     \* external: transactions of the ledger, [a, key]

vars == <<mem, db, lag, left, calls, posts, provider, kind, notice, ledger>>
store == <<mem, db, lag>>
external == <<provider, kind, notice, ledger>>

Spend(e) == left[e] > 0 /\ left' = [left EXCEPT ![e] = @ - 1]

Idle == [pc |-> "idle", a |-> 0, res |-> "none"]
IdlePost == [pc |-> "idle", a |-> 0, id |-> 0]

Empty ==
  [order    |-> [o \in Orders |-> "created"],
   attempt  |-> [a \in Attempts |-> [st |-> "absent", ref |-> FALSE, at |-> 0]],
   command  |-> [a \in Attempts |-> [st |-> "absent", n |-> 0]],
   tx       |-> [a \in Attempts |-> [st |-> "absent", of |-> {}, ref |-> FALSE]],
   posting  |-> [a \in Attempts |-> [st |-> "absent", n |-> 0, id |-> 0]],
   webhook  |-> [h \in Hooks |-> "absent"]]

-----------------------------------------------------------------------------
(* Writes.                                                                 *)

W(t, id, row) == [t |-> t, id |-> id, row |-> row]

(* The tables s after the first k of the writes ws. *)
Apply(s, ws, k) ==
  [t \in DOMAIN s |-> [id \in DOMAIN s[t] |->
     LET written == {i \in 1 .. k : ws[i].t = t /\ ws[i].id = id} IN
     IF written = {} THEN s[t][id] ELSE ws[Max(written)].row]]

(* The database keeps a transaction's attempt and reference where the row  *)
(* written has none (COALESCE); the map does not.                          *)
Save(s, ws, k) ==
  LET m == Apply(s, ws, k) IN
  [m EXCEPT !.tx = [a \in Attempts |->
     [m.tx[a] EXCEPT !.of = IF m.tx[a].of = {} THEN s.tx[a].of ELSE m.tx[a].of,
                     !.ref = m.tx[a].ref \/ s.tx[a].ref]]]

(* The writes ws of one section of code: all of them in memory at once,    *)
(* and in the database all of them, or none any more, or the first few.    *)
Perform(ws) ==
  /\ mem' = Apply(mem, ws, Len(ws))
  /\ \/ lag = 0 /\ db' = Save(db, ws, Len(ws)) /\ lag' = 0
     \/ /\ lag = 0 /\ lag' = 1
        /\ left["crash"] > 0
        /\ \E k \in 0 .. Len(ws) - 1 : db' = Save(db, ws, k)
     \/ lag \in 1 .. MaxLag /\ lag' = lag + 1 /\ UNCHANGED db

(* enqueueLedgerPosting of the posting with key payment:order:attempt. *)
EnqueuePosting(a) ==
  IF mem.posting[a].st = "absent"
  THEN <<W("posting", a, [st |-> "pending", n |-> 0, id |-> left["crash"]])>>
  ELSE <<>>

(* What a provider status s of attempt a changes: the attempt, then the    *)
(* order, then what follows from it.                                       *)
StatusWrites(a, s, ref) ==
  <<W("attempt", a, [st |-> PaymentStatus[s], ref |-> ref, at |-> mem.attempt[a].at]),
    W("order", OrderOf[a], PaymentStatus[s])>>

(* recordProviderTransaction of a's transaction, for the attempts of. *)
TxWrite(a, s, of, ref) == W("tx", a, [st |-> s, of |-> of, ref |-> ref])

-----------------------------------------------------------------------------
(* Finding an attempt: the first of the store's map with the reference, or *)
(* with the transaction id.  Both are recorded when the provider has       *)
(* answered, never before.                                                 *)

Alike(a) == {b \in Attempts : kind.reference[b] = kind.reference[a]}

Carriers(a, names) ==
  {b \in IF names = "transaction" THEN {a} ELSE Alike(a) : mem.attempt[b].ref}

(* findPaymentAttempt, findAttemptForProviderTransaction: b is what the    *)
(* lookup with the identifiers of a returns.                               *)
IsFound(b, a, names) ==
  /\ b \in Carriers(a, names)
  /\ \A c \in Carriers(a, names) : mem.attempt[b].at <= mem.attempt[c].at

-----------------------------------------------------------------------------
(* Orchestrator.                                                           *)

Present == Cardinality({a \in Attempts : mem.attempt[a].st # "absent"})

(* The writes of submitPayment: createPaymentAttempt updates the order     *)
(* before it inserts the attempt, then the command is enqueued.            *)
SubmitWrites(a) ==
  <<W("order", OrderOf[a], "submitted_to_provider"),
    W("attempt", a, [st |-> "submitted_to_provider", ref |-> FALSE, at |-> Present + 1]),
    W("command", a, [st |-> "pending", n |-> 0])>>

Fresh(a) == mem.attempt[a].st = "absent" /\ provider[a] = "none"

(* submitPayment, approvePayment: from any status of the order. *)
Submit(a) ==
  /\ Fresh(a)
  /\ Perform(SubmitWrites(a))
  /\ Spend("submit")
  /\ UNCHANGED <<calls, posts, external>>

(* cancelPayment, rejectPayment: a queued command stays queued. *)
Cancel(o) ==
  /\ mem.order[o] # "completed"
  /\ Perform(<<W("order", o, "cancelled")>>)
  /\ Spend("cancel")
  /\ UNCHANGED <<calls, posts, external>>

(* retryPayment *)
Retry(a) ==
  /\ mem.order[OrderOf[a]] \in {"failed", "returned", "cancelled"}
  /\ Fresh(a)
  /\ Perform(<<W("order", OrderOf[a], "created")>> \o SubmitWrites(a))
  /\ Spend("submit")
  /\ UNCHANGED <<calls, posts, external>>

(* retryPayment when the router finds no provider and throws. *)
RetryRefused(o) ==
  /\ mem.order[o] \in {"failed", "returned", "cancelled"}
  /\ Perform(<<W("order", o, "created")>>)
  /\ Spend("error")
  /\ UNCHANGED <<calls, posts, external>>

-----------------------------------------------------------------------------
(* Provider runtime.                                                       *)

(* markProviderCommandFailed, and #markAttemptAndOrderFailed when it gave  *)
(* the command up.                                                         *)
FailWrites(a) ==
  LET n == mem.command[a].n + 1 IN
  IF n < MaxRetries
  THEN <<W("command", a, [st |-> "pending", n |-> n])>>
  ELSE <<W("command", a, [st |-> "dead_lettered", n |-> n]),
         W("attempt", a, [mem.attempt[a] EXCEPT !.st = "failed"]),
         W("order", OrderOf[a], "failed")>>

(* runOnce while the provider binding is disabled. *)
RunDisabled(a) ==
  /\ mem.command[a].st = "pending"
  /\ Perform(<<W("command", a, [mem.command[a] EXCEPT !.st = "processing"])>> \o FailWrites(a))
  /\ Spend("error")
  /\ UNCHANGED <<calls, posts, external>>

(* The attempt was answered before, and its reference is on a transaction  *)
(* that is not recorded as its own.                                        *)
Duplicate(a) ==
  /\ mem.attempt[a].ref
  /\ \E b \in Alike(a) : mem.tx[b].ref /\ a \notin mem.tx[b].of

(* runOnce up to the await of initiatePayment, or to the error thrown for  *)
(* a duplicate.                                                            *)
Claim(w, a) ==
  /\ calls[w].pc = "idle"
  /\ mem.command[a].st = "pending"
  /\ Perform(<<W("command", a, [mem.command[a] EXCEPT !.st = "processing"])>>)
  /\ calls' = [calls EXCEPT ![w] = [pc |-> IF Duplicate(a) THEN "duplicate" ELSE "sent",
                                    a |-> a, res |-> "none"]]
  /\ UNCHANGED <<left, posts, external>>

(* The statuses of a payment the provider has not settled. *)
Unsettled == {"accepted", "processing"}

(* initiatePayment at the provider, which knows a repeated request by its  *)
(* id, the attempt's, and answers with the payment's present status.       *)
Execute(w) ==
  LET a == calls[w].a IN
  /\ calls[w].pc = "sent"
  /\ \E s \in kind.statuses :
       /\ \/ provider[a] = "none" /\ s # "returned"
          \/ provider[a] = "open" /\ s \in Unsettled
          \/ provider[a] = s
       /\ provider' = [provider EXCEPT ![a] = IF s \in Unsettled THEN "open" ELSE s]
       /\ calls' = [calls EXCEPT ![w].pc = "answered", ![w].res = s]
  /\ UNCHANGED <<left, store, posts, kind, notice, ledger>>

(* The request, or its answer, is lost, or the provider refuses it. *)
CallFails(w) ==
  /\ calls[w].pc \in {"sent", "answered"}
  /\ calls' = [calls EXCEPT ![w].pc = "error"]
  /\ Spend("error")
  /\ UNCHANGED <<store, posts, external>>

(* Faulty: the command is marked completed before its effects are stored. *)
CompleteWritesMarkFirst(a, s) ==
  <<W("command", a, [mem.command[a] EXCEPT !.st = "completed"])>>
    \o StatusWrites(a, s, TRUE)
    \o <<TxWrite(a, s, {a}, TRUE)>>
    \o (IF s = "completed" THEN EnqueuePosting(a) ELSE <<>>)

(* The writes of executeProviderCommand after its await, and the final     *)
(* markProviderCommandCompleted.                                           *)
CompleteWrites(a, s) ==
  StatusWrites(a, s, TRUE)
    \o <<TxWrite(a, s, {a}, TRUE)>>
    \o (IF s = "completed" THEN EnqueuePosting(a) ELSE <<>>)
    \o <<W("command", a, [mem.command[a] EXCEPT !.st = "completed"])>>

Complete(w) ==
  /\ calls[w].pc = "answered"
  /\ Perform(CompleteWrites(calls[w].a, calls[w].res))
  /\ calls' = [calls EXCEPT ![w] = Idle]
  /\ UNCHANGED <<left, posts, external>>

(* The catch of runOnce for an error that is not transient. *)
FailCommand(w) ==
  /\ calls[w].pc \in {"error", "duplicate"}
  /\ Perform(FailWrites(calls[w].a))
  /\ calls' = [calls EXCEPT ![w] = Idle]
  /\ UNCHANGED <<left, posts, external>>

(* markProviderCommandTransient, which PostgresGranvilleStore does not     *)
(* override: the database keeps the command in processing.                 *)
TransientError(w) ==
  /\ calls[w].pc = "error"
  /\ mem' = [mem EXCEPT !.command[calls[w].a].st = "pending"]
  /\ calls' = [calls EXCEPT ![w] = Idle]
  /\ UNCHANGED <<left, db, lag, posts, external>>

(* The provider goes on with a payment it has accepted. *)
Settle(a) ==
  /\ \E s \in kind.statuses \ Unsettled :
       /\ provider[a] = (IF s = "returned" THEN "completed" ELSE "open")
       /\ provider' = [provider EXCEPT ![a] = s]
  /\ UNCHANGED <<left, store, calls, posts, kind, notice, ledger>>

(* The statuses a payment has gone through, as far as one can tell. *)
Reached(a) ==
  kind.statuses \intersect
    (CASE provider[a] = "none" -> {}
       [] provider[a] = "open" -> Unsettled
       [] provider[a] = "returned" -> Unsettled \union {"completed", "returned"}
       [] OTHER -> Unsettled \union {provider[a]})

-----------------------------------------------------------------------------
(* Webhooks.  The provider reports each status a payment goes through,     *)
(* late, in any order, under one event id or several.  A body whose        *)
(* signature does not verify may say anything.  (A body that names no      *)
(* known attempt or status leaves everything but itself alone.)            *)

(* postWebhook: an event already received is dropped, by its id. *)
PostWebhook(h, n) ==
  /\ mem.webhook[h] = "absent"
  /\ notice[h] \subseteq {n}
  /\ Spend(IF n.signed THEN "webhook" ELSE "unsigned")
  /\ n.names \in kind.names /\ n.s \in kind.statuses
  /\ n.signed => n.s \in Reached(n.a)
  /\ notice' = [notice EXCEPT ![h] = {n}]
  /\ Perform(<<W("webhook", h, IF n.signed THEN "queued" ELSE "ignored")>>)
  /\ UNCHANGED <<calls, posts, provider, kind, ledger>>

(* Faulty: a webhook does not reach the order. *)
ProcessWritesOfAttempt(b, n) ==
  <<W("attempt", b, [st |-> PaymentStatus[n.s], ref |-> TRUE, at |-> mem.attempt[b].at])>>
    \o (IF n.s = "completed" THEN EnqueuePosting(b) ELSE <<>>)

(* What the notice n changes when b is the attempt that was found. *)
ProcessWrites(b, n) ==
  StatusWrites(b, n.s, TRUE)
    \o (IF n.s = "completed" THEN EnqueuePosting(b) ELSE <<>>)
    \o (IF n.names = "reference" THEN <<>>
        ELSE <<TxWrite(n.a, n.s, {b}, n.names = "both")>>)

(* runOnce of the webhook processor: no await, so one step. *)
ProcessWebhook(h) ==
  /\ mem.webhook[h] = "queued"
  /\ \E n \in notice[h], b \in Attempts :
       /\ IsFound(b, n.a, n.names)
       /\ Perform(<<W("webhook", h, "processing")>> \o ProcessWrites(b, n)
                    \o <<W("webhook", h, "processed")>>)
  /\ UNCHANGED <<left, calls, posts, external>>

(* The same when no attempt is found. *)
IgnoreWebhook(h) ==
  /\ mem.webhook[h] = "queued"
  /\ \A n \in notice[h] : Carriers(n.a, n.names) = {}
  /\ Perform(<<W("webhook", h, "processing"), W("webhook", h, "ignored")>>)
  /\ UNCHANGED <<left, calls, posts, external>>

(* adminRetryWebhook, whatever the webhook was ignored for. *)
RetryWebhook(h) ==
  /\ mem.webhook[h] = "ignored"
  /\ Perform(<<W("webhook", h, "queued")>>)
  /\ Spend("retry")
  /\ UNCHANGED <<calls, posts, external>>

-----------------------------------------------------------------------------
(* Ledger writer.                                                          *)

(* postPending at a due item, up to the await of fetch.  Two writers may   *)
(* take the same item.                                                     *)
Post(v, a) ==
  /\ posts[v].pc = "idle"
  /\ mem.posting[a].st \in {"pending", "failed"}
  /\ posts' = [posts EXCEPT ![v] = [pc |-> "sent", a |-> a, id |-> mem.posting[a].id]]
  /\ UNCHANGED <<left, store, calls, external>>

(* Faulty: the id drawn when the posting was enqueued is the key. *)
IdempotencyKeyOfItem(a, id) == <<a, id>>

(* The Idempotency-Key header: the posting's key, not its id. *)
IdempotencyKey(a, id) == <<a, 0>>

(* POST /v2/{ledger}/transactions: a known key answers the transaction it  *)
(* was created with.                                                       *)
LedgerPosts(v) ==
  LET k == IdempotencyKey(posts[v].a, posts[v].id) IN
  /\ posts[v].pc = "sent"
  /\ ledger' = IF \E e \in ledger : e.key = k
               THEN ledger ELSE ledger \union {[a |-> posts[v].a, key |-> k]}
  /\ posts' = [posts EXCEPT ![v].pc = "ok"]
  /\ UNCHANGED <<left, store, calls, provider, kind, notice>>

(* The ledger refuses the transaction, or the call or its answer is lost. *)
PostFails(v) ==
  /\ posts[v].pc \in {"sent", "ok"}
  /\ posts' = [posts EXCEPT ![v].pc = "error"]
  /\ Spend("refuse")
  /\ UNCHANGED <<store, calls, external>>

(* markLedgerPosted *)
MarkPosted(v) ==
  LET a == posts[v].a IN
  /\ posts[v].pc = "ok"
  /\ Perform(<<W("posting", a, [mem.posting[a] EXCEPT !.st = "posted"])>>)
  /\ posts' = [posts EXCEPT ![v] = IdlePost]
  /\ UNCHANGED <<left, calls, external>>

(* Faulty: the answer is not looked at. *)
FailedPostingAsPosted(row) == [row EXCEPT !.st = "posted"]

(* markLedgerFailed, whatever became of the item meanwhile.  The retry     *)
(* count, never reset, is kept at MaxRetries: larger ones act alike.       *)
FailedPosting(row) ==
  LET n == row.n + 1 IN
  IF n >= MaxRetries THEN [row EXCEPT !.st = "dead_lettered", !.n = MaxRetries]
                     ELSE [row EXCEPT !.st = "failed", !.n = n]

MarkFailed(v) ==
  LET a == posts[v].a IN
  /\ posts[v].pc = "error"
  /\ Perform(<<W("posting", a, FailedPosting(mem.posting[a]))>>)
  /\ posts' = [posts EXCEPT ![v] = IdlePost]
  /\ UNCHANGED <<left, calls, external>>

(* resetLedgerPosting (adminRetryLedgerPosting), from any status. *)
Replay(a) ==
  /\ mem.posting[a].st \notin {"absent", "pending"}
  /\ Perform(<<W("posting", a, [mem.posting[a] EXCEPT !.st = "pending"])>>)
  /\ Spend("replay")
  /\ UNCHANGED <<calls, posts, external>>

-----------------------------------------------------------------------------
(* Reconciler.                                                             *)

(* One transaction of syncProviderTransactions: the list was fetched       *)
(* before an await, so its status may be an earlier one.                   *)
SyncTransaction(a, s) ==
  /\ s \in Reached(a)
  /\ LET of == {b \in Attempts : IsFound(b, a, "both")} IN
       /\ mem.tx[a] # [st |-> s, of |-> of, ref |-> TRUE]
       /\ Perform(<<TxWrite(a, s, of, TRUE)>>)
  /\ Spend("sync")
  /\ UNCHANGED <<calls, posts, external>>

Transactions(o) == {a \in Attempts : mem.tx[a].st # "absent" /\ mem.tx[a].of \cap Of(o) # {}}
Posted(o) == {a \in Of(o) : mem.posting[a].st = "posted"}

(* The per-order checks of runTransactionLevel that find an exception      *)
(* (stale orders, which depend on the clock, and amounts aside).           *)
Exceptions(o) ==
  {c \in {"missing_provider_transaction", "ledger_posting_missing", "status_mismatch"} :
     CASE c = "missing_provider_transaction" -> mem.order[o] = "completed" /\ Transactions(o) = {}
       [] c = "ledger_posting_missing" -> mem.order[o] = "completed" /\ Posted(o) = {}
       [] c = "status_mismatch" ->
            \E a \in Transactions(o) :
              mem.tx[a].st \in {"completed", "failed"} /\ mem.tx[a].st # mem.order[o]}

(* matchStatus of the record kept for the order. *)
Matched(o) == Exceptions(o) = {} /\ Transactions(o) # {} /\ Posted(o) # {}

-----------------------------------------------------------------------------
(* The end of the process, and initialize of the next one.                 *)

(* #loadFromDatabase resets what was being processed.  The attempts come   *)
(* in no particular order, so that the map has another one.                *)
Recovered(s, at) ==
  [s EXCEPT
     !.attempt = [a \in Attempts |-> IF a \in DOMAIN at THEN [@[a] EXCEPT !.at = at[a]] ELSE @[a]],
     !.command = [a \in Attempts |->
        IF @[a].st = "processing" THEN [@[a] EXCEPT !.st = "pending"] ELSE @[a]],
     !.webhook = [h \in Hooks |-> IF @[h] = "processing" THEN "queued" ELSE @[h]]]

Crash ==
  /\ Spend("crash")
  /\ LET loaded == {a \in Attempts : db.attempt[a].st # "absent"} IN
       \E at \in Bijection(loaded, 1 .. Cardinality(loaded)) :
         /\ mem' = Recovered(db, at)
         /\ db' = Recovered(db, at)
  /\ lag' = 0
  /\ calls' = [w \in Workers |-> Idle]
  /\ posts' = [v \in Writers |-> IdlePost]
  /\ UNCHANGED external

Init ==
  /\ mem = Empty
  /\ db = Empty
  /\ lag = 0
  /\ \E sc \in Scenarios : left = sc.events /\ kind = sc.provider
  /\ calls = [w \in Workers |-> Idle]
  /\ posts = [v \in Writers |-> IdlePost]
  /\ provider = [a \in Attempts |-> "none"]
  /\ notice = [h \in Hooks |-> {}]
  /\ ledger = {}

Next ==
  \/ \E o \in Orders : Cancel(o) \/ RetryRefused(o)
  \/ \E a \in Attempts : Submit(a) \/ Retry(a) \/ RunDisabled(a) \/ Settle(a) \/ Replay(a)
  \/ \E w \in Workers, a \in Attempts : Claim(w, a)
  \/ \E w \in Workers :
       Execute(w) \/ CallFails(w) \/ Complete(w) \/ FailCommand(w) \/ TransientError(w)
  \/ \E h \in Hooks, n \in Notices : PostWebhook(h, n)
  \/ \E h \in Hooks : ProcessWebhook(h) \/ IgnoreWebhook(h) \/ RetryWebhook(h)
  \/ \E a \in Attempts, s \in ProviderStatus : SyncTransaction(a, s)
  \/ \E v \in Writers, a \in Attempts : Post(v, a)
  \/ \E v \in Writers : LedgerPosts(v) \/ PostFails(v) \/ MarkPosted(v) \/ MarkFailed(v)
  \/ Crash

Spec == Init /\ [][Next]_vars

-----------------------------------------------------------------------------
OrderStatus ==
  {"created", "submitted_to_provider", "provider_accepted", "processing", "completed",
   "failed", "returned", "cancelled"}

Tables ==
  [order   : [Orders -> OrderStatus],
   attempt : [Attempts -> [st : OrderStatus \union {"absent"}, ref : BOOLEAN, at : Nat]],
   command : [Attempts -> [st : {"absent", "pending", "processing", "completed", "dead_lettered"},
                           n : 0 .. MaxRetries]],
   tx      : [Attempts -> [st : ProviderStatus \union {"absent"}, of : SUBSET Attempts,
                           ref : BOOLEAN]],
   posting : [Attempts -> [st : {"absent", "pending", "posted", "failed", "dead_lettered"},
                           n : 0 .. MaxRetries, id : Nat]],
   webhook : [Hooks -> {"absent", "queued", "processing", "processed", "ignored"}]]

TypeOK ==
  /\ mem \in Tables
  /\ db \in Tables
  /\ lag \in 0 .. MaxLag + 1
  /\ left \in [Events -> Nat]
  /\ notice \in [Hooks -> SUBSET Notices]

(* Somebody said that attempt a was completed: its provider, or a webhook  *)
(* whose signature did not verify.                                         *)
SaidCompleted(a) ==
  \/ "completed" \in Reached(a)
  \/ \E h \in Hooks : \E n \in notice[h] : n.a = a /\ n.s = "completed" /\ ~n.signed

(* Whatever is delivered twice, retried by two writers at once or done     *)
(* again after a crash, the ledger holds at most one transaction for an    *)
(* attempt, and only if a completion was reported of an attempt with the   *)
(* same reference: of the attempt itself, where a provider gives each its  *)
(* own.                                                                    *)
LedgerMirrorsProvider ==
  \A e \in ledger :
    /\ \E b \in Alike(e.a) : SaidCompleted(b)
    /\ \A f \in ledger : f.a = e.a => f = e

(* Work on attempt a that a drain will still take up. *)
Open(a) ==
  \/ mem.command[a].st \in {"pending", "processing"}
  \/ \E h \in Hooks : mem.webhook[h] = "queued" /\ \E n \in notice[h] : n.a = a

(* Attempts whose command is among the dead letters that operators see. *)
GivenUp(a) == mem.command[a].st = "dead_lettered"

(* An attempt the backend shows as completed has its ledger posting, or    *)
(* the command or the webhook that will enqueue one, or is a dead letter:  *)
(* no crash between the writes of a handler leaves a completed payment out *)
(* of the ledger unnoticed.  Where attempts share a reference, the posting *)
(* or the work may be that of another of them.                             *)
NoLostPosting ==
  \A a \in Attempts :
    mem.attempt[a].st = "completed" =>
      \E b \in Alike(a) : mem.posting[b].st # "absent" \/ Open(b) \/ GivenUp(b)

(* The status an order owes to its provider is the status of one of its    *)
(* attempts, unless work on one of them is still open, or was given up.    *)
OrderFollowsAttempts ==
  \A o \in Orders :
    mem.order[o] \in {"provider_accepted", "processing", "completed", "returned"} =>
      \E a \in Of(o) : mem.attempt[a].st = mem.order[o] \/ Open(a) \/ GivenUp(a)

(* An order the reconciler records as matched is in the ledger, and a      *)
(* completion of one of its attempts was reported, also when its records   *)
(* were cut short by a crash.                                              *)
MatchedIsReal ==
  \A o \in Orders : Matched(o) =>
    /\ \E e \in ledger : OrderOf[e.a] = o
    /\ \E a \in Of(o) : SaidCompleted(a)
=============================================================================
