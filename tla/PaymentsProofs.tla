--------------------------- MODULE PaymentsProofs ----------------------------
(***************************************************************************)
(* For any orders and attempts, any provider that gives no reference to    *)
(* two orders, any numbers of provider calls and ledger calls at once, and *)
(* any number of errors, webhooks, replays and crashes: what the tables of *)
(* the operational store say of the provider and of the ledger was         *)
(* reported, in memory and after every crash.                              *)
(***************************************************************************)
EXTENDS Payments, FiniteSetTheorems, TLAPS

(***************************************************************************)
(* The invariant.  Its main part, Sound, is a predicate on a set of        *)
(* tables: it holds of what is in memory and of what is in the database,   *)
(* and therefore of every prefix of the writes of a section of code.       *)
(***************************************************************************)
Active == {"pending", "processing"}
Owed == {"provider_accepted", "processing", "completed", "returned"}
Outcomes == {"none", "open", "completed", "failed", "returned", "cancelled"}

(* A completion was reported of an attempt with a's reference.             *)
Vouched(a) == \E b \in Alike(a) : SaidCompleted(b)

(* The attempts that the notice n may be about, as far as the store can    *)
(* tell once their references are recorded.                                *)
Target(n) == IF n.names = "transaction" THEN {n.a} ELSE Alike(n.a)

(* What a row says of other rows, of the provider and of the ledger.       *)
Grounded(s) ==
  \A a \in Attempts :
    /\ s.command[a].st # "absent" => s.attempt[a].st # "absent"
    /\ s.command[a].st \in Active => s.command[a].n < MaxRetries
    /\ s.attempt[a].st \in Owed => s.attempt[a].ref
    /\ s.attempt[a].ref => s.attempt[a].st # "absent"
    /\ s.posting[a].st # "absent" => Vouched(a)
    /\ s.posting[a].st = "posted" => \E e \in ledger : e.a = a

(* Work on attempt a that is under way, will be resumed, or was given up:  *)
(* its command, or a webhook that brings the status x.                     *)
CommandOpen(s, a) == s.command[a].st \in Active \union {"dead_lettered"}
HookOpen(s, h) == s.webhook[h] \in {"queued", "processing"}
WebhookOpen(s, a, x) ==
  \E h \in Hooks : HookOpen(s, h) /\ \E n \in notice[h] : a \in Target(n) /\ n.s = x

PostingKept(s) ==
  \A a \in Attempts :
    s.attempt[a].st = "completed" =>
      \/ \E b \in Alike(a) : s.posting[b].st # "absent"
      \/ CommandOpen(s, a)
      \/ WebhookOpen(s, a, "completed")

OrderKept(s) ==
  \A o \in Orders :
    s.order[o] \in Owed =>
      \E a \in Of(o) :
        \/ s.attempt[a].st = s.order[o]
        \/ CommandOpen(s, a)
        \/ s.attempt[a].ref /\ \E x \in ProviderStatus : WebhookOpen(s, a, x)

Sound(s) == s \in Tables /\ Grounded(s) /\ PostingKept(s) /\ OrderKept(s)

(* Tables that differ in the commands put back by TransientError, and in   *)
(* what the provider's transactions are of, only.                          *)
Similar(s, m) ==
  /\ s.order = m.order /\ s.attempt = m.attempt
  /\ s.posting = m.posting /\ s.webhook = m.webhook
  /\ \A a \in Attempts :
       \/ s.command[a] = m.command[a]
       \/ m.command[a].st = "pending" /\ s.command[a] = [m.command[a] EXCEPT !.st = "processing"]

(* An event says one thing, and a signed one what is true.                 *)
NoticesOK ==
  /\ notice \in [Hooks -> SUBSET Notices]
  /\ \A h \in Hooks : \A n \in notice[h] :
       notice[h] = {n} /\ (n.signed => n.s \in Reached(n.a))

KindOK ==
  /\ kind.statuses \subseteq ProviderStatus
  /\ \A a, b \in Attempts : kind.reference[a] = kind.reference[b] => OrderOf[a] = OrderOf[b]

ExternalOK == provider \in [Attempts -> Outcomes] /\ KindOK /\ NoticesOK

(* A command under way is marked so, and nobody else works on it; its      *)
(* answer is a status the payment has had.                                 *)
Call == [pc : {"idle", "sent", "answered", "error", "duplicate"}, a : Attempts \union {0},
         res : ProviderStatus \union {"none"}]

CallsOK ==
  /\ calls \in [Workers -> Call]
  /\ \A w \in Workers : calls[w].pc # "idle" =>
       /\ calls[w].a \in Attempts
       /\ mem.command[calls[w].a].st = "processing"
       /\ calls[w].pc = "answered" => calls[w].res \in Reached(calls[w].a)
       /\ \A v \in Workers : calls[v].pc # "idle" /\ calls[v].a = calls[w].a => v = w

(* A posting under way is of a payment reported completed, and is in the   *)
(* ledger once that has answered.                                          *)
PostsOK ==
  /\ posts \in [Writers -> [pc : {"idle", "sent", "ok", "error"}, a : Attempts \union {0}, id : Nat]]
  /\ \A v \in Writers : posts[v].pc # "idle" =>
       /\ posts[v].a \in Attempts
       /\ Vouched(posts[v].a)
       /\ posts[v].pc = "ok" => \E e \in ledger : e.a = posts[v].a

LedgerOK ==
  \A e \in ledger :
    e.a \in Attempts /\ e = [a |-> e.a, key |-> <<e.a, 0>>] /\ Vouched(e.a)

IInv ==
  /\ ExternalOK
  /\ lag \in 0 .. MaxLag + 1
  /\ left \in [Events -> Nat]
  /\ Sound(mem)
  /\ \A h \in Hooks : mem.webhook[h] # "processing"
  /\ Sound(db)
  /\ lag = 0 => Similar(db, mem)
  /\ CallsOK
  /\ PostsOK
  /\ LedgerOK

-----------------------------------------------------------------------------
(* Writes, one at a time.                                                  *)

Put(s, w) ==
  [t \in DOMAIN s |-> [id \in DOMAIN s[t] |->
     IF w.t = t /\ w.id = id THEN w.row ELSE s[t][id]]]

(* The largest element of a set that has its upper bound.                  *)
LEMMA MaxIsLast ==
  ASSUME NEW k \in Nat, NEW S \in SUBSET (1 .. k), k \in S
  PROVE  Max(S) = k
<1>1. k \in S /\ \A y \in S : k >= y
  OBVIOUS
<1>2. ASSUME NEW x \in S, \A y \in S : x >= y PROVE x = k
  BY <1>1, <1>2
<1>. QED BY <1>1, <1>2 DEF Max

(* No write changes nothing.                                               *)
LEMMA ApplyNone ==
  ASSUME NEW s \in Tables, NEW ws
  PROVE  Apply(s, ws, 0) = s
<1>1. \A t, id : {i \in 1 .. 0 : ws[i].t = t /\ ws[i].id = id} = {}
  OBVIOUS
<1>2. Apply(s, ws, 0) = [t \in DOMAIN s |-> [id \in DOMAIN s[t] |-> s[t][id]]]
  BY <1>1 DEF Apply
<1>3. \A t \in DOMAIN s : s[t] = [id \in DOMAIN s[t] |-> s[t][id]]
  BY DEF Tables
<1>4. s = [t \in DOMAIN s |-> s[t]]
  BY DEF Tables
<1>. QED BY <1>2, <1>3, <1>4

(* The last of the writes wins.                                            *)
LEMMA ApplyOne ==
  ASSUME NEW s, NEW ws, NEW k \in Nat
  PROVE  Apply(s, ws, k + 1) = Put(Apply(s, ws, k), ws[k + 1])
<1>. DEFINE Hits(t, id, n) == {i \in 1 .. n : ws[i].t = t /\ ws[i].id = id}
            At(n, t, id) == IF Hits(t, id, n) = {} THEN s[t][id] ELSE ws[Max(Hits(t, id, n))].row
<1>1. \A n : Apply(s, ws, n) = [t \in DOMAIN s |-> [id \in DOMAIN s[t] |-> At(n, t, id)]]
  BY DEF Apply
<1>2. ASSUME NEW t, NEW id
      PROVE  At(k + 1, t, id) = IF ws[k + 1].t = t /\ ws[k + 1].id = id THEN ws[k + 1].row ELSE At(k, t, id)
  <2>1. CASE ws[k + 1].t = t /\ ws[k + 1].id = id
    <3>1. k + 1 \in Hits(t, id, k + 1) /\ Hits(t, id, k + 1) \in SUBSET (1 .. k + 1)
      BY <2>1
    <3>2. Max(Hits(t, id, k + 1)) = k + 1
      BY <3>1, MaxIsLast
    <3>. QED BY <2>1, <3>1, <3>2
  <2>2. CASE ~(ws[k + 1].t = t /\ ws[k + 1].id = id)
    <3>1. Hits(t, id, k + 1) = Hits(t, id, k)
      BY <2>2
    <3>. QED BY <2>2, <3>1
  <2>. QED BY <2>1, <2>2
<1>. HIDE DEF At
<1>. QED BY <1>1, <1>2 DEF Put

(* Tables that are similar stay so under the same writes.                  *)
LEMMA ApplySimilar ==
  ASSUME NEW s \in Tables, NEW m \in Tables, NEW ws, NEW k \in Nat, Similar(s, m)
  PROVE  Similar(Apply(s, ws, k), Apply(m, ws, k))
<1>. DEFINE Hits(t, id) == {i \in 1 .. k : ws[i].t = t /\ ws[i].id = id}
            New(t, id) == ws[Max(Hits(t, id))].row
            Table(f, t) == [id \in DOMAIN f |-> IF Hits(t, id) = {} THEN f[id] ELSE New(t, id)]
<1>1. \A x \in Tables : Apply(x, ws, k) = [t \in DOMAIN x |-> Table(x[t], t)]
  BY DEF Apply
<1>2. \A f : \A id \in DOMAIN f :
        Table(f, "command")[id] = IF Hits("command", id) = {} THEN f[id] ELSE New("command", id)
  OBVIOUS
<1>. HIDE DEF Hits, New, Table
<1>3. \A x \in Tables : DOMAIN x = {"order", "attempt", "command", "tx", "posting", "webhook"}
                       /\ DOMAIN x.command = Attempts
  BY DEF Tables
<1>4. \A x \in Tables :
        /\ Apply(x, ws, k).order = Table(x.order, "order")
        /\ Apply(x, ws, k).attempt = Table(x.attempt, "attempt")
        /\ Apply(x, ws, k).command = Table(x.command, "command")
        /\ Apply(x, ws, k).tx = Table(x.tx, "tx")
        /\ Apply(x, ws, k).posting = Table(x.posting, "posting")
        /\ Apply(x, ws, k).webhook = Table(x.webhook, "webhook")
  BY <1>1, <1>3
<1>. QED BY <1>2, <1>3, <1>4 DEF Similar

-----------------------------------------------------------------------------
(* Which single writes keep tables sound.                                  *)

(* Rows of provider transactions: nothing depends on them.                 *)
LEMMA SoundTx ==
  ASSUME NEW s, Sound(s), NEW a \in Attempts,
         NEW r \in [st : ProviderStatus \union {"absent"}, of : SUBSET Attempts, ref : BOOLEAN]
  PROVE  LET q == Put(s, W("tx", a, r)) IN
         /\ Sound(q)
         /\ q.order = s.order /\ q.attempt = s.attempt /\ q.command = s.command
         /\ q.posting = s.posting /\ q.webhook = s.webhook
<1>. DEFINE q == Put(s, W("tx", a, r))
<1>1. q \in Tables
  BY DEF Put, W, Sound, Tables
<1>2. q.order = s.order /\ q.attempt = s.attempt /\ q.command = s.command
      /\ q.posting = s.posting /\ q.webhook = s.webhook
  BY DEF Put, W, Sound, Tables
<1>. HIDE DEF q
<1>3. Grounded(q)
  BY <1>2 DEF Sound, Grounded
<1>4. (\A b : CommandOpen(q, b) <=> CommandOpen(s, b))
      /\ (\A b, x : WebhookOpen(q, b, x) <=> WebhookOpen(s, b, x))
  BY <1>2 DEF CommandOpen, WebhookOpen, HookOpen
<1>5. PostingKept(q) /\ OrderKept(q)
  BY <1>2, <1>4 DEF Sound, PostingKept, OrderKept
<1>. QED BY <1>1, <1>2, <1>3, <1>5 DEF q, Sound

(* An order may take a status one of its attempts has, or one it does not  *)
(* owe to the provider.                                                    *)
LEMMA SoundOrder ==
  ASSUME NEW s, Sound(s), NEW o \in Orders, NEW r \in OrderStatus,
         r \in Owed => \E a \in Of(o) : s.attempt[a].st = r
  PROVE  LET q == Put(s, W("order", o, r)) IN
         /\ Sound(q)
         /\ q.attempt = s.attempt /\ q.command = s.command
         /\ q.posting = s.posting /\ q.webhook = s.webhook
         /\ \A p \in Orders : q.order[p] = IF p = o THEN r ELSE s.order[p]
<1>. DEFINE q == Put(s, W("order", o, r))
<1>1. q \in Tables
  BY DEF Put, W, Sound, Tables
<1>2. q.order = [s.order EXCEPT ![o] = r] /\ q.attempt = s.attempt /\ q.command = s.command
      /\ q.posting = s.posting /\ q.webhook = s.webhook
  BY DEF Put, W, Sound, Tables
<1>3. s.order \in [Orders -> OrderStatus]
  BY DEF Sound, Tables
<1>. HIDE DEF q
<1>4. Grounded(q)
  BY <1>2 DEF Sound, Grounded
<1>5. (\A b : CommandOpen(q, b) <=> CommandOpen(s, b))
      /\ (\A b, x : WebhookOpen(q, b, x) <=> WebhookOpen(s, b, x))
  BY <1>2 DEF CommandOpen, WebhookOpen, HookOpen
<1>6. PostingKept(q)
  BY <1>2, <1>5 DEF Sound, PostingKept
<1>7. OrderKept(q)
  <2>. SUFFICES ASSUME NEW p \in Orders, q.order[p] \in Owed
                PROVE  \E a \in Of(p) :
                         \/ q.attempt[a].st = q.order[p]
                         \/ CommandOpen(q, a)
                         \/ q.attempt[a].ref /\ \E x \in ProviderStatus : WebhookOpen(q, a, x)
    BY DEF OrderKept
  <2>1. CASE p = o
    BY <1>2, <1>3, <2>1
  <2>2. CASE p # o
    BY <1>2, <1>3, <1>5, <2>2 DEF Sound, OrderKept
  <2>. QED BY <2>1, <2>2
<1>8. Sound(q)
  BY <1>1, <1>4, <1>6, <1>7 DEF Sound
<1>. QED BY <1>2, <1>3, <1>8 DEF q

(* A posting is enqueued for a payment that was reported completed.        *)
LEMMA SoundPosting ==
  ASSUME NEW s, Sound(s), NEW a \in Attempts,
         NEW r \in [st : {"pending", "posted", "failed", "dead_lettered"}, n : 0 .. MaxRetries, id : Nat],
         Vouched(a),
         r.st = "posted" => \E e \in ledger : e.a = a
  PROVE  LET q == Put(s, W("posting", a, r)) IN
         /\ Sound(q)
         /\ q.order = s.order /\ q.attempt = s.attempt /\ q.command = s.command
         /\ q.webhook = s.webhook
         /\ \A b \in Attempts : q.posting[b] = IF b = a THEN r ELSE s.posting[b]
<1>. DEFINE q == Put(s, W("posting", a, r))
<1>1. q \in Tables
  BY DEF Put, W, Sound, Tables
<1>2. q.order = s.order /\ q.attempt = s.attempt /\ q.command = s.command
      /\ q.posting = [s.posting EXCEPT ![a] = r] /\ q.webhook = s.webhook
  BY DEF Put, W, Sound, Tables
<1>3. DOMAIN s.posting = Attempts
  BY DEF Sound, Tables
<1>. HIDE DEF q
<1>4. \A b \in Attempts : q.posting[b] = IF b = a THEN r ELSE s.posting[b]
  BY <1>2, <1>3
<1>5. Grounded(q)
  BY <1>2, <1>4 DEF Sound, Grounded
<1>6. (\A b : CommandOpen(q, b) <=> CommandOpen(s, b))
      /\ (\A b, x : WebhookOpen(q, b, x) <=> WebhookOpen(s, b, x))
  BY <1>2 DEF CommandOpen, WebhookOpen, HookOpen
<1>7. \A b \in Attempts : s.posting[b].st # "absent" => q.posting[b].st # "absent"
  BY <1>4
<1>8. \A b, c : b \in Alike(c) => b \in Attempts
  BY DEF Alike
<1>9. PostingKept(q)
  BY <1>2, <1>6, <1>7, <1>8 DEF Sound, PostingKept
<1>10. OrderKept(q)
  BY <1>2, <1>6 DEF Sound, OrderKept
<1>11. Sound(q)
  BY <1>1, <1>5, <1>9, <1>10 DEF Sound
<1>. QED BY <1>2, <1>4, <1>11 DEF q

(* An attempt may take a status while its command or the webhook that      *)
(* brings the status is open, or if it is new.                             *)
LEMMA SoundAttempt ==
  ASSUME NEW s, Sound(s), NEW a \in Attempts,
         NEW r \in [st : OrderStatus, ref : BOOLEAN, at : Nat],
         r.st \in Owed => r.ref,
         r.st = "completed" => CommandOpen(s, a) \/ WebhookOpen(s, a, "completed"),
         \/ s.order[OrderOf[a]] \notin Owed
         \/ CommandOpen(s, a)
         \/ r.ref /\ \E x \in ProviderStatus : WebhookOpen(s, a, x)
  PROVE  LET q == Put(s, W("attempt", a, r)) IN
         /\ Sound(q)
         /\ q.order = s.order /\ q.command = s.command
         /\ q.posting = s.posting /\ q.webhook = s.webhook
         /\ \A b \in Attempts : q.attempt[b] = IF b = a THEN r ELSE s.attempt[b]
<1>. DEFINE q == Put(s, W("attempt", a, r))
<1>1. q \in Tables
  BY DEF Put, W, Sound, Tables
<1>2. q.order = s.order /\ q.attempt = [s.attempt EXCEPT ![a] = r] /\ q.command = s.command
      /\ q.posting = s.posting /\ q.webhook = s.webhook
  <2>. DEFINE w == W("attempt", a, r)
  <2>1. w.t = "attempt" /\ w.id = a /\ w.row = r
    BY DEF W
  <2>2. s \in Tables
    BY DEF Sound
  <2>. HIDE DEF w
  <2>3. q.order = s.order /\ q.command = s.command
    BY <2>1, <2>2 DEF Put, Tables, w
  <2>4. q.posting = s.posting /\ q.webhook = s.webhook
    BY <2>1, <2>2 DEF Put, Tables, w
  <2>5. q.attempt = [s.attempt EXCEPT ![a] = r]
    BY <2>1, <2>2 DEF Put, Tables, w
  <2>. QED BY <2>3, <2>4, <2>5
<1>3. DOMAIN s.attempt = Attempts
  BY DEF Sound, Tables
<1>. HIDE DEF q
<1>4. \A b \in Attempts : q.attempt[b] = IF b = a THEN r ELSE s.attempt[b]
  BY <1>2, <1>3
<1>5. Grounded(q)
  BY <1>2, <1>4 DEF Sound, Grounded, OrderStatus
<1>6. (\A b : CommandOpen(q, b) <=> CommandOpen(s, b))
      /\ (\A b, x : WebhookOpen(q, b, x) <=> WebhookOpen(s, b, x))
  BY <1>2 DEF CommandOpen, WebhookOpen, HookOpen
<1>7. PostingKept(q)
  BY <1>2, <1>4, <1>6 DEF Sound, PostingKept
<1>8. OrderKept(q)
  <2>. SUFFICES ASSUME NEW p \in Orders, q.order[p] \in Owed
                PROVE  \E b \in Of(p) :
                         \/ q.attempt[b].st = q.order[p]
                         \/ CommandOpen(q, b)
                         \/ q.attempt[b].ref /\ \E x \in ProviderStatus : WebhookOpen(q, b, x)
    BY DEF OrderKept
  <2>1. PICK b \in Of(p) :
                         \/ s.attempt[b].st = s.order[p]
                         \/ CommandOpen(s, b)
                         \/ s.attempt[b].ref /\ \E x \in ProviderStatus : WebhookOpen(s, b, x)
    BY <1>2 DEF Sound, OrderKept
  <2>2. CASE b # a
    BY <1>2, <1>4, <1>6, <2>1, <2>2 DEF Of
  <2>3. CASE b = a
    BY <1>2, <1>4, <1>6, <2>1, <2>3 DEF Of
  <2>. QED BY <2>2, <2>3
<1>9. Sound(q)
  BY <1>1, <1>5, <1>7, <1>8 DEF Sound
<1>. QED BY <1>2, <1>4, <1>9 DEF q

(* A command may be opened once its attempt is there, and be closed once   *)
(* the order shows the attempt's status and the posting is enqueued.       *)
LEMMA SoundCommand ==
  ASSUME NEW s, Sound(s), NEW a \in Attempts,
         NEW r \in [st : {"pending", "processing", "completed", "dead_lettered"}, n : 0 .. MaxRetries],
         s.attempt[a].st # "absent",
         r.st \in Active => r.n < MaxRetries,
         r.st = "completed" =>
           /\ s.attempt[a].st = s.order[OrderOf[a]]
           /\ s.attempt[a].st = "completed" => s.posting[a].st # "absent"
  PROVE  LET q == Put(s, W("command", a, r)) IN
         /\ Sound(q)
         /\ q.order = s.order /\ q.attempt = s.attempt
         /\ q.posting = s.posting /\ q.webhook = s.webhook
         /\ \A b \in Attempts : q.command[b] = IF b = a THEN r ELSE s.command[b]
<1>. DEFINE q == Put(s, W("command", a, r))
<1>1. q \in Tables
  BY DEF Put, W, Sound, Tables
<1>2. q.order = s.order /\ q.attempt = s.attempt /\ q.command = [s.command EXCEPT ![a] = r]
      /\ q.posting = s.posting /\ q.webhook = s.webhook
  BY DEF Put, W, Sound, Tables
<1>3. DOMAIN s.command = Attempts
  BY DEF Sound, Tables
<1>. HIDE DEF q
<1>4. \A b \in Attempts : q.command[b] = IF b = a THEN r ELSE s.command[b]
  BY <1>2, <1>3
<1>5. Grounded(q)
  BY <1>2, <1>4 DEF Sound, Grounded
<1>6. /\ \A b \in Attempts : CommandOpen(s, b) => CommandOpen(q, b) \/ (b = a /\ r.st = "completed")
      /\ \A b, x : WebhookOpen(q, b, x) <=> WebhookOpen(s, b, x)
  BY <1>2, <1>4 DEF CommandOpen, WebhookOpen, HookOpen, Active
<1>7. a \in Alike(a)
  BY DEF Alike
<1>8. PostingKept(q)
  BY <1>2, <1>6, <1>7 DEF Sound, PostingKept
<1>9. OrderKept(q)
  <2>. SUFFICES ASSUME NEW p \in Orders, q.order[p] \in Owed
                PROVE  \E b \in Of(p) :
                         \/ q.attempt[b].st = q.order[p]
                         \/ CommandOpen(q, b)
                         \/ q.attempt[b].ref /\ \E x \in ProviderStatus : WebhookOpen(q, b, x)
    BY DEF OrderKept
  <2>1. PICK b \in Of(p) :
                         \/ s.attempt[b].st = s.order[p]
                         \/ CommandOpen(s, b)
                         \/ s.attempt[b].ref /\ \E x \in ProviderStatus : WebhookOpen(s, b, x)
    BY <1>2 DEF Sound, OrderKept
  <2>. QED BY <1>2, <1>6, <2>1 DEF Of
<1>10. Sound(q)
  BY <1>1, <1>5, <1>8, <1>9 DEF Sound
<1>. QED BY <1>2, <1>4, <1>10 DEF q

(* A webhook may be received once the payment has its status, and be       *)
(* closed as a command may, or if the attempt has no reference yet.        *)
Settled(s, n) ==
  \/ \A b \in Target(n) : ~s.attempt[b].ref
  \/ \E b \in Target(n) : /\ s.attempt[b].st = s.order[OrderOf[b]]
                          /\ n.s = "completed" => s.posting[b].st # "absent"

Closes(r) == r \in {"processed", "ignored"}

LEMMA SoundWebhook ==
  ASSUME NEW s, Sound(s), ExternalOK, NEW h \in Hooks,
         NEW r \in {"queued", "processing", "processed", "ignored"},
         Closes(r) /\ HookOpen(s, h) => \A n \in notice[h] : Settled(s, n)
  PROVE  LET q == Put(s, W("webhook", h, r)) IN
         /\ Sound(q)
         /\ q.order = s.order /\ q.attempt = s.attempt /\ q.command = s.command
         /\ q.posting = s.posting
         /\ \A v \in Hooks : q.webhook[v] = IF v = h THEN r ELSE s.webhook[v]
<1>. DEFINE q == Put(s, W("webhook", h, r))
<1>1. q \in Tables
  BY DEF Put, W, Sound, Tables
<1>2. q.order = s.order /\ q.attempt = s.attempt /\ q.command = s.command
      /\ q.posting = s.posting /\ q.webhook = [s.webhook EXCEPT ![h] = r]
  BY DEF Put, W, Sound, Tables
<1>3. DOMAIN s.webhook = Hooks
  BY DEF Sound, Tables
<1>. HIDE DEF q
<1>4. \A v \in Hooks : q.webhook[v] = IF v = h THEN r ELSE s.webhook[v]
  BY <1>2, <1>3
<1>5. Grounded(q)
  BY <1>2 DEF Sound, Grounded
<1>6. \A b : CommandOpen(q, b) <=> CommandOpen(s, b)
  BY <1>2 DEF CommandOpen
<1>7. ASSUME NEW a, NEW x, WebhookOpen(s, a, x), ~WebhookOpen(q, a, x)
      PROVE  \E n \in notice[h] : a \in Target(n) /\ n.s = x /\ Settled(s, n)
  <2>1. PICK v \in Hooks : HookOpen(s, v) /\ \E n \in notice[v] : a \in Target(n) /\ n.s = x
    BY <1>7 DEF WebhookOpen
  <2>2. ~HookOpen(q, v)
    BY <1>7, <2>1 DEF WebhookOpen
  <2>3. v = h /\ Closes(r)
    BY <1>4, <2>1, <2>2 DEF HookOpen, Closes
  <2>. QED BY <2>1, <2>3
<1>8. ASSUME NEW n, NEW a \in Target(n), a \in Attempts, Settled(s, n), s.attempt[a].ref
      PROVE  \E b \in Target(n) : /\ b \in Alike(a) /\ OrderOf[b] = OrderOf[a] /\ b \in Attempts
                                  /\ s.attempt[b].st = s.order[OrderOf[a]]
                                  /\ n.s = "completed" => s.posting[b].st # "absent"
  <2>1. PICK b \in Target(n) : /\ s.attempt[b].st = s.order[OrderOf[b]]
                               /\ n.s = "completed" => s.posting[b].st # "absent"
    BY <1>8 DEF Settled
  <2>2. b \in Alike(a) /\ b \in Attempts
    BY <1>8, <2>1 DEF Target, Alike
  <2>3. OrderOf[b] = OrderOf[a]
    BY <1>8, <2>2 DEF Alike, ExternalOK, KindOK
  <2>. QED BY <2>1, <2>2, <2>3
<1>9. PostingKept(q)
  <2>. SUFFICES ASSUME NEW a \in Attempts, s.attempt[a].st = "completed",
                       ~CommandOpen(s, a), ~WebhookOpen(q, a, "completed")
                PROVE  \E b \in Alike(a) : s.posting[b].st # "absent"
    BY <1>2, <1>6 DEF PostingKept
  <2>1. CASE WebhookOpen(s, a, "completed")
    <3>1. PICK n \in notice[h] : a \in Target(n) /\ n.s = "completed" /\ Settled(s, n)
      BY <1>7, <2>1
    <3>2. s.attempt[a].ref
      BY DEF Sound, Grounded, Owed
    <3>. QED BY <1>8, <3>1, <3>2
  <2>2. CASE ~WebhookOpen(s, a, "completed")
    BY <2>2 DEF Sound, PostingKept
  <2>. QED BY <2>1, <2>2
<1>10. OrderKept(q)
  <2>. SUFFICES ASSUME NEW p \in Orders, s.order[p] \in Owed
                PROVE  \E b \in Of(p) :
                         \/ s.attempt[b].st = s.order[p]
                         \/ CommandOpen(s, b)
                         \/ s.attempt[b].ref /\ \E y \in ProviderStatus : WebhookOpen(q, b, y)
    BY <1>2, <1>6 DEF OrderKept
  <2>1. PICK a \in Of(p) :
                         \/ s.attempt[a].st = s.order[p]
                         \/ CommandOpen(s, a)
                         \/ s.attempt[a].ref /\ \E y \in ProviderStatus : WebhookOpen(s, a, y)
    BY DEF Sound, OrderKept
  <2>2. CASE s.attempt[a].ref /\ \E y \in ProviderStatus : WebhookOpen(s, a, y)
    <3>1. PICK y \in ProviderStatus : WebhookOpen(s, a, y)
      BY <2>2
    <3>2. CASE WebhookOpen(q, a, y)
      BY <2>2, <3>2
    <3>3. CASE ~WebhookOpen(q, a, y)
      <4>1. PICK n \in notice[h] : a \in Target(n) /\ Settled(s, n)
        BY <1>7, <3>1, <3>3
      <4>2. a \in Attempts /\ OrderOf[a] = p
        BY DEF Of
      <4>3. PICK b \in Target(n) : OrderOf[b] = p /\ b \in Attempts /\ s.attempt[b].st = s.order[p]
        BY <1>8, <2>2, <4>1, <4>2
      <4>. QED BY <4>3 DEF Of
    <3>. QED BY <3>2, <3>3
  <2>. QED BY <2>1, <2>2
<1>11. Sound(q)
  BY <1>1, <1>5, <1>9, <1>10 DEF Sound
<1>. QED BY <1>2, <1>4, <1>11 DEF q

-----------------------------------------------------------------------------
(* The writes of sections of code, from tables similar to those in memory: *)
(* every prefix is sound.                                                  *)

(* The tables after each of the first writes.                              *)
LEMMA Chain ==
  ASSUME NEW s \in Tables, NEW ws
  PROVE  /\ Apply(s, ws, 0) = s
         /\ Apply(s, ws, 1) = Put(s, ws[1])
         /\ Apply(s, ws, 2) = Put(Apply(s, ws, 1), ws[2])
         /\ Apply(s, ws, 3) = Put(Apply(s, ws, 2), ws[3])
         /\ Apply(s, ws, 4) = Put(Apply(s, ws, 3), ws[4])
         /\ Apply(s, ws, 5) = Put(Apply(s, ws, 4), ws[5])
         /\ Apply(s, ws, 6) = Put(Apply(s, ws, 5), ws[6])
<1>1. \A k \in Nat : Apply(s, ws, k + 1) = Put(Apply(s, ws, k), ws[k + 1])
  BY ApplyOne
<1>2. 0 + 1 = 1 /\ 1 + 1 = 2 /\ 2 + 1 = 3 /\ 3 + 1 = 4 /\ 4 + 1 = 5 /\ 5 + 1 = 6
  OBVIOUS
<1>. QED BY <1>1, <1>2, ApplyNone

(* One write.                                                              *)
LEMMA ChainOfOne ==
  ASSUME NEW s, NEW w, Sound(s), Sound(Put(s, w))
  PROVE  /\ Len(<<w>>) = 1
         /\ Apply(s, <<w>>, 1) = Put(s, w)
         /\ \A k \in 0 .. 1 : Sound(Apply(s, <<w>>, k))
<1>1. s \in Tables
  BY DEF Sound
<1>2. Apply(s, <<w>>, 0) = s /\ Apply(s, <<w>>, 1) = Put(s, <<w>>[1])
  BY <1>1, Chain
<1>3. \A k \in 0 .. 1 : k = 0 \/ k = 1
  OBVIOUS
<1>4. <<w>>[1] = w /\ Len(<<w>>) = 1
  OBVIOUS
<1>. QED BY <1>2, <1>3, <1>4

(* The place a new attempt gets in the store's map.                        *)
LEMMA PresentIsNatural == Present \in Nat
<1>1. {a \in Attempts : mem.attempt[a].st # "absent"} \subseteq Attempts /\ IsFiniteSet(Attempts)
  BY PaymentsAssumption
<1>. QED BY <1>1, FS_Subset, FS_CardinalityType DEF Present

(* The writes of submitPayment, in any state of the order.                 *)
LEMMA SubmitPuts ==
  ASSUME NEW s, Sound(s), NEW a \in Attempts
  PROVE  LET s1 == Put(s, SubmitWrites(a)[1])
             s2 == Put(s1, SubmitWrites(a)[2])
             s3 == Put(s2, SubmitWrites(a)[3])
         IN /\ Sound(s1) /\ Sound(s2) /\ Sound(s3)
            /\ s3.webhook = s.webhook
            /\ \A b \in Attempts : b # a => s3.command[b] = s.command[b]
<1>. DEFINE o == OrderOf[a]
            r == [st |-> "submitted_to_provider", ref |-> FALSE, at |-> Present + 1]
            c == [st |-> "pending", n |-> 0]
            s1 == Put(s, W("order", o, "submitted_to_provider"))
            s2 == Put(s1, W("attempt", a, r))
            s3 == Put(s2, W("command", a, c))
<1>1. /\ SubmitWrites(a)[1] = W("order", o, "submitted_to_provider")
      /\ SubmitWrites(a)[2] = W("attempt", a, r)
      /\ SubmitWrites(a)[3] = W("command", a, c)
  BY DEF SubmitWrites
<1>2. o \in Orders /\ s \in Tables
  BY PaymentsAssumption DEF Sound
<1>3. r \in [st : OrderStatus, ref : BOOLEAN, at : Nat] /\ "submitted_to_provider" \in OrderStatus \ Owed
      /\ r.st \notin Owed /\ "completed" \in Owed
  BY PresentIsNatural DEF OrderStatus, Owed
<1>4. Sound(s1) /\ s1.order[o] = "submitted_to_provider"
      /\ s1.command = s.command /\ s1.webhook = s.webhook
  BY <1>2, <1>3, SoundOrder
<1>. HIDE DEF s1
<1>5. s1.order[o] \notin Owed
  BY <1>3, <1>4
<1>6. Sound(s2) /\ s2.attempt[a] = r
      /\ s2.command = s.command /\ s2.webhook = s.webhook
  <2>. HIDE DEF r
  <2>. QED BY <1>3, <1>4, <1>5, SoundAttempt
<1>. HIDE DEF s2
<1>7. s2.attempt[a].st # "absent"
  BY <1>6
<1>8. c \in [st : {"pending", "processing", "completed", "dead_lettered"}, n : 0 .. MaxRetries]
      /\ c.n < MaxRetries /\ c.st # "completed"
  BY DEF MaxRetries
<1>9. Sound(s3) /\ s3.webhook = s.webhook /\ \A b \in Attempts : b # a => s3.command[b] = s.command[b]
  <2>. HIDE DEF c
  <2>. QED BY <1>6, <1>7, <1>8, SoundCommand
<1>. QED BY <1>1, <1>4, <1>6, <1>9 DEF s1, s2

LEMMA SubmitSound ==
  ASSUME NEW s, Sound(s), NEW a \in Attempts
  PROVE  LET ws == SubmitWrites(a) IN
         /\ Len(ws) = 3
         /\ \A k \in 0 .. 3 : Sound(Apply(s, ws, k))
         /\ Apply(s, ws, 3).webhook = s.webhook
         /\ \A b \in Attempts : b # a => Apply(s, ws, 3).command[b] = s.command[b]
<1>. DEFINE ws == SubmitWrites(a)
<1>1. Len(ws) = 3 /\ s \in Tables
  BY DEF SubmitWrites, Sound
<1>2. LET s1 == Put(s, ws[1])
          s2 == Put(s1, ws[2])
          s3 == Put(s2, ws[3])
      IN /\ Sound(s1) /\ Sound(s2) /\ Sound(s3)
         /\ s3.webhook = s.webhook
         /\ \A b \in Attempts : b # a => s3.command[b] = s.command[b]
  BY SubmitPuts
<1>. HIDE DEF ws
<1>3. /\ Apply(s, ws, 0) = s
      /\ Apply(s, ws, 1) = Put(s, ws[1])
      /\ Apply(s, ws, 2) = Put(Apply(s, ws, 1), ws[2])
      /\ Apply(s, ws, 3) = Put(Apply(s, ws, 2), ws[3])
  BY <1>1, Chain
<1>4. \A k \in 0 .. 3 : k \in {0, 1, 2, 3}
  OBVIOUS
<1>5. /\ \A k \in 0 .. 3 : Sound(Apply(s, ws, k))
      /\ Apply(s, ws, 3).webhook = s.webhook
      /\ \A b \in Attempts : b # a => Apply(s, ws, 3).command[b] = s.command[b]
  BY <1>1, <1>2, <1>3, <1>4
<1>. QED BY <1>1, <1>5 DEF ws

(* retryPayment.                                                           *)
LEMMA RetrySound ==
  ASSUME NEW s, Sound(s), NEW a \in Attempts
  PROVE  LET ws == <<W("order", OrderOf[a], "created")>> \o SubmitWrites(a) IN
         /\ Len(ws) = 4
         /\ \A k \in 0 .. 4 : Sound(Apply(s, ws, k))
         /\ Apply(s, ws, 4).webhook = s.webhook
         /\ \A b \in Attempts : b # a => Apply(s, ws, 4).command[b] = s.command[b]
<1>. DEFINE ws == <<W("order", OrderOf[a], "created")>> \o SubmitWrites(a)
            s1 == Put(s, W("order", OrderOf[a], "created"))
<1>1. Len(ws) = 4 /\ s \in Tables /\ ws[1] = W("order", OrderOf[a], "created")
      /\ ws[2] = SubmitWrites(a)[1] /\ ws[3] = SubmitWrites(a)[2] /\ ws[4] = SubmitWrites(a)[3]
  BY DEF SubmitWrites, Sound
<1>. HIDE DEF ws
<1>2. \A k \in 0 .. 4 : k \in {0, 1, 2, 3, 4}
  OBVIOUS
<1>3. OrderOf[a] \in Orders /\ "created" \in OrderStatus \ Owed
  BY PaymentsAssumption DEF OrderStatus, Owed
<1>4. Sound(s1) /\ s1.command = s.command /\ s1.webhook = s.webhook
  BY <1>3, SoundOrder
<1>. HIDE DEF s1
<1>. DEFINE s2 == Put(s1, ws[2])
            s3 == Put(s2, ws[3])
            s4 == Put(s3, ws[4])
<1>5. /\ Sound(s2) /\ Sound(s3) /\ Sound(s4)
      /\ s4.webhook = s.webhook
      /\ \A b \in Attempts : b # a => s4.command[b] = s.command[b]
  <2>. DEFINE t2 == Put(s1, SubmitWrites(a)[1])
              t3 == Put(t2, SubmitWrites(a)[2])
              t4 == Put(t3, SubmitWrites(a)[3])
  <2>1. /\ Sound(t2) /\ Sound(t3) /\ Sound(t4)
        /\ t4.webhook = s1.webhook
        /\ \A b \in Attempts : b # a => t4.command[b] = s1.command[b]
    BY <1>4, SubmitPuts
  <2>. QED BY <1>1, <1>4, <2>1
<1>6. /\ Apply(s, ws, 0) = s
      /\ Apply(s, ws, 1) = s1
      /\ Apply(s, ws, 2) = Put(Apply(s, ws, 1), ws[2])
      /\ Apply(s, ws, 3) = Put(Apply(s, ws, 2), ws[3])
      /\ Apply(s, ws, 4) = Put(Apply(s, ws, 3), ws[4])
  BY <1>1, Chain DEF s1
<1>7. /\ \A k \in 0 .. 4 : Sound(Apply(s, ws, k))
      /\ Apply(s, ws, 4).webhook = s.webhook
      /\ \A b \in Attempts : b # a => Apply(s, ws, 4).command[b] = s.command[b]
  BY <1>1, <1>2, <1>4, <1>5, <1>6
<1>. QED BY <1>1, <1>7 DEF ws

(* markProviderCommandFailed and #markAttemptAndOrderFailed, of a command  *)
(* under way.                                                              *)
FailPrefix(s, a) ==
  /\ Sound(s)
  /\ s.command[a].st \in Active
  /\ s.command[a].n = mem.command[a].n
  /\ s.attempt = mem.attempt

Failed(s, q, a) ==
  /\ Sound(q)
  /\ q.webhook = s.webhook
  /\ \A b \in Attempts : b # a => q.command[b] = s.command[b]

LEMMA FailPuts ==
  ASSUME NEW s, NEW a \in Attempts, FailPrefix(s, a)
  PROVE  LET ws == FailWrites(a)
             s1 == Put(s, ws[1])
             s2 == Put(s1, ws[2])
             s3 == Put(s2, ws[3])
         IN /\ Failed(s, s1, a)
            /\ \/ Len(ws) = 1
               \/ Len(ws) = 3 /\ Failed(s, s2, a) /\ Failed(s, s3, a)
<1>. DEFINE n == mem.command[a].n + 1
            ws == FailWrites(a)
            c1 == [st |-> "pending", n |-> n]
            c2 == [st |-> "dead_lettered", n |-> n]
            r == [mem.attempt[a] EXCEPT !.st = "failed"]
            o == OrderOf[a]
<1>1. s \in Tables /\ s.attempt[a].st # "absent" /\ s.command[a].n < MaxRetries /\ o \in Orders
      /\ s.command \in [Attempts -> [st : {"absent", "pending", "processing", "completed", "dead_lettered"},
                                     n : 0 .. MaxRetries]]
      /\ s.attempt \in [Attempts -> [st : OrderStatus \union {"absent"}, ref : BOOLEAN, at : Nat]]
  BY PaymentsAssumption DEF FailPrefix, Sound, Grounded, Tables, Active
<1>2. n \in 0 .. MaxRetries
  BY <1>1 DEF FailPrefix, MaxRetries
<1>3. CASE n < MaxRetries
  <2>1. Len(ws) = 1 /\ ws[1] = W("command", a, c1)
    BY <1>3 DEF FailWrites
  <2>2. c1 \in [st : {"pending", "processing", "completed", "dead_lettered"}, n : 0 .. MaxRetries]
        /\ c1.n < MaxRetries /\ c1.st # "completed"
    BY <1>2, <1>3
  <2>. HIDE DEF c1, ws
  <2>3. LET q == Put(s, W("command", a, c1)) IN
          Sound(q) /\ q.webhook = s.webhook /\ \A b \in Attempts : b # a => q.command[b] = s.command[b]
    BY <1>1, <2>2, SoundCommand DEF FailPrefix
  <2>4. Len(ws) = 1 /\ Failed(s, Put(s, ws[1]), a)
    BY <2>1, <2>3 DEF Failed
  <2>. QED BY <2>4 DEF ws
<1>4. CASE ~(n < MaxRetries)
  <2>1. Len(ws) = 3 /\ ws[1] = W("command", a, c2) /\ ws[2] = W("attempt", a, r)
        /\ ws[3] = W("order", o, "failed")
    BY <1>4 DEF FailWrites
  <2>2. c2 \in [st : {"pending", "processing", "completed", "dead_lettered"}, n : 0 .. MaxRetries]
        /\ c2.st \notin Active /\ c2.st # "completed" /\ c2.st = "dead_lettered"
    BY <1>2 DEF Active
  <2>3. r \in [st : OrderStatus, ref : BOOLEAN, at : Nat] /\ r.st \notin Owed /\ "completed" \in Owed
        /\ "failed" \in OrderStatus \ Owed
    BY <1>1 DEF OrderStatus, Owed, FailPrefix
  <2>. HIDE DEF c2, ws, r
  <2>. DEFINE s1 == Put(s, W("command", a, c2))
              s2 == Put(s1, W("attempt", a, r))
              s3 == Put(s2, W("order", o, "failed"))
  <2>4. Sound(s1) /\ s1.webhook = s.webhook
        /\ \A b \in Attempts : s1.command[b] = IF b = a THEN c2 ELSE s.command[b]
    BY <1>1, <2>2, SoundCommand DEF FailPrefix
  <2>. HIDE DEF s1
  <2>5. CommandOpen(s1, a)
    BY <1>1, <2>2, <2>4 DEF CommandOpen
  <2>6. Sound(s2) /\ s2.command = s1.command /\ s2.webhook = s.webhook
    BY <2>3, <2>4, <2>5, SoundAttempt
  <2>. HIDE DEF s2
  <2>7. Sound(s3) /\ s3.command = s1.command /\ s3.webhook = s.webhook
    BY <1>1, <2>3, <2>6, SoundOrder
  <2>. HIDE DEF s3
  <2>8. Failed(s, s1, a) /\ Failed(s, s2, a) /\ Failed(s, s3, a)
    BY <1>1, <2>4, <2>6, <2>7 DEF Failed
  <2>. QED BY <2>1, <2>8 DEF s1, s2, s3, ws
<1>. QED BY <1>3, <1>4

LEMMA FailSound ==
  ASSUME NEW s, NEW a \in Attempts, FailPrefix(s, a)
  PROVE  LET ws == FailWrites(a) IN
         /\ Len(ws) \in {1, 3}
         /\ \A k \in 0 .. Len(ws) : Sound(Apply(s, ws, k))
         /\ Failed(s, Apply(s, ws, Len(ws)), a)
<1>. DEFINE ws == FailWrites(a)
            s1 == Put(s, ws[1])
            s2 == Put(s1, ws[2])
            s3 == Put(s2, ws[3])
<1>1. s \in Tables /\ Sound(s)
  BY DEF FailPrefix, Sound
<1>2. /\ Failed(s, s1, a)
      /\ \/ Len(ws) = 1
         \/ Len(ws) = 3 /\ Failed(s, s2, a) /\ Failed(s, s3, a)
  BY FailPuts
<1>. HIDE DEF ws
<1>3. Apply(s, ws, 0) = s /\ Apply(s, ws, 1) = s1 /\ Apply(s, ws, 2) = s2 /\ Apply(s, ws, 3) = s3
  BY <1>1, Chain
<1>. HIDE DEF s1, s2, s3
<1>4. \A k \in 0 .. 1 : k \in {0, 1}
  OBVIOUS
<1>5. \A k \in 0 .. 3 : k \in {0, 1, 2, 3}
  OBVIOUS
<1>6. /\ Len(ws) \in {1, 3}
      /\ \A k \in 0 .. Len(ws) : Sound(Apply(s, ws, k))
      /\ Failed(s, Apply(s, ws, Len(ws)), a)
  <2>1. CASE Len(ws) = 1
    BY <1>1, <1>2, <1>3, <1>4, <2>1 DEF Failed
  <2>2. CASE Len(ws) = 3
    BY <1>1, <1>2, <1>3, <1>5, <2>2 DEF Failed
  <2>. QED BY <1>2, <2>1, <2>2
<1>. QED BY <1>6 DEF ws

(* runOnce of a command whose provider is disabled.                        *)
LEMMA DisabledSound ==
  ASSUME NEW s, Sound(s), NEW a \in Attempts, Similar(s, mem), mem \in Tables,
         mem.command[a].st = "pending"
  PROVE  LET ws == <<W("command", a, [mem.command[a] EXCEPT !.st = "processing"])>> \o FailWrites(a) IN
         /\ Len(ws) \in {2, 4}
         /\ \A k \in 0 .. Len(ws) : Sound(Apply(s, ws, k))
         /\ Failed(s, Apply(s, ws, Len(ws)), a)
<1>. DEFINE c == [mem.command[a] EXCEPT !.st = "processing"]
            fs == FailWrites(a)
            ws == <<W("command", a, c)>> \o fs
            s1 == Put(s, W("command", a, c))
            s2 == Put(s1, fs[1])
            s3 == Put(s2, fs[2])
            s4 == Put(s3, fs[3])
<1>1. s \in Tables /\ mem.command[a] \in [st : {"absent", "pending", "processing", "completed", "dead_lettered"},
                                          n : 0 .. MaxRetries]
  BY DEF Sound, Tables
<1>2. s.command[a].n = mem.command[a].n /\ s.command[a].st \in Active
  BY <1>1 DEF Similar, Active
<1>3. s.attempt[a].st # "absent" /\ s.command[a].n < MaxRetries
  BY <1>2 DEF Sound, Grounded, Active
<1>4. c \in [st : {"pending", "processing", "completed", "dead_lettered"}, n : 0 .. MaxRetries]
      /\ c.n < MaxRetries /\ c.st = "processing" /\ c.n = mem.command[a].n
  BY <1>1, <1>2, <1>3
<1>. HIDE DEF c
<1>5. Sound(s1) /\ s1.attempt = s.attempt /\ s1.webhook = s.webhook
      /\ \A b \in Attempts : s1.command[b] = IF b = a THEN c ELSE s.command[b]
  BY <1>3, <1>4, SoundCommand
<1>. HIDE DEF s1
<1>6. FailPrefix(s1, a)
  BY <1>4, <1>5 DEF FailPrefix, Similar, Active
<1>7. /\ Failed(s1, s2, a)
      /\ \/ Len(fs) = 1
         \/ Len(fs) = 3 /\ Failed(s1, s3, a) /\ Failed(s1, s4, a)
  BY <1>6, FailPuts
<1>8. \A q : Failed(s1, q, a) => Failed(s, q, a) /\ Sound(q)
  BY <1>5 DEF Failed
<1>9. \/ Len(fs) = 1 /\ Len(ws) = 2 /\ ws[1] = W("command", a, c) /\ ws[2] = fs[1]
      \/ Len(fs) = 3 /\ Len(ws) = 4 /\ ws[1] = W("command", a, c) /\ ws[2] = fs[1]
           /\ ws[3] = fs[2] /\ ws[4] = fs[3]
  BY <1>7 DEF FailWrites
<1>. HIDE DEF fs, ws
<1>10. /\ Apply(s, ws, 0) = s
       /\ Apply(s, ws, 1) = Put(s, ws[1])
       /\ Apply(s, ws, 2) = Put(Apply(s, ws, 1), ws[2])
       /\ Apply(s, ws, 3) = Put(Apply(s, ws, 2), ws[3])
       /\ Apply(s, ws, 4) = Put(Apply(s, ws, 3), ws[4])
  BY <1>1, Chain
<1>11. \A k \in 0 .. 2 : k \in {0, 1, 2}
  OBVIOUS
<1>12. \A k \in 0 .. 4 : k \in {0, 1, 2, 3, 4}
  OBVIOUS
<1>13. /\ Len(ws) \in {2, 4}
       /\ \A k \in 0 .. Len(ws) : Sound(Apply(s, ws, k))
       /\ Failed(s, Apply(s, ws, Len(ws)), a)
  <2>1. Apply(s, ws, 1) = s1 /\ Apply(s, ws, 2) = s2
    BY <1>9, <1>10 DEF s1
  <2>2. CASE Len(fs) = 1
    <3>1. Len(ws) = 2
      BY <1>9, <2>2
    <3>. QED BY <1>5, <1>7, <1>8, <1>10, <1>11, <2>1, <3>1
  <2>3. CASE Len(fs) = 3
    <3>1. Len(ws) = 4 /\ Apply(s, ws, 3) = s3 /\ Apply(s, ws, 4) = s4
      BY <1>9, <1>10, <2>1, <2>3
    <3>. HIDE DEF s2, s3, s4
    <3>. QED BY <1>5, <1>7, <1>8, <1>10, <1>12, <2>1, <2>3, <3>1
  <2>. QED BY <1>7, <2>2, <2>3
<1>. QED BY <1>13 DEF ws, fs, c

(* A status x of the provider, brought by the attempt's command or by the  *)
(* webhook of that status, is stored on the attempt and on its order.      *)
LEMMA StatusPuts ==
  ASSUME NEW s, Sound(s), mem \in Tables, NEW a \in Attempts, NEW x \in ProviderStatus,
         CommandOpen(s, a) \/ WebhookOpen(s, a, x)
  PROVE  LET ws == StatusWrites(a, x, TRUE)
             s1 == Put(s, ws[1])
             s2 == Put(s1, ws[2])
         IN /\ Sound(s1) /\ Sound(s2)
            /\ s2.command = s.command /\ s2.posting = s.posting /\ s2.webhook = s.webhook
            /\ s2.attempt[a].st # "absent"
            /\ s2.attempt[a].st = s2.order[OrderOf[a]]
            /\ s2.attempt[a].st = "completed" => x = "completed"
<1>. DEFINE ws == StatusWrites(a, x, TRUE)
            p == PaymentStatus[x]
            r == [st |-> p, ref |-> TRUE, at |-> mem.attempt[a].at]
            o == OrderOf[a]
            s1 == Put(s, W("attempt", a, r))
            s2 == Put(s1, W("order", o, p))
<1>1. ws[1] = W("attempt", a, r) /\ ws[2] = W("order", o, p)
  BY DEF StatusWrites
<1>2. p \in OrderStatus /\ p # "absent" /\ (p = "completed" => x = "completed")
      /\ mem.attempt[a].at \in Nat
  BY DEF PaymentStatus, ProviderStatus, OrderStatus, Tables
<1>3. o \in Orders /\ a \in Of(o)
  BY PaymentsAssumption DEF Of
<1>. HIDE DEF p, ws
<1>4. r \in [st : OrderStatus, ref : BOOLEAN, at : Nat] /\ r.st = p /\ r.ref
  BY <1>2
<1>. HIDE DEF r
<1>5. /\ Sound(s1)
      /\ s1.command = s.command /\ s1.posting = s.posting /\ s1.webhook = s.webhook
      /\ s1.attempt[a] = r
  BY <1>2, <1>4, SoundAttempt
<1>. HIDE DEF s1
<1>6. /\ Sound(s2)
      /\ s2.attempt = s1.attempt /\ s2.command = s.command
      /\ s2.posting = s.posting /\ s2.webhook = s.webhook
      /\ s2.order[o] = p
  BY <1>2, <1>3, <1>4, <1>5, SoundOrder
<1>. HIDE DEF s2
<1>7. s2.attempt[a].st = p
  BY <1>4, <1>5, <1>6
<1>. QED BY <1>1, <1>2, <1>5, <1>6, <1>7 DEF s1, s2, ws, p

(* The posting of a completed payment that has none.                       *)
NewPosting == [st |-> "pending", n |-> 0, id |-> left["crash"]]

LEMMA NewPostingPut ==
  ASSUME NEW s, Sound(s), NEW a \in Attempts, Vouched(a), left \in [Events -> Nat]
  PROVE  LET q == Put(s, W("posting", a, NewPosting)) IN
         /\ Sound(q)
         /\ q.order = s.order /\ q.attempt = s.attempt /\ q.command = s.command
         /\ q.webhook = s.webhook
         /\ q.posting[a].st # "absent"
<1>. DEFINE q == Put(s, W("posting", a, NewPosting))
<1>1. NewPosting \in [st : {"pending", "posted", "failed", "dead_lettered"}, n : 0 .. MaxRetries, id : Nat]
      /\ NewPosting.st = "pending"
  BY DEF NewPosting, MaxRetries, Events
<1>2. /\ Sound(q)
      /\ q.order = s.order /\ q.attempt = s.attempt /\ q.command = s.command
      /\ q.webhook = s.webhook
      /\ q.posting[a] = NewPosting
  BY <1>1, SoundPosting
<1>. QED BY <1>1, <1>2

(* executeProviderCommand after its await.                                 *)
LEMMA CompleteSound ==
  ASSUME NEW s, Sound(s), NEW a \in Attempts, NEW x \in ProviderStatus, x \in Reached(a),
         Similar(s, mem), mem \in Tables, left \in [Events -> Nat],
         mem.command[a].st = "processing"
  PROVE  LET ws == CompleteWrites(a, x) IN
         /\ Len(ws) \in {4, 5}
         /\ \A k \in 0 .. Len(ws) : Sound(Apply(s, ws, k))
         /\ Failed(s, Apply(s, ws, Len(ws)), a)
<1>. DEFINE c == [mem.command[a] EXCEPT !.st = "completed"]
            t == [st |-> x, of |-> {a}, ref |-> TRUE]
            fs == StatusWrites(a, x, TRUE)
            ws == CompleteWrites(a, x)
            s1 == Put(s, fs[1])
            s2 == Put(s1, fs[2])
            s3 == Put(s2, W("tx", a, t))
<1>1. s \in Tables /\ mem.command[a] \in [st : {"absent", "pending", "processing", "completed", "dead_lettered"},
                                          n : 0 .. MaxRetries]
  BY DEF Sound, Tables
<1>2. CommandOpen(s, a)
  BY <1>1 DEF Similar, Active, CommandOpen
<1>3. /\ Sound(s1) /\ Sound(s2)
      /\ s2.command = s.command /\ s2.posting = s.posting /\ s2.webhook = s.webhook
      /\ s2.attempt[a].st # "absent"
      /\ s2.attempt[a].st = s2.order[OrderOf[a]]
      /\ s2.attempt[a].st = "completed" => x = "completed"
  BY <1>2, StatusPuts
<1>4. c \in [st : {"pending", "processing", "completed", "dead_lettered"}, n : 0 .. MaxRetries]
      /\ c.st = "completed" /\ c.st \notin Active
  BY <1>1 DEF Active
<1>5. t \in [st : ProviderStatus \union {"absent"}, of : SUBSET Attempts, ref : BOOLEAN]
      /\ (x = "completed" => Vouched(a))
  BY DEF Vouched, SaidCompleted, Alike
<1>6. CASE ~(x = "completed" /\ mem.posting[a].st = "absent")
  <2>1. /\ Len(ws) = 4 /\ ws[1] = fs[1] /\ ws[2] = fs[2]
        /\ ws[3] = W("tx", a, t) /\ ws[4] = W("command", a, c)
    BY <1>6 DEF CompleteWrites, StatusWrites, EnqueuePosting, TxWrite
  <2>. HIDE DEF fs, ws, c, t, s1, s2
  <2>2. /\ Sound(s3)
        /\ s3.order = s2.order /\ s3.attempt = s2.attempt /\ s3.command = s2.command
        /\ s3.posting = s2.posting /\ s3.webhook = s2.webhook
    BY <1>3, <1>5, SoundTx
  <2>. HIDE DEF s3
  <2>. DEFINE s4 == Put(s3, W("command", a, c))
  <2>3. /\ s3.attempt[a].st = s3.order[OrderOf[a]] /\ s3.attempt[a].st # "absent"
        /\ s3.attempt[a].st = "completed" => s3.posting[a].st # "absent"
    BY <1>3, <1>6, <2>2 DEF Similar
  <2>4. /\ Sound(s4) /\ s4.webhook = s3.webhook
        /\ \A b \in Attempts : s4.command[b] = IF b = a THEN c ELSE s3.command[b]
    BY <1>4, <2>2, <2>3, SoundCommand
  <2>5. Apply(s, ws, 0) = s /\ Apply(s, ws, 1) = s1 /\ Apply(s, ws, 2) = s2
        /\ Apply(s, ws, 3) = s3 /\ Apply(s, ws, 4) = s4
    BY <1>1, <2>1, Chain DEF s1, s2, s3
  <2>. HIDE DEF s4
  <2>6. Failed(s, s4, a)
    BY <1>3, <2>2, <2>4 DEF Failed
  <2>7. \A k \in 0 .. 4 : k \in {0, 1, 2, 3, 4}
    OBVIOUS
  <2>8. /\ Len(ws) \in {4, 5}
        /\ \A k \in 0 .. Len(ws) : Sound(Apply(s, ws, k))
        /\ Failed(s, Apply(s, ws, Len(ws)), a)
    BY <1>3, <2>1, <2>2, <2>4, <2>5, <2>6, <2>7
  <2>. QED BY <2>8 DEF ws
<1>7. CASE x = "completed" /\ mem.posting[a].st = "absent"
  <2>1. /\ Len(ws) = 5 /\ ws[1] = fs[1] /\ ws[2] = fs[2]
        /\ ws[3] = W("tx", a, t) /\ ws[4] = W("posting", a, NewPosting) /\ ws[5] = W("command", a, c)
    BY <1>7 DEF CompleteWrites, StatusWrites, EnqueuePosting, NewPosting, TxWrite
  <2>. HIDE DEF fs, ws, c, t, s1, s2
  <2>2. /\ Sound(s3)
        /\ s3.order = s2.order /\ s3.attempt = s2.attempt /\ s3.command = s2.command
        /\ s3.posting = s2.posting /\ s3.webhook = s2.webhook
    BY <1>3, <1>5, SoundTx
  <2>. HIDE DEF s3
  <2>. DEFINE s4 == Put(s3, W("posting", a, NewPosting))
              s5 == Put(s4, W("command", a, c))
  <2>3. /\ Sound(s4)
        /\ s4.order = s3.order /\ s4.attempt = s3.attempt /\ s4.command = s3.command
        /\ s4.webhook = s3.webhook /\ s4.posting[a].st # "absent"
    BY <1>5, <1>7, <2>2, NewPostingPut
  <2>. HIDE DEF s4
  <2>4. s4.attempt[a].st = s4.order[OrderOf[a]] /\ s4.attempt[a].st # "absent"
    BY <1>3, <2>2, <2>3
  <2>5. /\ Sound(s5) /\ s5.webhook = s4.webhook
        /\ \A b \in Attempts : s5.command[b] = IF b = a THEN c ELSE s4.command[b]
    BY <1>4, <2>3, <2>4, SoundCommand
  <2>6. Apply(s, ws, 0) = s /\ Apply(s, ws, 1) = s1 /\ Apply(s, ws, 2) = s2
        /\ Apply(s, ws, 3) = s3 /\ Apply(s, ws, 4) = s4 /\ Apply(s, ws, 5) = s5
    BY <1>1, <2>1, Chain DEF s1, s2, s3, s4
  <2>. HIDE DEF s5
  <2>7. Failed(s, s5, a)
    BY <1>3, <2>2, <2>3, <2>5 DEF Failed
  <2>8. \A k \in 0 .. 5 : k \in {0, 1, 2, 3, 4, 5}
    OBVIOUS
  <2>9. /\ Len(ws) \in {4, 5}
        /\ \A k \in 0 .. Len(ws) : Sound(Apply(s, ws, k))
        /\ Failed(s, Apply(s, ws, Len(ws)), a)
    BY <1>3, <2>1, <2>2, <2>3, <2>5, <2>6, <2>7, <2>8
  <2>. QED BY <2>9 DEF ws
<1>. QED BY <1>6, <1>7

(* runOnce of the webhook processor.                                       *)
Processed(s, q) ==
  /\ Sound(q)
  /\ q.command = s.command
  /\ \A v \in Hooks : q.webhook[v] = s.webhook[v] \/ q.webhook[v] \in {"processed", "ignored"}

LEMMA ProcessSound ==
  ASSUME NEW s, Sound(s), ExternalOK, Similar(s, mem), mem \in Tables, left \in [Events -> Nat],
         NEW h \in Hooks, NEW n \in notice[h], NEW b \in Target(n), b \in Attempts,
         mem.webhook[h] = "queued"
  PROVE  LET ws == <<W("webhook", h, "processing")>> \o ProcessWrites(b, n)
                     \o <<W("webhook", h, "processed")>> IN
         /\ Len(ws) \in 4 .. 6
         /\ \A k \in 0 .. Len(ws) : Sound(Apply(s, ws, k))
         /\ Processed(s, Apply(s, ws, Len(ws)))
<1>. DEFINE x == n.s
            w1 == W("webhook", h, "processing")
            w2 == W("webhook", h, "processed")
            fs == StatusWrites(b, x, TRUE)
            t == [st |-> x, of |-> {b}, ref |-> n.names = "both"]
            enqueued == x = "completed" /\ mem.posting[b].st = "absent"
            recorded == n.names # "reference"
            ws == <<w1>> \o ProcessWrites(b, n) \o <<w2>>
            s1 == Put(s, w1)
            s2 == Put(s1, fs[1])
            s3 == Put(s2, fs[2])
            p4 == Put(s3, W("posting", b, NewPosting))
            s4 == IF enqueued THEN p4 ELSE s3
            p5 == Put(s4, W("tx", n.a, t))
            s5 == IF recorded THEN p5 ELSE s4
            s6 == Put(s5, w2)
<1>1. /\ s \in Tables /\ n \in Notices /\ n.a \in Attempts /\ x \in ProviderStatus
      /\ notice[h] = {n} /\ (n.signed => x \in Reached(n.a)) /\ n.names \in {"reference", "transaction", "both"}
  BY DEF Sound, ExternalOK, NoticesOK, Notices
<1>2. /\ Sound(s1) /\ s1.order = s.order /\ s1.attempt = s.attempt
      /\ s1.command = s.command /\ s1.posting = s.posting
      /\ \A v \in Hooks : s1.webhook[v] = IF v = h THEN "processing" ELSE s.webhook[v]
  BY SoundWebhook DEF Closes
<1>. HIDE DEF s1
<1>3. WebhookOpen(s1, b, x)
  BY <1>2 DEF WebhookOpen, HookOpen
<1>4. /\ Sound(s2) /\ Sound(s3)
      /\ s3.command = s1.command /\ s3.posting = s1.posting /\ s3.webhook = s1.webhook
      /\ s3.attempt[b].st = s3.order[OrderOf[b]]
  <2>1. b \in Attempts /\ Sound(s1) /\ mem \in Tables /\ x \in ProviderStatus
    BY <1>1, <1>2
  <2>. HIDE DEF x, w1, w2, t, ws
  <2>. QED BY <1>3, <2>1, StatusPuts
<1>5. x = "completed" => Vouched(b)
  <2>1. x = "completed" => SaidCompleted(n.a)
    BY <1>1 DEF SaidCompleted
  <2>2. n.a \in Alike(b)
    BY <1>1 DEF Target, Alike
  <2>. QED BY <2>1, <2>2 DEF Vouched
<1>. HIDE DEF s3, s2, fs
<1>6. enqueued => /\ Sound(p4)
                  /\ p4.order = s3.order /\ p4.attempt = s3.attempt /\ p4.command = s3.command
                  /\ p4.webhook = s3.webhook /\ p4.posting[b].st # "absent"
  BY <1>4, <1>5, NewPostingPut
<1>. HIDE DEF p4
<1>7. /\ Sound(s4)
      /\ s4.order = s3.order /\ s4.attempt = s3.attempt /\ s4.command = s3.command
      /\ s4.webhook = s3.webhook
      /\ x = "completed" => s4.posting[b].st # "absent"
  BY <1>2, <1>4, <1>6 DEF Similar
<1>. HIDE DEF s4
<1>8. /\ Sound(p5)
      /\ p5.order = s4.order /\ p5.attempt = s4.attempt /\ p5.command = s4.command
      /\ p5.posting = s4.posting /\ p5.webhook = s4.webhook
  <2>1. t \in [st : ProviderStatus \union {"absent"}, of : SUBSET Attempts, ref : BOOLEAN]
    BY <1>1
  <2>. HIDE DEF t
  <2>. QED BY <1>1, <1>7, <2>1, SoundTx
<1>. HIDE DEF p5
<1>9. /\ Sound(s5) /\ s5.command = s.command
      /\ s5.attempt[b].st = s5.order[OrderOf[b]]
      /\ s5.webhook = s1.webhook
      /\ x = "completed" => s5.posting[b].st # "absent"
  BY <1>2, <1>4, <1>7, <1>8
<1>. HIDE DEF s5
<1>10. Processed(s, s6)
  <2>1. \A m \in notice[h] : Settled(s5, m)
    BY <1>1, <1>9 DEF Settled
  <2>2. /\ Sound(s6) /\ s6.command = s5.command
        /\ \A v \in Hooks : s6.webhook[v] = IF v = h THEN "processed" ELSE s5.webhook[v]
    BY <1>9, <2>1, SoundWebhook
  <2>. QED BY <1>2, <1>9, <2>2 DEF Processed
<1>. HIDE DEF s6
<1>11. /\ Apply(s, ws, 0) = s
       /\ Apply(s, ws, 1) = Put(s, ws[1])
       /\ Apply(s, ws, 2) = Put(Apply(s, ws, 1), ws[2])
       /\ Apply(s, ws, 3) = Put(Apply(s, ws, 2), ws[3])
       /\ Apply(s, ws, 4) = Put(Apply(s, ws, 3), ws[4])
       /\ Apply(s, ws, 5) = Put(Apply(s, ws, 4), ws[5])
       /\ Apply(s, ws, 6) = Put(Apply(s, ws, 5), ws[6])
  <2>. HIDE DEF ws
  <2>. QED BY <1>1, Chain
<1>12. /\ Len(ws) = 4 + (IF enqueued THEN 1 ELSE 0) + (IF recorded THEN 1 ELSE 0)
       /\ ws[1] = w1 /\ ws[2] = fs[1] /\ ws[3] = fs[2]
       /\ enqueued => ws[4] = W("posting", b, NewPosting)
       /\ enqueued /\ recorded => ws[5] = W("tx", n.a, t) /\ ws[6] = w2
       /\ enqueued /\ ~recorded => ws[5] = w2
       /\ ~enqueued /\ recorded => ws[4] = W("tx", n.a, t) /\ ws[5] = w2
       /\ ~enqueued /\ ~recorded => ws[4] = w2
  <2>. DEFINE es == IF x = "completed" THEN EnqueuePosting(b) ELSE <<>>
              rs == IF n.names = "reference" THEN <<>> ELSE <<TxWrite(n.a, n.s, {b}, n.names = "both")>>
              st == <<W("attempt", b, [st |-> PaymentStatus[x], ref |-> TRUE, at |-> mem.attempt[b].at]),
                      W("order", OrderOf[b], PaymentStatus[x])>>
  <2>1. es = IF enqueued THEN <<W("posting", b, NewPosting)>> ELSE <<>>
    BY DEF EnqueuePosting, NewPosting
  <2>2. rs = IF recorded THEN <<W("tx", n.a, t)>> ELSE <<>>
    BY DEF TxWrite
  <2>3. fs = st
    BY DEF fs, StatusWrites
  <2>4. ws = <<w1>> \o (st \o es \o rs) \o <<w2>>
    BY DEF ProcessWrites, StatusWrites
  <2>. HIDE DEF es, rs, ws, w1, w2, t, enqueued, recorded
  <2>. QED BY <2>1, <2>2, <2>3, <2>4
<1>13. Apply(s, ws, 1) = s1 /\ Apply(s, ws, 2) = s2 /\ Apply(s, ws, 3) = s3
  BY <1>11, <1>12 DEF s1, s2, s3
<1>. HIDE DEF ws, w1, w2, t, x, enqueued, recorded
<1>14. \A k \in 0 .. 4 : k \in {0, 1, 2, 3, 4}
  OBVIOUS
<1>15. \A k \in 0 .. 5 : k \in {0, 1, 2, 3, 4, 5}
  OBVIOUS
<1>16. \A k \in 0 .. 6 : k \in {0, 1, 2, 3, 4, 5, 6}
  OBVIOUS
<1>17. Sound(s6)
  BY <1>10 DEF Processed
<1>18. CASE enqueued /\ recorded
  <2>1. Len(ws) = 6
    BY <1>12, <1>18
  <2>2. Apply(s, ws, 4) = s4
    BY <1>11, <1>12, <1>13, <1>18 DEF s4, p4
  <2>3. Apply(s, ws, 5) = s5
    BY <1>11, <1>12, <1>18, <2>2 DEF s5, p5
  <2>4. Apply(s, ws, 6) = s6
    BY <1>11, <1>12, <1>18, <2>3 DEF s6
  <2>. QED BY <1>2, <1>4, <1>7, <1>9, <1>10, <1>11, <1>13, <1>16, <1>17, <2>1, <2>2, <2>3, <2>4 DEF ws, w1, w2
<1>19. CASE enqueued /\ ~recorded
  <2>1. Len(ws) = 5
    BY <1>12, <1>19
  <2>2. Apply(s, ws, 4) = s4 /\ s5 = s4
    BY <1>11, <1>12, <1>13, <1>19 DEF s4, p4, s5
  <2>3. Apply(s, ws, 5) = s6
    BY <1>11, <1>12, <1>19, <2>2 DEF s6
  <2>. QED BY <1>2, <1>4, <1>7, <1>10, <1>11, <1>13, <1>15, <1>17, <2>1, <2>2, <2>3 DEF ws, w1, w2
<1>20. CASE ~enqueued /\ recorded
  <2>1. Len(ws) = 5
    BY <1>12, <1>20
  <2>2. s4 = s3
    BY <1>20 DEF s4
  <2>3. Apply(s, ws, 4) = s5
    BY <1>11, <1>12, <1>13, <1>20, <2>2 DEF s5, p5
  <2>4. Apply(s, ws, 5) = s6
    BY <1>11, <1>12, <1>20, <2>3 DEF s6
  <2>. QED BY <1>2, <1>4, <1>9, <1>10, <1>11, <1>13, <1>15, <1>17, <2>1, <2>3, <2>4 DEF ws, w1, w2
<1>21. CASE ~enqueued /\ ~recorded
  <2>1. Len(ws) = 4
    BY <1>12, <1>21
  <2>2. s4 = s3 /\ s5 = s3
    BY <1>21 DEF s4, s5
  <2>3. Apply(s, ws, 4) = s6
    BY <1>11, <1>12, <1>13, <1>21, <2>2 DEF s6
  <2>. QED BY <1>2, <1>4, <1>10, <1>11, <1>13, <1>14, <1>17, <2>1, <2>3 DEF ws, w1, w2
<1>. QED BY <1>18, <1>19, <1>20, <1>21

-----------------------------------------------------------------------------
(* Steps.                                                                  *)

(* What a section of code that writes leaves of the two sets of tables,    *)
(* when all prefixes of its writes keep tables like those in memory sound. *)
Keeps(ws) ==
  \A s : Sound(s) /\ Similar(s, mem) => \A k \in 0 .. Len(ws) : Sound(Apply(s, ws, k))

Kept ==
  /\ Sound(mem') /\ Sound(db')
  /\ lag' \in 0 .. MaxLag + 1
  /\ lag' = 0 => Similar(db', mem')

LEMMA RowChanged ==
  ASSUME NEW S, NEW r \in [st : S, of : SUBSET Attempts, ref : BOOLEAN],
         NEW o \in SUBSET Attempts, NEW b \in BOOLEAN
  PROVE  [r EXCEPT !.of = o, !.ref = b] \in [st : S, of : SUBSET Attempts, ref : BOOLEAN]
OBVIOUS

(* What the database keeps of a transaction's attempt and reference does   *)
(* not matter.                                                             *)
LEMMA SaveSound ==
  ASSUME NEW s \in Tables, NEW ws, NEW k, Sound(Apply(s, ws, k))
  PROVE  /\ Sound(Save(s, ws, k))
         /\ \A m : Similar(Apply(s, ws, k), m) => Similar(Save(s, ws, k), m)
<1>. DEFINE p == Apply(s, ws, k)
            q == Save(s, ws, k)
            R == [st : ProviderStatus \union {"absent"}, of : SUBSET Attempts, ref : BOOLEAN]
            Known(a) == p.tx[a].ref \/ s.tx[a].ref
            Row(a) == [p.tx[a] EXCEPT !.of = IF p.tx[a].of = {} THEN s.tx[a].of ELSE p.tx[a].of,
                                      !.ref = Known(a)]
            f == [a \in Attempts |-> Row(a)]
<1>1. p \in Tables /\ p.tx \in [Attempts -> R] /\ s.tx \in [Attempts -> R]
  BY DEF Sound, Tables
<1>2. q = [p EXCEPT !.tx = f]
  BY DEF Save
<1>. HIDE DEF p, q
<1>3. f \in [Attempts -> R]
  <2>1. ASSUME NEW a \in Attempts PROVE Row(a) \in R
    <3>1. p.tx[a] \in R /\ s.tx[a] \in R
      BY <1>1
    <3>2. Known(a) \in BOOLEAN
      BY Zenon
    <3>. HIDE DEF Known
    <3>3. p.tx[a].of \in SUBSET Attempts /\ s.tx[a].of \in SUBSET Attempts
      BY <3>1
    <3>4. (IF p.tx[a].of = {} THEN s.tx[a].of ELSE p.tx[a].of) \in SUBSET Attempts
      BY <3>3
    <3>. QED BY <3>1, <3>2, <3>4, RowChanged, Zenon
  <2>. HIDE DEF Row
  <2>. QED BY <2>1
<1>. HIDE DEF f
<1>4. q \in Tables
  BY <1>1, <1>2, <1>3 DEF Tables
<1>5. /\ q.order = p.order /\ q.attempt = p.attempt /\ q.command = p.command
      /\ q.posting = p.posting /\ q.webhook = p.webhook
  BY <1>1, <1>2 DEF Tables
<1>6. Sound(p)
  BY DEF p
<1>7. Grounded(q)
  BY <1>5, <1>6 DEF Sound, Grounded
<1>8. (\A b : CommandOpen(q, b) <=> CommandOpen(p, b))
      /\ (\A b, x : WebhookOpen(q, b, x) <=> WebhookOpen(p, b, x))
  BY <1>5 DEF CommandOpen, WebhookOpen, HookOpen
<1>9. PostingKept(q) /\ OrderKept(q)
  BY <1>5, <1>6, <1>8 DEF Sound, PostingKept, OrderKept
<1>10. \A m : Similar(p, m) => Similar(q, m)
  BY <1>5 DEF Similar
<1>. QED BY <1>4, <1>7, <1>9, <1>10 DEF p, q, Sound

LEMMA PerformKeeps ==
  ASSUME IInv, NEW ws, Len(ws) \in Nat, Keeps(ws), Perform(ws)
  PROVE  Kept /\ mem' = Apply(mem, ws, Len(ws))
<1>. DEFINE n == Len(ws)
<1>1. mem \in Tables /\ db \in Tables /\ MaxLag \in Nat /\ lag \in 0 .. MaxLag + 1
  BY PaymentsAssumption DEF IInv, Sound
<1>2. mem' = Apply(mem, ws, n)
  BY DEF Perform
<1>3. Similar(mem, mem)
  BY DEF Similar
<1>4. Sound(mem) /\ Sound(db) /\ (lag = 0 => Similar(db, mem))
  BY DEF IInv
<1>5. n \in 0 .. n /\ n \in Nat /\ \A k \in 0 .. n - 1 : k \in 0 .. n
  OBVIOUS
<1>. HIDE DEF n
<1>6. \A s : Sound(s) /\ Similar(s, mem) => \A k \in 0 .. n : Sound(Apply(s, ws, k))
  BY DEF Keeps, n
<1>7. Sound(Apply(mem, ws, n))
  BY <1>3, <1>4, <1>5, <1>6
<1>8. CASE lag = 0 /\ db' = Save(db, ws, n) /\ lag' = 0
  <2>1. Sound(Apply(db, ws, n)) /\ Similar(Apply(db, ws, n), Apply(mem, ws, n))
    BY <1>1, <1>4, <1>5, <1>6, <1>8, ApplySimilar
  <2>2. Sound(Save(db, ws, n)) /\ Similar(Save(db, ws, n), Apply(mem, ws, n))
    BY <1>1, <2>1, SaveSound
  <2>. QED BY <1>1, <1>2, <1>7, <1>8, <2>2 DEF Kept, n
<1>9. CASE lag = 0 /\ lag' = 1 /\ \E k \in 0 .. n - 1 : db' = Save(db, ws, k)
  <2>1. PICK k \in 0 .. n - 1 : db' = Save(db, ws, k)
    BY <1>9
  <2>2. Sound(Apply(db, ws, k))
    BY <1>4, <1>5, <1>6, <1>9
  <2>3. Sound(Save(db, ws, k))
    BY <1>1, <2>2, SaveSound
  <2>. QED BY <1>1, <1>2, <1>7, <1>9, <2>1, <2>3 DEF Kept, n
<1>10. CASE lag \in 1 .. MaxLag /\ lag' = lag + 1 /\ db' = db
  BY <1>1, <1>2, <1>4, <1>7, <1>10 DEF Kept, n
<1>. QED BY <1>8, <1>9, <1>10 DEF Perform, n


(* A section of code with one write.                                       *)
LEMMA OneWriteKeeps ==
  ASSUME IInv, NEW w, Perform(<<w>>),
         \A s : Sound(s) /\ Similar(s, mem) => Sound(Put(s, w))
  PROVE  Kept /\ mem' = Put(mem, w)
<1>1. \A s : Sound(s) /\ Similar(s, mem) =>
        Apply(s, <<w>>, 1) = Put(s, w) /\ \A k \in 0 .. 1 : Sound(Apply(s, <<w>>, k))
  BY ChainOfOne
<1>. DEFINE ws == <<w>>
<1>2. Len(ws) = 1 /\ Perform(ws)
  OBVIOUS
<1>3. \A s : Sound(s) /\ Similar(s, mem) =>
        Apply(s, ws, 1) = Put(s, w) /\ \A k \in 0 .. 1 : Sound(Apply(s, ws, k))
  BY <1>1
<1>. HIDE DEF ws
<1>4. Keeps(ws) /\ Len(ws) \in Nat
  BY <1>2, <1>3 DEF Keeps
<1>5. Kept /\ mem' = Apply(mem, ws, 1)
  BY <1>2, <1>4, PerformKeeps
<1>6. Sound(mem) /\ Similar(mem, mem)
  BY DEF IInv, Similar
<1>. QED BY <1>3, <1>5, <1>6

(* The provider, its webhooks and the ledger go on: nothing that was true  *)
(* of them gets false.                                                     *)
Grows ==
  /\ ExternalOK' /\ kind' = kind
  /\ ledger \subseteq ledger'
  /\ \A a \in Attempts : Reached(a) \subseteq Reached(a)'
  /\ \A h \in Hooks : notice[h] \subseteq notice'[h]

LEMMA QuietGrows ==
  ASSUME IInv, UNCHANGED external
  PROVE  Grows
<1>1. provider' = provider /\ kind' = kind /\ notice' = notice /\ ledger' = ledger
  BY DEF external
<1>2. \A a : Reached(a)' = Reached(a)
  BY <1>1 DEF Reached
<1>. QED BY <1>1, <1>2 DEF Grows, IInv, ExternalOK, KindOK, NoticesOK

LEMMA StillVouched ==
  ASSUME Grows, NEW a, Vouched(a)
  PROVE  Vouched(a)'
<1>1. Alike(a)' = Alike(a)
  BY DEF Grows, Alike
<1>2. PICK b \in Alike(a) : SaidCompleted(b)
  BY DEF Vouched
<1>3. b \in Attempts
  BY DEF Alike
<1>4. SaidCompleted(b)'
  BY <1>2, <1>3 DEF SaidCompleted, Grows
<1>. QED BY <1>1, <1>2, <1>4 DEF Vouched

(* The parts of the invariant, put together.                               *)
LEMMA AssembleGrown ==
  ASSUME IInv, Kept, Grows, left' \in [Events -> Nat],
         \A h \in Hooks : mem'.webhook[h] # "processing",
         CallsOK', PostsOK', LedgerOK'
  PROVE  IInv'
<1>1. \A a : Vouched(a) => Vouched(a)'
  BY StillVouched
<1>2. \A a : Alike(a)' = Alike(a)
  BY DEF Grows, Alike
<1>3. \A n : Target(n)' = Target(n)
  BY <1>2 DEF Target
<1>4. \A a, x : WebhookOpen(mem', a, x) => WebhookOpen(mem, a, x)'
  BY <1>3 DEF Grows, WebhookOpen, HookOpen
<1>5. \A a, x : WebhookOpen(db', a, x) => WebhookOpen(db, a, x)'
  BY <1>3 DEF Grows, WebhookOpen, HookOpen
<1>6. Grounded(mem)' /\ Grounded(db)'
  BY <1>1 DEF Kept, Sound, Grounded, Grows
<1>7. PostingKept(mem)' /\ OrderKept(mem)'
  BY <1>2, <1>4 DEF Kept, Sound, PostingKept, OrderKept, CommandOpen
<1>8. PostingKept(db)' /\ OrderKept(db)'
  BY <1>2, <1>5 DEF Kept, Sound, PostingKept, OrderKept, CommandOpen
<1>9. (lag = 0 => Similar(db, mem))'
  BY DEF Kept, Similar
<1>. QED BY <1>6, <1>7, <1>8, <1>9 DEF IInv, Kept, Sound, Grows

LEMMA Assemble ==
  ASSUME IInv, Kept, UNCHANGED external, left' \in [Events -> Nat],
         \A h \in Hooks : mem'.webhook[h] # "processing",
         CallsOK', PostsOK'
  PROVE  IInv'
<1>1. Grows
  BY QuietGrows
<1>2. LedgerOK'
  BY <1>1, StillVouched DEF IInv, LedgerOK, external
<1>. QED BY <1>1, <1>2, AssembleGrown

(* Calls under way while the commands they work on stay so.                *)
LEMMA CallsGrown ==
  ASSUME IInv, Grows, UNCHANGED calls,
         \A b \in Attempts : mem.command[b].st = "processing" => mem'.command[b].st = "processing"
  PROVE  CallsOK'
BY DEF IInv, CallsOK, Grows

LEMMA CallsKept ==
  ASSUME IInv, UNCHANGED <<calls, external>>,
         \A b \in Attempts : mem.command[b].st = "processing" => mem'.command[b].st = "processing"
  PROVE  CallsOK'
BY QuietGrows, CallsGrown

LEMMA PostsGrown ==
  ASSUME IInv, Grows, UNCHANGED posts
  PROVE  PostsOK'
BY StillVouched DEF IInv, PostsOK, Grows

LEMMA PostsKept ==
  ASSUME IInv, UNCHANGED <<posts, external>>
  PROVE  PostsOK'
BY QuietGrows, PostsGrown

(* A step that leaves the store alone.                                     *)
LEMMA StoreKept ==
  ASSUME IInv, UNCHANGED store
  PROVE  Kept /\ mem' = mem /\ \A h \in Hooks : mem'.webhook[h] # "processing"
BY DEF IInv, Kept, store, Similar

(* The budget.                                                             *)
LEMMA SpendTyped ==
  ASSUME left \in [Events -> Nat], NEW e \in Events, Spend(e)
  PROVE  left' \in [Events -> Nat]
BY DEF Spend


(* submitPayment, approvePayment.                                          *)
LEMMA SubmitStep ==
  ASSUME IInv, NEW a \in Attempts, Submit(a)
  PROVE  IInv'
<1>. DEFINE ws == SubmitWrites(a)
<1>1. \A s : Sound(s) =>
        /\ Len(ws) = 3
        /\ \A k \in 0 .. 3 : Sound(Apply(s, ws, k))
        /\ Apply(s, ws, 3).webhook = s.webhook
        /\ \A b \in Attempts : b # a => Apply(s, ws, 3).command[b] = s.command[b]
  BY SubmitSound
<1>2. Perform(ws) /\ mem.attempt[a].st = "absent" /\ Spend("submit")
      /\ UNCHANGED <<calls, posts, external>>
  BY DEF Submit, Fresh
<1>. HIDE DEF ws
<1>3. Sound(mem) /\ \A w \in Hooks : mem.webhook[w] # "processing"
  BY DEF IInv
<1>4. Len(ws) = 3 /\ Len(ws) \in Nat
  <2>1. Len(ws) = 3
    BY <1>1, <1>3
  <2>. QED BY <2>1
<1>5. Keeps(ws)
  BY <1>1, <1>4 DEF Keeps
<1>6. Kept /\ mem' = Apply(mem, ws, 3)
  <2>1. Kept /\ mem' = Apply(mem, ws, Len(ws))
    BY <1>2, <1>4, <1>5, PerformKeeps
  <2>. QED BY <1>4, <2>1
<1>7. mem.command[a].st # "processing"
  BY <1>2, <1>3 DEF Sound, Grounded
<1>8. CallsOK'
  BY <1>1, <1>2, <1>3, <1>6, <1>7, CallsKept DEF external
<1>9. PostsOK'
  BY <1>2, PostsKept DEF external
<1>10. left' \in [Events -> Nat]
  BY <1>2, SpendTyped DEF IInv, Events
<1>11. \A w \in Hooks : mem'.webhook[w] # "processing"
  BY <1>1, <1>3, <1>6
<1>. QED BY <1>2, <1>6, <1>8, <1>9, <1>10, <1>11, Assemble

(* retryPayment.                                                           *)
LEMMA RetryStep ==
  ASSUME IInv, NEW a \in Attempts, Retry(a)
  PROVE  IInv'
<1>. DEFINE ws == <<W("order", OrderOf[a], "created")>> \o SubmitWrites(a)
<1>1. \A s : Sound(s) =>
        /\ Len(ws) = 4
        /\ \A k \in 0 .. 4 : Sound(Apply(s, ws, k))
        /\ Apply(s, ws, 4).webhook = s.webhook
        /\ \A b \in Attempts : b # a => Apply(s, ws, 4).command[b] = s.command[b]
  BY RetrySound
<1>2. Perform(ws) /\ mem.attempt[a].st = "absent" /\ Spend("submit")
      /\ UNCHANGED <<calls, posts, external>>
  BY DEF Retry, Fresh
<1>. HIDE DEF ws
<1>3. Sound(mem) /\ \A w \in Hooks : mem.webhook[w] # "processing"
  BY DEF IInv
<1>4. Len(ws) = 4 /\ Len(ws) \in Nat
  <2>1. Len(ws) = 4
    BY <1>1, <1>3
  <2>. QED BY <2>1
<1>5. Keeps(ws)
  BY <1>1, <1>4 DEF Keeps
<1>6. Kept /\ mem' = Apply(mem, ws, 4)
  <2>1. Kept /\ mem' = Apply(mem, ws, Len(ws))
    BY <1>2, <1>4, <1>5, PerformKeeps
  <2>. QED BY <1>4, <2>1
<1>7. mem.command[a].st # "processing"
  BY <1>2, <1>3 DEF Sound, Grounded
<1>8. CallsOK'
  BY <1>1, <1>2, <1>3, <1>6, <1>7, CallsKept DEF external
<1>9. PostsOK'
  BY <1>2, PostsKept DEF external
<1>10. left' \in [Events -> Nat]
  BY <1>2, SpendTyped DEF IInv, Events
<1>11. \A w \in Hooks : mem'.webhook[w] # "processing"
  BY <1>1, <1>3, <1>6
<1>. QED BY <1>2, <1>6, <1>8, <1>9, <1>10, <1>11, Assemble

(* cancelPayment, rejectPayment.                                           *)
LEMMA CancelStep ==
  ASSUME IInv, NEW o \in Orders, Cancel(o) \/ RetryRefused(o)
  PROVE  IInv'
<1>. DEFINE x == IF Cancel(o) THEN "cancelled" ELSE "created"
            w == W("order", o, x)
<1>1. x \in OrderStatus /\ x \notin Owed
  BY DEF OrderStatus, Owed
<1>2. \A s : Sound(s) =>
        Sound(Put(s, w)) /\ Put(s, w).command = s.command /\ Put(s, w).webhook = s.webhook
  <2>. HIDE DEF x
  <2>. QED BY <1>1, SoundOrder
<1>3. Perform(<<w>>) /\ (Spend("cancel") \/ Spend("error")) /\ UNCHANGED <<calls, posts, external>>
  <2>1. CASE Cancel(o)
    BY <2>1 DEF Cancel
  <2>2. CASE RetryRefused(o) /\ ~Cancel(o)
    BY <2>2 DEF RetryRefused
  <2>. QED BY <2>1, <2>2
<1>. HIDE DEF w
<1>4. Kept /\ mem' = Put(mem, w)
  BY <1>2, <1>3, OneWriteKeeps
<1>5. Sound(mem) /\ \A v \in Hooks : mem.webhook[v] # "processing"
  BY DEF IInv
<1>6. mem'.command = mem.command /\ mem'.webhook = mem.webhook
  BY <1>2, <1>4, <1>5
<1>7. CallsOK' /\ PostsOK'
  BY <1>3, <1>6, CallsKept, PostsKept DEF external
<1>8. left' \in [Events -> Nat]
  BY <1>3, SpendTyped DEF IInv, Events
<1>. QED BY <1>3, <1>4, <1>5, <1>6, <1>7, <1>8, Assemble

(* runOnce while the provider is disabled.                                 *)
LEMMA RunDisabledStep ==
  ASSUME IInv, NEW a \in Attempts, RunDisabled(a)
  PROVE  IInv'
<1>. DEFINE ws == <<W("command", a, [mem.command[a] EXCEPT !.st = "processing"])>> \o FailWrites(a)
<1>1. Sound(mem) /\ mem \in Tables /\ Similar(mem, mem) /\ \A w \in Hooks : mem.webhook[w] # "processing"
  BY DEF IInv, Sound, Similar
<1>2. Perform(ws) /\ mem.command[a].st = "pending" /\ Spend("error")
      /\ UNCHANGED <<calls, posts, external>>
  BY DEF RunDisabled
<1>3. \A s : Sound(s) /\ Similar(s, mem) =>
        /\ Len(ws) \in {2, 4}
        /\ \A k \in 0 .. Len(ws) : Sound(Apply(s, ws, k))
        /\ Failed(s, Apply(s, ws, Len(ws)), a)
  BY <1>1, <1>2, DisabledSound
<1>. HIDE DEF ws
<1>4. Len(ws) \in Nat
  BY <1>1, <1>3
<1>5. Keeps(ws)
  BY <1>3 DEF Keeps
<1>6. Kept /\ mem' = Apply(mem, ws, Len(ws))
  BY <1>2, <1>4, <1>5, PerformKeeps
<1>7. Failed(mem, Apply(mem, ws, Len(ws)), a)
  BY <1>1, <1>3
<1>8. mem'.webhook = mem.webhook /\ \A b \in Attempts : b # a => mem'.command[b] = mem.command[b]
  BY <1>6, <1>7 DEF Failed
<1>9. CallsOK' /\ PostsOK'
  BY <1>2, <1>8, CallsKept, PostsKept DEF external
<1>10. left' \in [Events -> Nat]
  BY <1>2, SpendTyped DEF IInv, Events
<1>. QED BY <1>1, <1>2, <1>6, <1>8, <1>9, <1>10, Assemble

(* runOnce up to its await.                                                *)
LEMMA ClaimStep ==
  ASSUME IInv, NEW u \in Workers, NEW a \in Attempts, Claim(u, a)
  PROVE  IInv'
<1>. DEFINE c == [mem.command[a] EXCEPT !.st = "processing"]
            w == W("command", a, c)
            call == [pc |-> IF Duplicate(a) THEN "duplicate" ELSE "sent", a |-> a, res |-> "none"]
<1>1. /\ Sound(mem) /\ mem \in Tables /\ \A v \in Hooks : mem.webhook[v] # "processing"
      /\ CallsOK /\ left \in [Events -> Nat]
  BY DEF IInv, Sound
<1>2. mem.command[a] \in [st : {"absent", "pending", "processing", "completed", "dead_lettered"},
                          n : 0 .. MaxRetries]
  BY <1>1 DEF Tables
<1>3. /\ Perform(<<w>>) /\ mem.command[a].st = "pending" /\ UNCHANGED <<left, posts, external>>
      /\ calls' = [calls EXCEPT ![u] = call]
  BY DEF Claim
<1>4. mem.attempt[a].st # "absent" /\ mem.command[a].n < MaxRetries
  BY <1>1, <1>3 DEF Sound, Grounded, Active
<1>5. c \in [st : {"pending", "processing", "completed", "dead_lettered"}, n : 0 .. MaxRetries]
      /\ c.n < MaxRetries /\ c.st = "processing" /\ c.st # "completed"
  BY <1>2, <1>4
<1>. HIDE DEF c
<1>6. \A s : Sound(s) /\ s.attempt[a].st # "absent" =>
        /\ Sound(Put(s, w)) /\ Put(s, w).webhook = s.webhook
        /\ \A b \in Attempts : Put(s, w).command[b] = IF b = a THEN c ELSE s.command[b]
  BY <1>5, SoundCommand
<1>. HIDE DEF w
<1>7. \A s : Similar(s, mem) => s.attempt[a].st # "absent"
  BY <1>4 DEF Similar
<1>8. Kept /\ mem' = Put(mem, w)
  BY <1>3, <1>6, <1>7, OneWriteKeeps
<1>9. /\ mem'.webhook = mem.webhook
      /\ \A b \in Attempts : mem'.command[b] = IF b = a THEN c ELSE mem.command[b]
  BY <1>1, <1>4, <1>6, <1>8
<1>10. CallsOK'
  <2>1. \A b : Reached(b)' = Reached(b)
    BY <1>3 DEF Reached, external
  <2>2. \A v \in Workers : calls[v].pc # "idle" => calls[v].a # a
    BY <1>1, <1>3 DEF CallsOK
  <2>3. call \in Call /\ call.a = a /\ call.pc # "idle" /\ call.pc # "answered"
    BY DEF Call
  <2>. HIDE DEF call
  <2>4. \A v \in Workers : calls'[v] = IF v = u THEN call ELSE calls[v]
    BY <1>1, <1>3 DEF CallsOK
  <2>5. calls' \in [Workers -> Call]
    BY <1>1, <1>3, <2>3 DEF CallsOK
  <2>. QED BY <1>1, <1>5, <1>9, <2>1, <2>2, <2>3, <2>4, <2>5 DEF CallsOK
<1>11. PostsOK'
  BY <1>3, PostsKept DEF external
<1>. QED BY <1>1, <1>3, <1>8, <1>9, <1>10, <1>11, Assemble

(* A worker is done with its command: the others are not affected.         *)
LEMMA CallDone ==
  ASSUME IInv, NEW u \in Workers, calls[u].pc # "idle", UNCHANGED external,
         calls' = [calls EXCEPT ![u] = Idle],
         \A b \in Attempts : b # calls[u].a => mem'.command[b].st = mem.command[b].st
  PROVE  CallsOK'
<1>1. \A b : Reached(b)' = Reached(b)
  BY DEF Reached, external
<1>2. CallsOK
  BY DEF IInv
<1>3. \A v \in Workers : calls'[v] = IF v = u THEN Idle ELSE calls[v]
  BY <1>2 DEF CallsOK
<1>4. calls' \in [Workers -> Call]
  BY <1>2 DEF CallsOK, Idle, Call
<1>5. Idle.pc = "idle"
  BY DEF Idle
<1>. QED BY <1>1, <1>2, <1>3, <1>4, <1>5 DEF CallsOK

(* The answer of the provider is stored.                                   *)
LEMMA CompleteStep ==
  ASSUME IInv, NEW u \in Workers, Complete(u)
  PROVE  IInv'
<1>. DEFINE a == calls[u].a
            x == calls[u].res
            ws == CompleteWrites(a, x)
<1>1. /\ Sound(mem) /\ mem \in Tables /\ Similar(mem, mem) /\ CallsOK
      /\ left \in [Events -> Nat] /\ \A w \in Hooks : mem.webhook[w] # "processing"
  BY DEF IInv, Sound, Similar
<1>2. calls[u].pc = "answered" /\ Perform(ws) /\ calls' = [calls EXCEPT ![u] = Idle]
      /\ UNCHANGED <<left, posts, external>>
  BY DEF Complete
<1>3. a \in Attempts /\ mem.command[a].st = "processing" /\ x \in Reached(a)
  BY <1>1, <1>2 DEF CallsOK
<1>4. x \in ProviderStatus
  BY <1>3 DEF Reached, IInv, ExternalOK, KindOK
<1>. HIDE DEF a, x
<1>5. \A s : Sound(s) /\ Similar(s, mem) =>
        /\ Len(ws) \in {4, 5}
        /\ \A k \in 0 .. Len(ws) : Sound(Apply(s, ws, k))
        /\ Failed(s, Apply(s, ws, Len(ws)), a)
  BY <1>1, <1>3, <1>4, CompleteSound
<1>. HIDE DEF ws
<1>6. Len(ws) \in Nat
  BY <1>1, <1>5
<1>7. Keeps(ws)
  BY <1>5 DEF Keeps
<1>8. Kept /\ mem' = Apply(mem, ws, Len(ws))
  BY <1>2, <1>6, <1>7, PerformKeeps
<1>9. Failed(mem, Apply(mem, ws, Len(ws)), a)
  BY <1>1, <1>5
<1>10. mem'.webhook = mem.webhook /\ \A b \in Attempts : b # a => mem'.command[b] = mem.command[b]
  BY <1>8, <1>9 DEF Failed
<1>11. CallsOK'
  BY <1>2, <1>10, CallDone DEF a, external
<1>12. PostsOK'
  BY <1>2, PostsKept DEF external
<1>. QED BY <1>1, <1>2, <1>8, <1>10, <1>11, <1>12, Assemble

(* The catch of runOnce.                                                   *)
LEMMA FailCommandStep ==
  ASSUME IInv, NEW u \in Workers, FailCommand(u)
  PROVE  IInv'
<1>. DEFINE a == calls[u].a
            ws == FailWrites(a)
<1>1. /\ Sound(mem) /\ mem \in Tables /\ Similar(mem, mem) /\ CallsOK
      /\ left \in [Events -> Nat] /\ \A w \in Hooks : mem.webhook[w] # "processing"
  BY DEF IInv, Sound, Similar
<1>2. calls[u].pc \in {"error", "duplicate"} /\ Perform(ws) /\ calls' = [calls EXCEPT ![u] = Idle]
      /\ UNCHANGED <<left, posts, external>>
  BY DEF FailCommand
<1>3. a \in Attempts /\ mem.command[a].st = "processing"
  BY <1>1, <1>2 DEF CallsOK
<1>. HIDE DEF a
<1>4. ASSUME NEW s, Sound(s), Similar(s, mem)
      PROVE  FailPrefix(s, a)
  <2>1. s.command[a] = mem.command[a]
    BY <1>3, <1>4 DEF Similar
  <2>. QED BY <1>3, <1>4, <2>1 DEF FailPrefix, Similar, Active
<1>5. \A s : Sound(s) /\ Similar(s, mem) =>
        /\ Len(ws) \in {1, 3}
        /\ \A k \in 0 .. Len(ws) : Sound(Apply(s, ws, k))
        /\ Failed(s, Apply(s, ws, Len(ws)), a)
  BY <1>3, <1>4, FailSound
<1>. HIDE DEF ws
<1>6. Len(ws) \in Nat
  BY <1>1, <1>5
<1>7. Keeps(ws)
  BY <1>5 DEF Keeps
<1>8. Kept /\ mem' = Apply(mem, ws, Len(ws))
  BY <1>2, <1>6, <1>7, PerformKeeps
<1>9. Failed(mem, Apply(mem, ws, Len(ws)), a)
  BY <1>1, <1>5
<1>10. mem'.webhook = mem.webhook /\ \A b \in Attempts : b # a => mem'.command[b] = mem.command[b]
  BY <1>8, <1>9 DEF Failed
<1>11. CallsOK'
  BY <1>2, <1>10, CallDone DEF a, external
<1>12. PostsOK'
  BY <1>2, PostsKept DEF external
<1>. QED BY <1>1, <1>2, <1>8, <1>10, <1>11, <1>12, Assemble

(* markProviderCommandTransient: memory and database part.                 *)
LEMMA TransientStep ==
  ASSUME IInv, NEW u \in Workers, TransientError(u)
  PROVE  IInv'
<1>. DEFINE a == calls[u].a
            q == mem'
<1>1. /\ Sound(mem) /\ mem \in Tables /\ CallsOK
      /\ left \in [Events -> Nat] /\ \A w \in Hooks : mem.webhook[w] # "processing"
  BY DEF IInv, Sound
<1>2. calls[u].pc = "error" /\ mem' = [mem EXCEPT !.command[a].st = "pending"]
      /\ calls' = [calls EXCEPT ![u] = Idle] /\ UNCHANGED <<left, db, lag, posts, external>>
  BY DEF TransientError
<1>3. a \in Attempts /\ mem.command[a].st = "processing"
  BY <1>1, <1>2 DEF CallsOK
<1>. HIDE DEF a
<1>4. q \in Tables
  <2>. DEFINE R == [st : {"absent", "pending", "processing", "completed", "dead_lettered"},
                    n : 0 .. MaxRetries]
              f == [mem.command EXCEPT ![a] = [mem.command[a] EXCEPT !.st = "pending"]]
  <2>1. mem.command \in [Attempts -> R]
    BY <1>1 DEF Tables
  <2>2. mem.command[a] \in R
    BY <1>3, <2>1
  <2>3. [mem.command[a] EXCEPT !.st = "pending"] \in R
    BY <2>2
  <2>4. f \in [Attempts -> R]
    BY <1>3, <2>1, <2>3
  <2>5. mem' = [mem EXCEPT !.command = f]
    BY <1>1, <1>2 DEF Tables
  <2>. HIDE DEF f
  <2>. QED BY <1>1, <2>4, <2>5 DEF Tables
<1>5. /\ q.order = mem.order /\ q.attempt = mem.attempt
      /\ q.posting = mem.posting /\ q.webhook = mem.webhook
      /\ \A b \in Attempts : q.command[b] = IF b = a THEN [mem.command[b] EXCEPT !.st = "pending"]
                                            ELSE mem.command[b]
  BY <1>1, <1>2, <1>3 DEF Tables
<1>. HIDE DEF q
<1>6. \A b \in Attempts : /\ q.command[b].n = mem.command[b].n
                          /\ b # a => q.command[b].st = mem.command[b].st
      /\ q.command[a].st = "pending"
  BY <1>1, <1>3, <1>5 DEF Tables
<1>7. Sound(q)
  <2>1. Grounded(q)
    BY <1>1, <1>3, <1>5, <1>6 DEF Sound, Grounded, Active
  <2>2. \A b \in Attempts : CommandOpen(mem, b) => CommandOpen(q, b)
    BY <1>6 DEF CommandOpen, Active
  <2>3. \A b, x : WebhookOpen(mem, b, x) => WebhookOpen(q, b, x)
    BY <1>5 DEF WebhookOpen, HookOpen
  <2>4. PostingKept(q)
    BY <1>1, <1>5, <2>2, <2>3 DEF Sound, PostingKept
  <2>5. OrderKept(q)
    BY <1>1, <1>5, <2>2, <2>3 DEF Sound, OrderKept, Of
  <2>. QED BY <1>4, <2>1, <2>4, <2>5 DEF Sound
<1>8. ASSUME lag = 0 PROVE Similar(db, q)
  <2>1. Similar(db, mem)
    BY <1>8 DEF IInv
  <2>2. mem.command[a] \in [st : {"absent", "pending", "processing", "completed", "dead_lettered"},
                            n : 0 .. MaxRetries]
    BY <1>1, <1>3 DEF Tables
  <2>3. db.command[a] = mem.command[a]
    BY <1>3, <2>1 DEF Similar
  <2>4. db.command[a] = [q.command[a] EXCEPT !.st = "processing"]
    <3>1. mem.command[a] = [[mem.command[a] EXCEPT !.st = "pending"] EXCEPT !.st = "processing"]
      BY <1>3, <2>2
    <3>2. q.command[a] = [mem.command[a] EXCEPT !.st = "pending"]
      BY <1>3, <1>5
    <3>. QED BY <2>3, <3>1, <3>2
  <2>5. ASSUME NEW b \in Attempts
        PROVE  \/ db.command[b] = q.command[b]
               \/ q.command[b].st = "pending" /\ db.command[b] = [q.command[b] EXCEPT !.st = "processing"]
    <3>1. CASE b = a
      BY <1>6, <2>4, <3>1
    <3>2. CASE b # a
      <4>1. q.command[b] = mem.command[b]
        BY <1>5, <3>2
      <4>. QED BY <2>1, <4>1 DEF Similar
    <3>. QED BY <3>1, <3>2
  <2>. QED BY <1>5, <2>1, <2>5 DEF Similar
<1>9. Kept
  BY <1>2, <1>7, <1>8 DEF Kept, IInv, q
<1>10. CallsOK'
  BY <1>2, <1>6, CallDone DEF a, q, external
<1>11. PostsOK'
  BY <1>2, PostsKept DEF external
<1>. QED BY <1>1, <1>2, <1>5, <1>9, <1>10, <1>11, Assemble DEF q

(* The statuses a payment has gone through to an outcome.                  *)
Past(o) ==
  CASE o = "none" -> {}
    [] o = "open" -> Unsettled
    [] o = "returned" -> Unsettled \union {"completed", "returned"}
    [] OTHER -> Unsettled \union {o}

LEMMA PastGrows ==
  /\ Past("none") = {}
  /\ Past("open") = Unsettled
  /\ \A x \in ProviderStatus \ Unsettled : x \in Past(x)
  /\ \A x \in Unsettled : x \in Past("open")
<1>1. Past("none") = {} /\ Past("open") = Unsettled
  BY DEF Past
<1>2. ASSUME NEW x \in ProviderStatus \ Unsettled PROVE x \in Past(x)
  <2>1. x # "none" /\ x # "open"
    BY <1>2 DEF ProviderStatus
  <2>2. CASE x = "returned"
    BY <2>2 DEF Past
  <2>3. CASE x # "returned"
    BY <2>1, <2>3 DEF Past
  <2>. QED BY <2>2, <2>3
<1>. QED BY <1>1, <1>2

(* The request reaches the provider, which answers.                        *)
LEMMA ExecuteStep ==
  ASSUME IInv, NEW u \in Workers, Execute(u)
  PROVE  IInv'
<1>. DEFINE a == calls[u].a
<1>1. provider \in [Attempts -> Outcomes] /\ CallsOK /\ ExternalOK /\ left \in [Events -> Nat]
  BY DEF IInv, ExternalOK
<1>2. calls[u].pc = "sent" /\ UNCHANGED <<left, store, posts, kind, notice, ledger>>
  BY DEF Execute
<1>3. PICK x \in kind.statuses :
        /\ \/ provider[a] = "none"
           \/ provider[a] = "open" /\ x \in Unsettled
           \/ provider[a] = x
        /\ provider' = [provider EXCEPT ![a] = IF x \in Unsettled THEN "open" ELSE x]
        /\ calls' = [calls EXCEPT ![u].pc = "answered", ![u].res = x]
  BY DEF Execute
<1>. DEFINE y == IF x \in Unsettled THEN "open" ELSE x
<1>4. a \in Attempts /\ mem.command[a].st = "processing" /\ x \in ProviderStatus
  BY <1>1, <1>2, <1>3 DEF CallsOK, ExternalOK, KindOK
<1>5. \A v \in Workers : calls'[v] = IF v = u THEN [pc |-> "answered", a |-> a, res |-> x] ELSE calls[v]
  <2>1. calls[u] \in Call
    BY <1>1 DEF CallsOK
  <2>2. \A v \in Workers : v # u => calls'[v] = calls[v]
    BY <1>1, <1>3 DEF CallsOK
  <2>3. calls'[u] = [[calls[u] EXCEPT !.pc = "answered"] EXCEPT !.res = x]
    BY <1>1, <1>3 DEF CallsOK
  <2>4. calls'[u] = [pc |-> "answered", a |-> a, res |-> x]
    BY <2>1, <2>3 DEF Call
  <2>. QED BY <2>2, <2>4
<1>6. calls' \in [Workers -> Call]
  <2>1. DOMAIN calls' = Workers /\ calls' = [v \in Workers |-> calls'[v]]
    BY <1>1, <1>3 DEF CallsOK
  <2>2. [pc |-> "answered", a |-> a, res |-> x] \in Call
    BY <1>4 DEF Call
  <2>. QED BY <1>1, <1>5, <2>1, <2>2 DEF CallsOK
<1>. HIDE DEF a
<1>7. /\ provider' \in [Attempts -> Outcomes] /\ provider'[a] = y
      /\ \A b \in Attempts : b # a => provider'[b] = provider[b]
      /\ x \in Unsettled => y = "open"
      /\ x \notin Unsettled => y = x
  <2>1. y \in Outcomes
    BY <1>3, <1>4 DEF Outcomes, ProviderStatus, Unsettled
  <2>. QED BY <1>1, <1>3, <1>4, <2>1
<1>8. kind' = kind /\ kind.statuses = kind'.statuses
  BY <1>2
<1>9. \A b \in Attempts : /\ Reached(b) = kind.statuses \intersect Past(provider[b])
                          /\ Reached(b)' = kind.statuses \intersect Past(provider'[b])
  BY <1>8, Zenon DEF Reached, Past
<1>10. \A b \in Attempts : Reached(b) \subseteq Reached(b)'
  <2>1. Past(provider[a]) \subseteq Past(y)
    <3>1. CASE provider[a] = "none"
      BY <3>1, PastGrows
    <3>2. CASE provider[a] = "open" /\ x \in Unsettled
      BY <1>7, <3>2
    <3>3. CASE provider[a] = x
      <4>1. x \notin Unsettled
        BY <1>1, <1>4, <3>3 DEF Outcomes, Unsettled
      <4>. QED BY <1>7, <3>3, <4>1
    <3>. QED BY <1>3, <3>1, <3>2, <3>3
  <2>2. \A b \in Attempts : Past(provider[b]) \subseteq Past(provider'[b])
    BY <1>7, <2>1
  <2>. QED BY <1>9, <2>2
<1>11. \A b \in Attempts : b = a => x \in Reached(b)'
  <2>1. x \in Past(y)
    <3>1. CASE x \in Unsettled
      BY <1>7, <3>1, PastGrows
    <3>2. CASE x \notin Unsettled
      BY <1>4, <1>7, <3>2, PastGrows
    <3>. QED BY <3>1, <3>2
  <2>2. x \in kind.statuses
    BY <1>3
  <2>3. provider'[a] = y
    BY <1>7, Zenon
  <2>. HIDE DEF y
  <2>. QED BY <1>9, <2>1, <2>2, <2>3
<1>12. Grows
  <2>1. KindOK'
    BY <1>1, <1>2 DEF ExternalOK, KindOK
  <2>2. NoticesOK'
    BY <1>1, <1>2, <1>10 DEF ExternalOK, NoticesOK, Notices
  <2>. QED BY <1>2, <1>7, <1>10, <2>1, <2>2 DEF Grows, ExternalOK
<1>13. Kept /\ mem' = mem /\ \A h \in Hooks : mem'.webhook[h] # "processing"
  BY <1>2, StoreKept
<1>14. CallsOK'
  BY <1>1, <1>2, <1>4, <1>5, <1>6, <1>10, <1>11, <1>13 DEF CallsOK, a
<1>15. PostsOK'
  BY <1>2, <1>12, PostsGrown
<1>16. LedgerOK'
  BY <1>2, <1>12, StillVouched DEF IInv, LedgerOK
<1>. QED BY <1>1, <1>2, <1>12, <1>13, <1>14, <1>15, <1>16, AssembleGrown

(* The call fails.                                                         *)
LEMMA CallFailsStep ==
  ASSUME IInv, NEW u \in Workers, CallFails(u)
  PROVE  IInv'
<1>1. CallsOK
  BY DEF IInv
<1>2. calls[u].pc \in {"sent", "answered"} /\ calls' = [calls EXCEPT ![u].pc = "error"]
      /\ Spend("error") /\ UNCHANGED <<store, posts, external>>
  BY DEF CallFails
<1>3. Kept /\ mem' = mem /\ \A h \in Hooks : mem'.webhook[h] # "processing"
  BY <1>2, StoreKept
<1>4. CallsOK'
  <2>1. \A b : Reached(b)' = Reached(b)
    BY <1>2 DEF Reached, external
  <2>2. calls' \in [Workers -> Call]
    BY <1>1, <1>2 DEF CallsOK, Call
  <2>3. \A v \in Workers : /\ calls'[v].a = calls[v].a
                           /\ calls'[v].pc = "idle" <=> calls[v].pc = "idle"
                           /\ v # u => calls'[v] = calls[v]
        /\ calls'[u].pc = "error"
    BY <1>1, <1>2 DEF CallsOK, Call
  <2>. QED BY <1>1, <1>3, <2>1, <2>2, <2>3 DEF CallsOK
<1>5. PostsOK'
  BY <1>2, PostsKept DEF external
<1>6. left' \in [Events -> Nat]
  BY <1>2, SpendTyped DEF IInv, Events
<1>. QED BY <1>2, <1>3, <1>4, <1>5, <1>6, Assemble

(* The provider goes on with a payment.                                    *)
LEMMA SettleStep ==
  ASSUME IInv, NEW a \in Attempts, Settle(a)
  PROVE  IInv'
<1>1. provider \in [Attempts -> Outcomes] /\ ExternalOK /\ left \in [Events -> Nat]
  BY DEF IInv, ExternalOK
<1>2. UNCHANGED <<left, store, calls, posts, kind, notice, ledger>>
  BY DEF Settle
<1>3. PICK x \in kind.statuses \ Unsettled :
        /\ provider[a] = (IF x = "returned" THEN "completed" ELSE "open")
        /\ provider' = [provider EXCEPT ![a] = x]
  BY DEF Settle
<1>4. x \in Outcomes \ {"none", "open"}
  BY <1>1 DEF ExternalOK, KindOK, ProviderStatus, Unsettled, Outcomes
<1>5. provider' \in [Attempts -> Outcomes] /\ provider'[a] = x
      /\ \A b \in Attempts : b # a => provider'[b] = provider[b]
  BY <1>1, <1>3, <1>4
<1>6. \A b \in Attempts : Reached(b) \subseteq Reached(b)'
  <2>1. \A b \in Attempts : b # a => Reached(b)' = Reached(b)
    BY <1>2, <1>5 DEF Reached
  <2>2. Reached(a) \subseteq Reached(a)'
    <3>1. CASE x = "returned"
      BY <1>2, <1>3, <1>5, <3>1 DEF Reached
    <3>2. CASE x # "returned"
      BY <1>2, <1>3, <1>4, <1>5, <3>2 DEF Reached
    <3>. QED BY <3>1, <3>2
  <2>. QED BY <2>1, <2>2
<1>7. Grows
  <2>1. KindOK'
    BY <1>1, <1>2 DEF ExternalOK, KindOK
  <2>2. NoticesOK'
    BY <1>1, <1>2, <1>6 DEF ExternalOK, NoticesOK, Notices
  <2>. QED BY <1>2, <1>5, <1>6, <2>1, <2>2 DEF Grows, ExternalOK
<1>8. Kept /\ mem' = mem /\ \A h \in Hooks : mem'.webhook[h] # "processing"
  BY <1>2, StoreKept
<1>9. CallsOK' /\ PostsOK'
  BY <1>2, <1>7, <1>8, CallsGrown, PostsGrown
<1>10. LedgerOK'
  BY <1>2, <1>7, StillVouched DEF IInv, LedgerOK
<1>. QED BY <1>1, <1>2, <1>7, <1>8, <1>9, <1>10, AssembleGrown

(* A webhook is received: nothing waits for an event that is new.          *)
LEMMA PostWebhookStep ==
  ASSUME IInv, NEW h \in Hooks, NEW n \in Notices, PostWebhook(h, n)
  PROVE  IInv'
<1>. DEFINE x == IF n.signed THEN "queued" ELSE "ignored"
            w == W("webhook", h, x)
<1>1. Sound(mem) /\ ExternalOK /\ \A v \in Hooks : mem.webhook[v] # "processing"
  BY DEF IInv
<1>2. /\ mem.webhook[h] = "absent" /\ notice[h] \subseteq {n}
      /\ Perform(<<w>>) /\ (Spend("webhook") \/ Spend("unsigned"))
      /\ n.signed => n.s \in Reached(n.a)
      /\ notice' = [notice EXCEPT ![h] = {n}]
      /\ UNCHANGED <<calls, posts, provider, kind, ledger>>
  <2>1. CASE n.signed
    BY <2>1 DEF PostWebhook
  <2>2. CASE ~n.signed
    BY <2>2 DEF PostWebhook
  <2>. QED BY <2>1, <2>2
<1>3. x \in {"queued", "processing", "processed", "ignored"} /\ x # "processing"
  OBVIOUS
<1>. HIDE DEF x
<1>4. \A s : Sound(s) /\ ~HookOpen(s, h) =>
        /\ Sound(Put(s, w)) /\ Put(s, w).command = s.command
        /\ \A v \in Hooks : Put(s, w).webhook[v] = IF v = h THEN x ELSE s.webhook[v]
  BY <1>1, <1>3, SoundWebhook
<1>5. \A s : Similar(s, mem) => ~HookOpen(s, h)
  BY <1>2 DEF Similar, HookOpen
<1>. HIDE DEF w
<1>6. Kept /\ mem' = Put(mem, w)
  BY <1>2, <1>4, <1>5, OneWriteKeeps
<1>7. Similar(mem, mem)
  BY DEF Similar
<1>8. mem'.command = mem.command /\ \A v \in Hooks : mem'.webhook[v] # "processing"
  BY <1>1, <1>3, <1>4, <1>5, <1>6, <1>7
<1>9. Grows
  <2>1. \A a : Reached(a)' = Reached(a)
    BY <1>2 DEF Reached
  <2>2. \A v \in Hooks : notice'[v] = IF v = h THEN {n} ELSE notice[v]
    BY <1>1, <1>2 DEF ExternalOK, NoticesOK
  <2>3. notice' \in [Hooks -> SUBSET Notices]
    BY <1>1, <1>2 DEF ExternalOK, NoticesOK
  <2>4. NoticesOK'
    BY <1>1, <1>2, <2>1, <2>2, <2>3 DEF ExternalOK, NoticesOK
  <2>5. KindOK' /\ provider' \in [Attempts -> Outcomes]
    BY <1>1, <1>2 DEF ExternalOK, KindOK
  <2>. QED BY <1>2, <2>1, <2>2, <2>4, <2>5 DEF Grows, ExternalOK
<1>10. CallsOK' /\ PostsOK'
  BY <1>2, <1>8, <1>9, CallsGrown, PostsGrown
<1>11. LedgerOK'
  BY <1>2, <1>9, StillVouched DEF IInv, LedgerOK
<1>12. left' \in [Events -> Nat]
  BY <1>2, SpendTyped DEF IInv, Events
<1>. QED BY <1>6, <1>8, <1>9, <1>10, <1>11, <1>12, AssembleGrown

(* An ignored webhook is queued again.                                     *)
LEMMA RetryWebhookStep ==
  ASSUME IInv, NEW h \in Hooks, RetryWebhook(h)
  PROVE  IInv'
<1>. DEFINE w == W("webhook", h, "queued")
<1>1. Sound(mem) /\ ExternalOK /\ \A v \in Hooks : mem.webhook[v] # "processing"
  BY DEF IInv
<1>2. Perform(<<w>>) /\ Spend("retry") /\ UNCHANGED <<calls, posts, external>>
  BY DEF RetryWebhook
<1>3. \A s : Sound(s) =>
        /\ Sound(Put(s, w)) /\ Put(s, w).command = s.command
        /\ \A v \in Hooks : Put(s, w).webhook[v] = IF v = h THEN "queued" ELSE s.webhook[v]
  BY <1>1, SoundWebhook DEF Closes
<1>. HIDE DEF w
<1>4. Kept /\ mem' = Put(mem, w)
  BY <1>2, <1>3, OneWriteKeeps
<1>5. mem'.command = mem.command /\ \A v \in Hooks : mem'.webhook[v] # "processing"
  BY <1>1, <1>3, <1>4
<1>6. CallsOK' /\ PostsOK'
  BY <1>2, <1>5, CallsKept, PostsKept DEF external
<1>7. left' \in [Events -> Nat]
  BY <1>2, SpendTyped DEF IInv, Events
<1>. QED BY <1>2, <1>4, <1>5, <1>6, <1>7, Assemble

(* runOnce of the webhook processor when no attempt is found: no attempt   *)
(* of the reference has heard from the provider, so that nothing waits for *)
(* the webhook.                                                            *)
LEMMA IgnoreWebhookStep ==
  ASSUME IInv, NEW h \in Hooks, IgnoreWebhook(h)
  PROVE  IInv'
<1>. DEFINE w1 == W("webhook", h, "processing")
            w2 == W("webhook", h, "ignored")
            ws == <<w1, w2>>
<1>1. Sound(mem) /\ ExternalOK /\ \A v \in Hooks : mem.webhook[v] # "processing"
  BY DEF IInv
<1>2. /\ \A n \in notice[h] : Carriers(n.a, n.names) = {}
      /\ Perform(ws) /\ UNCHANGED <<left, calls, posts, external>>
  BY DEF IgnoreWebhook
<1>3. ASSUME NEW n \in notice[h], NEW b \in Target(n)
      PROVE  ~mem.attempt[b].ref
  BY <1>2 DEF Carriers, Target
<1>4. ASSUME NEW s, Sound(s), s.attempt = mem.attempt
      PROVE  LET s1 == Put(s, w1)
                 s2 == Put(s1, w2)
             IN /\ Sound(s1) /\ Sound(s2) /\ s2.command = s.command
                /\ \A v \in Hooks : s2.webhook[v] = IF v = h THEN "ignored" ELSE s.webhook[v]
  <2>. DEFINE s1 == Put(s, w1)
              s2 == Put(s1, w2)
  <2>1. /\ Sound(s1) /\ s1.attempt = mem.attempt /\ s1.command = s.command
        /\ \A v \in Hooks : s1.webhook[v] = IF v = h THEN "processing" ELSE s.webhook[v]
    BY <1>1, <1>4, SoundWebhook DEF Closes
  <2>. HIDE DEF s1
  <2>2. \A n \in notice[h] : Settled(s1, n)
    BY <1>3, <2>1 DEF Settled
  <2>3. /\ Sound(s2) /\ s2.command = s1.command
        /\ \A v \in Hooks : s2.webhook[v] = IF v = h THEN "ignored" ELSE s1.webhook[v]
    BY <1>1, <2>1, <2>2, SoundWebhook
  <2>. HIDE DEF s2
  <2>4. s2.command = s.command
        /\ \A v \in Hooks : s2.webhook[v] = IF v = h THEN "ignored" ELSE s.webhook[v]
    BY <2>1, <2>3
  <2>. QED BY <2>1, <2>3, <2>4 DEF s2, s1
<1>5. ws[1] = w1 /\ ws[2] = w2 /\ Len(ws) = 2 /\ \A k \in 0 .. 2 : k \in {0, 1, 2}
  OBVIOUS
<1>. HIDE DEF ws, w1, w2
<1>6. \A s : Sound(s) => /\ Apply(s, ws, 0) = s /\ Apply(s, ws, 1) = Put(s, w1)
                         /\ Apply(s, ws, 2) = Put(Put(s, w1), w2)
  BY <1>5, Chain DEF Sound
<1>7. \A s : Similar(s, mem) => s.attempt = mem.attempt
  BY DEF Similar
<1>8. Keeps(ws) /\ Len(ws) \in Nat
  BY <1>4, <1>5, <1>6, <1>7 DEF Keeps
<1>9. Kept /\ mem' = Apply(mem, ws, 2)
  BY <1>2, <1>5, <1>8, PerformKeeps
<1>10. mem'.command = mem.command /\ \A v \in Hooks : mem'.webhook[v] # "processing"
  BY <1>1, <1>4, <1>6, <1>9
<1>11. CallsOK' /\ PostsOK'
  BY <1>2, <1>10, CallsKept, PostsKept DEF external
<1>. QED BY <1>2, <1>9, <1>10, <1>11, Assemble DEF IInv

(* runOnce of the webhook processor.                                       *)
LEMMA ProcessWebhookStep ==
  ASSUME IInv, NEW h \in Hooks, ProcessWebhook(h)
  PROVE  IInv'
<1>1. /\ Sound(mem) /\ mem \in Tables /\ Similar(mem, mem) /\ left \in [Events -> Nat]
      /\ \A v \in Hooks : mem.webhook[v] # "processing"
      /\ ExternalOK
  BY DEF IInv, Sound, Similar
<1>2. mem.webhook[h] = "queued" /\ UNCHANGED <<left, calls, posts, external>>
  BY DEF ProcessWebhook
<1>3. PICK n \in notice[h], b \in Attempts :
        /\ IsFound(b, n.a, n.names)
        /\ Perform(<<W("webhook", h, "processing")>> \o ProcessWrites(b, n)
                     \o <<W("webhook", h, "processed")>>)
  BY DEF ProcessWebhook
<1>4. b \in Target(n)
  BY <1>3 DEF IsFound, Carriers, Target
<1>. DEFINE ws == <<W("webhook", h, "processing")>> \o ProcessWrites(b, n)
                    \o <<W("webhook", h, "processed")>>
<1>5. \A s : Sound(s) /\ Similar(s, mem) =>
        /\ Len(ws) \in 4 .. 6
        /\ \A k \in 0 .. Len(ws) : Sound(Apply(s, ws, k))
        /\ Processed(s, Apply(s, ws, Len(ws)))
  BY <1>1, <1>2, <1>4, ProcessSound
<1>6. Perform(ws)
  BY <1>3
<1>. HIDE DEF ws
<1>7. Len(ws) \in Nat
  BY <1>1, <1>5
<1>8. Keeps(ws)
  BY <1>5 DEF Keeps
<1>9. Kept /\ mem' = Apply(mem, ws, Len(ws))
  BY <1>6, <1>7, <1>8, PerformKeeps
<1>10. Processed(mem, Apply(mem, ws, Len(ws)))
  BY <1>1, <1>5
<1>11. mem'.command = mem.command /\ \A v \in Hooks : mem'.webhook[v] # "processing"
  BY <1>1, <1>9, <1>10 DEF Processed
<1>12. CallsOK' /\ PostsOK'
  BY <1>2, <1>11, CallsKept, PostsKept DEF external
<1>. QED BY <1>1, <1>2, <1>9, <1>11, <1>12, Assemble

(* A writer takes a posting.                                               *)
LEMMA PostStep ==
  ASSUME IInv, NEW v \in Writers, NEW a \in Attempts, Post(v, a)
  PROVE  IInv'
<1>. DEFINE p == [pc |-> "sent", a |-> a, id |-> mem.posting[a].id]
<1>1. Sound(mem) /\ mem \in Tables /\ PostsOK /\ left \in [Events -> Nat]
  BY DEF IInv, Sound
<1>2. mem.posting[a].st # "absent" /\ posts' = [posts EXCEPT ![v] = p]
      /\ UNCHANGED <<left, store, calls, external>>
  BY DEF Post
<1>3. mem.posting[a].id \in Nat
  BY <1>1 DEF Tables
<1>4. Vouched(a)
  BY <1>1, <1>2 DEF Sound, Grounded
<1>5. Kept /\ mem' = mem /\ \A h \in Hooks : mem'.webhook[h] # "processing"
  BY <1>2, StoreKept
<1>6. PostsOK'
  <2>1. Grows /\ ledger' = ledger
    BY <1>2, QuietGrows DEF external
  <2>2. p \in [pc : {"idle", "sent", "ok", "error"}, a : Attempts \union {0}, id : Nat]
    BY <1>3
  <2>3. posts' \in [Writers -> [pc : {"idle", "sent", "ok", "error"}, a : Attempts \union {0}, id : Nat]]
    <3>. HIDE DEF p
    <3>. QED BY <1>1, <1>2, <2>2 DEF PostsOK
  <2>4. \A u \in Writers : posts'[u] = IF u = v THEN p ELSE posts[u]
    BY <1>1, <1>2 DEF PostsOK
  <2>. QED BY <1>1, <1>4, <2>1, <2>3, <2>4, StillVouched DEF PostsOK
<1>7. CallsOK'
  BY <1>2, <1>5, CallsKept
<1>. QED BY <1>1, <1>2, <1>5, <1>6, <1>7, Assemble

(* The ledger answers.                                                     *)
LEMMA LedgerPostsStep ==
  ASSUME IInv, NEW v \in Writers, LedgerPosts(v)
  PROVE  IInv'
<1>. DEFINE a == posts[v].a
            k == <<a, 0>>
            t == [a |-> a, key |-> k]
<1>1. PostsOK /\ LedgerOK /\ ExternalOK /\ left \in [Events -> Nat]
  BY DEF IInv
<1>2. /\ posts[v].pc = "sent"
      /\ ledger' = IF \E e \in ledger : e.key = k THEN ledger ELSE ledger \union {t}
      /\ posts' = [posts EXCEPT ![v].pc = "ok"]
      /\ UNCHANGED <<left, store, calls, provider, kind, notice>>
  BY DEF LedgerPosts, IdempotencyKey
<1>3. a \in Attempts /\ Vouched(a)
  BY <1>1, <1>2 DEF PostsOK
<1>4. ledger \subseteq ledger'
  BY <1>2
<1>5. Grows
  <2>1. \A b : Reached(b)' = Reached(b)
    BY <1>2 DEF Reached
  <2>. QED BY <1>1, <1>2, <1>4, <2>1 DEF Grows, ExternalOK, KindOK, NoticesOK
<1>6. \E e \in ledger' : e.a = a
  <2>1. CASE \E e \in ledger : e.key = k
    <3>1. PICK e \in ledger : e.key = k
      BY <2>1
    <3>2. e = [a |-> e.a, key |-> <<e.a, 0>>]
      BY <1>1 DEF LedgerOK
    <3>3. <<e.a, 0>> = <<a, 0>>
      BY <3>1, <3>2
    <3>. QED BY <1>4, <3>3
  <2>2. CASE ~\E e \in ledger : e.key = k
    <3>1. t \in ledger' /\ t.a = a
      BY <1>2, <2>2
    <3>. QED BY <3>1
  <2>. QED BY <2>1, <2>2
<1>7. LedgerOK'
  <2>1. t.a = a /\ t = [a |-> t.a, key |-> <<t.a, 0>>]
    OBVIOUS
  <2>2. \A e \in ledger' : e \in ledger \/ e = t
    BY <1>2
  <2>. HIDE DEF t
  <2>. QED BY <1>1, <1>3, <1>5, <2>1, <2>2, StillVouched DEF LedgerOK
<1>8. PostsOK'
  <2>1. posts' \in [Writers -> [pc : {"idle", "sent", "ok", "error"}, a : Attempts \union {0}, id : Nat]]
    BY <1>1, <1>2 DEF PostsOK
  <2>2. \A u \in Writers : /\ posts'[u].a = posts[u].a
                           /\ u # v => posts'[u].pc = posts[u].pc
    BY <1>1, <1>2 DEF PostsOK
  <2>3. \A b : Vouched(b) => Vouched(b)'
    BY <1>5, StillVouched
  <2>. QED BY <1>1, <1>2, <1>3, <1>4, <1>6, <2>1, <2>2, <2>3 DEF PostsOK
<1>9. Kept /\ mem' = mem /\ \A h \in Hooks : mem'.webhook[h] # "processing"
  BY <1>2, StoreKept
<1>10. CallsOK'
  BY <1>2, <1>5, <1>9, CallsGrown
<1>. QED BY <1>1, <1>2, <1>5, <1>7, <1>8, <1>9, <1>10, AssembleGrown

(* The call of a writer fails.                                             *)
LEMMA PostFailsStep ==
  ASSUME IInv, NEW v \in Writers, PostFails(v)
  PROVE  IInv'
<1>1. PostsOK
  BY DEF IInv
<1>2. posts[v].pc \in {"sent", "ok"} /\ posts' = [posts EXCEPT ![v].pc = "error"]
      /\ Spend("refuse") /\ UNCHANGED <<store, calls, external>>
  BY DEF PostFails
<1>3. Kept /\ mem' = mem /\ \A h \in Hooks : mem'.webhook[h] # "processing"
  BY <1>2, StoreKept
<1>4. PostsOK'
  <2>1. Grows /\ ledger' = ledger
    BY <1>2, QuietGrows DEF external
  <2>2. posts' \in [Writers -> [pc : {"idle", "sent", "ok", "error"}, a : Attempts \union {0}, id : Nat]]
    BY <1>1, <1>2 DEF PostsOK
  <2>3. \A u \in Writers : /\ posts'[u].a = posts[u].a
                           /\ u # v => posts'[u].pc = posts[u].pc
        /\ posts'[v].pc = "error"
    BY <1>1, <1>2 DEF PostsOK
  <2>4. \A b : Vouched(b) => Vouched(b)'
    BY <2>1, StillVouched
  <2>. QED BY <1>1, <1>2, <2>1, <2>2, <2>3, <2>4 DEF PostsOK
<1>5. CallsOK'
  BY <1>2, <1>3, CallsKept
<1>6. left' \in [Events -> Nat]
  BY <1>2, SpendTyped DEF IInv, Events
<1>. QED BY <1>2, <1>3, <1>4, <1>5, <1>6, Assemble

(* A write of the posting of a payment that was reported completed.        *)
LEMMA PostingWrite ==
  ASSUME IInv, NEW a \in Attempts,
         NEW r \in [st : {"pending", "posted", "failed", "dead_lettered"}, n : 0 .. MaxRetries, id : Nat],
         Vouched(a),
         r.st = "posted" => \E e \in ledger : e.a = a,
         Perform(<<W("posting", a, r)>>)
  PROVE  Kept /\ mem'.command = mem.command /\ mem'.webhook = mem.webhook
<1>. DEFINE w == W("posting", a, r)
<1>1. \A s : Sound(s) =>
        Sound(Put(s, w)) /\ Put(s, w).command = s.command /\ Put(s, w).webhook = s.webhook
  BY SoundPosting
<1>2. Perform(<<w>>)
  OBVIOUS
<1>. HIDE DEF w
<1>3. Kept /\ mem' = Put(mem, w)
  BY <1>1, <1>2, OneWriteKeeps
<1>4. Sound(mem)
  BY DEF IInv
<1>. QED BY <1>1, <1>3, <1>4

(* A writer is done with its posting.                                      *)
LEMMA PostDone ==
  ASSUME IInv, NEW v \in Writers, posts' = [posts EXCEPT ![v] = IdlePost], UNCHANGED external
  PROVE  PostsOK'
<1>1. Grows /\ ledger' = ledger
  BY QuietGrows DEF external
<1>2. PostsOK
  BY DEF IInv
<1>3. posts' \in [Writers -> [pc : {"idle", "sent", "ok", "error"}, a : Attempts \union {0}, id : Nat]]
  BY <1>2 DEF PostsOK, IdlePost
<1>4. \A u \in Writers : posts'[u] = IF u = v THEN IdlePost ELSE posts[u]
  BY <1>2 DEF PostsOK
<1>5. IdlePost.pc = "idle"
  BY DEF IdlePost
<1>6. \A b : Vouched(b) => Vouched(b)'
  BY <1>1, StillVouched
<1>. QED BY <1>1, <1>2, <1>3, <1>4, <1>5, <1>6 DEF PostsOK

(* markLedgerPosted, markLedgerFailed.                                     *)
LEMMA MarkStep ==
  ASSUME IInv, NEW v \in Writers, MarkPosted(v) \/ MarkFailed(v)
  PROVE  IInv'
<1>. DEFINE a == posts[v].a
            row == mem.posting[a]
            r == IF MarkPosted(v) THEN [row EXCEPT !.st = "posted"] ELSE FailedPosting(row)
<1>1. Sound(mem) /\ mem \in Tables /\ PostsOK /\ \A w \in Hooks : mem.webhook[w] # "processing"
  BY DEF IInv, Sound
<1>2. /\ posts[v].pc # "idle" /\ posts' = [posts EXCEPT ![v] = IdlePost]
      /\ Perform(<<W("posting", a, r)>>) /\ UNCHANGED <<left, calls, external>>
  BY DEF MarkPosted, MarkFailed
<1>3. a \in Attempts /\ Vouched(a)
  BY <1>1, <1>2 DEF PostsOK
<1>4. MarkPosted(v) => \E e \in ledger : e.a = a
  BY <1>1 DEF PostsOK, MarkPosted
<1>5. row \in [st : {"absent", "pending", "posted", "failed", "dead_lettered"},
               n : 0 .. MaxRetries, id : Nat]
  BY <1>1, <1>3 DEF Tables
<1>6. r \in [st : {"pending", "posted", "failed", "dead_lettered"}, n : 0 .. MaxRetries, id : Nat]
  <2>1. [row EXCEPT !.st = "posted"] \in
          [st : {"pending", "posted", "failed", "dead_lettered"}, n : 0 .. MaxRetries, id : Nat]
    BY <1>5
  <2>2. CASE row.n + 1 >= MaxRetries
    <3>1. MaxRetries \in 0 .. MaxRetries
      BY DEF MaxRetries
    <3>2. FailedPosting(row) = [row EXCEPT !.st = "dead_lettered", !.n = MaxRetries]
      BY <2>2 DEF FailedPosting
    <3>. QED BY <1>5, <2>1, <3>1, <3>2
  <2>3. CASE ~(row.n + 1 >= MaxRetries)
    <3>1. row.n + 1 \in 0 .. MaxRetries
      BY <1>5, <2>3 DEF MaxRetries
    <3>. QED BY <1>5, <2>1, <2>3, <3>1 DEF FailedPosting
  <2>. QED BY <2>2, <2>3
<1>7. r.st = "posted" => MarkPosted(v)
  BY <1>5 DEF FailedPosting, MaxRetries
<1>. HIDE DEF a, row, r
<1>8. Kept /\ mem'.command = mem.command /\ mem'.webhook = mem.webhook
  BY <1>2, <1>3, <1>4, <1>6, <1>7, PostingWrite
<1>9. PostsOK'
  BY <1>2, PostDone
<1>10. CallsOK'
  BY <1>2, <1>8, CallsKept DEF external
<1>. QED BY <1>1, <1>2, <1>8, <1>9, <1>10, Assemble DEF IInv

(* resetLedgerPosting.                                                     *)
LEMMA ReplayStep ==
  ASSUME IInv, NEW a \in Attempts, Replay(a)
  PROVE  IInv'
<1>. DEFINE r == [mem.posting[a] EXCEPT !.st = "pending"]
<1>1. Sound(mem) /\ mem \in Tables /\ \A w \in Hooks : mem.webhook[w] # "processing"
  BY DEF IInv, Sound
<1>2. /\ mem.posting[a].st # "absent" /\ Spend("replay")
      /\ Perform(<<W("posting", a, r)>>) /\ UNCHANGED <<calls, posts, external>>
  BY DEF Replay
<1>3. Vouched(a)
  BY <1>1, <1>2 DEF Sound, Grounded
<1>4. mem.posting[a] \in [st : {"absent", "pending", "posted", "failed", "dead_lettered"},
                          n : 0 .. MaxRetries, id : Nat]
  BY <1>1 DEF Tables
<1>5. r \in [st : {"pending", "posted", "failed", "dead_lettered"}, n : 0 .. MaxRetries, id : Nat]
      /\ r.st # "posted"
  BY <1>4
<1>. HIDE DEF r
<1>6. Kept /\ mem'.command = mem.command /\ mem'.webhook = mem.webhook
  BY <1>2, <1>3, <1>5, PostingWrite
<1>7. CallsOK' /\ PostsOK'
  BY <1>2, <1>6, CallsKept, PostsKept DEF external
<1>8. left' \in [Events -> Nat]
  BY <1>2, SpendTyped DEF IInv, Events
<1>. QED BY <1>1, <1>2, <1>6, <1>7, <1>8, Assemble

(* One transaction of the reconciler's sync.                               *)
LEMMA SyncStep ==
  ASSUME IInv, NEW a \in Attempts, NEW x \in ProviderStatus, SyncTransaction(a, x)
  PROVE  IInv'
<1>. DEFINE of == {b \in Attempts : IsFound(b, a, "both")}
            r == [st |-> x, of |-> of, ref |-> TRUE]
            w == W("tx", a, r)
<1>1. Sound(mem) /\ mem \in Tables /\ \A v \in Hooks : mem.webhook[v] # "processing"
  BY DEF IInv, Sound
<1>2. Perform(<<w>>) /\ Spend("sync") /\ UNCHANGED <<calls, posts, external>>
  BY DEF SyncTransaction, TxWrite
<1>3. r \in [st : ProviderStatus \union {"absent"}, of : SUBSET Attempts, ref : BOOLEAN]
  <2>1. of \in SUBSET Attempts
    OBVIOUS
  <2>. HIDE DEF of
  <2>. QED BY <2>1
<1>. HIDE DEF r
<1>4. \A s : Sound(s) =>
        Sound(Put(s, w)) /\ Put(s, w).command = s.command /\ Put(s, w).webhook = s.webhook
  BY <1>3, SoundTx
<1>. HIDE DEF w
<1>5. Kept /\ mem' = Put(mem, w)
  BY <1>2, <1>4, OneWriteKeeps
<1>6. mem'.command = mem.command /\ mem'.webhook = mem.webhook
  BY <1>1, <1>4, <1>5
<1>7. CallsOK' /\ PostsOK'
  BY <1>2, <1>6, CallsKept, PostsKept DEF external
<1>8. left' \in [Events -> Nat]
  BY <1>2, SpendTyped DEF IInv, Events
<1>. QED BY <1>1, <1>2, <1>5, <1>6, <1>7, <1>8, Assemble

(* What #loadFromDatabase makes of sound tables.                           *)
LEMMA RecoveredSound ==
  ASSUME NEW s, Sound(s), NEW at, \A a \in DOMAIN at : at[a] \in Nat
  PROVE  Sound(Recovered(s, at)) /\ \A h \in Hooks : Recovered(s, at).webhook[h] # "processing"
<1>. DEFINE q == Recovered(s, at)
            A == [st : OrderStatus \union {"absent"}, ref : BOOLEAN, at : Nat]
            R == [st : {"absent", "pending", "processing", "completed", "dead_lettered"}, n : 0 .. MaxRetries]
<1>1. s \in Tables /\ s.command \in [Attempts -> R] /\ s.attempt \in [Attempts -> A]
  BY DEF Sound, Tables
<1>2. /\ q.order = s.order /\ q.tx = s.tx /\ q.posting = s.posting
      /\ q.attempt = [a \in Attempts |-> IF a \in DOMAIN at THEN [s.attempt[a] EXCEPT !.at = at[a]]
                                         ELSE s.attempt[a]]
      /\ q.command = [a \in Attempts |-> IF s.command[a].st = "processing"
                                         THEN [s.command[a] EXCEPT !.st = "pending"] ELSE s.command[a]]
      /\ q.webhook = [h \in Hooks |-> IF s.webhook[h] = "processing" THEN "queued" ELSE s.webhook[h]]
  BY <1>1 DEF Recovered, Tables
<1>3. q \in Tables
  <2>1. q.command \in [Attempts -> R]
    BY <1>1, <1>2
  <2>2. q.webhook \in [Hooks -> {"absent", "queued", "processing", "processed", "ignored"}]
    BY <1>1, <1>2 DEF Tables
  <2>3. q.attempt \in [Attempts -> A]
    <3>1. ASSUME NEW a \in Attempts, a \in DOMAIN at PROVE [s.attempt[a] EXCEPT !.at = at[a]] \in A
      <4>1. s.attempt[a] \in A /\ at[a] \in Nat
        BY <1>1, <3>1
      <4>. QED BY <4>1
    <3>. HIDE DEF A
    <3>. QED BY <1>1, <1>2, <3>1
  <2>4. q = [s EXCEPT !.attempt = q.attempt, !.command = q.command, !.webhook = q.webhook]
    BY <1>1, <1>2 DEF Recovered, Tables
  <2>. HIDE DEF q
  <2>. QED BY <1>1, <2>1, <2>2, <2>3, <2>4 DEF Tables
<1>. HIDE DEF q
<1>4. \A a \in Attempts :
        /\ q.command[a].n = s.command[a].n
        /\ q.command[a].st = IF s.command[a].st = "processing" THEN "pending" ELSE s.command[a].st
  BY <1>1, <1>2
<1>5. \A h \in Hooks : q.webhook[h] = IF s.webhook[h] = "processing" THEN "queued" ELSE s.webhook[h]
  BY <1>2
<1>6. \A a \in Attempts : q.attempt[a].st = s.attempt[a].st /\ q.attempt[a].ref = s.attempt[a].ref
  BY <1>1, <1>2
<1>7. \A a \in Attempts : CommandOpen(s, a) => CommandOpen(q, a)
  BY <1>4 DEF CommandOpen, Active
<1>8. \A a, x : WebhookOpen(s, a, x) => WebhookOpen(q, a, x)
  BY <1>5 DEF WebhookOpen, HookOpen
<1>9. Grounded(q)
  BY <1>2, <1>4, <1>6 DEF Sound, Grounded, Active
<1>10. PostingKept(q)
  BY <1>2, <1>6, <1>7, <1>8 DEF Sound, PostingKept
<1>11. OrderKept(q)
  BY <1>2, <1>6, <1>7, <1>8 DEF Sound, OrderKept, Of
<1>12. Sound(q) /\ \A h \in Hooks : q.webhook[h] # "processing"
  BY <1>3, <1>5, <1>9, <1>10, <1>11 DEF Sound
<1>. QED BY <1>12 DEF q

(* The end of the process and the start of the next one.                   *)
LEMMA CrashStep ==
  ASSUME IInv, Crash
  PROVE  IInv'
<1>. DEFINE loaded == {a \in Attempts : db.attempt[a].st # "absent"}
<1>1. PICK at \in Bijection(loaded, 1 .. Cardinality(loaded)) :
        mem' = Recovered(db, at) /\ db' = Recovered(db, at)
  BY DEF Crash
<1>2. \A a \in DOMAIN at : at[a] \in Nat
  <2>1. Cardinality(loaded) \in Nat
    BY PaymentsAssumption, FS_Subset, FS_CardinalityType
  <2>2. at \in [loaded -> 1 .. Cardinality(loaded)]
    BY <1>1 DEF Bijection, Injection
  <2>. HIDE DEF loaded
  <2>. QED BY <2>1, <2>2
<1>. DEFINE q == Recovered(db, at)
<1>3. Sound(db)
  BY DEF IInv
<1>4. /\ mem' = q /\ db' = q /\ lag' = 0 /\ Spend("crash") /\ UNCHANGED external
      /\ calls' = [w \in Workers |-> Idle] /\ posts' = [v \in Writers |-> IdlePost]
  BY <1>1 DEF Crash
<1>5. Sound(q) /\ \A h \in Hooks : q.webhook[h] # "processing"
  BY <1>2, <1>3, RecoveredSound
<1>. HIDE DEF q
<1>6. Similar(q, q)
  BY DEF Similar
<1>7. Kept
  BY <1>4, <1>5, <1>6, PaymentsAssumption DEF Kept
<1>8. CallsOK'
  BY <1>4 DEF CallsOK, Idle, Call
<1>9. PostsOK'
  BY <1>4 DEF PostsOK, IdlePost
<1>10. left' \in [Events -> Nat]
  BY <1>4, SpendTyped DEF IInv, Events
<1>. QED BY <1>4, <1>5, <1>7, <1>8, <1>9, <1>10, Assemble

-----------------------------------------------------------------------------
(* The invariant holds.                                                    *)

LEMMA InitIInv == Init => IInv
<1>. SUFFICES ASSUME Init PROVE IInv
  OBVIOUS
<1>1. Empty \in Tables
  BY DEF Empty, Tables, OrderStatus, MaxRetries, ProviderStatus
<1>2. /\ \A o \in Orders : Empty.order[o] = "created"
      /\ \A a \in Attempts : /\ Empty.attempt[a] = [st |-> "absent", ref |-> FALSE, at |-> 0]
                             /\ Empty.command[a] = [st |-> "absent", n |-> 0]
                             /\ Empty.posting[a] = [st |-> "absent", n |-> 0, id |-> 0]
      /\ \A h \in Hooks : Empty.webhook[h] = "absent"
  BY DEF Empty
<1>3. Grounded(Empty)
  BY <1>2 DEF Grounded, Active, Owed
<1>4. PostingKept(Empty) /\ OrderKept(Empty)
  BY <1>2 DEF PostingKept, OrderKept, Owed
<1>5. Sound(Empty) /\ Similar(Empty, Empty)
  BY <1>1, <1>3, <1>4 DEF Sound, Similar
<1>6. PICK sc \in Scenarios : left = sc.events /\ kind = sc.provider
  BY DEF Init
<1>7. sc \in [events : [Events -> Nat], provider : Providers] /\ MaxLag \in Nat
      /\ \A a, b \in Attempts : sc.provider.reference[a] = sc.provider.reference[b] => OrderOf[a] = OrderOf[b]
  BY PaymentsAssumption
<1>8. mem = Empty /\ db = Empty /\ lag = 0 /\ left \in [Events -> Nat]
  BY <1>6, <1>7 DEF Init
<1>9. KindOK
  BY <1>6, <1>7 DEF KindOK, Providers
<1>10. provider \in [Attempts -> Outcomes] /\ NoticesOK /\ LedgerOK
  BY DEF Init, LedgerOK, NoticesOK, Outcomes
<1>11. CallsOK
  BY DEF Init, CallsOK, Idle, Call
<1>12. PostsOK
  BY DEF Init, PostsOK, IdlePost
<1>. QED BY <1>2, <1>5, <1>7, <1>8, <1>9, <1>10, <1>11, <1>12 DEF IInv, ExternalOK

LEMMA NextIInv == IInv /\ [Next]_vars => IInv'
<1>. SUFFICES ASSUME IInv, [Next]_vars PROVE IInv'
  OBVIOUS
<1>1. ASSUME NEW o \in Orders, Cancel(o) \/ RetryRefused(o)
      PROVE  IInv'
  BY <1>1, CancelStep
<1>2. ASSUME NEW a \in Attempts, Submit(a) \/ Retry(a) \/ RunDisabled(a) \/ Settle(a) \/ Replay(a)
      PROVE  IInv'
  BY <1>2, SubmitStep, RetryStep, RunDisabledStep, SettleStep, ReplayStep
<1>3. ASSUME NEW w \in Workers, NEW a \in Attempts, Claim(w, a)
      PROVE  IInv'
  BY <1>3, ClaimStep
<1>4. ASSUME NEW w \in Workers,
             Execute(w) \/ CallFails(w) \/ Complete(w) \/ FailCommand(w) \/ TransientError(w)
      PROVE  IInv'
  BY <1>4, ExecuteStep, CallFailsStep, CompleteStep, FailCommandStep, TransientStep
<1>5. ASSUME NEW h \in Hooks, NEW n \in Notices, PostWebhook(h, n)
      PROVE  IInv'
  BY <1>5, PostWebhookStep
<1>6. ASSUME NEW h \in Hooks, ProcessWebhook(h) \/ IgnoreWebhook(h) \/ RetryWebhook(h)
      PROVE  IInv'
  BY <1>6, ProcessWebhookStep, IgnoreWebhookStep, RetryWebhookStep
<1>7. ASSUME NEW a \in Attempts, NEW s \in ProviderStatus, SyncTransaction(a, s)
      PROVE  IInv'
  BY <1>7, SyncStep
<1>8. ASSUME NEW v \in Writers, NEW a \in Attempts, Post(v, a)
      PROVE  IInv'
  BY <1>8, PostStep
<1>9. ASSUME NEW v \in Writers, LedgerPosts(v) \/ PostFails(v) \/ MarkPosted(v) \/ MarkFailed(v)
      PROVE  IInv'
  BY <1>9, LedgerPostsStep, PostFailsStep, MarkStep
<1>10. CASE Crash
  BY <1>10, CrashStep
<1>11. CASE UNCHANGED vars
  <2>1. UNCHANGED <<store, calls, posts, external, left>>
    BY <1>11 DEF vars, external, store
  <2>2. Kept /\ mem' = mem /\ \A h \in Hooks : mem'.webhook[h] # "processing"
    BY <2>1, StoreKept
  <2>3. CallsOK' /\ PostsOK'
    BY <2>1, <2>2, CallsKept, PostsKept
  <2>. QED BY <2>1, <2>2, <2>3, Assemble DEF IInv
<1>. QED BY <1>1, <1>2, <1>3, <1>4, <1>5, <1>6, <1>7, <1>8, <1>9, <1>10, <1>11 DEF Next

(* The whole of the inductive invariant: every row of the store, in memory *)
(* and in the database, says what the provider and the ledger have done,   *)
(* and every piece of work under way is one the tables account for.        *)
THEOREM InvariantHolds == Spec => []IInv
BY InitIInv, NextIInv, PTL DEF Spec

(* Every write of the orchestrator, the provider runtime, the webhook      *)
(* processor, the ledger writer and the reconciler, and every row that     *)
(* initialize loads after a crash, is of its table's type.                 *)
THEOREM PaymentsTypeCorrect == Spec => []TypeOK
<1>1. IInv => TypeOK
  BY DEF IInv, Sound, TypeOK, ExternalOK, NoticesOK
<1>. QED BY <1>1, InvariantHolds, PTL

(* However often a posting is replayed, taken by two writers at once, or   *)
(* enqueued again after a crash under a new id, its idempotency key keeps  *)
(* the ledger at one transaction per attempt, and each is of an attempt    *)
(* whose reference was reported completed.                                 *)
THEOREM OneTransactionPerPayment == Spec => []LedgerMirrorsProvider
<1>1. IInv => LedgerMirrorsProvider
  <2>. SUFFICES ASSUME IInv, NEW e \in ledger
                PROVE  Vouched(e.a) /\ \A f \in ledger : f.a = e.a => f = e
    BY DEF LedgerMirrorsProvider, Vouched
  <2>1. \A f \in ledger : f = [a |-> f.a, key |-> <<f.a, 0>>]
    BY DEF IInv, LedgerOK
  <2>2. ASSUME NEW f \in ledger, f.a = e.a PROVE f = e
    BY <2>1, <2>2
  <2>. QED BY <2>2 DEF IInv, LedgerOK
<1>. QED BY <1>1, InvariantHolds, PTL

(* A webhook that is open in memory is queued, for an attempt with the     *)
(* same reference.                                                         *)
LEMMA OpenHook ==
  ASSUME IInv, NEW a, NEW x, WebhookOpen(mem, a, x)
  PROVE  \E b \in Alike(a) : Open(b)
<1>1. PICK h \in Hooks : HookOpen(mem, h) /\ \E n \in notice[h] : a \in Target(n) /\ n.s = x
  BY DEF WebhookOpen
<1>2. PICK n \in notice[h] : a \in Target(n)
  BY <1>1
<1>3. mem.webhook[h] = "queued"
  BY <1>1 DEF IInv, HookOpen
<1>4. n.a \in Attempts
  BY DEF IInv, ExternalOK, NoticesOK, Notices
<1>5. n.a \in Alike(a) /\ Open(n.a)
  BY <1>2, <1>3, <1>4 DEF Target, Alike, Open
<1>. QED BY <1>5

(* No crash between the writes of executeProviderCommand or of the webhook *)
(* processor, and no sequence of crashes, leaves a completed attempt       *)
(* without posting, open work or dead letter, its own or those of another  *)
(* attempt with its reference.                                             *)
THEOREM PostingsAreNotLost == Spec => []NoLostPosting
<1>1. IInv => NoLostPosting
  <2>. SUFFICES ASSUME IInv, NEW a \in Attempts, mem.attempt[a].st = "completed"
                PROVE  \E b \in Alike(a) : mem.posting[b].st # "absent" \/ Open(b) \/ GivenUp(b)
    BY DEF NoLostPosting
  <2>1. \/ \E b \in Alike(a) : mem.posting[b].st # "absent"
        \/ CommandOpen(mem, a)
        \/ WebhookOpen(mem, a, "completed")
    BY DEF IInv, Sound, PostingKept
  <2>2. CommandOpen(mem, a) => Open(a) \/ GivenUp(a)
    BY DEF CommandOpen, Active, Open, GivenUp
  <2>3. a \in Alike(a)
    BY DEF Alike
  <2>. QED BY <2>1, <2>2, <2>3, OpenHook
<1>. QED BY <1>1, InvariantHolds, PTL

(* The order is written after the attempt in every section of code, so     *)
(* that it never shows a status of the provider none of its attempts has,  *)
(* unless work on one of them is open or was given up.  A webhook that     *)
(* works on an attempt of another order never has the order's reference.   *)
THEOREM OrdersFollowTheirAttempts == Spec => []OrderFollowsAttempts
<1>1. IInv => OrderFollowsAttempts
  <2>. SUFFICES ASSUME IInv, NEW o \in Orders, mem.order[o] \in Owed
                PROVE  \E a \in Of(o) : mem.attempt[a].st = mem.order[o] \/ Open(a) \/ GivenUp(a)
    BY DEF OrderFollowsAttempts, Owed
  <2>1. PICK a \in Of(o) :
          \/ mem.attempt[a].st = mem.order[o]
          \/ CommandOpen(mem, a)
          \/ mem.attempt[a].ref /\ \E x \in ProviderStatus : WebhookOpen(mem, a, x)
    BY DEF IInv, Sound, OrderKept
  <2>2. CommandOpen(mem, a) => Open(a) \/ GivenUp(a)
    BY DEF CommandOpen, Active, Open, GivenUp
  <2>3. CASE \E x \in ProviderStatus : WebhookOpen(mem, a, x)
    <3>1. PICK b \in Alike(a) : Open(b)
      BY <2>3, OpenHook
    <3>2. b \in Of(o)
      BY DEF Alike, Of, IInv, ExternalOK, KindOK
    <3>. QED BY <3>1, <3>2
  <2>. QED BY <2>1, <2>2, <2>3
<1>. QED BY <1>1, InvariantHolds, PTL

(* What the reconciler records as matched is in the ledger, and a          *)
(* completion of one of the order's attempts was reported: a posting is    *)
(* marked posted only after the ledger answered, and the mark survives a   *)
(* crash only as a true one.                                               *)
THEOREM MatchesAreReal == Spec => []MatchedIsReal
<1>1. IInv => MatchedIsReal
  <2>. SUFFICES ASSUME IInv, NEW o \in Orders, Matched(o)
                PROVE  /\ \E e \in ledger : OrderOf[e.a] = o
                       /\ \E a \in Of(o) : SaidCompleted(a)
    BY DEF MatchedIsReal
  <2>1. PICK a \in Of(o) : mem.posting[a].st = "posted"
    BY DEF Matched, Posted
  <2>2. a \in Attempts /\ OrderOf[a] = o
    BY DEF Of
  <2>3. (\E e \in ledger : e.a = a) /\ Vouched(a)
    BY <2>1, <2>2 DEF IInv, Sound, Grounded
  <2>4. PICK b \in Alike(a) : SaidCompleted(b)
    BY <2>3 DEF Vouched
  <2>5. b \in Of(o)
    BY <2>2 DEF Alike, Of, IInv, ExternalOK, KindOK
  <2>. QED BY <2>2, <2>3, <2>4, <2>5
<1>. QED BY <1>1, InvariantHolds, PTL
===============================================================================
