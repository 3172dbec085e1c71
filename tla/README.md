# A TLA+ model of Ask My Human

Ask My Human lets an agent put one question to its human by telephone. An agent
calls `ask` over REST or MCP; the service writes a row into PostgreSQL, places a
call through Azure Communication Services (ACS), prompts the person when the
call is picked up, records the answer that ACS reports in a callback, thanks the
person, hangs up, and returns the verdict to the agent, all within a deadline.

This directory holds a model of that system, the TLC runs that check it, and
TLAPS proofs about its core. Paths below are relative to `src/ask_my_human/`
unless they start with `migrations/`.

## 1. Inventory

### The parts, their state and their operations

| Part | State | Operations |
|---|---|---|
| Request table (`migrations/versions/`, `persistence/repository.py`) | `human_requests`: one row per request with status, verdict, call id, recognition flag, expiry and completion time; a unique index on (subject, key) and one that allows one pending row in the whole table | `create_or_replay` (INSERT, then SELECT), `attach_call_id`, `claim_recognition`, `get`, `complete_if_pending`, `complete_error_if_pending`, `expire_stale_calls`, `pending_count`, `purge_terminal` |
| Request service (`application/service.py`, `domain/transitions.py`) | the running invocations of `ask`; `_active` (limit and cancellation signal of each request's creator) and `_call_ids` | `ask`: admission, placing the call, polling, expiry, failure; `handle_call_event`: binding, recognition, completion, acknowledgement, late clean-up |
| Maintenance (`application/maintenance.py`) | two loops, each with the task of its operation and the shutdown signal | every second: expire overdue rows and hang up their calls; every hour: purge old terminal rows; survive the failure of either, end when told to |
| ACS gateway (`telephony/acs_client.py`) | `_playbacks`, the acknowledgements being played | `create_call`, `start_recognition`, `acknowledge_and_hang_up`, `handle_playback_event`, `hang_up` |
| Callback events (`telephony/events.py`) | none | parse a CloudEvent, classify it as one of the domain's event types |
| Callback endpoint (`api/callbacks.py`) | a coroutine per delivery, at its place in the batch | refuse a batch, or handle its events in order; 200, or 4xx/5xx and ACS delivers again |
| Request and tool adapters (`api/requests.py`, `mcp_adapter/server.py`) | a disconnect watcher or a shielded task per request | turn a disconnection or a cancelled tool call into the invocation's cancellation signal, and wait for the service |
| Callback token validator (`security/acs_callback.py`) | cached metadata and key set, refresh lock, fetch cooldowns | validate a token, refreshing on expiry and on an unknown key |
| Agent identity (`security/agent.py`) | none | decide who calls, from the claims of a principal header or a bearer token |
| Composition, settings, health (`main.py`, `config.py`, `api/health.py`, `persistence/pool.py`) | the pool, the clients, the maintenance tasks, the phase of the lifespan | start-up, readiness, shutdown |
| Observability (`observability.py`) | the gauge of pending requests | set the gauge; spans and counters |
| Live evidence (`live_evidence.py`, `scripts/harvest_live_evidence.py`) | none | export, reconcile and accept the evidence of a live test |

### How they interact

An invocation, every callback delivery and both maintenance loops are coroutines
of one event loop; they share the service's two dictionaries directly and
everything else through the table. Each talks to PostgreSQL statement by
statement and to ACS call by call, awaiting the reply, so any of them may act
between the moment another one's statement takes effect and the moment it learns
of it. ACS calls back: it delivers each event at least once, in any order, until
it gets a 200. Nothing survives a restart but the table and what ACS knows.

### What is hard

* **Races to the verdict.** The person's answer, the client's disconnection, the
  cutoff of each invocation, a failing dependency and the maintenance pass all
  try to end the same row.
* **Stale snapshots.** A coroutine acts on a `HumanRequest` that it loaded before
  one or more awaits; clean-up uses it to decide what to hang up.
* **Cancellation at an await.** `ask` cancels its worker wherever it is, also
  in the middle of a statement or of a `create_call` that ACS has already seen.
* **Duplicates and repeats.** Invocations share a key, ACS repeats events, one event
  of a batch may fail after others took effect, and admission is two statements.
* **Reports out of order.** The report that the thanks are over may overtake the reply
  to the request that they be played, or never come.
* **Shutdown.** Loops are cancelled in the middle of a statement, or in an await that
  suppresses it; tool calls run on in tasks of their own; the pool is about to close.
* **Timers.** The row's expiry, the work cutoff counted from the expiry, the work
  cutoff counted from the invocation's own start, the handler's block, clean-up
  budgets.
* **Restarts and lost replies.** Between any two steps.

### What makes each part correct

* Table: constraints are never violated by the program's own statements; the first
  terminal update wins; an answer is in time and fits its question.
* Service: one call per request; the person is asked once; every invocation of a
  key gets the verdict on record; only the creator's disconnection cancels; the
  calls of ended requests are ended; every invocation returns.
* Maintenance: every accepted request is settled, whoever dies; no row is purged
  that somebody still waits for.
* Validator: a key that was withdrawn is soon refused, a key that was published soon
  accepted, a cached key usable while it is valid; the refresh lock is always given up.
* Endpoint and gateway: no event is lost with its batch; a playback is registered just
  while it is played; the thanks are heard out; once the handler knows that the answer is on record, one
  failure leaves no call up.
* Events: a verdict is what the person said; only technical failures fail a request.
* Replica: nothing is closed under its users; nobody is left behind when a handler returns;
  a serving replica is ready; the gauge comes to say what the table says; the stop completes.
* Identity: one agent is one agent, whichever alias of a claim names it. Evidence: provider
  and application agree on every call.

`PROJECT.json` lists the hazards line by line, with the properties that cover them.

## 2. Modules

| Module | Models |
|---|---|
| `RequestLedger` | the abstract specification of the table: a request is accepted once under a free key while no other is open, settled once, forgotten only when settled |
| `RequestStore` | the table and one action per writing SQL statement of the repository; `ImplementsLedger` refines it to `RequestLedger` |
| `RequestStoreProofs` | the theorems about `RequestStore` |
| `MCRequestStore` | `RequestStore` on a small instance, every statement at any time |
| `AskHumanService` | the service, maintenance, ACS and the person around the table; `ImplementsStore` says that every step of it is a statement of `RequestStore` or leaves the table alone |
| `ServiceLemmas` | the inductive invariant of `AskHumanService`, what its parts withstand, and the shapes of a step |
| `ServiceStepProofs` | the steps of an invocation and of a handler keep the invariant |
| `ServiceProofs` | the other steps, and the theorems about `AskHumanService` |
| `MCAskHuman` | `AskHumanService` on the instances of the `.cfg` files |
| `CallbackKeys` | the callback token validator with its caches, lock and cooldowns, and the provider of the keys |
| `CallbackKeysProofs` | the theorems about `CallbackKeys` |
| `MCCallbackKeys` | `CallbackKeys` on small instances |
| `CallEvents` | the meaning of a callback event: refused, classified, and its effect on a pending request; no state |
| `Playback` | the gateway's acknowledgement of an answer: its registry, the thanks, their report, the timeouts and the hang-up |
| `CallbackEndpoint` | the deliveries of the callback endpoint over `Playback` and `CallEvents`: batches, failures, redelivery, with ACS, the person and the rest of the service around them |
| `EndpointProofs` | the theorems about `CallbackEndpoint` |
| `MCCallbackEndpoint` | `CallbackEndpoint` on a small instance |
| `Replica` | one replica from start to stop: lifespan, maintenance loops, adapters, readiness and gauge |
| `ReplicaProofs` | the theorems about `Replica` |
| `MCReplica` | `Replica` on a small instance |
| `AgentIdentity` | who an agent is, from its claims; no state |
| `LiveEvidence` | which evidence is exported and accepted; no state |
| `Decisions` | one decision of `CallEvents`, `AgentIdentity` or `LiveEvidence`, on one of the inputs that are its parameters, and what is promised of it |
| `DecisionsProofs` | the theorems about `Decisions` |
| `MCDecisions` | `Decisions` on every input of a bounded set |

So the chain is `AskHumanService` ⇒ `RequestStore` ⇒ `RequestLedger`: both steps are
model-checked and proved. `CallbackEndpoint` and `Replica`
look closer at what `AskHumanService` has as one step or not at all: how an answer is
acknowledged and its event answered for, and what goes on around the service in a replica.

### RequestStore: the table

`rows[r]` is the row of request id `r`; `"absent"` is an id not inserted yet and
`"purged"` one whose row was deleted (ids are `uuid4`, never used again). `now` is
the one clock: the database's and the service's are taken to agree. A statement
whose WHERE clause selects nothing leaves the table alone and reports 0 rows; its
predicate is an operator (`Attachable`, `Claimable`, `Completable`, ...) that the
service's actions read as that row count.

Data that no property tells apart is abstracted: a (subject, key) pair is a
member of `Keys`, a question a payload with a kind, its hash the payload itself,
and the four ways in which a person was not reached (`no_answer`, `busy`,
`declined`, `disconnected`) are the one outcome `"unavailable"`, since no code
below `telephony/events.py` treats them differently.

### AskHumanService: the coroutines

`proc[p]` is the coroutine of an invocation (`Asks`) or of a callback delivery
(`Handlers`). Its `pc` names the dependency call it awaits. An action is: that
call takes effect, and the coroutine runs from the reply to its next await. So
a decision is made with the clock and the cancellation signals of that moment and
with the snapshot (`stored`) the coroutine holds, however old.

| Code | Actions |
|---|---|
| `_ask`, admission | `Ask`, `AdmitCreated`, `AdmitConflict` (the INSERT did nothing), then the SELECT: `AdmitJoined`, `AdmitReplayed`, `AdmitRefused`; `AdmissionAborted`, `AdmissionFault`, `AdmissionLost` |
| `_run_request`, `_start_call` | `Verify`, `CreateCall`, `Attach`, `Confirm`, and their faults `CreateCallFault`, `WorkFault` |
| `_wait_for_terminal` | `Poll` |
| `_ask`, `asyncio.wait` over work, signal and cutoff | `Interrupt`, `InterruptCreate`, `DeadlineAbort` |
| `_expire`, `_fail`, `_best_effort_hang_up` | `ExpireWrite`, `ExpireReread`, `FailWrite`, `FailRefetch`, `HangUp` and their faults; `frame` records the caller and so what follows |
| `handle_call_event`, `_recognize`, `_cleanup_late_connection` | `Get`, `Bind`, `Reload`, `Claim`, `Recheck`, `Prompt`, `Complete`, `Acknowledge`, `HandlerTimeout` and the faults |
| `receive_callback` | `Deliver`, `Respond` |
| `RequestCancellationSignal`, the MCP dispatcher | `Cancel` |
| `RequestMaintenance` | `ExpirePass` (the UPDATE), `Sweep` (one hang-up), `PurgePass`, `SweepFault`, `ExpirePassLost` |
| restart of the replica | `Crash`: every coroutine is gone; the table, the calls and the undelivered events stay |
| ACS and the person (external) | `PickUp`, `NotReached`, `Hear`, `PutDown` |

A dependency call may fail before or after it took effect (the `...Fault` and
`...Lost` actions); each spends one of `MaxFaults`. A timeout of a clean-up budget
is such a failure. `_active` and `_call_ids` are not variables of their own: they
are what the running creators hold (`Creators`, `KnownCalls`), because the code
fills and empties them in the same breath.

Left out: telemetry; `_sync_pending`, which only feeds the gauge (it is in `Replica`); the two
PLAY events, which only end the acknowledgement, a single step here (it is in `Playback`).

### CallbackKeys: the token validator

`val[v]` is the coroutine of one validation. It awaits the refresh lock or a document
(first its reading by the provider, then its arrival), and each step runs it from there to
its next await, through as many of `_get_metadata`, `_get_key_set` and `_refresh_key_set` as
need no await. `lock` is the queue of `asyncio.Lock`: the head holds it, and a released lock
goes to the one that has waited longest. `want` records which of the three places in the code the
validation waits for, `expected` the key set it found wanting. `TimeOut` is the
`asyncio.timeout` over the whole of it, waits for the lock included.

| Code | Actions |
|---|---|
| `validate`, `_bearer_token`, `_token_key_id` | `Validate`, `TimeOut` |
| `_validate`, up to its first await | `Begin` |
| the two `async with self._refresh_lock` | `Enter`, and `Queue` where they wait |
| `_fetch_json` and what follows a document | `Fetch` (cooldown), `Serve` (external), `Fetched`, `FetchFails` |
| the provider (external) | `Rotate` |

A token is the id of its key: malformed tokens never reach the caches, and the signature
check changes no state. A document that is too large, malformed or redirected is
`FetchFails`. The provider keeps its issuer and its `jwks_uri`. `fetched`, `failedAt` and
`verdict` are history that the properties read. The validator shares nothing with the service:
it stands before the callback endpoint, and a callback that it refuses is delivered again.

### CallEvents, Playback and CallbackEndpoint: from a delivery to the end of its calls

`CallEvents` takes an event as the record of what the code looks at, and says whether the parser
refuses it (`Parsable`, a batch as a whole in `ParsableBatch`), which domain event it is
(`DomainEvent`) and what the service does with it while the request is pending (`Effect`).

`delivery[d]` is the coroutine that handles one POST: `batch`, the index `i` of its event, and the
`pc` of the dependency call it awaits. `ack[d]` is the acknowledgement that this coroutine owes
(`due`, while the gauge is refreshed) or has called, with a `pc` of its own; `playbacks` is the gateway's `_playbacks`; `media` is what ACS
knows of a call. ACS keeps in `fresh` what it has no 200 for, and may post it again, alone or in a
batch with others, at any time. A request's row is its status here, and it has its call from the
start, as it has once the person was prompted.

| Code | Actions |
|---|---|
| `parse_callback_events`, `receive_callback` | `Receive`, `Respond` |
| `handle_call_event`, and the loop over the batch | `Get`, `Complete`, `Fail`, `BestEffortHangUp`, `Acknowledged` with their faults; `Advance` goes on to the next event or raises |
| `acknowledge_and_hang_up` | `BeginAcknowledge` with `Register`, `PlayMedia`, `PlayReply`, `HeardOut`, `PlaybackTimeout`, `HangUp` and the faults `PlayFault`, `CleanupTimeout`, `HangUpFault` |
| `handle_playback_event` | `HandlePlaybackEvent`, within `Get` |
| invocations and maintenance, as far as they matter here | `Prompted`, `SettledElsewhere` |
| ACS and the person (external) | `Hear`, `PutDown`, `PlaybackReported`, `Unknown` |

### Replica: around the service

`phase` is the lifespan's place; `pool` and `closed` are what it has opened and closed. `loop[l]`
is the task of a maintenance loop, `work[l]` the task of its operation, which is a task of its own
and is cancelled with it. `adapter[h]` is the handler of a REST request, a tool call or a callback,
`service[h]` the service coroutine it waits for. `pending` is whether the table has a pending
request, `gauge` what `Telemetry` was last told.

| Code | Actions |
|---|---|
| `_run` with its waits, its delay and its drain | `Begin`, `Collect`, `Settled`, `Wake`, `Drained`; the cancellation is `CancelledLoop` |
| `expire_once`, `purge_once` | `Count`, `Counted`, `Expire`, `Recounted`, `Purge`, `WorkCancelled`, `WorkFault` |
| REST handler and its watcher, `_dispatch`, callback handler | `Arrive`, `Leave`, `Watch`, `CancelTool`, `Return` |
| admission, wait, settlement and `_sync_pending` of the service | `Admit`, `AdmissionCancelled`, `Admitted`, `Waited`, `CutOff`, `Settle`, `SyncCount`, `SyncSet`, `ServiceFault` |
| the lifespan, `_stop_tasks`, `_close_all` | `Open`, `OpenFault`, `Terminate`, `StopTasks`, `StopSessions`, `SessionsStopped`, `ClosePool`, `CloseClient` |
| another replica at the same table | `ElsewhereInTable` |

That a draining uvicorn waits for its requests, and that the MCP session manager cancels its
tool calls and waits for them, is taken from how `main.py` uses the two. `_run` also ends on the
signal alone (`stopped in done`), which cannot happen: the signal is only set together with the
cancellation of the task.

### AgentIdentity, LiveEvidence and Decisions: pure decisions

Claims are a set of (type, value); evidence is two sets of rows and a window. `Decisions` takes an
input in `Init` and decides it in one step, and its invariants compare the decision with the
input. Which inputs there are is a parameter, so that TLC can enumerate some (`MCDecisions`) and
the theorems speak of all.

## 3. Runs

Every property of a passing run has a mutant: a definition changed as a
plausible bug would change it (they stand next to the definitions they mutate),
under which the run finds the property violated.

| Run | Instance | Shows |
|---|---|---|
| `store_statements` | 2 requests, 2 keys, 2 calls, both kinds, times 0..3 | type, unique indexes, lifecycle constraint, answers in time and fitting, first terminal update wins, the ledger is implemented |
| `one_ask` | 1 invocation, 1 handler, both kinds, every event ACS can send, repeated at will, 1 fault | the service only sends the repository's statements; a recorded answer was given on the attached call before the cutoff |
| `joined` | 2 invocations of one key, 1 handler, 2 calls, 1 restart | one call per request; only the creator or ACS cancels; the attached call of an ended request is not left up when nothing failed; no other answer than the one on record, before or after the restart |
| `duplicates` | 1 invocation, 2 handlers at once, events repeated, 1 restart | the person is prompted once |
| `admission` | 2 invocations, 2 keys, both kinds, times 0..5, so that rows are purged and keys used again; no deliveries | what an invocation returns is on record for its own key and question; no row is purged under an invocation |
| `progress` | 1 invocation, 1 handler, 1 fault, 1 restart, fairness | invocations return, handlers answer, accepted requests are settled |
| `callback_keys` | 2 validations, 1 key, times 0..7, 1 rotation, 1 failed fetch | the lock belongs to running validations; a withdrawn key is accepted no longer than the cache's time to live and a timeout; a published key is refused no longer than the cooldown and a timeout, unless a fetch has just failed |
| `callbacks` | 2 deliveries at once, 2 requests with a call each, batches of 1 or 2, 1 fault | no event is lost with its batch; a playback is registered just while it is played; thanks are heard out; their report is not missed; once a handler knows that the answer is on record, one failure leaves no call up; no delivery waits for what may never come |
| `replica` | 1 handler of any kind, both loops, 3 clients, 1 fault, fairness | nothing is closed under its users; no orphaned work; serving is ready; everything is closed; the stop completes; the gauge settles |
| `decisions` | every input of a bounded set: 1824 events with kinds, 16,384 claim sets, 34,560 pieces of evidence with reviews | failures, verdicts, identities and evidence are what the input says they are |
| `late_call`, `stale_keys` | see below | disagreements of the code with the repository's documents and tests |

### The bounds

`Deadline = 2`, `WorkCutoff = 1` make three phases of a request: before the
cutoff, between the cutoff and the deadline, and after it. That is every order of
those instants that the code distinguishes. `MaxTime` stops the clock, and `Ask` only begins an invocation whose deadline still lies
within it. `Reports` and `Repeats` limit what ACS sends and how often in the runs
with more processes; `one_ask` has all of it. Two invocations are enough for a
creator and a joiner, for two creators in turn, and for a request refused by
another's; two handlers for any pair of deliveries at once. `MaxFaults` and
`MaxCrashes` of 1 place one failure at every point of every behaviour. Deadlock
is not checked: the system may have nothing left to do.

In `callback_keys`, `Timeout = 1 < Cooldown = 2 < TTL = 5` keep the order of the code's 5, 30 and
300 seconds (the code bounds the timeout by 10). `MaxTime = 7` lies beyond a withdrawal, the
time to live and the timeout. One key suffices: a validation only asks whether its own key is
in a set. Two validations contend for the lock, one as its holder and one as its waiter.
`stale_keys` has one validation at a time but two keys, one published and one unknown.

In `callbacks` the two deliveries are symmetric, so that any two are, and two requests are what it
takes for the report of one to meet the playback of the other. The first request has every event that
the endpoint handles, the second an answer and an event of a type that the parser refuses, which
spoils every batch it is in. `MaxBatch = 2` is a batch with a first and a last event.

In `replica` one handler is any of the three kinds in turn, as often as it likes, and handlers
share nothing but the gauge and the table, which another replica moves as well; three closers are a
first, one between and a last. `decisions` has every code and subcode that the classification names, one it
does not name, every pair of them, every combination of recognition results, whatever the type
of the event that carries them, two aliases that agree or not for each kind of claim, an object id that is empty, and two calls and two requests with rows in and out of the window.

### Fairness

`progress` assumes weak fairness of each coroutine's own steps (the event loop
runs what can run, and each call to a dependency is answered or fails, being
under a timeout of the code), of the clock, and of the maintenance pass, which
its loop repeats every second. Clients, the person, ACS deliveries, the purge,
faults and restarts are owed nothing. The clock does not pass an armed timer that
is due (`TimerDue`): asyncio fires it at that instant, and the model's instants are
seconds against the milliseconds of a loop turn.

`replica` assumes weak fairness of the shutdown, of each loop, of each operation, of each adapter's
and of each service coroutine's own steps: the event loop runs what can run, statements and timers
end. Nobody owes a request, a disconnection or a SIGTERM. `DeliveriesMove` of `callbacks` is an
invariant: a delivery always has an enabled step of its own, so it needs no fairness to be stated.

### Disagreements

Checked, each by a run that finds the counterexample:

* `late_call`: a CallConnected that is being handled while its request expires
  returns without a hang-up when it cannot bind its call (`service.py:315`).
* `stale_keys`: a token with an unknown key id refreshes the keys; the metadata expires within
  the cooldown; fetching it again empties the key cache (`acs_callback.py:126`), and the keys may
  not be fetched yet. Callbacks signed by a valid, cached key are answered "unavailable" until the
  cooldown ends, against "valid cached keys remain usable".

Known, without a run of their own:

* The next request is admitted as soon as the last one is terminal in the table, which is before
  its call is hung up (`service.py:249`): two calls can be up at once.
* A joiner cancelled between writing `deadline_exceeded` and reading the row again knows no call
  to hang up (`service.py:266`).
* An interrupted `_expire` that has not read the row again hangs up over the thanks for the answer
  that won (`service.py:264`).
* An invocation that began before the creator but joined it ends the request at its own cutoff, a
  little before the row's (`service.py:169`).
* An answer committed just before the block's timeout, or whose reply is lost, is not acknowledged: the
  handler goes to `_expire` or `_fail`, finds the request responded and leaves the call to the person
  (`service.py:333`).

All are rare interleavings that change no verdict; `stale_keys` delays deliveries, which ACS repeats.

## 4. Proofs

`RequestStoreProofs` proves, for every choice of the constants that satisfies the
assumptions of `RequestStore`:

* `StoreInvariant`: `StoreInv` is an invariant. It is inductive: the clock is a natural
  number, every row is of its type, has a payload and an expiry unless it is absent or
  purged (`Filled`), satisfies the lifecycle constraint and `InTime`, and the two unique
  indexes hold. `Filled` is the strengthening: without it the expiry compared with the clock
  need not be a number, and the kind of the question not defined.
* `TypeCorrect`, `IndexesHold`, `ConstraintsHold`, `AnswersFit`: the invariants of
  `store_statements`, which follow from it.
* `FirstTerminal`: the action property, from `TerminalStep`, one step per statement.
* `LedgerImplemented`: initial states map to initial states and each statement to a step of
  the ledger or a stutter (`LedgerAccept`, `LedgerSettle`, `LedgerForget`, `LedgerStutter`).
  The sweep of overdue rows is one `Settle` because at most one row is pending.

Assumptions: `TimesAssumption` (the times are natural numbers, `0 < WorkCutoff < Deadline`,
which the constructor checks, and `Deadline <= Retention`, which the defaults satisfy and no
code checks), `PayloadsAssumption` (a payload has a kind) and `NoneAssumption` (`None` is no
other value).

`ServiceProofs` proves, for any sets of invocations, deliveries, requests and calls, any number
of failures and restarts, and any times, that `ServiceInv` is an invariant of `AskHumanService`.
The invariant is stated per coroutine: what it may rely on at the dependency call it awaits,
whatever the others did since it last looked.

* `AskWell`: an invocation that works on a request has a row that is there, under its key, with
  its question, and with no verdict from before it began (`Mine`); it is within its deadline;
  what it is about to return is on record; it cancels only as the creator that was cancelled;
  and while it has yet to place its call, no call exists for its request.
* `HandlerWell`: the event of a delivery was sent, on a call of its request. Within the block
  (`bind` to `complete`) the row is there and its cutoff is the one in the snapshot; once the
  call was compared, it is the attached one and stays so; and whoever goes on to prompt has
  claimed the recognition of a request on whose calls nobody was prompted.
* `OneCreator`, `OneClaimant`: the two roles that the table gives away once. They are what makes
  `OneCallPerRequest` and `PromptedOnce` inductive: the creator alone places a call, once, and
  the claimant alone prompts, once.
* `TimesWell`: a row expires between the cutoff's distance and a deadline from now, at most. With
  `Deadline <= Retention` it is why no row is purged under an invocation or a handler that works
  on it, which every other part rests on.
* `CallsWell`, `SentWell`, `AttachedWell`: a call belongs to one request for good, events are only
  sent on calls that were placed, and a request is only attached a call of its own.

The argument for a step has two halves. The statement moves rows only as `RowMoves` says
(inserted, moved on while pending, purged when due), and each part withstands that: the lemmas
named `...Stay(s)` of `ServiceLemmas`, put together in `Keeps`. And the next record of the coroutine
that steps is sound as things stand: the lemmas named `...Well`, then one lemma `...Steps` per
action. The clock is the third case (`AskWaits`, `HandlerWaits`): it does not pass a limit that a
coroutine relies on, because a timer is due first.

`CallsReleased` (of `AttachedCallReleased`) needs a second invariant, `CallsWatched`, kept by the steps of a behaviour in which
nothing failed, the replica did not restart and no joiner was cancelled (`CalmStep`): as long as the attached
call of a terminal request is up, it is on the list of maintenance or some coroutine `Ends` it. That says how far
that coroutine is: about to reread the row, in `_expire` or `_fail`, for a request that the person did not
answer; hanging up this call; about to start `_expire` anew after an interruption; or acknowledging the
answer, which no timeout interrupts. The lemmas named `...Watches` show that each of its steps leads from one of these
to another until the call is over, and `SettledEnds` that whoever settles a request begins in one of them.
The hypotheses are those of the property: a clean-up call that fails, a restart that loses the list of
maintenance, or a joiner cancelled at the wrong moment (section 3) leaves a call up.

Proved from `ServiceInv`: `ServiceTypeCorrect`; `OneCall`; `AskedOnce`; `HumanAnswers`; `RightlyCancelled`;
`RowsKept`; `AnswersRecorded`; and `ServiceUsesStore`, that every step is a statement of
`RequestStore` within its times and limits (an INSERT comes within the work cutoff of its ask, a
result carries the row's own cutoff), so that the theorems about the table hold under the service
(`VerdictsStand`). They assume what the table's theorems do, that invocations and deliveries are
different coroutines (`ProcessesAssumption`), that `None` is none of the names in use
(`NamesAssumption`), and, in the model itself, that timers fire on time.

`CoroutinesEnd` is the half of termination that needs no fairness: every step of an invocation or a handler, a
failure, a timeout, an interruption or a restart included, takes it nearer its end, and the steps of
the others leave it where it is. The measure `Ahead` counts the stages that may still come, at most 26, and a hang-up
of several calls (finitely many, as the calls are) shrinks their set instead. A stage of a clean-up counts what may come
`Behind` it: `_fail` of a call's start leads back to `_poll`, a raising `_expire` of a late or lost reply to one `_fail`,
and a clean-up that an interruption cuts short to one `_expire`, which only the deadline cuts; what the deadline cuts has a
last hang-up ahead (`cut`). That needs its own
invariant, `FramesOK`: the clean-up knows who called it, and goes on only to what that caller does next (`MayGoOn`).
A turn of `_poll` that finds no terminal row is a stutter: that the wait ends is a matter of the timers, and stays
with TLC, in `AsksReturn` and `HandlersAnswer`.

`ReplicaProofs` proves, for any set of handlers, any number of clients and of failures, that
`ReplicaInv` is an invariant of `Replica`. `ReplicaInv` says what each phase of the lifespan implies:
the pool is open from `Open` to `ClosePool`, the loops run until `StopTasks` and have ended after it,
a loop whose `_run` is in its drain has been told to stop or will go round, the callers of the
service are none but tool calls while the tasks stop and none at all once the pool closes, and
`closed` counts the clients. `ReplicaTypeCorrect`, `ClosedAfterUse`, `WorkHasItsHandler`,
`StaysReady` and `AllClosed` follow. The strengthening is needed because the properties speak of the
last phases only, and what holds there was decided in earlier ones.

`EndpointProofs` proves, for any sets of requests, calls and deliveries, any bound on failures, and
any choice of the events ACS sends, that `EndpointInv` is an invariant of `CallbackEndpoint`. Its parts:

* `BatchesOK`: an acknowledgement is of the event its delivery has come to, and only of an event
  that is no report of a playback.
* `RegistryOK`: there is one acknowledgement of a call, and a registration is of one that plays, for the
  request whose answer is on record. `RegistryIsExact` is `RegisteredWhilePlaying`.
* `ThanksOK`: the thanks of a request are asked for once, only after its answer, and a report is
  of thanks that are over; so an acknowledgement that hangs up uncut does so in silence
  (`ThanksAreHeard`). Here is what makes a late report harmless: the second playback that it could
  complete does not exist.
* `HandledOK`: an event that a delivery is past, or that was answered with 200, has had its effect;
  and an effect stays (`FinishedStays`). `EventsTakeEffect` and `ReportsAreKept` follow.
* `FaultsOK`: an acknowledgement that raises, and a second hang-up of an answered call, cost a
  failure each.

`AnsweredCallsEnd` is shown of each step: the handler that records an answer and learns so owes its
acknowledgement (`WinnersAcknowledge`); it goes on from that, and from the hang-up that follows one that failed,
only with the call ended or by a failure of just that stage (`EndingEnds`). So from there on it takes two failures to
leave the call up. It says nothing of a handler that does not learn that it won, because the reply of its completion was
lost: that one failure does leave the call to the person, as listed above under *Known*.

The lemmas named `...Frame` show that a part is preserved by any step that leaves its own concern
alone; each action then has a lemma for what it does itself.

`CallbackKeysProofs` proves, for any sets of validations and keys, any number of rotations and failed
fetches, and any times, that `KeysInv` is an invariant of `CallbackKeys`. Its parts:

* `LockOK`: the queue of the lock holds who waits for it or has it, each once, and who fetches is at its
  head. Every lemma about a step speaks of the lock without the validation that runs (`Aside`).
* `ClockOK`: nothing outlives its deadline, and no deadline, cooldown or expiry is further away than
  when it was set.
* `ReadOK`: a document was read within the timeout of the validation that asked for it, so that a cached
  set expires within the time to live and a timeout of the last moment at which each of its keys was
  published. `WithdrawnKeys` follows, because only a fresh set, or one that has just arrived, accepts.
* `AgainOK`: a set that changed while a validation waited to look again arrived after it began.
* `CooldownOK`: a key missing from the cached set was published after the fetch that armed the cooldown,
  unless that fetch came to nothing. This is what makes a refusal by a cooling set sound; with `ReadOK`
  and `AgainOK` for the two other ways to refuse it gives `RotatedKeys`.

A step of a validation runs through up to five operators of the model; each has a lemma that reduces it
to one of three ends (`Outcome`: an answer, a place in the queue, a fetch), and `LandsInv` shows once that
such an end keeps the invariant. `Timeout < Cooldown` (the code's `MAX_REQUEST_TIMEOUT_SECONDS` against
`REFRESH_COOLDOWN_SECONDS`) is used where a set changed under a validation: two timeouts may have passed then.

`DeliveriesEnd` is the action property `DeliveriesShorten` (of `EndpointProofs`, no property of a run: it
is a measure of the model's own). `Work` counts what a delivery has yet to do: ten for each event to come,
and the stages left of the present one, those of its acknowledgement included. Each of its own steps, the
failures and the timeouts too, lowers it, and no step of another delivery, of ACS, of an invocation or of
maintenance changes it. So a delivery is answered after at most ten of its own steps for each event; that it
always has one to take is `DeliveriesMove`, which TLC checks. The two together say that no batch is handled
for ever.

`DecisionsProofs` proves the invariants of `decisions` for every input: events of either kind of question with
any codes, any finite set of claims, and evidence of any size. Each follows from lemmas about the operators; that
a decision is the one its input calls for (`DecisionsInvariant`) is an auxiliary lemma:

* An event is a failure only by its type, never by its codes (`ClassifiedRange`, `DomainEventRange`), and the
  contract refuses no result but an answer that is too long (`RefusedResult`). Hence `FailuresFail`.
* A response comes of a recognition only and keeps its choice or words through `Effect` (`RecognizedRange`,
  `OutcomeIsTheEvents`). That a recognition is of a choice or of words but not of both is the parser's check.
  Hence `VerdictsSpoken`.
* The values of a kind of claim shrink when a claim is left out (`ValuesWithout`), and an accepted agent has
  exactly one value of each (`AcceptedIdentity`); two single values one within the other are the same. The object
  id is the exception, because without it the subject claims are looked at. Hence `AgentsAreStable`.
* In correlated evidence the requests of a call are the request of any of its rows (`RequestOfCall`); the
  times are ordered from the receipt to the review. Hence `ReviewedEvidence`.

Assumptions: `CallsAssumption` (a call belongs to one request), `NoneAssumption` (`None` is no request
and no registration), `ReplicaAssumption` (at least one client), and `KeysAssumption` with the
`NoneAssumption` of `CallbackKeys` (positive periods, `Timeout < Cooldown`, `None` is no set and no answer).
In `Decisions`: `EventsAssumption` (a question is for approval or for input, the two values of `RequestKind`, and `None`
is no label), `ClaimsAssumption` (a header or a token lists finitely many claims) and
`EvidenceAssumption` (times are numbers, and a row of an accepted callback says when it was received: the
schema of the evidence demands it).

Only model-checked: `DeliveriesMove`, because it speaks of `ENABLED`; the refuting runs `late_call` and `stale_keys`; and
all liveness under fairness (`AsksReturn`, `HandlersAnswer`, `RequestsSettle`, `ShutdownCompletes`,
`GaugeSettles`), which is out of the prover's reach, as induction over recursive data is. No module here has a
RECURSIVE operator.

## 5. Plan

Done: the table with its abstract specification and proofs; the service with maintenance, ACS and
the person, and its proofs; the callback token validator with proofs; events, deliveries and acknowledgements with
proofs; the replica with proofs; identity, events and evidence with proofs. Every invariant and every action property
that a passing run checks is proved, but for `DeliveriesMove`.

Open, if the project is taken further: the two findings once the code decides them, and a second
replica in `AskHumanService` for the minutes of a rollout.

## 6. Not modelled

Text (prompts, answers, messages) and its validation; status codes, the MCP protocol and its schemas;
the decoding of a principal header, the signature of a token; the queries and files of the evidence
export; spans and counters; the reading of settings; deployment templates and generated schemas. They
hold no state that the verdicts depend on. uvicorn, the MCP session manager, ACS and PostgreSQL are
modelled from how the code uses them. A second replica, which the deployment has during a rollout, is
`ElsewhereInTable` in `Replica` and nothing in `AskHumanService`. The migration of a live table runs before the
service starts. Clock differences between the database and the service are not modelled.
