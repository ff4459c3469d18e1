# Verification of teams-triage-bot

TLA+ modules that model the triage bot, TLC runs that check them on small
instances, and TLAPS proofs of what matters most for every instance. The
reference is the code under `src/`; line numbers are those of its files.

## 1. The system

A user writes to the bot in Teams. The Bot Connector posts the **activity** to
the **relay**, which authenticates it and puts it on a Service Bus **queue**.
The **brain** takes it under a peek lock, loads the user's **interview state**
from Table Storage, decides what the text or form is (a turn of the interview, a
new incident, a retry, a follow-up question, a stale form), calls a language
model, writes the state back and **replies** through the Connector. When an
interview is complete the brain at once runs an **investigation** with MCP tool
servers (mocks in this repository) and replies with a report.

| component | state it keeps | operations | interacts with |
|---|---|---|---|
| relay (`relay/`) | none | `messages`, `authenticate`, `enqueue_activity` | called by the Connector, which retries; sends to the queue |
| queue (Service Bus, external) | messages, locks, delivery counts | send, receive, complete, abandon, lock expiry, dead-letter | relay, brain |
| receive loop (`brain/app.py` `main`) | the message in hand | receive, handle, complete, abandon | queue |
| `handle_envelope`, turns, `_reply_once` | an LRU of handled ids, locals between awaits | re-validate, deduplicate, route, incorporate, reply, mark | store, model, Connector |
| lifecycle heuristics (`brain/lifecycle.py`) | none (pure) | `is_new_incident`, `is_retry_request`, `known_environment` | called by `handle_envelope` |
| state store (`brain/state_store.py`) | one row per user, with a TTL, in a table or in the process | `get` (deletes an expired row), `put` (upsert), `delete` | Table Storage |
| interviewer, follow-up | a lazily made agent | `run_turn`, `run_followup` | the model |
| investigation and MCP registry | tool connections and a call count, per run | `run_investigation`, `ToolLifecycle`, budget middleware | the model, the tool servers |
| redaction (`brain/redact.py`) | none (pure) | `redact` | every reply |
| mock MCP servers (`mock-mcp/`) | the target each job number was last issued for (jenkins) | `get_recent_deploys`, `get_build_log`; the others answer from their arguments | the investigation |
| infrastructure (`infra/`) | Azure resources | `provision.sh`, `redeploy.sh` | rolls the brain's revision, so that two overlap |

### What is hard, and what correctness means

* **At-least-once delivery.** A message comes back when its process died, when
  its handler raised, when its lock was lost, or because the Connector posted
  the activity again. Correct: nothing leaves the queue as handled without an
  answer; nothing circulates for ever; without a crash nothing is said twice.
* **A turn alternates replies and writes** (up to five replies and three writes),
  any of which may fail after the earlier ones took effect, or fail *after*
  taking effect itself. Correct: the row never claims what the user was not
  told, and a turn that is run again finds a sound transcript.
* **Deduplication has three layers** (LRU, `last_completed`, `last_started`), each
  of which forgets. Correct: whatever one of them lets be skipped was answered.
* **An investigation uses what it can get.** Some tool servers are not configured,
  some do not connect, some raise when they are closed, and the model asks for
  several calls at once under one budget. Correct: a run's budget is its own and
  is kept, the report names each server the run did not have, and every
  connection is closed.
* **One row per user serves many incidents.** Texts and forms of an old incident
  arrive during a new one. Correct: a finished interview is only replaced by a
  text that names a new incident, and an unfinished one never.
* **Rules written twice.** Relay and brain each check tenant and channel. Correct:
  what the relay accepts the brain does not drop.
* **A roll-out runs two brains on one table,** whose writes and deletes carry no
  condition. Correct: a row is lost only to an activity of the same user handled
  at the same time.
* **The fallback store keeps Python objects.** Correct: it behaves as the table does,
  though the caller goes on changing the object it read or wrote.
* **A provisioning run stops anywhere** and is run again over what it left. Correct:
  a run that gets to its end left nothing out, and the bot is not wired early.
* **The mock Jenkins is shared** by every investigation, of two brains in a roll-out,
  and its job numbers collide. Correct: a log is of the deploy that was listed, as
  long as nothing else took the number in between.

## 2. Modules

| module | models | contents |
|---|---|---|
| `Lifecycle` | `brain/lifecycle.py` | operators on texts and environments; a text is what the three regular expressions find in it |
| `Brain` (EXTENDS `Lifecycle`) | `brain/app.py`, `reply.py`, `interviewer.py`, `followup.py` and the table, with the queue and the users as environment | one process over one queue |
| `AtLeastOnce` | the promise of queue and brain together | abstract: `Post`, `Reply`, `Settle`, `DeadLetter` |
| `BrainClaims` (EXTENDS `Brain`) | what comments say and the code does not do | properties only |
| `RollingDeploy` | two instances of `Brain`, an old and a new revision, over one queue and one table | composition |
| `Relay` (INSTANCE `AtLeastOnce`) | `relay/app.py`, `auth.py`, `queue_client.py`, with the queue and the brain by their promise | composition |
| `UserStore` | what the brain relies on when it keeps interviews | abstract |
| `StateStore` (INSTANCE `UserStore`) | `brain/state_store.py`, both stores | refines `UserStore` |
| `Investigation` | `brain/investigation.py`, `brain/mcp_registry.py` | investigations one after another |
| `Diagnosis` (EXTENDS `Investigation`) | the Jenkins of `mock-mcp/server.py` under investigations | composition, refines `Investigation` |
| `Provision` | `infra/provision.sh`, `redeploy.sh`, `lib.sh` | scripts as sequences of steps |
| `MCLifecycle`, `MCBrain`, `MCRollingDeploy`, `MCStateStore`, `MCDiagnosis` | the instances TLC checks | constants and symmetry |
| `LifecycleProofs`, `BrainProofs`, `BrainTurnProofs`, `RollingProofs`, `StateStoreProofs`, `DiagnosisProofs`, `RelayProofs`, `ProvisionProofs` | section 4 | proofs only; `BrainTurnProofs` EXTENDS `BrainProofs`, and `RollingProofs` has two instances of it |

The modules meet at their abstractions. `Brain` and its queue implement
`AtLeastOnce`, which is all `Relay` uses of them; `RollingDeploy` shows that the
promise survives two brains. The row `Brain` and `RollingDeploy` keep per user is
the row of `UserStore`, which `StateStore` implements (in a deployment, by the
table; the fallback's rows die with the process). `Diagnosis` implements
`Investigation`, of whose outcomes `Brain` sees two.

### `Brain`

The process has a program counter `pc`, and an action runs from one `await` of
the code to the next, so that a crash, a lost lock, an expiry or a newly queued
message can fall between any two of them. `cur` is the message in hand, `try`
its delivery (and so its lock token), `st` the `InterviewState` object in memory,
`seen` the LRU. `row` is the table, `queue`/`deliveries`/`body` are Service Bus,
and `sent` is what reached Teams.

* `Receive`, `Complete`, `CompleteFails`, `Abandon`, `AbandonFails`: the loop of
  `main`. A failing call may have taken effect at the service or not.
* `Drop`, `SenderUnknown`, `SkipSeen`, `GetFails`, `SkipCompleted`, `RouteStale`,
  `RouteFollowup`, `RouteRetry`, `RouteNudge`, `RouteInterview`: `handle_envelope`
  up to its first reply. There is no `await` between `store.get` and the first call
  of a branch, so reading the row and choosing the branch are one step.
* `Send` and `Save` run the turns: `AfterSend` and `AfterPut` list every reply and
  every write and what follows each (`app.py:183-265`). The step `finish` is
  `_reply_once` after its callback: marker, write, LRU.
* `ModelFails`, `ModelAsks`, `ModelCompletes`, `InvestigationFails`,
  `InvestigationReports`: what `run_turn` and `run_investigation` may return.
  `ModelRaises`: an exception their callers do not catch, or one of `run_followup`,
  whose answer (or the wording of its `FollowupError`) is sent by the step `answer`.
* `SendFails`, `PutFails`: the call raises, having taken effect or not; the
  exception leaves `process_proactive` and the message is abandoned. `Crash`: the
  pod is replaced, with an empty LRU; the lock of its message is freed later by
  `OrphanLockExpires`.
* `Post*`: users and the relay. A form may be submitted whenever its card was
  shown, again and again. `Expire`: a row outlives its TTL (`get` then treats it as
  absent, which is all a single process can see of the deletion).

Abstractions: texts, environments and users are members of small sets; the
wording of replies is left out, a reply is its kind; `investigation_report` is
set exactly when the status becomes `investigated` and is not a field of its own;
the fields of the form other than the environment are left out, since no
decision of the code reads them. `inc` (the activity that opened the incident) and
`forms` (whose forms were merged) are history for the properties; no guard reads
them.
An activity bears the name of the first message that carried it.
Every fault is an action guarded by membership in the constant `Faults`, so that
one module serves runs with all, some or no faults.

### `RollingDeploy`

`az containerapp update` starts the new revision before it stops the old one
(`StartNew`, `StopOld`); the brain has no handler for SIGTERM, so the old process
dies wherever it is. `OldProcess` and `NewProcess` are the steps of the two
instances of `Brain`, each with its own `pc`, `cur`, `try`, `st` and LRU over the shared
table and queue. Two processes can see what one cannot: `get` of an expired row is
a read and a later, unconditional `delete_entity`. An expired row is absent to both,
but stays in `expired` until written or deleted, and a process that routed on it is
in `deleting` until `OldDeletes`/`NewDeletes` removes *whatever is there by then*.
`overtaken` is history: who had their user's row changed by the other since they
read it.

### `Relay`

All requests for *one* activity: the relay keeps nothing between requests, so
that different activities do not meet in it, but attempts to deliver the same one
do. `shape` is the activity as far as any check looks at it (288 of them), chosen at the
start. `Refuse` is 400 or 401, `Admit` the end of `authenticate` and the acknowledgement
of anything but a message, `Enqueue`/`EnqueueFails` the send (a failed one may have
reached the queue), `Answer`/`AnswerLost` the response, `Crash` the pod's end with
every request in it. `Authentic` is the relay's check and `BrainDrops` the brain's,
each from its own file. Beyond the queue only `AtLeastOnce` is used.

### `StateStore`

`table` keeps serialised states by row key; the fallback's `rows` keep references
into `heap`, in which the caller's object `held` lies too. `Get` hands out a new object
(what was parsed, or a deep copy), `Edit` is the caller's, `PutTable` and
`PutTableFails` stamp the caller's object before the upsert, `PutMemory` keeps a
copy. `GetExpired` deletes or fails to (a table that fails to delete is only logged).
`Restart` loses the heap. An object nobody refers to is free at once, so that four
places suffice for two rows, the caller's object and a new one. `KeepsRows` maps a
row that is not expired to its contents and the time it was put.

### `Investigation` and `Diagnosis`

`Start` (or `ConfigFails`) enters `ToolLifecycle`: the file is read anew, so each
run may find other servers, of which those without a URL are skipped.
`Connect`/`ConnectFails` enter the others on the exit stack (the code in the
file's order, the model in any). `BuildAgent` makes the agent with its own
middleware. The model then asks for any calls at once (`Ask`); the framework runs
them concurrently, so `Admit`, `Block` and `CallEnds` interleave, and
the middleware's test and increment are one step because no `await` is between
them. `Respond` merges the missing servers into the report inside the `async with`;
`Close` and `Leave` unwind the exit stack afterwards, and an exception raised
while closing turns a good report into an `InvestigationError`, which `Brain` sees as
`InvestigationFails`. `RunFails` may come with calls under way (the framework raises,
or the run is cancelled), which are given up. Servers are told apart by name. A brain
handles one message at a time, so its investigations follow one another; `MaxRuns`
bounds their number.

`Diagnosis` gives three of those actions something to carry: a call may list the
deploys of a target (`ListDeploys`, which issues the target's job number) or read the
log of a job (`ReadLog`, of the target the number was *last* issued for, or of the
demo's). Several targets may hash to one number, the map outlives an
investigation, and `RestartJenkins` empties it at any time. There is one Jenkins, but
there are two brains while a revision is rolled (`RollingDeploy`): `AnotherLists` is
the other one's `get_recent_deploys`, of any target, at any time, between this
investigation's listing and its log too. Of the other brain no more is needed, since
a log that is read changes nothing. `lost` is history: the targets this
investigation was listed whose number was issued for another target after that, or
was forgotten in a restart.

### `Provision`

A script is a sequence of calls of `az`, in the order of the file, each a record of
what it does (`create`, `allow` for `run_allow_exists`, `build`, `ensure`, `roll`,
`set`), on what, and with which group of variables; a resource is its name. `Run`
starts any of the scripts anew with the next tag; each step may `Succeed`, `Fail`
(having worked or not; `set -e` ends the script, as a kill does), or, for
`run_allow_exists`, end in a `Conflict`, whatever the conflict was about (`lib.sh:71`).
There is nothing at first, or what phase 1's script left. Two variables are history:
`masked`, what the current run was answered with a conflict for though it was not
there, and `missed`, what of it was on the bot's path when the bot was last wired.
`Path` is all an activity needs from the bot to a brain: the bot and its channel, the
queue, the apps and what they run in, and every role assignment they send, receive
and pull images by.

## 3. Runs

| run | instance | shows |
|---|---|---|
| `lifecycle` | all texts and environments over four tokens | `Spelling`: how an environment is spelled decides nothing; `Continuation`: naming the interview's own never wipes it |
| `brain_faults` | 2 messages, 2 deliveries each, LRU of 1, every fault | `TypeOK`, `SettledIsAnswered`, `ToldBeforeRecorded`, `ResumeSound`, `MarkerHonoured` |
| `brain_incidents` | 4 messages, no faults, four texts, two environments | `RowEvolves` |
| `brain_redelivery` | 3 messages, 2 deliveries, duplicates, lost locks, failed completions | `SentOnce` |
| `brain_promise` | 2 messages, 2 deliveries, crashes, lost locks, failed completions, nameless senders, fairness | `KeepsPromise`: `Brain` implements `AtLeastOnce` |
| `investigation` | 2 servers, 4 calls, a budget of 2, 2 investigations, two targets of one job number, listings of another brain and restarts of Jenkins at any time | `TypeOK`, `BudgetKept`, `EveryServerAccounted`, `NothingLeftOpen`, `LogIsOfListedDeploy` |
| `rollout` | 2 messages of 1 user, 2 deliveries, expiries, failed reads, duplicates, nameless senders, fairness | `OnlyOvertakenLose`, `KeepsPromise` with two brains |
| `store` | 2 users, 4 objects, a TTL of 2, a clock to 5 | `TypeOK`, `KeepsRows`: `StateStore` implements `UserStore` |
| `relay` | 3 attempts, one activity of any shape, fairness | `BrainAgrees`, `AcceptedIsKept`, `AcceptedIsHandled` |
| `provision` | 3 runs of any script, from nothing or from phase 1's leavings | `DoneIsComplete`, `RunsPushedImages`, `WiredIsServed` |
| `claim_resume`, `claim_forms` | 2 and 4 messages | one statement of a comment each, violated: section 5 |

Bounds.

* One user in `Brain`: users share nothing but the LRU and the queue, whose ids are
  distinct; that rows of different users stay apart is `StateStore`'s, with two.
* `MaxDelivery` is 2 where the service's is 10: the hazards need one redelivery, and
  a second one only repeats it. Two messages delivered twice already overtake each
  other, which is what one marker per user forgets.
* An LRU of 1 makes eviction happen with two messages; where eviction is to be
  excluded it holds every id.
* Four messages in `brain_incidents` take an interview from its card to the report
  and on to a second incident (text, form, new issue, form).
* In `rollout` two messages are the two activities that may be handled at once, and
  with a duplicate the one activity both brains handle. Crashes and lost locks are
  left to `Brain`'s own runs: stopping the old revision is the crash.
* A budget of 2 with 4 calls lets calls asked for together race for the last of
  it, and a second run shows what the first leaves behind; two targets with one
  number are a collision.
* A TTL of 2 up to time 5 lets a row be written, read on its last second, written
  anew, and expire. Three script runs let a partial run be repaired, and the
  repair be spoilt by a redeployment. Three attempts leave one in the relay, one
  lost and one accepted.

Messages are symmetric in the safety runs, objects in `store`, calls in
`investigation`; there is no symmetry where liveness is checked. Deadlock is checked
but in `provision`, whose scripts stop for good after `MaxRuns`. Elsewhere a state
that may last for ever is an action that stutters, and says what must hold there:
`Quiet` (every message settled), `Done` (no run left).

Fairness. `Brain`: the process takes its next step as long as its pod lives (its loop
is sequential and each of its calls returns or raises), and Service Bus frees a
lock nobody renews. `RollingDeploy`: the same of each process while its revision runs;
the roll-out may stop anywhere. `Relay`: only `AtLeastOnce`'s own; the relay and the
Connector may stop at any point. Nothing is assumed of users, nor that a crash, a
lost lock or an expiry ever happens or stops: the delivery count ends the story. The
other modules state safety only: an investigation may hang as long as its model
does, and a script is run when an operator runs it.

## 4. Proofs

Each for every value of the constants that satisfies the module's assumption: any
number of messages, users and deliveries, any LRU, any set of faults. The
assumptions say that `None` is not a value it stands beside, that caps are numbers,
that the calls of an investigation are finitely many, and (`StateStore`) that the row
keys of different users differ.

| theorem | says | argument |
|---|---|---|
| `LifecycleProofs!SpellingIsNeverDecisive`, `NamingContinues` | `[]Spelling`, `[]Continuation` | two tokens have one `Norm` exactly when they spell one environment |
| `BrainProofs!TypeCorrect` | `[]TypeOK` | inductive as it stands |
| `BrainProofs!SettledAreAnswered` | `[]SettledIsAnswered` | `AnsweredInv` |
| `BrainProofs!MarkersAreHonoured` | `[]MarkerHonoured` | `Unmarked` |
| `BrainProofs!BrainIsAtLeastOnce` | `Brain` implements `AtLeastOnce` but for its fairness | one step of the queue or of the replies per action |
| `BrainTurnProofs!RowsEvolve` | `RowEvolves` | `RowInv` |
| `BrainTurnProofs!TranscriptsAreSound` | `[]ResumeSound` | `SoundInv` |
| `BrainTurnProofs!UsersAreTold` | `[]ToldBeforeRecorded` | `ToldInv` |
| `BrainTurnProofs!RepliesAreSentOnce` | `[]SentOnce`, if there is no crash, failed reply, failed write or failing model, and the LRU holds every id | `OnceInv` |
| `RollingProofs!OnlyTheOvertakenLose` | `OnlyOvertakenLose` | `RollInv` |
| `RollingProofs!RolloutIsAtLeastOnce` | two `Brain`s implement `AtLeastOnce` but for its fairness | `RollInv` |
| `StateStoreProofs!TypeCorrect`, `StoreKeepsRows` | `[]TypeOK`, and `StateStore` implements `UserStore` | `SInv` |
| `DiagnosisProofs!TypeCorrect`, `BudgetIsKept`, `ServersAreAccounted`, `ConnectionsAreClosed` | the four invariants of `Investigation` | `IInv` |
| `DiagnosisProofs!DiagnosisIsInvestigation` | `Diagnosis` implements `Investigation` | action by action |
| `DiagnosisProofs!LogsAreOfListedDeploys` | `[]LogIsOfListedDeploy` | `LInv` |
| `RelayProofs!RelayAndBrainAgree`, `AcceptedIsNeverLost` | `[]BrainAgrees`, `[]AcceptedIsKept` | `RInv`, `KInv` |
| `ProvisionProofs!RunsFillTheGaps`, `NothingRunsUnpushed`, `BotIsWiredLast` | the three properties, for any number of runs | `PInv` |

* `AnsweredInv`: a message may be settled because the LRU or the durable marker names
  its activity, so `SettledIsAnswered` alone is not inductive. It adds that the LRU,
  the marker of every row and the copy in memory (which will be written back) name
  answered activities only, and that a process past the last reply of its turn
  (`ToldSteps`) has answered.
* `Unmarked`: while an activity is worked on, neither its user's row nor the copy in
  memory names it as completed; the second half is what makes the first survive
  the write of the copy.
* `RowInv`: the copy in memory is at every step what its row may become (`MovesOn`),
  and stays so over whatever a write that failed left behind and over an expiry of
  the row. The lemmas on prefixes say that a transcript only grows.
* `SoundInv` carries the soundness of a transcript from the row to the copy and back:
  `CopySound` holds of the copy at every step between two writes, and a user turn is
  only appended if the row's `last_started` names another activity. `ToldInv` ties
  what the copy says to the step the turn is at (`CopyTold`): the form, the summary or
  the report that justifies it was sent, or is one `pc` still has before it. It also
  needs that an activity is named by a message that carries it (`AllNamed`);
  `PostedStays` and `SaidGrows` say that what was posted or said stays so.
* `SInv` adds to the types that the fallback shares no object with its caller
  (`Apart`) and that whatever is in a row was stamped (`Stamps`). Without `Apart`, `Edit`
  would change a row, which `UserStore` does not allow.
* `IInv`: a run starts clean (`NotYet`), the middleware's count is the number of calls
  made except between two runs (`Counted`), it stands at the budget once a call is
  blocked (`BlockedLate`), and each configured server is still to be connected,
  connected, or listed (`Placed`). Without `Counted` the budget is not inductive: the
  count, not the calls, is what the middleware tests.
* `LInv`: what was listed to an investigation and is not `lost` was issued last for
  its number (`IssuedForListed`), although the map is older than the investigation and
  other brains write to it. What `LogIsOfListedDeploy` excepts is what `lost` records:
  that after the listing the number was issued for another target, whoever asked, or
  Jenkins was restarted. It stays in `lost` until the investigation ends.
* `OnceInv`: what was sent for the activity in hand are the replies behind `pc`
  (`Stage` numbers the steps of a turn), and nothing was sent for one that is neither in
  hand nor in the LRU. That the LRU forgets nothing is its own argument: its ids are
  distinct, so that it never holds more than there are messages (`DistinctFits`). The
  hypotheses are what the property needs: each of the four faults, or an eviction,
  lets a reply be sent again (section 5).
* `RollInv` has a part per process. `Beside` is what a process keeps whatever the other
  one does to the queue and the table: `AnsweredInv`, and that its copy is the state of
  an interview. `RowInv` it keeps as long as it was not `overtaken`. And what a process
  is about to delete is absent, unless it was overtaken: without that, `OldDeletes` could
  delete a row that was just written. Each action is a step of one process that the
  other one stands by (`OldWaits`, `NewWaits`), and what a process does alone is cited
  from `Brain`'s own proofs.
* `RInv`: whatever is past the relay's checks, or queued, passed them. `KInv` adds that a
  202 for a message is only on its way once a message was put on the queue, that each
  such message stands for an activity to be replied to (which rests on `BrainAgrees`: the
  brain must not drop it), and that it is only settled once that was.
* `PInv`: every call the run has passed has done its work and the later ones have not
  undone it (`Did`), every app runs an image that was pushed, and a wired bot has its
  path (`Based`, `WiredIsServed`): when the endpoint is set, each call that makes a part
  of the path was passed in the same run, so that the part is there or its conflict
  was masked in this run. That the calls of a script come in this order is stated
  call by call, from the text of the script.

TLC checked `RollInv` and `PInv`, as it had the invariants before them, on the
instances of section 3 before they were proved.

The roll-out's assumption says of its constants what `Brain`'s says of its own, so that
the two instances satisfy it; a message has the same name to both processes.

Only model-checked: liveness, which is out of the prover's reach: `AcceptedIsHandled`,
and the fairness in `KeepsPromise` of `Brain` and of the roll-out, whose safety part is
proved. The two runs of section 5 are counterexamples and not to be proved.

## 5. Where the code and its comments disagree

Each is a run that TLC ends with a counterexample.

| run | said | done |
|---|---|---|
| `claim_resume` | `state_store.py:76-78`: redelivery of a started but not completed id resumes | once the status is terminal a redelivery is routed by status: nudge, stale form, or a wipe by the text that completed the interview |
| `claim_forms` | `app.py:43-45`: forms of finished interviews are not merged | only the current interview's status is looked at; during a newer interview an old form is merged |

Known and without a run: a pod killed between a reply and its marker replies again
(`infra/verify_phase1.sh:55` calls that a known gap); the row remembers one
completed and one started id, so that a marker which another activity overtook is
forgotten (which is why `ResumeSound` and `MarkerHonoured` say no more than they do);
a known environment without a token counts as one by its whole name
(`lifecycle.py:114`); `run_allow_exists` takes every conflict for "already exists",
which is why `DoneIsComplete` excepts what was masked and `WiredIsServed` what was
missed; and a build log is of another deploy than the one listed when two targets of
one job number are listed by one investigation, or by two brains during a roll-out,
or when Jenkins restarts in between (`mock-mcp/server.py:122-141`), which is why
`LogIsOfListedDeploy` excepts them.

## 6. Plan

Done: every component with state, its abstract specifications, compositions, and a
theorem for each property that the runs check, of the two of liveness for their safety
part. Left: `SentOnce` with a bounded LRU, that is, which deliveries an eviction lets
through.

Not modelled: what the language model answers, prompts, rendering and the layout of
the card (wording); `redact.py` (substitutions over characters, without state, on
which nothing depends); the acceptance scripts, self-checks, demos and spikes (they
exercise the system and are not part of it, though they were read for what they
expect); the Teams manifest (data); two operators provisioning at once and the
deletion of resources; user ids that differ only in the characters
`_sanitize_row_key` replaces (assumed away: such users would share a row, and the
code relies on Teams not issuing them).
