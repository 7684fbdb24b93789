# A TLA+ development for ali-os

ali-os is a personal business assistant: a Flask application that a Telegram
bot and a Telegram Mini App talk to. Agents turn messages into actions; an
action that can reach the outside world waits in an approval queue until its
owner presses a button. These modules model that program as it is written,
check it with TLC on small instances and prove what matters most with TLAPS.

Contents: 1 the system, 2 the modules, 3 the runs, 4 bounds and fairness,
5 the proofs, 6 what the runs found, 7 what is not modelled, 8 the plan.

## 1. The system

One gunicorn worker serves requests with several threads (`Dockerfile:26-34`
four, `render.yaml` eight). Its timeout of 120 seconds is the heartbeat of the worker
and ends no request: a handler may run for minutes. The database is SQLite in autocommit mode, or Turso over HTTP; in both **every statement commits
by itself** (`app/db.py`, `app/turso.py`) and `transaction()` is never used. So the
unit of atomicity is one SQL statement or one call to a service, and two
handlers can interleave between any two of them. Nothing is queued in the
process: a handler that is cut short is not resumed. The host spins down when
idle and restarts with every deployment.

| component | state | operations | hard behaviour | what makes it correct |
|---|---|---|---|---|
| Approval gateway (`approvals/gateway.py`, `risk.py`, `registry.py`; `pending_actions`, `event_log` in `repositories.py`) | one row per action: status, risk level, approval count, requester, deadline, decider; the event log | request_action, approve, reject, the executor's run, the expiry sweep | decisions on a row read earlier, `UPDATE`s by action_uid alone, restarts between approval and outcome | no run without the approvals its level needs; only the requester decides; no late decision; the row tells the truth |
| Approval cards (`handle_callback`, `_send_card`, `build_keyboard`, webhook callback branch, Telegram client) | the keyboard under each message, the updates Telegram holds | send, press, deliver, edit | redelivery, lost edits, pending updates dropped at start | buttons match the action; a red action needs two different buttons |
| Webhook and conversation (`webhook.py`, `master/agent.py`) | users, conversations, messages, the decline cooldown | one handler per message | messages delivered again while their handler runs; look-then-insert of users and conversations; check-then-set of the cooldown | bounded work per message; one conversation; every update is answered for |
| Mini App API (`miniapp/api.py`, `auth.py`, `analytics.py`) | the read cache | some forty endpoints over the repositories | a cached body computed before a mutation | a read after a mutation shows it, or will soon |
| Executors (`approvals/actions.py`) | none of their own | one function per action type | effect first, record later; an error after the effect | an effect is recorded; a retry does not repeat it |
| Income ledger and reminders (`financial/`, `financial_agent.py`) | incomes with status, due and paid dates, notes | create, mark paid, mark overdue, update, delete, remind | the overdue sweep overwrites a payment; reminders without deduplication | a paid income stays paid; a reminder is sent on an approval of its own; a note tells of a message that went out |
| Content and WordPress (`content/`, `content_agent.py`, `agents/wordpress.py`) | drafts with status and post id | draft, approve, publish | post first, store second | what is recorded as published is public and the draft's own; no publication without its approvals |
| Integration store (`integrations/store.py`, `crypto.py`, Mini App endpoints) | encrypted credentials and the status of the last test | save, test, delete | find-then-insert; a test that answers late | the status belongs to the stored credentials |
| Google data (`integrations/google.py`, `gsc_storage.py`) | token and overview caches, query history | fetch, evict, clear, store history | eviction at 32 entries; results stored after a clear | bounded caches; what a lost account saw fades out |
| LLM provider (`llm/`) | none | chat with retries and a fallback | tries within endpoints within rounds hold a thread for minutes | a bounded number of posts, and an end |
| CRM and sales (`crm/`, `agents/sales_agent.py`) | contacts, deals, interactions | create, update, cascade delete, follow-up | a message sent, then the entry fails; row ids that come back | each follow-up and change has an approval of its own; entries stand under their contact |
| Notifications and cron (`notifications/`, `automation/cron.py`) | none | morning job, alerts | a job called twice | a report is sent once a day |
| Jalali calendar (`utils/jalali.py`) | none | date conversion | leap years, month ends | conversions are inverse |
| Dashboard page, reports, seed, configuration | none | presentation, aggregation, scripts | | |

Interactions: the webhook and the Mini App call the gateway; the agents and the
cron jobs request actions; the gateway calls an executor from its registry;
executors call Telegram, WordPress, the ledger and the CRM; all of them share
the database. `PROJECT.json` lists the components with their files and lists the
hazards of this code with the line where each bites.

## 2. The modules

### ApprovalGateway

State. `status`, `risk`, `requester`, `count`, `deadline`, `decidedBy` are the
columns of `pending_actions` that decide anything (`"none"`: no row yet);
`events` the types of event recorded for each action; `clock` is `time.time()`
in units of the model. A thread `t` runs one handler: `pc[t]` names its **next
statement**, `act`, `who`, `op` its arguments, `seen[t]` the part of the row
that `_load_open` read, `stale[t]` the rows a sweep selected and has yet to
update, `arrived[t]` when its request came. `granted`, `effects`, `successes`
count what no column stores: the approvals given, the times the outside world
felt the action, and the times its executor returned.

| action | code |
|---|---|
| `Request` | `request_action` up to the `INSERT`: a green action is stored approved and goes to its executor, any other waits |
| `Decide`, `Load` | `approve` / `reject` and the `SELECT` of `_load_open` |
| `CheckRefuse`, `CheckExpire`, `CheckPass` | the checks of `_load_open`, in their order: requester, closed statuses, deadline |
| `GrantStep`, `GrantFinal` | the two branches of `approve`: `count + 1` computed from the row **that was read** |
| `Reject` | the `UPDATE` of `reject` |
| `ExecuteReturns`, `ExecuteRaises`, `FinishExecuted`, `FinishFailed` | `_execute`: an executor may raise before or after its effect |
| `Record` | `record_event`, the statement after |
| `SweepStart`, `SweepRow` | `expire_stale_actions`, a `SELECT` and one `UPDATE` per row |
| `Reply`, `Die` | the handler ends, or is cut short between two statements |

`failed` is absent from the statuses `_load_open` refuses, so a failed action
can be decided again. That is the code; the model and the properties
(`Transitions`) keep it.

### ApprovalGate

The abstract contract: three variables (`level`, `approvals`, `runs`) and three
actions. A run needs one approval of its own beside the ones its level asks for
first. `ApprovalGateway` implements it with `level <- LevelOf`,
`approvals <- granted`, `runs <- effects`; the property is `KeepsTheGate`. It says
nothing of threads, rows or deadlines: authority is what survives every
interleaving and every interruption.

### ApprovalCards

Extends the gateway with the chat. `card` is the keyboard under an action's
message, `updates` the presses that Telegram still has to deliver, `press[t]`
and `shown[t]` the update a handler works on and the status it read back for
its edit. A press is delivered (`Deliver`, a `Decide` of the gateway: the first
button and the final one alike approve) as often as Telegram likes until it is
answered; `ReadBack` and `EditCard` are the end of `handle_callback`; an edit
or an answer can be lost; `Startup` is `set_webhook(drop_pending_updates)`;
`CutShort` is `Die` with its consequences for the update. `Elsewhere` is
everything the cards have no part in, the Mini App among it. Telegram itself is
external: modelled from what `webhook.py` and the client rely on.

### IncomeLedger

State. `status`, `due` and `notes` are the columns of `project_incomes` that
decide anything (`notes` counts the reminder notes in the text), `rstate` the
row of each requested reminder, `about` and `via` its payload: the income, and
whether its client has a chat, a mail address, both or neither. A thread runs
one handler: `pc[t]` is its next statement or call, `job` and `todo` the work
of a sweep and of a batch of reminders, `rem` the reminder it decides or sends,
`read` the notes it read. Ghosts: `given`, `reached` and `messages` count
approvals, runs that a client felt and messages that arrived; `felt[t]` says
whether the present run was felt already; `settled` holds the incomes that were
paid while no sweep had selected them.

| action | code |
|---|---|
| `Create`, `MarkPaid`, `Update`, `Delete` | one statement each in `financial/repository.py`, called by executors and endpoints |
| `SweepStart`, `SweepRow` | `mark_overdue_if_needed`: a `SELECT`, then an `UPDATE` per row by income_uid alone |
| `Summarise` | the rest of `monthly_summary`, which only reads, and of a dry run |
| `ListOverdue`, `AskNext`, `AskSkip`, `AskDone` | `send_overdue_reminders`: the list, and a request per income that has a client with a contact |
| `AskOne` | the endpoint for the reminder of one income, which asks also without a contact |
| `Press`, `Grant`, `Store` | a decision as the gateway takes it: the check, the `UPDATE` to approved, the last `UPDATE` |
| `SendChat`, `ResendChat`, `NoChat` | `send_message`: Markdown, then plain text after any `TelegramError`, a lost answer included |
| `SendMail`, `NoMail` | the mail half of `_financial_send_reminder`, whose failure counts only if no chat message went out |
| `ReadNote`, `WriteNote`, `SkipNote` | the note that is read, extended and written back |

The decision of a reminder is repeated here in three steps instead of taking
the gateway as it is: what matters to the ledger is that a decision is checked
and stored in separate statements. Reminders are yellow, so one approval runs
them, and they implement `ApprovalGate` with a level of `"yellow"`,
`approvals <- given` and `runs <- reached`. A run that delivers its message
twice (the plain-text retry after a lost answer) is one run.

The reminder command of the chat (`master/agent.py:862-895`) is no action of its own. It
starts with a dry run, which is `SweepStart` and `Summarise`, and then means to request
a reminder for each client with a contact; but it builds the summary of its first
request with `float(r.get('message','')[:10])`, and since every template begins with a
salutation this conversion raises before anything is requested.

### ContentPublishing

State. `dstatus`, `text`, `link`, `score` and `site` are the columns of `content_drafts`
that decide anything: the text and the audit behind a score are version numbers, `link`
is the id of the WordPress post, `site` stands for the project, which has one WordPress
connection. A post is a number on a site; numbers repeat between sites, and some
posts were made by hand (`Foreign`). `audits` and `tracked` are the audits and the
review tasks. `rstate`, `kind`, `about`, `count` are the rows of `pending_actions`
with their payload; `post` is what the sites show. A thread holds the request it decides
on or runs, the draft, and what it read of either before its next step. Ghosts: `given`
and `felt` count approvals and runs that took effect, `owner` is the draft each post was
made for, `publisher` the requests that made it public, `claimed` holds the drafts whose
status `content.publish` stored, `moved` those whose project was changed.

| action | code |
|---|---|
| `Edit` | `content.draft_update`, green: any status is stored over any other, and the project may change while the post's number stays |
| `AuditStart`, `AuditInsert`, `AuditScore` | `audit_content`: the draft is read, the audit stored, then the score |
| `AskArticle`, `AskRewrite`, `AskAbout` | the chat and the endpoints that request a generation, a rewrite, a post, a publication, a deletion |
| `Press`, `GrantStep`, `GrantFinal`, `Close`, `Succeed`, `Fail` | the gateway's decision, in its separate statements |
| `Write`, `Insert`, `Track`, `TrackFails` | `generate_article`: text, draft, task and audit; errors after the `INSERT` are swallowed |
| `Raise` | a draft that is gone, and every rewrite: it is requested as `content.generate`, whose executor wants a topic its payload does not have |
| `Fetch`, `CallAnswered`, `CallFails`, `Keep`, `KeepFails`, `Drop` | `_content_publish_draft` and `_content_publish`: the draft is read, the site of its project called (`Target`: a new post, or the one with the stored number there, if there is one), status and post stored in one `UPDATE`; the first takes any exception for a site that is not connected and approves the draft without a post |
| `Delete`, `Die` | the deletion; a handler cut short |

It implements `ApprovalGate` with `approvals <- given` and `runs <- felt`. A call
whose answer was lost is a run that took effect, and the draft does not know of it.

### Connections

State. `slot`, `creds`, `state` are the table `integrations`, by row id: which service of
which project (or of all) the row is for, its credentials (a public part, for Google the
property, and a secret), and the status of the last test. `overviews` and `tokens` are the
two caches of `google.py` in their order of insertion. `job[t]` is the slot, the row
and the credentials a handler works on and when it began. Ghosts: `raced` are the threads
that saw somebody else write, `doubt` the rows whose status such a thread stored,
`lostAt` when each account of Google was replaced or deleted, `served` the overview served
last.

| action | code |
|---|---|
| `SaveStart`, `Merge`, `Insert`, `Update`, `WriteFails` | `integrations_save` and `upsert`: found, merged with the stored secret, written by id; `UNIQUE(project_id, service)` does not bind shared services, for NULLs are distinct |
| `TestStart`, `Probe`, `Verdict` | the test, of a save or by itself: the credentials by service and project, the status by row id |
| `Delete` | the row, whose id may come back (`NextId`) |
| `AskOverview`, `Hit`, `Miss`, `Refresh` | `get_project_google_data` as the dashboard, the chat and the morning report call it |
| `Token`, `Fetch`, `FetchFails` | `get_access_token` and the queries; whatever data came is cached |
| `Tick`, `Die` | time, as far as the calls' timeouts let it pass; a handler cut short |

### SalesDesk

State. `row` gives each contact the id of its row, `deal` and `dealRow` are the deals,
`entries` the interactions with the contact they were meant for and the row they
were stored under. `rstate`, `kind`, `about`, `count` are the requests with their payload
and the approvals stored. `view` is the dashboard's cached body, `body[t]` the one a
thread computes: what is left of its life, whether it misses a write, and since when.
`app` holds the threads that serve the Mini App. Ghosts: `gone`, the contacts that
were deleted; `given` and `felt`, the approvals and the runs that took effect.

| action | code |
|---|---|
| `AddContact`, `Resolve`, `AddDeal`, `AddEntry`, `Bump`, `AddFails` | the green endpoints of the CRM and `crm/repository.py`; an endpoint turns a contact_uid into a row id, or takes the id of the body as it is, and the executor uses it later |
| `AskContact`, `AskDeal`, `Prepare` | requests to change or delete a contact or a deal, and `prepare_followup_send` from the endpoint or the chat |
| `Press`, `GrantStep`, `GrantFinal`, `Store` | a decision from a card or from the Mini App, in its separate statements, as in the gateway |
| `EditContact`, `Move`, `Point`, `DropDeal`, `DropContact`, `Raise` | the executors, one statement each (`Write`), with `ON DELETE CASCADE` for interactions and `SET NULL` for deals; `Point` is an update of a deal's contact_id; the statement may take effect and its answer be lost |
| `Send`, `SendFails`, then `AddEntry`, `Bump` or `AddFails` | `_sales_send_followup`: the message first, the entry second; the handler of an error in the second raises a `NameError` itself |
| `Hit`, `Look`, `ReadStart`, `ReadEnd`, `ReadFails` | `cache_heavy_get`: the time is taken before the handler runs |
| `Answer` | `_invalidate_heavy_get_cache_after_mutation`, after every mutation by the Mini App, failed ones too |
| `Tick`, `Crash` | time; the process ends and the cache with it |

It implements `ApprovalGate` as the content does. Rejection and expiry are left to the
gateway: they only take runs away. Requests name something that is or was there; a uid
that never was leads where that of something deleted does.

Only one of the five heavy reads has a body here: entries have keys of their own and
are all cleared together.

### Conversation

State. `update` and `delivered` are what Telegram knows of each message of the owner;
`known`, `convos`, `log` the tables `users`, `conversations` and `messages` (role, the
message a row is about, whose token counts it holds). `chat[t]` counts the posts to the
LLM for the message at hand, by round; `made` the tasks and requests each delivery
led to; `cooling` is `_DECLINED_AT`. Ghosts: `declined`, and `mixed`, the threads that shared
their time with another for the same chat.

| action | code |
|---|---|
| `Receive` | the webhook takes a message: one nobody works on, or one whose handler takes longer than Telegram waits |
| `Knock`, `Gate`, `Decline`, `Cool` | a stranger's message and the cooldown of an hour |
| `FindUser`, `NewUser`, `FindConvo`, `NewConvo`, `Hear` | `handle`: look, insert, `add_message`; `UNIQUE(telegram_id)` refuses a second user, nothing refuses a second conversation |
| `Shortcut`, `Understand` | `_classify_intent`: words that are known, or the LLM |
| `Act`, `Report`, `Plan`, `Make` | `_route`: a report, tasks or requests one by one, or talk |
| `Talk`, `Tokens` | `_action_chat`, and its token counts on whatever row is the last by then |
| `ChatFails`, `NextRound` | an endpoint and its fallback fail after their tries; `structured_output` then asks once more, without JSON mode |
| `Speak`, `Reply` | the answer is stored and sent; errors of sending are logged |
| `Crash` | the process ends: handlers and cooldown are gone, a start may drop pending updates |

What a message says is left open: any message may be known by its words or not, and
may turn out to be any kind of action.

### Jalali and MCJalali

`Jalali` translates `utils/jalali.py` as operators, with Python's truncating division,
and the due date of `create_income`. `MCJalali` states, as named assumptions that TLC evaluates:
the years of the whole table (-60 to 3176) have the lengths their leap rule gives them
(`YearsAreFull`); day by day over fifteen years both conversions count on as the plain
rules of the calendars do, and undo their inverses (`ConversionsCount`); they begin
where the tests of the repository begin (`DatesAreAnchored`); an income without a date falls
due on the last day of its month (`DueAtMonthsEnd`); "this week" ends on a Friday to come
(`WeeksEndOnFriday`). `MCIncomeLedger` extends `MCJalali`, so both runs of the ledger evaluate them.

### MC modules and proofs

The modules `MC...` name the model values, the times to live and the symmetry; each
`...Proofs` module holds the theorems of one component. `ApprovalSequentialProofs` holds
those of the gateway and the cards that need one handler per action. In the
models a definition called a *variant* of its neighbour is a plausible slip in
that code; `PROJECT.json` ("mutants") says which property breaks under it.

## 3. The runs

| run | instance | shows |
|---|---|---|
| `gateway_concurrent` | two threads, one action, any caller and level, four requests, handlers cut short | `RunsArePaidFor`, `OnlyTheRequesterDecides`, `ExpiredOnlyAfterDeadline`, `NoLatePress`, and the refinement `KeepsTheGate`: what survives every overlap |
| `gateway_sequential` | one thread, five requests, no interruption, fairness | `Lifecycle`, `OutcomeMatchesStatus`, `AuditIsComplete`, `ApprovedIsCarriedOut`: what the code keeps when handlers neither overlap nor break off |
| `cards_delivery` | one thread, two presses, redelivery, lost edits, interruptions, the Mini App beside the card | `FinalButtonIsEarned`, `PlainCardIsDecided`, and that no action *succeeds* twice |
| `ledger_reminders` | two threads, one income, two reminders, five requests, handlers cut short | `RecordedPaymentStands`, `NotesAreBacked`, and the refinement `RemindersKeepTheGate` |
| `content_publishing` | two threads, one draft, two sites with three posts, two requests, five requests served, any call or statement fails, handlers cut short | `PublishedIsPublic`, `ExecutedPublishIsPublic`, `PublishedIsOwn`, `OnlyPostIsLinked`, `ScoreIsAudited`, and the refinement `ContentKeepsTheGate` |
| `connections` | two threads, a project's Google connection and a shared one, two rows, caches of one entry | `StatusIsOfStored`, `OldAccountFades`, `CachesAreBounded` |
| `sales_desk` | two threads, two contacts, a deal, two requests, five requests served, failing calls and statements, crashes | `EntriesAreTheirs`, `HitsAreRecent`, and the refinement `SalesKeepTheGate` |
| `conversation` | two threads, one message delivered twice and once more after a crash, any number of a stranger's, fairness | `WorkIsBounded`, `ConversationsAreFew`, `DeclinesAreRare`, `TokensStayNear`, `EveryUpdateEnds` |
| `gateway_duplicate` | two threads, nothing fails | refutes `RepeatedDecisionRunsOnce` |
| `gateway_restart` | one thread that may be cut short | refutes `ApprovedIsCarriedOut` |
| `cards_stale_button` | one thread, presses on the card only, nothing fails | refutes `RedNeedsFinalButton` |
| `ledger_paid_overdue` | two threads over one income, nothing fails | refutes `OnlyPendingIsMarked` |

The split is the point. Each of the four properties that are refuted holds as soon as one
condition is added, and section 5 has a theorem for each that names the condition:

| refuted | by | holds where | theorem |
|---|---|---|---|
| `RepeatedDecisionRunsOnce` | `gateway_duplicate` | no two handlers work on one action at once (`NoOverlap`) | `SequentialRunsOnce` |
| `ApprovedIsCarriedOut` | `gateway_restart` | no handler is cut short | `ApprovedStaysInHand` for its safety half; the rest is liveness, checked by `gateway_sequential` |
| `RedNeedsFinalButton` | `cards_stale_button` | a first button counts for a red action only while its row is pending (`FirstButtonIsFresh`) | `FreshButtonsNeedTheFinal` |
| `OnlyPendingIsMarked` | `ledger_paid_overdue` | no request changes a row that a sweep has selected (`HandsOff`) | `UndisturbedSweepsMarkPending` |

`PlainCardIsDecided` is checked with one presser, the owner in a private chat;
`SequentialCards` proves it wherever only an action's requester presses its card.
In a group chat on the admin list it does not hold: a stranger's press is
refused, and `handle_callback` then removes the buttons of the still open
action.

`RecordedPaymentStands` is the part of "a paid income stays paid" that the code
keeps: a payment is safe from every sweep that begins after it, and from
reminders. `ledger_paid_overdue` shows the rest: a sweep that had selected the
income before it was paid stores it as overdue.

The properties of the later modules are of the same kind: each states what survives, with
the exception the code makes written into it. `StatusIsOfStored` excepts verdicts
by a handler that was not alone and rows of a shared service that have a twin.
`PublishedIsOwn` and `OnlyPostIsLinked` except drafts whose project was changed, the
latter also drafts for which a second post was made.
`EntriesAreTheirs` excepts entries written after their contact was deleted.
A body that is being computed when the cache is cleared is stored after it and misses the
mutation; `HitsAreRecent` bounds how long it can be served. `DeclinesAreRare` and
`TokensStayNear` except handlers that overlapped another of the same chat.
`ConversationsAreFew` bounds what the missing constraint on conversations can cost.

## 4. Bounds and fairness

`MaxCalls`, `MaxClock` and `MaxPresses` bound the requests, the clock and the
presses; they stand in guards only and no property mentions them. No action
writes the row of another action (every `UPDATE` names one action_uid), so one
action shows every conflict; two threads show every pairwise race; four
requests are a request and three decisions (or sweeps) on it, enough for a red
action to be asked for, confirmed, approved and decided again. Two units of the
clock tell before, at and after a deadline apart. `gateway_concurrent` is
symmetric in its threads, `ledger_reminders` in its threads and its reminders
(both are only ever compared for equality, and neither run checks liveness).

In `ledger_reminders` five requests are the creation of an income, two requests
for a reminder and two decisions, enough for two runs of the executor side by
side over one note; two threads show every pairwise race; a clock of one tells
before and after the due date apart. Rows of other incomes are written by none
of the handlers of this one, so one income is enough. The runs end when the
requests are used up, so deadlock is not checked.

In `content_publishing` five requests are a publication asked for, its two approvals, and two
more for a second request about the same draft, an edit or an audit. The draft may have a
post from before; two posts may come to be on its first site, and the second site has one, made by
hand, with the number of the first site's first, so that a draft that is moved meets a foreign
post under its post's number, or finds that number missing. In `connections` three requests show a save or a deletion racing
each of a test, another save and a fetch; a cache of one entry evicts on every
insertion that has another key; the clock of three is one life of an entry and one fetch
and a unit more. Two rows suffice, for no step looks at more than two rows of one slot.
In `sales_desk` two contacts and two row ids let an id come back while an older entry or request
holds it; a life of two ticks tells a fresh body, an older one and none apart. In
`conversation` one message that may be delivered three times shows what handlers of
the owner do to each other: they differ only in the delivery they are about. One try and
one endpoint are enough for the order of rounds, and the theorem has the bound for
any number of both. `sales_desk`, `connections` and `content_publishing` are symmetric in threads
and in the values that are only compared (requests, contacts), and check no
liveness; `conversation` uses no symmetry. No run checks deadlock: requests are bounded and the
runs may end when they are used up (the clock of `sales_desk` and the strangers of `conversation`
go on for ever, which leaves nothing to check either).

Fairness of the gateway is `WF_vars(Proceed(t))` for each thread: a thread that has a next
statement is scheduled by the operating system and the statement or the call
returns (the client libraries have timeouts). Nothing is assumed of callers:
requests, presses, deliveries and the clock may stop for ever.

`conversation` assumes the same of its threads (`WF_vars(Work(t))`) and, for each
message, `SF_vars(\E t \in Threads : Receive(t, m))`: Telegram delivers an update until it
is answered, and a request that waits for a thread gets one in the end, also if threads
are busy with strangers again and again: gunicorn queues connections in their order.

## 5. The proofs

For any sets of actions, users, incomes and reminders, any finite set of threads and
any bounds, from `GatewayAssumption` (`NoUser` is no user and `NoAction` no action, the
set of threads is finite, times to live are numbers) and `CardsAssumption`, and for the
ledger from `LedgerAssumption` (`NoIncome` is no income and `NoReminder` no reminder,
the set of threads is finite). The later modules assume as little:
`ContentAssumption`, `ConnectionsAssumption`, `SalesAssumption`, `ConversationAssumption` name the
values that stand for nothing, make the sets that are counted finite and the bounds numbers.

| theorem | statement |
|---|---|
| `TypeCorrect` | `Spec => [](TypeOK /\ ActOK)` |
| `RequesterDecides`, `ExpiryIsTimely`, `LatePressDecidesNothing` | the three authority and deadline invariants |
| `EveryRunIsPaidFor` | `Spec => []RunsArePaidFor` |
| `GatewayImplementsGate` | `Spec => KeepsTheGate`, the refinement |
| `ApprovedStaysInHand` | `MayDie = FALSE` gives `Spec => []ApprovedIsInHand`, under any overlap |
| `SequentialLifecycle`, `SequentialRunsOnce` | `Spec /\ []NoOverlap => Lifecycle`, and `=> []RepeatedDecisionRunsOnce`, also with handlers cut short |
| `SequentialOutcome`, `SequentialAudit` | with `MayDie = FALSE` besides: `[]OutcomeMatchesStatus`, `[]AuditIsComplete` |
| `CardsTypeCorrect`, `CardsImplementGateway` | types, and `CardsSpec => Spec`: whatever Telegram does, the gateway takes steps of its own |
| `PressesKeepTheGate` | the gate and `RunsArePaidFor` carry over to the cards |
| `FinalButtonIsForReds` | `CardsSpec => []FinalButtonIsEarned` |
| `FreshButtonsNeedTheFinal` | with decisions on cards only, `CardsSpec /\ []FirstButtonIsFresh => []RedNeedsFinalButton` |
| `SequentialCards`, `SequentialPresses` | `CardsSpec /\ []NoOverlap /\ []OwnPresses => []PlainCardIsDecided`, `CardsSpec /\ []NoOverlap => []RepeatedDecisionRunsOnce` |
| `LedgerTypeCorrect` | `Spec => []LedgerTypeOK` |
| `PaymentStands` | `Spec => []RecordedPaymentStands` |
| `NotesBacked` | `Spec => []NotesAreBacked` |
| `UndisturbedSweepsMarkPending` | `Spec /\ HandsOff => OnlyPendingIsMarked` |
| `DatesCountOn`, `DueOnTheLastDay` | in every year of the table, the date after a date is one day later; an income without a date is due on the eve of the next month |
| `RemindersImplementGate` | `Spec => RemindersKeepTheGate`, the refinement |
| `ContentTypeCorrect`, `ScoreIsAuditedCorrect` | types, and `Spec => []ScoreIsAudited` |
| `PublishedIsPublicCorrect`, `ExecutedPublishCorrect` | `Spec => []PublishedIsPublic`, `Spec => []ExecutedPublishIsPublic` |
| `PublishedIsOwnCorrect`, `OnlyPostIsLinkedCorrect` | `Spec => []PublishedIsOwn`, `Spec => []OnlyPostIsLinked` |
| `ContentImplementsGate` | `Spec => ContentKeepsTheGate`, the refinement |
| `ConnectionsTypeCorrect`, `CachesAreBoundedCorrect` | types, and `Spec => []CachesAreBounded` |
| `StatusIsOfStoredCorrect`, `OldAccountFadesCorrect` | `Spec => []StatusIsOfStored`, `Spec => []OldAccountFades` |
| `SalesTypeCorrect`, `EntriesAreTheirsCorrect`, `HitsAreRecentCorrect` | types, `Spec => []EntriesAreTheirs`, `Spec => []HitsAreRecent` |
| `SalesImplementsGate` | `Spec => SalesKeepTheGate`, the refinement |
| `TalkTypeCorrect`, `ConversationsAreFewCorrect`, `WorkIsBoundedCorrect` | types and the two bounds |
| `DeclinesAreRareCorrect`, `TokensStayNearCorrect` | `Spec => DeclinesAreRare`, `Spec => TokensStayNear`, action properties |

The argument. None of the properties is inductive by itself.

* `BaseInv == TypeOK /\ ActOK /\ RowInv /\ ThreadInv`. `ActOK`: a busy thread works on
  an action. `RowInv`: a row that does not exist has no history, and a positive
  stored count is backed by an approval that was really given. `ThreadInv`: the
  same for a count a thread has read and not used yet; a thread past the checks
  has a row; a request did not come from the future; the rows a sweep selected
  are past their deadline. A lost update can only make `count` lag behind
  `granted`, so a comparison with the threshold on an old read is safe.
* Authority. The requester and the deadline of a row never change once it
  exists (`RowsStay`), so what `CheckPass` saw still holds when the `UPDATE` comes
  (`PassedStays`): the check is on a stale row, of columns that cannot be stale.
* `PaidInv`. A thread between its final approval and the end of its executor
  holds a *claim* (`Claims(a)`, a finite set of threads). The runs so far and the
  claims are together at most what the approvals are worth, less the first step
  a red action needs. `GrantFinal` opens a claim and adds an approval;
  `ExecuteReturns` and `ExecuteRaises` turn the claim into a run; `Die` drops it. Two
  threads that approve from the same count open two claims and have given two
  approvals. `RunsArePaidFor` follows, and each run maps to an enabled `Run` of
  the gate.
* In hand. `ApprovedIsInHand` needs `MayDie = FALSE` and nothing else, and then is nearly inductive
  on the base invariant: a status of approved is stored by the thread that runs the
  executor next, another thread that stores another status makes the claim void, and an executor's
  end stores an outcome. Where decisions overwrite each other the row may tell the wrong
  outcome, but it is not left approved.
* One handler at a time. `NoOverlap` says that no two threads have one action in hand
  (`Busy`: it is their argument, or a row their sweep has yet to expire). It is a hypothesis, for
  the code takes no lock; one thread has it by its definition, and so would a lock per action. `SeqInv` is what
  it buys: the row is what the handler read or wrote last (`Holds`), and the
  history of a row is what its status says (`RowHolds`). A thread writes only what it has in hand
  (`RowFrame`), so what the others rely on stays (`OthersHold`), and the thread that moves goes along
  `Moves`, from which `Lifecycle` follows; a handler that breaks off harms neither. For the outcome at rest it must not:
  `SequentialOutcome` adds `ApprovedIsInHand`, `SequentialAudit` adds `ToldInv`: an
  event is in the log or is the next statement of a thread, which `Die` would break.
* The cards. Every step of `CardsNext` is a step of `Next` or leaves the gateway
  alone (`CardsStepIsGatewayStep`), so invariants carry over. `FinalInv` adds
  that a handler about to offer the final button saw the row `confirming`, which
  only `GrantStep` stores, and only for a red action.

  `ButtonsHold` is about what a first button is worth: a red action that got on without its
  final button would have been approved by a first one on a row that was no longer pending.
  `FirstButtonIsFresh` is that one comparison, which neither `handle_callback` (it knows the button)
  nor `approve` (it knows the row) makes. Beside it the theorem assumes that decisions come from cards, for the Mini App has one button
  only; neither order nor single delivery is assumed. `PressInv` joins `SeqInv` with what a handler of a press is about to do to its card: a
  keyboard is taken off only where the row was read back as decided or the press was refused for being
  so. `OwnPresses` (presses are the requester's) excludes the other refusal, that of a
  stranger in a group chat.

* The ledger. `TypeInv` joins the types with what a thread at a reminder works on
  (`RemOK`: a reminder that was requested). `SettledInv` says that a settled income
  is paid and that no sweep holds it in its `todo`: a sweep selects pending rows
  only, so it cannot pick up a paid one, and `MarkPaid` settles an income only if
  no sweep holds it. `ClaimInv` counts for each reminder the runs felt and the
  threads that may still add one (`Claims(r)`: sending, and not felt yet); together
  they are at most the approvals given. `Grant` adds a claim and an approval; a first
  message turns the claim into a run, a repeated one changes nothing. `HeldInv` says that what a
  sweep selected is pending, or overdue by another sweep that was faster: with `HandsOff`, that no arriving
  request changes a selected row, it is inductive, whatever else overlaps or breaks off.

  `NotesInv` is about overlapping runs that read and write the notes: every thread on its way to a
  note (`Noting(i)`) was let on by a message of its own, so the notes and those threads together
  are at most the messages, and what a thread read leaves room for all notes still owed.

* Content. `LawInv` says which kinds of request each step of an executor belongs to, and
  that a thread past a call of `content.publish` has its answer: so only a post that is
  public is stored as published (`PublicInv`). This is where it matters that `Rescue` leads only
  `content.publish_draft` on. `PaidInv` is the argument of the gateway again, with
  the runs that took effect and the threads that may still add one (`Spent`); for a publication
  one approval more, as soon as a count was stored or read (`Seen`). `LinkInv` is about links:
  every post that the row of a draft in its first project, a thread or an answer names was made for that draft
  (`MadeFor`), rows that are gone do not come back, and a draft whose publication was stored
  names some post (`Kept`), which then is the only one. Links of
  drafts that were not moved are on the site of their project besides (`Mine`), so a call by number
  hits the very post that was read (`CallMakes`), and `PublishedIsOwn` is a part of the invariant.
* Connections. `StatusInv`: a thread that saw nobody else write still works on the row it
  found, and what it tries is what that row holds. `FadesInv`: a cached overview is of the
  stored account or runs out one life and one fetch after its account was lost; a fetch
  ends within `MaxFetch` of its beginning, and its account was the stored one then. The
  types already hold the bound of the caches, since `Put` keeps it. That every set of row ids
  has a least one comes from the well-founded order of the naturals.
* The calendar. `_j2d` counts the days of a date from the first day of its year (`DateInYear`). That these
  days lie one year apart is `YearsAreFull`, which TLC evaluates for all 3237 years of the table,
  for it rests on the recursion over the breaks; from it the months abut (`MonthsAbut`), and counting
  on, which TLC walks through for fifteen years, holds for all. The inverse, `_d2j`, stays with TLC.
* The sales desk. `RowsInv`: who is about to write an entry holds the row id of its
  contact, or the contact is gone, and ids of present contacts differ. `PaidInv` is
  the argument of the gateway once more: a final approval opens a claim, the executor's statement or
  message turns it into a run, and each repetition of a
  failed request has an approval of its own. The age of a body and what is left of
  its life add up to no more than the life of an entry (`BodyOK`).
* The conversation. `FewInv`: once there is a conversation, the conversations and the
  threads about to insert one are together no more than the threads. `MixedInv`: of two handlers of
  one chat both are marked. `DeclineInv` and `LogInv` use it: an unmarked handler is the only
  one of its chat, so the cooldown it saw still stands and its own message is the last
  row. `ChatOK` gives the posts so far for each step and round; `MadeInv` says that a
  delivery is worked on by one thread at most.

Only model-checked: liveness (`ApprovedIsCarriedOut`, `EveryUpdateEnds`), which
is out of the prover's reach, and the refutations. What the recursion of the calendar computes, and that its conversions undo
each other, is evaluated over bounded inputs. Every invariant and action property that a passing run checks is
stated by a theorem; of those, the ones of `gateway_sequential` and `PlainCardIsDecided` and
`RepeatedDecisionRunsOnce` of `cards_delivery` have hypotheses beyond the specification, which the runs meet:
one thread, and for the outcome and the audit no handler cut short, for the card the owner
as its only presser.

## 6. What the runs found

1. **A decision can run twice** (`gateway_duplicate`). `approve` decides on the
   row it read and updates by action_uid alone; two approvals under way at once
   both run the executor. `docs/APPROVALS.md:95` promises the contrary.
2. **An approved action can be lost** (`gateway_restart`). A restart between the
   `UPDATE` to approved and the stored outcome leaves a row that no press, sweep
   or start of the program will ever move.
3. **A red action without its final button** (`cards_stale_button`).
   `handle_callback` treats both buttons alike, so two deliveries of the first
   button are the two approvals. The head of `gateway.py` asks for a different
   button.

4. **A paid income becomes overdue** (`ledger_paid_overdue`).
   `mark_overdue_if_needed` selects and then stores by income_uid alone; a payment in
   between is overwritten in its status, and the next batch asks its client to
   pay again. The docstring speaks of pending incomes.

Met on the way, and built into the models as the code has them:

* `actions.py:604`. The comment says "the send already happened; never fail on logging", but
  `log` is not defined in that module: a follow-up whose entry fails is stored as
  failed, and another approval sends it again (each sending has its approval: `SalesKeepTheGate`).
* `_load_open` lets a failed action be decided again (`gateway.py:260-265`), so `failed` has edges to
  confirming, approved, rejected and expired that the diagram of `docs/APPROVALS.md:68-78` does not draw.
* A draft's project can be changed while the number of its post stays (`api.py:993`): the next
  `content.publish` makes public whatever post has that number on the other site (`actions.py:475-478`).
* `google.py:75`. `cache_clear` is said to be used after re-saving Google credentials; only tests
  call it. `OldAccountFades` says what that costs.
* `content.rewrite` requests always fail: they are asked for as `content.generate` without a topic
  (`api.py:1153-1187`). `update_deal_stage` without a probability fails on `int(None)`
  (`actions.py:326-336`), and so does the reminder command of the chat (above).
* `api.py:1078` answers an audit with the newest audit of any draft.
* `openai_compatible.py:85-93` takes an answer with status 200 that mentions Cloudflare for a
  block page, tries again and ends with an error.
* `sales_agent.py:39` reads a probability of 0 as 50 (`probability or 50`).
* The due date of an income without one is the last second of its month in the time zone
  of the host (`financial/repository.py:71-72`).
* `agent.py:280` gives the internal user id to `get_user`, which looks for a Telegram id: it
  finds nobody, and the queue is listed for all requesters.

## 7. What is not modelled

* Payloads, previews and message texts, prose, scores, layout and HTML: a text is a
  version number or nothing. The uniqueness of action_uids and the length check of callback data.
* The chat id of a contact: `crm.create_contact` does not set it, so which contacts can be
  reached is a constant (`Reachable`).
* The executors `wordpress.create_draft`, `update_post`, `publish` and `delete_post`
  (`wordpress.py:126-176`, listed in `docs/INTEGRATIONS.md:81-91`) and what they would do to posts: they are registered
  and have risk levels, but nothing requests them; `publish_draft_to_wordpress` (`content_agent.py:529`), which would,
  is called by nobody. Posts change by `content.publish_draft` and `content.publish` only.
* The history of Search Console (`gsc_storage.py`): a row per day, stored in one statement,
  and sums over the rows. A failed query for pages or queries is passed over and the day's lists
  are stored empty, over those of an earlier fetch; no document promises otherwise.
* Notifications and the morning report: texts made from `SELECT`s, and no record of what was
  sent. A cron job called twice sends its report twice.
* The signature of the Mini App (stateless; a caller is a user or none), reports and
  analyses (read only), the dashboard page, the one-shot scripts.
* The SQL text processing and the retries of the Turso client, and encryption.
* Projects, tasks, memory, decisions, people, KPIs and budgets: one statement per operation,
  executors that return or raise.

## 8. The plan

The components with a state and an order of events are modelled. What is left, most
useful first:

1. The decisions of `ContentPublishing` and `SalesDesk` repeat the gateway's statements. They could
   be composed with `ApprovalGateway` itself, as the cards are, to carry ownership and deadlines over.
2. The inverse conversion of the calendar as a theorem.
3. `gsc_storage.py` with overlapping fetches of one day, and the notification rules as operators.
