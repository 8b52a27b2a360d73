# A TLA+ development of tmux-tell's delivery path

tmux-tell lets coding agents that run in tmux panes send each other messages.
A sender inserts a row into a shared SQLite database; a *mailman* process per
agent claims rows and pastes them into the agent's pane, or the agent's own
session pulls them through a hook.  Nothing else coordinates the processes: the
database and the tmux server are all they share.

The modules here describe that path as state machines.  TLC checks them on small
instances, and TLAPS proves every one of their safety properties for every instance.
`PROJECT.json` maps every definition to the lines it models.

## The system

| part | state | operations | talks to |
|---|---|---|---|
| message store (`internal/store`) | `messages`: state, verdict, envelope, ids | insert with caps, notice, pair, claim, mark, recover, promote, acknowledge, reap, delete | every process |
| agents table (`internal/store/agents.go`) | pane, paused, stuck, backlog floor, delivery mode, session id, compaction stamps | upsert, delete, pause, park and unpark, set floor, set mode, stamp | every process |
| channel scheduler (`internal/store/priority.go`) | none | choose among the heads of the senders' channels | inside the claim |
| mailman (`internal/cli/serve.go`) | the claimed row, the pane at hand, failure streaks | start and recovery, loop, resolve the pane, drift check, liveness, dedupe, gate, probe, paste, mark, notify, park | store, tmux, process table |
| register (`internal/cli/register.go`, `backlog.go`) | what it read so far | flip gate, upsert, mode, unpark, session, floor, nudge, promote | store, tmux |
| hook (`internal/cli/hook.go`) | its claimed rows | recover, claim all, mark all, print | store, the agent's session |
| senders (`send.go`, `reply.go`, `ping.go`, `resend.go`, `control.go`, `deferred.go`, `mcp.go`) | where the command stands, what it was charged | resolve the operator, freshness, quote, charge, check, stagger, insert, refund, flush | store, doorbell, tmux |
| send budget (`internal/budget`, `store/budget.go`) | `budgets`: balance and stamp per sender | quote, charge, refund, lazy refill | senders |
| doorbell and waiters (`internal/notify`, `store/reply.go`, `sendstatus.go`, `track.go`) | a subscription and a channel of one | subscribe, ring, read, poll, expire | senders, mailmen |
| housekeeping (`unregister.go`, `reset.go`, `reap.go`, the sweep in `serve.go`) | none | stop the mailman, purge, remove, fail what nobody claims | store, systemd |
| small commands (`inbox.go`, `pause.go`, `deferred.go`, `note_compact.go`) | none | acknowledge one or all, pause, flush staged rows, record a compaction | store |
| screen classifier (`classifier.go`, `state.go`, `profile.go`) | none | tell a pane's state from two captures and the cursor | gate, probe |
| observe gate (`observe_gate.go`) | content hash and its age, failures in a row | wait for a quiet pane, defer, hand an abandoned draft to the flush | tmux |
| paste and verification (`deliver.go`) | attempts, what earlier polls saw | check, drain, paste, Enter, verify, resubmit | tmux |
| schema and migrations (`store/store.go`) | tables, index, columns | heal, index, add columns, collapse, rename, re-route, at every open | every process |
| observer (`observe_mailmen.go`) | an episode per agent, in memory | sweep the units, count samples, notify, latch | store, systemd |
| respawn (`respawn.go`, its triggers in `serve.go`, `note_compact.go`) | shrink counter, signal and watermark in the row | count, idle gate, exit, await, relaunch, confirm, unregister, reset | store, tmux |
| rate-limit resume | timers | nudge | tmux |
| remote relay, reports, configuration, terminal UI | none of their own | front ends and views | the operations above |

What is hard about it:

* **No lock spans two statements.**  Every store method is one statement or one
  transaction; a command is a sequence of them, and any other process may act in
  between.
* **At-least-once.**  The paste and the mark cannot be atomic.  A crash, or a
  write that fails (the loop logs and goes on), repeats a paste or strands a row
  in `delivering`; a pane that goes away after the paste has the heal repeat it.
* **The batch recovery.**  Every revert is `RecoverDelivering`, which puts back
  *all* of the agent's rows in flight, not the one in hand; a comment at
  `serve.go:2403` rests on single flight.
* **Stale knowledge.**  The pane on record, the session id, a shell's title, the
  backlog floor, the row's state: each is read at one time and used at another.
* **Two readers.**  A delivery-mode flip does not stop the running mailman, and
  two hooks may fire at once.
* **A screen is the only witness.**  Whether a paste landed, whether the operator
  is typing and whether a popup is up is read off captures of a program that
  draws late, while a human uses the same keyboard.
* **Charge first, insert later.**  The price of a send is taken in one
  transaction and the rows are inserted in others, one per recipient, seconds
  apart.
* **Upgrades are concurrent.**  Whoever opens the database runs the whole
  migration list, statement by statement, beside others that do the same and
  others that are through with it.
* **Looks at a distance.**  The respawn sends `/exit` and looks for a shell, types a
  command and looks for a session; the program and the operator act in between.
* **Deletes meet replies.**  `reply_to` is a foreign key, and rows are deleted per
  recipient while threads span recipients.

What makes each part correct:

* store: rows follow a life cycle, verdicts belong to delivered rows, a pane
  belongs to one agent, channels are claimed in order;
* scheduler: the loop computes the definition;
* mailman: delivered means shown, duplicates are paid for by failures, one row in
  flight, notices do not breed, every claimable row gets dealt with, a paste
  meets neither a shell nor another agent, staged rows wait for their trigger or
  the agent's own flush;
* register: what the floor holds back is announced, the floor does not reorder
  what it does not hold back;
* hook: nothing is printed twice, nothing is lost when nothing fails;
* gate, flush and paste: no Enter of the mailman submits the operator's draft or
  answers a popup, what is cleared was archived, pastes do not stack, and what is
  called verified was submitted;
* budget: balances stay between the overdraft and the capacity, time is refilled
  once, a refusal's advice holds but for its rounding, and how a send is cut into
  calls does not change its price;
* doorbell: a waiter whose answer is there returns, whatever happens to the ring;
* housekeeping: a reply is never left without its parent;
* migrations: no statement collides with the rows it finds, an agent keeps one
  row, pending mail stays reachable, and a store in use is left alone;
* respawn: a shrink is counted once and in the end, `/exit` meets a turn and the
  launch command a program only if one came in between, and a shell it leaves is
  not registered.

## Modules

```
Scheduler ── SchedulerLoop ── SchedulerProofs          (loop = relation)
    │
MessageStore ── MCStore, StoreProofs                   (any client, any order)
    │      │
    │      └── Sending ── Waiting ── Housekeeping ── Outbox ── MCOutbox
    │             │                                    └── OutboxProofs ── LedgerProofs
    │          Budget                                (senders, waiters, purges)
    │
Mailman ── Register ── Hook ── Bus ── MCBus            (one agent's delivery path)
                                │ └── BusProofs
                            Delivery                   (what is promised of a row)
                                │
Screen ── Terminal ── Gate ── Paste ── Pane ── MCPane, PaneProofs
                                                       (one pane, keystroke by keystroke)

Migration ── MCMigration, MigrationProofs              (opening the store)
Respawn ── MCRespawn, RespawnProofs                    (restarting a session)
```

**Scheduler** states what `selectScheduled` returns as a relation
(`IsScheduled`): the head of the heaviest channel, ties to the lowest id.
**SchedulerLoop** is the code's one-pass loop over candidates sorted by sender
and id, as a recursive function of the candidates it has passed, over every queue
that fits its bounds.

**MessageStore** is the two tables.  `env`, `st` and `verified` are columns of
`messages`, indexed by the AUTOINCREMENT id; an id whose row was deleted is
`purged` and never reused.  `agent` holds the columns of `agents` that delivery
reads.  One action per exported operation; `created_at` grows with the id, so
a cutoff is an id.  The idempotent second `MarkAcknowledged`, and any update
that matches no row, changes nothing and is a stuttering step.
`StoreSpec` lets any client call anything at any time.

**Mailman** is `runServeWithStore` cut where another process can get in: `pc`
names the stage, a stage ends at a write to the store or an act on a pane.
`Try` is the code's treatment of a failed write: log and go on.  The world it
looks at is `host` (what runs in each pane: an agent, another program, a shell, or
the pane is gone), `session` (whose session the recorded id is: nobody's, an
agent's, or `old`, one that runs no more) and `limited` (the provider shows a
limit).  An agent in `Named` has its name in its command line, and that is what a
walk finds; any other pane is known by its title and window name, which may say
anything.  The liveness gate lets everything pass but a shell.  The paste, and the
Enter with its verification, are two steps: `AutoHeal` may find the pane gone at
either and delivers once more, from the start, in the pane that shows the name.  What a
look at a screen yields (gate, probe, verification) is a nondeterministic choice
among the outcomes the code distinguishes.  `shown` counts pastes per row; it is
history, the code has no such counter.

**Register** is `register --force` of the same agent, one action per statement;
the MCP tool starts without the stale-queue check (`McpRegister`).
It may be run in any pane, with whatever runs there, and the session it records
may be that of the agent in that pane, whoever it is; an explicit `--session-id` or
`set_session_id` is one more way to record what is discovered.  `--keep-pane` is
not modelled.

**Hook** is one process per hook fire: recover, claim until nothing is left,
mark one by one, print all.  An error anywhere prints nothing.

**Bus** puts them on one database with senders, `inbox --ack`, `--ack-all`
(which reads the floor and writes later), pauses, flushes, compactions, panes that
change hands and limits that come and go.  Its history variables are `settled`
(neither panes nor the session on record changed since the delivery in hand chose
its pane), `lost` (how often a pane went away), `held` (rows a floor ever held
back) and `clashed` (two readers of the queue at work at once).

**Delivery** is the abstract specification: a row is accepted or refused; while
it is pending it may be shown; it is done only after it was shown (or if it is of
a kind that is not shown); it may be dropped while pending; what is done or
dropped stays so and is never shown again.  Bus implements it with its `st` and
`shown`, Pane with the rows of one pane; both refinements are checked and proved.  Mailman
uses gate, probe and paste by outcome, Pane has them step by step, so the two
meet at this specification.

**Screen** is what a capture tells: `Classify` is the order of tests in
`AgentState`, over screens made of pieces (messages and kinds of operator text)
and chrome.  The cursor query may answer whatever the layout allows.  **Terminal**
is external: the program under the pane and the operator at it, as the code
expects them.  **Gate** is a row's way to the paste: claim, polls of the observe
gate, the flush (re-read, archive, clear) and the safety probe.  **Paste** is
`Deliver`: pre-paste check and drain, paste, Enter, verification polls with
resubmits, the outcome switch.  **Pane** composes them.  `by`, `gone`, `recent` and
`late` are history: who submitted a message, what was wiped, what happened since
the mailman last looked.

**Budget** is `internal/budget` and `store/budget.go` in hundredths of a unit; the
exponent 1.5 is a table.  `TimeToAfford` is the exact fraction, `WhenAffordable` the
wait a sender is told: rounded to the nearest second below a minute and to the
nearest minute above; the model's minute has `Minute` ticks.  **Sending** is a process per command, one step per
statement, for send, fan-out, ask, ping, control, resend and flush.  **Waiting** is
the doorbell and the four kinds of waiters.  **Housekeeping** is unregister, reset,
reap and the retention sweep, with the foreign key.  **Outbox** composes them with
mailmen reduced to claim and mark, names the entry points of both surfaces, and
keeps the history its properties need: `meter` (the bucket refilled tick by
tick), `advice`, `overlapped` (senders whose calls ran at once), `lost` (a ring was
lost).

**Migration** is `store.Open`: each process walks the list with one transaction
per statement and may leave anywhere; Init is every table an older release can
have left within the bounds (one row per spelling, panes shared or not, equal
stamps, a message in any state).  A process that is through registers, deletes,
sends, claims and recovers.  Names are a key and a casing.  Running processes of
the older release are not modelled.  `first`, `migrated` and `broken` are history.

**Respawn** is both triggers in the loop and `respawnChamber` with
`relaunchAfterExit`, one step per call, on settings read at the top of the
iteration.  What the program, its hook and the operator do is external.  `charge`
says whether the mailman answers for the pane; `tally` counts the turns that began
between the idle gate and the `/exit`, the launches by hand between that and the
launch command, and the keystrokes that met the wrong thing; both are history.  The
rest of the loop is one step, `Mail`.

**MCStore**, **MCBus**, **MCPane**, **MCOutbox**, **MCMigration** and **MCRespawn** hold the values TLC uses.
Operators named `Mut...` are deliberately broken variants of the definition that
follows them, used to see that each property notices the bug it is there for; no
specification uses them.

## What TLC checks

| run | bounds | shows |
|---|---|---|
| `scheduler` | queues of up to 4 rows, 3 senders, 3 priorities, both strategies | loop and relation agree |
| `store` | 2 agents, 1 pane, 3 rows out of 2 envelopes, all operations; states with a pause, stuck or mode switch set are reached but not explored further, as no operation on messages reads them | life cycle, verdicts, pane ownership, channel order of claims |
| `delivery` | 3 rows: reset, unsupported command, ping, row staged for the resume; flushes, 1 fault, 1 crash | Bus implements Delivery; notices and queue bounded; one row in flight; staged rows come out by the reset or the flush |
| `register` | 4 rows, plain ones and ones staged for a register or for the resume; a register that keeps the newest row, `--ack-all` | what is fenced off was announced; channels shown in order; the register lets out its own rows only |
| `routing` | 2 panes, one agent known by its command line and one by its title, other programs, 3 changes of hands, 1 crash, 1 register, with and without a session id | a paste meets neither a shell nor an agent that names itself and is not on record; what is shown again is paid for by a crash or a lost pane |
| `live` | 2 rows, 1 crash, pauses, compaction, acknowledgements, 1 change of pane or limit, fairness | every claimable row is dealt with; a compaction releases what waits |
| `hook` | 2 hooks, a flip, the old mailman still running, 2 rows | no hook repeats; a hook that is alone loses nothing |
| `pane` | a long and a short message, 2 unprompted moves of operator or program, 1 failed call, both adapters | Pane implements Delivery; drafts, popups and scrolled panes are spared; clears were archived; no stacking; verdicts are true |
| `send` | 3 agents, 23 plans of 2 or 3 commands, 4 new rows, 2 ticks, 1 change of the world, fairness of waiters | budget in bounds, refilled once, neutral to splitting; refusal advice holds but for half a unit; no missed ring; waiters return; replies keep their parents |
| `migration` | 2 processes, 2 names in 2 spellings, up to 3 old rows and 1 new, 2 panes, 2 instants, 2 messages | no heal collides; every agent keeps exactly one row; nothing pending stranded; inert once in use |
| `respawn` | 1 agent, thresholds 0 and 2, 2 shrinks, 2 unprompted acts (a stop among them), 1 turn after the gate, 1 failed call, every kind of launch command | counted once and in the end; stray keystrokes are paid for; stranded shells unregistered |
| `hook_loss` | 1 hook, 2 rows, 1 fault | see *Where code and words differ* |

The type invariants say what the variables range over; those of MessageStore, Bus,
Pane, Migration and Respawn are proved, and of Outbox's the part the proofs need.  The
runs spend their properties on the rest.

Why the bounds suffice.  One agent's path is independent of another agent's but
for notices, so one mailman and one other sender do.  Order, cap and floor need
a row in flight, one waiting and one arriving: three ids.  Two claims by two
readers need two rows.  Faults and crashes act one at a time; one of each covers
"something failed, then the process died" in either order.  Thresholds of 2
make the difference between counting and parking visible.  A fence needs two rows,
and the announcement takes an id: the fourth id of `register` is for a send before,
between or after them.  A step that needs a free id is not taken when there is none,
so a register whose announcement finds none stays before it; `FencedWasAnnounced`
speaks of registers that are through.  A second paste within a claim needs the pane
to go and the agent to show up in another one: two of the
three changes of `routing`; the third lets a pane change before or after a crash as
well.  The run of one register leaves floors that a second one lowers to the proof,
which is for any number.  In `pane` two messages are what stacking and a stuck
predecessor need, and two moves let the operator and the program each act inside
one window.  In `send` the plans are pairs that meet on a row, a budget, a queue
or a thread; a plan is a choice in Init, so they do not multiply.  A minute of two
ticks is the smallest with a half: waits are rounded up and down in the run.  The capacity
of 300 pays one fan-out of two and not two, so charges, refusals and refunds all
occur; the window (2) ends when the clock does, so that what was paid for also
expires.

In `migration` three old rows are two spellings of one name and a second name
that shares a pane with either; two instants give both order and tie.  In
`respawn` two shrinks are the threshold and let one be counted after the other; two
acts let the operator end or start the session and a stop follow.

Deadlock is not checked in the bus, pane, send and respawn runs: a bus whose senders have
used up the bounded ids, a pane whose messages are delivered, commands that
have ended and the mailman of an agent that is not registered stand still.

### Fairness

`FairBusSpec` assumes

* weak fairness of the mailman's start and loop: the unit has
  `Restart=on-failure` for crashes; a mailman that was stopped on purpose is
  assumed to be started again and to be stopped finitely often;
* weak fairness of a running register: it is a straight line of statements;
* strong fairness of four outcomes the world decides, each tried again and again
  by the loop: the provider falls below its cap, the gate finds the pane quiet,
  the probe finds it safe, the paste lands.  Without them a pane that is never
  quiet starves every row, which is what the code intends.

`FairOutboxSpec` assumes weak fairness of the steps of a waiting call, and of
nothing else: its poll timer fires whatever the doorbell does.  A send, a mailman
or a purge may stop anywhere.

Respawn's `Spec` has weak fairness of the mailman's start and steps: every wait in
the path has a deadline.  Nothing is assumed of programs and operators.

The liveness properties of Bus excuse an agent that is paused, parked or limited, and a
failed write: a revert that fails leaves the row in `delivering` until the
next recovery.

## Where code and words differ

* `hook_loss`: `hook.go:115-117` calls a failed mark "a bounded duplicate, not a
  loss".  The rows marked before it are delivered and never printed.

Met while modelling, and without a run of their own:

* the manual tells a sender refused for its budget to "wait until the named time"
  (`docs/agent-manual.md:263`), which is rounded to the nearest minute
  (`store/budget.go:225`): 2m20s become "in 2m", and a sender that waits no longer is
  refused again.  `RefusalAdviceHolds` grants half a unit for it;
* what the flush archives of a long message that stands unsubmitted in the input is
  the placeholder the program draws for it (`serve.go:2340`, against
  `docs/observe-gate.md:190-193`);
* in a thread that went back and forth each recipient's retention DELETE fails, as a
  whole, on the other's `reply_to` (`serve.go:3345`, against
  `docs/reference.md:1420`): `Purge` in Housekeeping shows the constraint;
* the migration of recipients passes over rows in `delivering`, for which no
  mailman asks afterwards (`store.go:454`, against `store.go:449-451`): hence
  `NothingPendingStranded` speaks of pending rows only;
* a program that obeys `/exit` after the window leaves a registered shell
  (`respawn.go:172`, against `respawn.go:22-23`), and a chamber launched without the
  wrapper is unregistered as a shell (`respawn.go:248`, against
  `docs/reference.md:1127-1128`): hence `charge` in `StrandedIsUnregistered`;
* the default drift check fails a row for a missing pane before the probe that
  would keep it (`serve.go:1919`); a forced row waits behind an unforced one of its
  sender (`serve.go:2154`); `--ack-all` takes rows promoted past the floor
  (`messages.go:1112`); a stop while a session reset settles leaves the rows staged
  for it (`serve.go:2544`); a park written after a register's unpark stays
  (`register.go:278`); a fan-out through the MCP server drops `deliver_after` and
  reports the rows as staged (`mcp.go:925`); after a respawn that unregistered the
  agent the iteration goes on with the row it had read (`serve.go:1574`).

## What is proved

Each proof module fixes no bound: agents, panes, rows, hooks, calls, messages,
capacities, thresholds, faults, crashes and moves are arbitrary.  Its theorems
follow from one inductive invariant; TLC checked the invariants on the runs'
instances before they were proved.

**StoreProofs**, `StoreInv`: types, `OnePaneOneIdentity`, `VerdictIffDelivered`.  The
types carry two facts that are none: an id is `absent` exactly from `nextId` on
(otherwise an insert could overwrite a row, and a fresh row could carry a
verdict), and a deferred row has a trigger.  From it `StoreTypeCorrect`,
`PaneOwnership`, `VerdictSoundness` and, action by action, `LifeCycleHolds`.
`ScheduledIsChannelHead` is about any finite set of candidates and gives
`ChannelOrder`.  StoreProofs also holds the induction the other modules use: the library's
induction theorems take an operator, which no installed prover can instantiate, but a
property of the subsets of a finite set is itself a set, so `SubsetInduction` and
`SubsetRecursion` are stated over sets and proved from well-foundedness.

**SchedulerProofs**: the loop is defined by recursion on the set of candidates passed;
`LoopComputesRelation` follows by induction on that set, from an invariant of the pass
(`best` is the heaviest closed channel, the open channel has its head, its length and
its weight so far).  `LoopAgrees` is the run's property, and
`ClaimTakesWhatTheLoopFinds` ties the loop to `ClaimNext`, which uses the relation.

**BusProofs** begins with `BusInv`: the types of the whole bus with the store's invariant,
what each stage of mailman, register and hook says of the row in hand, the floor
and the hook's queue.  On the way every step is sorted into a few shapes (a poll, a
claim, a paste, an Enter, a return, a mark, a notice, ...), and the rest argues about
shapes.  `CoreInv` adds

* `ClashInv`: while `clashed` is false hooks and mailman take turns;
* `HoldInv`, `FlightInv`: then the row in hand is in flight, and without a failed
  write it is alone.  That is what the batch recovery needs;
* `DupInv`: an open row was shown at most once per failure, save for the paste
  that is being submitted or marked; a pane counts as lost from the moment it
  goes, so a heal after a paste finds its price paid.  The bound of
  `DuplicatesBounded` alone is not inductive, as a recovery could reopen a row that
  has used it up;
* `EvidenceInv`: what brought the mailman to its stage, so that a mark follows a
  paste.

From it `DuplicatesArePaidFor`, `NothingLeftInFlight`, `DeliveryImplemented` (the
refinement), `StagedRowsWait`; and with a further invariant each
`PastesAreRouted` (the chosen pane, stage by stage), `FloorsAreAnnounced` (a floor
and a younger announcement), `ChannelsShownInOrder` (behind the row in hand no
older one of its channel waits), `HooksNeverRepeat` (what hooks have marked is
disjoint, delivered and not yet printed), `LoneHooksLoseNothing` (a lone hook holds
what it took), `NoticesDoNotBreed` (notices inserted or owed stand for rows dealt
with or faults), `CapHolds` (few rows are in flight).

Three of them have the hypothesis `Hooks = {}` (`DeliveryImplemented`,
`StagedRowsWait`, `CapHolds`) and `PastesAreRouted` has `DriftCheck`, as the runs that
check these properties have: with both readers at work a hook may put back a row the
mailman has pasted, and without the check the pane on record is taken as it is.

**OutboxProofs** begins with the formulas: a refill stays in bounds, is monotone and
can be split at any time (`RefillSplits`), and the advised wait with half a unit on
top suffices (`AdviceSuffices`), across the change of speed at zero.  Its invariant
`OutboxInv` says where each call stands, that the table is the store's and a reply's
parent is among its rows, that buckets are in bounds and stamped in the
past, that advice holds *at every later time* (the property speaks of now), and
that a sleeper has subscribed.  From it `BucketsInBounds`, `TimeRefillsOnce`,
`AdviceHolds`, `NoRingIsMissed`, `ParentsOutliveReplies`.

**LedgerProofs** proves `SplittingStaysNeutral`.  `LedgerInv` holds beside `OutboxInv`:

* `PhaseOK`, `TraceOK`: before its charge a call has neither paid nor written, a call
  that is refunded wrote nothing, and the row a call names as its last is one it wrote;
* `Alone`: a sender that did not overlap has one priced call under way;
* `Balanced`: what a sender paid covers what it has to show *and* everyone the call
  under way still has before it (`Covers`), and if that call has landed nothing, what
  remains without its charge covers the rest: that is why a refund is safe.
  `Matches` is the same to the hundredth.

The property alone is not inductive: the charge comes before the rows, so between the
two a sender has paid too much, and by exactly how much is what the invariant says.
Every step is one of four kinds for a ledger: a drift (nobody pays, nobody writes; rows
may be purged and the window may move on), a charge, a refund, a row that lands.  That
a sum over calls changes by what one call was charged is `ChargesDiffer`.

Why the property counts only what is there: the price of breadth is convex, so a
sender whose rows were purged pays for its next recipient as if it were the first, and
has then paid less for two than two cost at once, but no less than what the one that
is left costs.  Hence equality is claimed only where nothing was purged, expired or
wasted and no body was long.  In the `send` run purges and expiry fall between two
charges of one sender.

**PaneProofs**, `PaneInv`:

* `PollInv`: a delivery has an outcome while it is marked, and a verification
  leaves nothing to the next;
* `RowInv`: the row in hand is claimed, was pasted exactly when the delivery has come
  that far, a waiting row was never pasted, and a pasted message is in the
  input, on its way, submitted or gone.  This gives the refinement,
  `PaneDelivers`;
* `FlushInv`: from the look to the clearing, the input is what was read, or was
  emptied or touched since, and no popup unknown to the mailman hides it
  (`FlushesOnlyArchived`).  The core is that the classifier says
  "awaiting" under a popup only where nothing is read then;
* `PopupInv`, `LookInv`: what the probe let pass (`KeysSparePopups`).

`EntersSpareDrafts` and `PastesDoNotStack` add `BesideInv` under the hypothesis
`StillPopups`: a popup that comes with a moving screen is the resume modal.  Without
it they are false: a picker over a working program passes the probe as work,
hides the input from the check and may be gone at the paste.
`VerifiedIsSubmitted` adds `SettleInv` under `"clip" \notin Drafts`: a paste of
the operator's own looks like ours, so one that stood in the input at the probe
lets a settling verification believe it has seen the message.  The invariant
rests on the settle mode being used up by the first check.  Under the hypothesis
the property needs no exception for typing or failed calls, so it has none.  The
`pane` run satisfies both hypotheses.

**MigrationProofs**, `MigrationInv`: what each statement established holds once
some process is past it (`Healed`), every old name keeps a row, and row ids are a
key.  The statements' effects are lemmas about sets of rows; that the collapse
keeps exactly one row per name, ties included, is a minimum over a finite set.
From it `ListNeverFails`, `IdentitiesCollapse`, `PendingStaysReachable` and
`ListIsInert`.

**RespawnProofs**, `RespawnInv`: what was counted, is signalled or in hand adds up to
no more than the events; what the mailman answers for; and, stage by stage, that a
turn or a program now in the way of the mailman's keys was counted when it came and
has not been used up by an earlier stray key.  From it `NeverDoubleCounted`,
`NoRowForAShell`, `StrayKeysPaidFor`.

Assumptions.  The constants' assumptions (`StoreAssumption`, `MailmanAssumption`,
`BusAssumption`, ...) are evaluated by TLC in every run.  They say what the code's
types say: thresholds are positive, rates even in hundredths, prices known for
every number of recipients, nothing for none and no less for more (n^1.5), a body's
length at least 1, finitely many calls, requests as the parsers leave them
(`RequestAssumption`), operator text is no message, a minute has at least one tick,
and the names of agents differ from the words for what else a pane runs or shows.

Only model-checked is all liveness (`EventuallyHandled`, `CompactReleases`,
`WaitersReturn`, `CompactIsCounted`): fairness and ENABLED are outside the prover's
reach.

## What the models simplify

* A pane runs one thing.  An agent that is suspended under a shell, or an editor an
  agent opens on top of itself, is told apart by the code (foreground process,
  process tree) and not here.
* `PastesReachAgent` excuses what changed after the choice, and with it the pane a
  heal chooses: there the pane at hand has just gone, and the code checks the new
  one by name only.
* The audit row of a refused send is written after the rollback, best effort
  (`messages.go:154-155`, `284-286`, `437-460`); in MessageStore refusal and audit row
  are one step that succeeds.
* `ExtractInputContent` leaves out codex's choice between sentinels at a boundary
  (`observe_gate.go:558-570`), and `CursorViews` has the cursor at the end of the text.
* `CanonicalName` stands for Go's `ToLower`/`TrimSpace` and SQLite's `trim(lower())`
  alike; they agree on ASCII letters and spaces, to which `store.go:438-439` limits
  the claim.
* `NoteCompact` stamps strictly later each time; the code stamps wall-clock
  milliseconds (`agents.go:519-531`), so two compactions in one millisecond would be
  one signal.

## Not modelled, and why

Rendering and reports are text and read-only; the remote relay and the terminal
inbox call the operations modelled here, identity looks up who calls before any of
them; configuration and installation are files.  The rate-limit nudge types into a
pane and writes no row; the freshness alert adds a notice like any other.  The
observer samples unit states that systemd keeps, inserts notices like any other and
calls the reap of Housekeeping; the health scan only reads.  Timers are abstracted: a backoff or a wait takes any finite time,
except in Gate (polls) and Budget (ticks), where properties are about them.
`--keep-pane`, alias conflicts and bootstrap of register are not modelled.
Exhausted file descriptors, a full disk and a database that cannot be opened are a
call that takes no further step.

## Plan

Every safety property the runs expect to hold is proved.  What is left:

1. The common part of the two mailmen: that Gate and Paste, by outcome, are what
   Mailman assumes of them, so that Pane and Bus meet in more than Delivery.
2. The rate-limit resume and `--keep-pane` as further steps of Mailman and
   Register; the proofs by shapes take further steps as they are.
