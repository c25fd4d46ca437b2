# AgentDocker: a verification project

AgentDocker lets coding agents of different vendors work on one machine without
getting in each other's way. One daemon, `agentd`, owns what they share: who is
registered, who holds which file, who waits for whom, what was said, what was
changed. Clients (the command line, an MCP server, editor hooks, a desktop
program) send it JSON requests over a local socket.

This directory holds TLA+ models of the part of the daemon whose mistakes are
the hardest to see from outside, the TLC configurations that check them on small
instances, and TLAPS proofs of what holds on every instance. Paths below are
relative to the repository's root; `PROJECT.json` maps every definition to the
lines it models.

## 1. Inventory

The source is about 330,000 lines of Rust in five crates: `core` (pure types and
state machines), `agentd` (the daemon), `host` (operating system access), `cli`
(clients) and `ui` (the desktop program).

All of the daemon's coordination state sits behind one synchronous mutex
(`State` in `crates/agentd/src/daemon.rs`). A request runs on its own task and
takes the mutex one or more times; between holds it may await a checkpoint, a
sleep or the file system. A change of state follows one pattern
(`State::commit`): a SQLite transaction writes the rows and the events, then
memory changes, then the events go out on a broadcast channel. A write that
fails latches `storage_error`, and the daemon serves nothing until it is
restarted. While coordination is offered to a successor process every write is
skipped (`Coordination::Quiescing`, called the fence here).

| Component | State | Operations | Hard behaviour | What makes it correct |
|---|---|---|---|---|
| Lease table (`core/lease.rs`) | leases by id | claim, renew, release, transfer, expire | claims of overlapping directories and files, modes, reclaiming | exclusion over overlapping keys |
| Resource keys (`core/lease.rs`) | none | `new`, `overlaps` | prefixes, trailing slashes, the root | overlap is nesting of paths |
| Wait queue (`core/wait.rs`) | waiters in order of service, next ticket, broken rings | join, leave, break_ring, is_next, deadlock, victim | rings of any length, priorities | no ring of waits stands; one victim per ring |
| Claim service (`daemon/leases.rs`, `waiting.rs`) | a claim's place, subscription and deadline | attempt, sleep, wake, decide, disconnect | everything can happen between two holds | no lost wakeup, one answer, one announced end, every wait ends |
| Commit path (`daemon.rs`) | the latch, the fence, sequence numbers | commit, persist, emit | a write that fails part of the way | memory and database agree |
| Handoff and recovery (`daemon/handoff.rs`, `recovery.rs`) | bundles, checkpoints | handoff, checkpoint, resume | what a bundle names is stale when it is accepted | leases move to somebody who is there, without breaking exclusion |
| Startup and transfer (`daemon.rs`, `reload.rs`, `takeover.rs`) | transfer row, fence, in-flight count | open, offer, readdress, accept, abort | two processes and one database | nothing is lost, nothing is written twice or behind the fence |
| Lifecycle (`core/agent.rs`, `registry.rs`, `restarts.rs`, `supervisor.rs`, `owner.rs`, `restore.rs`) | records, processes | register, stop, exit, restart, adopt | exit racing requests, restart after a crash | a record that left holds nothing |
| Pause (`daemon/pause.rs`) | paused projects | pause, resume | a claim already waiting | nothing is granted in a paused project |
| Release requests (`daemon/release_requests.rs`) | open requests | ask, answer, expire | an answer racing the deadline, leases that changed hands, records that were folded | each ends once, is told to whom it concerns, and frees what it named |
| Inboxes and delivery (`daemon/inbox.rs`, `inbound.rs`) | bounded durable queues, offers, held messages | send, read, drain, acknowledge, hold, release, drop | a full inbox, readers of two kinds, a decision racing its card | no message lost, or delivered as new twice |
| Session binding (`daemon/binding.rs`, `core/input.rs`) | a binding per session, with its restart episode | bind, unbind, upgrade, retry, resume, the tick | decisions made without the lock, processes that die at any step, a session that returns under another record | one consumer, no process lost sight of, the controller comes back |
| People (`daemon/humans.rs`, `person.rs`) | open questions, waiting asks, answers held for them | ask, post, answer, cancel, expire, go stale | an answer on two streams at once, the asker leaves | one closure, one route, no answer lost |
| Tasks (`daemon/tasks.rs`, `tasks/rules.rs`, `core/task.rs`, `board.rs`, `rule.rs`) | cards, the board, its rules, cards an agent is being started on | file, pull, take over, move, edit, hand, archive, reshape, start, the minute's sweep | a launch takes seconds without the lock; a hold lapses under its agent; the board changes shape under its cards; edges closed by several requests | the hold is the assignee's, nobody's card is taken, no ring of waiting cards, a rule within its limit, ended stays ended |
| Channels, contests, reviews | members, entries, rankings | join, post, review, close | members who leave | quorum and ranking rules |
| Journal, event replay | entries, cursors | append, read, replay | cursors across restart and transfer | no gap, no repetition |
| Webhooks | none | post | none: best effort, nothing waits for them | not protocol |
| Policies, roles, access | rules | evaluate | precedence of rules | refusal wins |
| Usage, judge, worktrees, containers, watcher, retention, UI, CLI, host | | | input and output | not protocol |

Components interact through the mutex (calls inside a hold), through events (a
released lease wakes waiting claims) and through rows (a successor or a
restarted daemon loads them). Leases meet nearly everything: claims are refused
by policies, pauses and stopped agents; exits, handoffs and checkpoints release
or move them; the ledger attributes changes by them; the transfer fences them.
So they come first.

The hazards, each with its line and the properties that watch it, are in
`PROJECT.json`.

## 2. Plan

1. **Leases, waiting, durability** (done): `LeaseTable`, `WaitQueue`,
   `LeaseDaemon`, `ResourceKeys`; `LeaseDaemonProofs` and `ResourceKeysProofs`.
2. **An abstract lock service** (done): `LockService`, which `LeaseDaemon`
   implements, as `LeaseDaemonProofs` shows.
3. **Transfer between processes** (done): `Handover` and `HandoverProofs`.
   Left: reattaching of session owners while fenced.
4. **Inboxes, questions and held messages** (done): `Inboxes`, `Questions`.
   Left: idempotent sends; channels and topics as destinations.
5. **Release requests** (done): `ReleaseRequests`, over `LeaseTable` and
   `Inboxes`.
6. **Session binding** (done): `InputBinding`. Left: folding of a returned
   session's waits (`Waiting::follow`).
7. **Proofs** (done): `QuestionsProofs`, `ReleaseRequestsProofs`,
   `InputBindingProofs`, `TaskBoardProofs`, over `InboxesProofs`;
   `EndSaidOnce`, `NoLostWakeup`, `NoRing`, `Reachable`, and what `overlaps`
   decides. Every safety property that a run checks is proved; liveness is left to
   TLC.
8. **Tasks and the board** (done): `TaskBoard`, over `LeaseTable`, and
   `TaskBoardProofs`. Left: plans,
   verdicts, ranks, several lanes of one category.
9. **Channels and contests**; **journal cursors and event replay**; **restart and
   adoption of sessions**; in module 1 quotas and the sorted `Vec` of waiters shown
   to implement the order `WaitQueue` states.

## 3. The modules

**`LeaseTable`** is `core/lease.rs`. A table is a function from lease ids to
leases or `None`. Time is one bit per lease, `due`: `expires_at` has passed.
`Overlap` is a constant, any reflexive and symmetric relation. `Blocks`,
`ClaimAs`, `Expire`, `Releasable` and `TransferSelected` are the methods of the
same names. `handed` is set by a transfer, as `held_since` is in the code.

**`ResourceKeys`** is what `Overlap` stands for: the comparison of keys as
strings (`is_ancestor` looks at one byte behind a prefix), against a reference
that splits a value at its slashes (`Names`, a recursive function).

**`WaitQueue`** is the queue half of `core/wait.rs` and `State::break_rings`. A
queue maps each claim to its waiter. The code keeps a `Vec` sorted by
`ahead_of`; only the order is used, so it is a relation here. `Ring` says when a
sequence of agents is a ring that a wait would close; which of several rings the
depth-first search finds first is left open. `BreakRings` is the loop that breaks
them one after another.

**`LeaseDaemon`** composes the two with everything that happens around them. One
hold of the mutex is one action:

| Variables | In the code |
|---|---|
| `leases`, `stored` | `State::leases`; the rows of the database |
| `failed`, `fenced` | `storage_error`; `Coordination` other than `Serving` |
| `status`, `paused` | the registry's status of an agent; a pause of the project |
| `pc`, `req`, `answer` | where a claim's future is, its arguments, its response |
| `wake` | an event that ends its sleep is in its broadcast receiver |
| `queue`, `tickets`, `broken` | `WaitQueue::waiters`, `next_ticket`, `broken` |
| `said` | the `lease_waiting` and `lease_wait_ended` events about a claim |
| `bundles` | handoffs that will move leases |
| `left` | what is left of the bounds on disturbances |

| Actions | In the code |
|---|---|
| `Begin`, `Attempt`, `Wake`, `Lag`, `Deadline`, `Decide`, `Disconnect`, `Respond` | `Daemon::claim`, `wait_for_release`, `Waiting` |
| `Release`, `ReleaseAll`, `Renew` | the handlers of those names, with `finish_release` |
| `RunOut`, `Reap`, `ReapFails` | time; the reaper each second; a write of it failing |
| `Stop`, `Exit`, `Return` | `commit_stop`, `mark_exited`, a session started again |
| `Pause`, `Lift` | `pause`, `resume_project` |
| `Draft`, `Send`, `Accept` | `handoff` up to its checkpoint, after it, and `resume` |
| `StoreFails`, `Restart`, `Offer`, `Abort` | `persist`, opening the database, `offer_transfer`, `abort_transfer` |

`Attempt` is the whole hold of the attempt: the broken ring, the checks, expiry,
the claim, the conflict, the rings, joining, and `end_locked`.

What is abstracted, and why it does not matter to the properties:

- A failure in the middle of an attempt is `ReapFails` or `StoreFails` followed
  by the attempt being refused; the code does both in one hold, so the model has
  every behaviour of the code and an instant in between.
- A handoff that does not move its leases releases them, which is `ReleaseAll`.
  The two holds in which a handoff reads its leases and its recipient are one
  action; nothing between them looks at what they read.
- `skipped_write` is only ever set behind the fence and is folded into `fenced`.
- Policies answer once, before the claim begins; a claim they refuse changes
  nothing. `localise` turns the key into a canonical path before the first hold.
- Folding of a returned session into its old record (`Waiting::follow`) and
  quotas are left out.
- Events other than the three kinds `wait_for_release` looks at wake nobody.

**`Handover`** is the live replacement of the daemon. Each process id of `Procs`
is an ordinary daemon or a successor, and lives once. Everything a process
keeps is a function of its id; the row, the last sequence number and the socket
path are shared.

| Variables | In the code |
|---|---|
| `row`, `head` | the `coordinator` row; the highest sequence number stored |
| `path` | which bound listener the socket path names |
| `pc` | where `serve` is: an ordinary start, a successor's start, up, stopping |
| `lock`, `ear` | a descriptor of the lock file and of a listener, in the process or in a message sent to it |
| `coord`, `offer`, `next`, `failed`, `busy` | `coordination` with its transfer, `next_seq`, `storage_error`, `in_flight` |
| `stage`, `child`, `told` | how far `replace` is, the process it spawned, what `hand_over` answered |
| `mail`, `reply` | the two directions of the socket pair |
| `left` | what is left of the bounds on disturbances |

| Actions | In the code |
|---|---|
| `Start`, `Open`, `Bind` | `serve` of an ordinary daemon: `try_exclusive`, `Daemon::open`, `server::bind` |
| `Admit`, `Finish`, `Write`, `WriteFails` | a mutating request counted and over; `commit`; `persist` latching |
| `Crash`, `Shutdown`, `Unlink`, `End` | a kill or a failed start; the end of `serve` up to the removal of the path, and after |
| `Offer`, `Spawn`, `Readdress`, `Send`, `HearServing`, `HearNothing`, `LookAccepted`, `LookOffered`, `Kill`, `Abort`, `Leave` | `replace`, step by step, with `offer_transfer`, `readdress_offer`, `await_ready`, `transfer_state`, `kill_child`, `abort_transfer`, `transferred_exit`; and the same with `Fails` where the step can fail |
| `Receive`, `OpenPending`, `Accept`, `AcceptRefused`, `AnswerServing`, `AnswerFailed`, `GiveUp`, `ReceiveEnds` | `takeover::receive`, `open_pending`, `accept_transfer`, `answer_async`, and the ends of a successor that does not serve |

A `flock` lock belongs to the open file, so a message on its way holds it as a
process does, and it is free when the last holder is gone. Transfer ids are
random in the code and counted here. `in_flight` is the bit that it is not zero.
`Recovery` is how many events the recovery of an opening daemon writes. The
database is read and written in one step by each transaction. Validation of the
candidate comes before the offer and changes nothing. The container endpoint's
descriptor travels with the other two and is left out; so are reattaching
session owners, which writes nothing while fenced, and bringing the schema
forward, which is part of the accepting transaction. A panic in the task that
waits for readiness is not modelled.

**`LockService`** says what all of `LeaseDaemon` amounts to for its clients: a
map from lease ids to locks (holder, resource, mode) and three things that can
happen to it. Locks go; a lock is taken, possibly as others go in the same step,
where none of those left excludes it; a holder's locks pass to somebody else.
`LeaseDaemon` maps to it by leaving out of `leases` what is not a holder, a
resource or a mode (`Locks`), and `LockServiceSpec` is the instance's
specification. What it adds to the invariants is about steps: no lease changes
its resource or mode, none returns after it went, and none moves but by its
holder's handoff, across failures, crashes and reloads too.

**`Inboxes`** is the queue of messages of each agent: its bound, looked at for
all recipients before anything is sent (`Takes`), acknowledgement by id (`Without`,
a recursive function), and what a reader is shown (`Visible`: up to the first
message that is held for a waiting ask). Bytes and messages are one bound.
`Questions` and `ReleaseRequests` use it.

**`Questions`** is `humans.rs` and `inbound.rs` with the part of
`publish_routed` that closes questions and routes answers.

| Variables | In the code |
|---|---|
| `open`, `shape`, `due`, `stale` | `State::questions`; how each was put; its two deadlines |
| `cards`, `held`, `deciding`, `fate` | questions about held messages; `held_messages`; decisions between their two holds; the events that settled each message |
| `sent`, `inbox`, `offers`, `acked` | ids in use, `inboxes`, `legacy_offers`, what was acknowledged |
| `pc`, `replies`, `seen`, `accepted`, `result` | each ask's future: its place, its bus receiver, `AnswerCandidates`, its response |
| `heldFor`, `closure`, `routes` | `held_answers`; the closing events of each question; the `answer_routed` events of each answer |
| `mode`, `left` | storage failed or fenced; disturbances to come |

| Actions | In the code |
|---|---|
| `Ask`, `Cancel`, `Reply` | `ask` and `post_question` through `open_question`; `cancel_question`; `answer` and a send with `reply_to` |
| `Expires`, `TurnsStale`, `Expire`, `GoStale` | time; `close_expired_questions`; `stale_questions` |
| `ReadReply`, `ReadEvent`, `Recover`, `Hand`, `Deadline`, `Disconnect`, `Lag`, `End` | the `select!` loop of `ask`, `answer_handed_over`, and the drop of `Waiter` |
| `HoldMessage`, `Decide`, `Release`, `Drop`, `DecideNothing` | `hold_message`; the two holds of a decision, the second with `settle_held` |
| `Peek`, `Drain`, `Ack` | `Inbox` without and with `drain`; `AckInbox`, `MarkRead` |
| `StoreFails`, `Restart`, `Offer`, `Abort`, `Succeed` | `persist`; `Daemon::open`; the fence; a successor's `open` |

A publication sweeps due questions first, each in a transaction of its own. In
the model the sweep is `Expire` and `GoStale`, and a publication waits for them
(`Swept`), so every behaviour of the code is one of the model, with instants
between the sweep and the publication that the code does not have. The exception
is `Release`, which reads the held message before the sweep of its own
publication; it has the sweep of its own card inside. Forms, validation and
notifications are left out, as is who is registered: every agent is a live one
of one project.

**`ReleaseRequests`** is `release_requests.rs` over `LeaseTable` and `Inboxes`.

| Variables | In the code |
|---|---|
| `leases`, `spent` | `State::leases`; lease ids that were used, as an id never comes back |
| `canon`, `gone` | `Registry::canonical_id`; agents that have left |
| `request`, `pending`, `ends` | what each request asked; `State::release_requests`; the events that ended it |
| `inbox`, `acked`, `owed` | `inboxes`; what was acknowledged; defaults of stale questions that are due |
| `failed`, `left` | `storage_error`; disturbances to come |

| Actions | In the code |
|---|---|
| `Ask`, `Respond`, `Lapse`, `ExpireRequest` | `request_release`, `respond_release`, time, `expire_release_requests` |
| `Claim`, `LetGo`, `RunOut`, `ExpireLeases`, `Give`, `Leave` | what else becomes of leases: `LeaseDaemon` has these in full |
| `FallsDue`, `SweepQuestions`, `Ack` | the sweep of questions inside a publication, which takes room in queues; `ack_inbox` |
| `Fold` | `commit_fold`: a session that came back takes over its earlier record |
| `StoreFails`, `Restart` | `persist`, `Daemon::open` |

`Ask` publishes to one holder after another. Each publication is a transaction;
one that finds its queue full or the store failing ends the request with those
before it asked (`done`).

**`InputBinding`** is `binding.rs` and the restart episode of `core/input.rs`,
for the records of one thread of one profile.

| Variables | In the code |
|---|---|
| `provider` | whether the session's process of each record runs |
| `binding` | `AgentRecord::input_binding` with its `ControllerRestart` |
| `age` | which of the deadlines of a launch or an upgrade have passed |
| `alive`, `told`, `unbound`, `lost` | controller processes: running, sent SIGTERM, launched and not bound, launched by a daemon that died before it recorded it |
| `look` | the step `tend_controllers` decided without the lock and has not carried out |
| `queue`, `offers`, `shown` | the inbox; `legacy_offers`; what a legacy reader was really answered with |
| `mode`, `left` | storage failed or fenced; disturbances to come |

| Actions | In the code |
|---|---|
| `Bind`, `Unbind`, `Upgrade`, `Retry`, `Resume` | `bind_input`, `unbind_input`, `upgrade_controller`, `retry_controller`, `resume_input` |
| `Look`; `Stop`, `NoteEnded`, `NoteExhausted`, `Launch`, `LaunchFails`, `Skip` | `tend_controllers`: `controller_step` without the lock; each step in its later hold |
| `Ages` | time |
| `HookStarts`, `Dies`, `Registers`, `SessionEnds` | processes, outside the daemon |
| `Send`, `Read`, `Drain`, `Acknowledge` | messages and the legacy reads with `note_legacy_offers` and `forget_delivered` |
| `StoreFails`, `Restart`, `KilledLaunching`, `Offer`, `Abort`, `Succeed` | failure, restart, a kill between `spawn_controller` and the record of it, the fence |

The code compares the whole binding it looked at with the one it finds; the model
forgets the decision when the binding changes (`Recheck`), which is the same.
Backoffs are over when the look is made. A process identity is a pid and a birth
and never returns; here it may once no binding names it, which adds nothing.

**`TaskBoard`** is the board of work. A card's key `task:<id>` is a resource of
`LeaseTable`, and the lease on it is the hold of whoever works on the card.

| Variables | In the code |
|---|---|
| `card`, `board` | the task and board documents |
| `leases` | `State::leases`, as far as they are on cards |
| `byHand` | which of them were claimed or handed on as leases, not taken by the board; nothing in the code tells them apart, and no action looks at it |
| `status`, `label` | the registry's status of an agent; the rule that started it |
| `start` | `State::starting_cards`, with how far each start is |

| Actions | In the code |
|---|---|
| `TaskFile`, `TaskMove`, `TaskRerank`, `TaskEdit`, `TaskAssign`, `TaskArchive`, `TaskArchiveLane`, `TaskUnarchive`, `BoardUpdate` | the handlers `task_file`, `task_move`, `task_update`, `task_archive` ... of `tasks.rs`, with the rules of the lane a card comes into (`rules_on_enter`) |
| `TaskPull`, `TaskPullAgain`, `TakeOver` | the three outcomes of `task_pull` |
| `SweepRule` | one rule on one card in the minute's `sweep_rules` |
| `TaskStart`, `StartLaunch`, `StartRuns`, `StartHands`, `StartFails` | `task_start` and `start_on_card`: the mark, the second look after the inventory, the launch, the third look and the hand, or an end before that |
| `Register`, `Exit`, `FallDue`, `ExpireLeases`, `ClaimByHand`, `Release`, `HandOn`, `Restart` | what happens to agents and to leases meanwhile |

Cards of one project on one board. A lane stands for its category, of which the
board has one lane at most; the Ready lane is the pull source and the In progress
lane the pull target. Ranks are left out, so a pull that names no card may come to
any it could find. Each request commits once and storage does not fail here:
`LeaseDaemon` has what a failing write does to leases.

**`LeaseDaemonProofs`**, **`ResourceKeysProofs`**, **`HandoverProofs`**,
**`QuestionsProofs`**, **`ReleaseRequestsProofs`**, **`InputBindingProofs`** and
**`TaskBoardProofs`** hold the theorems, and **`InboxesProofs`** the lemmas about
queues that those about questions and release requests share. The modules whose names begin with
**`MC`** give the instances their values.

Next to some definitions stands a variant marked as a plausible slip. It is used
nowhere; putting it in the definition's place makes the named property fail,
which shows that the property depends on that line of the code
(`PROJECT.json`, "mutants").

## 4. The runs

| Run | Instance | Checks | States |
|---|---|---|---|
| `served` | 3 agents, 2 connections, a directory and a file in it, patient waiters, an exit, a lag | `TypeOK`, `OnePlace`, `NoLostWakeup`, `WaitsEnd` | 499,000 |
| `rings` | 3 agents with a lease each, 3 connections, unequal priorities | `NoRing`, `EndSaidOnce` | 473,000 |
| `storage` | 2 agents, 3 claims, a handoff, a stop or an exit, a failure, a restart, a transfer | `ExclusiveUnlessHanded`, `StoredAsServed`, `LeaversHoldNothing`, `FencedStill`, `LockServiceSpec` | 1,435,000 |
| `dying` | 3 processes, any two of: two crashes, a failing step, a write, a shutdown | `OneWriter`, `Coherent`, `Reachable`, `Ceded`, and `ReloadEnds` under `FairSpec` | 293,000 |
| `keys` | every pair of keys up to four characters over two letters and the slash | `OverlapIsNesting` | 57,600 |
| `asks` | an agent and a person, an ask that goes stale each way, beside a post or a card, two more messages, one disturbance | `TypeOK`, `HeldForAWaiter`, `ClosedOnce`, `OneWay`, `AnswerKept`, `OutOnce`, and `ClosedAskEnds` under `FairSpec` | 838,000 |
| `requests` | 2 agents and a later life of the first, a directory and a file, 2 leases, 2 requests, 2 disturbances | `TypeOK`, `EndsOnce`, `AskedOnce`, `Told`, `AcceptFreesWhatWasAsked` | 2,157,000 |
| `binding` | 2 records, 3 processes, a message, a launch an episode, one disturbance | `TypeOK`, `NoStray`, `Flagged`, `SparesBound`, and `Tended` under `FairSpec` | 608,000 |
| `board` | 2 agents, the person, 2 cards, 2 leases, 2 board shapes, 4 rules, any three changes | `TypeOK`, `HoldIsAssignees`, `NoWaitRing`, `RuleBound`, `NoSteal`, `EndedStays` | 397,000 |

- `OnePlace`: a claim waits, or its ring was broken, or it has its answer; never
  two of them. A claim that kept its place with its answer could be picked to
  break a later ring, which would then stand.
- `NoLostWakeup`: a claim asleep with nothing to read is really blocked. It says
  nothing once a transfer was offered or a handoff accepted (section 5).
- `NoRing`: stated on the leases in the way of the waits, not on the search. It says
  nothing of agents that claim over several connections (`OwnConnections`), nor once
  a handoff was accepted (section 5).
- `EndSaidOnce`: a wait that began is announced to end once, with the outcome
  that its answer has, also when the deadline, a ring and a release meet. It says
  nothing once storage failed or a transfer was offered, when events are not written.
- `ExclusiveUnlessHanded`, `StoredAsServed`, `LeaversHoldNothing`: section 6.
- `FencedStill`: an action property; behind the fence only time passes.
- `WaitsEnd`: every wait ends, with no deadline needed.
- `OneWriter`: at most one process is past the fence, ordinary daemons that start
  in the middle of a handover included.
- `Coherent`: whoever may write numbers its events from where the database ends,
  although it read that number when it opened and uses it only once it has
  accepted, or kept it through an offer that was taken back.
- `Reachable`: a daemon that serves has the listener the socket path names, as long
  as none was told to stop.
- `Ceded`: a reload says ok, and its daemon goes, only over an accepted offer.
- `ReloadEnds`: every reload ends, whatever its successor does.
- `LockServiceSpec`: the refinement of section 6.
- `HeldForAWaiter`: an answer is held only for an ask that still waits, and is the
  one that closed its question. One held for nobody would hide the asker's queue.
- `ClosedOnce`: a question is closed once, by whoever comes first, and an ask
  answers with what closed it.
- `OneWay`: "One answer travels one way, never both."
- `AnswerKept`: what closed a question is in the asker's queue, visible once
  nobody waits, until it is acknowledged.
- `OutOnce`: a held message goes out at most once and is nowhere while it is held.
- `ClosedAskEnds`: an ask whose question is closed ends without its deadline. The
  one way out is that somebody acknowledged the answer under it before it kept it;
  then only the deadline ends it.
- `EndsOnce`, `AskedOnce`, `Told`: a release request ends once, is not repeated
  while it waits, and request and answer reach the records that their two sides
  live on in.
- `AcceptFreesWhatWasAsked`: an action property; an accept takes exactly the leases
  the request named that its holder still has.
- `NoStray`: every controller process that the daemon launched and that has not
  bound is on a binding or was told to stop. A kill between the launch and the
  record of it is the exception, and is counted apart.
- `SparesBound`: an action property; a bound controller gets no signal but for an
  upgrade, however late a decision is carried out.
- `Flagged`: what a reader was shown before the bind, and is still queued, is
  marked uncertain for the controller.
- `Tended`: a binding with a launch descriptor gets its controller, or is said to
  be exhausted, or its session is gone.
- `HoldIsAssignees`: every lease the board took on a card is held by the agent the
  card names, while the card is worked on. A hold left behind by any of the ways a
  card changes would keep everybody else from it for four hours.
- `NoSteal`: an action property; without the person a card passes from one agent to
  another only if it waits and the first has ended, or by a take-over of a lapsed
  hold. The three looks of a start are what keeps it true of a launch.
- `NoWaitRing`: no card reaches itself over parents and blockers.
- `RuleBound`: a start rule has at most `max` agents running.
- `EndedStays`: an action property; no pull, take-over or start takes a card that
  ended, as long as the board has a lane for it (section 5 says what else happens).

**Bounds.** `Budget` bounds how often each disturbance happens, each within one
run: claims, exits (stops and returns count too), pauses, lags, failures,
restarts, transfers. Two connections are enough for a waiter and another one
ahead of it, and a third agent holds what both want. Three agents make rings of
two and of three, the second with a ring broken at each of its three places.
Lease ids are as many as leases that can be held at once; ids are reused once
nothing names them any more, which a random id is not, so every behaviour of the
code within the bounds is there. Deadlock is not checked: once the budgets are
spent and nobody asks for anything, nothing more happens.

In `asks`, `requests` and `binding` the disturbances (a read by another way, a
lag, a client that goes, a failing write, a restart, a transfer; a handoff, an
exit, a fold; a retry, a launch that fails, a kill) share one bound: any one of
them, or any two in `requests`, at any moment. `asks` has a capacity of two, so
that a queue is full with an answer in it, and keeps one candidate, so that the
answer can be the one past the bound. In `requests` a queue takes one message, so
that room is what requests, answers and defaults compete for. `binding` has one
launch an episode, which fails, binds or is the last.

In `board` a change is a filing (of one card or of two that may name each other), a
move, an edit or a hand, an archiving, a new shape, a claim by hand, its release or
a handoff, a lapse, an exit, a restart, or a start by the person. Three of them in
any order, the first of necessity a filing; pulls, take-overs, rules, the steps of a
start, registrations and expiry are free. Two cards make a ring, and fill a rule of
one agent twice over. Cards are filed into Backlog and Ready and come to other lanes
by moves.

In the runs of `Handover` three process ids allow two handovers in a row, or a
failed one and the start of another daemon; two crashes kill both sides of one. The
safety properties are proved for any number of either (section 6).
`Recovery` is one event: what matters is whether the sequence moved between a read
and a write, not how far.

**Symmetry.** `storage` is symmetric in connections and lease ids: every
connection may carry the same claims. `requests` is symmetric in lease
ids and requests, and `board` in agents, cards and lease ids, which are only compared. Liveness runs use no symmetry.

**Fairness.** Tasks that can run do run (`Attempt`, `Wake`, `Decide`: the tokio
runtime). The reaper ticks (`lib.rs` runs it each second). Every lease runs out
at last: a TTL is finite, and it is assumed that no holder renews for ever, for
a holder that does may keep others waiting by design. Clients, agents and
deadlines owe nothing: `WaitsEnd` does not need a deadline to fire.

`Questions!FairSpec` assumes that a waiting ask whose streams have something to
read, or that is to take the lock, runs; nothing of deadlines, people or readers.
`InputBinding!FairSpec` assumes that the tick comes (`lib.rs` calls it each second)
and that time passes; nothing of controllers, which may hang before they bind, nor
of sessions or requests.

`Handover!FairSpec` assumes that a reload in progress and a shutdown run on, and
that the deadline of `await_ready`, which is enforced by the predecessor alone,
passes; it assumes nothing of successors, which may hang anywhere.
`SupervisedSpec`, used only by `orphan`, adds that successors run on and that a
daemon is started when there is none, as a service manager or a client's
autostart does: even so the offer stays open.

## 5. Where the code and what is said of it part

Three runs are expected to fail, each for one property that a comment or document
states.

- `handoff` (`MutualExclusion`). The sender of a handoff keeps its leases until
  acceptance and may claim more meanwhile. Acceptance moves the recorded ones
  with no check, so two agents hold overlapping leases, one exclusively. A
  restart in that state fails: the opening daemon refuses overlapping leases.
- `orphan` (`OffersSettle`). A predecessor that dies with its offer open leaves it
  open. Every later daemon starts fenced, as a stranger to the offer should, but
  nothing withdraws it: only `replace` aborts, and a fenced daemon refuses to
  reload. The repository's documents ask for bounded recovery.
- `card` (`CardsPaired`). A held message's card is an open question. `answer` knows
  of cards and turns the answer into a decision; a person's `send` with `reply_to`
  the card does not, and closes it as an answered question. The message stays held
  with nothing left to decide it by, until a restart drops it. `inbound.rs` says
  there is never a message without its card.

Other places show in the models without a run of their own.

- A wait that ends behind the fence is not announced, for the event is a skipped
  write (`waiting.rs:120`). If the transfer is then called off, the next waiter
  sleeps to its deadline with the resource free. So `NoLostWakeup` says nothing
  once a transfer was offered (`NeverOffered`); without that it fails with a
  transfer in the budget of `served`.
- The search for deadlocks knows who holds what, not who is ahead of whom
  (`wait.rs:224`). A reader that asks to write behind a waiting writer, with another
  reader there, ends in a cycle that only a TTL resolves.
  `docs/ARCHITECTURE.md:588` says such a wait is broken at once. It also
  ignores modes, and may refuse a wait for a ring of readers.
- The search is made when a wait begins, and knows one wait of each agent
  (`wait.rs:173`: "An agent waits for one thing at a time — a claim holds its
  connection"). An agent that waits over one connection and is granted a lease over
  another closes a ring that nobody looks for; so does a handoff that is accepted
  while its recipient waits. So `NoRing` says nothing with several connections of
  one agent or once a handoff was accepted, and fails without either condition, the
  second with three agents and one handoff.
- After the deadline of a reload the predecessor looks at the store, then kills
  the successor, then aborts (`reload.rs:543`). A successor that accepts between
  the look and the kill dies as the coordinator; the predecessor answers
  `unavailable`, stays fenced and stays. No failure is needed.
- A claim without a ticket always tries (`may_attempt`), so a newcomer can take a
  freed resource before the waiter that the release woke, where
  `docs/ARCHITECTURE.md:588` says a newcomer of the same priority cannot.
- `lease_transferred` wakes nobody (`daemon.rs:975`): a waiter whose own agent
  received the lease that was in its way sleeps on. So `NoLostWakeup` says nothing
  once a handoff was accepted (`NothingHanded`), and fails without that.
- A daemon shut down while its reload waits removes the socket path on its way out
  (`Unlink`), although its successor has the listener and the lock and goes on to
  serve. So `Reachable` says nothing once a daemon was told to stop.
- `request_release` finds room in every holder's queue before it asks any
  (`release_requests.rs:155`), but the first publication sweeps stale questions,
  whose defaults can take the last place of the second holder's queue: the first
  is then asked alone, which the comment there excludes.
- While `storage_error` is latched the tick still tends controllers, for it looks at
  the fence only (`binding.rs:272`). A launch that is due starts a process, cannot
  record it and stops it, each second and uncounted, where the module's comment
  says a bounded number of times with backoff.
- Behind the fence `answer_handed_over` skips both its writes without an error, so
  an ask returns its answer unrecorded (`humans.rs:521`), where the comment at the
  call says never.
- `start_on_card_command` looks at the card again after the launch, not at the agent
  (`tasks/rules.rs:777`). One that exited meanwhile is given the card and its lease,
  after `mark_exited` released what it held, and the card is nobody's to pull until
  the four hours are over, where `tasks.rs:39` says that an exit releases it at once.
- A lease claimed on a card by hand refuses the hold a start would take, but no look
  before the launch asks for it (`startable`, which `rule.rs:234` says asks what a pull
  asks): the agent is launched, told nothing, and counts against its rule.
- A board that loses its Cancelled lane draws cancelled cards in its first lane
  (`Board::lane_of`; the module's comment says the first lane of their category). If
  that is the pull source, `next_ready` and `Task::pull` find them there and neither
  asks whether they ended: a pull with no card named takes up work that was given up.
- A move into a working lane takes no lease, so the card's hold has lapsed as it
  arrives; and a card in Blocked that names an agent which ended can be taken by no
  agent at all, for it neither waits nor is worked on.
- The comment of `resume_input` says that everything queued becomes uncertain; the
  code flags what was offered, which is what `Flagged` needs.

## 6. What is proved

`LeaseDaemonProofs` proves, for any sets of agents, resources, claims, leases,
handoffs and asks, any reflexive symmetric overlap and any budgets:

- `TypeCorrect`: `Spec => []TypeOK`.
- `Durable`: `Spec => []StoredAsServed`. What is served is stored; what is
  stored and not served is overdue and behind a latched failure.
- `Exclusion`: `Spec => []ExclusiveUnlessHanded`.
- `Leavers`: `Spec => []LeaversHoldNothing`.
- `Places`: `Spec => []OnePlace`.
- `EndsAnnounced`: `Spec => []EndSaidOnce`.
- `TurnsAreNoticed`: `Spec => []NoLostWakeup`.
- `Fence`: `Spec => FencedStill`.
- `Implements`: `Spec => LockServiceSpec`.
- `RingsAreBroken`: `Spec => []NoRing`.

Assumptions: those of the modules, evaluated by TLC in each run. `Overlap` is
reflexive and symmetric within `Resources`, which `ResourceKeysProofs` shows of the
keys the code compares; there are finitely many agents, which only `RingsAreBroken`
uses; priorities are integers; `None` is none of the values it stands beside; asks
and budgets have their types.

The argument. No one of the first eight is inductive alone; `IndInv` joins them:

- `TypeInv`: the types, and that a claim that is not idle has its request
  (`Asking`), without which `req[c].agent` means nothing.
- `StoredAsServed`. It carries exclusion to the database: memory is a part of
  what is stored, so a grant that is exclusive in memory must still be shown
  exclusive against rows without a lease. Those exist only behind a latch, where
  nothing is granted.
- `ExclusiveButHanded(stored)`, from which the same of `leases` follows by
  `StoredAsServed`. Four steps can make a clash: a grant (excluded by
  `InTheWay` being empty, or by the claim only renewing what it has), a transfer
  (which marks what it moves), renewal and expiry (which change neither holder
  nor key).
- `LeaversHoldNothing`: grants and transfers go to running agents; exit drops
  what is held in the step that records it.
- `Placed`: `OnePlace`, and every ticket given out is below the next one, from
  which tickets are distinct.
- `Quiesced`: behind the fence no claim is at an attempt. An offer is refused
  while one is, and `Decide` admits none. `FencedStill` rests on it.
- `Spared`: the fence stands only once a transfer was offered, so that a daemon
  never offered writes every event.
- `Announced`: what was said of each claim, by where it is. `EndSaidOnce` is a part
  of it; that a claim without a place has had nothing said of it, that only a
  claim that waits has a place, for the resource it asked for, and that one asleep
  has or had a place, is what makes it inductive.
- `NoLostWakeup` itself. A step can only unblock a sleeper by taking a lease or a
  waiter out of its way. `Freeing` says that every lease a step takes away, or
  stops being in the way, was on a resource that the step notifies about, and a
  waiter leaves the queue with the event of its end, so the sleeper wakes. That a
  sleeper's place is for the resource it asked for comes from `Announced`.

`IndInvInit` and `IndInvStep` show that it is inductive, one lemma per conjunct
and one step per action; the theorems are corollaries.

The refinement (`Implements`). The mapping is `Locks`: each lease as a lock, `None` where there is none.
The initial table is empty. For a step, `IndInv` is the context: a grant is a `Take`
because `ClaimAs` grants only where `InTheWay` is empty, what was expired in the
same hold being the locks that go; a claim that renews is a stutter; an acceptance
is a `Give` of the leases the sender still has; release, expiry, exit and
`ReapFails` are `Go`. A restart is the step that needs the invariant most: it loads
`stored` instead of `leases`, and `StoredAsServed` says that what it loads beyond
what was served is overdue, so that without those rows, which the opening daemon
drops, no lock comes back. The remaining actions leave `Locks` alone. That every
step but a grant and an acceptance only drops locks (`LeasesGo`) serves the rings too.

Rings (`RingsAreBroken`). Who waits for whom is a set of pairs of agents (`Edges`), and
`NoRing` says that among any agents one waits for none of them (`Grounded`).
`RingInv` adds to `IndInv` that a claim asks for what its connection carries and that
its place in the queue is its agent's (`Asked`), so that with one connection an agent
waits once at most (`WaitsApart`).
- Every step but a grant and a claim that takes a place leaves fewer edges
  (`FewerEdges`), an acceptance apart; a restart leaves none.
- A grant makes a holder of an agent that waits for nobody afterwards: the wait it
  ends was the agent's only one (`GrantGrounded`).
- A claim that takes a place adds edges from one agent. `Reaches` are the agents from
  which a path of edges, each agent once, leads to it; what waits for one of them is
  one of them (`ReachesBack`). If the new edges made a ring, the agents of it outside
  `Reaches` would have been one before; so the ring goes through the newcomer, which
  waits for one of `Reaches` (`RingThrough`). Such a path, with the newcomer before
  it, is a ring that the search returns (`PathIsRing`): it has no more steps than
  there are agents, each of its agents waits, and what the search takes for the
  agent's wait is its only one. The claim took a place because the search, after the
  waits it ended, returned nothing (`JoinGrounded`).

`ResourceKeysProofs` proves, for all keys, of any length:

- `OverlapNests`: two keys, as they came or as `ResourceKey::new` makes them, overlap by
  the code's comparison exactly when they name the same thing or, for paths and files,
  one names a directory above the other.
- `OverlapDecidesNesting`: `Spec => []OverlapIsNesting`.

The reference cuts a value at its slashes, character by character, by a recursive
function. `CutDoes` says what one more character does to the names; `CutOnce` that a
value is determined by its names; `CutGrows` that what is added behind a slash only
adds names; `CutBegins` that the first names of a value are those of a beginning of it
that a slash, or its end, follows. So names are nested exactly where the one value is
the other's prefix and a slash or nothing follows (`NestedIs`), which is what
`is_ancestor` looks at after the trailing slashes are off (`AncestorIs`).
`OverlapIsMutual` is the assumption that `LeaseTable` makes of `Overlap`.

`HandoverProofs` proves, for any set of processes, any recovery and any budgets,
shutdowns included:

- `SingleWriter`: `Spec => []OneWriter`.
- `Continuity`: `Spec => []Coherent`.
- `LeavesWhenTaken`: `Spec => []Ceded`.
- `FoundOnTheSocket`: `Spec => []Reachable`.

Assumptions: `None` is no process, `Recovery` is a set of numbers, `Budget` has
its type.

The argument. Nobody writes while an offer is open (`NotBoth`), and an offer is
ended by one step of one process. A process begins to write by accepting or by
aborting, when the offer was open and so nobody wrote; or by opening a database
with no open offer. The last is the hard case, for a successor opens too. It is
excluded there by `Addressed`: a successor that has, or was sent, the handover is
the one named in the offer that is still open, because the predecessor kills it
before it withdraws the offer (`Order`: at the stage of aborting the child is
dead). What remains is an ordinary daemon, which has the lock alone
(`LockAlone`), while every writer and every successor on its way has the lock
too. `Coherent` needs `InStep`: whoever can still settle the open offer (its
predecessor, and its successor once it has opened) has the next number; the
predecessor's last write, naming the successor, comes before the successor gets
anything to open with. `Numbered` keeps one offer, and one child, from belonging
to two reloads; `Answered` carries `Ceded` through what a successor said;
`Blank` says what a process is not, before it starts and once it is gone.
One lemma per group of actions shows that they preserve `IInv`, one step per
action and below it one per conjunct. `Reachable` needs `Listening` besides: while
no shutdown was spent, nobody is stopping, so nobody unlinks the path; every
listener held is the one the path names, for a daemon binds only where nobody
listens and otherwise gets the listener with the handover; and every daemon that is
up and every successor that was sent the handover holds one.

`QuestionsProofs` proves, for any agents, messages and questions and any bounds:

- `TypeCorrect`: `Spec => []TypeOK`, in which are the bounds of queues, of open
  questions and of the replies an ask keeps.
- `HeldForTheLiving`: `Spec => []HeldForAWaiter`.
- `QuestionsCloseOnce`: `Spec => []ClosedOnce`.
- `AnswersTravelOneWay`: `Spec => []OneWay`.
- `AnswersAreKept`: `Spec => []AnswerKept`.
- `HeldGoOutOnce`: `Spec => []OutOnce`.

Assumptions: every question has a default of its own that is no question, and the
shapes it may be put in; bounds are numbers; `None` is none of the values it stands
beside.

The argument. The facts are preserved together, for a step that closes a question
publishes, queues, holds and announces in one transaction. Ids are used once: before
a question is put there is no trace of it (`Born`), and what is queued, closed a
question or was announced is in use (`Known`), so a new answer is held, routed and
named by nothing yet. No message closes two questions (`OneCloser`), so the ask that an
answer is held for is the one it answers. A question that is no card is closed once
(`Single`), and what an ask accepted and told is what closed it (`Asking`). The answer
to an ask that has not made up its mind is held for it (`Waited`), and no route is
announced for what is held (`Routed`): therefore the answer an ask returns was not left
to the queue, which is `OneWay`. A held message is in no queue, nothing has become of
it, and two cards hold different ones (`Carried`), so that one which leaves its card
goes out for the first time; that is `OutOnce`, also where the publication sweeps the
very card. `Sized` has the counts, `Kept` is what `AnswerKept` follows from.

`ReleaseRequestsProofs` proves, for any finite sets of agents and requests, any
leases, overlap and bounds:

- `TypeCorrect`: `Spec => []TypeOK`.
- `RequestsEndOnce`: `Spec => []EndsOnce`.
- `NobodyAskedTwice`: `Spec => []AskedOnce`.
- `EverybodyIsTold`: `Spec => []Told`.
- `AcceptIsExact`: `Spec => AcceptFreesWhatWasAsked`.

The argument. A record stands for itself or for one that does, and only such a record
holds a lease or is owed a default (`Canonical`). Whoever is asked holds a lease, so
what is asked, answered or owed goes to a queue that is somebody's, and two requests
made before and after a fold are compared by the record both stand for. A request that
was not made waits nowhere and has not ended (`Unmade`). The proof found one step of
the model that the code cannot take: a default owed to a record that had been folded
away. Questions are renamed by the fold with everything else, and `FallsDue` now asks
for it. Agents and requests are finitely many, so that requests can be counted.

`InboxesProofs` has what both rest on: what `Enqueue`, `AckInbox` and one queue put
behind another leave in a queue, and how long it is then.

`InputBindingProofs` proves, for any records, processes, messages and bounds:

- `TypeCorrect`: `Spec => []TypeOK`, in which is the bound of an episode.
- `AllAccountedFor`: `Spec => []NoStray`.
- `NothingTwice`: `Spec => []Flagged`.
- `BoundAreSpared`: `Spec => SparesBound`.

The argument. What the tick decides is carried out in a later hold, so everything rests
on the decision still fitting the binding it was made about (`LookStands`): a launch
finds attempts left and no process on its way, a signal finds the process it was meant
for. Every write to a binding takes the decision back, in the code because the whole
binding is compared. At most one record of the thread is bound (`OneBound`), and the
process on its way up is not the controller it replaces (`Apart`), so a signal for the
one cannot reach the other. `Flagged` rests on the offer being written before its
reader is answered (`Offered`).

`TaskBoardProofs` proves, for any finite sets of cards and agents, any leases, boards,
rules and budgets:

- `TypeCorrect`: `Spec => []TypeOK`.
- `HoldsAreAssignees`: `Spec => []HoldIsAssignees`.
- `RulesKeepTheirBound`: `Spec => []RuleBound`.
- `NoRingOfWaits`: `Spec => []NoWaitRing`.
- `CardsAreNotStolen`: `Spec => NoSteal`.
- `EndedCardsStay`: `Spec => EndedStays`.

Assumptions: the person is no agent; the shapes are ones `Board::check` accepts; the
rules have their types; there are finitely many cards and agents; `None` is none of the
values it stands beside.

The argument. A lease of the board's is not only the assignee's but exclusive (`Holds`):
`task_hold` looks at exclusive leases alone, so a take-over from a lapsed hold would
otherwise leave a shared one behind. `RuleBound` counts agents; what is preserved counts
the starts that no agent runs for yet with them (`Bounded`), each start once: as a mark
before its agent is up, as an agent afterwards. `started_by` counts the marks of agents
that are up as well, which is more and so enough. A restart forgets marks, never
agents. An agent that registers by itself carries no rule's label (`Unlabelled`), and
only filed cards are marked (`Marked`).

`NoWaitRing` needs to know what `Reached` computes. It repeats a step as many times as
there are cards; each step adds a card or is the last that changes anything, so the
result is closed under the edges, and it lies in every closed set that holds the first
cards (`ReachedIs`). Then new edges of a card whose closure does not hold the card close
no ring (`NoNewRing`): a ring would run through the card, and so its way back lies in
that closure. A batch of two is that lemma twice, the second time with the first card's
edges in place, which is the order in which `task_file` checks them.

A request changes cards, leases and marks more than once: a move, then each rule of the
lane it leads to, and a rule may move the card on. So the parts of the invariant take
cards, leases and marks as arguments; `Tamed` says of one change that it keeps them and
gives the card to nobody new, and `Entered`, however many rules there are, is tame by
induction (`EnteredTamed`). The two action properties come from one classification of
steps (`Passes`), proved action by action with the invariant.

**Recursion.** A recursive function is reasoned about by induction over a set of
numbers, which follows from the numbers being well founded (`Induction` in
`TaskBoardProofs` and `ResourceKeysProofs`, `LeastNumber` in `InboxesProofs`); that such
a function exists is shown by building it up. That is how `Without`, `Reached`,
`Entered` and `Names` are dealt with. No module uses a `RECURSIVE` operator.

**Only model-checked.** Liveness under fairness, and `ENABLED`, are out of the prover's
reach, so `WaitsEnd`, `ReloadEnds`, `ClosedAskEnds` and `Tended` stay with TLC.

## 7. What is not modelled

Listed by component in `PROJECT.json`. In short: everything in section 2 that is
not marked done (channels, contests, the journal, the supervisor, policies
and usage are the larger parts of it); the store beyond the transfer row, whose transactions are taken
as atomic; the file
system, Git, processes, terminals and containers; the clients and the desktop
program, which only ask what the models' inputs range over.
