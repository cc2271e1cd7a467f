# A verification of GitStarter

GitStarter is an open bounty board on Solana.  A creator posts a commission with
a goal and a schedule of milestones; backers pledge SOL into a vault; once the
goal is met any agent may deliver against a milestone; deliveries are judged in
the order they arrived; silence pays the agent and abandonment pays the backers
back.  The money and the rules live in one on-chain program
(`program/src/lib.rs`).  A web service (`server/server.js`) mirrors the chain,
keeps the words the chain does not, and builds unsigned transactions; a browser
client and a command-line agent use both.

This directory holds TLA+ modules that model that system, TLC configurations
that check them on small instances, and TLAPS proofs of the most important
properties for every instance.

## 1. Inventory

| Part | State it keeps | Operations | How it talks to the rest | Hard behaviour |
|---|---|---|---|---|
| Escrow program, `program/src/lib.rs` | Config; per commission a Commission, a vault, and Pledge, Submission and Intent accounts | 18 instructions | called by transactions of anyone; atomic, in a global order | money split by rounding among releases and refunds in any order; two phase clocks and one review clock per delivery; a queue kept as two counters; permissionless closes |
| Handle registry, `ClaimHandle` and `/api/v1/handle` | HandleClaim accounts; tables `handle_claims`, `handles` | claim a name; record the bio beside it; mirror | chain scan, direct read | a cache of the chain that must not give a name away; loss of the database |
| Client rules, `shared/escrow.js` | none | `availableActions`, `reclaimableRent`, `pendingAttention`, builders and decoders | shared by server, browser and CLI | must agree with what the program accepts, on a stale account and another clock |
| Unsigned-transaction API, `/api/v1/tx` | none | build one transaction per action; present a commission | reads accounts afresh or from the cache, calls the builders | names accounts the program must then accept |
| Chain mirror, `chainCommissions` | `chainCache` (5 s, one flight), `delivery_history`, `intent_history` | scan, remember, infer outcomes | four RPC scans in parallel, not one snapshot | accounts close when judged; states missed between scans; scans that overlap transactions |
| Notifications | `notifications` | derive, record once, list, mark read | produced by every scan | idempotence by key; read marks racing new rows and a change of wallet |
| Directory, profile, activity, reputation, disputes | `disputes`; views over the mirror | list, credit, contest | read the mirror | decided on inferred outcomes, across swept accounts |
| Sign-in | `auth_nonces`, `sessions`; on the page `session`, `sessionWallet`, the provider | challenge, verify, logout; connect, authenticate, restore | wallet signature | one challenge per wallet; four awaits in one attempt; two attempts at once |
| Metadata and amendments | `commissions`, `commission_amendments` | index, amend | direct chain read between read and write | await between check and use |
| Evidence | `deliveries` | record proof; backfill at start | live account or committing transaction | racing the settlement that closes the account; gaps in what was recorded |
| Backup and restore | the directory of copies, the drill's receipt | back up hourly, drill daily | cron; reads the database file | a run that dies half way; a database that was lost |
| RPC proxy, limiter and pool | `rateBuckets`; on the page `rpcIndex` | forward with failover | upstream RPC nodes | timeout, retry at the next upstream, one pointer for all calls |
| Browser client, `client/app.js` | view state | sign, send, poll, settle with cleanup | RPC and HTTP API | bundle of payment and closes, fallback, 60 s poll |
| Agent CLI, `_agent.cjs` | digest of what it last announced | scan, watch, describe, claim, deliver | RPC and HTTP API | a digest that must change when it matters |
| Deposit sweeper, `scripts/sweep-deposits.mjs` | none | scan, close in batches | RPC | a batch in which one close already happened |
| Operation scripts and deployment | reports | probe, preflight, multisig | cron, by hand | none that outlives a run |

What makes each correct: the escrow conserves money, pays earned work, lets
backers out in bounded time and gives every deposit back; the client rules offer
what the program accepts and hide nothing it would do; the mirror never records
an outcome the chain did not reach; pages credit only payments and do not forget;
notifications are sent once per transition; a session belongs to whoever signed
the challenge, and the page knows whose it is; an amendment never moves the terms
under delivered work; a name never changes hands; a payment is made once and its
housekeeping never blocks it; a copy that was finished can be restored.

The hazards, each at its line, are in `PROJECT.json`, with the properties that
would catch them going wrong.

## 2. The models

### The escrow

| Module | What it holds |
|---|---|
| `EscrowMath` | `mul_div` and `split_fee` |
| `EscrowState` | constants with their assumptions, the variables, and what every handler reads: `escrow_remaining`, `work_closed`, `claim_protected`, `review_expired`, `workable` (the code's `assert_workable`) |
| `Escrow` | one action per instruction, with a definition for each guard and formula that matters |
| `EscrowProperties` | the type invariant, the safety and the liveness properties |
| `CommissionPot`, `JudgingQueues` | abstract specifications: a pot money goes into and then out of; lines of agents judged from the head |
| `EscrowRefinement` | the refinement mappings from `Escrow` to both |
| `EscrowProofs`, `QueueProofs`, `LedgerProofs` | the theorems about it |
| `SumFacts` | facts about sums that the proofs about money need |

Operators marked SLIP, here and in the other modules, are faulty forms of the
definition after them: the slip a programmer could make there.  The specification
never uses one; `mutants` in `PROJECT.json` says which property each of them
breaks.

**State.**  The model follows one commission.  The fields of the `Commission`
account are variables of the same name; what `create_commission` fixes for good
is the record `terms`.  A `Pledge` account is its amount (0: no account): its
`refunded` field is left out because `refund` closes the account it settles.  A
`Submission` account is a record `[state, sequence, submitted_at]`, `"Empty"`
when it does not exist; the evidence hash is never read by the program and is
left out.  An `Intent` account keeps only whether it was withdrawn.  The vault is
whether the program owns it and how many lamports it has.  `earned`, `returned`
and `fees` record who was paid: the balances of agents, backers and the
treasury.  Milestones are 1-based here and 0-based in the code; the bitmap
`milestones_done` is a set.

**Actions.**  An instruction runs alone, to completion or with no effect, so
each is one action whose guard collects its early returns.  A creator's or an
agent's signature is the choice of the action (`RejectDelivery` is only ever the
creator's); where the signer changes the outcome it is a parameter
(`ReleaseMilestone` and `Cancel` take `byCreator`).  `Tick` is the cluster clock.
`Donate` is anyone sending lamports to the vault's address.

**Widths.**  All arithmetic of the program is checked (`checked_add`, `u128`
products) and `MAX_COMMISSION_LAMPORTS` keeps amounts far below 2^64, so numbers
are unbounded.  `MAX_SUBMISSIONS_PER_MILESTONE` is 32, inside the `u8` counters.

### What clients make of it

| Module | What it holds |
|---|---|
| `ClientRules` | the rules of `shared/escrow.js` over decoded accounts: `availableActions`, `reclaimableRent`, `pendingAttention` and what they share |
| `TxApi` | the builders as lists of accounts with their signer and writable marks; `passes`, the account section and the guard of each of the fourteen instructions about a commission that a client sends; what `GET /api/v1/commissions` says and keeps (`presentCommission`, the filters), and what `POST /api/v1/tx` builds |
| `AgentCli` | `describe`, `materialState`, `scan`, `watch` and `claim` of the command line |
| `ClientPromises` | what these promise of each other and of the program |
| `ClientProofs` | the theorems about them |
| `MCEscrow` | the offers, amounts and symmetry sets of the runs; joins `ClientPromises` and `EscrowRefinement` |

None of these has state of its own: the rules are pure functions of the accounts
and a clock, so the escrow's own state space is what they are checked on.
`Accepts(tx)` is that the transaction `passes`: given that list of accounts the
program would carry the instruction out.  A builder that leaves out an account,
swaps two or misses a signature builds a transaction that passes nowhere.  The
guards in `passes` are the ones the actions of `Escrow` begin with (`may_submit`
of `SubmitDelivery`, and so on), and `EveryStepCanBeAsked` proves that no action
gets past them.  A clock that lags is any time up to the cluster's.

### The mirror, evidence, pages and amendments

These modules extend `Escrow`: the chain moves by its own `Next` (`ChainStep`)
between the steps of the server.

| Module | What it holds |
|---|---|
| `ChainMirror` | `chainCommissions` and what hangs on it: the record of deliveries, inferred outcomes, notices, disputes |
| `MirrorProperties` | its type invariant, what it may never tell, and that verdicts are told in the end |
| `MirrorComments` | statements of the server's comments that it does not keep |
| `Records` | the record of intents made by the same scan, and the directory, profile, activity and reputation pages worked out from both records |
| `EvidenceIndex` | texts recorded against commitments, and the rows `openDatabase` derives from them; extends `ChainMirror` |
| `Amendments` | the words of a commission, read before and written after the server asked the chain |
| `MirrorProofs`, `RecordsProofs` | the theorems about them |
| `MCMirror`, `MCAmend`, `MCServer` | instances and constraints |

**A scan is not a snapshot.**  `Promise.all` sends its account scans as separate
RPC calls.  `StartScan`, `ReadCommissions`, `ReadSubmissions` in either order, and
`FinishScan` are four actions, and the chain may move between any two; what the
calls answered is kept in `value` and `accounts` until `FinishScan` uses it with
the clock of that moment.  From there on the code runs without an `await`, so the
upsert of the record, the inference, the notices and the new cache are one
action.  Its two parameters are whether the write to the record and the write of
the notices succeeded: the code swallows either error.  `FailScan` is a failed
call; `Restart` loses the cache and the scan under way and keeps the database.  An
RPC node is taken to answer with the chain's present state at some moment between
the request and its use.

**The cache.**  A tick is much longer than the five seconds of `CHAIN_CACHE_MS`,
so a scan may start at any time and `CHAIN_CACHE = 1` lets a dispute be decided
on a scan older than the code would serve: the model allows more staleness
than the code, not less.

**The record.**  A row of `delivery_history` keeps the state last seen, the place
in the queue, and, because the upsert never touches the column, the evidence hash
of the first attempt it saw (`evidence`, named by that attempt's place: every
attempt is taken to commit to a text of its own).  A notice carries the attempt
that was judged, which the code does not store; `same_event` compares only what
is in the dedupe key.  `verdicts` and, in `EvidenceIndex`, `attempts` write down
what the chain did and no action reads them, except that a text can only be
proved for an attempt that was made: `PostEvidence` accepts a live commitment or
the committing transaction, hence any attempt at any time.

**The pages** of `Records` are operators, not state: each request works its
answer out from the last finished scan, the two tables and the clock of the
request, as the code does.

**Amendments.**  A request is `Idle`, `Asking` the chain or `Permitted`, and
carries the row it read.  The edit that wrote a field stands for its text.
`ServerStops` drops the requests in flight.

### Services and protocols beside the chain

| Module | What it models | Its processes |
|---|---|---|
| `Sessions` | challenge, verify and logout of the server; `connectWallet`, `authenticate`, `restoreSession`, `reattachProvider` of one page | a page just loaded that waits for its session and for a silent wallet; attempts that wait for challenge, signature and answer; a wallet connected in between; other clients that ask for challenges of the same wallets and repeat what was signed |
| `Backups` | `backup-db.mjs` step by step (snapshot, archive, checksum, retention) and `restore-drill.mjs` | runs that die between two steps, a database that is lost |
| `Settlement` | `simpleAction`, `cleanupInstructions`, `send` and the sweeper | browsers with a bundle or the payment alone in flight; the creator who may refuse; deadlines, a cancellation, cranks; the sweeper's scan and batches |
| `RpcPool` | `rotateRpcPool`, `callWithFailover` | calls that move one pointer; endpoints that answer, fail or forbid the page to ask, and change |
| `Handles` | `ClaimHandle`, `/api/v1/handle`, the scan's copy, the page that claims and records | wallets, a node that lags, a scan under way, the loss of the database with or without a backup |
| `Inbox` | the notification routes; `loadInbox`, `openInbox`, `markInboxRead` | loads that overtake one another, a wallet that changes under them |
| `ServiceProofs` | the theorems about all of these | |
| `MCServer`, `MCClient` | each joins several of these in one specification | `focus` says which of them moves; the others rest |

These share no state, so `MCServer` and `MCClient` let one of them move from each
initial state; the product would only multiply their states.  `Settlement` has an
escrow of its own, cut down to its end: one milestone left, one delivery (`Due`)
before the creator, others already refused or beaten (`Judged`).  It keeps the
status, which deadlines have passed, whether `Due` was refused, how often the
money of each pledge left the vault, and which accounts are open.  The guards of
`release_milestone`, `refund`, `cancel`, `reject_delivery` and of the four closes
are translated from the program again; the rest of the queue and the amounts are
left out.  `restoreSession` asks for the session and goes on when the answer
comes: `PageLoads`, `restoreSession` and `SilentReattach` are its three parts,
and the page's handlers run between them.

## 3. What is checked

`TypeOK` is the escrow's one type invariant; `MirrorTypeOK` and the typing parts
of the other inductive invariants are theorems.  Deadlock is checked in every run
but `server`, `client` and `lost_names`, whose protocols may come to rest: no
more edits, runs or losses are left, or everybody has what they asked for.  In
the others the clock or the board always has a step left to take.

### The escrow and its clients

These runs use `MCEscrow`.  Clocks are small numbers of ticks, with every window
at least one tick and the clock running past the end of all of them; amounts are
real lamports around the 10000-lamport minimum so that flooring, dust and the
minimum fee all happen.

| Run | Instance | What it shows |
|---|---|---|
| `money` (581 108 states) | 3 backers, 1 agent, 2 milestones split 1/9999 or 6000/4000, pledges of 3400 and 6601 that do not divide evenly | `VaultBacked`, `Conservation`, `FeeOncePerLamport`, `NoStrandedEscrow`, `RefundWithinDust`, `WorstCaseHold`, and `ImplementsPot` |
| `queue` (673 663) | 1 backer, 2 agents, 2 milestones, 2 deliveries per milestone | `EarnedClaimPayable`, `UnresolvedExact`, `ClaimDurable`, `ExitsWaitForClaims`, and `SilenceAnnounced` of the client rules |
| `race` (36 498) | 3 agents, 1 milestone, 4 deliveries: every agent may come, one may be refused and come again; two offers the program takes, and seven the API refuses, completes or builds past the cap | `QueueIntact`, `FirstDeliveredFirstJudged`, `ImplementsQueues`; `OffersHonoured` of the rules, the builders, the API and the CLI; `NewsIsMaterial` of the CLI |
| `live` (113 949) | 2 backers, 1 agent; intents, invitations, pause switch, donations, and offers that `create_commission` must refuse; under `FairSpec` | `TypeOK`, `IntentRecordKept`, `NothingHidden` of the client rules, `EscrowDrains`, `DepositsReclaimed` |

`money`, `queue` and `race` use `QuietSpec`, the steps that keep `QuietBoard`,
which leaves out intents, invitations and the pause switch: none of them moves a
lamport or a place in a queue, an invitation or a pause only forbids steps, and
`live` runs without it.  Symmetry over backers and agents is used for safety only; `live`
has none.  Bounds: `MaxTime` caps the clock, `MaxDonation` what strangers send;
they are constants and appear in the guards of `Tick` and `Donate`.  The limits
of the program itself (`MAX_MILESTONES`, `MAX_SUBMISSIONS_PER_MILESTONE`, the
windows) are constants given small values.  In `race` the clock stops at 7, one
tick after the exits have opened for the latest possible delivery.

Three backers are what it takes for a release to fall between two refunds with
a third still to come, the case the clamp in `refund` was written for.  Two
milestones are what it takes for a first slice to round before the last takes
the rest.  Three agents with four deliveries give a queue with somebody in front
of, at and behind the resubmission; and where the oldest unjudged delivery is not
the front of the queue, which is where `nextToJudge` could name the wrong one.

`WorstCaseHold` is the bound on how long anybody waits: with all four windows of
a commission run out, every live pledge can be refunded or closed, every
submission and intent account closed, and after the last pledge the vault.

`OffersHonoured` speaks of an exit, a payment or a deposit offered by any clock
not ahead of the cluster's, because those only open with time, and of rejections
and invitations offered by the right one, because those close.  Its premises
(`vault_owned`, a live pledge, `refunded = 0`) are the cases in which the rules
are known to offer more than the program gives; they are named below.  One more
was found by proving it: `openForWork` of a page is not about a wallet, and the
creator's own wallet may be one of the agents', for which the program refuses to
work whatever the page says; the runs keep the two apart, and the premise is
`w \in Agents \ {Creator}`.  Its parts
are `RulesHonoured`, `PagesHonoured`, `CliHonoured` and, before there is a
commission, `PostingHonoured`.

**Fairness.**  `FairSpec` asks of the world what the code's permissionless
design counts on and no more: the clock ticks; each backer keeps trying to
refund or close; somebody keeps trying the cranks (`Cancel` after expiry,
`CloseVault`, `CloseIntent`, `CloseSubmission`), as `scripts/sweep-deposits.mjs`
and the settlement bundle of the client do.  Nothing is asked of the creator or
of the agents, and none of the actions that delay an exit is bounded other than
by the program's own clocks.  Weak fairness is enough: once the windows are past
an exit stays open until it is taken.

### The server

| Run | Instance | What it shows |
|---|---|---|
| `mirror` (831 468 states) | `MCMirror`: 2 agents, 1 milestone, 2 deliveries | `PaidNoticeTrue`, `RefusedNoticeTrue`, `FrontNoticeTrue` |
| `mirror_live` (329 216) | `MCMirror`: 1 agent refused and delivering again, disputes; under `FairMirrorSpec` | `DisputesGrounded`, `PaidVerdictStands`, `VerdictReachesAgent` |
| `server` (905 125) | `MCServer`: evidence, records, amendments, sign-in or backups, by `focus` | `CompleteBackfillExact`, `CreditsArePayments`, `HistoryStays`, `AmendmentsKeepFaith`, `SignInSound`, `BackupsHold` |

One commission with one milestone is enough: rows, keys and queues of two
milestones share nothing.  Two deliveries are what a torn or missed refusal and a
resubmission need.  The constraint `QuietChain` leaves out invitations, the pause
and the settling of backers, none of which the mirror, the pages or the
amendments read, and intents except where the pages are about them; `NoDisputes`
leaves disputes to the run about them.

In `server` each protocol has its own bounds.  `WindowOfFocus` gives it the
shortest commission its cases fit in.  For evidence `Unseen` keeps scans out, so
that every row comes from a text, with three deliveries of two agents; for
amendments there is one request and `MaxEdits` = 4 wordings, since a second
request in flight loses one (run `lost_wording`).  For the pages `OnTheRecord`
stops once two attempts, or an attempt and an intent of one agent, are made and
the work is closed; scans, failed writes and restarts are as many as like.  For
sign-in there are two wallets, two attempts of one page, `MaxChallenges` = 2 and
a clock up to `SignInHorizon`, past the life of a nonce (1) and up to that of a
session (2).  For backups three runs (`MaxRuns`) with two copies kept (`KEEP`)
are what it takes for retention to remove one, and two rows (`MaxRows`) tell a
new copy from an old one.  `Agents` and the accounts of sign-in are symmetry sets;
no liveness is checked here.

That the notices stay true is not obvious: outcomes are inferred from counters
and places read at different moments, and it is the monotony of the counters that
keeps a wrong mix from saying anything false.  A torn read can say less than
happened, and some of the counterexamples below are that.

`VerdictReachesAgent` is about each attempt: an agent whose row names the attempt
that was judged is told of that very verdict, a payment whatever was told before.
A refusal is the exception the code makes: its key names no attempt, so once one
refusal on the milestone was told there is no second.

`FairMirrorSpec` asks that readers keep polling, that reads are answered, that a
scan both of whose writes succeed happens again and again if it could, and that
RPC failures and restarts stop at some time; failed database writes may go on
among the good ones.  Under the constraint the run covers the behaviours in which
backers stay, which disables none of the mirror's steps.

### The browser and the scripts

| Run | Instance | What it shows |
|---|---|---|
| `client` (342 231 states) | `MCClient`: settlement, RPC pool, names or inbox, by `focus` | `PaidOnce`, `NeverBlockedByHousekeeping`, `DepositsSwept`, `LiveNodeFound`, `NameNeverInherited`, `NoticesAreListed` |

The commission starts past its funding deadline, with one pledge, the vault, the
delivery before the creator and one that was beaten on another milestone and so
still counts as unjudged.  The creator's browser releases and the backer's
refunds, with the work deadline, the review window and the grace period still to
run out, so that a cancellation, a refusal, a refund, a crank and the sweep can
each come before, between and after the copies of a payment.  Up to three closes
go into a bundle (`BUNDLE_CAP`) and two into a sweep's batch (`SWEEP_BATCH`), so
that a close can be stale in either.  That anybody may collect what matured is
left to the theorems, which hold for any `MaySign`.

Two calls share a pool of three endpoints (`POOL`), which is where a pointer moved
by the other call makes a round end early; an endpoint fails (a transient error)
or forbids (any other).  Two wallets claim two names, and the database is lost
once (`MaxLosses`).  Two people, three notices and a list one notice long
(`LIST_LIMIT`) give a notice that falls off the list; one load and one mark may be
under way while the wallet changes.  There is no symmetry.

**Fairness** (`ClientFairness`).  The sweeper is started again and again by its
operator and finishes its batches: weak fairness of `SweepScan` and `SweepBatch`.
An RPC call that was begun gets an answer or an error: weak fairness of
`CallEnds`.  A list that was asked for again and again is served and answered
some of the time: strong fairness of `LoadServed` and `LoadAnswered`, as any one
request may fail.  Nothing makes a page call or load: `app.js` loads the inbox
only with a refresh of the board (at boot, after the wallet's own actions, and
when an unknown commission is pushed), so `LiveNodeFound` and `NoticesAreListed`
speak only of a page that calls, or refreshes, again and again.  `lost_names`
runs under `HandleFairness`: nodes catch up, and scans read and write.  No user
is asked to do anything.

### What the code does not keep

Four runs end in a counterexample, each against a sentence of the source
(`findings` in `PROJECT.json` quotes them):

- `lost_payment`: the upsert leaves a row alone when the state it sees is the one
  on record.  Refused, delivered again and paid between two scans, an agent's row
  keeps the place of the refused attempt, and the payment reads as a refusal.
- `refused_text`: the row keeps the hash of the first attempt and takes the state
  of the last, so a refused text is shown as released.
- `lost_wording`: the row is read and the chain asked before an `await`, and the
  row is archived and overwritten after it.  With a second request of the creator
  in flight one wording is archived twice and the one between them nowhere.
- `lost_names`: after the database is lost the scan refills `handle_claims`, which
  decides who may record a name, but not `handles`, which every page reads: names
  stay unshown until each wallet saves its own again.

### Divergences met while modelling

These were met while translating or with TLC; the statements are not kept as
runs here.

Of the program:

- Refunds open at the funding deadline even on a funded commission, so an agent's
  delivery is accepted after backers took money out; `cancel` opens at the earlier
  of two clocks past which "no further progress is possible", but work and
  payments go on past the first.
- The comment on the field `review_window` starts the review at the front of the
  queue; the code, and the comment on `review_expired`, start it at submission, so
  a queued delivery can mature before the creator may judge it.
- `close_submission` may remove a delivery that could still be paid, once the
  work is closed and the grace period after the last delivery over, and the
  sweeper does so unasked.  The browser's "Money must never be blocked by
  housekeeping" (1348) does not hold there: bundle and lone payment are both
  refused.  `NeverBlockedByHousekeeping` names that one case (`lapsed`).
- A delivery beaten on its milestone counts as unjudged until its account is
  closed, and so keeps exits waiting.
- `release_milestone` does not look at the status; a cancelled commission can pay
  its last milestone and become `Delivered`.

Of the client rules, the API and the CLI:

- `availableActions` offers the creator a release after the work deadline before
  the review matured, a pledge while the board is paused, `closePledge` to wallets
  that never pledged, and `closeVault` for a vault already closed.
- `presentCommission` calls it without the submissions (`server.js:842`), so the
  API never offers what hangs on a delivery, and `actionable=true` leaves out a
  commission whose only move is to judge one, collect it or close its account.
- `openOnly=true` leaves out a funded commission whose funding deadline has passed,
  although work on it is open (869).  `create-commission` does not know the
  program's cap on a goal (906): it builds a transaction that will be refused.
- `blocksExitUntil` is worked out per delivery shown (786), the program's clock from
  the last delivery ever made: with two milestones an exit may open later than any
  delivery on the page says.  Two endpoints cannot build their
  transaction: `release-milestone` reads an accepted agent the decoded account does
  not have (982), and `reject-delivery` passes neither agent nor milestone (1002).
- `openForWork` is true of a commission for its own creator as well, whom the
  program lets neither sign up nor deliver.
- `pendingAttention` shows the deadline of the first milestone in review, and
  "queued" for deliveries whose milestone somebody else won.
- After a partial refund the completing release pays what is left, while the pages
  and `milestonePayout` (600) go on naming the whole slice.  `feePolicy` says
  "successful_releases_only" (875); a refund after a delivery carries a fee too
  (125).
- `watch` drops a commission that is no longer relevant without a word, and a
  refusal and resubmission between two polls is no news.  `claim` without an index
  takes the first front.  The treasury address written into the CLI is not the one
  of the server.

Of the mirror and the pages:

- The key of a refusal does not name the attempt, so a second refusal on one
  milestone is not told.
- When the write to the record fails, a payment told from a live account can be
  followed by a refusal read from the older record, and live deliveries are hidden
  from the pages until a write succeeds.
- A delivery refused during the scan is announced as claimable, because old
  accounts are judged by a new clock.
- Ranks among the recorded texts are places in the queue only if every delivery
  was recorded: `CompleteBackfillExact` has that as its premise.
- A delivery can land between an amendment's check of the chain and its write:
  `AmendmentsKeepFaith` says what is kept of "nobody can be judged against terms
  that appeared after they delivered".
- The activity page calls an intent abandoned once the commission is shipped,
  refunded or closed, the reputation page only once the work is closed; the first
  counts beaten deliveries as judged in its win rate, the second does not.  An
  intent withdrawn after a delivery may count as honoured and as withdrawn.  A
  delivery made and swept between two scans reads as an abandoned intent.
- At the work deadline a page may be answered from a scan made before it (1630).
  `distinctAgents` counts only agents whose accounts were not swept (1612).

Of the browser:

- `simpleAction` sends the payment alone after any failure of the bundle, the
  user's refusal to sign and the poll's 60 seconds included; the program makes the
  second copy harmless (`PaidOnce`).  The bundle of the last refund always fails: it
  closes the pledge that `refund` has just closed.
- `restoreSession` does not compare the session's wallet with the one MetaMask
  reconnects (257); a logout that failed leaves the old cookie (176).  The answer
  to its question may come after the user signed in by another wallet, and is then
  written over that sign-in (255): `SignInSound` speaks of the other cases.
- `callWithFailover` measures its round by a pointer other calls move, and may give
  up before every endpoint was tried (293).  An error it does not take for
  transient, a 403 or a 429 whose status the error object does not carry, is thrown
  at once and leaves the pointer at that endpoint (291), although endpoints that
  refuse browsers are named as "exactly the point of having four" (53-55):
  `LiveNodeFound` says what is kept.
- The inbox has no timer: a notice waits for the next refresh of the board
  (435-441).  Opening the list marks read on the server what the page has never
  shown as well; those rows are listed, but as read ones.
- `state.inbox` stays on the page when the wallet changes; a reserved name can be
  claimed, and paid for, on chain and never recorded.

Of the scripts:

- `backup-db.mjs` never fills `mismatches` (83): only an empty copy of a full table
  is refused, and after a loss an empty database is backed up as good.  A plain
  copy that was never zipped is not removed.  The drill stops at a truncated
  newest copy without a receipt.
- `healthcheck.mjs` says it restarts only on faults of the service (95-97), but
  failing RPC nodes and an empty board are fatal as well (61-64).
- The sweeper never closes a vault.

## 4. What is proved

TLAPS checks every theorem below for all values of the constants that satisfy the
assumptions of `EscrowMath` and `EscrowState`: a fee between 0 and the whole,
windows with their default inside their range, finite sets of parties, offers of
numbers and schedules, and an agent that is not the marker for "no invitation".
The parties, milestones, deliveries, amounts and clocks are as many and as large
as like.  The modules of the other protocols assume as little: that what marks
"nobody" or "no name" is none of the wallets or names (`HandleAssumption`,
`SignInAssumption`), that the vault, the pledges, the deliveries and the intents
are different accounts (`SettlementAssumption`), and that limits, lives and what a
backup run keeps are naturals, positive where the code's are (`BackupAssumption`,
`CacheAssumption`, `EditAssumption`, `PoolAssumption`, `InboxAssumption`).
Two theorems have a hypothesis of their own: `AmendmentsAreFaithful` that one
request of the creator is in flight at a time, and `LoneCallFindsLiveNode` that
calls come one at a time and that some endpoint answers throughout; endpoints that
forbid are not ruled out by it, the theorem says what they do.

### The escrow

| Module | Theorem | Statement |
|---|---|---|
| `EscrowProofs` | `TypeCorrect` | `Spec => []TypeOK` |
| | `VaultAlwaysBacked` | `Spec => []VaultBacked` |
| | `NothingStranded` | `Spec => []NoStrandedEscrow` |
| | `PledgesComeFirst` | `Spec => NoPledgeAfterExit` |
| | `EscrowImplementsPot` | `Spec => ImplementsPot`, the refinement of `CommissionPot` |
| `QueueProofs` | `CounterIsExact` | `Spec => []UnresolvedExact` |
| | `LineIsIntact` | `Spec => []QueueIntact` |
| | `FirstDeliveredIsJudged` | `Spec => FirstDeliveredFirstJudged` |
| | `ClaimIsDurable` | `Spec => ClaimDurable` |
| | `ExitsWait` | `Spec => ExitsWaitForClaims` |
| | `EscrowImplementsQueues` | `Spec => ImplementsQueues`, the refinement of `JudgingQueues` |
| `LedgerProofs` | `HoldIsBounded` | `Spec => []WorstCaseHold` |
| | `FeesAreBounded` | `Spec => []FeeOncePerLamport` |
| | `IntentsAreKept` | `Spec => []IntentRecordKept` |
| | `NothingLostInFees` | `Spec => []Conservation` |
| | `RefundsWithinDust` | `Spec => RefundWithinDust` |
| | `SilencePays` | `Spec => []EarnedClaimPayable` |

`TypeOK` is not inductive: that `released + refunded` never passes
`total_pledged` is what keeps the subtractions of the code above zero, and that
a share is no larger than its pool is what bounds a refund.  `Bookkeeping` adds
these, and that only a funded commission has deliveries against it.  `MoneyInv`
then carries the money: the pledge accounts alive are exactly the ones not yet
counted as settled (so the last refund is the last), a commission that still
takes pledges has paid nothing (so no pledge joins a pool that was divided), and
a vault given back had nobody left to serve.  `StepMoneyInv` has one step per
instruction that touches a balance or the status; all others follow from
`QuietMoneyInv`.

`QueueInv` is about the line.  A delivery takes the place at the end and only the
place at the counter of rejections is judged, so what waits lies between the two
counters (`InLine`), one to a place and in the order of the clocks (`InOrder`).
`NoGaps`, that every place between the counters is taken, is what makes a front
reachable, and it does not hold for good: `close_submission` takes a delivery out
of the middle.  It does so only once the work is closed and nothing is protected,
and exits that have opened with the work closed do not close again
(`ProtectionFades`, `JudgingEnds`), so `NoGaps` is kept while the milestone is
`judgeable`.  `NextLine` reduces the program to the four instructions that touch
the line; three of them take somebody out and share `LeaveQueueInv`.

The refinement of `JudgingQueues` reads a list off two counters: an agent's
position is its `rank`, one more than the number that wait at lower places, and
`ListedByRank` says that the mapping's list is the one those ranks make.  A new
delivery has the highest place, hence the last rank; whoever leaves moves those
behind it up by one; a release at the front empties the list.  `PaidPassed`, that
nobody waits at the place that was paid, is the part `QueueInv` does not give.

`ClockInv` ties the last delivery to the work deadline and that to the terms, from
which the four windows bound how long anybody is held; that a delivery waits only
where the work clock was started is what lets the accounts of a commission that
never met its goal be closed as well.  `FeeInv` multiplies out the floor of
`split_fee`; `IntentInv` counts the intent accounts.

The sums need more than arithmetic, because `SumFunction` is a fold the library
defines by recursion.  `SumFacts` proves what is used of it, that terms can be
added in any order, that changing one changes the sum by as much, and that fewer
terms of naturals add up to less, by an induction over the subsets of a set
stated without an operator parameter (`EverySubset`): the sets for which the fact
holds form a set, and that set contains them all.  `Conservation` is then kept by
one term of one sum in each of the two paying instructions.

`ShareInv` is the invariant behind `RefundWithinDust`: what is left, times the
pledges, is at most what the standing pledges claim of the pool plus one lamport
for each refund made, so flooring can be behind by the number of refunds and no
more.  `ScheduleInv` is the one behind
`EarnedClaimPayable`: until the last milestone sweeps, what was released is within
the slices paid, so the slice of an unpaid milestone is still there
(`SliceIsLeft`).

### The client rules, the API and the CLI

| Module | Theorem | Statement |
|---|---|---|
| `ClientProofs` | `SilenceIsAnnounced` | `Spec => []SilenceAnnounced` |
| | `NoNewsLeftOut` | `Spec => NewsIsMaterial` |
| | `OffersPassGuards` | `Spec => []OffersMeetGuards` |
| | `GuardsPassToOffers` | `Spec => []GuardsAreOffered` |
| | `PagesShowGuards` | `Spec => []PagesMeetGuards` |
| | `PostingAgrees` | `Spec => []PostingMeetsGuards` |
| | `BuildersAgree` | in any state, a built transaction is carried out just when the guard holds for the wallet and the record it was built for |
| | `EveryStepCanBeAsked` | `Spec => [][StepsAsked]_vars`: every step about a commission is one a builder asks for |
| | `OffersAreHonoured` | `Spec => []OffersHonoured` |
| | `NothingIsHidden` | `Spec => []NothingHidden` |
| | `WayOutIsOffered` | `Spec => []WayOutOpen` |

The argument has two halves that meet in the guards.  From the page to the guard:
`OffersPassGuards`, `GuardsPassToOffers`, `PagesShowGuards` and `PostingAgrees` say
what an offer, a page or a claim means for the guard of its instruction and for the
vault.  `OfferInv` collects what they rest on: the rules read a copy of the
commission, so the two sides differ only in the clock, and an exit offered by a
clock that lags was not open later than the cluster's (`OfferedWhen`); `WorkLeft`,
that a funded commission has a milestone left, is why the rule that asks for one
hides no work.  From the guard to the transaction: `BuildersAgree` goes through the
fourteen account sections, one lemma each (`PledgeAsks`, `RefundAsks`, ...).
Addresses are derived from different things and never meet (`AddressesDiffer`), so
the accounts a builder lists pick out one wallet and one record in the handler.
`asks` is what the API may not change of what was built; its fee payer's marks only
add a signature (`PostedAsks`).

`OffersAreHonoured` and `NothingIsHidden` put the halves together.
`EveryStepCanBeAsked` says that `passes` asks no more than the action does; that
the action asks no more than its guard is read off `Escrow`, where everything after
the guard (and what the vault must hold) is an assignment.
`WayOutIsOffered` joins them to `HoldIsBounded`: after the four windows each backer
is offered a refund or the closing of its pledge, each agent the closing of its
submissions, anyone the vault or the cancellation before it, and the transaction
built for that is carried out.

`NewsIsMaterial` compares two digests over a step.  `FrontIsEntry` and
`VerdictIsEntry` say which entry of the digest stands for a claim that can be
collected and for a verdict; `PaymentOnlyFades` says that a payment that was
possible all along became so by a change of the entry, not of the vault.

### The mirror and the pages

`MirrorProofs` carries the queue to the server, for any number of agents, deliveries
and scans, whichever of its calls and writes fail; `RecordsProofs` goes on from
there.

| Module | Theorem | Statement |
|---|---|---|
| `MirrorProofs` | `MirrorTypeCorrect` | `MirrorSpec => [](TypeInv /\ MirrorTypeOK)` |
| | `RowsAlwaysObserved` | `MirrorSpec => []RowsObserved` |
| | `PaidNoticesTrue` | `MirrorSpec => []PaidNoticeTrue` |
| | `RefusedNoticesTrue` | `MirrorSpec => []RefusedNoticeTrue` |
| | `FrontNoticesTrue` | `MirrorSpec => []FrontNoticeTrue` |
| | `DisputesAlwaysGrounded` | `MirrorSpec => []DisputesGrounded` |
| `RecordsProofs` | `PaidStands` | `MirrorSpec => PaidVerdictStands` |
| | `CreditsEarned` | `RecordsSpec => []CreditsArePayments` |
| | `HistoryNeverEmpties` | `RecordsSpec => HistoryStays` |
| | `BackfillIsExact` | `EvidenceSpec => CompleteBackfillExact` |
| | `EditsSpareDeliveries` | no edit is written under a delivery that waited when the chain was asked, however many requests are in flight |
| | `AmendmentsAreFaithful` | `AmendSpec => AmendmentsKeepFaith`, for one request in flight |

None of the first group is inductive, because the server infers an outcome by
comparing a place and a counter it learnt at different moments.  `MirrorInv` says
why that is safe.  `Places` is about the chain: a place in a queue is handed out
once, so it names one agent wherever a copy of it is kept (`OneOwner`; `keeps`
ranges over the accounts, the scan in flight, the cache and the table); every
place below the counter of rejections was refused, and the place at the counter of
a paid milestone was the one paid.  `behind` is about time: a counter once read is
never ahead of the chain's, and is exact where the milestone was paid, since
nothing is refused after that.  `OutcomeTrue` draws the conclusion, and `NextQueue`
reduces the program's instructions to the four that move a place.  What a stale
row can still get wrong (`OutcomeDeterminedByCounters`, run `lost_payment`) is an
attempt it no longer names, which these theorems do not speak of.

What is said is not taken back because of `FinalInv`.  `Rulings`: a payment is the
last ruling on a milestone, goes to one agent, and leaves that agent no other
account.  `Older`: a row is about no later an attempt than an account seen beside
it, so a row in the table is never ahead of the scan that is to change it.
`Follows`: a scan that begins after one which showed a payment has read nothing
from before it.

`EvidenceInv` numbers the attempts at a milestone without gaps and in the order of
the clock (`Numbered`).  So where all are recorded and only the clock tells them
apart, as many are recorded before one of them as there are places before its own,
which is what the backfill counts.  `AmendInv` says of a permitted edit that what
has arrived since the chain was asked is counted (`NothingWaited`); that the row is
still the one that was read (`ReadIsCurrent`) needs that no second edit came
between, and with two in flight it fails, as `lost_wording` shows.

### The protocols beside the chain

For any number of wallets, names, browsers, attempts, runs and losses:

| Module | Theorem | Statement |
|---|---|---|
| `ServiceProofs` | `HandleInvariant` | `HandleSpec => [](HandleInv /\ HandleTypeOK)` |
| | `NamesAreForLife` | `HandleSpec => []NameNeverInherited` |
| | `ClaimsCanBeRecorded` | `HandleSpec => []RecordNeverClashes` |
| | `OnePayment` | `SettlementSpec => []PaidOnce` |
| | `NeverBlocked` | `SettlementSpec => NeverBlockedByHousekeeping` |
| | `SignInIsSound` | `SignInSpec => []SignInSound` |
| | `BackupsAlwaysHold` | `BackupSpec => []BackupsHold` |
| | `LoneCallFindsLiveNode` | while some endpoint answers throughout, a call that is alone ends answered, or thrown by an endpoint that forbids |
| | `ListsAreOneWallets` | `InboxSpec => []ListIsOneWallets`: no list of notifications mixes two wallets, no event has two rows |

`HandleInv`: claims only grow, and every row about a name, wherever it is kept (a
node that lags, a scan under way, either table, a backup), is part of them.
`SettlementInv`: each pledge is paid or
still part of what remains, an account is gone only where that allows it
(`true_to_money`), and the grace period does not end before the review
(`MoneyOK`).  `PaymentSound` and `ClosesSound` go through the payments and the
closes; `RefusedAlone` draws from it that whatever refuses a payment that comes
alone, a guard of its handler or an account that is gone, has one of the reasons
`beyond_housekeeping` lists.  `SignInInv`: a nonce belongs to
one wallet and is spent once it opened a session, so the session an attempt gets
back is the one for what it signed; `PageKnows` keeps that beside the cookie
through connecting, a late answer and a second attempt, and `BootRight` for the
question a page asks when it is loaded.  `BackupInv`: nothing in
the directory is of a run that has not started, a run has one archive with what it
copied, and `UnderWay` says at each stage what the run has left there, so that a
run that dies leaves either a whole archive or one no checksum speaks of.
`LoneCall`: alone, a call has asked just the endpoints between the one it began
with and the one it is at, so it is not past the one that answers, and a round
that comes to its end would have had to pass it.  `InboxInv`:
rows stay, so a list asked for one wallet is that wallet's however late it comes;
the page may show another wallet's list for a while, never a blend of two.

### What stays with the model checker

- Liveness (`EscrowDrains`, `DepositsReclaimed`, `VerdictReachesAgent`,
  `DepositsSwept`, `LiveNodeFound`, `NoticesAreListed`): what must happen under
  fairness is out of the prover's reach.
- That calls which move the pool's pointer under one another find a live endpoint
  in the end: it is liveness (`LiveNodeFound`), and safety holds only of a call
  that is alone.
- The four properties of the runs that end in a counterexample, which do not hold.

## 5. Not modelled

- Of the program: account layouts, PDA derivation and deserialisation; the account
  sections of `InitConfig` and `SetPaused`, which only the administrator sends;
  several commissions at once (they
  share nothing but `Config` and the treasury's balance); transaction fees and
  rents other than the vault's; the upgrade authority.
- Of the rules: byte encodings and `verifySubmitTransaction`, which work on bytes
  and are pinned by the contract test.
- Of the server: the creator's answer to a dispute (a column nobody decides on),
  the rate limiter and the RPC proxy (each serves one request by itself), schema
  migrations, RPC nodes that answer a scan from an older state than an earlier one,
  two servers on one database.  In the evidence index, the check of the hash itself
  and two attempts with the same text.
- Of the browser: rendering, dialogs, and the order in which refreshes, pushed
  updates and pinned reads replace the board (`app.js:437`): the next change
  corrects the board, and every transaction is simulated before it is sent.
- Of the CLI: posting and delivering, each a sequence of modelled operations, and
  the key file.
- `healthcheck.mjs`, the preflight, multisig and verification scripts, and
  deployment: one pass each, with no state that outlives it.  The test suites were
  read as documentation.

## 6. Plan

Done: the escrow, its two abstractions and theorems; the client rules, builders,
API and CLI against it; the mirror, its notices, records and pages; evidence;
amendments; sign-in; backups; settlement and sweep; the RPC pool; names; the
inbox; and a theorem for every safety and action property of the passing runs.
What could follow:

1. The board of the page: refreshes, pushed updates and pinned reads.
2. The account sections of `InitConfig` and `SetPaused`, and several commissions
   that share a treasury.
3. The rate limiter and the proxy's pass over its upstreams, where two requests of
   one address meet.
