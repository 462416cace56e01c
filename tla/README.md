# self_otp in TLA+

The repository is a WhatsApp OTP service: a Fastify API, BullMQ workers, PostgreSQL through
Prisma, and Redis. This directory models the parts of it where concurrent requests, retries and
failures meet: the credit wallet, the refresh-token sessions, sending and verifying codes, the
delivery of messages with its refunds, delivery receipts, accounts with their applications and keys,
and the second implementation of the service as Supabase edge functions.

All source paths below are relative to `src/` at the root of the repository, so that
`src/modules/wallet/wallet.service.ts` is the file `src/src/modules/wallet/wallet.service.ts` of the
checkout.

## Inventory

| Component | Code | State it keeps | Operations | Correct when |
|---|---|---|---|---|
| Wallet service | `modules/wallet/wallet.service.ts` | rows of `wallets`, `wallet_transactions` | create on first use, debit, refund, top-up, read | no overdraft, no lost update, one refund per stored reference, in the ledger when it is answered |
| Refresh tokens | `modules/auth/refresh-token.service.ts`, `auth.routes.ts` | rows of `refresh_tokens` | login, rotate, logout, logout everywhere | one usable token per session, linear lineage, a revocation answered when it is complete, an ended session stays ended |
| OTP verification | `modules/otp/otp.service.ts`, `middleware/rate-limit.ts` | Redis entry, block and cooldown of a number; `otp_requests.status/attempts` | store, verify, block, cooldown | attempts are counted up to the maximum, a used or exhausted code is dead afterwards, as far as verifications do not overlap |
| OTP send and resend | `modules/otp/otp.routes.ts` | rows of `otp_requests`, `idempotency_keys` | admit, debit, issue, queue or send directly | a repeated key costs nothing, no message unpaid, a message given up is refunded |
| Delivery worker | `queues/queue.ts`, `queues/workers/otp.worker.ts` | BullMQ jobs, `messages`, `message_events`, `otp_requests.status`, dead letters | send, record, retry, refund, give up | status, refund, dead letter and job agree; every job ends |
| Webhooks | `modules/webhooks/webhooks.routes.ts`, `queues/workers/webhook.worker.ts` | `webhook_events`, `messages.status`, `message_events`, `otp_requests.status` | ingest, apply a receipt | a receipt is recorded and applied once, and overwrites no verification that it could have seen |
| Rate limiter | `middleware/rate-limit.ts` | Redis sorted sets, memory of a process | count, block | the limit holds in each store: in Redis, and in each process while Redis is down |
| Idempotency | `middleware/idempotency.ts` | Redis, memory, `idempotency_keys` | look up, save | a repetition of what was answered has no second effect while the table works |
| Registration, API keys, applications, account, authentication | `modules/*`, `plugins/auth.ts` | users, customers, applications, API keys | create, revoke, rotate, delete | a revoked key or deleted application admits nothing |
| Edge functions | `supabase/functions/*` (beside the server) | the same tables, by stored procedures | send, verify, resend, ingest | no message unpaid, bounded guesses, refunds only of failures |
| Shell | `app.ts`, `server.ts`, `config`, `plugins`, `common` | none of their own | wiring, errors, logging | |

How they interact: `/send` and `/resend` debit the wallet, write the Redis entry of the code and add
a job; the delivery worker takes the job, calls the provider and either marks the request or refunds
it through the wallet service; `/verify` reads the Redis entry and marks the request; receipts of the
provider arrive as webhooks, are stored, queued and applied to messages and requests. The parts share
`otp_requests.status` and the wallet; everything else reaches them by queues and by Redis keys.
The API and the workers run as several processes (`docker-compose.yml`), so every two statements with
an `await` between them may be interleaved with any others.

What is hard to test here is listed, line by line, under `hazards` in `PROJECT.json`: lost updates
and duplicate refunds under concurrent transactions, UPDATEs that do not see a concurrent INSERT,
read-modify-write sequences over Redis, and jobs that are executed again after a lost answer, a lost
process or a lost lock.

## Modules

| Module | What it is |
|---|---|
| `WalletData` | requests, ledger rows and the pure parts of the three balance-changing operations |
| `WalletLedger` | what the wallet service promises: every call takes effect in one atomic step |
| `Wallet` | the service as concurrent READ COMMITTED transactions with row locks |
| `WalletProofs` | its theorems, and that `Wallet` implements `WalletLedger` |
| `RefreshTokens`, `RefreshTokensProofs` | rotation, reuse detection and logout on the `refresh_tokens` table; the theorems |
| `OtpVerification`, `OtpVerificationProofs` | the entry of one phone number, in Redis or the memory of a node, under send, resend and verify; the theorems |
| `OtpSend`, `OtpSendProofs` | `/send` and `/resend` as a whole: idempotency, limit, cooldown, debit, dispatch, refund; the theorems |
| `OtpDelivery`, `OtpDeliveryProofs` | the delivery queue and `processSendOtpJob` with retries, stalls, crashes and refunds; the theorems |
| `Webhooks`, `WebhooksProofs` | ingestion and processing of delivery receipts, with the other writers of `otp_requests.status`; the theorems |
| `Tenancy`, `TenancyProofs` | registration, applications, API keys, and requests authenticated by a key; the theorems |
| `EdgeOtp`, `EdgeOtpProofs` | the edge functions (send, verify, resend, receipts) with their stored procedures; the theorems |
| `MC*` | instances for TLC |

The modules about one request divide the work: what a job does in several attempts in `OtpDelivery` is in
`OtpSend` only that it sends, gives up, refunds, is tried again or is lost (`JobSent`, `JobFailed`,
`JobRefund`, `JobRetried`, `JobLost`); what `WalletProofs` says of a debit or a refund is one step of
`OtpSend`, `OtpDelivery` and `Tenancy`; the code that `OtpSend` stores is the subject of `OtpVerification`;
and what the worker, the direct dispatch and the verification write to the status appears beside the
receipts in `Webhooks`.

### Wallet

A call of the service is a process whose program counter stands before its next statement
(`find`, `create`, `lock`, `check`, `apply`). `FindWallet` is the `findUnique` of
`getOrCreateWallet`, `CreateWallet`/`CreateConflict` its `create`, `LockWallet` the
`SELECT ... FOR UPDATE`, `RefundDuplicate`/`RefundFresh` the idempotency check, `Refuse` the 402, and
`Commit` the UPDATE, the INSERT of the ledger row and the COMMIT together: a READ COMMITTED
transaction shows nothing before its commit, and nobody else can touch the locked row. `Abort` is a
timeout of Prisma or a lost process, at any of these points. `owner` stands for both reasons to wait
for a wallet row, the lock and the uncommitted row of another INSERT. `getBalance` and
`listTransactions` use the plain client (`CreateAndRead`).

Amounts are natural numbers, the unit being the 0.0001 credits to which the code rounds. A
reference is stored as itself if it is a UUID, and as NULL otherwise (`StoredRef`), as
`toValidUuidOrNull` does; every reference that the code itself passes begins with `req_` and becomes NULL.

### Refresh tokens

Rotation is a transaction that holds the row of the presented token (`lock`) from the SELECT to its
commit; its INSERT and UPDATE appear together in `RotateCommit`. The checks, in the order of the code,
are `RotateInvalid`, `RotateReuse`, `RotateExpired`, `RotateInactive` and `RotateProceed`. A
revocation (`updateMany`) is two steps: `RevokeSnapshot` chooses the rows that were committed when the
statement began, and `RevokeUpdate` waits for locks and writes. That is what PostgreSQL does with an
`UPDATE` in READ COMMITTED mode, and it is why a replacement committed in between is missed.
Expiry of tokens is a step of the clock. Accounts keep the status they have initially: no code in
the repository changes it.

### OTP verification

One phone number of one application: `store` is the entry `otp:store:<app>:<phone>` in Redis, `memory[n]`
its fallback in node n. Every Redis command and every database write of `verifyOtp` whose effect somebody
reads is an action: `VerifyGet` (GET, or the memory; `Compare` counts and compares), `VerifySave`,
`VerifyExpire`, `VerifyBlock`, `VerifyDrop` (the last failed attempt), `VerifyTtl`, `VerifySet` (another
failed attempt), `VerifyDel`, `VerifyMark` (success). Any Redis command may fail (`Fails`): it is then
refused at once, because `enableOfflineQueue` is off, and has no effect. An entry found in memory is the
object in the map, so counting an attempt changes the map, and what others hold of it (`Count`), while one
found in Redis is a copy. The node of a verification is chosen when it first matters. Block and cooldown
fall back to memory as well; since they may end at any time, what another node sees is among the behaviours.
A code is named by the request that issued it. Entry, row, block and cooldown expire at any time; `Abort`
loses a call between any two of its commands, and also stands for whatever else ends a send or resend before
its code is stored. A resend that finds less than a minute left moves `expires_at` (`IssueStore`). The
delivery worker, which also writes `otp_requests.status`, is `WorkerUpdate`. Any number of verifications may
overlap: nothing in the code keeps them apart. The history `overlapped` records which of them had their code
read by another while they were between their GET and their last write; no action looks at it, and the
properties use it to say what the code keeps in spite of the overlaps.

### OTP send and resend

A call stands before its next statement: `Lookup` (idempotency: Redis, memory of the node, table), `Limit`
(the sliding window of the number), `CheckCooldown`, `CreateRow`, `Debit` or `Insufficient`, `Store`,
`Enqueue` or `EnqueueFails`, `DirectSent`, `DirectRefused`, `Refund`, `Save` and `SaveRow`. Redis may fail
at each command; what it kept is then in the memory of the node that serves the call. One window of the
limiter is modelled, and one of its four keys: the others are the same operation. The two queries of the
idempotency table swallow their errors: a `Lookup` whose query fails finds nothing (`idempotency.ts:46-48`),
and `SaveRow` may keep no row (`:88-90`).

A queued message belongs to the delivery worker, which sends it (`JobSent`) or gives it up (`JobFailed`) and
then refunds it (`JobRefund`). A fault may meet the job in between: it is tried again, before its refund or
after it (`JobRetried`), or it fails without one (`JobLost`), because it stalled too often or because the
refund of the last attempt threw, which is only logged. `faulty` remembers the jobs that a fault has met.
The reference of a refund is stored as in the wallet; the instance stores all of them as NULL, as the code
does.

### OTP delivery

The slots are the concurrent executions over all worker processes. `Pick`, `Backoff`, `Stall*`,
`Complete` and `Fail` are BullMQ: an active job belongs to a slot (its lock token); a slot that has lost
the lock may go on, but what it reports about the job is ignored. The remaining actions are the
statements of `processSendOtpJob` in their order, `Throw` is an exception of one of them, `Crash` the loss
of a process. The provider accepts, refuses permanently or temporarily, or accepts with a lost
answer, which `MetaWhatsAppProvider` reports as temporary (`SendLost`); a statement in the catch block that
fails is swallowed (`CatchLost`). The refund is one step, which the proof about `Wallet` justifies.
`faulty` remembers the jobs that a fault has met, so that one run can say what holds without faults and
what holds with them.

### Webhooks

A receipt is a message and what Meta reports of it. `Ingest` stores the event unless its id is known,
`Enqueue`/`EnqueueFails` adds the job; the queue is as in `OtpDelivery`. `FindMessage`, `UpdateMessage`,
`RecordEvent`, `ReadRequest` and `WriteRequest` are the statements of `processWebhookJob`. Beside them run
the delivery worker that creates the message (`Send` ... `AttemptLost`), the direct dispatch of `/send` and
`/resend` while the queue is down (`SendDirect`, `ResendRefused`), verifications that succeed (`VerifyGet`,
`VerifyMark`) or fail for the last time (`VerifyExpire`), and the lazy expiry of `getOtpStatus` and
`/resend`, because all of them write `otp_requests.status`. Receipts and the lazy expiry read the status
before they write it (`Readers`); the history `overtaken` names those that had read it before a
verification. The others write without reading.

### Tenancy

A registration looks its address up (`Register`), hashes the password, and inserts customer, user, link,
application and wallet in one transaction; `InsertCustomer` is its first insert, which waits for another
transaction with the same address because `customers.email` is unique. Everything a registration creates
is named by it. `DeleteApp` follows `prisma/schema.prisma`, which is pulled from the database
(`package.json:18`): keys go with their application, requests prevent its deletion. The SQL of
`supabase/migrations/20260905000000_init_schema.sql:175` says `ON DELETE CASCADE` for requests instead, and
under it `DebitsHaveRequests` fails; that is the mutant of this property. A request is authenticated once
(`Authenticate`), and its row and debit come later, when the key or the application may be gone.

### Edge functions

supabase-js returns errors without throwing, and the functions ignore most of them: a statement that fails
is passed over (`InsertFails`, `AttemptFails`, `WriteFails`, ...), and a call may be cut off anywhere
(`CutOff`). The stored procedures are those of `migrations/legacy-scripts/deploy_supabase_rpcs.py`, whose
parameters are the ones the functions pass; they lock their row and are atomic.

## Runs

Passing runs:

| Run | Instance | What it shows |
|---|---|---|
| `wallet` | 3 calls of any kinds, one customer with or without a wallet, one UUID and two `req_` references, 2 initial units | types and non-negative balances, chained ledger, at most one refund per stored reference, a refund that returned is in the ledger under its stored reference; `Wallet` implements `WalletLedger`; every call ends |
| `refresh_tokens` | 2 requests, sessions of 2 users, 4 tokens | one active token, linear lineage, finality; a logout or a detected reuse is answered when all it chose is revoked, and only a rotation it raced with leaves a token; every request ends |
| `otp_verification` | 2 issuing requests, 3 verifications that overlap at will, 2 nodes, maximum 2, one Redis command fails | the verifications that had a code to themselves are all counted, and what one of them used up or invalidated never verifies again |
| `otp_send` | 2 sends, 1 resend, 2 nodes, 1 key, limit 1, 2 credits, Redis and the idempotency table fail at will, a fault meets 1 job, references NULL | a repeated key costs nothing while the table works, no unpaid message, a message given up has a refund under its stored reference unless a fault met its job, and no other has, the limit holds per store |
| `otp_delivery` | 1 job, 2 slots, 3 attempts, 1 stall, all faults, reference NULL | status, credit under the stored reference, dead letter and job agree where no fault met the job, sends are counted, the job ends |
| `webhooks` | 1 message, receipts "delivered" and "read", 2 slots, 2 tries, 1 stall, 1 fault | each receipt recorded once and not applied again, no reader that comes after a verification undoes it, every receipt settles |
| `tenancy` | 2 registrations, 2 addresses, 1 more application, 1 key, 1 revocation, 1 deletion, 2 sends | one account per address, no debit without a complete request |
| `edge_otp` | 1 send, 2 verifications, 1 resend, 2 receipts, maximum 2, at most 1 credit, 1 fault | no message unpaid or lost unrefunded without a fault in the wallet, bounded guesses, refunds only of unrecorded sends or for receipts of a failure, a verification is undone only by calls that had read before it |

Runs that show where the code and a statement about it disagree (see `findings` in `PROJECT.json`):

| Run | Statement | What happens |
|---|---|---|
| `revocation_during_rotation` | "revokes the entire refresh token family" | the replacement of a concurrent rotation survives the logout, or the revocation after a reuse |
| `otp_overlapping_verifications` | "3 failed codes" | overlapping verifications count once together |
| `delivery_null_refund` | "exactly one financial credit is applied" | the references of the refunds are not UUIDs and all become NULL: only the first failed request of a customer is refunded |
| `send_overlapping_keys` | "prevents double billing on network retry" | two sends with one key that overlap are both debited |

Further disagreements that the models contain and no run is about; the properties say what the code does
keep, and name these cases as their exceptions:

* Of two first calls about a wallet one may fail with a unique violation (`CreateConflict`;
  `wallet.service.ts:25`). `topupWallet` applies a repeated top-up again, although its route calls the reference
  idempotent (`wallet.routes.ts:56`).
* A logout with a refresh token ends the session of that token only (`auth.routes.ts:243`), although
  `API_DOCUMENTATION.md:215` says that it revokes "all associated sessions for the user".
* Verifications that overlap may both use the right code, since both read it before either deletes it
  (`otp.service.ts:101-192`); and one that had read a code before another invalidated it writes it back
  (`:177`), after which it verifies again, although it is "permanently invalidated"
  (`API_DOCUMENTATION.md:69`). A failing `redis.del` leaves a used code usable too (`:192`). Every resend
  starts a new count of failed attempts, although the limit is documented "per OTP request" (the same line).
* A key is debited again when the insert or the query of its idempotency row fails, since both errors are
  swallowed (`idempotency.ts:46-48` and `:88-90`).
* An error of the last refund is swallowed, or the job fails for stalling, and the debit stands
  (`otp.worker.ts:121-137`). A fault between the refund and the end of its job repeats the job, and the message
  may then be sent although it was refunded.
* A receipt overwrites a verification if its worker had read the request before, although
  `webhook.worker.ts:71` says "unless already verified". The delivery worker, the direct dispatch and the last
  failed attempt of another verification (`otp.service.ts:150-156`) overwrite it without looking. A
  receipt that comes late takes a message from read back to delivered, one that comes before its message is
  stored is marked as processed and lost, and so is one that could not be queued.
* The edge functions refund once for every repeated receipt of a failure, although
  `API_DOCUMENTATION.md:79` and `MIGRATION_REPORT.md:11` promise one refund at most.

Why the bounds are enough. Wallet: three calls are the least in which one overtakes two others (a refund,
its repetition and a debit that one of them pays for); a fourth adds no new conflict, since all conflicts
are about one row. Refresh tokens: four tokens let two sessions be opened and two rotations follow each
other, with a logout or the reuse of an old token at any moment. Verification: the maximum of 2 failed
attempts (the code has 3) with three verifications lets the limit be reached and exceeded; two issuing calls
give a send with a resend, or two sends, so that an older code may lie in memory under a newer one in Redis.
The properties that need Redis are stated for `faults = 0`, the others hold whatever fails. Send: two sends
compete for one key, one limit and two credits, the resend for the request of either, so that one call finds
no credit unless a refund came before it; one job that a fault meets (`MaxFaulty`) is beside one that it
does not (the theorems hold for any number of credits and faults); with a limit of 1 and two nodes a store
is full while another is empty. Delivery: three attempts are the code's own value, and one stall is BullMQ's
default. Webhooks: two receipts are the least that can be applied in the wrong order, and one fault the
least that repeats one; with 2 tries a single fault never exhausts a job. Tenancy: conflicts are about one
address, one application or one key, with at most two registrations, or a deletion, a revocation and two
requests in progress. Edge functions: two verifications race on the counter before a resend, two receipts
repeat or contradict each other.

The model checker explores the state spaces completely; no run has a state constraint. Calls of one kind are
interchangeable where a configuration names a symmetry. `Live`, the view of `otp_verification`, leaves out
what neither a later step nor a property can read: block, cooldown and expiry once no send or resend is
left, and what an ended call had asked for. That of `otp_send` does the same with answers, limit and cooldown
once no call is before them, and with the node and the key of a call that has ended.

Runs disable the deadlock check because each call is made at most once: when all have ended the
system stops, as it should. That nobody waits for ever is what `CallsEnd`, `JobsSettle` and `ReceiptsSettle`
say instead.

### Fairness

Wallet and refresh tokens: weak fairness of the steps of each call that was made. A statement that is not
waiting is executed by the database, and a process that is alive awaits its answer; a call is never obliged
to be made or to abort. Delivery: weak fairness of each slot's steps (an event loop runs on), of `Pick`, of
`Backoff` (bounded delays) and of `StallDead` (BullMQ looks for stalled jobs periodically). Faults,
including lost processes and late locks, are never obliged to happen and never obliged to stop; `JobsSettle`
holds because attempts and stalls are counted. Webhooks: the same, and `Enqueue`, by which the handler that
has stored an event goes on, unless its process is lost or the queue is down. No strong fairness is used.

## Proofs

TLAPS proves, for every value of the constants that satisfies their assumptions:

| Module | Theorems about properties of the runs | Further theorems |
|---|---|---|
| `WalletProofs` | `TypeCorrect`, `LedgerAlwaysChains`, `RefundedAtMostOnce`, `RefundsSettle`, `AtomicLedgerImplemented` | |
| `RefreshTokensProofs` | `TypeCorrect`, `OneActiveToken`, `LineageIsLinear`, `RevocationCompletes`, `EndIsFinal` | `SessionsIndependent` |
| `OtpSendProofs` | `TypeCorrect`, `RepeatedKeyNotDebited`, `MessagesArePaid`, `GivenUpRefunded`, `RefundsAreEarned`, `LimitIsKept` | |
| `OtpVerificationProofs` | `TypeCorrect`, `RefusalsAreBounded`, `UsedOnce`, `InvalidatedIsFinal` | |
| `OtpDeliveryProofs` | `TypeCorrect`, `SendsCounted`, `OutcomeConsistent` | |
| `WebhooksProofs` | `TypeCorrect`, `CompletedRecorded`, `VerificationUndone`, `EventsCounted`, `NotReapplied` | |
| `TenancyProofs` | `TypeCorrect`, `OneAccount`, `NoDebitWithoutRequest` | |
| `EdgeOtpProofs` | `TypeCorrect`, `SendsSettle`, `GuessesBounded`, `RefundsFollow`, `VerifiedSettled` | |

These are all the invariants and action properties that the passing runs check, and the
refinement; what the runs show of a small instance holds for any number of calls, nodes, slots and
customers. No theorem has a hypothesis beside the assumptions on the constants: verifications may overlap, and
references may be stored in any way, all of them as NULL included.

The proof of an invariant follows one plan: an inductive invariant `IInv` that implies it, which TLC
confirms on the instance of the run before it is proved; a lemma that the initial states satisfy it; one lemma
per action, or one for several actions that move a call in the same way; and `PTL` for the temporal step.
An action property follows from `IInv` by a case split on the step.

Wallet. `LedgerChains` and `RefundAtMostOnce` are not inductive: `Commit` writes a balance and a row
computed from what the transaction read some steps before. The invariant `IInv` adds that from the lock to
the commit the transaction owns the row and has read the current balance (`ReadIsCurrent`), that the
answer of the idempotency check is still true (`RefundStillFresh`), and which kinds of call reach which
statement (`KindAtStep`). One lemma per action shows that it is kept. The refinement then
follows: each action maps to the atomic action of the same name or to a stutter, and
`ReadIsCurrent` is what makes the balance read under the lock the balance of the atomic step.
`RefundSettles` is about calls while the idempotency check is about rows; the invariant that connects them
is that each refund row was written by a call that is applied (`RefundsWereApplied`), with the type and the
stored reference of the row: which call that is, NULL does not tell.

Refresh tokens. `OneActiveTokenPerFamily` needs that a rotation that is about to commit still holds the lock
of its token, which is still the active one of its family (`RotationHoldsToken`); and what is known about
requests at each step (`CallAtStep`). A revocation waits for the lock, so it cannot take the token from
under the rotation. `SessionEndIsFinal` is an action property that follows from the same invariant: only a
commit of a rotation adds a token to a session that exists, and it does so only while the session has an
active one. `RevocationIsComplete` needs that a request keeps what it has chosen until all of it is revoked
(`RevokedAllChosen`), and that the active token of its session is among the rows it has chosen, unless a
rotation replaced one of those (`SessionIsReached`). That sessions are independent, a theorem no run is
about, needs that the rows which a revocation has chosen still concern its request when it writes
(`TargetsAreConcerned`), because no row ever changes its family.

Tenancy. `OneAccountPerEmail` speaks of committed customers, but two registrations could be about to commit;
the invariant says that an address is held from the insert on, by a customer or an open transaction, and by
one only (`AddressesAreHeldOnce`). `DebitsHaveRequests` needs that a request keeps its key and its
application (`RequestsHaveParents`: the deletion is refused while there is one), that its row precedes the
debit (`DebitsFollow`), and that nothing belongs to a call that has not begun (`ReadyIsNew`). Two lemmas
deal with all steps that change no row.

Send. The invariant says of each call, by where it stands, what it has done (`Controlled`): a call that is
about to dispatch, or has, was debited and its code is stored (`IsPaid`); a message that was refused or
given up (`IsGivenUp`) has a refund under its stored reference unless a fault met its job, or its send or
its job is on the way to it (`IsRefunded`); a repetition has found the row of its key and can only end
(`IsRepeat`); who is about to look a key up or to save it has one (`HasKey`). A step changes the state of
one call, and `OtherCallsKeep` says that the others keep theirs; the steps of a job change the message of
one call (`TurnKeeps`). `LimitIsKept` needs that each admitted call is in the log of the store that admitted
it (`AdmittedAreHits`).

Verification. A verification that shared its code with another is in the history `overlapped`
(`OverlapsAreKnown`), so one outside it knows that nobody else holds its code. `UsedUpForGood` and
`InvalidatedForGood` need that a code that such a verification used up or invalidated is in no place where
it could be read again, and that nobody has read it (`SpentIsGone`). Without faults the place is Redis;
after a fault it is the memory of one node (`OneHome`). A code is stored once (`CodesAreStored`).
`FailuresAloneAreCounted` needs an account of the refusals outside `overlapped`: those already answered are
at most what the entry has counted, also what a stale holder may write back, and fewer while such a
verification has counted an attempt and not yet answered (`RefusalsAreCounted`); in memory the counter may
be ahead, because a process lost after counting never answers (`MemoryRefusalsAreCounted`), and whoever has
the entry to itself knows its value (`MemoryIsCurrent`). Refusals are cardinalities of sets of
verifications.

Delivery. `SendsAreCounted` bounds messages by attempts and stalls; the invariant adds the executions that
are about to send, each of which needs an attempt or a stall not yet used up (`CountInv`). The outcome of a
job needs what an execution has done at each statement (`Phase`), and that a job without faults, the only
one about its request, has one execution, its owner's (`Outcome`). An execution of another job disturbs
nothing of it, except that it may add a credit under a shared reference: `Refunded` only grows.

Webhooks. `EventsAreCounted` needs the same kind of account: the executions of a receipt are at most its
stalls, and one more while it is active; rows plus executions about to add one are at most one, plus the
stalls, plus the row of the delivery worker (`CountInv`). `OnlyOvertakenUndoVerified` needs that while the
request is verified all that have read its status, and have not written, had read it before (`VerifyInv`),
and `CompletedIsRecorded` that an execution past its record has one (`SlotInv`).

Edge functions. `SendSettles` needs where a send stands when it has been debited (`SendsArePaid`) and that
one that ended with an error was refunded or lost its wallet (`ErrorsAreSettled`); `RefundsFollowFailures`
that the refunds of a send are at most those it made itself or the receipts of a failure that are done with
(`RefundsAreCounted`, `Allowance`); `VerifiedIsSettled` that everybody under way with a verified request had
read it before (`VerifiedIsKnown`); `GuessesAreBounded` that comparisons are at most the counted attempts
(`ComparedAreCounted`).

Assumptions are those named in the modules: sets of calls, tokens and sentinels are disjoint, requests
are records of the right type, initial credits are a natural number. Where something is counted, the counted
set is finite: slots, verifications, receipts. They hold of any deployment, and TLC
evaluates them in each run.

Only model-checked: liveness (`CallsEnd`, `JobsSettle`, `ReceiptsSettle`), which is beyond TLAPS as are
fairness and `ENABLED`; and the four statements that the code refutes, which have counterexamples instead.

## Not modelled

* Floating-point credits: the code keeps balances in a double and rounds to four decimals; the
  model counts in that unit.
* Hashing of codes and tokens, taken as injective, and the signatures of webhooks.
* The passing of a rate-limit window, the limits per address, customer and API key (the operation of
  `isRateLimited` on other keys), and the block of a customer, which no route sets.
* The check of JWTs and passwords, which changes nothing, and suspension: no code changes the status of a
  user or a customer.
* In the edge functions: the API key check, and the idempotency table, whose columns are not those of
  the schema.
* The mock provider, HTTP, configuration, logging, error formatting and the generated API pages: no
  state.

## Plan

1. An abstract specification of the billing of a request (debited, then delivered or refunded once) and the
proof that `OtpSend` implements it where no fault meets a request. 2. An abstract specification of a code
(issued, refused at most so often, used once or invalidated), implemented by `OtpVerification` as far as its
verifications do not overlap. 3. The passing of the rate-limit window.
