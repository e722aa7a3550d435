# ReplenOps in TLA+

ReplenOps is the ordering system of a chain of stores: stores submit orders, an
administrator approves them, the warehouse ships them, the store confirms the
receipt; goods come in through stock-in documents; reusable containers travel
with the goods and are returned. It is a Next.js application on PostgreSQL
(Prisma): every request runs in some process, all shared state is in the
database, and the only thing that orders two requests is what their SQL
statements do to the same rows. That is what these modules model.

## The system's parts

| Part | State | Operations that change it | Interacts with | What makes it correct |
|---|---|---|---|---|
| Orders (`order.service.ts`, `order-approval.service.ts`, `order-revocation.service.ts`) | `orders`: status, `is_deleted`, `locked_warehouse_id`; items fixed at creation | create, approve, reject, take-back by the store (`OrderService.revokeOrder`), delete, confirmReceipt, revocation by an administrator | inventory (lock, release), stock-outs (created on approval), containers | one order under way per store; moves only along its life cycle; locks stock exactly while it waits |
| Stock-outs (`stock-out.service.ts`) | `stock_outs`: status, warehouse | createFromOrder, complete, cancel | orders, inventory, containers | same story as its order; ships once |
| Inventory (`inventory-lock.service.ts`, `inventory.service.ts`) | `inventories`: quantity, locked, available, average cost | lock, assert, release, shipment, restore, manual adjustment | everything above, stock-ins | quantity = locked + available; available >= 0; locked = what orders hold; no goods appear or vanish |
| Stock-ins (`stock-in.service.ts`) | `stock_ins`: status; items | create, update, approve, reject, cancel, delete, complete | inventory, cost history | received once, nothing lost between two receipts |
| Containers (`container-tracking.service.ts`) | `container_tracking`: borrowed, returned, on loan, pending; `container_returns` | borrow (shipment), return request: submit, complete, reject, cancel; return by revocation | stock-outs, revocation | on loan = borrowed - returned; pending = what open requests ask for; pending <= on loan |
| Document numbers (`document-number.service.ts`) | one counter per type and day | next | every creation | unique, no gaps after a rollback |
| Sessions (`lib/auth.ts`) | `auth_sessions`: token hashes, rotation time, revoked | login, refresh, logout | users (session version) | one live generation and, for 30 s, its predecessor; a revoked session stays dead |
| Login rate limit (`auth-rate-limit.service.ts`) | failures, window, block | check, recordAttempt, clear | login routes | every recorded failure counts |
| WeCom sign-in (`wecom-auth.service.ts`) | configuration revision, challenges, bindings | begin, complete, bind, prebind, unbind, save, cancel | sessions, users | a challenge is used once, under the configuration it was made for |
| Users (`user.service.ts`) | users, roles, store administrators | create, update, roles, delete, restore, password | sessions | there is always an active super administrator |
| Master data (stores, warehouses, goods, categories, containers) | rows with `is_active`, `is_deleted` | create, update, archive, restore | database triggers, documents | nothing active refers to an archived row |
| Pure algorithms | none | average cost, container requirements, print pages, ordering window, Shanghai dates | callers above | their definitions |
| Queries, reports, actions, pages, cache, deployment | none of the above | read, check permissions, format | | out of scope |

Hard behaviours: interleaving of the statements of concurrent transactions at
READ COMMITTED (Prisma's default here); values read before a transaction or
before a claim and used after it; absolute against relative updates of one row;
a transaction that dies, times out after Prisma's five seconds or loses a
deadlock; retried requests.

## Modules

| Module | What it is |
|---|---|
| `OrderStock` | orders, stock-outs, inventory, the container ledger, stock-in completion and manual adjustment, statement by statement |
| `StockReservation` | what ordering promises of the stock: reserve all or nothing, give up, ship |
| `ContainerReturns` | the ledger of the containers on loan, return requests and revocations, statement by statement |
| `StockIns` | stock-in documents with their numbers, their receipt, average cost and cost history |
| `StockReceipt` | what stock-in promises of the stock: what was approved is received once, as a whole |
| `AuthSessions` | the session row, refresh-token rotation, the proxy, and the tabs of one browser |
| `Accounts` | users, roles and passwords under serializable and read-committed transactions |
| `WecomAuth` | sign-in and binding through WeCom beside administrators, account changes and cancellation |
| `MasterData` | creation, archiving and restoration of master data against the rows that refer to it, with the guard triggers |
| `UnitCounting` | lemmas on totals, a total being the number of its units |
| `OrderStock_proofs` | orders, stock-outs and quantities: two inductive invariants, and the refinement of `StockReservation` |
| `ContainerReturns_proofs` | the ledger and its documents |
| `StockIns_proofs` | numbers, costs and values, and the refinement of `StockReceipt` |
| `AuthSessions_proofs`, `Accounts_proofs`, `WecomAuth_proofs` | sessions, accounts, sign-in and binding |
| `MasterData_proofs` | the locks and triggers of master data |
| `MC...` | the instances for TLC |

### How OrderStock corresponds to the code

A handler is one transaction of one worker (`tx[w]`). It is cut where another
transaction can observe or change something in between:

- A plain SELECT reads the committed rows and never waits (`...Read`,
  `CreateCheck`, `ChooseWarehouse`, `AssertItem`, `ShipCheckItem`, ...). What it
  read and the handler uses later is kept in `tx[w]`.
- An UPDATE ... WHERE waits for the row lock (`Free`, `FreeInv`), evaluates its
  WHERE on the newest committed version, and holds the lock until the
  transaction ends (`...Claim`, `LockItem`, `ReleaseItem`). An update that
  matches no row makes the handler throw: the action is disabled and `Rollback`
  is what is left.
- SELECT ... FOR UPDATE on the store row and `pg_advisory_xact_lock` are locks
  of the same kind (`CreateLockStore`, `StockInKeys`).
- The remaining writes and COMMIT are the last action of a handler: they touch
  rows the transaction has locked, so nobody can tell them apart. For the same
  reason the status PROCESSING that approve, reject and complete write to claim
  a row is the lock; only committed statuses are in `order` and `out`.
- `Rollback` is possible at every statement: an exception, a lost connection,
  the interactive-transaction timeout, the victim of a deadlock.

| Code | Actions |
|---|---|
| `OrderService.create` | CreateBegin, CreateLockStore, CreateCheck, ChooseWarehouse, LockItem, CreateCommit |
| `OrderApprovalService.approve` with `createFromOrder` | ApproveRead, ApproveClaim, AssertItem (or ChooseWarehouse and LockItem when no warehouse was locked), ApproveCommit |
| `OrderApprovalService.reject`, `OrderService.revokeOrder`, `OrderService.delete` | RejectRead / RevokeRead / DeleteRead, CloseClaim, ReleaseItem, RejectCommit / DeleteCommit |
| `StockOutService.complete` | ShipRead, ShipClaim, ShipCheckItem and ShipItem for each item, ShipCommit |
| `StockOutService.cancel` | CancelRead, CancelClaim, ReleaseItem, CancelCommit |
| `OrderService.confirmReceipt` | ConfirmRead, ConfirmCommit |
| `OrderRevocationService.revokeOrder` | UndoRead, UndoReadOut, UndoUpdate, UndoItem, UndoCheckBoxes, UndoCommit |
| `InventoryService.adjustStock` | AdjustRead, AdjustCommit |
| `StockInService.complete` | StockInRead, StockInClaim, StockInKeys, StockInReadItem and StockInWriteItem for each item, StockInCommit |

### How ContainerReturns corresponds to the code

The same conventions; `tx[w].post` are the ledger rows a transaction has written
and therefore locked, `tx[w].holds` its lock on the document.

| Code | Actions |
|---|---|
| `StockOutService.complete` with `borrowContainers` | LendBegin, LendItem for each row, LendCommit |
| `submitReturnRequest` | SubmitBegin, SubmitItem for each row, SubmitCommit |
| `completeReturnRequest` | SettleBegin, ReceiveItem for each row (any part of what was asked for), SettleCommit |
| `rejectReturnRequest`, `cancelReturnRequest` | SettleBegin, DeclineItem for each row, SettleCommit |
| `OrderRevocationService.revokeOrder`, its container part | UndoRead, UndoUpdate, UndoCheckItem and UndoItem for each log, UndoCommit |

`Allowed` is the CHECK constraint of the table; a write it refuses is a
transaction that rolls back. `ContainerReturns` has its own copy of the shipment
and the revocation, reduced to what they do to the ledger: in `OrderStock` a
store has one ledger row and no return requests, here there are several rows and
nothing else of the order.

### How StockIns corresponds to the code

The same conventions: `tx[w].at` is the statement a transaction has reached, and
a row it has written is locked (`DocFree`). The receipt of `OrderStock` is the
same handler beside the orders; here it stands beside the life of its document,
with prices and costs.

| Code | Actions |
|---|---|
| `DocumentNumberService.next` | DrawNumber (waits for the row of the day), NumbersExhausted |
| `StockInService.create` | DrawNumber, CreateCommit |
| `update` | Read, Claim (the UPDATE that repeats status and `updatedAt`) or Refuse, UpdateCommit |
| `approve`, `reject`, `cancel`, `delete` | Read, Decide or Refuse |
| `complete` | Read, ReadItems, Claim or Refuse, TakeLock for each key in the order of the goods, ReadRow and WriteRow for each line, CompleteCommit |
| `CostCalculator.calculateWeightedAvgCost` | AverageCosts, Nearest |

Quantities count 1/`Scale` of a unit, as the columns do with `Scale` = 1000:
goods that are measured come in decimals, and a quantity below half of that is
kept as zero. Prices and costs are whole cents. So two things are rounded: the
average cost, by the code (`AverageCosts`), and quantity times cost, by the
column `total_cost` (`TotalCosts`). The code computes with binary floating point
numbers: on an exact tie what is rounded may lie on either side, so `Nearest`
allows both; away from ties the arithmetic is taken to be exact. The limits of
the columns (ten digits) are left out. `submit` changes nothing and is no action.

The shipment and the manual adjustment change a quantity and leave `total_cost`
as it is, so the total of an opening row may be stale; a receipt writes it anew
from quantity and cost. `ValueWithinRounding` therefore speaks of rows that had
a receipt, and counts the opening stock by its quantity and cost. The rounding
of the average errs by up to half a cent for every unit it is an average of, and
that error stays in the cost and grows with each receipt; that of the total is at
most half a cent whatever came before, because each receipt computes the total
anew.

`StockReceipt` is the abstract specification: documents with a state and a form,
a stock, and one step that receives the whole form of an approved document. What
a form brings to a key is the number of the units of its lines (`Brought`). The
mapping is the instance `Receipt`.

### How AuthSessions corresponds to the code

One account, one browser. A request carries the cookies of the moment it was
sent; each access to the database is an action, and answers are received in any
order.

| Code | Actions |
|---|---|
| `proxy` (`proxy.ts`) | ProxyVerify, Refresh, Reverify; Receive sets the cookies of the answer |
| `LocalAuth.verifyRefreshToken` | Refresh: one transaction with the session row locked |
| `getSession` in a handler, `/api/auth/session` | Handle |
| logout route, `revokeSession` | Act, Revoke |
| login route, `verifyCredentials`, `generateTokens` | Login, Credentials, CreateSession |
| `AuthSessionGuard`, `auth-client.ts` | StartCheck, React, EndSession, StorageEvent |
| `login/page.tsx` for a user who is signed in | Return |
| 503, 500, a lost request or answer | Lose |
| `sessionVersion` incremented by the user service | AccountChange |

Tokens are generations: the refresh token of a generation is a keyed hash of
that of the one before, so `previousHash` of the row is `gen - 1`. The three
cookies are one, because they are set by the same answers. A page load or a
server action that is refused is redirected without telling the other tabs
(`silent`); a `fetch` that is refused starts a check.

### How Accounts corresponds to the code

`update`, `deleteById`, `setRoles` and `removeRole` are SERIALIZABLE
transactions: `Start` reads from the snapshot, `Commit` is allowed by first
committer wins and by serializable snapshot isolation (`in`, `out` and `doomed`
are the read-write conflicts PostgreSQL tracks). `create`, `addRole`,
`restoreById` and `changePassword` are not serializable, and the conflict
tracking does not see them. `changePassword` and `restoreById` read first and
write later; `create` and `addRole` are one statement as far as others can tell.
`SignIn` issues a token that remembers for which password and rights it was
given; the code compares the session version only.

### How WecomAuth corresponds to the code

Every transaction of the service but a cancellation first locks the
configuration row (`ConfigUnlocked`), so to one another they are single steps;
between them the provider is asked and passwords are compared.
`cancelWecomFlow` is one DELETE and takes no lock: it can run at any time, and
waits when it finds the row of a challenge being deleted (`RowHeld`). The three
transactions that delete or replace a challenge of a flow under way are
therefore two actions each: one that locks and deletes, one that commits.

| Code | Actions |
|---|---|
| `beginWecom` | BeginFlow |
| `completeWecom`, first transaction | CallbackConsume, CallbackMarked |
| `completeWecom` after the provider's answer | AnswerConsume, then AnswerKnown or AnswerUnknown; CallbackFails at any point |
| `hasPendingWecomBinding`, `bindWecomWithPassword` | BindCheck, BindClaim, BindCommit, BindFails |
| `cancelWecomFlow` | CancelWaits, CancelDeletes, CancelNothing |
| `saveWecomConfig`, `prebindWecom`, `unbindWecom` | SaveConfig, Prebind, Unbind |
| the browser and the routes | Send, Receive, Lose |
| login with a password | LoginRead, LoginInsert |
| password, role and status changes | AccountChange |

A request carries the cookie of the moment it was sent, and an answer sets the
cookie when it is received, whatever the browser holds by then; both may be
lost. The two cookies of a flow are one (`Cookie`), because they are always set
together. Its token is the key of a row: that of the challenge, which the marker
keeps, or that of the binding page, which is another (`Names`). When a
transaction commits, a DELETE that waited for its row finds it deleted and does
not see what was inserted in its place (`Commits`).

### How MasterData corresponds to the code

The rows of all tables are of one kind of thing: a row with a state (`life`) and
the masters it names. A service looks with plain reads (the guards of
`Archive...`, `Restore...`, ...), then its transaction locks rows: `LockRow` for
an UPDATE or INSERT, `RequireActive` for the FOR SHARE of
`replenops_require_active_master`, `Guard` for the scan and the sweep of an
archive trigger, `Commit`, `Rollback`. `Becomes` and `NamesThen` are a row and
its references as the transaction will leave them. What a trigger of a reference
demands is computed by `Demanded` from these, and what it finds is what its own
transaction sees (`Sees`): the committed master, or the one it has written itself.

The writers of documents, stock, bindings and balances are reduced to what the triggers see of
them: a document opens or closes, a quantity stops or starts being zero,
containers go out or come back. `is_active` is left out: nothing of the
triggers depends on it, `is_deleted` is what they compare.

### Abstractions

In the modules of orders and containers, quantities are small naturals instead of decimals with three
places; the items of an order are a function from goods to quantities, because
the input schema of the actions refuses a repeated goods; items are handled in
any order; an inventory row that does not exist is a row of zeros; a store has
one container tracking row; `Boxes[o]` is the number of containers the warehouse
says it shipped, whatever was expected. Left out: names, codes, document
numbers, amounts and costs, audit rows, permission checks, and the checks that a
store, a goods or a warehouse is still active (a request they refuse is a request
that rolls back). The waits that the FOR SHARE of the master-data triggers adds
are left out: the model allows more interleavings than they do. Two
UPDATEs in a row that lock two rows of one order are one action (`UndoUpdate`).

`Migrated` orders are rows the schema allows and the seed and the tests create:
PENDING with no locked warehouse. approve has a branch for them.

`StockReservation` is the abstract specification. In `OrderStock` an order is
"held" while `lockedWarehouseId` is set, "shipped" once its order is PROCESSING,
"closed" once it is rejected, deleted or cancelled; the refinement mapping is in
the instance `Reservation`.

## What the runs check

| Run | Handlers | Question | States |
|---|---|---|---|
| `orders` | all of an order | `TypeOK`, the inductive invariant `OrderInv`, `OneActiveOrderPerStore`, `LockedMatchesHolders`, `HoldersAreOpen`, `OrderMatchesStockOut`, `Balanced`, `OrderLifeCycle` | 421,776 |
| `reservation` | all but the revocation | `ReservesStock` (refinement), `StockConserved` | 190,950 |
| `writers` | create, approve, ship, adjust, stock-in | `LockedMatchesHolders`, `AvailableNeverNegative` beside the writers of absolute values | 330,504 |
| `ledger` | all of the container ledger | `TypeOK`, `PendingMatchesRequests`, `RequestsReceivable`, `LedgerBalanced`, `ReturnsCounted`, `RequestLifeCycle` | 26,291 |
| `stock_ins` | all of a stock-in document | `TypeOK`, `NumbersConsecutive`, `CostWithinPrices`, `ValueWithinRounding`, `ReceivesApproved` (refinement), `RequestsEnd` (liveness) | 223,243 |
| `sessions` | requests, tabs, logins, logouts, losses, account changes | `TypeOK`, `KeptUntilLogout`, `JarCurrent`, `EndedStaysEnded`, `NoForcedExit`, `EndedReachesTabs` (liveness) | 332,747 |
| `accounts` | all of an account, sign-in | `TypeOK`, `SuperAdminRemains`, `TokensAreCurrent` | 1,746,728 |
| `wecom` | flows, cancellations, administrators, account changes | `TypeOK`, `UnbindEndsSessions`, `PasswordStillProved`, `CancelledFlowsEnd`, `DecisionsHold` | 1,999,658 |
| `master` | create, archive, restore, edit, refer | `TypeOK`, `ReferencesLive` | 750,693 |
| `adjust_lost` | create, adjust | violation of `NeverOversold` | |
| `stockin_lost` | create, stock-in | violation of `Balanced` | |
| `undo_twice` | all of an order | violation of `StockConserved` | |

Bounds. Two workers: every race in this code is between two transactions over
one row, and a rolled-back or finished transaction frees its worker, so that
three or more requests still touch one order one after the other. Three
submissions: two of one store (to race for the one-active-order rule and for
containers of one store) and one of another (to race for stock only). Two goods,
of which one order needs only one; two warehouses in the runs about choosing,
with stock for one order in the first and for a partial order in the second, so
that the choice, the shortage and the half-done reservation all happen. The ledger: two containers, two shipments and two requests
that together ask for all that was lent, so that a request can fail for lack of
containers, and a revocation can compete with one that is open. Adjustments to 0 and to 2. Receipts and
adjustments use one warehouse. Sets of documents are finite, so a finished
instance stops: the runs do not check deadlock. `WorkerSymmetry` is used in the
runs that check no temporal property: workers are interchangeable, no other set
is.

The later modules:

- `stock_ins`: two documents, two goods, one of which has no inventory row yet
  and the other a stale total;
  quantities in halves of a unit, so that totals are no whole cents, and one that
  was too small to keep; forms that name the goods in opposite orders (so that
  two receipts could wait for each other) with prices whose average is not a
  whole cent; a day with
  two numbers and one with one left, so that the limit is met; one edit
  of a document. Edits, decisions and receipts meet in every pair that shares a row,
  but approvals are run by one worker and refusals, cancellations and deletions
  by the other.
- `sessions`: one tab that is visible and sends up to two requests at a time (a
  check and another), one in the background. The clock has five instants: a
  round trip is one, the grace period three, the session four, so that a lost
  answer is retried within the grace period and after it, and a session expires. An access
  token outlives the run once it was renewed; before, it is about to expire.
  One request is lost or one account change happens; two logins. `AuthSessionsAssumption` is
  what the real numbers satisfy (grace 30 s, margin 5 minutes, access token one
  hour) as long as a round trip takes less than 15 s; `KeptUntilLogout` needs that a round trip
  and a retry of it are shorter than the grace period.
- `accounts`: one super administrator at the start and an account that may be
  created, so that the second may take over and the first be removed while that
  happens; two passwords; two changes of an account. Restorations of one account
  do not meet each other.
- `wecom`: one account, two members, two flows of one browser, two requests at a
  time, two decisions of administrators, one change of the account, one session.
  With two members one account can be bound twice, and with two requests a
  cancellation meets every step of a sign-in, before and after its answers come.
  Members, flows and workers are interchangeable; the one temporal property is
  about single steps.
- `master`: one row of each table and a second category, all but one category still to be
  created; one worker creates goods, archives and restores, the other does everything. A race here is
  between an archive and one reference, so two workers are enough.

Fairness. None is assumed where nothing retries: no request of orders,
containers, accounts, WeCom or master data is promised to succeed, and every
handler may roll back forever. Two modules state it.

- `StockIns`: strong fairness of what an open transaction does next
  (`Proceed`). PostgreSQL queues those who wait for a row lock or an advisory
  lock and wakes them in the order they came, so a step that is possible again
  and again is taken. Nothing is assumed of `Rollback`: `RequestsEnd` holds
  although no timeout rescues two receipts that wait for each other, and it is
  violated when the keys are locked in the order of the lines.
- `AuthSessions`: weak fairness of serving each request and of delivering storage events (a
  request is answered unless it is lost), strong fairness of a visible tab's
  check (it is run by a timer and on every 401; all tabs share one lock,
  which is granted in order). None of logins, logouts, losses or the clock.

### Where the code does something else than it says

- `adjust_lost`: `adjustStock` says it reads the row with a pessimistic lock and
  refuses an adjustment that would leave locked stock uncovered; it reads with a
  plain SELECT and writes absolute values. An order that reserves in between is
  overwritten.
- `stockin_lost`: the completion of a stock-in excludes other stock-ins with
  advisory locks, and no order takes these. It overwrites the available quantity
  of a row an order has just reserved from.
- `undo_twice`: the revocation of a completed order updates the order and the
  stock-out by id; two revocations both restore the stock. When containers were
  shipped, the container check stops the second one, unless the store has
  others on loan.

The revocation also reads a ledger row, compares what is on loan with what is on
its way back, and then updates under a weaker condition. `RequestsReceivable`
holds all the same, because the table's CHECK constraint refuses what the update
lets through: without it (the mutant of that property) a request that is open
could no longer be received. A revocation done twice returns its containers
twice as well, when the store has others on loan; `ReturnsCounted` therefore
speaks of the time before any revocation.

Because of these, `Balanced` is checked on the handlers of orders alone, and
`StockConserved` without the revocation. That nothing is lost between two
receipts of the same goods is part of `ReceivesApproved` in `StockIns`.

### Observations that are not findings

The repository does not say otherwise, so no run is expected to fail; the
properties are stated around them.

- A cancellation of a sign-in through WeCom may delete nothing, and the sign-in
  then goes on to a session. It waits and then matches nothing when it meets the
  transaction that replaces the challenge by the marker, the one that replaces
  the marker by the row of the binding page or signs in, or the one that binds.
  And it matches nothing at once when it is sent with the cookie of before,
  after such a transaction has committed and before its answer has come: the
  answer then sets the cookie of the binding page, whatever the cancellation has
  cleared. `CancelledFlowsEnd` therefore speaks of the flows whose challenge or
  marker a cancellation has deleted.
- `restoreById` decides from a row read before its transaction. If two
  restorations of one account meet, the later one deactivates an
  account that was restored, enabled and promoted in between, even if it has
  become the only super administrator. The instance has one restoring worker. No page or
  route calls the operation.
- `changePassword` compares the old password before its UPDATE, which does not repeat the
  comparison: a password an administrator sets in between is
  overwritten. Sessions of before end all the same (`TokensAreCurrent`).
- A refresh whose answer was lost and that is repeated only after the grace
  period revokes the session, as reuse of an old token does.
  `KeptUntilLogout` and `JarCurrent` therefore speak of runs without lost
  requests.

## What is proved

Every property a run checks is also a theorem, but for the two of liveness. The
theorems hold for every value of the constants that satisfies the assumption of
the module, with no bound on the numbers of workers, rows, documents, quantities
or days; what the models bound (`MaxVersion`, `MaxEdits`, ...) is an
arbitrary number there. Each module has its assumption (`OrderStockAssumption`,
`ContainerReturnsAssumption`, ...): what kind of values the constants are, that
sets of documents are finite where they are counted, and that the rows at the start are
possible ones.

In every module the properties are no invariants by themselves: a step can break
them from a state that is not reachable. The inductive invariant says what rules
these states out, which is nearly always what an open transaction may still rely
on at the statement it has reached. The proofs have one lemma per handler or
step, and one for "a statement that commits nothing" and "a COMMIT", which carry
the bookkeeping.

### Orders: `OrderStock_proofs`

| Theorem | Statement |
|---|---|
| `OrderInvariant` | `Spec => []OrderInv` |
| `TypeCorrect` | `Spec => []TypeOK` |
| `OneActiveOrder` | `Spec => []OneActiveOrderPerStore` |
| `StockOutFollowsOrder` | `Spec => []OrderMatchesStockOut` |
| `HoldersOpen` | `Spec => []HoldersAreOpen` |
| `LifeCycle` | `Spec => OrderLifeCycle` |
| `StockInvariant` | `Spec => []StockInv` |
| `NeverOverdrawn` | `Spec => []AvailableNeverNegative` |
| `LocksMatchHolders` | `Spec => []LockedMatchesHolders` |
| `RowsBalance` | `Relative => (Spec => []Balanced)` |
| `StockIsConserved` | `Forward => (Spec => []StockConserved)` |
| `OrdersReserveStock` | `Forward => (Spec => ReservesStock)` |

Statuses. A step from a state where an order is APPROVED while its shipment has
already been claimed by two workers would break the properties. `OrderInv` adds
what rules such states out: two transactions never hold the same lock
(`LocksExclusive`); a handler past its claim holds the lock of the row it
claimed (`HoldsClaim`); what it found out there is still true (`ClaimStillTrue`:
for create, that the store has no order under way; for complete and cancel, that
the stock-out is PENDING, although they never look at the order again before
writing it); one submission is created once (`OneCreator`); and two facts about
rows at rest (`RowConsistent`). `OrderStockAssumption` adds that at most one
migrated order is under way in a store. The life cycle follows from the same
invariant, action by action (`NextLegal`).

Quantities. `StockInv` adds what each open transaction has done to the
inventory: it has written the rows of the items it has dealt with, each once,
from the committed row (`PostOK`); a row written by one transaction is written
by no other (`WritersExclusive`); the warehouse it works on is the one that
holds the goods of its order (`WarehouseOK`); it still has to deal with items of
its order only (`TodoOK`); and no row, committed or written, is
oversold (`RowOK`). A COMMIT then changes the locked quantity of a row by
exactly what the set of holders changes by: totals are counted in units, and
`UnitCounting` says what one document more or less does to them.
`NeverOverdrawn` and `LocksMatchHolders` need no hypothesis: they hold beside
stock-ins, adjustments and revocations.

`Relative` says that neither the stock-in nor the adjustment is among the
enabled handlers: they write values computed from an old read, and
`stockin_lost` and `adjust_lost` show that the balance is lost with
them. `Forward` excludes the revocation as well, which `undo_twice` shows to
restore the stock twice. Both are met by the instance of the run `reservation`
and by any in which orders are submitted, decided, taken back, deleted, shipped,
cancelled and received.

`OrdersReserveStock` is the refinement: under the mapping of `Reservation` (on
hand, stage, held goods) every step is a step of `StockReservation` or none. The
COMMIT of a create, or of an approval that had to choose a warehouse, is a
`Reserve` of the whole order; that of a rejection, a take-back, a deletion or a
cancellation is a `GiveUp`; that of a shipment is a `Ship`; all
other statements stutter.

### Containers: `ContainerReturns_proofs`

`ReturnsInvariant`, `TypeCorrect`, `PendingIsAsked`, `OpenRequestsReceivable`,
`LedgerStaysBalanced`, `ReturnsCountedOnce` and `SettledOnce` state the
properties of the run `ledger`. `ReturnsInv`: a handler that holds its document
found it in the status it still has (`DocOK`); the rows it has written and those
still to be written are together the rows of its document, and a written row is
the committed one moved by what the document says (`WorkOK`); no two
transactions have written the same row or hold the same document (`Exclusive`);
and every ledger row is the total of the documents: borrowed of the shipments
sent, pending of the open requests, returned of what was received (`Agrees`,
the last before any revocation).

### Stock-ins: `StockIns_proofs`

| Theorem | Statement |
|---|---|
| `StockInsInvariant` | `Spec => []StockInsInv` |
| `TypeCorrect` | `Spec => []TypeOK` |
| `NumbersStayConsecutive` | `Spec => []NumbersConsecutive` |
| `CostStaysWithinPrices` | `Spec => []CostWithinPrices` |
| `ValueStaysWithinRounding` | `Spec => []ValueWithinRounding` |
| `ApprovedIsReceived` | `Spec => ReceivesApproved` |

`StockInsInv`: a number drawn is the next of its day until its creation ends
(`Sequenced`); a document once claimed keeps its status, and an approved one its
form (`Found`); a receipt holds the keys it works on, has read the row as it
still is, and what it has written for a line follows from that row
(`Receiving`); no two transactions hold the same document, key or day (`Apart`).
The average lies between the prices it is made of whatever the
rounding (`AverageBetween`), and off by at most half a cent a unit
(`AverageRounds`); `ValueOK` sums these errors over the history of a key, for
quantity times cost, and the rounding of the total as it is stored (`TotalIs`)
is added once. All this holds for any `Scale`. The
refinement needs one step only, the COMMIT of a receipt: its rows together are
the form of the document (`CompleteRefines`).

### Sessions: `AuthSessions_proofs`

`SessionsInvariant`, `TypeCorrect`, `SessionKept`, `JarStaysCurrent`,
`EndedIsRefused` and `NobodyForcedOut`. The assumption is the one the real
times satisfy: a round trip is shorter than the margin, two are shorter than the
grace period, and an access token outlives the grace period, the margin and two round trips.
`SessionsInv` relates the age of a request to the rotation: a token of the
current generation, once rotated, was issued after the rotation and so
is not about to expire while the one before is still accepted; a request that carries
the generation before was sent before the answer with the current one could be
missed, and so arrives within the grace period (`RotationOK`); the browser holds
the current generation, or the one before while an answer that renews it is
outstanding (`JarOK`). `CalmOK` is the part for `NoForcedExit`.

### Accounts: `Accounts_proofs`

`AccountsInvariant`, `TypeCorrect`, `TokensCurrent`, `SuperAdminStays`. A token
remembers a version, and an account that still has this version has the password
and the rights of then (`TokensArePast`). For the last super administrator, a
transaction that is about to take one away has counted all accounts, and either
another one is there or the transaction is the pivot of two conflicts and cannot
commit (`LosersCounted`): write skew is excluded by what PostgreSQL tracks, and
the proof uses no more of it. `SuperAdminStays` is
`Spec /\ []RestoresApart => []SuperAdminRemains`: no two restorations of one account
are under way at a time. Without that it is false (see the observations above).

### WeCom: `WecomAuth_proofs`

`WecomInvariant`, `TypeCorrect`, `UnbindEnds`, `PasswordProved`, `CancelledEnd`
and `DecisionsEndFlows`. `WecomInv`: what a request or a session remembers of an
account is of a version no later than the present one, and the same version
means that nothing was unbound since (`VersionsPast`); a challenge that may still be
used was made after the last decision of an administrator (`LiveIsCurrent`); a
flow whose challenge was deleted by a cancellation, or that signed somebody in, is
used up (`UsedUp`); one transaction at a time holds the configuration, and the
challenge it has deleted and not yet replaced is to all others of the stage it
found (`Held`), because a cancellation waits for it.

### Master data: `MasterData_proofs`

`MasterDataInvariant`, `TypeCorrect`, `ReferencesStayLive`, for any tables and
any foreign keys between their rows. `MasterDataInv` says of each transaction
(`Sound`): a master it has locked FOR SHARE is in use (`SharedIn`); the masters
of a row it will leave in use are locked, or still to be locked (`DemandMet`);
if it archives a master and has scanned, nothing in use names that master
but what it sweeps (`ArchiveClear`), and nobody can add such a row, because that
needs the lock it holds.

### Only model-checked

`RequestsEnd` of `stock_ins` and `EndedReachesTabs` of `sessions`: liveness
under fairness, which the prover does not reach, as ENABLED. That two
receipts do not wait for each other rests on the order of the keys, which the
theorems do not use.

The bounds matter less where a theorem covers the property, but the runs still
say what the theorems cannot: that the interesting states are reachable, that
each property is violated by a plausible mistake in the code, and that the
three findings are real.

## Plan

1. Action properties that the present invariants give at little cost: that a
   document of `StockIns` moves only along its life cycle, that a history only
   grows, that a session once revoked stays so.
2. `StockReservation` and `StockReceipt` themselves: what they promise of the
   stock (nothing reserved twice, the stock is what was there and what was
   received) as invariants of the abstract specifications, carried over by the
   two refinements.
3. The part of the revocation that does not restore twice: `StockConserved` with
   revocations that do not overlap.

## Not modelled

- The login rate limit, the ordering window, Shanghai dates, container
  requirements and print pagination: small or pure, without a run left for them
  beside those above.
- Master data: codes, names and units, `is_active`, the administrators of a
  store, the change of a measure type, and the FOR SHARE NOWAIT of a parent
  document that the item triggers take (`MasterData` opens a document with its
  items in one piece).
- Sessions: `/api/auth/refresh`, which no client calls, and the optional session of
  the landing page, which only chooses what is shown.
- Queries, reports, pages, the client's cart, cache, deployment and seeding: they
  keep no state a rule depends on.
