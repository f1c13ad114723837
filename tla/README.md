# A TLA+ verification of kiro-admin and yookassa-bridge

The repository holds two Go programs that share nothing but the repository:

* **yookassa-bridge** (`src/internal/yookassabridge/`, `src/cmd/yookassa-bridge/`)
  sells top-ups: it creates payments at YooKassa and, once a payment succeeded,
  has New API issue a redemption code or tells New API by an Epay notification.
* **kiro-admin** (`src/main.go`, `src/parser/`) is a proxy in front of Kiro: it
  holds several Kiro accounts, chooses one for each request, keeps their tokens
  fresh, and shows an admin page.

Both are concurrent servers that keep JSON files. What is hard in them is not in
one function. It is what one goroutine does with data it read before another
goroutine, or a crash, or a lost answer, came in between. The modules are about
that.

All names in the modules are those of the source where TLA+ allows; the header
of each module says what it leaves out.

## Inventory

### yookassa-bridge

| part | state | operations | hard |
|---|---|---|---|
| order store, `store.go` | the map of orders, `DATA_FILE` | Create, Get, FindByPaymentID, PendingPaymentIDs, Update, load, saveLocked | a failed save leaves memory changed; `os.WriteFile` truncates before it writes |
| handlers, `server.go` | none but the store | createPayment, getOrder, yooWebhook, epaySubmit, epayReturn, syncPayment, notifyEpaySuccess | syncs of one payment overlap; calls are made with no lock held; answers get old |
| reconciler, `server.go` | none | StartReconciler, reconcilePending | the only one that helps when webhooks are lost |
| clients, `yookassa.go`, `newapi.go` | none | CreatePayment, GetPayment, CreateRedemption | lost answers; a code issued and not received |
| `epay.go`, `config.go` | none | signatures, environment | pure functions |

Handlers and the reconciler meet only in the store. The store's mutex covers one
operation, never a call to YooKassa or New API. Correct means: nobody is credited
who did not pay; what an order says of its receipt is true and is not lost; an
order that was paid is credited in the end.

### kiro-admin

| part | state | operations | hard |
|---|---|---|---|
| account limiter | per account: requests in flight, starts of the last second | tryAcquireAccountSlot, release | the clock is read before the lock is taken; limits change while requests run |
| token files | one JSON file per account | load, list, write, persist; admin save, toggle, delete, check, credits; the refresh scheduler | a token is read, carried through a network call and written back whole, with no lock |
| settings file | password hash, groups with keys | load, normalise, ensure, save; groups, keys, password | every proxy request with an sk- key saves it again; it is truncated first; unreadable means defaults |
| sessions of the admin page | signed cookies, no server state | login, logout, validAdminSession | settings are loaded anew at each step |
| proxy requests | none | selectTokenAccountForRequest, selectBalancedTokenAccount, the handlers | the choice is made from stored credits |
| history | entries in memory, a JSON file | addRequestHistory, updateRequestHistoryCreditsSpent, clear, load | amounts arrive after the answer, from a goroutine of its own |
| credits | in the token files | updateAccountCredits, maybeRefreshCreditsAfterRequest; whoever writes tokens | overlapping requests, failed usage calls, older credits written back |
| conversion, event parser, answers | local to one request | openAIRequestToAnthropic, buildCodeWhispererRequest, ParseEvents, handleStreamRequest, handleNonStreamRequest | every turn tells Kiro the whole dialogue anew, from what earlier turns made of its answers; a response may end anywhere; two ways to answer |
| device login (OIDC) | pending logins under a mutex; the page's form, interval and requests under way | start, poll, create token; the page opens, closes, polls | polls overlap, and one drops or completes the login that another has copied; late answers reach a form for another account; the token is given once |
| statistics, endpoints, command line, pages | none | filter, sum, format | presentation |

Correct means: an account is what the admin last decided; a session that the auth
server replaced is not what the file holds; limits hold; slots come back; passwords,
groups and keys last; the history says what was requested and what it cost; a token
that was given once reaches the form of its login; Kiro is told the dialogue as it was,
and the client what Kiro answered.

`PROJECT.json` lists each component with its status, and under `hazards` each of
the situations above at its line, with the properties that are about it or the
reason that there is none.

## Modules

    OrderStore  <-EXTENDS-  PaymentBridge  <-EXTENDS-  PaymentBridge_proofs, MCPaymentBridge, MCBridgeWebhooks
                            PaymentBridge   -INSTANCE-> CreditLedger
                            PaymentBridge_proofs  <-EXTENDS-  PaymentSettlement_proofs
    AccountLimiter  <-EXTENDS-  AccountLimiter_proofs, MCAccountLimiter
    TokenFiles      <-EXTENDS-  TokenFiles_proofs, MCTokenFiles
    AdminSettings   <-EXTENDS-  AdminSettings_proofs, MCAdminSettings
    ProxyRequests   <-EXTENDS-  ProxyRequests_proofs, MCProxyRequests
    DeviceLogin     <-EXTENDS-  DeviceLogin_proofs, MCDeviceLogin
    KiroDialogue    <-EXTENDS-  KiroDialogue_proofs

**OrderStore** has the orders in memory and `DATA_FILE`; `Create` and `Update` are
operators that change memory and then the file, or memory alone when the save
fails. An order is its payment, code, status, notification and Epay trade.

**PaymentBridge** adds the goroutines. A goroutine is a frame: the step it is at and
its local variables. A call is three steps (made, performed by the other side,
answer used), and other goroutines run in between. YooKassa's payments and New API's
ledger of credits are variables of their own, so that "the customer paid" and "a code
was issued" are facts apart from what the bridge believes. syncPayment is
`YooAnswersPayment`, `StoreUnpaid`, `AlreadyCredited`, `StartCredit`, `NewAPICredits`,
`StoreCredit` and their failures. A crash loses all frames and may leave `DATA_FILE`
truncated; `Restart` loads it.

**CreditLedger** is what the bridge promises, with no webhook, call or file in it:
customers pay, paid orders may be credited, the bridge comes to know of credits and
forgets none while it runs. `ImplementsLedger` is the refinement.

**AccountLimiter** has the limiter as one action per outcome of
tryAcquireAccountSlot (`Admit`, `RejectBusy`, `RejectRate`), each of which prunes,
and `ReadClock` before them as a step of its own.

**TokenFiles** has a file per account, goroutines that read it, call the auth server
or Kiro, and write it in two steps (`Open` truncates, `Write` fills), the scheduler's
scan, and the auth server, which replaces refresh tokens. Two writers that have both
truncated leave one text, the other, or a mix.

**AdminSettings** has the settings file in the same two steps, the handlers that load,
change and save it, the groups that accounts are in, and the cookies of browsers,
which are the secret they were signed with.

**ProxyRequests** follows a request from the choice of its account (`Arrive`, `Take`,
`PassOver`, `Refuse`) over `Serve`, `addRequestHistory` and `Release` to the goroutine
after it (`Reread`, `UsageAnswers` or `UsageFails`, `Persist`,
`updateRequestHistoryCreditsSpent`). An update of credits by the admin or a billing
endpoint is the same code without the request (`Refresh`). `Release` and the goroutine
run in either order. Token files are reduced to their credits and the limiter to its
concurrency; the modules above have them in full.

Token files are written whole, so whoever writes one writes credits too. A token refresh
(`refreshKASToken`, by the scheduler or the admin), toggle, check, `disableBlockedAccount`
and the completion of a file without a key put back those of the copy they have read:
`ReadToken` adds the stored credits to `copies`, and `WriteBack` stores any of these at
any later moment. `PassOver` may do the same with the list that the request has read,
since `accountAvailableForModel` asks Kiro for the models and a blocked account is
written. `SaveAccount` is the admin's form, with any credits or none. All three go through
`WriteToken`, which makes the account `unsure` if what it writes is not what is stored,
nor what Kiro has, nor unknown. That is the one new exception that these writers need:
a refresh that began before a request and ends after it puts back what the account had
before, as `main_test.go:1266` asserts, and credits entered by hand (`README.md:192`) may
be anything.

**DeviceLogin** has three parties. kiro-admin keeps a login per device code
(`oidcLoginSessions`); the two halves of pollKiroOIDCLoginSession are under its mutex
(`LookUp`, one disjunct per outcome, and `StoreToken`), the call in between is not
(`AuthGives`, `AuthGivesNothing`, `AuthFails`). The auth server keeps the state of each
device code and gives its token once. The admin page keeps one form, the logins that an
interval polls and the one it remembers (`authPollTimer`); starts and polls that are
under way go on when the form closes. `Tick` ages logins, and `Restart` forgets them.

**KiroDialogue** follows one client over several turns. A turn is a request
(`Ask`, `ReturnBlocks`, `ReturnMessages`, `ContinueAnswer`), which is converted and told
to Kiro by `buildCodeWhispererRequest`; the frames of Kiro's response, each of which
`convertAssistantEventToSSE` makes an event; and the answer that the client gets
(`EndResponse`, anywhere) or not (`Refuse`). Both answers, the streamed and the
collected, are computed from the same events: `loop` are the variables of
handleNonStreamRequest, `stream` is what a client makes of the events of
handleStreamRequest. That client is a lenient one: all tool calls of a stream come as
block 1, and it takes one that starts after another has stopped as a block of its own.
The answer becomes a message of the next request. `heard` is the
dialogue as it was, against which the request is compared; a message of it is `vague`
where the code is known to put a fixed phrase in its place.

Some variables are history: no action's guard reads them. They say which behaviours a
property excepts, e.g. `overlapped` (two read-modify-writes of a token file overlapped),
`spoiled` (settings were saved from an outdated copy), `unsure` (the credits of an
account cannot be known: its requests overlapped, a call or a write failed, Kiro reset
them, or a token was written with others). The exceptions are the point: they are the weakest found
under which the promise holds, so that each names a hazard the code really has.

## Runs

All passing runs explore their whole state space. Each property of a passing run has
a mutant in `PROJECT.json`: a plausible bug in one mapped definition (the `Bug_...`
operators), under which the run finds the property violated.

| run | question | bounds |
|---|---|---|
| `bridge_faults` | are credits paid for, and receipts true and kept, of two orders, perhaps with one out_trade_no, through a crash, a failed save and a failed call; is an order credited once if its syncs do not overlap; does the bridge implement CreditLedger? | 2 orders, 2 payments, 2 handlers and the reconciler, 3 requests, 1 fault of each kind |
| `bridge_liveness` | is a waiting paid order credited, a waiting expired one canceled, in the end? | 1 order, 3 requests, 2 failed calls, no crash |
| `bridge_webhooks` | (violation) does a repeated webhook create no second code? | 2 handlers, 3 requests, no fault |
| `limiter` | are counts exact and both limits kept, and is the told wait enough? | 3 callers, 1 account, 2 limits, 5 instants with 3 to the second, 3 admissions |
| `files` | does an account stay what it was made, do sessions survive, are they never mixed? | 1 account, 2 handlers and the scheduler, 2 tokens issued, 1 fault |
| `files_liveness` | does the scheduler refresh every account that is due and left alone? | 2 accounts, 1 handler, 1 fault |
| `files_orphan` | (violation) is a deleted account never refreshed again? | 1 account, no fault |
| `files_revoked` | (violation) is every due token refreshed? | 1 account, 3 tokens, no fault |
| `settings` | do password, groups and keys last; do cookies follow the password; has every account its group? | 2 handlers, 2 groups, 1 account, 1 new password, 2 keys, 1 fault |
| `proxy` | are slots given back, costs exact, the richest account chosen, the history saved, and newest first? | 2 accounts with 1 and 2 slots, 2 credits, a history of 2 entries; in four sessions: 3 requests or updates, 2 at a time; 2 of them with 1 fault; 3, one after the other, with 1 fault; 2 with any number of reads and writes of one account's token, in which the history is not cleared |
| `login` | does the token that is given once reach a form; does a form get only the token of a login of its own; can the page clear what it polls? | 2 logins, 2 polls at a time, a lifetime and an interval of 1 tick, 1 fault |
| `dialogue` | is Kiro told the dialogue as it was; do streamed and collected answers tell what Kiro said and called? | 3 APIs, with and without a system message or a greeting; cost 11, where a request costs 3 and a frame 1: three requests with 2 frames, or one with 8 |

Why these are enough. Every hazard of interleaving takes two actors, and a third (the
reconciler or the scheduler) where the code has one; so two handlers besides it. One
fault at every point, with everything else going on, is what makes a step half done.
The bridge's three requests are one to create an order and two to sync it, or two
orders and one sync; the second order is there for what may be mixed up between orders,
and the reconciler syncs both. The limiter's third caller is for the order in which two others pass it. A history of
two entries is full after the second request, and the third drops the older one, with the
newer one still there to be confused with it. Two accounts are enough to choose wrongly,
and two requests for one to be reckoned from what the other left and a writer has put
back in between. The sessions of `proxy` (`Sessions` in `MCProxyRequests`) keep apart what
multiplies the states; a faulty call next to a third request that overlaps is left to the
proofs. Writers stop once the account is unsure, as nothing is claimed of it from there on. Two polls of one login overlap, and the second
login is the one of another form; with a lifetime of one tick a login is new, old or
expired. A dialogue is told wrongly, if at all, in its second or third turn, and a
tool call goes wrong after another one, which six frames are enough for.
Larger bounds were tried where the time allowed.

Deadlock is checked in `bridge_liveness`, in which the reconciler always has
a next round, and in all runs of `TokenFiles`, with the scheduler. It is on in `login`
too, where it says little, as the clock can always tick. It is off where a
crash may leave the bridge down for good (a DATA_FILE that is no JSON stops the start:
`log.Fatal`) and where only the bounds end the behaviours. `settings` ends a behaviour once `spoiled` holds, since nothing
is claimed of it from there on; `limiter` and `proxy` bound their histories and
overlaps in `MC` modules.

### Fairness

`bridge_liveness` assumes weak fairness of the reconciler alone: its ticker fires
(`reconcilePending`), it goes on to the next payment (`ReconcileNext`), and its calls
end (`SyncStep(Reconciler)`). The code justifies this: StartReconciler loops over a
10-second ticker, and the clients of YooKassa and New API have timeouts of 15 seconds.
No fairness of handlers, customers or webhooks is assumed. One call is not covered by a
timeout: notifyEpaySuccess uses `http.DefaultClient`. A New API that accepts this
connection and never answers would stop the reconciler; it is listed as a hazard, and
the fairness assumed here says that it does not happen. Failed calls are bounded by
MaxBadCalls, which stands for "calls do not fail for ever".

`files_liveness` and `files_revoked` assume that the scheduler's goroutine runs on
(weak fairness), justified by startKASTokenRefreshScheduler's ticker and the 5-minute
timeout of outbound calls, and strong fairness of the auth server's answer to a refresh
of each account: one that is asked every minute answers at last. This is an assumption
about the auth server, not about the code.

`login` and `dialogue` state no liveness. Of a login nothing is promised that needs the
admin to approve, the page to stay open and the network to work; what the code must see to
whatever these do is `TokenIsOnItsWay`: the token is never nowhere.

### Where documentation and code disagree

Three runs end in a counterexample to a sentence of the documentation:

* `bridge_webhooks`: a repeated webhook creates no second code
  (`docs/yookassa-bridge.md:92`). Two that overlap do.
* `files_orphan`: a deleted account leaves no task behind (`README.md:107`). A refresh
  under way writes the file again.
* `files_revoked`: tokens about to expire are refreshed (`README.md:105`). A credits
  update that was under way puts a replaced refresh token back, and every later refresh
  fails.

## Proofs

The theorems hold for any sets of orders, payments, accounts, handlers and callers, and
for any values of the bounds. They rest on the assumptions stated in the modules
(`StoreAssumption`, `BridgeAssumption`, `LimiterAssumption`, `TokenFilesAssumption`,
`AdminSettingsAssumption`, `ProxyAssumption`, `LoginAssumption`, `DialogueAssumption`,
and `FileStateAssumption` and `SettingsFileAssumption` about the special values), which
TLC evaluates in the runs.

Where a property excepts behaviours (`overlapped`, `spoiled`, `unsure`), the inductive
invariants say what holds of those not excepted, and the proofs show in particular that
an exception is recorded by the step that starts it: that the exceptions are enough.

**PaymentBridge_proofs.** `TypeCorrect`, `OnlyPaidOrdersAreCredited`, `StoreIsTruthful`,
`NoForeignCode`, `SucceededMeansReceipt`. None but the first is inductive by itself.
That a credit is paid for depends on what a goroutine remembers: it was told "succeeded"
some steps ago. The inductive invariant `IInv` is `TypeOK`, `NothingStoredIsFalse` and
`CreditsArePaidFor`. `NothingStoredIsFalse` says that what a frame holds (`LocalsOK`)
and what an order says in memory and in the file (`RecordOK`) is true: a payment that
succeeded stays so, so an old answer is still true when it is used. Lemmas say that
`LocalsOK` and `RecordOK` survive the steps of others (`LocalsStable`, `RecordStable`);
then there is one lemma per action; `Inductive` puts them together.

**PaymentSettlement_proofs** goes on from there to what concerns several goroutines:
`FileFollowsMemory` (`FileIsCurrent`), `NoUpdateIsLost` (`UpdatesLoseNothing`, an action
property: a save of one goroutine takes nothing from an order that another has stored,
and leaves the very code that is stored unless two syncs of its payment overlapped),
`ReceiptsSettle` (`ReceiptsSettleOrders`), `SequentialSyncsCredit`
(`SequentialSyncsCreditOnce`) and `BridgeImplementsLedger`, the refinement of
CreditLedger. The argument is who works on an order: one handler creates its payment
(`Creators`), it has no other (`OnePayment`), and a payment that was never synced twice
at a time is synced by one goroutine (`SyncedAlone`). So nothing that this goroutine was
told is older than what the order says (`Settles`), what it credits is the order's first
code (`CreditsAreFirst`), and an order that was credited has
its receipt or is about to get it from the one that credited it (`CreditedOnce`), while
no call fails and the process lives. For the refinement each action is a step of the
ledger or a stutter, by what it does to payments, credits and codes alone; that a credit
is due and a code comes from a credit is `IInv`.

**AccountLimiter_proofs.** `LimiterTypeCorrect`, `CountsStayExact`,
`ConcurrencyIsLimited`, `RateIsLimited`, `WaitingHelps`. Counting is by cardinality: an
admission adds one member to `Holding`, a release takes one. `ConcurrencyIsLimited`
counts the line before a request, which only gets shorter. `RateIsLimited` needs
`StartsAreThere`: what was pruned is older than a second for every later clock reading,
if readings are used in order. `WaitingHelps` needs `RoomAhead`: seen from the time that
a caller is told, there is room already now.

**TokenFiles_proofs.** `FilesTypeCorrect` and `SessionsAreNeverMixed`. The strengthening
`Copies` says of every copy of a token, wherever a goroutine or the scan's list holds
it, that its two parts were given together; a file is only ever written from such a
copy.

`DecisionsAreKept` (`DecisionsStick`) and `SessionsAreKept` (`SessionsSurvive`) are
about accounts whose read-modify-writes never overlapped. `Decided` ties every copy of
the account's text, in a goroutine or the scan's list, to what the admin last decided,
and a torn file to the one goroutine that has it open; it needs that the scheduler works
on an account it has taken off its list (`SchedulerAlone`). `Taken` is about refresh
tokens: one that a goroutine brings to the file is honoured by the auth server, and
nobody else holds it from an earlier reading (`FreshOK`); while none brings one, every
copy is honoured (`LiveOK`). It needs the order in which tokens are given (`GrantedOK`)
and that only a check writes a file a second time (`WrittenTwice`).

**AdminSettings_proofs.** `SettingsTypeCorrect`, `SettingsKept` (`SettingsStick`),
`CookiesAccepted` (`SessionsFollowPassword`) and `GroupsOfAccountsExist`
(`AccountsHaveGroups`). `SettingsStick` is inductive only with what handlers have in
their hands: one that nobody has overtaken holds what is decided or will be once it has
saved (`Loaded`), and one that has the file open is alone with it (`OpenedAlone`); the
others are idle or `stale`, and the first of those to save makes the settings `spoiled`.
A cookie is accepted since it was signed with the password it was obtained with
(`CookiesFollow`). For the groups: of two handlers that are sure of their groups one has
been overtaken (`OneIsSure`), a group about to be deleted has no account (`OwnSaves`),
and the groups of accounts are among those decided (`GroupsDecided`).

**ProxyRequests_proofs.** `ProxyTypeCorrect`, `SlotsComeBack` and
`RestartForgetsNothing`. The invariant `Running` adds to the types what each request may
hold at the place it is at: one that has not begun or still chooses has no slot, one
that is served or followed by its goroutine has an account, and requests begin in order.
Most actions move one request on that keeps its slot and account (`MovesOn`), and leave
the slots alone (`Undisturbed`); `Take` adds one to `Holders` and `Release` removes one.
Without `Running` a new request could begin in a record that still holds a slot. The
history file needs only that each of its writers writes what it has put into memory.

`RichestIsChosen` (`RichestServes`) and `SpentIsWhatItCost` (`SpentIsExact`) are about
accounts whose credits are not `unsure`. `Reckoned` says of such an account that one
request at most uses it, that what its file says is what Kiro says or is brought up to
date by someone who is `Behind` it, and that a request's credits before and after it
differ by what it used (`ReckonOK`). Another writer of its token file does not disturb
this (`WritesHarmless`): it writes what is stored, what Kiro has or nothing, or else the
account is unsure from then on. A request that still chooses knows of every account
that is serving (`Seen`), which is why its choice is still the best when it takes its
slot. `Told` carries this to the entries of the history in memory and on disk, which
outlive their requests.

`HistoryKeepsNewest` (`HistoryIsNewest`) was once stated without `Crash`: a step that
removes an entry has put a newer one in front of it. The attempt to prove it showed that
this holds for one fault only, which is the bound of `proxy`. When a write of the
history fails and the process dies before the next one, the restarted proxy has the
older history of the file. The property now excepts a crash while the file is behind
memory.

**DeviceLogin_proofs.** `LoginTypeCorrect`, `TokenArrives`, `FormsGetTheirOwnToken` and
`OneIntervalIsLeft`. `Polling` adds to the types what a poll holds at the place it is
at. `TokenIsOnItsWay` is not inductive: when a token arrives for a login that was
dropped meanwhile, one has to know why it was dropped. `Gone` says it: a login that is
not listed any more has expired or was lost in a fault. For the form, `Watching` says
that whatever may still bring a token to the page (starts, intervals, polls under way)
belongs to the form, which closing it re-establishes for the next one. For the interval,
`OneAtATime` says that while a login is being started no interval is left.

**KiroDialogue_proofs.** `StreamIsTheAnswer` and `CollectedIsTheAnswer`, for responses
of any length. The first is inductive with the types. The second needs `LoopOK`, which
says what the loop of handleNonStreamRequest has in its variables between two events:
the property sees partialJsonStr and toolUseId only when a call ends. One lemma per kind
of frame says what the frame does to the two answers (`Speaking`, `Starting`, `Giving`,
`Ending`), another that this keeps the invariant; the end of a response starts afresh.

`DialogueTypeCorrect` (`DialogueTypeOK`) and `DialogueIsTold` (`ContextIsTold`) are
about dialogues of any number of turns. The invariant `Dialogue` says that the messages
of the client match what was heard, one by one (`HeardBy`), and that Kiro was sent what
the messages say. That an answer matches follows from the two theorems above, at the end
of the response. That the history made of matching messages tells them in order is a
fact about the loop of buildCodeWhispererRequest, shown round by round: after m rounds
it has told the messages `ToldIn(ms, m)`, each at its place (`Tells`, `RoundKeeps`,
`HistoryTells`).

The history and the texts are concatenated by FlattenSeq, a recursive function. What it
returns for sequences of any length is proved without an induction theorem, whose
operator parameter no prover here can instantiate: if something fails for some length
there is a least one (`Least`, from the library's `WFMin` about well-founded relations),
which the step from the length before refutes (`Joined`, `FlattenJoins`, `FlattenTyped`,
`AllRoundsTell`).

Only model-checked, not proved: the liveness properties `PaidOrdersAreCredited`,
`ExpiredOrdersAreCanceled` and `DueTokensAreRefreshed`, since liveness under fairness is
out of the prover's reach. Of the runs that expect a violation nothing is proved.

## Not modelled

Statistics and filters of the history, which are sums and comparisons over a copy of it;
the answers of the models and billing endpoints, which format stored credits; signatures,
the environment, JSON, HTML, the command line. In the modelled parts: timestamps, names and
their sanitising, the contents of requests and answers, expiry of cookies.

In a dialogue: stop reasons (a stream always ends with end_turn, also after a tool call)
and token counts; frames whose length is wrong or whose payload is no JSON, which
ParseEvents skips or stops at; results of tools without a content; bodies that say
"Improperly formed request."; messages whose content is malformed. In a login: what
the page displays, and leaving the page, which ends all it does.

## Plan

In this order; all but the last are done.

1. PaymentBridge with OrderStore and CreditLedger: money first.
2. AccountLimiter.
3. TokenFiles.
4. AdminSettings.
5. ProxyRequests, which composes what the others isolate, in reduced form.
6. DeviceLogin: overlapping polls of one login, its expiry, and the form of the page.
7. KiroDialogue: the conversion of messages and the assembly of answers, in one module,
   since what a turn makes of an answer is what the next turn has to convert.
8. History filters: ranges with and without bounds, against sets of entries.

Every safety invariant and action property that the passing runs check is proved, and the
refinement of CreditLedger.
