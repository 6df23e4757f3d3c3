# Signari in TLA+

Signari is a self-hosted identity provider. Its engine (`src/engine`, Go) serves OAuth 2.0, OpenID
Connect, SAML, SCIM, remote access to desktops and an administration API from one PostgreSQL database.
Several engine processes may run against that database at once; a Laravel console (`src/admin`) and a
Terraform provider are clients of the administration API. What is hard to get right is therefore not
in one process but between them: requests, janitor passes and delivery workers whose transactions
interleave at READ COMMITTED, and processes that stop half way. Remote access adds a browser library
of its own kind of concurrency: events, timers, images that load late, and a tunnel with three parties
that may each end it.

| Part | Source | Modules |
|---|---|---|
| delivery of queued notices | `outbox/drain.go`, `outbox/worker.go`, `outbox/cibapush.go` | `Outbox`, `OutboxContract`, `OutboxProofs`, `MCOutbox` |
| codes, refresh and access tokens | `store/codes.go`, `refresh.go`, `revocation.go`, `httpapi/flow.go`, `tokenadmin.go` | `Grants`, `GrantContract`, `GrantsProofs`, `MCGrants` |
| the audit trail | `audit/*.go`, `auditsink/pump.go` | `Audit`, `AuditProofs`, `MCAudit` |
| the beginning and end of sessions | `store/sessions.go`, `sessionlimit.go`, `httpapi/flow.go`, `adminapi`, `directory`, `scimsource.go` | `SessionEnd`, `SessionEndProofs`, `MCSessionEnd` |
| remote access: the session | `httpapi/rac.go`, `rac/proxy.go`, `rac/client.go`, `rac/static/guacamole-common.js` | `RemoteSession`, `RemoteSessionProofs`, `MCRemoteSession` |
| remote access: keyboard and mouse | `rac/static/guacamole-common.js`, `rac/client.go` | `Keyboard`, `Mouse`, `PageTunnel`, `PageInput`, `KeyboardProofs`, `MouseProofs`, `MCPageInput` |
| remote access: the display | `rac/static/guacamole-common.js` | `Display`, `MCDisplay` |
| remote access: one canvas | `rac/static/guacamole-common.js` | `Layer`, `LayerProofs`, `MCLayer` |

(Paths are under `src/engine/internal/`.) `PROJECT.json` maps each definition to its lines, and lists
every component of the repository, the runs, the mutants, the hazards, the findings and the theorems.

## How the parts interact

A sign-in (`completeSignIn`) writes a session and an audit entry in one transaction. Authorizing a
client records it in `session_clients` and issues a code. Redeeming the code mints tokens tied to the
session. `TerminateSessions` reads `session_clients`, queues notices and events in `core.outbox`,
revokes the sessions and their refresh families; the outbox workers then deliver. Every operation
appends to the audit chain in its own transaction, so the chain lock is the point through which they
all pass. `SessionEnd` ends where `Outbox` begins (a queued notice), and the families of an ended
session are in `Grants`; these modules are not composed.

A remote access session is a page whose script connects a WebSocket to the engine, whose handler dials
guacd and copies in both directions. What the user types and points at goes up (`PageInput`, which
composes `Keyboard` and `Mouse` over one connection), what guacd draws comes down: `RemoteSession`
says how long it lasts and how it ends, `Display` when an instruction is drawn, `Layer` what drawing
does to a canvas.

## The database

Transactions run at READ COMMITTED. A statement sees what is committed when it starts and what its
own transaction has written. An `UPDATE` waits for the rows that others hold and then looks at those
rows again, but not at rows it joined. A failed statement aborts the transaction, and the `COMMIT`
that follows rolls it back. The modules model a transaction as a process that carries what it has
read, locked and written; the tables change when it commits. Rolling back, locks and commits are
PostgreSQL's and are mapped as external.

## Outbox

Topics and the workers, one per engine process, that drain them, a topic at a time. `ClaimSelect` and
`ClaimCommit` are the two halves of `claimTopic`; `StartPost`, `PostOK`, `PostFailed` are `drainTopic`
posting at most `Concurrency` rows at a time; `RecordDelivered` and `RecordFailed` are its third
phase. A failed POST may have been processed all the same. `Crash`, `StatementFails` and `Restart` are
faults. `next_attempt_at` is kept as the time still to wait, and `Tick` lets time pass: where
`setting.stalls` is false only POSTs take time, and never longer than the client's timeout; where it
is true a process may be suspended anywhere. `NoBackoff` holds the topics whose `drainSpec` sets no
backoff: CIBA push, for which `RecordPanics` takes the place of `RecordFailed`.

| Run | Checks | Shows |
|---|---|---|
| `outbox` | `NoRowClaimedTwice`, `ParkedAtMaxAttempts`, `AttemptsBounded`, `NoPostAfterDelivered`, `AtLeastOnce`, `TopicsIndependent` | the lease is long enough; without timing there are duplicates, never a loss, and a bounded overshoot; one topic's panics do not hold up the other |
| `outbox_push_settles` | `EveryNoticeSettles` (violated) | finding 1 |

*Bounds.* Two workers and two rows: both of one topic and no process suspended, or one each of two
topics and processes suspended anywhere. `MaxAttempts` 2, one POST at a time of 1 time unit, lease 3,
backoff capped at 2, one fault. A batch of two takes two waves, so the lease is as tight as
`LeaseAssumption` allows; two attempts exercise retry and parking, and the second worker can hold the
row that the first lost. *Fairness*: the ticker of `Run` fires while the process lives, the HTTP client
has a timeout, a supervisor restarts a process that ended, time passes (weak); a worker gets round to
every topic that has rows (`ClaimSelect`, strong for each topic: `Run` drains the topics in a fixed
order on each tick, and starts again with the first, the logout notices, after a push has ended the
process).

## Grants

A request is a process. A *mint* is one run of `mintSet`: an access token and, with `offline_access`,
a refresh token. `ConsumeCode` to `MintTokens` is the redemption, `RotateRefreshToken`, `RotateRow`,
`MintFromGrant` the refresh (split where the `UPDATE` waits, because the joined rows are not looked
at again), `RevokeFamilyForCode` and `RevokeFamilyByToken` what a reuse does, then
`CommitRevocation`. `Authorize` and `IssueCode` are apart, as the session check and the insert are.
`WriteStatus` stands for SCIM and the directory sync, `PurgeExpiredCodes` for the janitor.
Introspection is three reads on three connections. The purge of the denylist is left out: `denied` only
grows, and an entry is purged only when its token has expired.

| Run | Checks | Shows |
|---|---|---|
| `grants` | `ReuseKillsLineage`, `IntrospectionSound`, `OneLineagePerCode` | redemption, refresh, every kind of revocation and introspection at once; refinement of `GrantContract` |

*Bounds.* One code, three mints (a lineage of three, or two lineages), two requests at a time: one that
acts and one that replays, revokes or looks. Requests begin again when they end, so longer histories
are reached. Symmetry over requests and mints. `ReuseKillsLineage` excepts a code that was `overlooked`:
the janitor deleted its row after `ConsumeCode` had seen it and before `RevokeFamilyForCode` joined it, so
the `UPDATE` matched no family, and the reuse was answered and audited with nothing revoked. The property
says that only a purged code is, and a later reuse that is caught ends it. `CodeRedeemedOnce` and `LineageIsLinear` are
proved and need no run.

## Audit

An entry is its id, and `prev_hash` the id it is the hash of: `entry_hash` commits to the whole
record, so a different record has a different hash. `Operate`, `ChainLock`, `ReadHead`, `Insert` are
`Write`, which a transaction may call more than once; `PublishFails` is the publisher failing on the
database. Ids come from a sequence that a rollback does not turn back. `DeclareCheckpoint` and
`CountEntries` are the statements before the checkpoint's own `Write`; the export is up to three
statements; a forwarder reads the cursor, fetches, emits and advances. A trail may begin with links
left by a version that took no chain lock (`LegacyPrev`, `docs/audit-chain-fork.md`).

| Run | Checks | Shows |
|---|---|---|
| `audit` | `ChainNeverForks`, `StreamMissesNothing`, `CheckpointRestoresExports`, `LogNeverWedged`, `EveryEntryStreams` | two transactions, two forwarders and the export on a forked trail, safety and progress |

*Bounds.* Ids up to 4 with a forked trail at the beginning, two forwarders and batches of up to two.
Two transactions are enough for one to hold the lock and append while the other waits, commits or rolls
back; the last id shows a gap that a rollback left. *Fairness*: a transaction that holds the lock
goes on and ends (weak, of `ReadHead`, `Insert`, `CommitAborted`, and of its commit or rollback); of the
lock itself nothing is assumed, neither that one that waits for it gets it nor that it gives up, so
`LogNeverWedged` rests on the holders alone; timers fire (weak), and the sink and the cursor's row are
reachable again and again (strong fairness of `Emit`, `Advance`).

## Sessions

A process is a request or a janitor pass in one transaction. It starts with the sessions or users it
is to end, and for each makes the call of `TerminateSessions`: `Snapshot` (clients, and a notice for
each), `QueueEvents` (CAEP), `Destroy` and `LockRows` (the `UPDATE`, which waits). A sign-in ends the
presented session, then `EnforceSessionLimit` refuses or picks the oldest, then it commits with its
new session. `Authorize` and `TouchSessionClient` record relying parties, in two steps as in the
code. `DeactivateQuietly` is the directory sync and SCIM PATCH and DELETE, `DeactivateStatusOnly`
SCIM PUT, re-provisioning and erasure. Sessions are numbered in the order of `auth_time`.

| Run | Checks | Shows |
|---|---|---|
| `session_told` | `KnownClientsTold`, `DeactivationIsFinal` | overlapping terminations and rollbacks lose no notice; a deactivation that ends sessions outlives reactivation, with status-only writers around it |
| `session_limit` | `NeverBothLive`, `OvershootIsBounded`, `ExpiredSessionsEnd` | two sign-ins at a time, under `deny` or `evict_oldest` as each finds it, pass the limit by one at most; a sweep in batches of one does not starve the rest |
| `session_quiet` | `EveryClientTold` (violated) | finding 2 |
| `session_over` | `LimitHolds` (violated) | finding 3 |

*Bounds.* One session open at the start and one or two more, two processes, at most one client. With
`Limit` 1 and two sign-ins at a time (`SignIns`) the limit can be passed by one, and the third sign-in then
finds more sessions than the limit allows, as after it was lowered. With one sign-in at a time
`OvershootIsBounded` says what `LimitHolds` does; `session_over` shows `LimitHolds` violated by two.
`DeactivationIsFinal` speaks of the writers that end sessions; the status-only ones take part but leave
the sessions (`StatusWriteEndsSessions`, below). *Fairness*: the janitor's ticker
keeps firing and its passes do not fail for ever (a pass that commits having found nothing left to
revoke is not a failure, and may recur); the lock manager serves waiting transactions in turn; a
request that holds rows ends.

## Remote access: the session

`b` is the browser (page, client, tunnel, socket, timers), `s` the engine (handler, row, audit trail,
goroutines, WebSocket), `g` guacd. An event in the browser runs to its end and is one action:
`SocketOpens`, `SocketMessage`, `SocketClosed`, the four timers (`PingFires`, `UnstableFires`,
`ReceiveFires`, `KeepAliveFires`), `Input`, `Click`, `PageHide`. The handler is a sequence of steps
(`Admit`, `Dial`, `StartRACSession`, `Accept`, `Hello`, `Returned`, `EndRecord`, `AuditEnd`,
`CloseWebSocket`, `Release`) between which the goroutines of `Proxy` (`Up`, `Down`), the network and
guacd act. `Crash` ends the engine. The checks that precede the dial are one refusal. Each write to the
database (the two audit entries, the row and its end) may fail; the code logs it and goes on, and
`s.lost` records it.

| Run | Checks | Shows |
|---|---|---|
| `rac_session` | `TypeOK`, `ClosedStaysClosed`, `HiddenOnlyWhileOpen`, `HandlerLeavesNothing`, `FirstReasonRecorded`, `AllOfItEnds` | whoever ends the session, tunnel, client and page agree, row and trail lack only what failed to be written, and goroutines and guacd's connection go |

*Bounds.* One input in flight (more changes nothing: the goroutine reads them one by one), one burst
from guacd, which `ReadFrame` may cut in two, of one or two instructions: a desktop that stays, one that
fails, and an end with an instruction still behind it. `Failing` says which writes of a session fail
together. *Fairness* (weak): the handler and the
goroutines are scheduled and their calls return (the handshake has a deadline; guacd reads what is
written to it or goes away), and the browser is given what was sent. No timer, user or network is
assumed to do anything: `AllOfItEnds` begins when one of them has.

What the model shows beside its properties: "Recorded BEFORE anything is opened" (`httpapi/rac.go:132`)
is an attempt to record, since `auditDetached` returns no error ("The operation these accompany has already
been refused", `httpapi/correlation.go:91`, which this one has not), so a session may run that the trail
does not have; the page never closes its socket with a status, so
`NormalClose` is never what the engine sees (`rac/proxy.go:31`); the text of an error is overwritten by
"Disconnected." when the close follows; a regular close by the server leaves the page silent
(`rac/client.go:49`); a send on a socket that is still connecting throws and leaves the client
DISCONNECTING; the row of a session stays open when the engine dies or its `UPDATE` fails; a guacd that
stops reading blocks the upward goroutine until it goes.

## Remote access: keyboard and mouse

`Keyboard` has one action per event handler; the record `kb` is what `Guacamole.Keyboard` keeps and
what it told the host. A keydown that cannot be interpreted yet waits in `kb.log` for the keypress or
keyup that follows, and `interpret_events` interprets until an event has to wait. What
a browser reports for a key depends on the platform, the modifiers and dead keys, and may be lost
(`KeyUpLost`), happen elsewhere (`KeyElsewhere`) or be rewritten by an input method. `RepeatStarts` and
`RepeatTicks` are the two timers. `Mouse` has one action per listener; buttons and moves may happen
where the page does not see them (`ButtonElsewhere`, `MoveElsewhere`), the display changes its size and
so its scale (`Resize`). One dimension stands for both. `PageTunnel` is what the two share: until it
opens, `sendKeyEvent` and `sendMouseState` drop what they are given, although the page listens from the
start. `early` holds the keysyms pressed since before, whose press the host never got. The closing of the
tunnel, after which nothing is sent, is in `RemoteSession`.

| Run | Checks | Shows |
|---|---|---|
| `page_input` | `TypeOK`, `RemoteHoldsWhatIsPressed`, `NoKeyLeftHeld`, `RemoteSeesButtons`, `NoButtonLeftHeld`, `PressIsWhereItPoints` | the host holds what the page believes is held, but for keys held since before the tunnel opened, and, when the user holds nothing, nothing |

*Bounds.* Six keyboards of one to five keys, three held at a time, on five platforms: between them
deferred Meta, dead keys, AltGr typed as Ctrl+Alt, Caps Lock and two Shift keys. Two of them (`Hasty`)
are typed on before the tunnel opens as well. All keyboards of four keys were checked once in a run of
their own. The mouse has a
primary button and one the page does not know, three positions, a display narrower and one wider than
the window, and wheel events in pixels, lines and pages; it is used beside a keyboard of one key, since
the two share only the connection. `NoKeyLeftHeld` excepts what the code does not cover: a key that
auto-repeats with another character; the left Shift, pressed for the flag of a key without a keysym where
the user holds the right one, or has let go of the left one after the right one was let go unseen (both
`shadowed`); and modifiers on iOS. `NoButtonLeftHeld` excepts a
button whose mouseup fell among the events ignored after a touch (`missed`). `PressIsWhereItPoints`
excepts a display that changed its size under a pointer at rest.

## Remote access: display and layers

In `Display` a handler looks up its layer at once and schedules a task; `Sync` makes the tasks so far a
frame; `Decoded` unblocks a task; `AnimationFrame`, and every flush while the page has no focus, renders
the frames that are ready. The model keeps beside it what a client that drew on arrival would show
after each sync. `Layer` has one action per group of drawing methods over a canvas and its context:
sizes rounded up to `CANVAS_SIZE_FACTOR`, `empty`, `pathClosed`, `stackSize`, and what the browser
throws away when a canvas changes its size.

| Run | Checks | Shows |
|---|---|---|
| `display` | `TypeOK`, `ScreenIsAFrame`, `AcksAreShown`, `ReadyFrameIsRequested`, `EveryStreamAnswered`, `EveryFrameShown` | the screen is always a frame the server sent, in whatever order images load and the focus comes and goes |
| `layer` | `StackMirrorsContext`, `BaselineIsClean`, `ResizeKeepsPixels` | the layer's records of its context stay true, and a resize keeps the picture |

*Bounds.* Display: three operations, two syncs, two blobs, in eight workloads that pair the kinds of
instruction that touch the same state; two layers and a buffer. Three operations let one wait for an
image, one overtake it if it could, and one name a layer that was disposed of. Layer: a factor of 2 and
four by one pixels, so that a size may change within a block or across one; one saved state; two
rectangles, one channel mask beside the default, two raster operations. *Fairness* (display, weak): the
browser makes animation callbacks while the page has the focus and goes on loading images.

What the models show beside their properties: a bitmap that `createImageBitmap` rejects never unblocks
its task (`EveryFrameShown` excepts it); a resize within the same block resets the composite operation
which the comment next to it says is preserved; a layer that sizes itself inside a path discards the
path; growing within a block may uncover pixels drawn before it shrank. `createLayer` takes the
display's size when the instruction arrives, not when it is drawn: a layer created while a resize of the
display waits for its frame has the old size until the server sizes it, and `ScreenIsAFrame` excepts the
size of such a layer (`stale`).

`Display` takes every task to return. In the code a task that throws ends the flush of its frame before
the callback that acknowledges it, and the tasks behind it are lost: `Layer.resize` of a layer that is not
empty to a size of zero, whose copy the browser refuses (`threw` in `Layer`), and "lstroke", whose handler
calls `strokeLayer` with fewer arguments than it takes (`guacamole-common.js:3233` against `:5376`). Nor does
`Display` grow a buffer that is drawn on; that is in `Layer`.

## Where code and comments disagree

Three disagreements are runs that TLC must refute; `PROJECT.json` quotes the lines.

1. A CIBA push that fails once is never settled: the topic has no backoff and the call panics
   (`outbox/cibapush.go:92` against `outbox/drain.go:41`).
2. The directory sync and SCIM end sessions without telling relying parties (`directory/apply.go:110`,
   `store/scimsource.go:327` against `store/sessions.go:13`).
3. Two overlapping sign-ins pass the session limit (`store/sessionlimit.go:59` against `:34`).

The others are stated in the modules as properties that the code does not have. TLC refutes each when
it is made an invariant of the run named, or a property of it where it is an action formula
(`RevocationSurvivesAuditFailure`, `StatusWriteEndsSessions`).

| Property | Run | What happens | Against |
|---|---|---|---|
| `FamiliesFollowSession` | `grants` | a refresh family minted while its session is terminated stays unrevoked (and cannot be used: rotation and introspection look at the session) | `store/sessions.go:203` |
| `RevocationSurvivesAuditFailure` | `grants` | a failed audit insert rolls back the revocation of a reused code | `httpapi/flow.go:618` |
| `IntrospectionAgreesWithRefresh` | `grants` | after a status-only deactivation introspection reports active what the refresh grant refuses | `httpapi/tokenadmin.go:385` |
| `SkippedCountsPredecessors` | `audit` | a checkpoint's count misses entries that precede it | `audit/checkpoint.go:81` |
| `SubscriptionsCannotStopOperations` | `audit` | a subscription that cannot be enqueued aborts the operation being audited | `audit/audit.go:226` |
| `OneForwarder` | `audit` | every engine process runs a forwarder | `migrations/core/0107_audit_stream_cursor.sql:15` |
| `EveryClientTold` | `session_told` | a relying party recorded while its session is being ended is not told | `store/sessions.go:300` |
| `ToldOnce` | `session_told` | two overlapping terminations of one session notify twice | `store/sessions.go:65` |
| `OldDiesWithNew` | `session_limit` | a sign-in refused by the limit still ends the session its browser presented | `httpapi/flow.go:1741` |
| `StatusWriteEndsSessions` | `session_told` | SCIM PUT, re-provisioning and erasure deactivate and leave sessions, which work again after reactivation | `store/scimsource.go:323` |
| `NewLayersFitTheDisplay` | `display` | a layer created while a resize of the display waits for its frame has the old size | no comment; what the server has in mind (`rac/static/guacamole-common.js:4601`) |

## What is proved

TLAPS checks the theorems for every value of the constants that satisfies the named assumptions
(`OutboxAssumption`, `GrantsAssumption`, `AuditAssumption`, `SessionAssumption` and those of the remote
access modules: types, finiteness and disjointness). `LeaseAssumption`, that the waves of a batch take
less time than the lease, is used for the timed properties of the outbox and nowhere else.

*Outbox.* `TypeCorrect`; `NeverFalselyDelivered`; `Overshoot`; `ChargesAreFailures`;
`DrainsImplementContract`; `LeaseOutlastsBatch`; `ParksInTime`; `DeliveredStays`.
`DeliveredWasReceived` is not inductive: a worker that believes a POST succeeded must be right
(`WorkersHonest`), and rows not yet queued must be uncharged for the refinement. `Overshoot` rests on
`ChargesLeft`: the attempts of a row plus the workers that hold it exceed `MaxAttempts` by less than
the number of workers, since a claim needs attempts below the limit. That the lease outlasts the batch
is an argument about waves (`OnSchedule`): at a time e after the claim, every wave k with (k - 1) *
`HTTPTimeout` < e has begun with `Concurrency` rows, as long as rows are left to be posted. It is
preserved because time passes only while as many POSTs as allowed are in flight, none at its timeout:
when wave k should begin, all rows of the waves before it have returned and `Concurrency` others are in
flight. So the last row begins before the last wave should end, all have returned within `Waves` *
`HTTPTimeout`, and until then the row is not due. The other two follow from being alone with a row.
That a claim takes at most `Batch` rows (`FirstRowsBounded`) is by the pigeonhole principle on the rank
of a row.

*Grants.* `TypeCorrect`; `CodesAreSingleUse`; `LineagesDoNotFork`; `ReplayIsFatal`;
`ActiveMeansActive`; `GrantsImplementContract`. The invariant adds that whoever holds a code or token
is alone (`LocksHeld`), that parents and families are consistent (`Descent`), and that a reuse in hand
is about a code already consumed, whose families it will revoke (`ReuseInHand`): a family can only be
minted by the one redemption, which has already committed. One that found no row is about a code that was
purged, which stays `overlooked` unless another reuse of it has been or is caught. `ActiveMeansActive` uses monotonicity:
revocations never go away, so reads that pass later were true earlier.

*Audit.* `TypeCorrect`; `AppendsNeverFork`; `CheckpointsNeedBreaks`; `NothingIsSkipped`;
`CheckpointsWork`; `CursorOnlyAdvances`, an action property. Only the lock holder has read a head or
inserted (`LockHeld`), and its pending entries follow the log (`PendingFollows`). From that, commits
are always at the end of the log (`CommitsAtTheEnd`), which is what lets a cursor over a sequence miss
nothing.

*Sessions.* `TypeCorrect`; `NoticesPrecedeRevocation`; `ReauthenticationReplaces`;
`DeactivationEndsSessions`; `LimitKept`. The invariant
follows a request through its calls (`EndInv`): every session it revoked, or found and waits for, has
its known clients queued; the presented session is to be ended, is being ended, or has ended by its
hand or another's committed one. Revocation being monotone and waiting for the other's commit are what
make the last case safe: a transaction that skipped locked rows would break it, and is a mutant.
`LimitKept` needs to know, of each sign-in between the statement that counts and its commit, how many live
sessions there will be that are neither held by it nor chosen to end (`Left`). `FirstOfLeaves` counts what
is left once the oldest are chosen, by the pigeonhole principle: fewer than the limit. After that only the
commit of another sign-in adds one. The invariant (`LimitInv`) therefore speaks of an order of the sign-ins
that are past the limit (`Ordered`, the order in which they counted): those left to one of them, with one
for each that counted before it and is still under way, are fewer than the limit and the other sign-ins
together (`Room`). Since at most `SignIns` are under way (`Few`) and each commit takes itself out of the
order, the bound survives every commit.

*Layer.* `TypeCorrect`; `StackIsCounted`; `ResetFindsCleanState`; `EmptyLayersAreBlank`;
`SpentPathsStayClosed`; `ResizesKeepPixels`. One lemma per method says that it keeps a layer `Sound`:
the stack has as many states as the layer counts, the one at the bottom has no transform and no clip,
and nothing is painted on an empty layer. `EmptyMeansBlank` is what makes `ResizesKeepPixels` true,
since `resize` copies nothing from a layer it takes to be empty.

*Keyboard.* `KeyTypeCorrect`; `HostAgrees`; `InferredGoToo`, for every set of keyboards and platforms.
The lemmas go up the calls of the code (`ReleaseAgrees`, `PressAgrees`, `ResetAgrees`, `SyncAgrees`,
`AltgrAgrees`, `AcceptAgrees`, `InterpretAgrees`, `HandleAgrees`): each keeps what the host was told
(`Told`) within `pressed`, empty before the tunnel is open, and short of `pressed` by at most `early` once
it is. That a handler leaves at most one event in the log, one that must wait
(`Waiting`), is part of the invariant: it is why interpretation stops, and why the loop needs no
induction.

*Mouse.* `MouseTypeCorrect`; `ButtonsAreSent`; `NoButtonStays`; `WheelFollowsHand`;
`PressesAreInPlace`. The invariant (`MouseInv`) adds that nothing was sent before the tunnel opened,
that no button is held while the pointer is outside, where its mouseup would not be seen, that
scrolling left over is less than a click, and that the position is the pointer's once a movement was
handled.

*Remote session.* `TypeCorrect`; `ClosedTunnelStaysClosed`; `StatusLineShown`; `NothingLeft`;
`FirstReasonCounts`; `ReportsNeverWait`, whatever guacd sends, however much of it, whatever the browser
does and whichever writes fail. `Progress` says for each place of the handler what it has
done so far. `FirstReasonRecorded` is not inductive without it: the goroutine that did not stop first
may report while the row is being written, so the reason taken has to be tied to the head of the
channel until then. Steps of the browser and the network keep what these theorems look at
(`OutsideKeepsCore`). For the browser's half the invariant (`SessionInv`) ties the tunnel to its socket and
the status line to what has been sent. `HandleMessage` is a recursive function over the message: that it
exists, and that each instruction keeps the invariant (`MessageHandled`), is by induction on the length,
from the lemma `Induction` on sets of naturals.

*Only model-checked.*
- Liveness (`TopicsIndependent`, `LogNeverWedged`, `EveryEntryStreams`, `ExpiredSessionsEnd`,
  `EveryFrameShown`, `AllOfItEnds`): fairness is beyond this prover.
- `Display`: rendering is a fold over frames of tasks, and what it computes for every sequence is an
  induction over data.
- The first conjunct of `NoKeyLeftHeld`, which depends on what each browser loses; its second,
  `InferredNeverAlone`, is proved.

Leaves that need no arithmetic cite `Zenon`: the SMT translation slows down with the size of a module,
and these proofs do not depend on it. Type invariants and other properties that have a theorem and no
run (`DeliveredWasReceived`, `ChargedOnlyForFailure`, `CodeRedeemedOnce`, `LineageIsLinear`,
`CheckpointsPastBreaks`, `CursorNeverRewinds`, `EmptyMeansBlank`, `SpentPathIsClosed`, `MouseTypeOK`,
`WheelTurnsOneWay`) were checked by TLC on the instances of the runs too.

## What is not modelled

The contents of tokens, notices, entries and exports; validation of a request (PKCE, DPoP, scopes),
which appears as a refusal; cryptography and codecs; PostgreSQL's deadlock detector (a wait may end by
a rollback at any time, so its effect is there). Of the browser library: what the page does not create
(session recordings, the HTTP tunnel, touch input, the on-screen keyboard) or the handshake rules out
(audio, video: `rac/handshake.go` offers no types), `exportState` and `importState`, `display.cancel`,
statistics, output streams, and the keyboard's input and composition handlers; colours and the second
dimension of the mouse. Webhooks, the device grant, multi-factor, recovery, signing keys and the other
components that `PROJECT.json` lists as `not_modelled` have no module; the note of each says why.
