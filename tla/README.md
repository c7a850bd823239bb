# hoplink: verification models

TLA+ models of [hoplink](../src/README.md), a relay between MeshCore channels,
Meshtastic channels and Discord. They cover the parts where goroutines, timers,
radios and reconnects meet, and the codecs and checks these rest on. The modules
say what the code does, the TLC runs check it on small instances, and the
`*Proofs` modules prove the main invariants for every value of the constants.

    tlc -config MCDelivery_receipts.cfg MCDelivery     # one of the runs below
    tlapm InboundProofs.tla                            # one of the proofs

Paths below are relative to `src/internal/` unless they start with `cmd/`.

## 1. The system

| Part | State it keeps | Operations | Meets the others through |
|---|---|---|---|
| Delivery pipeline (`bridge/outbound.go`, `delivery.go`, `receipt.go`) | relay queue, delivery records, receipts | Discord message in, chunk sends, retry timers, delivery reports, reactions | one send worker, `time.AfterFunc` goroutines, `Bridge.mu`, `meshcoreTxMu`, `discordReceipt.mu` |
| Inbound MeshCore path (`bridge/inbound.go`) | `recentInbound`, `recentOutbound`, `recentContent`, `scopeHolds` | deliver a raw-log or sync copy, hold for a scope, relay | `RunMeshcore` goroutine, hold timers, the send worker's keys |
| Meshtastic path (`bridge/inbound.go`, `bridge/outbound.go`, `meshtastic/session.go`) | channel table, `textCh`, pending echoes | handshake, frames, texts in, texts out with one retry | `readLoop`, `RunMeshtastic`, the send worker |
| MeshCore session (`meshcore/session.go`, `sync.go`) | `cmdMu`, `respCh`, `syncTrigger`, `channelMsgCh`, device slots | `request`, `readLoop`, `syncLoop`, channel registration | one TCP connection, four requesters |
| Webhook sender (`discord/webhook.go`) | job queue, `closed` | `Enqueue`, worker, `Close` | every relaying goroutine |
| Pacing (`bridge/pacing.go`, `meshcore/airtime.go`) | `lastOwnTx`, recent airtime | `waitForQuietAir`, `noteOwnTx` | `meshcoreTxMu`: worker and retry timers |
| Scope notices (`bridge/scope_notice.go`) | `noticeSent`, `noticeLast` | `maybeScopeNotice`, the sweep | the relay queue, Pacing |
| Process (`cmd/hoplink/main.go`, `bridge/bridge.go`, `corescope/client.go`) | the context, backoffs, sessions, timers, `closed` | dial, serve, back off, signal, `wg.Wait`, `Close`, `sweep` | everything |
| Transports (`meshcore/transport.go`, `meshtastic/transport.go`) | how far a frame is read | `ReadFrame`, `readFrame` | one per connection |
| Codec (`meshcore/packet.go`, `channel.go`, `protocol.go`) | none | build, parse, encrypt, decrypt, match scopes | pure |
| Chunking (`bridge/outbound.go`) | none | `composeChunks` | pure |
| Configuration (`config/config.go`, `bridge.New`) | none that changes | `Load`, `Validate`, the mappings built | pure |
| Discord bot, names and avatars | none that is shared | formatting, the gateway | a library |

What makes each part correct, in a sentence:

- **Delivery**: every chunk of a message settles its receipt exactly once,
  "delivered" only on evidence that meets the mapping's rule, and the message
  ends with one verdict, shown as far as Discord takes the requests; a closed
  bridge stops retrying.
- **Inbound**: a packet is posted and relayed once per mapping that accepts
  its scope, whatever copies come on whichever path; our own packets never are.
- **Meshtastic**: names and slots are never mixed up while sessions change; what
  was buffered is handled; a retry happens if and only if no repeat was heard.
- **MeshCore session**: a requester gets the answer to its own command, every
  message is fetched, other tools' slots stay as they are.
- **Webhook and process**: posts come in order, nothing a mesh brought is refused
  (what comes from Discord while hoplink shuts down may be), an accepted job is
  posted or given up before the exit, a backend that comes back is served, a signal
  ends the process.
- **Pacing and notices**: our transmissions keep apart, none waits longer than its
  cap, every send is made or given up, notices keep to both limits.
- **Transports**: what is read is what was written, between anything else that is
  on the line.
- **Codec and chunking**: texts come back whole, from chunks that fit and packets
  that repeaters have relayed.
- **Configuration**: what is accepted can be served.

`PROJECT.json` lists under `hazards` each place where this can go wrong in a way
a test hardly reaches, with the properties that would notice.

## 2. The modules

| Module | Models | Composes / used by |
|---|---|---|
| `Delivery` | the delivery pipeline | `MCDelivery`; refines `DeliveryReport` |
| `DeliveryReport` | what reactions promise: one verdict, "delivered" only with proof and for good | abstract specification |
| `RetryTiming` | one chunk's retries against the clock and the sweep | discharges `~SlowChains` of `Delivery`; `MCTimers` |
| `EchoRetry` | pending echoes of one Meshtastic text, with the clock | `MCTimers` |
| `Inbound` | deliveries of a MeshCore channel | `MCInbound` |
| `MtBridge` | the Meshtastic session's channel table, texts in and out, changing sessions | `MCMtBridge` |
| `McSession` | requests, read loop, sync loop and registration on one connection | `MCMcSession` |
| `Webhook` | one webhook's queue and worker | extended by `Lifecycle` |
| `Lifecycle` | the process: reconnect loops, signal, shutdown, exit | extends and implements `Webhook`; run directly |
| `Pacing` | listen before talk: worker and retry timers under `meshcoreTxMu` | extended by `Notices` |
| `Notices` | the rate limits of scope notices, their queue, the sweep | extends `Pacing`; run directly |
| `Frames` | both frame readers, byte by byte | `MCCodec` |
| `Chunks`, `Packets`, `Config` | pure: chunking, packets and channel texts, what a configuration gives | `MCCodec` |
| `DeliveryProofs`, `InboundProofs`, `MtBridgeProofs`, `McSessionProofs`, `LifecycleProofs` (with `Webhook`), `NoticesProofs` (with `Pacing`), `CodecProofs` (`Frames`, `Chunks`, `Packets`, `Config`), `TimersProofs` (`RetryTiming`, `EchoRetry`) | theorems | extend the module they are about |

Definitions named `A mutant of ...` stand before the definition they would
replace. They are not part of a specification: each shows that a property fails
if the code had that bug.

### Delivery

A chunk is `<<message, index>>`. Everything done for one chunk runs on one
goroutine at a time - the worker for the first attempt, the timer's goroutine
after that - so `pc[s]` says where it stands. A critical section is one step and
what is called after the unlock is another: `todo[a]` holds the receipt methods
that goroutine `a` still has to call, `http[a]` the reaction requests it still
has to make. That is where `MCDelivery_late.cfg` and `MCDelivery_swap.cfg` find
their counterexamples. `Post`/`Take`/`StartChunk`/`AfterChunk` are
`handleDiscordMessage`, `enqueueRelay` and `sendMeshcoreFrom`;
`AwaitAir`/`Track`/`SendAccepted`/`SendFailed`/`Arm` are
`transmitMeshcoreScoped`; `Fire`/`Callback`/`Check`/`Report` its timer;
`MarkAccepted`/`Settle`/`LateConfirm`/`MakeRequest` are `discordReceipt`, where a
request that fails is only logged: the ghosts `made` and `lost` remember which
returned and which of them had no effect. `ObserveOwnCopy`/`HandleObservation` bring
the evidence; `Sweep` and `SetMeshcoreSession` are the rest of the bridge. `Close`
takes two steps, `Close` and `StopTimers`: a callback that is past its gate when
`closedCh` is closed goes on, and so does a send that is under way. The ghost
`allowed` says which attempt each chunk may then still come to. A failing send may
have aired its packet all the same (`aired`). Time is left out: a timer may fire
at any moment. The price is that the sweep would take records in flight, so
`SlowChains` says whether it may; `RetryTiming` says when it cannot:
`ShortChains`, i.e. `(max_retries + 1) *` the longest attempt `<= inboundDedupTTL`.

### Inbound

`rx` is where the `RunMeshcore` goroutine stands in
`deliverMeshcoreChannelText`: echo check, duplicate check, release of a hold,
content check, fan-out, each its own step because each takes `Bridge.mu` by
itself. Our own sends take the same keys in between. `Relays` covers every order of
the mappings, which is that of the configuration.

### EchoRetry and MtBridge

`EchoRetry` counts time for one key (one text on one channel), where the races
between sends, echoes, checks and sweep are. `MtBridge` leaves time out and has
the sessions instead: a device that is reconfigured while it is away, texts that
were buffered when their session broke, sends that hold a session and a slot
while they wait for the TX guard, retries on whatever session is attached by
then. `handleMeshtasticMessage` is one step there, because of the keys it checks
one after the other a concurrent send touches only its own packet's.

### McSession

The connection is two queues, `toDevice` and `toHost`. `request` is
`Ask`, `Write`, `TakeAnswer`/`Timeout`/`FailClosed`, `Return`. The companion
radio is external and modelled as the package uses it; `Refused`, `Ignored` and
`LateAnswers` say how badly it behaves. An answer carries, as a ghost, the
client it belongs to; the code does not see it.

### Webhook and Lifecycle

`Webhook` is the worker's loop, with `RateLimited`/`Retry` for 429 and `Exit` when
the closed queue is empty. A failed request may have posted its job, but no later
than it fails. `Lifecycle` puts it into the process: a loop per backend
(`Start`/`Connected`/`Broken`/`Sleep`: `runMeshcoreWithReconnect`,
`runMeshtasticWithReconnect` and `corescope.Run` have the same shape, and so one
model), the housekeeping, and `main` (`Waited`/`CloseBridge`/`ExitProcess`). Two kinds
of goroutines post (`Posters`): a mesh's loop while it serves, and those of the
Discord gateway, for the other webhooks of a channel, as long as the process lives,
since `main` closes the bot last. `refused` remembers which of them found the webhook
closed. The exit takes the worker along, wherever it is.

### Pacing and Notices

`Pacing` is `transmitMeshcoreScoped` seen from the air: `Lock`, `Look`, `Wake`,
`Accepted`/`Failed`, on the send worker and on any number of retry timers. Time
is counted in ticks; whether the channel is busy is chosen anew at every look, so
the airtime estimate of `ActivityMonitor` may say anything. `Notices` adds
`maybeScopeNotice`: both entries are taken in `Notify`, before the queue may drop
the notice. `told` is a history of decisions that the sweep does not touch.

### Frames, Chunks, Packets, Config

`Frames` has a line and a reader on it. The radio writes frames; between two of
them any byte of `Strays` may be on the line; the connection may break anywhere,
and the next one has a new reader. Both protocols are instances (`proto`): they
differ in the start of a frame, the order of the length's bytes and what is done
after a false start. `Chunks` sees a name as its number of bytes and a text as
those of its runes. In `Packets` a packet is the bytes of the wire, a cipher text
`<<key, byte>>` and a code the tuple of what it is computed from: nothing
collides. `Config` keeps of a configuration the choices that `Validate`,
`bridge.New` and `main` tell apart. The last three have no behaviour; `MCCodec`
evaluates their properties over tables of inputs, one initial state each, beside
the behaviours of `Frames`.

## 3. What the runs check

| Run | Shows | States |
|---|---|---|
| `delivery_receipts` | receipts are accounted for (`ReceiptAccounting`), `CloseStopsRetransmission`, and `EventuallyReported` (every accepted message comes to bear a verdict, or Discord refused the request) | 714 k |
| `delivery_evidence` | `FinalReaction` (the reactions tell the verdict, and whatever differs is put down to a lost request or an overtaken swap); `KeepsPromise`: `Delivery` implements `DeliveryReport` | 715 k |
| `timers` | `SettlesOnce` of `RetryTiming` under `ShortChains`; `OneEchoOneSend`, `RetriedOnlyUnheard` of `EchoRetry` | 90 k |
| `inbound_copies` | `OwnNeverRelayed`, `HandledOnce` (posted once per mapping, sent once per channel), `ScopesRespected`, `NothingLost`, `MergedWasRelayed` | 2.1 M |
| `meshtastic_moved` | `NamesFollowed` (inwards and outwards), `OwnStaysOut`, `RetriedUnlessRepeated`, `EventuallyHandled` | 184 k |
| `meshtastic_siblings` | `EachServedOnce` (every bridge is served, no channel twice) | 1.1 M |
| `session_prompt` | `AnswersKept` (each command its answer, none missed), `InboxKept` (no message lost, all watched over), `EventuallyServed` (messages fetched, requests return) | 80 k |
| `session_slots` | `ForeignSlotsKept`, `SlotsAreKnown` | 641 k |
| `shutdown` | `InOrder`, `OnlyDiscordRefused`, `EventuallyServed`, `EventuallyExits`, `EventuallyPosted` | 103 k |
| `notices` | `DeferralBounded`, `SpacedUnlessDeferred`, `NoticesLimited`, `EventuallySent` | 156 k |
| `codec` | `CleanStreamRead`, `FrameReadInSync` of the readers; `ChunksCarryAll`, `ChunksFit`; `PacketsReadBack`, `MessagesRecognised`; `AcceptedIsServed` | 101 k |

One run refutes what a comment of the code says; the finding in `PROJECT.json`
quotes the comment.

| Run | What happens |
|---|---|
| `session_clobber` | a late `CHANNEL_INFO` shifts the scan of slots by one; another tool's slot is overwritten |

### Where the properties end

More configurations are kept beside the runs (the module is named before the
underscore), each of which makes TLC violate one property. They mark the
conditions under which the properties above hold, and have no entry under `runs`.

| Configuration | Property | What happens |
|---|---|---|
| `MCDelivery_late.cfg` | `LateEvidenceUpgrades` | evidence between `reportDelivery`'s unlock and its settle (`bridge/delivery.go:235`) calls `lateConfirm` before anything has failed; the warning stays for good, though `receipt.go:9` has it upgraded |
| `MCDelivery_swap.cfg` | `NeverBothVerdicts` | `settle` and `lateConfirm` make their requests after the receipt's lock is released (`bridge/receipt.go:84`); they overtake each other, and both verdicts stay |
| `MCDelivery_shared.cfg` | `NoReceiptLost` | of two identical messages in one second, the one whose first send fails forgets the other's receipt (`bridge/delivery.go:99`) |
| `RetryTiming_long.cfg` | `SettlesOnce` | with the longest retry settings `Validate` accepts, the sweep takes the record (`bridge/bridge.go:637`) and the chunk never settles |
| `EchoRetry_slow.cfg` | `OneEchoOneSend` | `sentAt` precedes the send, the check is timed from after it (`bridge/inbound.go:576`): the sweep takes a pending echo first when `retry_wait_ms` is at the TTL |
| `MCInbound_reattach.cfg` | `SentOncePerChannel` | a session attached between the relay's decision and its sending: two siblings send on one channel (`bridge/inbound.go:189`) |
| `MCInbound_rescope.cfg` | `MergedWasRelayed` | the content key is recorded before `rx_scopes` are looked at (`bridge/inbound.go:140`): a message is merged into one that every mapping rejected |
| `MCMtBridge_rewired.cfg` | `TableKeptLive` | a channel renamed under a live session keeps its old name in the table (`meshtastic/session.go:455`) |
| `MCMtBridge_ownmoved.cfg` | `OwnNeverRelayed` | a text of ours that is heard again after its channel moved to another slot is relayed (`bridge/inbound.go:402`) |
| `MCMcSession_late.cfg` | `AnswersOwnCommand` | a late answer is taken for that of a later command (`meshcore/session.go:313`) |
| `MCMcSession_full.cfg` | `NoAnswerMissed` | a late answer in `respCh` makes the read loop drop the awaited one (`meshcore/session.go:267`) |
| `MCMcSession_error.cfg` | `ForeignSlotsKept` | the radio answers the read of slot 0 with an error, and `RegisterPublicChannel` sets the slot all the same (`meshcore/session.go:530`) |
| `Lifecycle_cutoff.cfg` | `NothingCutOff` | `Close` gives up after five seconds (`bridge/bridge.go:370`), and the exit drops what is queued |
| `Notices_dropped.cfg` | `NoticeQueued` | a full queue drops the notice whose cooldown has begun (`bridge/scope_notice.go:42`) |
| `Notices_bunched.cfg` | `NoticesApart` | notices that waited in the queue go out one after the other: the gap counts decisions (`bridge/scope_notice.go:9`) |
| `MCCodec_banner.cfg` | `StraysSkipped` | a `>` in a boot banner is taken for a marker and costs the frame behind it (`meshcore/transport.go:37`: stray bytes "are skipped safely") |
| `MCCodec_padded.cfg` | `AcceptedIsServed` | `Validate` trims `discord_channel_id` and the webhook URL (`config/config.go:892-898`), `New` does not (`bridge/bridge.go:273`, `283`): with spaces in the id nothing from Discord arrives, with spaces around the URL there is no webhook |

`MessagesRecognised` has such a limit too, without a configuration of its own: with
`TextBytes = {65, 0}` in `MCCodec_samples.cfg`, a text with a zero byte comes back cut
(`meshcore/channel.go:241`).

Where a property is both checked and refuted, the two instances differ in one
condition, which is the interesting part: `~SlowChains`/`ShortChains`, distinct
packets, a session that is not replaced, a mapping without `rx_scopes`, a wait
well below the TTL, answers in time, texts without zero bytes, ids and URLs without
spaces.

### Bounds

Two messages, one of two chunks, with one retry each, are the smallest instance
where chunks of one message race and messages queue; `QueueCap = 1` makes the
queue overflow. The second message cannot be built and bears no reactions, as one
that a mesh brought: that keeps the instance small enough for the liveness check and
fires both paths. `delivery_receipts` has `Close` and one repeater; `delivery_evidence`
has no `Close`, two repeaters, one of them ignored, and one observer, which separate
the delivery rules. Two foreign packets that
share a text and one of our own cover the races of `Inbound`, since packets only
meet through their text; the three mappings accept every scope, the scope of one
packet, and that of the other. `MtBridge` has two sessions, because what outlives a
session meets only the next one, three slots, and two copies of every packet.
`McSession` has all four requesters and `MsgCap = 1`; `session_prompt` has
messages and no channels to register, `session_slots` the converse, with slots for
the scan to be wrong by one.

`Lifecycle` has two loops, one that posts and one that does not, `MaxBackoff = 3`
so that the wait doubles and is capped, and three jobs for a queue of two.
`Notices` has the worker and one retry timer, which is enough for two senders to
meet, and two nodes for the bridge's gap; its cap is shorter than two sleeps, so
that a send may go on it. `Frames` has frames of no, one, 148 and 258 bytes made of
the bytes the readers look for, so that lengths and contents look like starts; two
frames, two stray bytes and one break per behaviour. The chunk tables reach texts
that need every digit count of `(i/n)`, wide runes at the end, names wider than the
limit and 50 pieces that do not suffice, and with the real limit of 150 bytes names of
up to 320 bytes, among them those around `LongestName`; the packet tables every route, hash size
and path limit; the configurations are all choices of one bridge, and all pairs in
what two bridges can share.

In the timed models all times are small numbers with the order the defaults (or,
for the refuted runs, the limits of `Validate`) have. `Horizon`, `MaxMsgs`,
`MaxLate`, `MaxJobs`, `MaxHeard`, `MaxSessions`, `MaxFrames`, `MaxStrays`,
`MaxBreaks` and `Timers` only bound the state space. `CHECK_DEADLOCK FALSE` is set
where all messages may have been dealt with, or the process was closed; in the
`Inbound` runs the sweep and new copies go on, and deadlock is checked.

### Fairness

- `Delivery`: weak fairness of the worker while the bridge is open, of every chunk's
  goroutine (its timer fires) and of pending receipt calls. A request to Discord
  returns, since discordgo's HTTP client has a timeout, but it may always fail. Nothing is
  assumed of the radio or of evidence: sends may always fail, and no copy need ever be
  heard. `Close` may come, and the property says so.
- `McSession`: weak fairness of the goroutines, strong fairness of `Write`: it
  takes `cmdMu`, and Go's mutex does not starve a waiter. The radio answers the
  commands that are not in `Ignored`. A lost connection ends the promise.
- `MtBridge`: weak fairness of the `RunMeshtastic` goroutine only.
- `Lifecycle`: weak fairness of the webhook's worker, whose requests end by their
  10 s timeout and whose waits are capped by `maxWebhookRetryWait`; of every loop's
  steps, of a loop noticing the cancelled context, and of `main`. Strong fairness
  of `Connected` says that a backend that is dialled for ever answers at last; only
  `EventuallyServed` needs it (`EventuallyExits` holds without). No connection need
  break and no signal need come.
- `Notices`: weak fairness of the goroutines and of time, strong fairness of `Lock`
  for the same reason as `Write`. The air may be busy for ever.

## 4. What is proved

All theorems hold for every value of the constants under the `ASSUME`s of the
module, and under what the theorem states in addition.

- `DeliveryProofs`: `TypeCorrectness` (`Spec => []TypeOK`) and
  `CloseStopsRetries`: once `Close` has begun a chunk is retransmitted once more at
  most, and only if its callback was past the gate by then; and no timer is armed once
  `Close` has stopped them. `CloseInv` bounds, for every place a chunk may stand at,
  the attempt it has come to by what `Close` found it at. Then,
  for distinct packets (`DistinctPackets`: no two chunks share one, see
  `MCDelivery_shared.cfg`) and `~SlowChains` (see `RetryTiming_long.cfg`):
  - `AccountingInvariance` and from it `ReceiptsSettleOnce`. `ReceiptAccounting`
    alone is not inductive: a receipt's `pending` falls when `settle` is *called*,
    but who is going to call it is spread over the records, the goroutines' `todo`
    lists and the chunks that have not come that far. `AccountingInv` says for
    every chunk in which of these places its one settlement is, and that `pending`
    counts the chunks that have one.
  - `ReceiptsKeepPromise`: `Delivery` implements `DeliveryReport`, step by step.
    A verdict is taken from counters, a proof from evidence, and late evidence moves
    both at different times. `PromiseInv` ties them: the record of a chunk in flight
    holds all evidence there is, a chunk about to settle as delivered has its proof,
    and of the chunks that ended without one at most as many are missing from
    `failed` as have their failure still to settle, less the upgrade under way. So
    `failed = 0` with nothing pending leaves no chunk without proof.
  - `FinalReactionStands`, with any evidence and any requests that fail. When all is
    over the verdict's reaction is there or its request failed; an accepted reaction
    is left only if the request to remove it failed, an unconfirmed one beside
    "delivered" only if the swap was asked for (and then failed, or overtook the
    reaction it was to remove, `MCDelivery_swap.cfg`); and "delivered" never stands
    for anything else. `ReactionInv` (`ReactionInvariance`) says the same while requests
    are still to be made: each reaction a message bears or lacks is accounted for by
    those that are shown, lost, made, or still in some goroutine's hands.
- `TimersProofs`: `ShortChainsSettle` and `SweepSparesRetries` of `RetryTiming`, by
  `RetryInv`, which bounds the age of the record by the number of the attempt.
  Together with `ReceiptsSettleOnce` this gives: under `ShortChains`, chunks that
  are different packets settle exactly once. Of `EchoRetry`, `OneEchoForEachSend`,
  if sending and waiting fit into the TTL (`EchoRetry_slow.cfg` shows the need):
  `PendingInv` says that the sends on their way and those satisfied are no more than
  the echoes pending and taken, and that whoever is on the way keeps the sweep from
  the entry. And `UnheardIsRetried`, without a condition: `UnheardInv` says that no
  more echoes are pending than attempts went unheard.
- `InboundProofs`: `InboundTypes`; `OwnStaysHome`, `PostsAreSingle`,
  `ScopesAreKept` and `NothingIsLost` without a condition; `MergedRepeats` if some
  mapping names no `rx_scopes` (`MCInbound_rescope.cfg`), `HandledJustOnce` while a
  lost session is not replaced (`~Reconnects`, `MCInbound_reattach.cfg`). All rest on
  `PacketInv` (`PacketInvariance`): between the duplicate check of a packet and its
  fan-out, which are separate critical sections, the packet is known but nothing
  was relayed of it; a hold that is pending is of a known packet; and our own
  packets are known before they air. `NothingIsLost` adds, for every known foreign
  packet, that it was posted to each mapping that may have it, or is held, or stands
  before its fan-out; `HandledJustOnce` that a channel something was sent or queued
  for is not claimed again.
- `McSessionProofs`, for a radio that answers in time or not at all (`Prompt`, i.e.
  `~LateAnswers`: see `MCMcSession_late.cfg`): `AnswersAreKept`, because whoever
  holds `cmdMu` is the only one that waits and at most one command or answer is
  under way, its own (`RequestInv`); `ForeignSlotsAreKept` and `KnownSlots`, if the
  radio does not refuse to show a slot, or the public channel is not configured
  (`SlotsShown`, `MCMcSession_error.cfg`), because every answer to the registration
  tells what its slot holds now (`SlotInv`); `InboxIsKept`, if the radio answers the
  sync command (`SyncServed`), because messages left on it keep a sync going, or a
  trigger or a notification of it on the way. `SessionTypes` needs none of this.
- `MtBridgeProofs`: `MtTypes`; `OwnIsLeftOut` and `RepeatWasHeard` without a
  condition: a key is recorded before the device takes the packet, and until an echo
  was heard no pending echo is taken but by its own send (`CountInv`).
  `NamesAreFollowed` and `EveryBridgeOnce` for a device that is not reconfigured
  under a live session (`~Rewires`, `MCMtBridge_rewired.cfg`): `LinkInv` says that
  the table is the dump of one configuration, in which every text that is buffered
  was heard, `GuardInv` that a send that can still succeed holds the slot its name
  stands for. `NamesAreFollowed` also asks that the primary channel bears one of the
  names that stand for it (`PrimaryWellKnown`): "longfast" resolves to the primary
  channel whatever that is called.
- `LifecycleProofs`: of the webhook, `WebhookInvariance`, and from it `PostsInOrder`,
  `AcceptedJobsKept` and `CloseDrains`; the invariant orders posted jobs, the job in
  hand and the queue into one increasing sequence. Of the process,
  `ProcessImplementsWebhook` - every step of the process is a step of the webhook or
  leaves it alone - so that what is proved of the webhook holds in the process
  (`ProcessPostsInOrder`); and `MeshPostsAccepted`, by `ShutdownInv`: the webhook is
  open while `main` waits, and no loop is left when it does not. So whoever finds it
  closed is a goroutine of the gateway, and comes after every loop has ended.
- `NoticesProofs`: `NoticeInvariance`, and from it `SendsAreNotHeld`,
  `SendsAreSpaced` and `NoticesKeepLimits`. Spacing needs mutual exclusion (whoever
  is between `Lock` and the send holds `meshcoreTxMu`) and, for one about to send,
  what its last look saw, which no other sender can undo meanwhile. The limits
  need that an entry of `noticeSent` is never younger than the last decision,
  and that a sender without one was told before its cooldown.
- `CodecProofs`, of the frame readers: `FrameInvariance`, and from it
  `CleanStreamsAreRead` and `FramesInSyncAreRead`. The invariant says, for a frame that
  began while the reader looked for a start, how the reader's mode, header and body
  follow from the position in the frame; and that on a clean line it always does.
- `CodecProofs`, of the pure parts, where the runs sample inputs and the theorems are
  about all of them:
  - `EveryTextCarried` and `EveryChunkFits`: for every length of the name, every text
    and every limit, however small, `composeChunks` loses and repeats nothing, cuts
    only at a rune and only what 50 pieces need not hold, keeps every chunk within the
    limit unless a rune or the name is wider than the room, and starts no piece before
    it has to. `CutOf` says of every state of the scan of `splitRunesByByteLen` that the
    pieces it has closed are full (`FullPiece`): the next rune would not have fitted. So
    a text that needs more than 50 pieces has at least the bytes `CarriesAll` says. Of
    two scans the one with more room is `Ahead`: it has fewer pieces, or as many and
    less in the last (`MoreRoom`); so if the text fell into fewer pieces than it was
    split for, and their numbers took fewer digits, the loop would have ended before.
  - `EveryChunkSendable`: with `meshcoreMaxChunkBytes` = 150 and runes of up to four
    bytes, every chunk of a message goes into a packet and that into the radio's frame
    exactly if the name has at most 153 bytes (`LongestName`); of a longer name none
    does. `BuildPacket` alone would take 171 bytes of text, but `BuildSendRawPacketFrame`
    takes packets of up to 174 bytes, and a text of more than 155 bytes needs an eleventh
    block of the cipher (`TenBlocks`, `MessageLength`). Nothing in the bridge limits a
    name: a longer one costs its messages their chunks.
  - `EveryPacketReadBack` and `EveryPacketKept`: what `BuildPacket` takes `ParsePacket`
    reads back, whatever payloads are made of, and bytes that parse are those of the
    packet read, if its path and payload are not longer than `BuildPacket` allows.
    `ParsePacket` takes a payload of any length, so the last condition is needed.
  - `EveryCopyRecognised`: every message of at most 171 bytes without a zero among
    them, relayed by any repeaters whose hashes the path can hold (`Relayable`), is
    recognised in each of its copies. The induction is over the repeaters: a relay
    makes of the copy with the path of `i` hops that with the path of `i + 1`.
  - `EveryAcceptedServed`: `Serves` of every configuration, with any number of bridges,
    whose ids and URLs have no spaces around them (`Plainly`).

  `TextsAreCarried`, `TextsFit`, `PacketsAreReadBack`, `MessagesAreRecognised` (if
  `0 \notin TextBytes`) and `AcceptedAreServed` (if `Padding = {FALSE}`,
  `MCCodec_padded.cfg`) draw from these what the runs check; by `StreamsAreFrames` what
  is proved of `Frames` holds in that run too.

  The proof system has no induction that an operator could be handed to. `Induction` is
  therefore proved from finite sets: if a set of numbers has 0, and with each number
  below `n` the next, then all up to `n`, or the successor would map a finite set
  one-to-one into a smaller one. `Recursion` builds, with it, the function that a
  recursive definition describes, and a definition by `CHOOSE` is equal to it.

The conditions above are those of the runs: every instance in section 3 that checks
one of these properties satisfies them.

Only model-checked: all liveness (`EventuallyReported`, `EventuallyServed`,
`EventuallyHandled`, `EventuallyPosted`, `EventuallyExits`, `EventuallySent`), since
liveness under fairness and `ENABLED` are not within the prover's reach. Of the
inductive invariants, TLC checked each on the instance of its run before it was proved.

## 5. What is not modelled

- `ActivityMonitor` (`meshcore/airtime.go`): the airtime of a frame and the share
  of busy air are arithmetic over real numbers; `Pacing` lets them be anything.
- Ciphers, MACs and hashes as numbers: `Packets` keeps apart what may collide in one,
  two or four bytes; channel names and keys derived from them.
- The fields of companion frames in `sync.go` and `protocol.go` and the envelope of
  `ParseLogRxData`: fixed offsets, without a choice.
- JSON and YAML parsing (`corescope.ParseMessage`, `config.Load`), defaults and the
  limits of numbers, but for those that are `ASSUME`s of a module.
- The Discord gateway (`discordgo`), names and avatars (`sender_format.go`,
  `avatar.go`): external, or wording.
- Node names and `sentIDs`/`ackIDs` of the Meshtastic session, and the RF-log
  channel of the MeshCore session: they reach only wording or logs, or may drop.
- The `SELF_INFO` handshake of `meshcore.Dial`, before any goroutine runs.
- `meshtastic/generated`: generated code.

## 6. Plan

Done, in this order, by how much depends on it: `Delivery` with its receipts,
`RetryTiming`, `Inbound`, `EchoRetry`, `McSession`, `Webhook`, `MtBridge`; then
`Pacing` and `Notices`, `Lifecycle`, `Frames`, and `Chunks`, `Packets` and `Config`.
Next:

1. An abstract "each mapping gets each message once" specification that
   `Inbound` and `MtBridge` both implement.
2. A composition of `McSession`'s registration with `Inbound`'s slot lookup, and of
   `Lifecycle`'s loops with the sessions they serve.
3. Proofs: `NothingIsLost` with the reasons for which a message is left out made part
   of the statement; the abstract specification of 1.
4. `ActivityMonitor` in integers, with the rounding the code has.
