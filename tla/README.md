# Autonomy pod controller: TLA+ models and proofs

This directory specifies the pod controller of the Autonomy wallet: a Go
service that runs next to a bitcoind, receives encrypted "whisper" messages over
a websocket from the pod's owner and the members the owner appoints, and drives
bitcoind and a small service `bitcoind-ctl` on their behalf. The models are
translated from the Go source under `src/`; bitcoind, `bitcoind-ctl`, the
messaging library and the API server are not in the repository and are modelled
from how the code uses them (marked external in `PROJECT.json`).

    tlc -config MCController.cfg MCController.tla     # and so on, one per .cfg
    tlapm ControllerProofs.tla                        # and the other *Proofs

## 1. The system

| Component | Source | State | Operations |
|---|---|---|---|
| Access control lists | `acl.go` | none (tables) | `HasCommandAccess`, `HasBitcoinRPCAccess` |
| Store | `store.go` | bolt buckets `bindings` and `members`, on disk | set, read and complete a binding; set, read and remove a member |
| Command handler | `controller.go`, `response.go`, `key/sign.go` | `ownerDID`, `LastActiveTime`, the store | `Process` and the ten commands it dispatches to |
| Bitcoind control, suspending goroutine | `controller.go:462-520`, `main.go:76-104` | bitcoind up or down (external), `LastActiveTime` | start, stop and status requests; check, status, stop and sleep of the goroutine |
| Wallet creation | `controller.go:265-400`, `gordian_key.go` | wallet in bitcoind (external), key file | `createWallet`, `createOrLoadMasterKey` |
| PSBT completion | `controller.go:402-446` | none of its own | `finishPSBT`: sign, finalize, broadcast |
| Bitcoind RPC client | `bitcoind/` | none | `Call`, `rpcCall`, `GetTransaction`, `GetRawTransaction` |
| Connection loop | `main.go:54-75`, `143-236` | websocket, `addKey` channel, interrupt | authenticate, register, connect, receive, refill pre-keys, reconnect, shut down |
| Pod identity and token renewal | `identity.go`, `main.go:106-139` | key file, `authToken` | create or load the key, `Auth`, renew the token |
| Transaction notification | `notification.go` | none | `transactionNotify`: three lookups, then one POST |
| Binding tool | `commands/binding-tool/` | websocket, keys of the client | the client side of the handshake, membership and wallet commands |
| Key and path encodings | `utils/base58.go`, `utils/descriptor.go`, `key/sign.go` | none | Base58, DID text, derivation paths |
| Random bytes | `utils/bytes.go` | none | nonces, the pod's key |
| Configuration, store mock | `config/`, `store_mock.go` | none | not modelled: reading of YAML; generated test double |

How they interact:

- `main` authenticates the pod (`identity.Auth`), starts the suspending, the
  token-renewing and the HTTP goroutines, then connects and loops: it takes one
  message from `ws.WhisperMessages()`, calls `controller.Process`, sends what
  it returns, and signals the refill goroutine over `addKey`. Commands are
  therefore handled strictly one after the other.
- `Process` is the only user of the store. It shares `LastActiveTime` and
  `bitcoind-ctl` with the suspending goroutine.
- bitcoind is used by `Process` and by the notification handler, stopped and
  started through `bitcoind-ctl`; a call may therefore meet a bitcoind that
  went away since the previous call of the same command.
- `authToken` is written by `Auth` in the renewing goroutine and read by the
  connection loop, the refill goroutine and the notification handler.
- The binding tool and the pod only share messages. A message can be lost,
  delayed until after a reconnect, or come after its sender gave up on it.

What is hard here, and what makes each part correct:

- *Handshake and membership* (sequences of legal commands from several DIDs,
  repeated and stale messages): nobody is bound or appointed unless the owner
  made it possible; nobody raises their own access; a binding once complete
  stays; access ends at once when it is taken away; a failed command has changed
  nothing.
- *Suspending* (a check, a request and a stop in three separate steps against a
  message loop that starts bitcoind in between; failing requests): a client that
  is active keeps its bitcoind but for one stale stop; an unused bitcoind is
  stopped in the end.
- *Wallet creation* (seven requests and two file operations, any of which may
  fail or be the last before a crash): file and wallet hold the same key, the
  first import is final, success means success, retries get there.
- *Connection* (retries, reconnects, refill goroutines that outlive their
  connection, an interrupt heard at one place only): closed channels are never
  used, goroutines end, pre-keys are renewed, an interrupt ends the process,
  and a pod that is not interrupted gets connected again.
- *Identity and token* (a start that dies while it writes the key file; a
  renewing goroutine whose request can fail or never end, and a string that
  nothing synchronises; a token that grows old while the pod connects): the pod
  serves only under a key that is on disk and keeps it; a token expires only
  when failing and slow renewals have taken all but one interval of the time in
  which it was due; no token, torn or expired, keeps the pod unconnected for
  ever.
- *Spending* (three requests, a lost answer to the broadcast): success means
  that the transaction is broadcast, and that the pod's signature, if any was
  missing, was made with the key on disk; failures and crashes do not keep it
  from being broadcast in the end.
- *Notification* (several lookups while bitcoind and the network go on): what is
  posted has every address that bitcoind tells and says nothing that was not so.
- *Binding tool* (the next message is taken for the answer, whatever request it
  answers; there is no timeout): what the tool reports is true, an
  acknowledgement may be repeated, and its user gets bound in the end.
- *Encodings* (zeros in front, variable lengths, numbers that wrap): texts and
  bytes correspond one to one, a DID is that of one key, and a path of
  plain decimal indices is derived as it is written.

`PROJECT.json` lists every hazard found in the source at the line where it
bites, with the property that would catch it, or why none does.

## 2. Plan

Written, in the order of importance:

1. `ACL`, `Store`, `Controller` (which EXTENDS them in that order),
   `MCController`, `AccessControl` (the abstract specification of
   `Controller`), `ControllerProofs`.
2. `Suspender`, `SuspenderProofs`.
3. `Wallet`, `WalletProofs`.
4. `Connection`, `ConnectionProofs`.
5. `Spending`, which EXTENDS `Wallet`, and `Notification`, which EXTENDS
   `Spending`: the three users of bitcoind together; `NotificationProofs`.
6. `Identity`, and `Pod`, which composes it with `Connection`: the process of
   `main.go` without the inside of `Process`; `PodProofs`.
7. `Handshake`, which EXTENDS `Controller`: the binding tool, the command
   handler and the messages between them; `HandshakeProofs`.
8. `Encodings`, `MCEncodings`; `EncodingsProofs`.

Nothing of the plan is left open. What could be added is listed in section 6.

## 3. The modules and the code

### ACL, Store

`ACL` holds the constants and tables of `acl.go` value by value. A mode outside
the table has no allow list at all, as a Go map read yields the zero value.
`Store` has one operator per method of `BoltStore`. A bolt transaction is atomic
and durable, so an operator is part of one step and a crash needs no action: the
database after a restart is the database before. An absent binding record and
the empty string it is read as are one value, `Nil`. `StoreAssumption` says only
that the record `"true"`, nonces and absence are different things and that modes
are integers: a nonce is eight hexadecimal digits.

### Controller

One step `Process(src)` is the handling of one message in `Process`
(`controller.go:85-176`), and `Send` is `main` sending its result
(`main.go:224-227`). `Refuse` is the two checks at the head (access mode and
binding state, which `Admitted` combines), `BadArguments` a failed decoding,
`Fail` a failed random source or bolt transaction. Then there is one action per
command: `bind`, `bindACK`, `setMember`, `removeMember`, `bitcoinRPC`, and
`delegate` for the five commands that leave the database alone (the inside of
`create_wallet`, `start_bitcoind`, `stop_bitcoind` and `get_bitcoind_status` is
in `Suspender` and `Wallet`, that of `finish_psbt` in `Spending`).

*The network is open.* The source, the command and all arguments of the next
message are chosen freely, at every step. That is more than lost, duplicated,
delayed and reordered messages can do, so what is shown holds for all of them.
What a whisper message cannot do is claim another source: its session belongs
to its sender. A signature is a pair of the key that made it and the nonce it
covers, and verifies against that pair alone (the timestamp is signed and sent
but never compared with anything). bitcoind's answers are data, an error or,
when the answer is not JSON, the panic in `ObjectResponse` that `Process`
recovers from by returning nothing; `create_wallet` returns nothing, too, when
`getwalletinfo` tells no `keypoolsize_hd_internal` (`controller.go:303`).

*Atomicity.* One goroutine calls `Process`, it calls the store in sequence, and
no other code opens the database; between its first check and its last write
nothing else happens that the store or the reply could tell. Hence one step.

### AccessControl

What the handler promises, without messages: `Complete` may bind a DID that is
the owner or holds one of the three modes, and only once; `Grant` and `Revoke`
need a bound DID that is the owner or has the full mode; nothing else changes
either. `Controller` maps `bound` to the DIDs with a completed binding and
`grant` to the bucket `members`.

### Suspender

`Receive`, `Request`, `Return` are the message loop with one command; `Check`,
`Status`, `Stop`/`StopRejected`/`StopFails`, `Wake` are the goroutine of
`main.go:77-103`; `Tick`, `StartupDone` and `Restart` the environment. Time is
minutes since `LastActiveTime`, which `Return` (the deferred function of
`Process`) sets to zero. `StopFails` kills the process: `stopBitcoind` returns a
nil response with its error and the goroutine reads `resp.StatusCode`. A request
and its effect at `bitcoind-ctl` are one step; a request that times out and
takes effect later than that is not modelled. `staleStops` is a history variable
for one property. A race on the three words of `LastActiveTime` between
`Process` and the goroutine is not modelled: both values it can mix are recent
ones.

### Wallet

One call of `createWallet` is followed request by request: `GetWalletInfo`,
`GetBlockChainInfo`, `CreateOrLoadMasterKey` and `WriteMasterKey` (the file is
created empty before the key is written to it), `CreateWallet`,
`GetDescriptorInfo`, `ImportDescriptors`, `Return`. `Fail` is the failure of any
of them without effect, `AnswerLost` one with its effect, `Crash` the end of the
process anywhere: of the process, not of the machine, as the code does not ask
for the file to be flushed to disk. `call` holds the local variables. The wallet
in bitcoind is missing, unloaded or loaded; error -18 of `getwalletinfo` does
not tell the first two apart, `createwallet` fails unless it is missing, and
because `load_on_startup` is false a restarted bitcoind has it unloaded.
Descriptors that bitcoind does not accept are rejected in the *result* of
`importdescriptors`, which the code does not read: hence `Ranged`. Only the
wallet `gordian` is modelled.

### Connection

The main goroutine is one variable `main`: `AuthSucceeds`, `AuthFails` and
`AuthGivesUp` are the loop at `main.go:60-74`, whose last turn ends the process
before it asks again; `RegisterAccount`, `RegisterKeys`, `NewWSClient` and
`Retry` the loop at `main.go:160-182`, which does use its last turn;
`ReceiveMessage`, `ReceiveNil`, `ReceiveInterrupt`, `Process` and `Signal` the
message loop. `RefillKeys`, `RefillFails`, `Wake` and `RefillEnds` are the
goroutine at `main.go:189-200`, one for each connection; the send to the
unbuffered `addKey` succeeds only when that goroutine waits. `Exit` ends all
goroutines at once, as `log.Fatal` and the return from `main` do. The queue of
the connection is a number, since `Process` is modelled elsewhere; its last
element is the nil message of a closed connection. Whether a goroutine that
outlives its connection still can register keys with the closed client is the
library's business: both outcomes are possible. The waiting between attempts is
not a step of its own; the token that the requests carry is in `Pod`.

### Spending, Notification

`Spending` puts `finishPSBT` beside `createWallet`: `FinishPSBT` begins a call,
`WalletProcessPsbt`, `FinalizePSBT` and `SendRawTransaction` are its requests,
and `WalletStep` lets the steps of `Wallet` go on, where a new command waits for
the other to end, since the message loop handles one at a time, but bitcoind may
be restarted meanwhile. What a PSBT `lacks` is all of it that matters: the
pod's signature only, one of somebody else, or nothing at all. `finishPSBT`
looks at `complete` alone (`controller.go:414`), so a PSBT that the other
cosigners have completed passes a wallet without descriptors and is broadcast
without the pod's key. `tx` is the transaction as the network has
it. bitcoind accepts a broadcast again while the transaction waits in the memory
pool and refuses it once it is confirmed: the client whose answer was lost
(`BroadcastAnswerLost`) is told of success by a retry that is early enough, and
of an error for ever by a later one. Success is therefore trustworthy, an error
is not.

`Notification` adds one handler of the HTTP server of `main.go:139-152`:
`TransactionNotify` is the request of bitcoind, `GetTransaction`,
`GetVinAddresses` (once for each input), `Prepare` and `Post` are the rest of
`transactionNotify`, and `ReplyWithError` ends it anywhere. `Addressed` are the
inputs for whose output bitcoind tells an address; the others add nothing to the
list, silently, which is no error of the code's (`notification.go:113-127`). A
transaction without details for the wallet panics in `Prepare`, and gin's server
drops the request. Handlers write nothing that they share, so that one of them
stands for all; what is lost by that is the order of two posts, which the code
does not care for either: a handler that began before the confirmation may post
after the one that began later. A post that fails is not tried again.

### Identity, Pod

`Identity` has the key file and the token. `OpenKeyFile` and `SaveKey` are the
creation and the writing of the file (a start that dies in between leaves it
`partial`, and every later start panics on it), `LoadKey` the other branch of
`CreateOrLoadPodIdentityFromKey`. Time passes in ticks, of any length; a token
is the number of them that it stays valid. `Check`, `Renew` and `RenewFails` are
the goroutine of `main.go:108-137`: the sleep of `Interval` ticks (a minute in
the code, where `RenewBefore` is ten) begins after `Auth` has returned, and
`Tick` lets any amount of time pass before it does. `excused`, a history
variable, is the time since the last renewal that went into waiting for answers
and into the sleep after a failure. The goroutine waits for a token while there
is none, and panics on a text it cannot parse; `Auth` stores whatever an answer
with status 200 carries, an empty text included. `AuthToken` is what a reader
gets: while `Auth` may be storing another token, also a mixture of two strings,
which is no token.

`Pod` composes it with `Connection`. `Boot` precedes the authentication of
`main`, `PodAuthSucceeds` gives the process its token and starts the renewing
goroutine, `PodReceiveNil` and `PodAuthSucceeds` read the token for the next
connection (`clientToken`) and `Request` uses it through all retries of that
connection, however old it gets. `PodRefillKeys` reads it anew.
`ProcessEnds` takes identity and token away with the process, whichever
goroutine ends it: one of `Connection`'s, a failed start (`BootFails`), or the
renewing goroutine (`RenewPanics`).

### Handshake

One run of the binding tool is `Run`, which sends one request with any argument
(the tool counts its arguments and does not look at them: an empty nonce is
sent, and a text that is no nonce does what a wrong one does), and `Take`, which
takes the next message for its answer: the tool compares no identifier. `Kill`
is a user who interrupts a run (the tool waits without a timeout), or a closed
connection. The pod's side is `Controller` itself: `Handle` takes the oldest
request from the queue and applies the action of `Controller` that fits it,
`set_member` and `remove_member` of a client who may send them included;
`Answer` sends the reply, `OwnerCommand` lets the owner appoint and remove the
client meanwhile. The queues are the messaging library's and the server's: they
keep the order, and `Lose` loses any message, at the pod, on the way, or with a
process that dies. What the functions of the tool take for success differs, and
is translated one by one (`bindTakes`, `bindACKTakes`, ...). `noted` is what the
user copies from one run to the next, `trusted` whether it came from an answer
to that very `bind` and no `bind` was run since, `current` whether the newest
message in transit is of the run in progress: with it `result.fresh` tells a run
that got its own answer from one that took an older message.

What the tool is told is true of a fresh answer only. A run that was killed
while its answer was under way leaves that answer to the next run, which leaves
its own to the one after: from then on every run may be one answer behind, and
nothing in the code ends that. `EventuallyBound` therefore excludes leftovers
from some time on.

### Encodings

Base58, the DID of a key and the derivation path of a descriptor as operators,
translated function by function. A behaviour of the module makes an input, one
symbol after the other, so that the invariants are checked on every input up to
a length. The sizes are constants: bytes of two bits and an alphabet of three
characters have all the cases of 256 and 58. The loops of the code are recursive
functions (`Digits`, `Number`, `Components`), which the proofs can reason about.
A number of a path is a text: a sign, a notation and digits.
`big.Int.SetString(p, 0)` takes the base from the notation, so that `010` is
read as eight, `0x10` as sixteen and `008` as no number (underscores, which it
allows too, are left out). The code of the key type is assumed not to be zero
(`multicodec.Secp256k1Pub` in `key/sign.go`, which is 0xe7): zero has no digits,
so that `PutUvarint` as it is written here would give no byte for it.
`binary.Uvarint` refuses more than ten bytes, which the model does not: it
accepts texts that the code does not, all of them in the exception below.

`DIDIdentifiesKey` and `DerivesAsWritten` have the exceptions that the code has:
a key type written with more bytes than needed is accepted, so that a key has
more than one DID text; and of a path only the numbers are promised that are
indices in plain decimal. One that is negative, or that is 2^31 or more, is
taken modulo 2^32 (`ParseDerivationPath`), so that it names the key of another
path, and one with a zero in front or a prefix is derived in another base (`010`
as the index 8) than bitcoind, which gets the descriptor as it was sent, reads
it in: the key in the descriptor is then not the one on the path beside it. The
greedy expression that looks for the path accepts a descriptor only if the key
of the pod comes last: with another key after it, what is between the brackets
is parsed too and is no number.

## 4. What the runs show

| Run | Checks | Shows |
|---|---|---|
| `controller` | `TypeOK`, `OwnerFirst`, `ReplyTellsStore`, `ServedOnlyWhileEntitled`, `BoundForever`, `OnlyFullAccessChangesMembers`, `FailureChangesNothing`, `AccessSpec` | under every sequence of messages the handshake and the membership do what the list in section 1 asks, and the handler implements `AccessControl` |
| `suspender` | `TypeOK`, `AtMostOneStaleStop`, `EventuallySuspended` | the window between check and stop costs an active client its bitcoind at most once; once the client is silent, bitcoind ends up stopped for good |
| `wallet` | `NotificationTypeOK`, `WalletKeyIsStored`, `SuccessMeansImported`, `SentMeansBroadcast`, `PostsWhole`, `KeyNeverReplaced`, `FirstImportStays`, `EventuallyImported`, `EventuallyBroadcast` | interrupted anywhere, `create_wallet` never loses or replaces a key, never reports success over a wallet without descriptors, and is completed by a retry; `finish_psbt` reports success only for what is broadcast and gets there in the end; a notification leaves out nothing because a request failed and is true, whatever goes on beside it |
| `connection` | `PodTypeOK`, `SignalsOpenChannel`, `IdentityOnDisk`, `ExpiresAfterFailures`, `QuietAfterClose`, `RefillGoroutinesEnd`, `KeysRefilled`, `InterruptEnds`, `KeyFileKept`, `StaysConnected` | no channel is used after it is closed and no goroutine stays behind, however connections come and go; dropped signals do not keep the pre-keys from being renewed; an interrupt is heard as soon as the command in progress returns; the identity survives every crash of a start; the token is renewed in time, however long the requests take; the pod gets connected again, with whatever tokens the server gave it |
| `handshake` | `HandshakeTypeOK`, `OkMeansBound`, `NotedIsPending`, `AckMayBeRepeated`, `EventuallyBound` | what the tool reports of a fresh answer is true, though messages are lost and runs killed; after a `bind` an acknowledgement may be lost, mistyped and repeated until it is accepted; the user gets bound |
| `encodings` | `Base58Bijective`, `DIDIdentifiesKey`, `DerivesAsWritten` | the three encodings keep what they encode, on every input up to the bounds (and, by the proofs, of any length), with the exceptions above |

Runs that find a disagreement between the code and its own comments or
documents (each a finding in `PROJECT.json`):

| Run | Property | What happens |
|---|---|---|
| `controller_ack_nonce` | `AckChecksNonce` | a `bind_ack` without any `bind` is verified against the empty nonce and completes the binding |
| `controller_answers` | `EveryMessageAnswered` | a proxied call whose answer is not JSON gets no response message |
| `suspender_inactive` | `ClosedOnlyIfInactive` | bitcoind is stopped under a client whose command has just returned |
| `suspender_survives` | `ChecksContinuously` | a failed stop request ends the process |
| `wallet_create` | `CreatesOnlyIfMissing` | a wallet that exists but is not loaded is created again, which bitcoind refuses, so that `create_wallet` fails until somebody loads the wallet |
| `connection_restarts` | `EndsOnlyAfterRetries` | one failed refill of the pre-keys ends the process, where authenticating and connecting are retried |

`EventuallyImported` is stated with the two exceptions that the code really has:
a wallet left unloaded (the run `wallet_create`) and a key file that a crash
left without a key, which every later call rejects. `EventuallyBroadcast` has
the same two, and `StaysConnected` the one of the pod's own key file.

### Bounds

- `MCController`: the owner and two other DIDs, so that an appointed member can
  appoint and remove another, itself and the owner. Two nonces, so that a second
  `bind` voids the first. Modes -2 and 3 lie outside the table on either side,
  0 and 2 have different lists (1 has the same lists as 2). One RPC method of
  the full list and one of none. The properties relate at most two DIDs and one
  nonce at a time. No constant is a symmetry set: the runs take seconds.
- `Suspender`: `Duration = 3`; time is counted to one minute past it, beyond
  which the code cannot tell the difference. Any number of commands, failures
  and restarts. `staleStops` stops at 2, one past what the property allows.
- `Notification`: two keys, so that a second draw would show; two acceptable
  descriptors, so that a second import would show, and a rejected one; two
  inputs, so that the second lookup may fail after the first, of which one has
  an address. Any number of calls, notifications, failures and crashes; one
  transaction, since nothing relates two. `wallet_create` has the same bounds
  for `Wallet` alone.
- `Pod`: two clients alive at once, so that the goroutine of a closed
  connection lives next to a new one (a third connection waits for a goroutine
  to end, or the attempt fails: goroutines end within seconds, and nothing
  relates three of them). Three attempts: a first, a middle and a last one. Two
  messages in the queue of `connection_restarts`, where one waits while another
  is processed; in the queue of `connection` one, since a message that is being
  processed has left it. One key: a file is replaced or kept whatever key is in
  it, and the mutant that creates it anew shows on one. A token is valid for
  five ticks and due in the last four, and the goroutine sleeps two: a new token
  is not due at the first check, a request that is answered at once leaves room
  for another before the token expires, and one that takes a tick or two does
  not. Any number of connections, failures and restarts. `CHECK_DEADLOCK` is
  off because the process ends when it is interrupted.
- `Handshake`: the owner and one client, which are all that a handshake relates;
  two nonces, so that a second `bind` voids the first; two messages in transit,
  so that one of an earlier run may come before that of the present one. Any
  number of runs, losses and appointments. Six of the commands stand for all:
  the four that change the store, the one whose errors the tool prints like
  data, and one of those that leave the store alone.
- `MCEncodings`: all bytes up to length 5, all texts up to 7 (as long as what 5
  bytes give), all descriptors of up to 4 parts, with the numbers 0, 3, 20, 41,
  -1, 010, 008 and 0xc for an index of five bits: negative, too large, in every
  notation that differs from decimal in a way of its own (0o10 and 0b10 are read
  like 0x10 but for the base), and none at all. `CHECK_DEADLOCK` is off because
  an input of the full length has no successor.

### Fairness

The safety runs need none. `Suspender!Fairness`: the Go scheduler runs each
goroutine that can run and every HTTP request ends, by the ten-second timeout of
the client (`WF` of the steps); a minute passes and a `sleep` ends; bitcoind
finishes starting; a dead process is restarted, as deployments of this
controller do. `bitcoind-ctl` may fail arbitrarily often but not always: the
`SF` of a truthful status and of a served stop is what the code relies on when
it tries again every minute. Commands of the client have no fairness.

`Wallet!Fairness`: a call ends, which presumes that bitcoind answers or breaks
off, since its client has no timeout (`bitcoind.go:50-57`); the client calls
again with an acceptable descriptor; of infinitely many attempts at a step some
succeed. A failing step is always possible next to a succeeding one, so only
strong fairness excludes that it fails for ever.

`Spending!SpendingFairness` is the same for `finish_psbt` and a client that
calls it again with a PSBT the wallet can complete.

`Pod!PodFairness`: the main goroutine and each refill goroutine are run, a dead
process is restarted, and the requests of the messaging client end one way or
the other, by the ten-second timeout it is given. `Auth` uses the default HTTP
client of Go, which has none: nothing is assumed of a request that waits in
`Auth`, neither of `main` before its first token nor of the renewing goroutine.
Nothing is assumed of `Process` either: a bitcoind that accepts a request of
`create_wallet` or `finish_psbt` and never answers it holds up the message loop,
and an interrupt with it. So `InterruptEnds` says that an interrupt is heard if
every command returns (`ProcessReturns`), and `StaysConnected` has the same
hypothesis. During the first `Auth`, before `signal.Notify`, an interrupt ends
the process at once. A message and an interrupt may be ready together for ever,
and Go's `select` takes either with the same probability: hence `SF` of
`PodReceiveInterrupt`. That requests are not refused for ever is an assumption
of the one property that needs it, `StaysConnected` (`Succeeds`); the interrupt
is heard without it.

`Handshake!HandshakeFairness`: the pod is given messages in their order and its
commands end; the user tries `bind` again and again, goes on with `bind_ack`
after a "bind ok", and gives up a run when nothing of it is in transit any more;
the network and the pod do not fail on every request and answer of a kind.
Nothing is assumed of the order of these: nonces may be voided any number of
times.

## 5. What is proved

The TLA+ proof system checks the following for every set of DIDs, nonces, modes,
keys, descriptors and clients, every duration, retry count, token lifetime,
reserve and check interval, number of inputs, size of byte and alphabet and
length of a text, from the named assumptions of the modules alone.

- `ControllerProofs`. The inductive invariant is `TypeOK /\ OwnerFirst /\
  ReplyTellsStore /\ ServedOnlyWhileEntitled`. `OwnerFirst` is what carries it:
  a sender that is not the owner passes the access check only with a member
  record, so by `OwnerFirst` the owner is bound already when a second DID begins
  to bind; it needs `TypeOK` because a record written by `bind` must not be
  mistaken for `"true"`. A lemma on the shape of the commands says which bucket
  each may change, from which state, and what it replies; the steps of all other
  theorems are cases of it. The theorems are type correctness, the invariants,
  `BoundForever`, `OnlyFullAccessChangesMembers`, `FailureChangesNothing` and
  the refinement of `AccessControl`: every command maps to `Complete`, `Grant`,
  `Revoke` or a stutter.
- `SuspenderProofs`. `AtMostOneStaleStop` is not inductive: a second stale stop
  has to be excluded while the goroutine is between its check and its stop.
  The strengthening adds that after the first one, and until the client has been
  away for longer than `Duration` again, the goroutine is not in that window:
  it enters it only through a check that finds the client away.
- `WalletProofs`. Two auxiliary invariants carry the four safety properties. By
  `KeyInv` the key in `call` is the key in the file from the moment it is read
  or written, and the file is empty while it is being written. By `FlagInv` the
  flags computed from `getwalletinfo` still agree with the wallet when they are
  used: a call that is about to import has found nothing imported, and a
  call that skips the import has found it done. Only one call runs at a time,
  and restarts of bitcoind only unload the wallet, which is why they do.
- `NotificationProofs`. As far as the variables of `Wallet` go, a step of
  `Notification` is one of `Wallet` or none: `WalletBeside` proves
  `NotificationSpec => Spec`, which turns every theorem of `WalletProofs` into
  one about the composition that the run checks. On top of the invariant of
  `Wallet`, `NInv` follows the transaction: what is being finalized or broadcast
  needed no signature of the pod's or was signed by a wallet whose import is
  done, and what the handler has seen of
  the transaction may be old but was so. `NotificationTypeCorrect`,
  `SpendingCorrect` and `PostsCorrect` are its consequences; the last is for any
  number of inputs.
- `ConnectionProofs`. The inductive invariant is `TypeOK /\ SignalsOpenChannel`:
  the message loop runs exactly while the channel of its client is open. With it
  `QuietAfterClose` is an invariant of steps: only `Signal` lets a goroutine
  register keys, and it signals an open channel. `TypeOK` includes that no
  retry loop exceeds its count.
- `PodProofs`. `Pod` does not implement `Connection`: its start and its renewing
  goroutine can end the process, and a request waits for a valid token. The
  lemma `LoopStep` says that this is all, and the invariant of
  `ConnectionProofs` carries over. `ExpiresAfterFailures` needs `RenewalInv`,
  which ties the age of the token to the time that was lost: what the token has
  left, with what is excused and one interval, is the reserve at least, and
  while the goroutine sleeps, more than that by what it still has to sleep. No
  relation between the lifetime of a token and the reserve is assumed; for a
  shorter token the reserve is its lifetime. `IdentityOnDisk` needs that the
  file is empty as long as the key is being saved.
- `HandshakeProofs`. `Handle` and `OwnerCommand` are steps of `Controller`, so
  its invariant carries over, although the owner is bound from the start. `HInv`
  adds what is in transit. `AnswersInv`: a "bind ack ok" is true however old it
  is, because a binding stays. `NewestInv`: while `current` holds, the newest
  message of the three places (the requests, the reply of the pod, the answers)
  belongs to the command the tool waits for, and when it is a challenge that has
  left the pod, its nonce is the pending one: no request can be behind it that
  would void it. `ResultInv`: after a fresh answer nothing is in transit, so
  that nothing can void what it said until the next run. `AckRepeatable` rests
  on `TrustInv`: after an answered `bind`, and until the next, no `bind` is in
  transit, so that what remains can complete the binding but not void the nonce.
- `EncodingsProofs`. What is proved is about the loops, so it needs induction
  over numbers and sequences. The induction theorems of the library take an
  operator as a parameter, which the provers cannot instantiate; here induction
  is stated over sets (`Induction`, `StrongInduction`, `SeqInduction`) and
  follows from the least element of a set, which the library's `WFMin` gives.
  With it each recursive function is shown to exist and to have the values its
  equation says (`NumberValues`, `DigitsExpansions`, `ComponentsBeginnings`).
  `Base58Bijective` rests on two facts: a number has one representation without
  zeros in front (`NumberOfDigits`, `DigitsOfNumber`), and a sequence of digits
  is its zeros in front and such a representation (`LeadingZerosSplit`); so a
  conversion to another base and back is the identity (`ConvertBack`), and both
  directions are conversions. For `DIDIdentifiesKey` the bytes of the key type
  are followed to where the first byte without a flag ends them
  (`ReadKeyType`), and of two varints of one number the shorter is the one
  that is written (`ReadOnlyKeyType`). For `DerivesAsWritten`, which is about
  indices in plain decimal, a key that comes
  after the one of the pod would be a component and is no number, so that an
  accepted path is the one after the last key.

Model-checked only: the liveness properties (`EventuallySuspended`,
`EventuallyImported`, `EventuallyBroadcast`, `RefillGoroutinesEnd`,
`KeysRefilled`, `InterruptEnds`, `StaysConnected`, `EventuallyBound`), since
fairness and `ENABLED` are beyond the prover, and the runs that show a
disagreement. Every other property that a run checks is a theorem.

## 6. What is not modelled

- `config/` and logging: reading of YAML and of flags. The values that matter
  are constants.
- `store_mock.go`: generated, and used by tests only.
- Cryptography: signatures are perfect, keys and nonces are drawn from sets that
  do not tell how. Hashing and the elliptic curve have no behaviour that a
  state machine would show.
- HTTP and JSON encodings beyond success, failure, and the one encoding that
  panics; what `bitcoind/` and `response.go` do besides is to hand on.
- The messaging library's sessions and encryption, the API server, bitcoind and
  `bitcoind-ctl`, which are not in the repository, beyond what the code relies
  on.
- A `set_member` without an access mode, which is decoded as mode 0: the model
  begins at the decoded command.
- Several notification handlers at once, and their order (section 3).

The message types that a client can send and the code does not dispatch are the
one command `Unknown`.
